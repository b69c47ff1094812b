---------------------------- MODULE MCAutoProvider ----------------------------
(* Small instance of AutoProvider: either provider faster, one that answers  *)
(* pings but no queries, one that answers nothing, and no network at all.    *)
EXTENDS AutoProvider

MCTimes(ping, dns) == [ping |-> ping, dns |-> dns]
MCNet(c, g) == [p \in Provider |-> IF p = Cloudflare THEN c ELSE g]
MCConditions ==
    {MCNet(MCTimes(1, 2), MCTimes(2, 3)),
     MCNet(MCTimes(2, 3), MCTimes(2, 2)),
     MCNet(MCTimes(1, None), MCTimes(2, 2)),
     MCNet(MCTimes(None, None), MCTimes(2, None)),
     MCNet(MCTimes(None, None), MCTimes(None, None))}
=============================================================================
