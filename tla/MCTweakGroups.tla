---------------------------- MODULE MCTweakGroups ----------------------------
(* Small instances of TweakGroups: a group of two values that saves last     *)
(* (tcp: one machine-wide value, one under an adapter) and the one-value     *)
(* group that saves first (system).                                          *)
EXTENDS TweakGroups

MCGroup == {"tcp", "system"}
MCValue == {"delay", "ack", "index"}
MCGroupOf == [v \in MCValue |-> IF v = "index" THEN "system" ELSE "tcp"]
MCPerAdapter == {"ack"}
MCEager == {"system"}
MCData == {"absent", "set"}
MCDataWide == {"absent", "custom", "set"}
MCTuned == [v \in MCValue |-> [d \in MCData |-> "set"]]
MCTunedWide == [v \in MCValue |-> [d \in MCDataWide |-> "set"]]
=============================================================================
