----------------------------- MODULE MCAppSession -----------------------------
(* Small instances of AppSession: a switch and mtu, with a size that its    *)
(* key does not step to; for liveness mtu alone, with two sizes and one off *)
(* its cycle.                                                               *)
EXTENDS AppSession

MCGroups == {"power", "mtu"}
MCSettings == [power |-> {"off", "on"}, mtu |-> {"off", "1500", "9000"}]
MCCycles == [power |-> <<"off", "on">>, mtu |-> <<"off", "1500">>]
MCMtuOnly == {"mtu"}
MCMtuSettings == [mtu |-> {"off", "1500", "1400", "9000"}]
MCMtuCycle == [mtu |-> <<"off", "1500", "1400">>]
=============================================================================
