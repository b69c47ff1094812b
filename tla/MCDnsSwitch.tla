----------------------------- MODULE MCDnsSwitch -----------------------------
(* Small instance of DnsSwitch: one adapter, with its address from DHCP or   *)
(* not, two providers, one set of servers of the owner's own, and at most    *)
(* one kind of fault in a behaviour.                                         *)
EXTENDS DnsSwitch, TLC

MCAdapter == {"wifi"}
MCLease4 == [a \in MCAdapter |-> << <<"router", 1>> >>]
MCLease6 == [a \in MCAdapter |-> <<>>]
MCOwn == << <<"own", 1>>, <<"own", 2>> >>
MCSettings == {[v4 |-> <<>>, v6 |-> <<>>], [v4 |-> MCOwn, v6 |-> MCOwn]}
MCFaultSets == {{}, {"netsh"}, {"save"}, {"crash"}}
MCFaultFree == {{}}
\* No definition prefers one provider to the other.
MCSymmetry == Permutations(Provider)
=============================================================================
