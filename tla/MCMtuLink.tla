------------------------------- MODULE MCMtuLink -------------------------------
(* Small instance of MtuLink: two adapters that are alike and two sizes, both *)
(* of the menu, one of them the usual one.                                    *)
EXTENDS MtuLink, TLC

MCSymmetry == Permutations(Adapter)
=============================================================================
