---------------------------- MODULE ArchivePromise ----------------------------
(***************************************************************************)
(* What archive.json promises the owner of the machine, apart from how the *)
(* groups keep it: author[v] is who wrote the content value v has now, and *)
(* kept[v] says that the file holds content of v the program did not write.*)
(* A value under guard is overwritten only while its original is kept, and *)
(* no original is given up while the value is the program's.               *)
(***************************************************************************)
CONSTANTS
    Value,     \* registry values
    Guarded    \* the values among them whose groups save before they write

VARIABLES author, kept

vars == <<author, kept>>

Init ==
    /\ author = [v \in Value |-> "user"]
    /\ kept = [v \in Value |-> FALSE]

\* The program writes v; it may rewrite a value that is its own already.
Overwrite(v) ==
    /\ v \in Guarded => kept[v]
    /\ author' = [author EXCEPT ![v] = "program"]
    /\ UNCHANGED kept

\* v holds what someone else wrote: restored, or changed by its owner.
HandBack(v) ==
    /\ author' = [author EXCEPT ![v] = "user"]
    /\ UNCHANGED kept

\* The file is replaced in one step; originals still owed stay in it.
Replace ==
    /\ kept' \in [Value -> BOOLEAN]
    /\ \A v \in Value : kept[v] /\ author[v] = "program" => kept'[v]
    /\ UNCHANGED author

Next == Replace \/ \E v \in Value : Overwrite(v) \/ HandBack(v)

Spec == Init /\ [][Next]_vars

=============================================================================
