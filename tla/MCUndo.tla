-------------------------------- MODULE MCUndo --------------------------------
(* Small instance of Undo: one group, two contents of the owner's, a clock   *)
(* that passes the end of a leap day and of a year, and two snapshots kept,  *)
(* so that the third apply prunes.                                           *)
EXTENDS Undo

MCInstant == <<951868799, 978307199, 978307200>>
MCFaultSets == {{}, {"restore"}, {"save"}, {"crash"}}
MCRestoreFails == {{"restore"}}
=============================================================================
