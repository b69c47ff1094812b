------------------------------- MODULE UndoProofs -------------------------------
(***************************************************************************)
(* Proofs about Undo, for every set of groups and contents, every clock,    *)
(* every number of snapshots and all faults together.                       *)
(***************************************************************************)
EXTENDS SnapshotNameProofs, FiniteSetTheorems

-----------------------------------------------------------------------------
\* What the temporary file holds when it is renamed, and where it comes from.
\* A snapshot may be half of an archive, so the swap of an undo is excepted.
Saving == {"open", "write", "rename"}
Filled ==
    /\ reg \in [Group -> Own \cup {Tuned}]
    /\ mem \in Archives
    /\ pc \in Saving => next \in {"apply", "revert", "swap", "end"}
    /\ pc \in Saving => job = "undo" \/ bytes \in Archives
    /\ pc = "rename" => tmp = bytes

LEMMA LoadedType == ASSUME NEW file PROVE Loaded(file) \in Archives
  BY DEF Loaded, Empty, Archives

LEMMA EnsureType == ASSUME Filled, NEW g \in Group PROVE Ensure(g) \in Archives
  BY DEF Filled, Ensure, Archives

LEMMA InitFilled == Init => Filled
  BY DEF Init, Filled, Empty, Archives, Saving

LEMMA NextFilled == Filled /\ [Next]_vars => Filled'
<1> SUFFICES ASSUME Filled, [Next]_vars PROVE Filled'
  OBVIOUS
<1> USE UndoAssumption
<1> USE DEF Filled, Saving
<1>1. CASE BeginApply
  BY <1>1 DEF BeginApply, files
<1>2. CASE NoSnapshot
  BY <1>2 DEF NoSnapshot, files, locals
<1>3. CASE BeginCopy
  BY <1>3 DEF BeginCopy
<1>4. CASE Copy
  BY <1>4 DEF Copy
<1>5. CASE Prune
  BY <1>5 DEF Prune, locals
<1>6. CASE Load
  BY <1>6, LoadedType DEF Load, files
<1>7. ASSUME NEW g \in Group, Apply(g) PROVE Filled'
  <2>1. mem' \in Archives /\ reg' \in [Group -> Own \cup {Tuned}]
    BY <1>7, EnsureType DEF Apply
  <2> QED
    BY <1>7, <2>1, EnsureType DEF Apply, WriteAtomic
<1>8. ASSUME NEW c \in {"revert", "undo"}, BeginRevert(c) PROVE Filled'
  BY <1>8, LoadedType DEF BeginRevert, files
<1>9. ASSUME NEW g \in Group, Restore(g) PROVE Filled'
  <2>1. mem' \in Archives
    BY <1>9 DEF Restore, Archives
  <2>2. reg' \in [Group -> Own \cup {Tuned}]
    BY <1>9 DEF Restore, Archives
  <2> QED
    BY <1>9, <2>1, <2>2 DEF Restore, WriteAtomic
<1>10. ASSUME NEW g \in Group, RestoreFails(g) PROVE Filled'
  BY <1>10 DEF RestoreFails, Retained, WriteAtomic
<1>11. CASE RevertDone
  BY <1>11 DEF RevertDone, WriteAtomic
<1>12. CASE Swap
  BY <1>12 DEF Swap, WriteAtomic
<1>13. CASE End
  BY <1>13 DEF End, Rest, Empty, Archives
<1>14. CASE Crash
  BY <1>14 DEF Crash, Rest, Empty, Archives
<1>15. CASE Open
  BY <1>15 DEF Open, locals
<1>16. CASE Write
  BY <1>16 DEF Write, locals
<1>17. CASE Rename
  BY <1>17 DEF Rename, Written, Return
<1>18. CASE SaveFails
  BY <1>18 DEF SaveFails, Return
<1>19. ASSUME NEW g \in Group, Owner(g) PROVE Filled'
  BY <1>19 DEF Owner, files, locals
<1>20. CASE Tick
  BY <1>20 DEF Tick, files, locals
<1>21. CASE UNCHANGED vars
  BY <1>21 DEF vars, files, locals
<1> QED
  BY <1>1, <1>2, <1>3, <1>4, <1>5, <1>6, <1>7, <1>8, <1>9, <1>10, <1>11, <1>12,
     <1>13, <1>14, <1>15, <1>16, <1>17, <1>18, <1>19, <1>20, <1>21 DEF Next

\* Only the rename of write_atomic changes archive.json.
LEMMA OnlyRename == ASSUME [Next]_vars PROVE Rename \/ archive' = archive
  BY DEF Next, vars, files, BeginApply, NoSnapshot, BeginCopy, Copy, Prune, Load, Apply,
         BeginRevert, Restore, RestoreFails, RevertDone, Swap, End, Crash, Open, Write,
         SaveFails, Owner, Tick

\* archive.json is replaced as a whole by what the process meant to save, with
\* any faults; half of an archive can only come from a snapshot an undo copies
\* (write_atomic, run_undo).
THEOREM ArchiveReplacedWhole == Spec => SavedWhole
<1>1. Filled /\ [Next]_vars =>
        [archive' # archive => archive' = bytes /\ (archive' = Torn => job = "undo")]_vars
  <2> SUFFICES ASSUME Filled, [Next]_vars, archive' # archive
               PROVE  archive' = bytes /\ (archive' = Torn => job = "undo")
    OBVIOUS
  <2>1. Rename
    BY OnlyRename
  <2> QED
    BY <2>1, UndoAssumption DEF Rename, Written, Filled, Saving
<1>2. Filled /\ [Next]_vars => Filled'
  BY NextFilled
<1> QED
  BY <1>1, <1>2, InitFilled, PTL DEF Spec, SavedWhole

-----------------------------------------------------------------------------
\* The snapshots have names in order, so that one of them is the last.
Last(n) == \A m \in DOMAIN snaps : m = n \/ Before(m, n)
Shelf ==
    /\ snaps \in [DOMAIN snaps -> Archives \cup {Torn}]
    /\ \A n \in DOMAIN snaps : Fields(n)
    /\ snaps # <<>> => \E n \in DOMAIN snaps : Last(n)

\* Where a command can be, and what it has at hand there.
Applying == {"snapshot", "copy", "prune", "load", "apply"}
Steps ==
    /\ pc = "off" => job = "none"
    /\ pc \in Applying => job = "apply"
    /\ pc \in {"revert", "swap", "end"} => job \in {"revert", "undo"}
    /\ pc \in Saving =>
         /\ bytes # None /\ job # "none"
         /\ next = "apply" <=> job = "apply"
         /\ next = "end" => job = "undo"
    /\ pc \in {"swap", "end"} \/ (pc \in Saving /\ next \in {"swap", "end"}) => todo = {}
    /\ pc = "copy" => stamp \in DOMAIN snaps /\ bytes \in Archives \cup {Torn}
    /\ stamp # None => pc = "copy"

\* While nothing fails, entries are the owner's, every value of the program's has
\* one, and the file is what the process holds, or soon is.
Pure(file) == \A g \in Group : Loaded(file)[g] \in Own \cup {None}
Owing(file) == \A g \in Group : reg[g] = Tuned => Loaded(file)[g] # None
Known ==
    faults = {} =>
      /\ Pure(archive) /\ Pure(mem) /\ \A n \in DOMAIN snaps : Pure(snaps[n])
      /\ pc \in Saving \cup {"copy"} => Pure(bytes)
      /\ pc \in {"apply", "revert", "swap"} \/ (pc = "end" /\ job = "revert") => Loaded(archive) = mem
      /\ pc \in Saving /\ next # "end" => bytes = mem
      /\ pc = "off" \/ pc \in Applying => Owing(archive)
      /\ pc = "apply" \/ (pc \in Saving /\ next = "apply") \/ job \in {"revert", "undo"} => Owing(mem)
      /\ job = "undo" => \A g \in Group \ todo : reg[g] # Tuned

\* While nothing fails but restores, an entry no undo has changed is the original,
\* in the file, and in what a command holds of it or is about to make of it.
Same(file) == \A g \in Group \ risk : Loaded(file)[g] = orig[g]
Owed ==
    faults \subseteq {"restore"} =>
      /\ \A g \in Group \ risk : orig[g] \in Own \cup {None} /\ (reg[g] = Tuned => orig[g] # None)
      /\ pc \in {"off", "end"} \cup Applying => Same(archive)
      /\ pc \in {"apply", "revert", "swap"} \/ (pc \in Saving /\ next # "end") => Same(mem)
      /\ pc \in {"apply", "revert", "swap"} => Loaded(archive) = mem
      /\ pc \in Saving => IF next = "end" THEN Same(bytes) ELSE bytes = mem

\* While nothing fails and the clock is not set back, the last snapshot is the
\* archive the last apply found.
ClockForward == \A i, j \in DOMAIN Instant : i <= j => Instant[i] <= Instant[j]
Now == Name(Instant[clock])
Remembered ==
    faults = {} =>
      /\ \A n \in DOMAIN snaps : n = Now \/ Before(n, Now)
      /\ pc \in {"snapshot", "copy"} => archive = before
      /\ pc = "copy" => bytes = before /\ Last(stamp)
      /\ before # Missing /\ pc \notin {"snapshot", "copy"} =>
           \E n \in DOMAIN snaps : Last(n) /\ snaps[n] = before
      /\ archive = Missing \/ before = Missing => snaps = <<>>
      /\ pc = "end" /\ job = "undo" => IF before = Missing THEN Loaded(archive) = mem ELSE archive = before
      /\ pc \in Saving /\ next = "end" => bytes = before

\* While the owner changes nothing, an entry that the last apply found is in the
\* archive (always, while it runs) or its value is back; after an undo every entry
\* is its value.
Found(g) == Loaded(before)[g]
Holds(file) == \A g \in Group : Found(g) # None => Loaded(file)[g] = Found(g)
Extends(file) ==
    \A g \in Group : Found(g) # None =>
      Loaded(file)[g] = Found(g) \/ (Loaded(file)[g] = None /\ reg[g] = Found(g))
Settled(file) == \A g \in Group : Loaded(file)[g] # None => Loaded(file)[g] = reg[g]
Harmless ==
    faults = {} =>
      /\ job \in {"revert", "undo"} => \A g \in Group \ todo : mem[g] = None
      /\ job = "apply" => ~undone /\ Holds(archive) /\ (pc \in {"apply"} \cup Saving => Holds(mem))
      /\ ~touched =>
           /\ Extends(archive)
           /\ pc \in {"apply", "revert", "swap"} \/ (pc \in Saving /\ next # "end") => Extends(mem)
           /\ job = "undo" => \A g \in Group \ todo : Found(g) # None => reg[g] = Found(g)
           /\ undone => Settled(archive) /\ Settled(mem) /\ Settled(before)
           /\ undone /\ pc \in Saving => Settled(bytes)

-----------------------------------------------------------------------------
\* Types, and the order of the snapshots.

Sound == TypeOK /\ Filled /\ Shelf /\ Steps

LEMMA LatestIsLast ==
  ASSUME Shelf, snaps # <<>>
  PROVE  /\ Latest \in DOMAIN snaps /\ Last(Latest)
         /\ \A n \in DOMAIN snaps : Last(n) => n = Latest
<1>1. \E n \in DOMAIN snaps : \A m \in DOMAIN snaps : m = n \/ Before(m, n)
  BY DEF Shelf, Last
<1>2. Latest \in DOMAIN snaps /\ Last(Latest)
  BY <1>1 DEF Latest, Last
<1>3. ASSUME NEW n \in DOMAIN snaps, Last(n) PROVE n = Latest
  <2>1. Fields(n) /\ Fields(Latest)
    BY <1>2 DEF Shelf
  <2>2. n = Latest \/ (Before(n, Latest) /\ Before(Latest, n))
    BY <1>2, <1>3 DEF Last
  <2> QED
    BY <2>1, <2>2, BeforeOrders
<1> QED
  BY <1>2, <1>3

LEMMA NowFields == TypeOK => Fields(Now) /\ Instant[clock] \in Nat /\ clock \in Nat
<1>1. TypeOK => Instant[clock] \in Nat /\ clock \in Nat
  BY UndoAssumption DEF TypeOK
<1> QED
  BY <1>1, NamesInOrderOfTime DEF Now

\* A new name is before or after the last one, or is there already.
LEMMA ShelfGrows ==
  ASSUME Sound, NEW t, Fields(t), NEW file \in Archives \cup {Torn},
         snaps' = [n \in DOMAIN snaps \cup {t} |-> IF n = t THEN file ELSE snaps[n]]
  PROVE  /\ DOMAIN snaps' = DOMAIN snaps \cup {t} /\ Shelf'
         /\ (\A n \in DOMAIN snaps : n = t \/ Before(n, t)) => Last(t)'
<1>1. DOMAIN snaps' = DOMAIN snaps \cup {t}
  OBVIOUS
<1>2. snaps' \in [DOMAIN snaps' -> Archives \cup {Torn}] /\ \A n \in DOMAIN snaps' : Fields(n)
  BY DEF Sound, Shelf
<1>3. ASSUME \A n \in DOMAIN snaps : n = t \/ Before(n, t) PROVE Last(t)'
  BY <1>1, <1>3 DEF Last
<1>4. \E n \in DOMAIN snaps' : Last(n)'
  <2>1. CASE snaps = <<>>
    BY <1>3, <2>1
  <2>2. CASE snaps # <<>>
    <3>1. PICK l \in DOMAIN snaps : Last(l)
      BY <2>2 DEF Sound, Shelf
    <3>2. Fields(l) /\ \A n \in DOMAIN snaps : Fields(n)
      BY <3>1 DEF Sound, Shelf
    <3>3. CASE l = t \/ Before(l, t)
      <4>1. \A n \in DOMAIN snaps : n = t \/ Before(n, t)
        BY <3>1, <3>2, <3>3, BeforeOrders DEF Last
      <4> QED
        BY <1>1, <1>3, <4>1
    <3>4. CASE Before(t, l)
      BY <1>1, <3>1, <3>4 DEF Last
    <3> QED
      BY <3>2, <3>3, <3>4, BeforeOrders
  <2> QED
    BY <2>1, <2>2
<1> QED
  BY <1>1, <1>2, <1>3, <1>4 DEF Shelf

\* prune keeps the last snapshot.
LEMMA ShelfPruned ==
  ASSUME Sound, NEW left \in {Newest(DOMAIN snaps), DOMAIN snaps},
         snaps' = [n \in left |-> snaps[n]]
  PROVE  /\ left \subseteq DOMAIN snaps /\ Shelf'
         /\ \A n \in DOMAIN snaps : Last(n) => n \in left /\ Last(n)'
<1>1. left \subseteq DOMAIN snaps /\ DOMAIN snaps' = left
  BY DEF Newest
<1>2. ASSUME NEW n \in DOMAIN snaps, Last(n) PROVE n \in left
  <2>1. {m \in DOMAIN snaps : Before(n, m)} = {}
    <3> SUFFICES ASSUME NEW m \in DOMAIN snaps, Before(n, m) PROVE FALSE
      OBVIOUS
    <3>1. m = n \/ Before(m, n)
      BY <1>2 DEF Last
    <3>2. Fields(m) /\ Fields(n)
      BY DEF Sound, Shelf
    <3> QED
      BY <3>1, <3>2, BeforeOrders
  <2>2. Cardinality({m \in DOMAIN snaps : Before(n, m)}) = 0
    BY <2>1, FS_EmptySet
  <2> QED
    BY <2>2, UndoAssumption DEF Newest
<1>3. \A n \in DOMAIN snaps : Last(n) => Last(n)'
  BY <1>1 DEF Last
<1>4. snaps' # <<>> => \E n \in DOMAIN snaps' : Last(n)'
  <2> SUFFICES ASSUME snaps' # <<>> PROVE \E n \in DOMAIN snaps' : Last(n)'
    OBVIOUS
  <2>1. snaps # <<>>
    BY <1>1
  <2> QED
    BY <1>1, <1>2, <1>3, <2>1 DEF Sound, Shelf
<1>5. snaps' \in [DOMAIN snaps' -> Archives \cup {Torn}] /\ \A n \in DOMAIN snaps' : Fields(n)
  BY <1>1 DEF Sound, Shelf
<1> QED
  BY <1>1, <1>2, <1>3, <1>4, <1>5 DEF Shelf

LEMMA InitSound == Init => Sound
<1> SUFFICES ASSUME Init PROVE Sound
  OBVIOUS
<1>1. Empty \in Archives /\ 1 \in DOMAIN Instant
  BY UndoAssumption DEF Empty, Archives
<1>2. TypeOK
  BY <1>1 DEF Init, TypeOK
<1>3. Shelf
  BY DEF Init, Shelf
<1> QED
  BY <1>2, <1>3, InitFilled DEF Init, Sound, Steps, Applying, Saving

LEMMA OrigType ==
  ASSUME TypeOK, [Next]_vars
  PROVE  orig' \in Archives
<1>1. orig \in Archives /\ reg \in [Group -> Own \cup {Tuned}]
  BY DEF TypeOK
<1>2. ASSUME NEW g \in Group, Apply(g) PROVE orig' \in Archives
  BY <1>1, <1>2 DEF Apply, Archives
<1>3. ASSUME NEW g \in Group, Restore(g) PROVE orig' \in Archives
  BY <1>1, <1>3 DEF Restore, Archives
<1>4. ASSUME \A g \in Group : ~Apply(g) /\ ~Restore(g) PROVE orig' = orig
  BY <1>4 DEF Next, vars, observers, BeginApply, NoSnapshot, BeginCopy, Copy, Prune, Load,
         BeginRevert, RestoreFails, RevertDone, Swap, End, Crash, Open, Write, Rename, Return,
         SaveFails, Owner, Tick
<1> QED
  BY <1>1, <1>2, <1>3, <1>4

LEMMA NextSound == Sound /\ [Next]_vars => Sound'
<1> SUFFICES ASSUME Sound, [Next]_vars PROVE TypeOK' /\ Shelf' /\ Steps'
  BY NextFilled DEF Sound
<1>0. TypeOK /\ Filled /\ Shelf /\ Steps
  BY DEF Sound
<1> DEFINE Goal == TypeOK' /\ Shelf' /\ Steps'
<1>o. orig' \in Archives
  BY <1>0, OrigType
<1> USE UndoAssumption
<1>a. ASSUME snaps' = snaps PROVE Shelf'
  BY <1>0, <1>o, <1>a DEF Shelf, Last
<1>b. ASSUME Rest, UNCHANGED <<reg, files, clock>> PROVE Goal
  <2>1. Empty \in Archives
    BY DEF Empty, Archives
  <2> QED
    BY <1>0, <1>o, <1>a, <1>b, <2>1 DEF Rest, files, TypeOK, Steps, Applying, Saving
<1>c. ASSUME NEW result \in BOOLEAN, pc \in Saving, Return(result), UNCHANGED snaps,
             {archive', tmp'} \subseteq Archives \cup {Missing, Torn}
      PROVE  Goal
  BY <1>0, <1>o, <1>a, <1>c DEF Return, TypeOK, Steps, Applying, Saving, Filled
<1>1. CASE BeginApply
  BY <1>0, <1>o, <1>1, <1>a DEF BeginApply, files, TypeOK, Steps, Applying, Saving
<1>2. CASE NoSnapshot
  BY <1>0, <1>o, <1>2, <1>a DEF NoSnapshot, files, locals, TypeOK, Steps, Applying, Saving
<1>3. CASE BeginCopy
  <2>1. Fields(Now) /\ stamp' = Now /\ archive \in Archives \cup {Torn}
    BY <1>0, <1>o, <1>3, NowFields DEF BeginCopy, Now, TypeOK
  <2>2. snaps' = [n \in DOMAIN snaps \cup {Now} |-> IF n = Now THEN Torn ELSE snaps[n]]
    BY <1>3, <2>1 DEF BeginCopy
  <2>3. DOMAIN snaps' = DOMAIN snaps \cup {Now} /\ Shelf'
    BY <2>1, <2>2, ShelfGrows
  <2>4. TypeOK'
    BY <1>0, <1>o, <1>3, <2>1, <2>3 DEF BeginCopy, TypeOK, Shelf
  <2>5. Steps'
    BY <1>0, <1>o, <1>3, <2>1, <2>3 DEF BeginCopy, Steps, Applying, Saving
  <2> QED
    BY <2>3, <2>4, <2>5
<1>4. CASE Copy
  <2>1. stamp \in DOMAIN snaps /\ bytes \in Archives \cup {Torn}
    BY <1>0, <1>o, <1>4 DEF Copy, Steps
  <2>2. Shelf'
    <3>1. CASE snaps' = [snaps EXCEPT ![stamp] = bytes]
      <4>1. DOMAIN snaps' = DOMAIN snaps /\ snaps' \in [DOMAIN snaps' -> Archives \cup {Torn}]
        BY <1>0, <1>o, <2>1, <3>1 DEF Shelf
      <4>2. snaps # <<>>
        BY <2>1
      <4> QED
        BY <1>0, <1>o, <4>1, <4>2 DEF Shelf, Last
    <3> QED
      BY <1>4, <1>a, <3>1 DEF Copy
  <2>3. TypeOK'
    BY <1>0, <1>o, <1>4, <2>2 DEF Copy, TypeOK, Shelf
  <2> QED
    BY <1>0, <1>o, <1>4, <2>2, <2>3 DEF Copy, Steps, Applying, Saving
<1>5. CASE Prune
  <2>1. PICK left \in {Newest(DOMAIN snaps), DOMAIN snaps} : snaps' = [n \in left |-> snaps[n]]
    BY <1>5 DEF Prune
  <2>2. Shelf'
    BY <2>1, ShelfPruned
  <2>3. stamp = None
    BY <1>0, <1>o, <1>5 DEF Prune, Steps
  <2>4. TypeOK'
    BY <1>0, <1>o, <1>5, <2>2, <2>3 DEF Prune, locals, TypeOK, Shelf
  <2> QED
    BY <1>0, <1>o, <1>5, <2>2, <2>3, <2>4 DEF Prune, locals, Steps, Applying, Saving
<1>6. CASE Load
  BY <1>0, <1>o, <1>6, <1>a, LoadedType DEF Load, files, TypeOK, Steps, Applying, Saving
<1>7. ASSUME NEW g \in Group, Apply(g) PROVE Goal
  <2>1. mem' \in Archives /\ reg' \in [Group -> Own \cup {Tuned}] /\ Ensure(g) \in Archives
    BY <1>0, <1>o, <1>7, EnsureType DEF Apply, Filled
  <2>2. TypeOK'
    BY <1>0, <1>o, <1>7, <2>1 DEF Apply, WriteAtomic, files, TypeOK
  <2>3. Ensure(g) # None
    BY <2>1
  <2> QED
    BY <1>0, <1>o, <1>7, <1>a, <2>2, <2>3 DEF Apply, WriteAtomic, files, Steps, Applying, Saving
<1>8. ASSUME NEW c \in {"revert", "undo"}, BeginRevert(c) PROVE Goal
  BY <1>0, <1>o, <1>8, <1>a, LoadedType DEF BeginRevert, files, TypeOK, Steps, Applying, Saving
<1>9. ASSUME NEW g \in Group, Restore(g) PROVE Goal
  <2>1. mem' \in Archives /\ reg' \in [Group -> Own \cup {Tuned}]
    BY <1>0, <1>o, <1>9 DEF Restore, Archives, Filled
  <2>2. TypeOK'
    BY <1>0, <1>o, <1>9, <2>1 DEF Restore, WriteAtomic, files, TypeOK
  <2>3. mem' # None
    BY <2>1
  <2> QED
    BY <1>0, <1>o, <1>9, <1>a, <2>2, <2>3 DEF Restore, WriteAtomic, files, Steps, Applying, Saving
<1>10. ASSUME NEW g \in Group, RestoreFails(g) PROVE Goal
  <2>1. mem' = mem /\ mem \in Archives /\ mem # None
    BY <1>0, <1>o, <1>10 DEF RestoreFails, Retained, Filled
  <2>2. TypeOK'
    BY <1>0, <1>o, <1>10, <2>1 DEF RestoreFails, WriteAtomic, files, TypeOK
  <2> QED
    BY <1>0, <1>o, <1>10, <1>a, <2>1, <2>2 DEF RestoreFails, WriteAtomic, files, Steps, Applying, Saving
<1>11. CASE RevertDone
  <2>1. mem \in Archives /\ mem # None
    BY <1>0 DEF Filled
  <2>2. TypeOK'
    BY <1>0, <1>o, <1>11, <2>1 DEF RevertDone, WriteAtomic, files, TypeOK
  <2> QED
    BY <1>0, <1>o, <1>11, <1>a, <2>1, <2>2 DEF RevertDone, WriteAtomic, files, Steps, Applying, Saving
<1>12. CASE Swap
  <2>1. snaps # <<>> => snaps[Latest] \in Archives \cup {Torn}
    BY <1>0, <1>o, LatestIsLast DEF Shelf
  <2>2. TypeOK'
    BY <1>0, <1>o, <1>12, <2>1 DEF Swap, WriteAtomic, files, TypeOK
  <2>3. snaps # <<>> => snaps[Latest] # None
    BY <2>1
  <2> QED
    BY <1>0, <1>o, <1>12, <1>a, <2>2, <2>3 DEF Swap, WriteAtomic, files, Steps, Applying, Saving
<1>13. CASE End
  BY <1>13, <1>b DEF End
<1>14. CASE Crash
  BY <1>14, <1>b DEF Crash
<1>15. CASE Open
  BY <1>0, <1>o, <1>15, <1>a DEF Open, locals, TypeOK, Steps, Applying, Saving
<1>16. CASE Write
  <2>1. bytes \in Archives \cup {Torn}
    BY <1>0, <1>o, <1>16 DEF Write, Steps, Saving, TypeOK
  <2> QED
    BY <1>0, <1>o, <1>16, <1>a, <2>1 DEF Write, locals, TypeOK, Steps, Applying, Saving
<1>17. CASE Rename
  BY <1>0, <1>o, <1>17, <1>c DEF Rename, Written, TypeOK, Saving
<1>18. CASE SaveFails
  <2>1. (ok /\ next \notin {"apply", "revert"}) \in BOOLEAN
    OBVIOUS
  <2> QED
    BY <1>0, <1>o, <1>18, <1>c, <2>1 DEF SaveFails, files, TypeOK, Saving
<1>19. ASSUME NEW g \in Group, Owner(g) PROVE Goal
  BY <1>0, <1>o, <1>19, <1>a DEF Owner, files, locals, TypeOK, Steps, Applying, Saving
<1>20. CASE Tick
  BY <1>0, <1>o, <1>20, <1>a DEF Tick, files, locals, TypeOK, Steps, Applying, Saving
<1>21. CASE UNCHANGED vars
  BY <1>0, <1>o, <1>21, <1>a DEF vars, files, locals, TypeOK, Steps, Applying, Saving
<1> QED
  BY <1>1, <1>2, <1>3, <1>4, <1>5, <1>6, <1>7, <1>8, <1>9, <1>10, <1>11, <1>12,
     <1>13, <1>14, <1>15, <1>16, <1>17, <1>18, <1>19, <1>20, <1>21 DEF Next

\* The variables keep their types: whatever fails, files hold archives or a part
\* of one, and a command is where its name says (write_atomic, run_undo).
THEOREM TypeCorrect == Spec => []TypeOK
<1>1. Sound => TypeOK
  BY DEF Sound
<1> QED
  BY <1>1, InitSound, NextSound, PTL DEF Spec

-----------------------------------------------------------------------------
\* What is known while nothing fails, or nothing but restores.

LEMMA FaultsFixed == [Next]_vars => faults' = faults
  BY DEF Next, vars, BeginApply, NoSnapshot, BeginCopy, Copy, Prune, Load, Apply, BeginRevert,
         Restore, RestoreFails, RevertDone, Swap, End, Crash, Open, Write, Rename, Return,
         SaveFails, Owner, Tick

LEMMA LoadedIs == \A file : Loaded(file) = IF file \in Archives THEN file ELSE Empty
  BY DEF Loaded

LEMMA NextKnown == Sound /\ Sound' /\ Known /\ [Next]_vars => Known'
<1> SUFFICES ASSUME Sound, Sound', Known, [Next]_vars, faults' = {} PROVE Known'
  BY DEF Known
<1> USE UndoAssumption
<1>0. /\ faults = {}
      /\ Pure(archive) /\ Pure(mem) /\ \A n \in DOMAIN snaps : Pure(snaps[n])
      /\ pc \in Saving \cup {"copy"} => Pure(bytes)
      /\ pc \in {"apply", "revert", "swap"} \/ (pc = "end" /\ job = "revert") => Loaded(archive) = mem
      /\ pc \in Saving /\ next # "end" => bytes = mem
      /\ pc = "off" \/ pc \in Applying => Owing(archive)
      /\ pc = "apply" \/ (pc \in Saving /\ next = "apply") \/ job \in {"revert", "undo"} => Owing(mem)
      /\ job = "undo" => \A g \in Group \ todo : reg[g] # Tuned
  BY FaultsFixed DEF Known
<1>a. TypeOK /\ Steps /\ mem \in Archives /\ Loaded(mem) = mem
  BY LoadedIs DEF Sound, Filled
<1>b. mem' \in Archives /\ Loaded(mem') = mem' /\ Steps' /\ reg' \in [Group -> Own \cup {Tuned}]
  BY LoadedIs DEF Sound, Filled
<1>c. \A f : Loaded(f) \in Archives /\ Loaded(Loaded(f)) = Loaded(f)
  BY LoadedType, LoadedIs
<1>d. \A g \in Group : Loaded(Torn)[g] = None /\ Empty[g] = None
  BY LoadedIs DEF Empty
<1> USE DEF Pure, Owing
<1>1. CASE BeginApply
  BY <1>0, <1>a, <1>1 DEF BeginApply, files, Known, Applying, Saving, Steps
<1>2. CASE NoSnapshot
  BY <1>0, <1>a, <1>2 DEF NoSnapshot, files, locals, observers, Known, Applying, Saving, Steps
<1>3. CASE BeginCopy
  <2>1. \A n \in DOMAIN snaps' : snaps'[n] = Torn \/ (n \in DOMAIN snaps /\ snaps'[n] = snaps[n])
    BY <1>3 DEF BeginCopy
  <2>2. \A n \in DOMAIN snaps' : Pure(snaps'[n])
    BY <1>0, <1>d, <2>1
  <2> QED
    <3>1. /\ pc = "snapshot" /\ pc' = "copy" /\ bytes' = archive
          /\ UNCHANGED <<reg, archive, mem, job, next, todo>>
      BY <1>3 DEF BeginCopy, observers
    <3> QED
      BY <1>0, <1>a, <2>2, <3>1 DEF Known, Applying, Saving, Steps
<1>4. CASE Copy
  <2>1. DOMAIN snaps' = DOMAIN snaps /\ \A n \in DOMAIN snaps' : snaps'[n] = bytes \/ snaps'[n] = snaps[n]
    BY <1>4 DEF Copy
  <2>2. \A n \in DOMAIN snaps' : Pure(snaps'[n])
    BY <1>0, <1>4, <2>1 DEF Copy
  <2> QED
    BY <1>0, <1>a, <1>4, <2>2 DEF Copy, observers, Known, Applying, Saving, Steps
<1>5. CASE Prune
  <2>1. PICK left \in {Newest(DOMAIN snaps), DOMAIN snaps} : snaps' = [n \in left |-> snaps[n]]
    BY <1>5 DEF Prune
  <2>2. \A n \in DOMAIN snaps' : n \in DOMAIN snaps /\ snaps'[n] = snaps[n]
    BY <2>1 DEF Newest
  <2>3. \A n \in DOMAIN snaps' : Pure(snaps'[n])
    BY <1>0, <2>2
  <2> QED
    BY <1>0, <1>a, <1>5, <2>3 DEF Prune, locals, observers, Known, Applying, Saving, Steps
<1>6. CASE Load
  BY <1>0, <1>a, <1>c, <1>6 DEF Load, files, observers, Known, Applying, Saving, Steps
<1>7. ASSUME NEW g \in Group, Apply(g) PROVE Known'
  <2>1. pc = "apply" /\ mem' = Ensure(g) /\ UNCHANGED <<archive, snaps, job>>
    BY <1>7 DEF Apply, files, observers
  <2>2. \A h \in Group : mem'[h] = IF h = g /\ mem[g] = None THEN reg[g] ELSE mem[h]
    BY <1>a, <2>1 DEF Ensure, Archives
  <2>3. \A h \in Group : mem'[h] \in Own \cup {None}
    <3>1. \A h \in Group : mem[h] \in Own \cup {None} /\ (reg[h] = Tuned => mem[h] # None)
      BY <1>0, <1>a, <2>1
    <3> QED
      BY <1>a, <2>2, <3>1 DEF TypeOK
  <2>4. \A h \in Group : reg'[h] = Tuned => mem'[h] # None
    <3>1. mem'[g] # None
      BY <1>a, <2>2 DEF TypeOK
    <3>2. \A h \in Group \ {g} : reg'[h] = reg[h] /\ mem'[h] = mem[h]
      BY <1>7, <1>a, <2>2 DEF Apply, TypeOK
    <3> QED
      BY <1>0, <1>a, <2>1, <3>1, <3>2
  <2>5. \/ pc' = "apply" /\ mem' = mem
        \/ pc' = "open" /\ next' = "apply" /\ bytes' = mem'
    BY <1>7, <2>1 DEF Apply, WriteAtomic, Ensure
  <2>6. job = "apply"
    BY <1>a, <2>1 DEF Steps, Applying
  <2> QED
    BY <1>0, <1>b, <2>1, <2>3, <2>4, <2>5, <2>6 DEF Known, Applying, Saving
<1>8. ASSUME NEW c \in {"revert", "undo"}, BeginRevert(c) PROVE Known'
  BY <1>0, <1>a, <1>c, <1>8 DEF BeginRevert, files, observers, Known, Applying, Saving, Steps
<1>9. ASSUME NEW g \in Group, Restore(g) PROVE Known'
  <2>1. /\ pc = "revert" /\ todo' = todo \ {g} /\ mem' = [mem EXCEPT ![g] = None]
        /\ UNCHANGED <<archive, snaps, job>>
    BY <1>9 DEF Restore, files, observers
  <2>2. mem'[g] = None /\ \A h \in Group \ {g} : mem'[h] = mem[h] /\ reg'[h] = reg[h]
    BY <1>9, <1>a, <2>1 DEF Restore, Archives, TypeOK
  <2>3. reg'[g] # Tuned
    BY <1>9, <1>0, <1>a, <2>1 DEF Restore, TypeOK, Steps
  <2>4. \/ pc' = "revert" /\ mem' = mem
        \/ pc' = "open" /\ next' = "revert" /\ bytes' = mem'
    BY <1>9, <1>a DEF Restore, WriteAtomic, Archives
  <2>5. job \in {"revert", "undo"}
    BY <1>a, <2>1 DEF Steps
  <2>6. Pure(mem') /\ \A h \in Group : reg'[h] = Tuned => Loaded(mem')[h] # None
    BY <1>0, <1>a, <1>b, <2>2, <2>3, <2>5
  <2>7. job = "undo" => \A h \in Group \ todo' : reg'[h] # Tuned
    BY <1>0, <2>1, <2>2, <2>3
  <2> QED
    BY <1>0, <1>b, <2>1, <2>4, <2>5, <2>6, <2>7 DEF Known, Applying, Saving
<1>11. CASE RevertDone
  BY <1>0, <1>a, <1>11 DEF RevertDone, WriteAtomic, files, observers, Known, Applying, Saving, Steps
<1>12. CASE Swap
  <2>1. snaps # <<>> => Pure(snaps[Latest])
    BY <1>0, LatestIsLast DEF Sound
  <2> QED
    BY <1>0, <1>a, <1>12, <2>1 DEF Swap, WriteAtomic, files, observers, Known, Applying, Saving, Steps
<1>13. CASE End
  <2>1. Pure(Empty)
    BY LoadedIs, <1>d
  <2> QED
    BY <1>0, <1>a, <1>13, <2>1 DEF End, Rest, files, Known, Applying, Saving, Steps
<1>15. CASE Open
  BY <1>0, <1>a, <1>15 DEF Open, locals, observers, Known, Applying, Saving, Steps
<1>16. CASE Write
  BY <1>0, <1>a, <1>16 DEF Write, locals, observers, Known, Applying, Saving, Steps
<1>17. CASE Rename
  <2>1. /\ archive' = bytes /\ pc = "rename" /\ pc' = next
        /\ next \in {"apply", "revert", "swap", "end"}
        /\ UNCHANGED <<reg, snaps, job, mem, todo>>
    BY <1>17 DEF Rename, Written, Return, observers, Sound, Filled, Saving
  <2>2. next = "apply" => job = "apply"
    BY <1>a, <2>1 DEF Steps, Saving
  <2>3. next # "end" => Loaded(archive') = mem'
    BY <1>0, <1>a, <2>1 DEF Saving
  <2>4. next = "end" => job = "undo"
    BY <1>a, <2>1 DEF Steps, Saving
  <2>5. job \in {"apply", "revert", "undo"}
    BY <1>a, <2>1 DEF Steps, Saving, TypeOK
  <2> QED
    BY <1>0, <2>1, <2>2, <2>3, <2>4, <2>5 DEF Known, Applying, Saving
<1>19. ASSUME NEW g \in Group, Owner(g) PROVE Known'
  <2>1. \A h \in Group : reg'[h] = Tuned => reg[h] = Tuned
    BY <1>a, <1>19 DEF Owner, TypeOK
  <2> QED
    BY <1>0, <1>a, <1>19, <2>1 DEF Owner, files, locals, Known, Applying, Saving, Steps
<1>20. CASE Tick
  BY <1>0, <1>a, <1>20 DEF Tick, files, locals, observers, Known, Applying, Saving, Steps
<1>21. CASE UNCHANGED vars
  BY <1>0, <1>a, <1>21 DEF vars, files, locals, observers, Known, Applying, Saving, Steps
<1>22. CASE Crash \/ SaveFails \/ \E g \in Group : RestoreFails(g)
  BY <1>0, <1>22 DEF Crash, SaveFails, RestoreFails
<1> QED
  BY <1>1, <1>2, <1>3, <1>4, <1>5, <1>6, <1>7, <1>8, <1>9, <1>11, <1>12, <1>13,
     <1>15, <1>16, <1>17, <1>19, <1>20, <1>21, <1>22 DEF Next

LEMMA NextOwed == Sound /\ Sound' /\ Owed /\ [Next]_vars => Owed'
<1> SUFFICES ASSUME Sound, Sound', Owed, [Next]_vars, faults' \subseteq {"restore"} PROVE Owed'
  BY DEF Owed
<1> USE UndoAssumption
<1>0. /\ "save" \notin faults /\ "crash" \notin faults
      /\ \A g \in Group \ risk : orig[g] \in Own \cup {None} /\ (reg[g] = Tuned => orig[g] # None)
      /\ pc \in {"off", "end"} \cup Applying => Same(archive)
      /\ pc \in {"apply", "revert", "swap"} \/ (pc \in Saving /\ next # "end") => Same(mem)
      /\ pc \in {"apply", "revert", "swap"} => Loaded(archive) = mem
      /\ pc \in Saving => IF next = "end" THEN Same(bytes) ELSE bytes = mem
  BY FaultsFixed DEF Owed
<1>a. TypeOK /\ Steps /\ mem \in Archives /\ Loaded(mem) = mem /\ orig \in Archives
  BY LoadedIs DEF Sound, Filled, TypeOK
<1>b. mem' \in Archives /\ Loaded(mem') = mem' /\ Steps' /\ reg' \in [Group -> Own \cup {Tuned}]
  BY LoadedIs DEF Sound, Filled
<1>c. \A f : Loaded(f) \in Archives /\ Loaded(Loaded(f)) = Loaded(f)
  BY LoadedType, LoadedIs
<1> USE DEF Same
<1>1. CASE BeginApply
  BY <1>0, <1>a, <1>1 DEF BeginApply, files, Owed, Applying, Saving, Steps
<1>2. CASE NoSnapshot \/ BeginCopy \/ Copy \/ Prune
  <2>1. /\ pc \in {"snapshot", "copy", "prune"} /\ pc' \in {"copy", "prune", "load"}
        /\ UNCHANGED <<reg, archive, orig, risk>>
    BY <1>2 DEF NoSnapshot, BeginCopy, Copy, Prune, files, locals, observers
  <2> QED
    BY <1>0, <2>1 DEF Owed, Applying, Saving
<1>6. CASE Load
  BY <1>0, <1>a, <1>c, <1>6 DEF Load, files, observers, Owed, Applying, Saving, Steps
<1>7. ASSUME NEW g \in Group, Apply(g) PROVE Owed'
  <2>1. /\ pc = "apply" /\ mem' = Ensure(g) /\ reg' = [reg EXCEPT ![g] = Tuned]
        /\ orig' = IF orig[g] = None THEN [orig EXCEPT ![g] = reg[g]] ELSE orig
        /\ UNCHANGED <<archive, risk>>
    BY <1>7 DEF Apply, files
  <2>2. \A h \in Group \ {g} : mem'[h] = mem[h] /\ orig'[h] = orig[h] /\ reg'[h] = reg[h]
    BY <1>a, <2>1 DEF Ensure, Archives, TypeOK
  <2>3. /\ mem'[g] = IF mem[g] = None THEN reg[g] ELSE mem[g]
        /\ orig'[g] = IF orig[g] = None THEN reg[g] ELSE orig[g]
    BY <1>a, <2>1 DEF Ensure, Archives
  <2>4. g \notin risk => mem'[g] = orig'[g] /\ orig'[g] \in Own
    BY <1>0, <1>a, <2>1, <2>3 DEF TypeOK
  <2>5. \A h \in Group \ risk : /\ orig'[h] \in Own \cup {None} /\ (reg'[h] = Tuned => orig'[h] # None)
                                /\ mem'[h] = orig'[h]
    <3> SUFFICES ASSUME NEW h \in Group \ risk
                 PROVE  /\ orig'[h] \in Own \cup {None} /\ (reg'[h] = Tuned => orig'[h] # None)
                        /\ mem'[h] = orig'[h]
      OBVIOUS
    <3>1. CASE h = g
      BY <2>4, <3>1
    <3>2. CASE h # g
      BY <1>0, <1>a, <2>1, <2>2, <3>2
    <3> QED
      BY <3>1, <3>2
  <2>6. \/ pc' = "apply" /\ mem' = mem
        \/ pc' = "open" /\ next' = "apply" /\ bytes' = mem'
    BY <1>7, <2>1 DEF Apply, WriteAtomic, Ensure
  <2> QED
    BY <1>0, <1>a, <1>b, <2>1, <2>5, <2>6 DEF Owed, Applying, Saving
<1>8. ASSUME NEW c \in {"revert", "undo"}, BeginRevert(c) PROVE Owed'
  BY <1>0, <1>a, <1>c, <1>8 DEF BeginRevert, files, observers, Owed, Applying, Saving, Steps
<1>9. ASSUME NEW g \in Group, Restore(g) PROVE Owed'
  <2>1. /\ pc = "revert" /\ mem' = [mem EXCEPT ![g] = None]
        /\ UNCHANGED archive
    BY <1>9 DEF Restore, files
  <2>2. mem'[g] = None /\ reg'[g] = (IF mem[g] = None THEN reg[g] ELSE mem[g])
    BY <1>9, <1>a, <2>1 DEF Restore, Archives, TypeOK
  <2>3. \A h \in Group \ {g} : mem'[h] = mem[h] /\ reg'[h] = reg[h]
    BY <1>9, <1>a, <2>1 DEF Restore, Archives, TypeOK
  <2>4. g \notin risk => reg'[g] # Tuned
    BY <1>0, <1>a, <2>1, <2>2
  <2>5. /\ \A h \in Group \ {g} : orig'[h] = orig[h] /\ (h \in risk' <=> h \in risk)
        /\ g \notin risk' => orig'[g] = None /\ reg'[g] # Tuned
    BY <1>9, <1>a, <2>4 DEF Restore, Archives
  <2>6. \A h \in Group \ risk' : /\ orig'[h] \in Own \cup {None} /\ (reg'[h] = Tuned => orig'[h] # None)
                                 /\ mem'[h] = orig'[h]
    <3> SUFFICES ASSUME NEW h \in Group \ risk'
                 PROVE  /\ orig'[h] \in Own \cup {None} /\ (reg'[h] = Tuned => orig'[h] # None)
                        /\ mem'[h] = orig'[h]
      OBVIOUS
    <3>1. CASE h = g
      BY <2>2, <2>5, <3>1
    <3>2. CASE h # g
      BY <1>0, <1>a, <2>1, <2>3, <2>5, <3>2
    <3> QED
      BY <3>1, <3>2
  <2>7. \/ pc' = "revert" /\ mem' = mem
        \/ pc' = "open" /\ next' = "revert" /\ bytes' = mem'
    BY <1>9, <1>a DEF Restore, WriteAtomic, Archives
  <2> QED
    BY <1>0, <1>b, <2>1, <2>6, <2>7 DEF Owed, Applying, Saving
<1>10. ASSUME NEW g \in Group, RestoreFails(g) PROVE Owed'
  <2>1. /\ pc = "revert" /\ mem' = mem
        /\ UNCHANGED <<archive, reg, orig, risk>>
        /\ pc' = "open" /\ next' = "revert" /\ bytes' = mem'
    BY <1>10 DEF RestoreFails, Retained, WriteAtomic, files, observers
  <2> QED
    BY <1>0, <2>1 DEF Owed, Applying, Saving
<1>11. CASE RevertDone
  BY <1>0, <1>a, <1>11 DEF RevertDone, WriteAtomic, files, observers, Owed, Applying, Saving
<1>12. CASE Swap
  <2>1. pc = "swap" /\ Same(mem) /\ Loaded(archive) = mem /\ UNCHANGED <<reg, archive, mem, orig>>
    BY <1>0, <1>12 DEF Swap, files
  <2>2. CASE job = "undo" /\ snaps # <<>>
    <3>1. /\ pc' = "open" /\ next' = "end" /\ bytes' = snaps[Latest]
          /\ risk' = risk \cup {g \in Group : Loaded(snaps[Latest])[g] # mem[g]}
      BY <1>12, <2>2 DEF Swap, WriteAtomic
    <3>2. \A g \in Group \ risk' : g \notin risk /\ Loaded(bytes')[g] = orig'[g]
      BY <1>a, <2>1, <3>1
    <3> QED
      BY <1>0, <2>1, <3>1, <3>2 DEF Owed, Applying, Saving
  <2>3. CASE ~(job = "undo" /\ snaps # <<>>)
    <3>1. pc' = "end" /\ risk' = risk
      BY <1>12, <2>3 DEF Swap
    <3> QED
      BY <1>0, <1>a, <2>1, <3>1 DEF Owed, Applying, Saving
  <2> QED
    BY <2>2, <2>3
<1>13. CASE End
  BY <1>0, <1>13 DEF End, Rest, files, Owed, Applying, Saving
<1>15. CASE Open \/ Write
  BY <1>0, <1>15 DEF Open, Write, locals, observers, Owed, Applying, Saving
<1>17. CASE Rename
  <2>1. /\ archive' = bytes /\ pc = "rename" /\ pc' = next
        /\ next \in {"apply", "revert", "swap", "end"}
        /\ UNCHANGED <<reg, mem, orig, risk>>
    BY <1>17 DEF Rename, Written, Return, observers, Sound, Filled, Saving
  <2> QED
    BY <1>0, <1>a, <2>1 DEF Owed, Applying, Saving
<1>19. ASSUME NEW g \in Group, Owner(g) PROVE Owed'
  <2>1. \A h \in Group : reg'[h] = Tuned => reg[h] = Tuned
    BY <1>a, <1>19 DEF Owner, TypeOK
  <2> QED
    BY <1>0, <1>19, <2>1 DEF Owner, files, locals, Owed
<1>20. CASE Tick \/ UNCHANGED vars
  BY <1>0, <1>20 DEF Tick, vars, files, locals, observers, Owed
<1>22. CASE Crash \/ SaveFails
  BY <1>0, <1>22 DEF Crash, SaveFails
<1> QED
  BY <1>1, <1>2, <1>6, <1>7, <1>8, <1>9, <1>10, <1>11, <1>12, <1>13, <1>15, <1>17, <1>19,
     <1>20, <1>22 DEF Next

\* Between commands the archive has the original of every value that is still the
\* program's, and that no undo put another entry or none over: whatever was applied,
\* reverted, refused, undone and changed by the owner before (ensure, restore_group,
\* run_undo).
THEOREM OwedAlwaysKept == Spec => []OwedKept
<1>1. Init => Owed
  BY UndoAssumption, LoadedIs DEF Init, Owed, Same, Loaded, Empty, Applying, Saving, Archives
<1>2. Sound /\ Owed /\ [Next]_vars => (Sound /\ Owed)'
  BY NextSound, NextOwed
<1>3. Owed => OwedKept
  BY UndoAssumption DEF Owed, OwedKept, Entry, Same
<1> QED
  BY <1>1, <1>2, <1>3, InitSound, PTL DEF Spec

-----------------------------------------------------------------------------
\* What the last snapshot is, while nothing fails.

LEMMA NextRemembered ==
  ASSUME ClockForward
  PROVE  Sound /\ Sound' /\ Known /\ Remembered /\ [Next]_vars => Remembered'
<1> SUFFICES ASSUME Sound, Sound', Known, Remembered, [Next]_vars, faults' = {} PROVE Remembered'
  BY DEF Remembered
<1> USE UndoAssumption
<1>0. /\ faults = {}
      /\ \A n \in DOMAIN snaps : n = Now \/ Before(n, Now)
      /\ pc \in {"snapshot", "copy"} => archive = before
      /\ pc = "copy" => bytes = before /\ Last(stamp)
      /\ before # Missing /\ pc \notin {"snapshot", "copy"} =>
           \E n \in DOMAIN snaps : Last(n) /\ snaps[n] = before
      /\ archive = Missing \/ before = Missing => snaps = <<>>
      /\ pc = "end" /\ job = "undo" => IF before = Missing THEN Loaded(archive) = mem ELSE archive = before
      /\ pc \in Saving /\ next = "end" => bytes = before
  BY FaultsFixed DEF Remembered
<1>a. TypeOK /\ Filled /\ Shelf /\ Steps
  BY DEF Sound
<1>1. CASE BeginApply
  BY <1>0, <1>a, <1>1 DEF BeginApply, files, Remembered, Now, Last, Saving, Steps
<1>2. CASE NoSnapshot
  BY <1>0, <1>a, <1>2 DEF NoSnapshot, files, locals, observers, Remembered, Now, Last, Saving, Steps
<1>3. CASE BeginCopy
  <2>1. /\ stamp' = Now /\ archive = before /\ archive # Missing /\ bytes' = archive
        /\ pc' = "copy" /\ UNCHANGED <<archive, clock, before, job>>
    BY <1>0, <1>3 DEF BeginCopy, Now, observers
  <2>2. PICK t : t = Now
    OBVIOUS
  <2>3. snaps' = [n \in DOMAIN snaps \cup {t} |-> IF n = t THEN Torn ELSE snaps[n]]
    BY <1>3, <2>1, <2>2 DEF BeginCopy
  <2>4. DOMAIN snaps' = DOMAIN snaps \cup {t} /\ Last(t)'
    BY <1>0, <1>a, <2>2, <2>3, NowFields, ShelfGrows
  <2>5. \A n \in DOMAIN snaps' : n = stamp' \/ Before(n, stamp')
    BY <2>1, <2>2, <2>4 DEF Last
  <2> QED
    BY <1>0, <2>1, <2>2, <2>4, <2>5 DEF Remembered, Now, Last, Saving
<1>4. CASE Copy
  <2>1. /\ stamp \in DOMAIN snaps /\ bytes = before /\ Last(stamp) /\ pc' = "prune"
        /\ snaps' = [snaps EXCEPT ![stamp] = bytes]
        /\ UNCHANGED <<archive, clock, before, job>>
    BY <1>0, <1>a, <1>4 DEF Copy, Steps, observers
  <2>2. DOMAIN snaps' = DOMAIN snaps /\ snaps'[stamp] = before
    BY <1>a, <2>1 DEF Shelf
  <2>3. \E n \in DOMAIN snaps' : Last(n)' /\ snaps'[n] = before
    BY <2>1, <2>2 DEF Last
  <2>4. snaps # <<>>
    BY <2>1
  <2> QED
    BY <1>0, <2>1, <2>2, <2>3, <2>4 DEF Remembered, Now, Saving
<1>5. CASE Prune
  <2>1. PICK left \in {Newest(DOMAIN snaps), DOMAIN snaps} : snaps' = [n \in left |-> snaps[n]]
    BY <1>5 DEF Prune
  <2>2. /\ left \subseteq DOMAIN snaps
        /\ \A n \in DOMAIN snaps : Last(n) => n \in left /\ Last(n)'
    BY <2>1, ShelfPruned
  <2>3. pc = "prune" /\ pc' = "load" /\ UNCHANGED <<archive, clock, before, job>>
    BY <1>5 DEF Prune, locals, observers
  <2>4. before # Missing => \E n \in DOMAIN snaps' : Last(n)' /\ snaps'[n] = before
    BY <1>0, <2>1, <2>2, <2>3
  <2>5. snaps = <<>> => snaps' = <<>>
    BY <2>1, <2>2
  <2> QED
    BY <1>0, <2>1, <2>2, <2>3, <2>4, <2>5 DEF Remembered, Now, Saving
<1>6. ASSUME UNCHANGED <<snaps, clock, before>>,
             pc \notin {"snapshot", "copy"}, pc' \notin {"snapshot", "copy"},
             archive' = Missing => archive = Missing,
             pc' = "end" /\ job' = "undo" =>
               IF before = Missing THEN Loaded(archive') = mem' ELSE archive' = before,
             pc' \in Saving /\ next' = "end" => bytes' = before
      PROVE  Remembered'
  BY <1>0, <1>6 DEF Remembered, Now, Last
<1>7. CASE Load
  BY <1>0, <1>6, <1>7 DEF Load, files, observers, Saving
<1>8. ASSUME NEW g \in Group, Apply(g) PROVE Remembered'
  BY <1>0, <1>6, <1>8 DEF Apply, WriteAtomic, files, observers, Saving
<1>9. ASSUME NEW c \in {"revert", "undo"}, BeginRevert(c) PROVE Remembered'
  BY <1>0, <1>6, <1>9 DEF BeginRevert, files, observers, Saving
<1>10. ASSUME NEW g \in Group, Restore(g) PROVE Remembered'
  BY <1>0, <1>6, <1>10 DEF Restore, WriteAtomic, files, observers, Saving
<1>11. CASE RevertDone
  BY <1>0, <1>6, <1>11 DEF RevertDone, WriteAtomic, files, observers, Saving
<1>12. CASE Swap
  <2>1. pc = "swap" /\ UNCHANGED <<archive, snaps, clock, before, job, mem>>
    BY <1>12 DEF Swap, files, observers
  <2>2. before # Missing => snaps # <<>> /\ snaps[Latest] = before
    BY <1>0, <1>a, <2>1, LatestIsLast
  <2>3. before = Missing => snaps = <<>> /\ Loaded(archive) = mem
    BY <1>0, <2>1 DEF Known
  <2>4. CASE job = "undo" /\ snaps # <<>>
    BY <1>6, <1>12, <2>1, <2>2, <2>3, <2>4 DEF Swap, WriteAtomic, Saving
  <2>5. CASE ~(job = "undo" /\ snaps # <<>>)
    BY <1>6, <1>12, <2>1, <2>2, <2>3, <2>5 DEF Swap, Saving
  <2> QED
    BY <2>4, <2>5
<1>13. CASE End
  BY <1>0, <1>6, <1>13 DEF End, Rest, files, Saving
<1>14. CASE Open \/ Write
  BY <1>0, <1>6, <1>14 DEF Open, Write, locals, observers, Saving
<1>17. CASE Rename
  <2>1. /\ archive' = bytes /\ pc = "rename" /\ pc' = next
        /\ next \in {"apply", "revert", "swap", "end"}
        /\ UNCHANGED <<snaps, clock, before, job, mem>>
    BY <1>a, <1>17 DEF Rename, Written, Return, observers, Filled, Saving
  <2>2. bytes # Missing
    BY <1>a DEF TypeOK
  <2>3. next = "end" => bytes = before
    BY <1>0, <2>1 DEF Saving
  <2> QED
    BY <1>6, <2>1, <2>2, <2>3 DEF Saving
<1>19. ASSUME NEW g \in Group, Owner(g) PROVE Remembered'
  BY <1>0, <1>a, <1>19 DEF Owner, files, locals, Remembered, Now, Last
<1>20. CASE Tick
  <2>1. /\ clock \in DOMAIN Instant /\ clock' = clock + 1 /\ clock' \in DOMAIN Instant
        /\ UNCHANGED <<files, pc, locals, before>>
    BY <1>a, <1>20 DEF Tick, TypeOK, observers
  <2>2. Instant[clock] \in Nat /\ Instant[clock'] \in Nat /\ Instant[clock] <= Instant[clock']
    BY <2>1, NowFields, UndoAssumption DEF ClockForward, Sound
  <2>3. Fields(Now) /\ Fields(Now') /\ (Now = Now' \/ Before(Now, Now'))
    BY <2>2, NamesInOrderOfTime DEF Now
  <2>4. \A n \in DOMAIN snaps : n = Now' \/ Before(n, Now')
    BY <1>0, <1>a, <2>3, BeforeOrders DEF Shelf
  <2> HIDE DEF Now
  <2> QED
    BY <1>0, <2>1, <2>4 DEF Remembered, files, locals, Last
<1>21. CASE UNCHANGED vars
  BY <1>0, <1>21 DEF vars, files, locals, observers, Remembered, Now, Last
<1>22. CASE Crash \/ SaveFails \/ \E g \in Group : RestoreFails(g)
  BY <1>0, <1>22 DEF Crash, SaveFails, RestoreFails
<1> QED
  BY <1>1, <1>2, <1>3, <1>4, <1>5, <1>7, <1>8, <1>9, <1>10, <1>11, <1>12, <1>13,
     <1>14, <1>17, <1>19, <1>20, <1>21, <1>22 DEF Next

LEMMA AlwaysRemembered ==
  ASSUME ClockForward
  PROVE  Spec => [](Sound /\ Known /\ Remembered)
<1>1. Init => Remembered
  BY DEF Init, Remembered, Saving
<1>2. Sound /\ Known /\ Remembered /\ [Next]_vars => (Sound /\ Known /\ Remembered)'
  BY NextSound, NextKnown, NextRemembered
<1>3. Init => Known
  BY UndoAssumption, LoadedIs DEF Init, Known, Pure, Owing, Loaded, Empty, Applying, Saving, Archives
<1> QED
  BY <1>1, <1>2, <1>3, InitSound, PTL DEF Spec

\* Without a fault a command only stops at its end.
LEMMA StopsAtEnd ==
  ASSUME Sound, [Next]_vars, faults = {}, pc # "off", pc' = "off"
  PROVE  End
<1>1. Rename \/ SaveFails => pc' # "off"
  BY DEF Sound, Filled, Saving, Rename, Written, SaveFails, Return
<1> QED
  BY <1>1 DEF Next, vars, BeginApply, NoSnapshot, BeginCopy, Copy, Prune, Load, Apply,
     BeginRevert, Restore, RestoreFails, WriteAtomic, RevertDone, Swap, Crash, Open, Write,
     Owner, Tick

\* When nothing fails and the clock is not set back, an undo leaves no value of
\* the program's and the archive the last apply found, however many snapshots
\* were taken in however many seconds, and pruned (run_undo,
\* take_archive_snapshot, latest_archive_snapshot, prune).
THEOREM UndoGivesBack == ASSUME ClockForward PROVE Spec => UndoReturns
<1>1. Sound /\ Known /\ Remembered /\ [Next]_vars =>
        [faults = {} /\ job = "undo" /\ pc # "off" /\ pc' = "off" =>
           /\ \A g \in Group : reg[g] # Tuned
           /\ before # Missing => archive = before]_vars
  <2> SUFFICES ASSUME Sound, Known, Remembered, [Next]_vars,
                      faults = {}, job = "undo", pc # "off", pc' = "off"
               PROVE  /\ \A g \in Group : reg[g] # Tuned
                      /\ before # Missing => archive = before
    OBVIOUS
  <2>1. pc = "end" /\ todo = {}
    BY StopsAtEnd DEF End, Sound, Steps, Applying
  <2>2. before # Missing => archive = before
    BY <2>1 DEF Remembered
  <2>3. \A g \in Group : reg[g] # Tuned
    BY <2>1, <2>2 DEF Known
  <2> QED
    BY <2>2, <2>3
<1>2. Spec => [](Sound /\ Known /\ Remembered)
  BY AlwaysRemembered
<1> QED
  BY <1>1, <1>2, PTL DEF Spec, UndoReturns

-----------------------------------------------------------------------------
\* What a revert gives back after an undo, while nothing fails.

LEMMA NextHarmless ==
  ASSUME Sound, Sound', Known, Remembered, Remembered', Harmless, [Next]_vars
  PROVE  Harmless'
<1> SUFFICES ASSUME faults' = {} PROVE Harmless'
  BY DEF Harmless
<1> USE UndoAssumption
<1>0. /\ faults = {}
      /\ job \in {"revert", "undo"} => \A g \in Group \ todo : mem[g] = None
      /\ job = "apply" => ~undone /\ Holds(archive) /\ (pc \in {"apply"} \cup Saving => Holds(mem))
      /\ ~touched =>
           /\ Extends(archive)
           /\ pc \in {"apply", "revert", "swap"} \/ (pc \in Saving /\ next # "end") => Extends(mem)
           /\ job = "undo" => \A g \in Group \ todo : Found(g) # None => reg[g] = Found(g)
           /\ undone => Settled(archive) /\ Settled(mem) /\ Settled(before)
           /\ undone /\ pc \in Saving => Settled(bytes)
  BY FaultsFixed DEF Harmless, Remembered
<1>a. TypeOK /\ Steps /\ mem \in Archives /\ Loaded(mem) = mem
  BY LoadedIs DEF Sound, Filled
<1>b. mem' \in Archives /\ Loaded(mem') = mem'
  BY LoadedIs DEF Sound, Filled
<1>c. /\ pc \in {"apply", "revert", "swap"} => Loaded(archive) = mem
      /\ pc \in Saving /\ next # "end" => bytes = mem
      /\ pc \in Saving /\ next = "end" => bytes = before
      /\ pc = "end" /\ job = "undo" => IF before = Missing THEN Loaded(archive) = mem ELSE archive = before
  BY <1>0 DEF Known, Remembered
<1>d. \A f : Loaded(f) \in Archives /\ Loaded(Loaded(f)) = Loaded(f)
  BY LoadedType, LoadedIs
<1> USE DEF Found, Holds, Extends, Settled
<1>1. CASE BeginApply
  BY <1>0, <1>a, <1>1 DEF BeginApply, files, Harmless, Saving
<1>2. CASE NoSnapshot \/ BeginCopy \/ Copy \/ Prune
  <2>1. /\ pc \in {"snapshot", "copy", "prune"} /\ pc' \in {"copy", "prune", "load"}
        /\ UNCHANGED <<reg, archive, job, mem, todo, before, touched, undone>>
    BY <1>2 DEF NoSnapshot, BeginCopy, Copy, Prune, files, locals, observers
  <2>2. job = "apply"
    BY <1>a, <2>1 DEF Steps, Applying
  <2> QED
    BY <1>0, <2>1, <2>2 DEF Harmless, Saving
<1>6. CASE Load
  <2>1. /\ mem' = Loaded(archive) /\ pc' = "apply" /\ pc = "load"
        /\ UNCHANGED <<reg, archive, job, before, touched, undone>>
    BY <1>6 DEF Load, files, observers
  <2>2. job = "apply"
    BY <1>a, <2>1 DEF Steps, Applying
  <2> QED
    BY <1>0, <1>d, <2>1, <2>2 DEF Harmless, Saving
<1>7. ASSUME NEW g \in Group, Apply(g) PROVE Harmless'
  <2>1. /\ pc = "apply" /\ mem' = Ensure(g) /\ reg' = [reg EXCEPT ![g] = Tuned]
        /\ UNCHANGED <<archive, job, before, touched, undone>>
        /\ pc' \in {"apply", "open"}
    BY <1>7 DEF Apply, WriteAtomic, files, observers
  <2>2. job = "apply" /\ ~undone
    BY <1>0, <1>a, <2>1 DEF Steps, Applying
  <2>3. Holds(mem)
    BY <1>0, <2>1, <2>2
  <2>4. \A h \in Group : Found(h) # None => mem'[h] = Found(h)
    BY <1>a, <2>1, <2>3 DEF Ensure, Archives
  <2> QED
    BY <1>0, <1>b, <2>1, <2>2, <2>4 DEF Harmless, Saving
<1>8. ASSUME NEW c \in {"revert", "undo"}, BeginRevert(c) PROVE Harmless'
  BY <1>0, <1>d, <1>8 DEF BeginRevert, files, observers, Harmless, Saving
<1>9. ASSUME NEW g \in Group, Restore(g) PROVE Harmless'
  <2>1. /\ pc = "revert" /\ todo' = todo \ {g} /\ mem' = [mem EXCEPT ![g] = None]
        /\ UNCHANGED <<archive, job, before, touched, undone>>
    BY <1>9 DEF Restore, files, observers
  <2>2. mem'[g] = None /\ \A h \in Group \ {g} : mem'[h] = mem[h] /\ reg'[h] = reg[h]
    BY <1>9, <1>a, <2>1 DEF Restore, Archives, TypeOK
  <2>3. reg'[g] = IF mem[g] = None THEN reg[g] ELSE mem[g]
    BY <1>9, <1>a, <2>1 DEF Restore, TypeOK
  <2>4. job \in {"revert", "undo"} /\ Loaded(archive) = mem
    BY <1>a, <1>c, <2>1 DEF Steps
  <2>5. \/ pc' = "revert"
        \/ pc' = "open" /\ bytes' = mem'
    BY <1>9 DEF Restore, WriteAtomic
  <2>6. ~touched => \A h \in Group : Found(h) # None =>
                      mem[h] = Found(h) \/ (mem[h] = None /\ reg[h] = Found(h))
    BY <1>0, <1>a, <2>1
  <2>7. ~touched /\ Found(g) # None => reg'[g] = Found(g)
    BY <2>3, <2>6
  <2>8. ~touched /\ undone => \A h \in Group : reg'[h] = reg[h]
    BY <1>0, <1>a, <2>2, <2>3
  <2>9. ~touched => Extends(archive)' /\ Extends(mem)'
    BY <1>b, <2>1, <2>2, <2>3, <2>4, <2>6, <2>7
  <2>10. ~touched /\ undone => Settled(archive)' /\ Settled(mem)' /\ Settled(before)'
    BY <1>0, <1>a, <1>b, <2>1, <2>2, <2>8
  <2>11. job = "undo" /\ ~touched => \A h \in Group \ todo' : Found(h) # None => reg'[h] = Found(h)
    BY <1>0, <2>1, <2>2, <2>7
  <2>12. \A h \in Group \ todo' : mem'[h] = None
    BY <1>0, <2>1, <2>2, <2>4
  <2> QED
    BY <2>1, <2>4, <2>5, <2>9, <2>10, <2>11, <2>12 DEF Harmless, Saving
<1>11. CASE RevertDone
  BY <1>0, <1>a, <1>11 DEF RevertDone, WriteAtomic, files, observers, Harmless, Saving, Steps
<1>12. CASE Swap
  <2>1. /\ pc = "swap" /\ (job = "undo" \/ job = "revert")
        /\ UNCHANGED <<reg, archive, job, mem, todo, before, touched, undone>>
    BY <1>a, <1>12 DEF Swap, files, observers, Steps
  <2>2. \/ pc' = "end"
        \/ pc' = "open" /\ next' = "end" /\ bytes' = before
    <3>1. pc' \in Saving /\ next' = "end" => bytes' = before
      BY <2>1 DEF Remembered
    <3> QED
      BY <1>12, <3>1 DEF Swap, WriteAtomic, Saving
  <2> QED
    BY <1>0, <2>1, <2>2 DEF Harmless, Saving
<1>13. CASE End
  <2>1. /\ pc' = "off" /\ job' = "none" /\ mem' = Empty /\ undone' = (undone \/ job = "undo")
        /\ UNCHANGED <<reg, archive, before, touched>>
    BY <1>13 DEF End, Rest, files
  <2>2. CASE ~undone /\ job = "undo"
    <3>1. pc = "end" /\ todo = {}
      BY <1>a, <1>13, <2>2 DEF End, Steps, Applying
    <3>2. ~touched => Settled(before)
      BY <1>0, <2>2, <3>1
    <3>3. ~touched => Settled(archive)
      BY <1>0, <1>c, <2>2, <3>1, <3>2
    <3> QED
      BY <1>0, <1>b, <2>1, <3>2, <3>3 DEF Harmless, Saving, Empty
  <2>3. CASE undone \/ job # "undo"
    BY <1>0, <1>b, <2>1, <2>3 DEF Harmless, Saving, Empty
  <2> QED
    BY <2>2, <2>3
<1>14. CASE Open \/ Write
  BY <1>0, <1>14 DEF Open, Write, locals, observers, Harmless, Saving
<1>17. CASE Rename
  <2>1. /\ archive' = bytes /\ pc = "rename" /\ pc' = next
        /\ next \in {"apply", "revert", "swap", "end"}
        /\ UNCHANGED <<reg, job, mem, todo, before, touched, undone>>
    BY <1>17 DEF Rename, Written, Return, observers, Sound, Filled, Saving
  <2>2. job = "apply" => next = "apply"
    BY <1>a, <2>1 DEF Steps, Saving
  <2>3. (next # "end" => archive' = mem) /\ (next = "end" => archive' = before)
    BY <1>c, <2>1 DEF Saving
  <2> QED
    BY <1>0, <2>1, <2>2, <2>3 DEF Harmless, Saving
<1>19. ASSUME NEW g \in Group, Owner(g) PROVE Harmless'
  BY <1>0, <1>19 DEF Owner, files, locals, Harmless
<1>20. CASE Tick \/ UNCHANGED vars
  BY <1>0, <1>20 DEF Tick, vars, files, locals, observers, Harmless
<1>22. CASE Crash \/ SaveFails \/ \E g \in Group : RestoreFails(g)
  BY <1>0, <1>22 DEF Crash, SaveFails, RestoreFails
<1> QED
  BY <1>1, <1>2, <1>6, <1>7, <1>8, <1>9, <1>11, <1>12, <1>13, <1>14, <1>17, <1>19,
     <1>20, <1>22 DEF Next

\* When nothing fails, the clock is not set back and the owner changed nothing since
\* the apply, a revert after an undo gives back what is there already (run_undo,
\* restore_group).
THEOREM RevertAfterUndo == ASSUME ClockForward PROVE Spec => UntouchedHarmless
<1>1. Init => Harmless
  BY UndoAssumption, LoadedIs
  DEF Init, Harmless, Holds, Extends, Settled, Found, Loaded, Empty, Saving, Archives
<1>2. Sound /\ Sound' /\ Known /\ Remembered /\ Remembered' /\ Harmless /\ [Next]_vars => Harmless'
  BY NextHarmless
<1>3. Sound /\ Harmless /\ [Next]_vars =>
        [faults = {} /\ undone /\ ~touched /\ job = "revert" =>
           \A g \in Group : GivesBack(g) => reg'[g] = reg[g]]_vars
  <2> SUFFICES ASSUME Sound, Harmless, [Next]_vars, faults = {}, undone, ~touched,
                      NEW g \in Group, GivesBack(g)
               PROVE  reg'[g] = reg[g]
    OBVIOUS
  <2>1. mem \in Archives /\ Loaded(mem) = mem /\ pc = "revert" /\ mem'[g] # mem[g] /\ mem[g] # None
    BY LoadedIs DEF Sound, Filled, GivesBack
  <2>2. mem[g] = reg[g]
    BY <2>1 DEF Harmless, Settled
  <2>3. PICK h \in Group : Restore(h)
    BY <2>1 DEF Next, vars, locals, BeginApply, NoSnapshot, BeginCopy, Copy, Prune, Load, Apply,
       BeginRevert, RestoreFails, RevertDone, Swap, End, Crash, Open, Write, Rename, Written,
       SaveFails, Owner, Tick
  <2>4. h = g
    BY <2>1, <2>3 DEF Restore, Archives
  <2> QED
    BY <2>1, <2>2, <2>3, <2>4 DEF Restore, Sound, TypeOK
<1>4. Spec => [](Sound /\ Known /\ Remembered)
  BY AlwaysRemembered
<1> QED
  BY <1>1, <1>2, <1>3, <1>4, PTL DEF Spec, UntouchedHarmless

=============================================================================
