-------------------------- MODULE TweakGroupsProofs --------------------------
(***************************************************************************)
(* Proofs about TweakGroups, for every set of processes, groups, values    *)
(* and contents.                                                           *)
(***************************************************************************)
EXTENDS TweakGroups, TLAPS

-----------------------------------------------------------------------------
\* Leaving an operation keeps the types of the locals, whatever the Result.
LEMMA LeaveType ==
    ASSUME TypeOK, NEW p \in Proc, NEW ph \in Phases, NEW r \in BOOLEAN, Leave(p, ph, r)
    PROVE  /\ phase' \in [Proc -> Phases]
           /\ group' \in [Proc -> Group \cup {None}]
           /\ todo' \in [Proc -> SUBSET Value]
           /\ at' \in [Proc -> Value \cup {None}]
           /\ target' \in [Proc -> Data \cup {None}]
           /\ dirty' \in [Proc -> BOOLEAN]
           /\ ok' \in [Proc -> BOOLEAN]
  BY DEF TypeOK, Leave, Goto

\* The types and the meaning of the locals are kept together: restoring reads
\* an entry, writing reads a target.
Typed == TypeOK /\ LocalsOK

LEMMA InitTyped == Init => Typed
  BY TweakAssumption
     DEF Init, Typed, TypeOK, LocalsOK, Phases, Archives, Empty, Author

LEMMA NextTyped == Typed /\ [Next]_vars => Typed'
<1> SUFFICES ASSUME Typed, [Next]_vars PROVE Typed'
  OBVIOUS
<1> USE TweakAssumption
<1>1. ASSUME NEW p \in Proc, Start(p) PROVE Typed'
  <2>1. TypeOK'
    <3>1. Empty \in Archives /\ disk \in Archives
      BY DEF Typed, TypeOK, Archives, Empty
    <3>2. mem' \in [Proc -> Archives]
      BY <1>1, <3>1 DEF Start, Loaded, Typed, TypeOK
    <3> QED
      BY <1>1, <3>2 DEF Start, Goto, Typed, TypeOK, Phases
  <2>2. LocalsOK'
    BY <1>1 DEF Start, Goto, Typed, TypeOK, LocalsOK, Phases
  <2> QED  BY <2>1, <2>2 DEF Typed
<1>2. ASSUME NEW p \in Proc, Exit(p) PROVE Typed'
  <2>1. TypeOK'
    BY <1>2, LeaveType DEF Exit, Typed, TypeOK, Archives, Empty, Phases
  <2>2. LocalsOK'
    BY <1>2 DEF Exit, Leave, Goto, Typed, TypeOK, LocalsOK, Phases
  <2> QED  BY <2>1, <2>2 DEF Typed
<1>3. ASSUME NEW p \in Proc, Crash(p) PROVE Typed'
  BY <1>3, LeaveType
     DEF Crash, Leave, Goto, Typed, TypeOK, LocalsOK, Phases, Archives, Empty
<1>4. ASSUME NEW p \in Proc, NEW g \in Group, ApplyBegin(p, g) PROVE Typed'
  BY <1>4 DEF ApplyBegin, Goto, Typed, TypeOK, LocalsOK, Phases, ValuesOf
<1>5. ASSUME NEW p \in Proc, NEW g \in Group, RevertBegin(p, g) PROVE Typed'
  BY <1>5 DEF RevertBegin, Archived, Goto, Typed, TypeOK, LocalsOK, Phases, ValuesOf
<1>6. ASSUME NEW p \in Proc, NEW v \in Value, Read(p, v) PROVE Typed'
  BY <1>6
     DEF Read, Ensure, TargetOf, SavesFirst, Goto, Typed, TypeOK, LocalsOK,
         Phases, Archives, Entry, ValuesOf
<1>7. ASSUME NEW p \in Proc, NEW v \in Value, Restore(p, v) PROVE Typed'
  BY <1>7 DEF Restore, Typed, TypeOK, LocalsOK, Phases, Archives, Entry
<1>8. ASSUME NEW p \in Proc, NEW v \in Value, RestoreFails(p, v) PROVE Typed'
  BY <1>8 DEF RestoreFails, Typed, TypeOK, LocalsOK, Phases
<1>9. ASSUME NEW p \in Proc, ReadFails(p) PROVE Typed'
  BY <1>9, LeaveType
     DEF ReadFails, Return, Leave, Goto, Typed, TypeOK, LocalsOK, Phases
<1>10. ASSUME NEW p \in Proc, ArchiveFirst(p) PROVE Typed'
  BY <1>10 DEF ArchiveFirst, Goto, Typed, TypeOK, LocalsOK, Phases
<1>11. ASSUME NEW p \in Proc, Write(p) PROVE Typed'
  <2>1. TypeOK'
    BY <1>11 DEF Write, Goto, Typed, TypeOK, LocalsOK, Phases, Author, ValuesOf
  <2>2. LocalsOK'
    BY <1>11 DEF Write, Goto, Typed, TypeOK, LocalsOK, Phases
  <2> QED  BY <2>1, <2>2 DEF Typed
<1>12. ASSUME NEW p \in Proc, WriteFails(p) PROVE Typed'
  <2>1. TypeOK'
    BY <1>12 DEF WriteFails, Goto, Typed, TypeOK, Phases
  <2>2. LocalsOK'
    BY <1>12 DEF WriteFails, Goto, Typed, TypeOK, LocalsOK, Phases
  <2> QED  BY <2>1, <2>2 DEF Typed
<1>13. ASSUME NEW p \in Proc, ScanDone(p) PROVE Typed'
  <2>1. TypeOK'
    BY <1>13, LeaveType DEF ScanDone, Return, Goto, Typed, TypeOK, Phases
  <2>2. LocalsOK'
    BY <1>13 DEF ScanDone, Return, Leave, Goto, Typed, TypeOK, LocalsOK, Phases
  <2> QED  BY <2>1, <2>2 DEF Typed
<1>14. ASSUME NEW p \in Proc, RestoreDone(p) PROVE Typed'
  BY <1>14 DEF RestoreDone, Goto, Typed, TypeOK, LocalsOK, Phases
<1>15. ASSUME NEW p \in Proc, Save(p) PROVE Typed'
  BY <1>15, LeaveType DEF Save, Return, Leave, Goto, Typed, TypeOK, LocalsOK, Phases
<1>16. ASSUME NEW p \in Proc, SaveFails(p) PROVE Typed'
  BY <1>16, LeaveType
     DEF SaveFails, Return, Leave, Goto, Typed, TypeOK, LocalsOK, Phases
<1>17. ASSUME NEW v \in Value, NEW d \in Data, Drift(v, d) PROVE Typed'
  BY <1>17 DEF Drift, Typed, TypeOK, LocalsOK, Author
<1>18. CASE UNCHANGED vars
  BY <1>18 DEF vars, Typed, TypeOK, LocalsOK
<1> QED
  BY <1>1, <1>2, <1>3, <1>4, <1>5, <1>6, <1>7, <1>8, <1>9, <1>10, <1>11, <1>12,
     <1>13,
     <1>14, <1>15, <1>16, <1>17, <1>18 DEF Next, Step

\* Every variable keeps its type, and every value about to be written or
\* restored has its archive entry, whatever fails and however many processes run.
THEOREM TypeCorrect == Spec => [](TypeOK /\ LocalsOK)
<1>1. Init => Typed
  BY InitTyped
<1>2. Typed /\ [Next]_vars => Typed'
  BY NextTyped
<1>3. Typed => TypeOK /\ LocalsOK
  BY DEF Typed
<1> QED
  BY <1>1, <1>2, <1>3, PTL DEF Spec

-----------------------------------------------------------------------------
\* One process at a time, and an archive that loads.
OneProcess == \A p, q \in Proc : p = q
Loads == "load" \notin Faults

\* The inductive invariant behind SavedOriginalKept: a save replaces the file by
\* the memory of the process, so memory has to know what the file promises.
KnowsInv == Typed /\ MemoryKnowsDisk

LEMMA InitKnows == Init => KnowsInv
  BY InitTyped DEF Init, KnowsInv, MemoryKnowsDisk, Running

LEMMA NextKnows ==
    ASSUME OneProcess, Loads, KnowsInv, [Next]_vars
    PROVE  MemoryKnowsDisk'
<1>0. TypeOK /\ LocalsOK /\ MemoryKnowsDisk
  BY DEF KnowsInv, Typed
<1>1. ASSUME NEW p \in Proc, Start(p) PROVE MemoryKnowsDisk'
  BY <1>1, <1>0
     DEF MemoryKnowsDisk, Running, Authentic, Start, Loaded, Goto, TypeOK,
         Loads, OneProcess
<1>2. ASSUME NEW p \in Proc, Exit(p) \/ Crash(p) PROVE MemoryKnowsDisk'
  BY <1>2, <1>0
     DEF MemoryKnowsDisk, Running, Authentic, Exit, Crash, Leave, Goto, TypeOK,
         OneProcess
<1>3. ASSUME NEW p \in Proc, NEW g \in Group, ApplyBegin(p, g) \/ RevertBegin(p, g)
      PROVE  MemoryKnowsDisk'
  BY <1>3, <1>0
     DEF MemoryKnowsDisk, Running, Authentic, ApplyBegin, RevertBegin, Goto,
         TypeOK, OneProcess
<1>4. ASSUME NEW p \in Proc, NEW v \in Value, Read(p, v) PROVE MemoryKnowsDisk'
  <2>1. phase[p] # "off" /\ disk' = disk /\ by' = by
    BY <1>4 DEF Read
  <2>2. mem'[p] = Ensure(mem[p], v)
    BY <1>4, <1>0, <2>1 DEF Read, TypeOK
  <2>3. ASSUME NEW u \in Value, Authentic(disk[u])
        PROVE  Authentic(mem'[p][u]) \/ (mem'[p][u] = None /\ by[u] = "user")
    BY <1>0, <2>1, <2>2, <2>3, TweakAssumption
       DEF MemoryKnowsDisk, Running, Authentic, Ensure, TypeOK, Archives, Entry,
           Author
  <2> QED
    BY <2>1, <2>3 DEF MemoryKnowsDisk, Running, Authentic, OneProcess
<1>5. ASSUME NEW p \in Proc, NEW v \in Value, Restore(p, v) PROVE MemoryKnowsDisk'
  <2>1. phase[p] = "restore" /\ phase' = phase /\ disk' = disk /\ mem[p][v] # None
    BY <1>5, <1>0 DEF Restore, LocalsOK
  <2>2. ASSUME NEW u \in Value, Authentic(disk[u])
        PROVE  Authentic(mem'[p][u]) \/ (mem'[p][u] = None /\ by'[u] = "user")
    BY <1>5, <1>0, <2>1, <2>2
       DEF MemoryKnowsDisk, Running, Authentic, Restore, TypeOK, Archives
  <2> QED
    BY <2>1, <2>2 DEF MemoryKnowsDisk, Running, Authentic, OneProcess
<1>6. ASSUME NEW p \in Proc, NEW v \in Value, RestoreFails(p, v) PROVE MemoryKnowsDisk'
  BY <1>6, <1>0 DEF MemoryKnowsDisk, Running, Authentic, RestoreFails
<1>7. ASSUME NEW p \in Proc, ArchiveFirst(p) \/ Save(p) PROVE MemoryKnowsDisk'
  BY <1>7, <1>0
     DEF MemoryKnowsDisk, Running, Authentic, ArchiveFirst, Save, Return, Leave,
         Goto, TypeOK, OneProcess
<1>8. ASSUME NEW p \in Proc, Write(p) PROVE MemoryKnowsDisk'
  <2>1. phase[p] = "write" /\ disk' = disk /\ mem' = mem /\ mem[p][at[p]] # None
    BY <1>8, <1>0 DEF Write, LocalsOK
  <2>2. ASSUME NEW u \in Value, Authentic(disk[u])
        PROVE  Authentic(mem[p][u]) \/ (mem[p][u] = None /\ by'[u] = "user")
    BY <1>8, <1>0, <2>1, <2>2 DEF MemoryKnowsDisk, Running, Authentic, Write, TypeOK
  <2> QED
    BY <2>1, <2>2 DEF MemoryKnowsDisk, Running, Authentic, OneProcess
<1>9. ASSUME NEW p \in Proc,
             ReadFails(p) \/ WriteFails(p) \/ ScanDone(p) \/ RestoreDone(p) \/ SaveFails(p)
      PROVE  MemoryKnowsDisk'
  BY <1>9, <1>0
     DEF MemoryKnowsDisk, Running, Authentic, ReadFails, WriteFails, ScanDone,
         RestoreDone, SaveFails, Return, Leave, Goto, TypeOK, OneProcess
<1>10. ASSUME NEW v \in Value, NEW d \in Data, Drift(v, d) PROVE MemoryKnowsDisk'
  BY <1>10, <1>0 DEF MemoryKnowsDisk, Running, Authentic, Drift, TypeOK
<1>11. CASE UNCHANGED vars
  BY <1>11, <1>0 DEF MemoryKnowsDisk, Running, Authentic, vars
<1> QED
  BY <1>1, <1>2, <1>3, <1>4, <1>5, <1>6, <1>7, <1>8, <1>9, <1>10, <1>11
     DEF Next, Step

\* The only steps that change the file are saves, and they write what memory
\* knows: each saved original stays, or its value is back in other hands.
LEMMA StepKeepsOriginals ==
    ASSUME KnowsInv, [Next]_vars
    PROVE  \A v \in Value : OriginalKept(v)
<1> SUFFICES ASSUME NEW v \in Value, Authentic(disk[v]) PROVE OriginalKept(v)
  BY DEF OriginalKept
<1>1. CASE disk' = disk
  BY <1>1 DEF OriginalKept
<1>2. ASSUME NEW p \in Proc, ArchiveFirst(p) \/ Save(p) PROVE OriginalKept(v)
  <2>1. Running(p) /\ disk' = mem[p] /\ by' = by
    BY <1>2 DEF ArchiveFirst, Save, Running
  <2>2. Authentic(mem[p][v]) \/ (mem[p][v] = None /\ by[v] = "user")
    BY <2>1 DEF KnowsInv, MemoryKnowsDisk
  <2> QED
    BY <2>1, <2>2 DEF OriginalKept
<1>3. CASE UNCHANGED vars
  BY <1>1, <1>3 DEF vars
<1> QED
  BY <1>1, <1>2, <1>3
     DEF Next, Step, Start, Exit, Crash, ApplyBegin, RevertBegin, Read, Restore,
         RestoreFails, ReadFails, Write, WriteFails, ScanDone, RestoreDone,
         SaveFails, Drift

\* With one process at a time, archive.json never loses the original of a value
\* that is still the program's: not by a crash, a failed read, write, restore or
\* save, nor by any later apply or revert.
THEOREM SavedOriginalNeverLost ==
    ASSUME OneProcess, Loads
    PROVE  Spec => SavedOriginalKept
<1>1. Init => KnowsInv
  BY InitKnows
<1>2. KnowsInv /\ [Next]_vars => KnowsInv'
  BY NextKnows, NextTyped DEF KnowsInv
<1>3. KnowsInv /\ [Next]_vars => [\A v \in Value : OriginalKept(v)]_vars
  BY StepKeepsOriginals
<1> QED
  BY <1>1, <1>2, <1>3, PTL DEF Spec, SavedOriginalKept

\* A process that runs knows every saved original it has not given back.
THEOREM MemoryKnows ==
    ASSUME OneProcess, Loads
    PROVE  Spec => []MemoryKnowsDisk
<1>1. Init => KnowsInv
  BY InitKnows
<1>2. KnowsInv /\ [Next]_vars => KnowsInv'
  BY NextKnows, NextTyped DEF KnowsInv
<1>3. KnowsInv => MemoryKnowsDisk
  BY DEF KnowsInv
<1> QED
  BY <1>1, <1>2, <1>3, PTL DEF Spec

-----------------------------------------------------------------------------
\* Groups that save before they write, when saves succeed.
Saves == "save" \notin Faults

\* The inductive invariant behind WriteAhead.
AheadInv == Typed /\ EagerSaved /\ WriteAhead

LEMMA InitAhead == Init => AheadInv
  BY InitTyped DEF Init, AheadInv, EagerSaved, WriteAhead, Running, Empty

LEMMA NextAhead ==
    ASSUME OneProcess, Loads, Saves, AheadInv, [Next]_vars
    PROVE  EagerSaved' /\ WriteAhead'
<1>0. TypeOK /\ LocalsOK /\ EagerSaved /\ WriteAhead
  BY DEF AheadInv, Typed
<1> DEFINE Goal == EagerSaved' /\ WriteAhead'
<1>1. ASSUME NEW p \in Proc, Start(p) PROVE Goal
  BY <1>1, <1>0
     DEF Start, Loaded, Goto, TypeOK, Author, Loads, OneProcess, EagerSaved,
         WriteAhead, Running, Authentic
<1>2. ASSUME NEW p \in Proc, Exit(p) \/ Crash(p) PROVE Goal
  BY <1>2, <1>0
     DEF Exit, Crash, Leave, Goto, TypeOK, OneProcess, EagerSaved, WriteAhead,
         Running, Authentic
<1>3. ASSUME NEW p \in Proc, NEW g \in Group, ApplyBegin(p, g) \/ RevertBegin(p, g)
      PROVE  Goal
  BY <1>3, <1>0
     DEF ApplyBegin, RevertBegin, Goto, TypeOK, OneProcess, EagerSaved, WriteAhead,
         Running, Authentic
<1>4. ASSUME NEW p \in Proc, NEW v \in Value, Read(p, v) PROVE Goal
  <2>1. /\ phase[p] = "scan" /\ v \in ValuesOf(group[p])
        /\ disk' = disk /\ by' = by /\ at'[p] = v
        /\ phase'[p] = IF SavesFirst(p, v) THEN "archive" ELSE "write"
    BY <1>4, <1>0 DEF Read, Goto, TypeOK, LocalsOK
  <2>2. mem'[p] = Ensure(mem[p], v)
    BY <1>4, <1>0 DEF Read, TypeOK
  <2>3. ASSUME NEW u \in Value, GroupOf[u] \in Eager
        PROVE  IF mem'[p][u] = None
               THEN by[u] = "user"
               ELSE /\ Authentic(mem'[p][u])
                    /\ (phase'[p] = "archive" /\ at'[p] = u) \/ disk[u] = mem'[p][u]
    <3>1. CASE u = v /\ mem[p][v] = None
      BY <1>0, <2>1, <2>2, <2>3, <3>1, TweakAssumption
         DEF Ensure, TypeOK, Archives, Entry, Author, SavesFirst, ValuesOf, EagerSaved,
             Running, Authentic
    <3>2. CASE ~(u = v /\ mem[p][v] = None)
      BY <1>0, <2>1, <2>2, <2>3, <3>2
         DEF Ensure, TypeOK, Archives, EagerSaved, Running, Authentic
    <3> QED
      BY <3>1, <3>2
  <2>4. EagerSaved'
    BY <1>0, <2>1, <2>3 DEF EagerSaved, Running, OneProcess
  <2> QED
    BY <1>0, <2>1, <2>4 DEF WriteAhead
<1>5. ASSUME NEW p \in Proc, NEW v \in Value, Restore(p, v) PROVE Goal
  <2>1. phase[p] = "restore" /\ phase' = phase /\ disk' = disk /\ mem[p][v] # None
    BY <1>5, <1>0 DEF Restore, LocalsOK
  <2>2. /\ by' = [by EXCEPT ![v] = mem[p][v].by]
        /\ mem' = [mem EXCEPT ![p] = [mem[p] EXCEPT ![v] = None]]
    BY <1>5 DEF Restore
  <2>3. ASSUME NEW u \in Value, GroupOf[u] \in Eager
        PROVE  /\ mem'[p][u] = None => by'[u] = "user"
               /\ mem'[p][u] # None => Authentic(mem'[p][u]) /\ disk[u] = mem'[p][u]
               /\ by'[u] = "program" => Authentic(disk[u])
    BY <1>0, <2>1, <2>2, <2>3
       DEF TypeOK, Archives, EagerSaved, WriteAhead, Running, Authentic
  <2> QED
    BY <1>0, <2>1, <2>3 DEF EagerSaved, WriteAhead, Running, OneProcess
<1>6. ASSUME NEW p \in Proc, NEW v \in Value, RestoreFails(p, v) PROVE Goal
  BY <1>6, <1>0 DEF RestoreFails, EagerSaved, WriteAhead, Running
<1>7. ASSUME NEW p \in Proc, ArchiveFirst(p) \/ Save(p) PROVE Goal
  <2>1. Running(p) /\ disk' = mem[p] /\ mem' = mem /\ by' = by
    BY <1>7 DEF ArchiveFirst, Save, Running
  <2>2. ASSUME NEW u \in Value, GroupOf[u] \in Eager
        PROVE  /\ mem[p][u] = None => by[u] = "user"
               /\ mem[p][u] # None => Authentic(mem[p][u])
    BY <1>0, <2>1, <2>2 DEF EagerSaved
  <2> QED
    BY <1>0, <2>1, <2>2
       DEF TypeOK, EagerSaved, WriteAhead, Running, Authentic, OneProcess
<1>8. ASSUME NEW p \in Proc, Write(p) PROVE Goal
  <2>1. /\ phase[p] = "write" /\ phase'[p] = "scan"
        /\ disk' = disk /\ mem' = mem /\ mem[p][at[p]] # None
    BY <1>8, <1>0 DEF Write, Goto, TypeOK, LocalsOK
  <2>2. by' = [by EXCEPT ![at[p]] = "program"]
    BY <1>8 DEF Write
  <2>3. ASSUME NEW u \in Value, GroupOf[u] \in Eager
        PROVE  /\ mem[p][u] = None => by'[u] = "user"
               /\ mem[p][u] # None => Authentic(mem[p][u]) /\ disk[u] = mem[p][u]
               /\ by'[u] = "program" => Authentic(disk[u])
    BY <1>0, <2>1, <2>2, <2>3 DEF TypeOK, EagerSaved, WriteAhead, Running, Authentic
  <2> QED
    BY <1>0, <2>1, <2>3 DEF EagerSaved, WriteAhead, Running, OneProcess
<1>9. ASSUME NEW p \in Proc,
             ReadFails(p) \/ WriteFails(p) \/ ScanDone(p) \/ RestoreDone(p)
      PROVE  Goal
  BY <1>9, <1>0
     DEF ReadFails, WriteFails, ScanDone, RestoreDone, Return, Leave, Goto, TypeOK,
         OneProcess, EagerSaved, WriteAhead, Running
<1>10. ASSUME NEW p \in Proc, SaveFails(p) PROVE Goal
  BY <1>10 DEF SaveFails, Saves
<1>11. ASSUME NEW v \in Value, NEW d \in Data, Drift(v, d) PROVE Goal
  BY <1>11, <1>0 DEF Drift, TypeOK, EagerSaved, WriteAhead, Running
<1>12. ASSUME UNCHANGED vars PROVE Goal
  BY <1>12, <1>0 DEF vars, EagerSaved, WriteAhead, Running
<1> HIDE DEF Goal
<1>13. Goal
  BY <1>1, <1>2, <1>3, <1>4, <1>5, <1>6, <1>7, <1>8, <1>9, <1>10, <1>11, <1>12
     DEF Next, Step
<1> QED
  BY <1>13 DEF Goal

\* In a group that saves before it writes, archive.json holds the original of
\* every value the program changed, at every instant, if one process runs at a
\* time and its loads and saves succeed.
THEOREM EagerGroupsWriteAhead ==
    ASSUME OneProcess, Loads, Saves
    PROVE  Spec => []WriteAhead
<1>1. Init => AheadInv
  BY InitAhead
<1>2. AheadInv /\ [Next]_vars => AheadInv'
  BY NextAhead, NextTyped DEF AheadInv
<1>3. AheadInv => WriteAhead
  BY DEF AheadInv
<1> QED
  BY <1>1, <1>2, <1>3, PTL DEF Spec

\* The same invariant says what the memory of such groups has that the file lacks.
THEOREM EagerGroupsSaved ==
    ASSUME OneProcess, Loads, Saves
    PROVE  Spec => []EagerSaved
<1>1. Init => AheadInv
  BY InitAhead
<1>2. AheadInv /\ [Next]_vars => AheadInv'
  BY NextAhead, NextTyped DEF AheadInv
<1>3. AheadInv => EagerSaved
  BY DEF AheadInv
<1> QED
  BY <1>1, <1>2, <1>3, PTL DEF Spec

-----------------------------------------------------------------------------
\* Every group, when only writes and restores may fail.
Sound == Faults \subseteq {"write", "restore"}

\* The inductive invariant: a process that runs holds the original of every
\* value the program changed, the file does when none runs, and memory and file
\* differ only while an entry waits for its save.
Holds ==
    /\ \A p \in Proc : Running(p) => \A v \in Value : by[v] = "program" => mem[p][v] # None
    /\ AtRest => \A v \in Value : by[v] = "program" => disk[v] # None
    /\ \A p \in Proc :
         phase[p] = "idle" \/ (phase[p] \in {"scan", "write"} /\ ~dirty[p]) => mem[p] = disk

SoundInv == Typed /\ OriginalsAuthentic /\ Holds

LEMMA InitSound == Init => SoundInv
  BY InitTyped
     DEF Init, SoundInv, OriginalsAuthentic, Holds, Running, AtRest, Empty, Author

\* An entry ensure adds is authentic, since a value of the program's has one.
LEMMA EnsureAuthentic ==
    ASSUME SoundInv, NEW p \in Proc, Running(p), NEW v \in Value, NEW u \in Value
    PROVE  LET m == Ensure(mem[p], v)
           IN  /\ m[u] # None => Authentic(m[u])
               /\ mem[p][u] # None => m[u] = mem[p][u]
<1>1. mem[p] \in Archives /\ by[v] \in Author
  BY DEF SoundInv, Typed, TypeOK
<1>2. mem[p][u] # None => Authentic(mem[p][u])
  BY DEF SoundInv, OriginalsAuthentic
<1>3. CASE mem[p][v] = None
  <2>1. by[v] = "user"
    BY <1>1, <1>3 DEF SoundInv, Holds, Author
  <2> QED
    BY <1>1, <1>2, <1>3, <2>1 DEF Ensure, Authentic, Archives
<1>4. CASE mem[p][v] # None
  BY <1>2, <1>4 DEF Ensure
<1> QED
  BY <1>3, <1>4

LEMMA NextSound ==
    ASSUME OneProcess, Sound, SoundInv, [Next]_vars
    PROVE  OriginalsAuthentic' /\ Holds'
<1>0. TypeOK /\ LocalsOK /\ OriginalsAuthentic /\ Holds
  BY DEF SoundInv, Typed
<1> DEFINE Goal == OriginalsAuthentic' /\ Holds'
<1>1. ASSUME NEW p \in Proc, Start(p) PROVE Goal
  <2>1. mem' = [mem EXCEPT ![p] = disk] /\ phase' = [phase EXCEPT ![p] = "idle"]
    BY <1>1 DEF Start, Sound, Loaded, Goto
  <2>2. phase[p] = "off" /\ disk' = disk /\ by' = by
    BY <1>1 DEF Start
  <2>3. mem'[p] = disk /\ \A q \in Proc : q = p
    BY <1>0, <2>1 DEF TypeOK, OneProcess
  <2>4. AtRest
    BY <2>2, <2>3 DEF AtRest
  <2> QED
    BY <1>0, <2>2, <2>3, <2>4 DEF OriginalsAuthentic, Holds, Running, AtRest
<1>2. ASSUME NEW p \in Proc, Exit(p) PROVE Goal
  <2>1. /\ phase[p] = "idle" /\ phase'[p] = "off" /\ disk' = disk /\ by' = by
        /\ mem' = [mem EXCEPT ![p] = Empty] /\ \A q \in Proc : q = p
    BY <1>2, <1>0 DEF Exit, Leave, Goto, TypeOK, OneProcess
  <2>2. \A v \in Value : mem'[p][v] = None
    BY <1>0, <2>1 DEF TypeOK, Empty
  <2> QED
    BY <1>0, <2>1, <2>2 DEF OriginalsAuthentic, Holds, Running, AtRest
<1>3. ASSUME NEW p \in Proc, NEW g \in Group, ApplyBegin(p, g) \/ RevertBegin(p, g)
      PROVE  Goal
  <2>1. /\ phase[p] = "idle" /\ phase'[p] \in {"scan", "restore"}
        /\ disk' = disk /\ by' = by /\ mem' = mem /\ \A q \in Proc : q = p
    BY <1>3, <1>0 DEF ApplyBegin, RevertBegin, Goto, TypeOK, OneProcess
  <2> QED
    BY <1>0, <2>1 DEF OriginalsAuthentic, Holds, Running, AtRest
<1>4. ASSUME NEW p \in Proc, NEW v \in Value, Read(p, v) PROVE Goal
  <2>1. /\ phase[p] = "scan" /\ phase'[p] = (IF SavesFirst(p, v) THEN "archive" ELSE "write")
        /\ disk' = disk /\ by' = by /\ \A q \in Proc : q = p
        /\ mem'[p] = Ensure(mem[p], v)
        /\ dirty'[p] = (dirty[p] \/ (mem[p][v] = None /\ ~SavesFirst(p, v)))
    BY <1>4, <1>0 DEF Read, Goto, TypeOK, OneProcess
  <2>2. \A u \in Value : /\ mem'[p][u] # None => Authentic(mem'[p][u])
                         /\ mem[p][u] # None => mem'[p][u] # None
    BY <2>1, EnsureAuthentic DEF Running
  <2>3. phase'[p] = "write" /\ ~dirty'[p] => mem'[p] = disk
    BY <1>0, <2>1 DEF SavesFirst, Ensure, Holds
  <2> QED
    BY <1>0, <2>1, <2>2, <2>3 DEF OriginalsAuthentic, Holds, Running, AtRest
<1>5. ASSUME NEW p \in Proc, NEW v \in Value, Restore(p, v) PROVE Goal
  <2>1. /\ phase[p] = "restore" /\ phase' = phase /\ disk' = disk /\ \A q \in Proc : q = p
        /\ mem[p][v] # None
    BY <1>5, <1>0 DEF Restore, LocalsOK, OneProcess
  <2>2. by' = [by EXCEPT ![v] = mem[p][v].by] /\ mem' = [mem EXCEPT ![p] = [mem[p] EXCEPT ![v] = None]]
    BY <1>5 DEF Restore
  <2>3. mem[p][v].by = "user"
    BY <1>0, <2>1 DEF OriginalsAuthentic, Authentic
  <2>4. \A u \in Value : /\ mem'[p][u] # None => mem'[p][u] = mem[p][u]
                         /\ by'[u] = "program" => by[u] = "program" /\ mem'[p][u] = mem[p][u]
    BY <1>0, <2>2, <2>3 DEF TypeOK, Archives
  <2> QED
    BY <1>0, <2>1, <2>4 DEF OriginalsAuthentic, Holds, Running, AtRest
<1>6. ASSUME NEW p \in Proc, NEW v \in Value, RestoreFails(p, v) PROVE Goal
  BY <1>6, <1>0 DEF RestoreFails, OriginalsAuthentic, Holds, Running, AtRest
<1>7. ASSUME NEW p \in Proc, ArchiveFirst(p) \/ Save(p) PROVE Goal
  <2>1. Running(p) /\ disk' = mem[p] /\ mem' = mem /\ by' = by /\ \A q \in Proc : q = p
    BY <1>7 DEF ArchiveFirst, Save, Running, OneProcess
  <2> QED
    BY <1>0, <2>1 DEF OriginalsAuthentic, Holds
<1>8. ASSUME NEW p \in Proc, Write(p) PROVE Goal
  <2>1. /\ phase[p] = "write" /\ phase'[p] = "scan"
        /\ disk' = disk /\ mem' = mem /\ dirty' = dirty /\ \A q \in Proc : q = p
        /\ mem[p][at[p]] # None
    BY <1>8, <1>0 DEF Write, Goto, TypeOK, LocalsOK, OneProcess
  <2>2. \A u \in Value : by'[u] = "program" => by[u] = "program" \/ u = at[p]
    BY <1>8, <1>0 DEF Write, TypeOK
  <2> QED
    BY <1>0, <2>1, <2>2 DEF OriginalsAuthentic, Holds, Running, AtRest
<1>9. ASSUME NEW p \in Proc, WriteFails(p) \/ ScanDone(p) \/ RestoreDone(p) PROVE Goal
  <2>1. /\ disk' = disk /\ mem' = mem /\ by' = by /\ \A q \in Proc : q = p
        /\ phase[p] \in {"write", "scan", "restore"}
        /\ phase'[p] \in {"scan", "idle", "flush", "store"}
        /\ phase'[p] = "scan" => phase[p] = "write" /\ dirty' = dirty
        /\ phase'[p] = "idle" => phase[p] = "scan" /\ ~dirty[p]
    BY <1>9, <1>0
       DEF WriteFails, ScanDone, RestoreDone, MustSave, Return, Leave, Goto, TypeOK, OneProcess
  <2>2. phase'[p] = "idle" => mem[p] = disk
    BY <1>0, <2>1 DEF Holds
  <2> QED
    BY <1>0, <2>1, <2>2 DEF OriginalsAuthentic, Holds, Running, AtRest
<1>10. ASSUME NEW p \in Proc, Crash(p) \/ ReadFails(p) \/ SaveFails(p) PROVE Goal
  BY <1>10 DEF Crash, ReadFails, SaveFails, Sound
<1>11. ASSUME NEW v \in Value, NEW d \in Data, Drift(v, d) PROVE Goal
  <2>1. \A u \in Value : by'[u] = "program" => by[u] = "program"
    BY <1>11, <1>0 DEF Drift, TypeOK
  <2> QED
    BY <1>11, <1>0, <2>1 DEF Drift, OriginalsAuthentic, Holds, Running, AtRest
<1>12. ASSUME UNCHANGED vars PROVE Goal
  BY <1>12, <1>0 DEF vars, OriginalsAuthentic, Holds, Running, AtRest
<1> HIDE DEF Goal
<1>13. Goal
  BY <1>1, <1>2, <1>3, <1>4, <1>5, <1>6, <1>7, <1>8, <1>9, <1>10, <1>11, <1>12
     DEF Next, Step
<1> QED
  BY <1>13 DEF Goal

LEMMA AlwaysSound ==
    ASSUME OneProcess, Sound
    PROVE  Spec => []SoundInv
<1>1. Init => SoundInv
  BY InitSound
<1>2. SoundInv /\ [Next]_vars => SoundInv'
  BY NextSound, NextTyped DEF SoundInv
<1> QED
  BY <1>1, <1>2, PTL DEF Spec

\* No entry ever records a value of the program's own.
THEOREM EntriesAuthentic ==
    ASSUME OneProcess, Sound
    PROVE  Spec => []OriginalsAuthentic
<1>1. SoundInv => OriginalsAuthentic
  BY DEF SoundInv
<1> QED
  BY <1>1, AlwaysSound, PTL

\* Between operations archive.json has the original of every value that is the
\* program's, whatever was applied, reverted and refused before (ensure and save
\* in config.rs, apply and revert of the groups).
THEOREM OriginalsOnDiskAtRest ==
    ASSUME OneProcess, Sound
    PROVE  Spec => []ArchivedAtRest
<1>1. SoundInv => ArchivedAtRest
  BY DEF SoundInv, Holds, OriginalsAuthentic, ArchivedAtRest
<1> QED
  BY <1>1, AlwaysSound, PTL

\* At any instant archive.json or the process that runs has the original of
\* every value that is the program's.
THEOREM OriginalsAtHand ==
    ASSUME OneProcess, Sound
    PROVE  Spec => []OriginalRecoverable
<1>1. SoundInv => OriginalRecoverable
  <2> SUFFICES ASSUME SoundInv, NEW v \in Value, by[v] = "program"
               PROVE  Authentic(disk[v]) \/ \E p \in Proc : Running(p) /\ Authentic(mem[p][v])
    BY DEF OriginalRecoverable
  <2>1. CASE \E p \in Proc : Running(p)
    BY <2>1 DEF SoundInv, Holds, OriginalsAuthentic
  <2>2. CASE ~\E p \in Proc : Running(p)
    BY <2>2 DEF SoundInv, Holds, OriginalsAuthentic, AtRest, Running
  <2> QED
    BY <2>1, <2>2
<1> QED
  BY <1>1, AlwaysSound, PTL

\* A revert without an error so far has no entry left of what it has handled.
Emptied ==
    \A p \in Proc :
      /\ phase[p] = "store" => todo[p] = {}
      /\ phase[p] \in {"restore", "store"} /\ ok[p] =>
           \A v \in ValuesOf(group[p]) : v \in todo[p] \/ mem[p][v] = None

LEMMA NextEmptied ==
    ASSUME OneProcess, Typed, Emptied, [Next]_vars
    PROVE  Emptied'
<1>0. TypeOK /\ LocalsOK
  BY DEF Typed
<1> DEFINE Goal == Emptied'
<1>1. ASSUME NEW p \in Proc, NEW g \in Group, RevertBegin(p, g) PROVE Goal
  <2>1. /\ phase'[p] = "restore" /\ group'[p] = g /\ todo'[p] = Archived(p, g) /\ mem' = mem
        /\ \A q \in Proc : q = p
    BY <1>1, <1>0 DEF RevertBegin, Goto, TypeOK, OneProcess
  <2> QED
    BY <2>1 DEF Emptied, Archived
<1>2. ASSUME NEW p \in Proc, NEW v \in Value, Restore(p, v) PROVE Goal
  <2>1. /\ phase' = phase /\ phase[p] = "restore" /\ group' = group /\ ok' = ok
        /\ todo'[p] = todo[p] \ {v} /\ \A q \in Proc : q = p
    BY <1>2, <1>0 DEF Restore, TypeOK, OneProcess
  <2>2. mem'[p][v] = None /\ \A u \in Value \ {v} : mem'[p][u] = mem[p][u]
    BY <1>2, <1>0 DEF Restore, TypeOK, Archives
  <2> QED
    BY <2>1, <2>2 DEF Emptied, ValuesOf
<1>3. ASSUME NEW p \in Proc, NEW v \in Value, RestoreFails(p, v) PROVE Goal
  <2>1. phase' = phase /\ phase[p] = "restore" /\ ok'[p] = FALSE /\ \A q \in Proc : q = p
    BY <1>3, <1>0 DEF RestoreFails, TypeOK, OneProcess
  <2> QED
    BY <2>1 DEF Emptied
<1>4. ASSUME NEW p \in Proc, RestoreDone(p) PROVE Goal
  BY <1>4, <1>0 DEF RestoreDone, Goto, TypeOK, OneProcess, Emptied
<1>5. ASSUME NEW p \in Proc,
             \/ Start(p) \/ Exit(p) \/ Crash(p) \/ ReadFails(p) \/ ArchiveFirst(p) \/ Write(p)
             \/ WriteFails(p) \/ ScanDone(p) \/ Save(p) \/ SaveFails(p)
      PROVE  Goal
  <2>1. phase'[p] \notin {"restore", "store"} /\ \A q \in Proc : q = p
    BY <1>5, <1>0
       DEF Start, Exit, Crash, ReadFails, ArchiveFirst, Write, WriteFails, ScanDone,
           Save, SaveFails, Return, Leave, Goto, TypeOK, OneProcess
  <2> QED
    BY <2>1 DEF Emptied
<1>6. ASSUME NEW p \in Proc, NEW g \in Group, ApplyBegin(p, g) PROVE Goal
  <2>1. phase'[p] = "scan" /\ \A q \in Proc : q = p
    BY <1>6, <1>0 DEF ApplyBegin, Goto, TypeOK, OneProcess
  <2> QED
    BY <2>1 DEF Emptied
<1>7. ASSUME NEW p \in Proc, NEW v \in Value, Read(p, v) PROVE Goal
  <2>1. phase'[p] \in {"archive", "write"} /\ \A q \in Proc : q = p
    BY <1>7, <1>0 DEF Read, Goto, TypeOK, OneProcess
  <2> QED
    BY <2>1 DEF Emptied
<1>8. ASSUME NEW v \in Value, NEW d \in Data, Drift(v, d) PROVE Goal
  BY <1>8 DEF Drift, Emptied
<1>9. ASSUME UNCHANGED vars PROVE Goal
  BY <1>9 DEF vars, Emptied
<1> HIDE DEF Goal
<1>10. Goal
  BY <1>1, <1>2, <1>3, <1>4, <1>5, <1>6, <1>7, <1>8, <1>9 DEF Next, Step
<1> QED
  BY <1>10 DEF Goal

\* A revert that returns Ok left none of the program's values in its group, and
\* no entry of the group in archive.json.
THEOREM RevertLeavesNothing ==
    ASSUME OneProcess, Sound
    PROVE  Spec => RevertRestores
<1>1. Init => SoundInv /\ Emptied
  BY InitSound DEF Init, Emptied
<1>2. SoundInv /\ Emptied /\ [Next]_vars => SoundInv' /\ Emptied'
  BY NextSound, NextTyped, NextEmptied DEF SoundInv
<1>3. SoundInv /\ Emptied /\ [Next]_vars => [\A p \in Proc : RevertedClean(p)]_vars
  <2> SUFFICES ASSUME SoundInv, Emptied, [Next]_vars, NEW p \in Proc,
                      phase[p] = "store", phase'[p] = "idle", ok'[p],
                      NEW v \in ValuesOf(group[p])
               PROVE  by'[v] = "user" /\ disk'[v] = None
    BY DEF RevertedClean
  <2>0. TypeOK /\ \A q \in Proc : q = p
    BY DEF SoundInv, Typed, OneProcess
  <2>1. Save(p)
    <3>1. phase' # phase /\ Next
      BY DEF vars
    <3>2. PICK q \in Proc : Step(q)
      BY <3>1 DEF Next, Drift
    <3>3. q = p
      BY <2>0
    <3> QED
      BY <2>0, <3>2, <3>3
         DEF Step, Start, Exit, Crash, ApplyBegin, RevertBegin, Read, Restore, RestoreFails,
             ReadFails, ArchiveFirst, Write, WriteFails, ScanDone, RestoreDone, SaveFails,
             Return, Leave, Goto, TypeOK, Sound
  <2>2. disk' = mem[p] /\ by' = by /\ ok[p]
    BY <2>0, <2>1 DEF Save, Return, Leave, TypeOK
  <2>3. mem[p][v] = None
    BY <2>2 DEF Emptied
  <2>4. by[v] # "program" /\ by[v] \in Author
    BY <2>0, <2>3 DEF SoundInv, Holds, Running, ValuesOf, TypeOK
  <2> QED
    BY <2>2, <2>3, <2>4 DEF Author
<1> QED
  BY <1>1, <1>2, <1>3, PTL DEF Spec, RevertRestores

-----------------------------------------------------------------------------
\* The groups implement ArchivePromise.
PromiseInv == KnowsInv /\ (Saves => AheadInv)

LEMMA InitPromise == Init => Promise!Init
  BY DEF Init, Promise!Init, Empty, Authentic

LEMMA StepPromise ==
    ASSUME PromiseInv, [Next]_vars
    PROVE  [Promise!Next]_(Promise!vars)
<1>0. TypeOK /\ LocalsOK /\ MemoryKnowsDisk /\ (Saves => EagerSaved /\ WriteAhead)
  BY DEF PromiseInv, KnowsInv, AheadInv, Typed
<1>1. CASE UNCHANGED <<by, disk>>
  BY <1>1 DEF Promise!vars
<1>2. ASSUME NEW p \in Proc, ArchiveFirst(p) \/ Save(p)
      PROVE  Promise!Replace
  <2>1. Running(p) /\ disk' = mem[p] /\ by' = by
    BY <1>2 DEF ArchiveFirst, Save, Running
  <2>2. ASSUME NEW v \in Value, Authentic(disk[v]), by[v] = "program"
        PROVE  Authentic(disk'[v])
    BY <1>0, <2>1, <2>2 DEF MemoryKnowsDisk
  <2>3. [v \in Value |-> Authentic(disk[v])]' \in [Value -> BOOLEAN]
    BY DEF Authentic
  <2> QED
    BY <2>1, <2>2, <2>3 DEF Promise!Replace
<1>3. ASSUME NEW p \in Proc, Write(p)
      PROVE  Promise!Overwrite(at[p]) /\ at[p] \in Value
  <2>1. /\ phase[p] = "write" /\ at[p] \in Value /\ mem[p][at[p]] # None
        /\ by' = [by EXCEPT ![at[p]] = "program"] /\ disk' = disk
    BY <1>3, <1>0 DEF Write, LocalsOK, ValuesOf
  <2>2. ASSUME GroupOf[at[p]] \in Eager, Saves PROVE Authentic(disk[at[p]])
    BY <1>0, <2>1, <2>2 DEF EagerSaved, Running
  <2> QED
    BY <2>1, <2>2 DEF Promise!Overwrite, Saves
<1>4. ASSUME NEW p \in Proc, NEW v \in Value, Restore(p, v)
      PROVE  Promise!Overwrite(v) \/ Promise!HandBack(v)
  <2>1. /\ phase[p] = "restore" /\ mem[p][v] # None /\ mem[p][v].by \in Author
        /\ by' = [by EXCEPT ![v] = mem[p][v].by] /\ disk' = disk
    BY <1>4, <1>0 DEF Restore, LocalsOK, TypeOK, Archives, Entry
  <2>2. CASE mem[p][v].by = "user"
    BY <2>1, <2>2 DEF Promise!HandBack
  <2>3. CASE mem[p][v].by = "program"
    <3>1. ~(GroupOf[v] \in Eager /\ Saves)
      BY <1>0, <2>1, <2>3 DEF EagerSaved, Running, Authentic
    <3> QED
      BY <2>1, <2>3, <3>1 DEF Promise!Overwrite, Saves
  <2> QED
    BY <2>1, <2>2, <2>3 DEF Author
<1>5. ASSUME NEW v \in Value, NEW d \in Data, Drift(v, d)
      PROVE  Promise!HandBack(v)
  BY <1>5 DEF Drift, Promise!HandBack
<1>6. CASE UNCHANGED vars
  BY <1>1, <1>6 DEF vars
<1>7. CASE ~UNCHANGED <<by, disk>>
  <2>1. \/ \E p \in Proc : ArchiveFirst(p) \/ Save(p) \/ Write(p)
        \/ \E p \in Proc, v \in Value : Restore(p, v)
        \/ \E v \in Value, d \in Data : Drift(v, d)
    BY <1>7, <1>6
       DEF Next, Step, Start, Exit, Crash, ApplyBegin, RevertBegin, Read, RestoreFails,
           ReadFails, WriteFails, ScanDone, RestoreDone, SaveFails, vars
  <2> QED
    BY <2>1, <1>2, <1>3, <1>4, <1>5 DEF Promise!Next
<1> QED
  BY <1>1, <1>7

\* With one process at a time and an archive that loads, the groups, for all
\* the faults they meet, take only steps that ArchivePromise allows.
THEOREM GroupsImplementPromise ==
    ASSUME OneProcess, Loads
    PROVE  Spec => KeepsPromise
<1>1. Init => PromiseInv
  BY InitKnows, InitAhead DEF PromiseInv
<1>2. PromiseInv /\ [Next]_vars => PromiseInv'
  BY NextKnows, NextAhead, NextTyped DEF PromiseInv, KnowsInv, AheadInv, Saves
<1>3. PromiseInv /\ [Next]_vars => [Promise!Next]_(Promise!vars)
  BY StepPromise
<1> QED
  BY <1>1, <1>2, <1>3, InitPromise, PTL DEF Spec, KeepsPromise, Promise!Spec

=============================================================================
