------------------------------ MODULE TweakGroups ------------------------------
(***************************************************************************)
(* The registry tweak groups (tcp.rs, mtu.rs, power.rs, system.rs) and the *)
(* archive of original values they share (config.rs).                      *)
(*                                                                         *)
(* A process loads archive.json into memory once, then runs apply and      *)
(* revert operations on whole groups.  apply reads each value, records it  *)
(* in the archive unless an entry exists (ensure), and overwrites it;      *)
(* revert writes every archived value of the group back and drains the     *)
(* entries that were restored.  The groups tcp, mtu and power save the     *)
(* archive once, after their last write; system saves it before its write. *)
(* The latter kind is the constant Eager.                                  *)
(*                                                                         *)
(* by and the field by of an entry are observers: they say who wrote the   *)
(* value now in the registry and who had written the value an entry        *)
(* records.  No guard reads them.                                          *)
(***************************************************************************)
CONSTANTS
    Proc,        \* processes: the menu, a command line, the autostarted copy
    Group,       \* tcp, system, mtu, power
    Value,       \* registry values, each one (group, subkey, name)
    GroupOf,     \* the group of a value
    PerAdapter,  \* values under an adapter's own key: found by enumeration
    Eager,       \* groups that save the archive before they write
    Data,        \* contents of a value
    Absent,      \* the content of a value that does not exist
    Tuned,       \* Tuned[v][d]: what apply writes over content d of v
    None,        \* no archive entry, or no value at hand
    Faults       \* what may go wrong: see FaultKinds

Author == {"user", "program"}
Entry  == [val : Data, by : Author]
FaultKinds == {"load", "read", "write", "restore", "save", "crash"}

ASSUME TweakAssumption ==
    /\ GroupOf \in [Value -> Group]
    /\ PerAdapter \subseteq Value
    /\ Eager \subseteq Group
    /\ Absent \in Data
    /\ Tuned \in [Value -> [Data -> Data \ {Absent}]]
    /\ None \notin Entry \cup Value \cup Group \cup Data
    /\ Faults \subseteq FaultKinds

VARIABLES
    reg,     \* the registry: Value -> Data
    by,      \* observer: who wrote reg[v]
    disk,    \* archive.json: Value -> Entry or None
    mem,     \* the Archive each process holds
    phase,   \* where each process is in its current operation
    group,   \* the group it works on
    todo,    \* values of the group it has not handled yet
    at,      \* the value between its read and its write
    target,  \* what it is about to write there
    dirty,   \* apply: an entry was added since the operation began
    ok       \* the operation has recorded no error; at idle, its Result

vars == <<reg, by, disk, mem, phase, group, todo, at, target, dirty, ok>>

Phases == {"off", "idle", "scan", "archive", "write", "flush", "restore", "store"}
Archives == [Value -> Entry \cup {None}]
Empty == [v \in Value |-> None]
ValuesOf(g) == {v \in Value : GroupOf[v] = g}

TypeOK ==
    /\ reg \in [Value -> Data]
    /\ by \in [Value -> Author]
    /\ disk \in Archives
    /\ mem \in [Proc -> Archives]
    /\ phase \in [Proc -> Phases]
    /\ group \in [Proc -> Group \cup {None}]
    /\ todo \in [Proc -> SUBSET Value]
    /\ at \in [Proc -> Value \cup {None}]
    /\ target \in [Proc -> Data \cup {None}]
    /\ dirty \in [Proc -> BOOLEAN]
    /\ ok \in [Proc -> BOOLEAN]

Init ==
    /\ reg \in [Value -> Data]
    /\ by = [v \in Value |-> "user"]
    /\ disk = Empty
    /\ mem = [p \in Proc |-> Empty]
    /\ phase = [p \in Proc |-> "off"]
    /\ group = [p \in Proc |-> None]
    /\ todo = [p \in Proc |-> {}]
    /\ at = [p \in Proc |-> None]
    /\ target = [p \in Proc |-> None]
    /\ dirty = [p \in Proc |-> FALSE]
    /\ ok = [p \in Proc |-> TRUE]

-----------------------------------------------------------------------------
\* Helpers.  A name that ends in Mutant is a mistake the checks must notice:
\* the definition below it, with that mistake made.

\* What load_archive finds in the file.
LoadedMutant == Empty
Loaded == disk

\* Archive::ensure: the first recorded value of v stays.
EnsureMutant(archive, v) ==
    [archive EXCEPT ![v] = [val |-> reg[v], by |-> by[v]]]
Ensure(archive, v) ==
    IF archive[v] = None
    THEN [archive EXCEPT ![v] = [val |-> reg[v], by |-> by[v]]]
    ELSE archive

\* What apply will write over the present content of v.
TargetOfMutant(v) == IF reg[v] = Absent THEN None ELSE Tuned[v][reg[v]]
TargetOf(v) == Tuned[v][reg[v]]

\* The group of p saves the new entry of v before it writes v.
SavesFirstMutant(p, v) == FALSE
SavesFirst(p, v) == mem[p][v] = None /\ group[p] \in Eager

\* apply added an entry that no save has written yet.
MustSaveMutant(p) == FALSE
MustSave(p) == dirty[p]

\* The values of group g that p holds an entry of.
ArchivedFixedMutant(p, g) == {v \in ValuesOf(g) \ PerAdapter : mem[p][v] # None}
Archived(p, g) == {v \in ValuesOf(g) : mem[p][v] # None}

Goto(p, ph) == phase' = [phase EXCEPT ![p] = ph]

\* The process leaves its operation for ph with Result r and forgets its locals.
Leave(p, ph, r) ==
    /\ Goto(p, ph)
    /\ group' = [group EXCEPT ![p] = None]
    /\ todo' = [todo EXCEPT ![p] = {}]
    /\ at' = [at EXCEPT ![p] = None]
    /\ target' = [target EXCEPT ![p] = None]
    /\ dirty' = [dirty EXCEPT ![p] = FALSE]
    /\ ok' = [ok EXCEPT ![p] = r]

Return(p, r) == Leave(p, "idle", r)

-----------------------------------------------------------------------------
\* A process starts, ends and dies.

\* load_archive; any error reading the file yields an empty archive.
Start(p) ==
    /\ phase[p] = "off"
    /\ \/ mem' = [mem EXCEPT ![p] = Loaded]
       \/ "load" \in Faults /\ mem' = [mem EXCEPT ![p] = Empty]
    /\ Goto(p, "idle")
    /\ UNCHANGED <<reg, by, disk, group, todo, at, target, dirty, ok>>

Exit(p) ==
    /\ phase[p] = "idle"
    /\ mem' = [mem EXCEPT ![p] = Empty]
    /\ Leave(p, "off", TRUE)
    /\ UNCHANGED <<reg, by, disk>>

\* The window is closed, the process killed or the machine loses power.
Crash(p) ==
    /\ "crash" \in Faults
    /\ phase[p] # "off"
    /\ mem' = [mem EXCEPT ![p] = Empty]
    /\ Leave(p, "off", TRUE)
    /\ UNCHANGED <<reg, by, disk>>

-----------------------------------------------------------------------------
\* apply.

\* The operation handles the machine-wide values of the group and those of
\* the adapters the enumeration returns now, whichever they are.
ApplyBegin(p, g) ==
    /\ phase[p] = "idle"
    /\ \E adapters \in SUBSET (ValuesOf(g) \cap PerAdapter) :
         todo' = [todo EXCEPT ![p] = (ValuesOf(g) \ PerAdapter) \cup adapters]
    /\ group' = [group EXCEPT ![p] = g]
    /\ ok' = [ok EXCEPT ![p] = TRUE]
    /\ Goto(p, "scan")
    /\ UNCHANGED <<reg, by, disk, mem, at, target, dirty>>

\* read_dword, then ensure.  An eager group saves a new entry at once.
Read(p, v) ==
    /\ phase[p] = "scan"
    /\ v \in todo[p]
    /\ mem' = [mem EXCEPT ![p] = Ensure(@, v)]
    /\ todo' = [todo EXCEPT ![p] = @ \ {v}]
    /\ at' = [at EXCEPT ![p] = v]
    /\ target' = [target EXCEPT ![p] = TargetOf(v)]
    /\ dirty' = [dirty EXCEPT ![p] = @ \/ (mem[p][v] = None /\ ~SavesFirst(p, v))]
    /\ Goto(p, IF SavesFirst(p, v) THEN "archive" ELSE "write")
    /\ UNCHANGED <<reg, by, disk, group, ok>>

\* A failed read returns at once: entries added so far stay unsaved.
ReadFails(p) ==
    /\ "read" \in Faults
    /\ phase[p] = "scan"
    /\ todo[p] # {}
    /\ Return(p, FALSE)
    /\ UNCHANGED <<reg, by, disk, mem>>

ArchiveFirst(p) ==
    /\ phase[p] = "archive"
    /\ disk' = mem[p]
    /\ Goto(p, "write")
    /\ UNCHANGED <<reg, by, mem, group, todo, at, target, dirty, ok>>

Write(p) ==
    /\ phase[p] = "write"
    /\ reg' = [reg EXCEPT ![at[p]] = target[p]]
    /\ by' = [by EXCEPT ![at[p]] = "program"]
    /\ Goto(p, "scan")
    /\ UNCHANGED <<disk, mem, group, todo, at, target, dirty, ok>>

\* A failed write is remembered and the scan goes on.
WriteFails(p) ==
    /\ "write" \in Faults
    /\ phase[p] = "write"
    /\ ok' = [ok EXCEPT ![p] = FALSE]
    /\ Goto(p, "scan")
    /\ UNCHANGED <<reg, by, disk, mem, group, todo, at, target, dirty>>

\* Every value was handled: save the archive if an entry was added.
ScanDone(p) ==
    /\ phase[p] = "scan"
    /\ todo[p] = {}
    /\ \/ /\ MustSave(p)
          /\ Goto(p, "flush")
          /\ UNCHANGED <<group, todo, at, target, dirty, ok>>
       \/ /\ ~MustSave(p)
          /\ Return(p, ok[p])
    /\ UNCHANGED <<reg, by, disk, mem>>

-----------------------------------------------------------------------------
\* revert.

RevertBegin(p, g) ==
    /\ phase[p] = "idle"
    /\ todo' = [todo EXCEPT ![p] = Archived(p, g)]
    /\ group' = [group EXCEPT ![p] = g]
    /\ ok' = [ok EXCEPT ![p] = TRUE]
    /\ Goto(p, "restore")
    /\ UNCHANGED <<reg, by, disk, mem, at, target, dirty>>

\* restore_group: write the recorded value back, or delete the value when it
\* was absent, and drop the entry.
Restore(p, v) ==
    /\ phase[p] = "restore"
    /\ v \in todo[p]
    /\ reg' = [reg EXCEPT ![v] = mem[p][v].val]
    /\ by' = [by EXCEPT ![v] = mem[p][v].by]
    /\ mem' = [mem EXCEPT ![p][v] = None]
    /\ todo' = [todo EXCEPT ![p] = @ \ {v}]
    /\ UNCHANGED <<disk, phase, group, at, target, dirty, ok>>

\* An entry that could not be restored stays in the archive.
RestoreFails(p, v) ==
    /\ "restore" \in Faults
    /\ phase[p] = "restore"
    /\ v \in todo[p]
    /\ todo' = [todo EXCEPT ![p] = @ \ {v}]
    /\ ok' = [ok EXCEPT ![p] = FALSE]
    /\ UNCHANGED <<reg, by, disk, mem, phase, group, at, target, dirty>>

RestoreDone(p) ==
    /\ phase[p] = "restore"
    /\ todo[p] = {}
    /\ Goto(p, "store")
    /\ UNCHANGED <<reg, by, disk, mem, group, todo, at, target, dirty, ok>>

-----------------------------------------------------------------------------
\* save_archive at the end of apply ("flush") and of revert ("store").

Save(p) ==
    /\ phase[p] \in {"flush", "store"}
    /\ disk' = mem[p]
    /\ Return(p, ok[p])
    /\ UNCHANGED <<reg, by, mem>>

\* The operation returns the error; memory keeps what it could not save.
SaveFails(p) ==
    /\ "save" \in Faults
    /\ phase[p] \in {"archive", "flush", "store"}
    /\ Return(p, FALSE)
    /\ UNCHANGED <<reg, by, disk, mem>>

-----------------------------------------------------------------------------
\* Somebody else (the user, an installer, Windows) changes a value.
Drift(v, d) ==
    /\ reg[v] # d
    /\ reg' = [reg EXCEPT ![v] = d]
    /\ by' = [by EXCEPT ![v] = "user"]
    /\ UNCHANGED <<disk, mem, phase, group, todo, at, target, dirty, ok>>

Step(p) ==
    \/ Start(p) \/ Exit(p) \/ Crash(p)
    \/ \E g \in Group : ApplyBegin(p, g) \/ RevertBegin(p, g)
    \/ \E v \in Value : Read(p, v) \/ Restore(p, v) \/ RestoreFails(p, v)
    \/ ReadFails(p) \/ ArchiveFirst(p) \/ Write(p) \/ WriteFails(p) \/ ScanDone(p)
    \/ RestoreDone(p) \/ Save(p) \/ SaveFails(p)

Next ==
    \/ \E p \in Proc : Step(p)
    \/ \E v \in Value, d \in Data : Drift(v, d)

Spec == Init /\ [][Next]_vars

-----------------------------------------------------------------------------
\* Properties.

Authentic(entry) == entry # None /\ entry.by = "user"
Running(p) == phase[p] # "off"
AtRest == \A p \in Proc : phase[p] \in {"off", "idle"}

\* No entry, saved or in a running process, records a value the program itself
\* had written: ensure never mistakes a tuned value for the original.
OriginalsAuthentic ==
    \A v \in Value :
      /\ disk[v] # None => Authentic(disk[v])
      /\ \A p \in Proc : mem[p][v] # None => Authentic(mem[p][v])

\* Whenever a value holds what the program wrote, its original is still known:
\* on disk or in the memory of a process that runs.
OriginalRecoverable ==
    \A v \in Value : by[v] = "program" =>
      \/ Authentic(disk[v])
      \/ \E p \in Proc : Running(p) /\ Authentic(mem[p][v])

\* Between operations the original of every value the program changed is in
\* archive.json: neither quitting nor a later operation depends on memory.
ArchivedAtRest ==
    AtRest => \A v \in Value : by[v] = "program" => Authentic(disk[v])

\* In a group that saves first (system.rs), the original is in archive.json
\* at every instant at which the registry holds the program's value.
WriteAhead ==
    \A v \in Value :
      GroupOf[v] \in Eager /\ by[v] = "program" => Authentic(disk[v])

\* A saved original leaves archive.json only when the value is no longer the
\* program's, and is replaced only by another value the program did not write:
\* save_archive never destroys the only record of an original.
OriginalKept(v) ==
    Authentic(disk[v]) =>
      \/ Authentic(disk'[v])
      \/ disk'[v] = None /\ by'[v] = "user"

SavedOriginalKept == [][\A v \in Value : OriginalKept(v)]_vars

\* A revert that returns Ok has left none of the program's values in its group
\* and no entry of the group in archive.json.
RevertedClean(p) ==
    phase[p] = "store" /\ phase'[p] = "idle" /\ ok'[p] =>
      \A v \in ValuesOf(group[p]) : by'[v] = "user" /\ disk'[v] = None

RevertRestores == [][\A p \in Proc : RevertedClean(p)]_vars

-----------------------------------------------------------------------------
\* Inductive strengthenings of the properties above, for one process.

\* What the locals of an operation promise: a value about to be saved or
\* written has its entry, a value about to be restored has one, and the
\* operation touches values of its own group only.
LocalsOK ==
    \A p \in Proc :
      /\ phase[p] \in {"archive", "write"} =>
           /\ at[p] \in ValuesOf(group[p])
           /\ target[p] \in Data
           /\ mem[p][at[p]] # None
      /\ todo[p] \subseteq ValuesOf(group[p])
      /\ phase[p] = "restore" => \A v \in todo[p] : mem[p][v] # None

\* A running process knows every saved original, unless it gave it back.
MemoryKnowsDisk ==
    \A p \in Proc, v \in Value :
      Running(p) /\ Authentic(disk[v]) =>
        \/ Authentic(mem[p][v])
        \/ mem[p][v] = None /\ by[v] = "user"

\* In the groups that save first, an entry in memory is the saved one except
\* between ensure and the save, and a value without one is nobody's but the
\* user's.
EagerSaved ==
    \A v \in Value : GroupOf[v] \in Eager =>
      /\ disk[v] # None => Authentic(disk[v])
      /\ \A p \in Proc : Running(p) =>
           IF mem[p][v] = None
           THEN by[v] = "user"
           ELSE /\ Authentic(mem[p][v])
                /\ (phase[p] = "archive" /\ at[p] = v) \/ disk[v] = mem[p][v]

-----------------------------------------------------------------------------
\* The groups implement the promise of the archive: every step of a process or
\* of the user is a step of ArchivePromise or leaves its state alone.  A value
\* is under guard when its group saves first and no save can fail.
Promise == INSTANCE ArchivePromise WITH
    author <- by,
    kept <- [v \in Value |-> Authentic(disk[v])],
    Guarded <- {v \in Value : GroupOf[v] \in Eager /\ "save" \notin Faults}

KeepsPromise == Promise!Spec

=============================================================================
