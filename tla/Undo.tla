--------------------------------- MODULE Undo ---------------------------------
(***************************************************************************)
(* The files behind --apply, --revert and --undo: archive.json, replaced   *)
(* through a temporary file and a rename (write_atomic in config.rs), and  *)
(* the snapshots of it that an apply takes, named by the second, and       *)
(* prunes.  --undo reverts, then puts the latest snapshot in the place of  *)
(* the archive (cli.rs).                                                   *)
(*                                                                         *)
(* A group is one value here: apply archives it, writes it and saves;      *)
(* TweakGroups has groups of several values.  One process runs at a time.  *)
(* before, orig, risk, touched and undone are observers: no guard reads    *)
(* them.                                                                   *)
(***************************************************************************)
EXTENDS Integers, FiniteSets, Sequences

CONSTANTS
    Group,      \* groups, and the value of each
    Own,        \* contents the owner of the machine may give a value
    Tuned,      \* the content apply writes
    None,       \* no archive entry, nothing at hand
    Missing,    \* the content of a file that does not exist
    Torn,       \* the content of a file that was not written to its end
    Instant,    \* bound: Unix time, in seconds, at each tick of the clock
    Keep,       \* MAX_SNAPSHOTS
    FaultSets   \* bound: the combinations of faults that may occur

Archives == [Group -> Own \cup {Tuned, None}]

ASSUME UndoAssumption ==
    /\ Tuned \notin Own /\ None \notin Own /\ None # Tuned
    /\ {Missing, Torn, None} \cap Archives = {}
    /\ Missing # Torn /\ Missing # None /\ Torn # None
    /\ Keep \in Nat \ {0}
    /\ Instant \in Seq(Nat) /\ Instant # <<>>
    /\ FaultSets \subseteq SUBSET {"restore", "save", "crash"}

VARIABLES
    reg,        \* the values in the registry
    archive,    \* archive.json
    tmp,        \* archive.tmp
    snaps,      \* archive-snapshots: name -> content
    clock,      \* ticks so far
    job, pc,    \* the running command and where it is
    mem,        \* the Archive it holds
    todo,       \* groups it has not handled yet
    bytes,      \* what it is about to write to a file
    stamp,      \* the name of the snapshot it takes
    next,       \* where it goes on after a save
    ok,         \* no error so far
    before,     \* observer: archive.json when the last apply began
    orig,       \* observer: what apply found where it first replaced a value,
                \* until it is given back
    risk,       \* observer: groups whose entry an --undo changed, until then
    touched,    \* observer: the owner changed a value since that apply
    undone,     \* observer: an undo has come after that apply
    faults      \* what may go wrong in this behaviour: never changes

files == <<archive, tmp, snaps>>
locals == <<job, mem, todo, bytes, stamp, next, ok>>
observers == <<before, orig, risk, touched, undone>>
vars == <<reg, files, clock, pc, locals, observers, faults>>

Empty == [g \in Group |-> None]

\* A name that ends in Mutant is the definition below it with a mistake the
\* checks must notice.

\* load_archive: a file that is not there, or no archive, is an empty one.
LoadedMutant(file) ==
    IF file = Torn THEN [g \in Group |-> Torn] ELSE IF file = Missing THEN Empty ELSE file
Loaded(file) == IF file \in Archives THEN file ELSE Empty

\* Archive::ensure: an entry stays as it is.
Ensure(g) == IF mem[g] = None THEN [mem EXCEPT ![g] = reg[g]] ELSE mem

-----------------------------------------------------------------------------
\* Names of snapshots.

\* civil_from_days: the month of the year that begins in March, then the date.
Month(mp) == IF mp < 10 THEN mp + 3 ELSE mp - 9

Civil(days) ==
    LET z   == days + 719468
        doe == z % 146097
        yoe == (doe - doe \div 1460 + doe \div 36524 - doe \div 146096) \div 365
        doy == doe - (365 * yoe + yoe \div 4 - yoe \div 100)
        mp  == (5 * doy + 2) \div 153
        day == doy - (153 * mp + 2) \div 5 + 1
        month == Month(mp)
        year == yoe + (z \div 146097) * 400 + (IF month <= 2 THEN 1 ELSE 0)
    IN  <<year, month, day>>

\* timestamp_compact: fields of fixed width, from the year to the second.
Name(unix) ==
    LET s == unix % 86400
    IN  Civil(unix \div 86400) \o <<s \div 3600, (s % 3600) \div 60, s % 60>>

\* The order of the file names.
Before(m, n) ==
    \E i \in 1..Len(m) : m[i] < n[i] /\ \A j \in 1..i - 1 : m[j] = n[j]

\* prune: all but the last names go.
NewestMutant(names) == {n \in names : Cardinality({m \in names : Before(m, n)}) < Keep}
Newest(names) == {n \in names : Cardinality({m \in names : Before(n, m)}) < Keep}

\* latest_archive_snapshot.
LatestMutant == CHOOSE n \in DOMAIN snaps : \A m \in DOMAIN snaps : m = n \/ Before(n, m)
Latest == CHOOSE n \in DOMAIN snaps : \A m \in DOMAIN snaps : m = n \/ Before(m, n)

-----------------------------------------------------------------------------
TypeOK ==
    /\ reg \in [Group -> Own \cup {Tuned}]
    /\ {archive, tmp} \subseteq Archives \cup {Missing, Torn}
    /\ \A n \in DOMAIN snaps : snaps[n] \in Archives \cup {Torn}
    /\ clock \in DOMAIN Instant
    /\ job \in {"none", "apply", "revert", "undo"}
    /\ pc \in {"off", "snapshot", "copy", "prune", "load", "apply", "revert",
               "swap", "end", "open", "write", "rename"}
    /\ mem \in Archives /\ orig \in Archives
    /\ todo \subseteq Group
    /\ bytes \in Archives \cup {Torn, None}
    /\ stamp = None \/ stamp \in DOMAIN snaps
    /\ next \in {None, "apply", "revert", "swap", "end"}
    /\ ok \in BOOLEAN
    /\ pc = "off" => mem = Empty /\ todo = {} /\ bytes = None

Init ==
    /\ reg \in [Group -> Own]
    /\ archive = Missing /\ tmp = Missing /\ snaps = <<>>
    /\ clock = 1
    /\ job = "none" /\ pc = "off" /\ mem = Empty /\ todo = {}
    /\ bytes = None /\ stamp = None /\ next = None /\ ok = TRUE
    /\ before = Missing /\ orig = Empty /\ risk = {} /\ touched = FALSE /\ undone = FALSE
    /\ faults \in FaultSets

-----------------------------------------------------------------------------
\* write_atomic: create the temporary file, fill it, rename it.

WriteAtomic(content, back) ==
    /\ bytes' = content /\ next' = back /\ pc' = "open"

Return(result) ==
    /\ pc' = next
    /\ next' = None /\ bytes' = None
    /\ ok' = result
    /\ UNCHANGED <<reg, clock, job, mem, todo, stamp, observers, faults>>

Open ==
    /\ pc = "open"
    /\ tmp' = Torn /\ pc' = "write"
    /\ UNCHANGED <<reg, archive, snaps, clock, locals, observers, faults>>

Write ==
    /\ pc = "write"
    /\ tmp' = bytes /\ pc' = "rename"
    /\ UNCHANGED <<reg, archive, snaps, clock, locals, observers, faults>>

WrittenMutant == pc \in {"write", "rename"}
Written == pc = "rename"

Rename ==
    /\ Written
    /\ archive' = tmp /\ tmp' = Missing
    /\ Return(ok)
    /\ UNCHANGED snaps

\* Any of the three fails.  The results of the last save of a revert and of
\* the swap are not looked at.
SaveFails ==
    /\ "save" \in faults
    /\ pc \in {"open", "write", "rename"}
    /\ Return(ok /\ next \notin {"apply", "revert"})
    /\ UNCHANGED files

-----------------------------------------------------------------------------
\* --apply, and the menu when it starts with a group enabled.

BeginApply ==
    /\ pc = "off"
    /\ pc' = "snapshot" /\ job' = "apply"
    /\ before' = archive /\ touched' = FALSE /\ undone' = FALSE
    /\ UNCHANGED <<reg, files, clock, mem, todo, bytes, stamp, next, ok, orig, risk, faults>>

\* take_archive_snapshot: nothing to copy, or a failure before there is a file.
NoSnapshot ==
    /\ pc = "snapshot"
    /\ archive = Missing \/ "save" \in faults
    /\ pc' = "load"
    /\ UNCHANGED <<reg, files, clock, locals, observers, faults>>

\* The copy is not atomic.  An older one of the same second is overwritten.
BeginCopy ==
    /\ pc = "snapshot" /\ archive # Missing
    /\ stamp' = Name(Instant[clock])
    /\ bytes' = archive
    /\ snaps' = [n \in DOMAIN snaps \cup {stamp'} |-> IF n = stamp' THEN Torn ELSE snaps[n]]
    /\ pc' = "copy"
    /\ UNCHANGED <<reg, archive, tmp, clock, job, mem, todo, next, ok, observers, faults>>

Copy ==
    /\ pc = "copy"
    /\ \/ snaps' = [snaps EXCEPT ![stamp] = bytes]
       \/ "save" \in faults /\ UNCHANGED snaps
    /\ stamp' = None /\ bytes' = None
    /\ pc' = "prune"
    /\ UNCHANGED <<reg, archive, tmp, clock, job, mem, todo, next, ok, observers, faults>>

\* The directory may not be read, and a file not be removed.
Prune ==
    /\ pc = "prune"
    /\ \E left \in {Newest(DOMAIN snaps)} \cup
                     (IF "save" \in faults THEN {DOMAIN snaps} ELSE {}) :
         snaps' = [n \in left |-> snaps[n]]
    /\ pc' = "load"
    /\ UNCHANGED <<reg, archive, tmp, clock, locals, observers, faults>>

\* The groups that are enabled.
Load ==
    /\ pc = "load"
    /\ mem' = Loaded(archive)
    /\ todo' \in SUBSET Group
    /\ pc' = "apply"
    /\ UNCHANGED <<reg, files, clock, job, bytes, stamp, next, ok, observers, faults>>

Apply(g) ==
    /\ pc = "apply" /\ g \in todo
    /\ mem' = Ensure(g)
    /\ reg' = [reg EXCEPT ![g] = Tuned]
    /\ todo' = todo \ {g}
    /\ IF mem[g] = None
       THEN WriteAtomic(Ensure(g), "apply")
       ELSE UNCHANGED <<pc, bytes, next>>
    /\ orig' = IF orig[g] = None THEN [orig EXCEPT ![g] = reg[g]] ELSE orig
    /\ UNCHANGED <<files, clock, job, stamp, ok, before, risk, touched, undone, faults>>

-----------------------------------------------------------------------------
\* --revert, and the first half of --undo.

BeginRevert(command) ==
    /\ pc = "off"
    /\ pc' = "revert" /\ job' = command
    /\ mem' = Loaded(archive)
    /\ todo' = Group
    /\ UNCHANGED <<reg, files, clock, bytes, stamp, next, ok, observers, faults>>

\* Every group is saved after its turn, dns only if an entry went.
Restore(g) ==
    /\ pc = "revert" /\ g \in todo
    /\ todo' = todo \ {g}
    /\ mem' = [mem EXCEPT ![g] = None]
    /\ \/ /\ mem[g] # None
          /\ reg' = [reg EXCEPT ![g] = mem[g]]
          /\ WriteAtomic(mem', "revert")
       \/ /\ mem[g] = None
          /\ UNCHANGED reg
          /\ WriteAtomic(mem', "revert") \/ UNCHANGED <<pc, bytes, next>>
    /\ IF reg'[g] = Tuned
       THEN UNCHANGED <<orig, risk>>
       ELSE orig' = [orig EXCEPT ![g] = None] /\ risk' = risk \ {g}
    /\ UNCHANGED <<files, clock, job, stamp, ok, before, touched, undone, faults>>

\* restore_group: an entry that could not be restored stays in the archive.
RetainedMutant(g) == [mem EXCEPT ![g] = None]
Retained(g) == mem

RestoreFails(g) ==
    /\ "restore" \in faults
    /\ pc = "revert" /\ g \in todo /\ mem[g] # None
    /\ todo' = todo \ {g}
    /\ ok' = FALSE
    /\ mem' = Retained(g)
    /\ WriteAtomic(mem', "revert")
    /\ UNCHANGED <<reg, files, clock, job, stamp, observers, faults>>

\* One more save when nothing is left in the archive.
RevertDone ==
    /\ pc = "revert" /\ todo = {}
    /\ IF mem = Empty
       THEN WriteAtomic(mem, "swap")
       ELSE pc' = "swap" /\ UNCHANGED <<bytes, next>>
    /\ UNCHANGED <<reg, files, clock, job, mem, todo, stamp, ok, observers, faults>>

\* run_undo: whatever became of the revert, the latest snapshot is the archive.
Swap ==
    /\ pc = "swap"
    /\ IF job = "undo" /\ snaps # <<>>
       THEN /\ WriteAtomic(snaps[Latest], "end")
            /\ risk' = risk \cup {g \in Group : Loaded(snaps[Latest])[g] # mem[g]}
       ELSE pc' = "end" /\ UNCHANGED <<bytes, next, risk>>
    /\ UNCHANGED <<reg, files, clock, job, mem, todo, stamp, ok, before, orig, touched, undone, faults>>

-----------------------------------------------------------------------------
\* The end of a command, and what else happens to the machine.

Rest ==
    /\ pc' = "off" /\ job' = "none" /\ mem' = Empty /\ todo' = {}
    /\ bytes' = None /\ stamp' = None /\ next' = None /\ ok' = TRUE

End ==
    /\ pc = "end" \/ (pc = "apply" /\ todo = {})
    /\ Rest
    /\ undone' = (undone \/ job = "undo")
    /\ UNCHANGED <<reg, files, clock, before, orig, risk, touched, faults>>

Crash ==
    /\ "crash" \in faults
    /\ pc # "off"
    /\ Rest
    /\ UNCHANGED <<reg, files, clock, observers, faults>>

\* The owner of the machine changes a value.
Owner(g) ==
    /\ \E own \in Own \ {reg[g]} : reg' = [reg EXCEPT ![g] = own]
    /\ touched' = TRUE
    /\ UNCHANGED <<files, clock, pc, locals, before, orig, risk, undone, faults>>

Tick ==
    /\ clock + 1 \in DOMAIN Instant
    /\ clock' = clock + 1
    /\ UNCHANGED <<reg, files, pc, locals, observers, faults>>

Next ==
    \/ BeginApply \/ NoSnapshot \/ BeginCopy \/ Copy \/ Prune \/ Load
    \/ BeginRevert("revert") \/ BeginRevert("undo")
    \/ RevertDone \/ Swap \/ End \/ Crash
    \/ Open \/ Write \/ Rename \/ SaveFails
    \/ \E g \in Group : Apply(g) \/ Restore(g) \/ RestoreFails(g) \/ Owner(g)
    \/ Tick

Spec == Init /\ [][Next]_vars

-----------------------------------------------------------------------------
\* Properties.

\* archive.json only ever changes as a whole into what the process meant to
\* save, wherever it dies or fails (write_atomic); the one way to half of an
\* archive is an undo that copies a snapshot which was cut short.
SavedWhole ==
    [][archive' # archive =>
         archive' = bytes /\ (archive' = Torn => job = "undo")]_vars

Entry(g) == Loaded(archive)[g]

\* Between commands archive.json has the original of every value that is still the
\* program's, what apply found where it first replaced it, although restores fail
\* and the owner changes values in between; but for the groups whose entries an
\* --undo has changed by its swap (ensure, restore_group, run_undo).
OwedKept ==
    faults \subseteq {"restore"} /\ pc = "off" =>
      \A g \in Group \ risk : reg[g] = Tuned => orig[g] \in Own /\ Entry(g) = orig[g]

\* The two parts of it that an undo breaks: there is an entry for every value that
\* is still the program's, be it one that could not be restored (restore_group,
\* run_undo),
EntryKept == pc = "off" => \A g \in Group : reg[g] = Tuned => Entry(g) \in Own

\* and when nothing fails it is the original (ensure, run_undo).
OriginalKept ==
    faults = {} /\ pc = "off" => \A g \in Group : reg[g] = Tuned => Entry(g) = orig[g]

\* An archive.json that is cut short owes nothing (take_archive_snapshot,
\* run_undo).  It may: --undo puts it over an entry it failed to restore.
TornOwesNothing == archive = Torn /\ pc = "off" => \A g \in Group : reg[g] # Tuned

\* When nothing fails, an undo leaves no value of the program's, and the archive
\* as it was when the last apply began, however many snapshots were taken, in one
\* second or in several, and pruned (run_undo, take_archive_snapshot, prune).
UndoReturns ==
    [][faults = {} /\ job = "undo" /\ pc # "off" /\ pc' = "off" =>
         /\ \A g \in Group : reg[g] # Tuned
         /\ before # Missing => archive = before]_vars

GivesBack(g) == mem[g] # None /\ mem'[g] = None /\ pc = "revert"

\* A revert that follows an undo changes nothing (run_undo).  It does where the
\* owner changed a value since: the snapshot's entries are those of before.
RevertHarmless ==
    [][faults = {} /\ undone /\ job = "revert" =>
         \A g \in Group : GivesBack(g) => reg'[g] = reg[g]]_vars

\* It changes nothing unless the owner changed a value since the apply.
UntouchedHarmless ==
    [][faults = {} /\ undone /\ ~touched /\ job = "revert" =>
         \A g \in Group : GivesBack(g) => reg'[g] = reg[g]]_vars

=============================================================================
