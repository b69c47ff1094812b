--------------------------------- MODULE MtuLink ---------------------------------
(***************************************************************************)
(* The MTU group (mtu.rs): an adapter has a value in the registry, which    *)
(* Windows reads when it starts, and a value on the live link, which apply  *)
(* and revert set with one netsh call an adapter.  Registry writes, netsh   *)
(* calls and saves may fail, adapters come and go, the process may die and  *)
(* the machine restart at any step, and others may change either value.     *)
(*                                                                         *)
(* TweakGroups has the archive in the detail of every group; here it only   *)
(* says what revert puts on the link.                                       *)
(***************************************************************************)
EXTENDS Integers

CONSTANTS
    Adapter,
    Mtu,        \* the sizes a link may have
    Target,     \* those of the menu and of --mtu
    Usual,      \* 1500, the size of a link with no value in the registry
    Absent,     \* no value in the registry
    None        \* no entry in the archive

ASSUME MtuAssumption ==
    /\ Target \subseteq Mtu /\ Usual \in Mtu
    /\ Absent \notin Mtu /\ None \notin Mtu \cup {Absent} /\ None \notin Adapter

VARIABLES
    reg,        \* adapter -> its MTU value in the registry, or Absent
    live,       \* adapter -> the MTU of its link
    listed,     \* the adapters interfaces::physical returns now
    keyed,      \* the adapters with a key under Tcpip\Parameters\Interfaces
    archive,    \* adapter -> the original in memory, or None
    saved,      \* the same in archive.json
    pc,         \* "idle", "apply", "link", "saving", "restore", "drained" or "relink"
    target,     \* apply: its target
    todo,       \* the adapters a loop has still to visit
    at,         \* apply: the adapter whose link is to follow
    entries,    \* revert: the entries of the group when it began
    dirty,      \* apply: ensure has added an entry
    odd         \* adapters whose link was not brought to the registry's value

files == <<archive, saved>>
locals == <<target, todo, at, entries, dirty>>
vars == <<reg, live, listed, keyed, files, pc, locals, odd>>

Value == Mtu \cup {Absent}
Archives == [Adapter -> Value \cup {None}]
Empty == [a \in Adapter |-> None]
In(arch) == {a \in Adapter : arch[a] # None}

-----------------------------------------------------------------------------
\* A name that ends in Mutant is the definition below it with a mistake the
\* checks must notice.

\* The link Windows makes of a registry value.
Effective(value) == IF value = Absent THEN Usual ELSE value

\* The live value revert asks for: the original, or the usual one.
RelinkedMutant(entry) == Usual
Relinked(entry) == IF entry = Absent THEN Usual ELSE entry

\* One adapter of status: a missing value counts as the usual one.
ReportsMutant(a, t) == a \in keyed => reg[a] \in {t, Absent}
Reports(a, t) == a \in keyed => (reg[a] = t \/ (reg[a] = Absent /\ t = Usual))

Status(t) == \A a \in listed : Reports(a, t)

\* Adapters whose link an operation has still to set.
Pending ==
    IF pc = "link" THEN {at}
    ELSE IF pc \in {"restore", "drained"} THEN In(entries)
    ELSE IF pc = "relink" THEN todo ELSE {}

TypeOK ==
    /\ reg \in [Adapter -> Value] /\ live \in [Adapter -> Mtu]
    /\ listed \subseteq Adapter /\ keyed \subseteq Adapter
    /\ archive \in Archives /\ saved \in Archives /\ entries \in Archives
    /\ pc \in {"idle", "apply", "link", "saving", "restore", "drained", "relink"}
    /\ target \in Target \cup {None}
    /\ todo \subseteq Adapter /\ odd \subseteq Adapter
    /\ at \in Adapter \cup {None}
    /\ dirty \in BOOLEAN
    /\ pc \in {"apply", "link"} => target \in Target
    /\ pc = "link" => at \in Adapter
    /\ pc \in {"restore", "relink"} => todo \subseteq In(entries)

\* Before the first apply links are what the registry asks for.
Init ==
    /\ reg \in [Adapter -> Value]
    /\ live = [a \in Adapter |-> Effective(reg[a])]
    /\ listed = Adapter /\ keyed \in SUBSET Adapter
    /\ archive = Empty /\ saved = Empty
    /\ pc = "idle"
    /\ target = None /\ todo = {} /\ at = None /\ entries = Empty /\ dirty = FALSE
    /\ odd = {}

-----------------------------------------------------------------------------
\* apply.

\* The operation returns: its locals are gone.
Return ==
    /\ pc' = "idle"
    /\ target' = None /\ todo' = {} /\ at' = None /\ entries' = Empty /\ dirty' = FALSE

ApplyBegin(t) ==
    /\ pc = "idle"
    /\ pc' = "apply" /\ target' = t /\ todo' = listed
    /\ UNCHANGED <<reg, live, listed, keyed, files, at, entries, dirty, odd>>

\* An adapter without a key, or whose value cannot be written, is passed over.
Skip(a) ==
    /\ pc = "apply" /\ a \in todo
    /\ todo' = todo \ {a}
    /\ \/ a \notin keyed /\ UNCHANGED <<archive, dirty>>
       \/ a \in keyed
          /\ archive' = [archive EXCEPT ![a] = IF @ = None THEN reg[a] ELSE @]
          /\ dirty' = (dirty \/ archive[a] = None)
    /\ UNCHANGED <<reg, live, listed, keyed, saved, pc, target, at, entries, odd>>

\* A value that cannot be read ends apply, without a save.
ReadFails(a) ==
    /\ pc = "apply" /\ a \in todo \cap keyed
    /\ Return
    /\ UNCHANGED <<reg, live, listed, keyed, files, odd>>

Write(a) ==
    /\ pc = "apply" /\ a \in todo \cap keyed
    /\ archive' = [archive EXCEPT ![a] = IF @ = None THEN reg[a] ELSE @]
    /\ dirty' = (dirty \/ archive[a] = None)
    /\ reg' = [reg EXCEPT ![a] = target]
    /\ pc' = "link" /\ at' = a /\ todo' = todo \ {a}
    /\ UNCHANGED <<live, listed, keyed, saved, target, entries, odd>>

\* netsh, store=persistent.
Link ==
    /\ pc = "link"
    /\ live' = [live EXCEPT ![at] = target] /\ reg' = [reg EXCEPT ![at] = target]
    /\ odd' = odd \ {at}
    /\ pc' = "apply" /\ at' = None
    /\ UNCHANGED <<listed, keyed, files, target, todo, entries, dirty>>

LinkFails ==
    /\ pc = "link"
    /\ odd' = odd \cup {at}
    /\ pc' = "apply" /\ at' = None
    /\ UNCHANGED <<reg, live, listed, keyed, files, target, todo, entries, dirty>>

\* The save, when an entry was added, may fail.
ApplyEnd ==
    /\ pc = "apply" /\ todo = {}
    /\ saved' \in {saved, IF dirty THEN archive ELSE saved}
    /\ Return
    /\ UNCHANGED <<reg, live, listed, keyed, archive, odd>>

-----------------------------------------------------------------------------
\* revert.

RevertBegin ==
    /\ pc = "idle"
    /\ pc' = "restore" /\ entries' = archive /\ todo' = In(archive)
    /\ UNCHANGED <<reg, live, listed, keyed, files, target, at, dirty, odd>>

Restore(a) ==
    /\ pc = "restore" /\ a \in todo
    /\ todo' = todo \ {a}
    /\ reg' = [reg EXCEPT ![a] = entries[a]]
    /\ archive' = [archive EXCEPT ![a] = None]
    /\ UNCHANGED <<live, listed, keyed, saved, pc, target, at, entries, dirty, odd>>

\* The entry stays, and its link is restored all the same.
RestoreFails(a) ==
    /\ pc = "restore" /\ a \in todo
    /\ todo' = todo \ {a}
    /\ UNCHANGED <<reg, live, listed, keyed, files, pc, target, at, entries, dirty, odd>>

\* restore_group is done; the save comes before the links.
RestoreEnd ==
    /\ pc = "restore" /\ todo = {}
    /\ pc' = "drained"
    /\ UNCHANGED <<reg, live, listed, keyed, files, locals, odd>>

ToRelinkMutant == listed
ToRelink == In(entries) \cap listed

\* Adapters that are not listed are passed over.
Save ==
    /\ pc = "drained"
    /\ saved' = archive
    /\ pc' = "relink"
    /\ todo' = ToRelink
    /\ odd' = odd \cup (In(entries) \ listed)
    /\ UNCHANGED <<reg, live, listed, keyed, archive, target, at, entries, dirty>>

\* A failed save returns before any link is set.
SaveFails ==
    /\ pc = "drained"
    /\ odd' = odd \cup In(entries)
    /\ Return
    /\ UNCHANGED <<reg, live, listed, keyed, files>>

\* netsh, store=persistent with an original, store=active without: a registry
\* value that was not deleted then stays.
Relink(a) ==
    /\ pc = "relink" /\ a \in todo
    /\ todo' = todo \ {a}
    /\ live' = [live EXCEPT ![a] = Relinked(entries[a])]
    /\ reg' = IF entries[a] # Absent THEN [reg EXCEPT ![a] = entries[a]] ELSE reg
    /\ odd' = IF reg'[a] = entries[a] THEN odd \ {a} ELSE odd \cup {a}
    /\ UNCHANGED <<listed, keyed, files, pc, target, at, entries, dirty>>

\* Only the action log hears of it.
RelinkFails(a) ==
    /\ pc = "relink" /\ a \in todo
    /\ todo' = todo \ {a}
    /\ odd' = odd \cup {a}
    /\ UNCHANGED <<reg, live, listed, keyed, files, pc, target, at, entries, dirty>>

RevertEnd ==
    /\ pc = "relink" /\ todo = {}
    /\ Return
    /\ UNCHANGED <<reg, live, listed, keyed, files, odd>>

-----------------------------------------------------------------------------
\* The machine and the others on it.

\* The process dies, or ends, and the next one loads archive.json.
Restart ==
    /\ archive' = saved
    /\ odd' = odd \cup Pending
    /\ Return
    /\ UNCHANGED <<reg, live, listed, keyed, saved>>

Reboot ==
    /\ archive' = saved
    /\ live' = [a \in Adapter |-> Effective(reg[a])]
    /\ odd' = {}
    /\ Return
    /\ UNCHANGED <<reg, listed, keyed, saved>>

Plug ==
    /\ listed' \in SUBSET Adapter
    /\ UNCHANGED <<reg, live, keyed, files, pc, locals, odd>>

Others(a) ==
    /\ \/ \E v \in Value : reg' = [reg EXCEPT ![a] = v] /\ UNCHANGED live
       \/ \E m \in Mtu : live' = [live EXCEPT ![a] = m] /\ UNCHANGED reg
    /\ odd' = odd \cup {a}
    /\ UNCHANGED <<listed, keyed, files, pc, locals>>

Next ==
    \/ \E t \in Target : ApplyBegin(t)
    \/ \E a \in Adapter :
         Skip(a) \/ ReadFails(a) \/ Write(a) \/ Restore(a) \/ RestoreFails(a)
           \/ Relink(a) \/ RelinkFails(a) \/ Others(a)
    \/ Link \/ LinkFails \/ ApplyEnd
    \/ RevertBegin \/ RestoreEnd \/ Save \/ SaveFails \/ RevertEnd
    \/ Restart \/ Reboot \/ Plug

Spec == Init /\ [][Next]_vars

-----------------------------------------------------------------------------
\* Properties.

\* At any instant every link is what its registry value asks for, except of
\* adapters the running operation has still to set, of those where a netsh call
\* failed or was not made (a crash, a failed save, an adapter that was away), and
\* of those others have touched, since the last restart of the machine: nothing
\* else in apply and revert can leave the two apart, in whatever order they
\* follow one another (apply, revert).
LinkFollows == \A a \in Adapter \ (odd \cup Pending) : live[a] = Effective(reg[a])

\* A revert that gets past an adapter leaves both its registry value and its link
\* as the entry has them, also where restore_group failed and netsh repaired it;
\* the adapters it could not bring there are odd (revert).
RevertReturns ==
    pc = "relink" =>
      \A a \in In(entries) \ (todo \cup odd) :
        reg[a] = entries[a] /\ live[a] = Effective(entries[a])

\* status reads only the registry; what it reports of an adapter that is not odd
\* is true of its link (status).
StatusShowsLink ==
    pc = "idle" =>
      \A t \in Target : Status(t) => \A a \in (listed \cap keyed) \ odd : live[a] = t

\* What docs/ARCHITECTURE.md:205-206 says of status: it verifies the registry
\* value and the live link both, so it is true only of adapters whose link has
\* the target, whoever or whatever call set it otherwise (status).
StatusVerifiesLink ==
    pc = "idle" =>
      \A t \in Target : Status(t) => \A a \in listed \cap keyed : live[a] = t

=============================================================================
