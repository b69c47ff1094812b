------------------------------- MODULE DnsSwitch -------------------------------
(***************************************************************************)
(* The DNS group (dns.rs): it points the adapters that are up at the two   *)
(* servers of a provider, archives what each adapter had (dns_ensure in    *)
(* config.rs), and gives it back.  Every change is a netsh call that may   *)
(* fail; an IPv4 call that has to succeed ends the work on its adapter,    *)
(* the others (second server, IPv6, DNS over HTTPS) are best effort.  The  *)
(* menu (app.rs) decides when to switch and remembers the active provider. *)
(*                                                                         *)
(* The calls for one adapter are one step here whose outcomes are all that *)
(* the calls can leave behind; a crash may still come between two calls    *)
(* (Interrupted).  by and the fields was4, was6 and by of a backup are     *)
(* observers: no guard reads them.                                         *)
(***************************************************************************)
EXTENDS Naturals, Sequences, Functions

CONSTANTS
    Adapter,        \* physical adapters, by their friendly names
    Provider,       \* providers a resolver set can come from
    Fastest,        \* the setting that takes the fastest of them
    Lease4, Lease6, \* servers the network supplies where DNS is automatic
    Settings,       \* [v4, v6] the owner may give an adapter: lists or Automatic
    None,
    FaultSets       \* bound: the combinations of faults that may occur

\* The servers of a provider, in either family.
Pair(p) == << <<p, 1>>, <<p, 2>> >>
Automatic == <<>>
\* A list that best-effort calls have set in part; nothing depends on which.
Mixed == << <<"mixed", 1>> >>
\* The lists of networks and owners, and all servers there are.
Given == Range(Lease4) \cup Range(Lease6)
           \cup {c.v4 : c \in Settings} \cup {c.v6 : c \in Settings}
Server == UNION {Range(l) : l \in {Mixed} \cup {Pair(p) : p \in Provider} \cup Given}

\* A backup as dns_ensure makes it.
Backup == [servers : Seq(Server), servers6 : Seq(Server),
           was4 : Seq(Server), was6 : Seq(Server), by : {"user", "program"}]

ASSUME DnsAssumption ==
    /\ Fastest \notin Provider
    /\ None \notin Provider
    /\ None \notin Backup
    /\ DOMAIN Lease4 = Adapter /\ DOMAIN Lease6 = Adapter
    /\ \A l \in Given : l \in Seq(Range(l))
    /\ FaultSets \subseteq SUBSET {"netsh", "save", "crash"}

VARIABLES
    dhcp,        \* Interface::dhcp, the address comes from DHCP: never changes
    v4, v6,      \* static server list of each adapter, or Automatic
    doh,         \* DNS-over-HTTPS mappings: <<adapter, provider>>
    by,          \* observer: who set v4[a]
    disk, mem,   \* archive.json and the Archive in memory: adapter -> backup
    on, choice,  \* Config: dns and dns_provider
    active,      \* App: active_dns
    aligned,     \* App: the dns status of the last refresh has all aligned
    phase, then, \* the running operation; its caller: the loop ("idle"), x
                 \* at the end of the menu ("off") or a command line ("cli")
    seen, todo,  \* adapters as the operation enumerated them; those to handle
    res,         \* the resolvers the operation works with, or None
    dirty, ok,   \* an entry was added or drained; no error so far
    faults       \* what may go wrong in this behaviour: never changes

machine == <<dhcp, v4, v6, doh, by>>
settings == <<on, choice, active>>
locals == <<seen, todo, res, dirty, ok>>
vars == <<machine, disk, mem, settings, aligned, phase, then, locals, faults>>

\* What interfaces::all reports of an adapter, as dns_ensure would archive it.
Reported(a) ==
    [servers  |-> IF v4[a] # Automatic THEN v4[a] ELSE IF dhcp[a] THEN Lease4[a] ELSE <<>>,
     servers6 |-> IF v6[a] # Automatic THEN v6[a] ELSE Lease6[a],
     was4 |-> v4[a], was6 |-> v6[a], by |-> by[a]]

\* A name that ends in Mutant is the definition below it with a mistake the
\* checks must notice.

\* resolve_provider: a fixed one, or the one that is faster at the moment.
ResolvedMutant == {choice}
Resolved == IF choice = Fastest THEN Provider ELSE {choice}
Empty == [a \in Adapter |-> None]

\* is_set: both servers of the provider are among those of the adapter.
IsSet(servers, p) == Range(Pair(p)) \subseteq Range(servers)

AlignedTo(p, S) == \A a \in S : IsSet(Reported(a).servers, p)

TypeOK ==
    /\ v4 \in [Adapter -> Seq(Server)] /\ v6 \in [Adapter -> Seq(Server)]
    /\ dhcp \in [Adapter -> BOOLEAN]
    /\ doh \subseteq Adapter \X Provider
    /\ by \in [Adapter -> {"user", "program"}]
    /\ {disk, mem} \subseteq [Adapter -> Backup \cup {None}]
    /\ on \in BOOLEAN /\ choice \in Provider \cup {Fastest}
    /\ active \in Provider \cup {None}
    /\ phase \in {"off", "idle", "apply", "revert", "applied", "reverted"}
    /\ then \in {"off", "idle", "cli"}
    /\ DOMAIN seen \subseteq Adapter /\ todo \subseteq Adapter
    /\ res \in Provider \cup {None}
    /\ phase \in {"off", "idle"} => todo = {} /\ res = None
    /\ {aligned, dirty, ok} \subseteq BOOLEAN

Init ==
    /\ \E f \in [Adapter -> Settings] :
         v4 = [a \in Adapter |-> f[a].v4] /\ v6 = [a \in Adapter |-> f[a].v6]
    /\ dhcp \in [Adapter -> BOOLEAN]
    /\ doh = {}
    /\ by = [a \in Adapter |-> "user"]
    /\ disk = Empty /\ mem = Empty
    /\ on \in BOOLEAN /\ choice \in Provider \cup {Fastest}
    /\ active = None /\ aligned = FALSE
    /\ phase = "off" /\ then = "off"
    /\ seen = <<>> /\ todo = {} /\ res = None
    /\ dirty = FALSE /\ ok = TRUE
    /\ faults \in FaultSets

-----------------------------------------------------------------------------
\* What best-effort calls leave behind: all of it, none of it, or part of it
\* over what was there (Mixed).
Lists(list, target) == IF "netsh" \in faults THEN {list, target, Mixed} ELSE {target}
Mappings(all) == IF "netsh" \in faults THEN {{}, all} ELSE {all}
FirstOrBoth(pair) == IF "netsh" \in faults THEN {<<pair[1]>>, pair} ELSE {pair}

-----------------------------------------------------------------------------
\* An operation begins with an enumeration and returns to the menu or ends.

\* dns::apply with the adapters that are up now.
BeginApply(p, back) ==
    /\ \E S \in SUBSET Adapter : seen' = [a \in S |-> Reported(a)] /\ todo' = S
    /\ phase' = "apply" /\ then' = back
    /\ res' = p /\ dirty' = FALSE /\ ok' = TRUE

\* The backups revert goes through.
BackupsMutant(archive) == {a \in DOMAIN seen' : archive[a] # None}
Backups(archive) == {a \in Adapter : archive[a] # None}

\* dns::revert with the adapters that are there now; r is what it clears DoH of.
BeginRevert(archive, r, back) ==
    /\ \E S \in SUBSET Adapter : seen' = [a \in S |-> Reported(a)]
    /\ todo' = Backups(archive)
    /\ phase' = "revert" /\ then' = back
    /\ res' = r /\ dirty' = FALSE /\ ok' = TRUE

Rest ==
    /\ seen' = <<>> /\ todo' = {} /\ res' = None
    /\ dirty' = FALSE /\ ok' = TRUE

\* The Result is in: an apply that was Ok makes its provider the active one;
\* the menu refreshes its status, a command line exits.
Finish(result, applied) ==
    /\ Rest
    /\ phase' = IF then = "idle" THEN "idle" ELSE "off"
    /\ UNCHANGED <<on, choice, then>>
    /\ IF then # "idle"
       THEN mem' = Empty /\ active' = None /\ aligned' = FALSE
       ELSE /\ UNCHANGED mem
            /\ active' = IF applied /\ result THEN res ELSE active
            /\ \E p \in Resolved, S \in SUBSET Adapter : aligned' = AlignedTo(p, S)

-----------------------------------------------------------------------------
\* The menu and the command line.

Start ==
    /\ phase = "off"
    /\ mem' = disk
    /\ IF on
       THEN \E p \in Resolved : BeginApply(p, "idle")
       ELSE phase' = "idle" /\ then' = "idle" /\ Rest
    /\ UNCHANGED <<machine, disk, settings, aligned, faults>>

\* The provider that was active before the key was pressed.
LastActiveMutant == active'
LastActive == active

\* d: apply, or revert with the provider that was active.
Toggle ==
    /\ phase = "idle"
    /\ on' = ~on
    /\ IF on
       THEN active' = None /\ BeginRevert(mem, LastActive, "idle")
       ELSE UNCHANGED active /\ \E p \in Resolved : BeginApply(p, "idle")
    /\ UNCHANGED <<machine, disk, mem, choice, aligned, faults>>

\* r: another provider, in whatever order, applied at once when the group is
\* on.
CycleProvider ==
    /\ phase = "idle"
    /\ choice' \in (Provider \cup {Fastest}) \ {choice}
    /\ IF on
       THEN \E p \in Resolved' : BeginApply(p, "idle")
       ELSE UNCHANGED <<phase, then, locals>>
    /\ UNCHANGED <<machine, disk, mem, on, active, aligned, faults>>

\* heal: another provider has become the right one, or an adapter drifted.
Heal ==
    /\ phase = "idle" /\ on
    /\ \E p \in Resolved :
         /\ (active # None /\ active # p) \/ ~aligned
         /\ BeginApply(p, "idle")
    /\ UNCHANGED <<machine, disk, mem, settings, aligned, faults>>

Quit ==
    /\ phase = "idle"
    /\ phase' = "off" /\ then' = "off" /\ Rest
    /\ mem' = Empty /\ active' = None /\ aligned' = FALSE
    /\ UNCHANGED <<machine, disk, on, choice, faults>>

\* x: revert_all skips the group when it is off.
RevertAndQuit ==
    /\ phase = "idle" /\ on
    /\ BeginRevert(mem, active, "off")
    /\ UNCHANGED <<machine, disk, mem, settings, aligned, faults>>

\* --apply with the group on, in the config or by --dns=on.
CliApply ==
    /\ phase = "off"
    /\ mem' = disk
    /\ \E p \in Resolved : BeginApply(p, "cli")
    /\ UNCHANGED <<machine, disk, settings, aligned, faults>>

\* --revert, whatever the config says; the provider is a guess from it.
CliRevert ==
    /\ phase = "off"
    /\ mem' = disk
    /\ \E p \in Resolved : BeginRevert(disk, p, "cli")
    /\ UNCHANGED <<machine, disk, settings, aligned, faults>>

-----------------------------------------------------------------------------
\* apply, adapter by adapter.

Skip(a) ==
    /\ phase = "apply" /\ a \in todo
    /\ IsSet(seen[a].servers, res)
    /\ todo' = todo \ {a}
    /\ UNCHANGED <<machine, disk, mem, settings, aligned, phase, then, seen, res, dirty, ok, faults>>

\* dns_ensure: the first backup of an adapter stays.
EnsureMutant(a) == [mem EXCEPT ![a] = seen[a]]
Ensure(a) == IF mem[a] = None THEN [mem EXCEPT ![a] = seen[a]] ELSE mem

Archive(a) ==
    /\ mem' = Ensure(a)
    /\ dirty' = (dirty \/ mem[a] = None)
    /\ todo' = todo \ {a}

\* set_iface and set_doh: the first IPv4 server is in, the rest as far as
\* netsh went along.
Switch(a) ==
    /\ phase = "apply" /\ a \in todo
    /\ ~IsSet(seen[a].servers, res)
    /\ Archive(a)
    /\ \E l \in FirstOrBoth(Pair(res)) : v4' = [v4 EXCEPT ![a] = l]
    /\ \E l \in Lists(v6[a], Pair(res)) : v6' = [v6 EXCEPT ![a] = l]
    /\ \E M \in Mappings({<<a, res>>}) : doh' = doh \cup M
    /\ by' = [by EXCEPT ![a] = "program"]
    /\ UNCHANGED <<dhcp, disk, settings, aligned, phase, then, seen, res, ok, faults>>

\* The first IPv4 call fails: nothing was changed, the backup stays.
SwitchFails(a) ==
    /\ "netsh" \in faults
    /\ phase = "apply" /\ a \in todo
    /\ ~IsSet(seen[a].servers, res)
    /\ Archive(a)
    /\ ok' = FALSE
    /\ UNCHANGED <<machine, disk, settings, aligned, phase, then, seen, res, faults>>

-----------------------------------------------------------------------------
\* revert, backup by backup.

\* What restore_backup asks netsh for: automatic when the adapter has its
\* address from DHCP or had no servers.
Restored4Mutant(a) == mem[a].servers
Restored4(a) == IF dhcp[a] THEN Automatic ELSE mem[a].servers
Restored6(a) == mem[a].servers6

\* The mappings clear_doh deletes: those of the provider it is given.
Cleared(a) == IF res = None THEN {} ELSE {<<a, res>>}

GiveBack(a) ==
    /\ phase = "revert" /\ a \in todo \cap DOMAIN seen
    /\ v4' = [v4 EXCEPT ![a] = Restored4(a)]
    /\ \E l \in Lists(v6[a], Restored6(a)) : v6' = [v6 EXCEPT ![a] = l]
    /\ \E M \in Mappings(Cleared(a)) : doh' = doh \ M
    /\ by' = [by EXCEPT ![a] = mem[a].by]
    /\ mem' = [mem EXCEPT ![a] = None]
    /\ todo' = todo \ {a}
    /\ dirty' = TRUE
    /\ UNCHANGED <<dhcp, disk, settings, aligned, phase, then, seen, res, ok, faults>>

KeepBackup(a) ==
    /\ todo' = todo \ {a}
    /\ ok' = FALSE
    /\ UNCHANGED <<dhcp, v6, doh, disk, mem, settings, aligned, phase, then, seen, res, dirty, faults>>

\* The adapter is not there any more.
AdapterGone(a) ==
    /\ phase = "revert" /\ a \in todo \ DOMAIN seen
    /\ KeepBackup(a)
    /\ UNCHANGED <<v4, by>>

\* An IPv4 call fails: the first, or one that adds a further server.
GiveBackFails(a) ==
    /\ "netsh" \in faults
    /\ phase = "revert" /\ a \in todo \cap DOMAIN seen
    /\ KeepBackup(a)
    /\ \/ UNCHANGED <<v4, by>>
       \/ \E n \in 1..Len(Restored4(a)) - 1 :
            /\ v4' = [v4 EXCEPT ![a] = SubSeq(Restored4(a), 1, n)]
            /\ by' = [by EXCEPT ![a] = "program"]

-----------------------------------------------------------------------------
\* The end of both: save the archive if an entry came or went.

AllHandled ==
    /\ phase \in {"apply", "revert"} /\ todo = {}
    /\ \/ /\ dirty
          /\ phase' = IF phase = "apply" THEN "applied" ELSE "reverted"
          /\ UNCHANGED <<mem, settings, aligned, then, locals>>
       \/ /\ ~dirty
          /\ Finish(ok, phase = "apply")
    /\ UNCHANGED <<machine, disk, faults>>

Save ==
    /\ phase \in {"applied", "reverted"}
    /\ disk' = mem
    /\ Finish(ok, phase = "applied")
    /\ UNCHANGED <<machine, faults>>

\* run_revert tries once more when it has left the archive empty.
SaveFails ==
    /\ "save" \in faults
    /\ phase \in {"applied", "reverted"}
    /\ Finish(FALSE, phase = "applied")
    /\ \/ disk' = disk
       \/ phase = "reverted" /\ then = "cli" /\ mem = Empty /\ disk' = Empty
    /\ UNCHANGED <<machine, faults>>

\* The owner sets the servers of an adapter by hand, or back to automatic.
Owner(a) ==
    /\ \E new \in Settings :
         /\ <<v4[a], v6[a]>> # <<new.v4, new.v6>>
         /\ v4' = [v4 EXCEPT ![a] = new.v4]
         /\ v6' = [v6 EXCEPT ![a] = new.v6]
    /\ by' = [by EXCEPT ![a] = "user"]
    /\ UNCHANGED <<dhcp, doh, disk, mem, settings, aligned, phase, then, locals, faults>>

\* The program dies between two IPv4 calls for adapter a, or after them: what
\* was done of IPv6 by then matters to nothing below.
Interrupted(a) ==
    /\ \/ /\ phase = "apply" /\ ~IsSet(seen[a].servers, res)
          /\ \E l \in {<<Pair(res)[1]>>, Pair(res)} : v4' = [v4 EXCEPT ![a] = l]
          /\ by' = [by EXCEPT ![a] = "program"]
       \/ /\ phase = "revert" /\ a \in DOMAIN seen
          /\ \E n \in 0..Len(Restored4(a)) :
               /\ v4' = [v4 EXCEPT ![a] = SubSeq(Restored4(a), 1, n)]
               /\ by' = [by EXCEPT ![a] = IF n = Len(Restored4(a)) THEN mem[a].by ELSE "program"]
               /\ n = 0 => Restored4(a) = Automatic
    /\ UNCHANGED <<dhcp, v6, doh>>

Crash ==
    /\ "crash" \in faults
    /\ phase # "off"
    /\ UNCHANGED machine \/ \E a \in todo : Interrupted(a)
    /\ phase' = "off" /\ then' = "off" /\ Rest
    /\ mem' = Empty /\ active' = None /\ aligned' = FALSE
    /\ UNCHANGED <<disk, on, choice, faults>>

Next ==
    \/ Start \/ Toggle \/ CycleProvider \/ Heal \/ Quit \/ RevertAndQuit
    \/ CliApply \/ CliRevert \/ Crash
    \/ AllHandled \/ Save \/ SaveFails
    \/ \E a \in Adapter :
         \/ Skip(a) \/ Switch(a) \/ SwitchFails(a)
         \/ GiveBack(a) \/ AdapterGone(a) \/ GiveBackFails(a)
         \/ Owner(a)

Spec == Init /\ [][Next]_vars

-----------------------------------------------------------------------------
\* Properties.

Authentic(backup) == backup # None /\ backup.by = "user"

\* Between operations every adapter that has the program's servers has its
\* backup in archive.json, and it records what the owner had, however many
\* providers were tried and calls failed since.
BackupAtRest ==
    faults \subseteq {"netsh"} /\ phase \in {"off", "idle"} =>
      \A a \in Adapter : by[a] = "program" => Authentic(disk[a])

\* A revert that returns Ok leaves no adapter with the program's servers.
Reverting == phase \in {"revert", "reverted"}
RevertsAll ==
    [][faults \subseteq {"netsh"} /\ Reverting /\ phase' \in {"off", "idle"} /\ ok =>
         \A a \in Adapter : by[a] = "user" /\ disk'[a] = None]_vars

\* A backup that is given up has put back exactly what it was taken of, IPv4
\* always and IPv6 unless a best-effort call failed, provided that the flag
\* and the lists of the enumeration say what the adapter had: static servers
\* only without DHCP, and no servers reported for automatic ones but there.
Drained(a) == phase' = "revert" /\ mem[a] # None /\ mem'[a] = None
Expressible(a, b) ==
    /\ dhcp[a] => b.was4 = Automatic
    /\ b.was6 = Automatic => b.servers6 = <<>>
PutBack(a, b) == v4'[a] = b.was4 /\ ("netsh" \notin faults => v6'[a] = b.was6)
RestoresRecorded ==
    [][\A a \in Adapter :
         Drained(a) /\ Expressible(a, mem[a]) => PutBack(a, mem[a])]_vars

\* The same whatever the adapter had, as the README says of a revert.
RestoresExactly == [][\A a \in Adapter : Drained(a) => PutBack(a, mem[a])]_vars

\* A revert leaves no DoH mapping of an adapter it gives back, if all there
\* are belong to the provider it works with; the menu always has one at hand.
Mapped(a) == {p \in Provider : <<a, p>> \in doh}
DohCleared ==
    [][\A a \in Adapter :
         Drained(a) /\ faults = {} /\ (res = None \/ Mapped(a) \subseteq {res}) => Mapped(a)' = {}]_vars

\* The group keeps the promise of the archive.
Promise == INSTANCE ArchivePromise WITH
    Value <- Adapter,
    Guarded <- {},
    author <- by,
    kept <- [a \in Adapter |-> Authentic(disk[a])]

KeepsPromise == Promise!Spec

=============================================================================
