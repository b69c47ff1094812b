---------------------------- MODULE DnsSwitchProofs ----------------------------
(***************************************************************************)
(* Proofs about DnsSwitch, for every set of adapters, providers and lists. *)
(***************************************************************************)
EXTENDS DnsSwitch, SequenceTheorems, TLAPS

\* What the running operation holds: the adapters it enumerated, a provider
\* to switch to, a backup for each adapter it has to give back.
Working ==
    /\ \A a \in DOMAIN seen : seen[a] \in Backup
    /\ phase = "apply" => res \in Provider /\ todo \subseteq DOMAIN seen
    /\ phase = "revert" => \A a \in todo : mem[a] # None
    /\ phase \in {"applied", "reverted"} => todo = {}
    /\ phase = "off" => mem = Empty

\* Without crashes and failed saves: the copy in memory is the file's until an
\* entry comes or goes, and each entry records what the owner had.
Clean == ~dirty /\ phase \in {"idle", "apply", "revert"}
AllAuthentic(archive) == \A a \in Adapter : archive[a] # None => Authentic(archive[a])
Covered(archive) == \A a \in Adapter : by[a] = "program" => Authentic(archive[a])
Quiet ==
    faults \subseteq {"netsh"} =>
      /\ AllAuthentic(disk) /\ AllAuthentic(mem)
      /\ Covered(IF phase = "off" THEN disk ELSE mem)
      /\ phase = "idle" => ~dirty
      /\ Clean => mem = disk
      /\ phase = "apply" => \A a \in todo : mem[a] = None => seen[a].by = "user"
      /\ Reverting /\ ok => \A a \in Adapter : mem[a] # None => a \in todo

\* A backup of adapter a says what its lists were, as far as it can.
Faithful(a, b) ==
    /\ ~dhcp[a] => b.servers = b.was4
    /\ b.was6 # Automatic => b.servers6 = b.was6
Faithfully ==
    /\ \A a \in DOMAIN seen : Faithful(a, seen[a])
    /\ \A a \in Adapter : mem[a] # None => Faithful(a, mem[a])
    /\ \A a \in Adapter : disk[a] # None => Faithful(a, disk[a])

\* Where nothing fails, the menu knows the provider of a group that is on.
AtHand ==
    faults = {} =>
      /\ phase = "idle" /\ on => active \in Provider
      /\ phase = "revert" => res \in Provider
      /\ phase \in {"apply", "applied"} => ok /\ res \in Provider
      /\ Reverting /\ then = "idle" => ~on

\* A running program holds every original the file has, or has given it back.
Holding ==
    /\ phase # "off" =>
         \A a \in Adapter : Authentic(disk[a]) =>
           Authentic(mem[a]) \/ (mem[a] = None /\ by[a] = "user")
    /\ phase = "apply" =>
         \A a \in todo : Authentic(disk[a]) /\ mem[a] = None => seen[a].by = "user"

-----------------------------------------------------------------------------
\* The lists of servers there are.

LEMMA GivenLists == \A l \in Given : l \in Seq(Server)
<1> SUFFICES ASSUME NEW l \in Given PROVE l \in Seq(Server)
  OBVIOUS
<1>1. l \in Seq(Range(l))
  BY DnsAssumption
<1>2. Range(l) \subseteq Server
  BY DEF Server
<1> QED
  BY <1>1, <1>2, SeqMonotonic

LEMMA SettingsLists == \A c \in Settings : c.v4 \in Seq(Server) /\ c.v6 \in Seq(Server)
  BY GivenLists DEF Given

LEMMA LeaseLists == \A a \in Adapter : Lease4[a] \in Seq(Server) /\ Lease6[a] \in Seq(Server)
<1> SUFFICES ASSUME NEW a \in Adapter PROVE Lease4[a] \in Given /\ Lease6[a] \in Given
  BY GivenLists
<1> QED
  BY DnsAssumption DEF Given, Range

LEMMA PairLists ==
  \A p \in Provider : Pair(p) \in Seq(Server) /\ <<Pair(p)[1]>> \in Seq(Server)
<1> SUFFICES ASSUME NEW p \in Provider
             PROVE  Pair(p) \in Seq(Server) /\ <<Pair(p)[1]>> \in Seq(Server)
  OBVIOUS
<1>1. Range(Pair(p)) \subseteq Server
  BY DEF Server
<1>2. Pair(p)[1] \in Range(Pair(p)) /\ Pair(p)[2] \in Range(Pair(p))
  BY DEF Range, Pair
<1> QED
  BY <1>1, <1>2 DEF Pair

LEMMA SmallLists == Mixed \in Seq(Server) /\ Automatic \in Seq(Server)
<1>1. Range(Mixed) \subseteq Server
  BY DEF Server
<1>2. Mixed[1] \in Range(Mixed)
  BY DEF Range, Mixed
<1> QED
  BY <1>1, <1>2 DEF Mixed, Automatic

LEMMA Prefixes == ASSUME NEW l \in Seq(Server), NEW n \in 0..Len(l)
                  PROVE  SubSeq(l, 1, n) \in Seq(Server)
<1>1. \A i \in 1..n : l[i] \in Server
  OBVIOUS
<1> QED
  BY <1>1, SubSeqProperties

-----------------------------------------------------------------------------

\* What the beginnings and ends of an operation do, one fact each.

LEMMA ReportedBackup ==
  ASSUME TypeOK, NEW a \in Adapter
  PROVE  Reported(a) \in Backup
<1>1. v4[a] \in Seq(Server) /\ v6[a] \in Seq(Server) /\ by[a] \in {"user", "program"}
  BY DEF TypeOK
<1>2. Lease4[a] \in Seq(Server) /\ Lease6[a] \in Seq(Server) /\ <<>> \in Seq(Server)
  BY LeaseLists, SmallLists DEF Automatic
<1> QED
  BY <1>1, <1>2 DEF Reported, Backup

LEMMA ResolvedProvider == TypeOK => Resolved \subseteq Provider
  BY DEF TypeOK, Resolved

LEMMA ApplyBegins ==
  ASSUME TypeOK, NEW p, NEW back, BeginApply(p, back)
  PROVE  /\ todo' = DOMAIN seen' /\ todo' \subseteq Adapter
         /\ \A a \in todo' : seen'[a] = Reported(a) /\ seen'[a] \in Backup
         /\ phase' = "apply" /\ then' = back /\ res' = p /\ dirty' = FALSE /\ ok' = TRUE
  BY ReportedBackup DEF BeginApply

LEMMA RevertBegins ==
  ASSUME TypeOK, NEW archive, NEW r, NEW back, BeginRevert(archive, r, back)
  PROVE  /\ DOMAIN seen' \subseteq Adapter
         /\ \A a \in DOMAIN seen' : seen'[a] = Reported(a) /\ seen'[a] \in Backup
         /\ todo' = {a \in Adapter : archive[a] # None}
         /\ phase' = "revert" /\ then' = back /\ res' = r /\ dirty' = FALSE /\ ok' = TRUE
  BY ReportedBackup DEF BeginRevert, Backups

LEMMA Rests ==
  ASSUME Rest
  PROVE  /\ DOMAIN seen' = {} /\ todo' = {} /\ res' = None /\ dirty' = FALSE /\ ok' = TRUE
  BY DEF Rest

LEMMA Finishes ==
  ASSUME TypeOK, NEW result \in BOOLEAN, NEW applied \in BOOLEAN, Finish(result, applied)
  PROVE  /\ DOMAIN seen' = {} /\ todo' = {} /\ res' = None /\ dirty' = FALSE /\ ok' = TRUE
         /\ on' = on /\ choice' = choice /\ then' = then
         /\ active' \in Provider \cup {None} /\ aligned' \in BOOLEAN
         /\ \/ then # "idle" /\ phase' = "off" /\ mem' = Empty
            \/ then = "idle" /\ phase' = "idle" /\ mem' = mem
         /\ then = "idle" => active' = IF applied /\ result THEN res ELSE active
<1>1. \A p, S : AlignedTo(p, S) \in BOOLEAN
  BY DEF AlignedTo
<1>2. CASE then = "idle"
  BY <1>1, <1>2, Rests DEF Finish, TypeOK
<1>3. CASE then # "idle"
  BY <1>3, Rests DEF Finish, TypeOK
<1> QED
  BY <1>2, <1>3

-----------------------------------------------------------------------------
\* Types and what the running operation holds.

LEMMA InitTyped == Init => TypeOK /\ Working
<1> SUFFICES ASSUME Init PROVE TypeOK /\ Working
  OBVIOUS
<1>1. v4 \in [Adapter -> Seq(Server)] /\ v6 \in [Adapter -> Seq(Server)]
  BY SettingsLists DEF Init
<1>2. Empty \in [Adapter -> Backup \cup {None}]
  BY DEF Empty
<1>3. DOMAIN seen = {}
  BY DEF Init
<1> QED
  BY <1>1, <1>2, <1>3 DEF Init, TypeOK, Working

LEMMA NextTyped == TypeOK /\ Working /\ [Next]_vars => TypeOK' /\ Working'
<1> SUFFICES ASSUME TypeOK, Working, [Next]_vars PROVE TypeOK' /\ Working'
  OBVIOUS
<1> DEFINE Goal == TypeOK' /\ Working'
<1> USE DEF TypeOK, Working
<1>0. Resolved \subseteq Provider /\ Empty \in [Adapter -> Backup \cup {None}]
  BY ResolvedProvider DEF Empty
<1>1. CASE Start
  <2>1. CASE on
    BY <1>0, <1>1, <2>1, ApplyBegins DEF Start, machine, settings
  <2>2. CASE ~on
    BY <1>1, <2>2, Rests DEF Start, machine, settings
  <2> QED
    BY <2>1, <2>2
<1>2. CASE Toggle
  <2>1. CASE on
    BY <1>2, <2>1, RevertBegins DEF Toggle, machine, LastActive
  <2>2. CASE ~on
    BY <1>0, <1>2, <2>2, ApplyBegins DEF Toggle, machine
  <2> QED
    BY <2>1, <2>2
<1>3. CASE CycleProvider
  <2>0. choice' \in Provider \cup {Fastest} /\ Resolved' \subseteq Provider
    BY <1>3 DEF CycleProvider, Resolved
  <2>1. CASE on
    BY <2>0, <1>3, <2>1, ApplyBegins DEF CycleProvider, machine
  <2>2. CASE ~on
    BY <2>0, <1>3, <2>2 DEF CycleProvider, machine, locals
  <2> QED
    BY <2>1, <2>2
<1>4. CASE Heal
  BY <1>0, <1>4, ApplyBegins DEF Heal, machine, settings
<1>5. CASE Quit
  BY <1>0, <1>5, Rests DEF Quit, machine
<1>6. CASE RevertAndQuit
  BY <1>6, RevertBegins DEF RevertAndQuit, machine, settings
<1>7. CASE CliApply
  BY <1>0, <1>7, ApplyBegins DEF CliApply, machine, settings
<1>8. CASE CliRevert
  BY <1>0, <1>8, RevertBegins DEF CliRevert, machine, settings
<1>9. CASE Crash
  <2>1. v4' \in [Adapter -> Seq(Server)] /\ by' \in [Adapter -> {"user", "program"}]
    <3>1. CASE UNCHANGED machine
      BY <3>1 DEF machine
    <3>2. ASSUME NEW a \in todo, Interrupted(a), phase = "apply"
          PROVE  v4' \in [Adapter -> Seq(Server)] /\ by' \in [Adapter -> {"user", "program"}]
      <4>1. PICK l \in {<<Pair(res)[1]>>, Pair(res)} : v4' = [v4 EXCEPT ![a] = l]
        BY <3>2 DEF Interrupted
      <4>2. l \in Seq(Server)
        BY <3>2, <4>1, PairLists
      <4>3. by' = [by EXCEPT ![a] = "program"]
        BY <3>2 DEF Interrupted
      <4> QED
        BY <4>1, <4>2, <4>3
    <3>3. ASSUME NEW a \in todo, Interrupted(a), phase = "revert"
          PROVE  v4' \in [Adapter -> Seq(Server)] /\ by' \in [Adapter -> {"user", "program"}]
      <4>1. mem[a] \in Backup
        BY <3>3
      <4>2. Restored4(a) \in Seq(Server) /\ mem[a].by \in {"user", "program"}
        BY <4>1, SmallLists DEF Restored4, Backup
      <4>3. PICK n \in 0..Len(Restored4(a)) :
              /\ v4' = [v4 EXCEPT ![a] = SubSeq(Restored4(a), 1, n)]
              /\ by' = [by EXCEPT ![a] = IF n = Len(Restored4(a)) THEN mem[a].by ELSE "program"]
        BY <3>3 DEF Interrupted
      <4>4. SubSeq(Restored4(a), 1, n) \in Seq(Server)
        BY <4>2, Prefixes
      <4> QED
        BY <4>2, <4>3, <4>4
    <3> QED
      BY <1>9, <3>1, <3>2, <3>3 DEF Crash, Interrupted
  <2>2. dhcp' = dhcp /\ v6' = v6 /\ doh' = doh
    BY <1>9 DEF Crash, Interrupted, machine
  <2> QED
    BY <1>0, <1>9, <2>1, <2>2, Rests DEF Crash
<1>10. CASE AllHandled
  <2>1. CASE dirty /\ UNCHANGED <<mem, settings, aligned, then, locals>>
    BY <1>10, <2>1 DEF AllHandled, machine, settings, locals
  <2>2. CASE ~dirty /\ Finish(ok, phase = "apply")
    BY <1>0, <1>10, <2>2, Finishes DEF AllHandled, machine
  <2> QED
    BY <1>10, <2>1, <2>2 DEF AllHandled
<1>11. CASE Save
  BY <1>0, <1>11, Finishes DEF Save, machine
<1>12. CASE SaveFails
  BY <1>0, <1>12, Finishes DEF SaveFails, machine
<1>13. ASSUME NEW a \in Adapter, Skip(a) PROVE Goal
  BY <1>13 DEF Skip, machine, settings
<1>14. ASSUME NEW a \in Adapter, Switch(a) PROVE Goal
  <2>1. res \in Provider /\ a \in DOMAIN seen
    BY <1>14 DEF Switch
  <2>2. v4' \in [Adapter -> Seq(Server)]
    <3>1. PICK l \in FirstOrBoth(Pair(res)) : v4' = [v4 EXCEPT ![a] = l]
      BY <1>14 DEF Switch
    <3>2. l \in Seq(Server)
      BY <2>1, <3>1, PairLists DEF FirstOrBoth
    <3> QED
      BY <3>1, <3>2
  <2>3. v6' \in [Adapter -> Seq(Server)]
    BY <1>14, <2>1, PairLists, SmallLists DEF Switch, Lists
  <2>4. doh' \subseteq Adapter \X Provider
    BY <1>14, <2>1 DEF Switch, Mappings
  <2>5. mem' \in [Adapter -> Backup \cup {None}]
    BY <1>14, <2>1 DEF Switch, Archive, Ensure
  <2> QED
    BY <1>14, <2>1, <2>2, <2>3, <2>4, <2>5 DEF Switch, Archive, settings
<1>15. ASSUME NEW a \in Adapter, SwitchFails(a) PROVE Goal
  <2>1. mem' \in [Adapter -> Backup \cup {None}]
    BY <1>15 DEF SwitchFails, Archive, Ensure
  <2> QED
    BY <1>15, <2>1 DEF SwitchFails, Archive, machine, settings
<1>16. ASSUME NEW a \in Adapter, GiveBack(a) PROVE Goal
  <2>1. mem[a] \in Backup
    BY <1>16 DEF GiveBack
  <2>2. /\ Restored4(a) \in Seq(Server) /\ Restored6(a) \in Seq(Server)
        /\ mem[a].by \in {"user", "program"}
    BY <2>1, SmallLists DEF Restored4, Restored6, Backup
  <2>3. v4' \in [Adapter -> Seq(Server)] /\ by' \in [Adapter -> {"user", "program"}]
    BY <1>16, <2>2 DEF GiveBack
  <2>4. v6' \in [Adapter -> Seq(Server)]
    BY <1>16, <2>2, SmallLists DEF GiveBack, Lists
  <2>5. doh' \subseteq Adapter \X Provider
    BY <1>16 DEF GiveBack
  <2> QED
    BY <1>16, <2>3, <2>4, <2>5 DEF GiveBack, settings
<1>17. ASSUME NEW a \in Adapter, AdapterGone(a) PROVE Goal
  BY <1>17 DEF AdapterGone, KeepBackup, settings
<1>18. ASSUME NEW a \in Adapter, GiveBackFails(a) PROVE Goal
  <2>1. mem[a] \in Backup
    BY <1>18 DEF GiveBackFails
  <2>2. Restored4(a) \in Seq(Server)
    BY <2>1, SmallLists DEF Restored4, Backup
  <2>3. v4' \in [Adapter -> Seq(Server)] /\ by' \in [Adapter -> {"user", "program"}]
    <3>1. ASSUME NEW n \in 1..Len(Restored4(a)) - 1
          PROVE  SubSeq(Restored4(a), 1, n) \in Seq(Server)
      <4>1. n \in 0..Len(Restored4(a))
        BY <2>2
      <4> QED
        BY <2>2, <4>1, Prefixes
    <3>2. ASSUME NEW n \in 1..Len(Restored4(a)) - 1,
                 v4' = [v4 EXCEPT ![a] = SubSeq(Restored4(a), 1, n)],
                 by' = [by EXCEPT ![a] = "program"]
          PROVE  v4' \in [Adapter -> Seq(Server)] /\ by' \in [Adapter -> {"user", "program"}]
      BY <3>1, <3>2
    <3> QED
      BY <1>18, <3>2 DEF GiveBackFails
  <2> QED
    BY <1>18, <2>3 DEF GiveBackFails, KeepBackup, settings
<1>19. ASSUME NEW a \in Adapter, Owner(a) PROVE Goal
  BY <1>19, SettingsLists DEF Owner, settings, locals
<1>20. CASE UNCHANGED vars
  BY <1>20 DEF vars, machine, settings, locals
<1> QED
  BY <1>1, <1>2, <1>3, <1>4, <1>5, <1>6, <1>7, <1>8, <1>9, <1>10, <1>11, <1>12, <1>13,
     <1>14, <1>15, <1>16, <1>17, <1>18, <1>19, <1>20 DEF Next

\* The variables keep their types, whatever fails and wherever the process dies
\* (apply, revert and the restore of one backup in dns.rs).
THEOREM TypeCorrect == Spec => []TypeOK
<1>1. TypeOK /\ Working /\ [Next]_vars => TypeOK' /\ Working'
  BY NextTyped
<1> QED
  BY <1>1, InitTyped, PTL DEF Spec

-----------------------------------------------------------------------------
\* Entries and originals while no save fails and nothing crashes.

LEMMA FaultsFixed == [Next]_vars => faults' = faults
  BY DEF Next, vars, Start, Toggle, CycleProvider, Heal, Quit, RevertAndQuit, CliApply, CliRevert,
         Crash, AllHandled, Save, SaveFails, Skip, Switch, SwitchFails, GiveBack, AdapterGone,
         KeepBackup, GiveBackFails, Owner

LEMMA NextQuiet == TypeOK /\ Working /\ Quiet /\ [Next]_vars => Quiet'
<1> SUFFICES ASSUME TypeOK, Working, Quiet, [Next]_vars, faults' \subseteq {"netsh"} PROVE Quiet'
  BY DEF Quiet
<1>0. /\ faults \subseteq {"netsh"} /\ "save" \notin faults /\ "crash" \notin faults
      /\ AllAuthentic(disk) /\ AllAuthentic(mem)
      /\ Covered(IF phase = "off" THEN disk ELSE mem)
      /\ phase = "idle" => ~dirty
      /\ Clean => mem = disk
      /\ phase = "apply" => \A a \in todo : mem[a] = None => seen[a].by = "user"
      /\ Reverting /\ ok => \A a \in Adapter : mem[a] # None => a \in todo
  BY FaultsFixed DEF Quiet
<1>a. \A a \in Adapter : by[a] # "program" => by[a] = "user"
  BY DEF TypeOK
<1> USE DEF AllAuthentic, Covered, Clean, Reverting, Authentic
<1> DEFINE Inherited == UNCHANGED <<by, disk>> /\ mem' = (IF phase = "off" THEN disk ELSE mem)
           Begun == Inherited /\ phase' = "apply" /\ ~dirty' /\ todo' \subseteq Adapter
                    /\ (phase = "idle" \/ phase = "off")
                    /\ \A a \in todo' : seen'[a].by = by[a]
           Turned == Inherited /\ phase' = "revert" /\ ~dirty' /\ ok'
                     /\ (phase = "idle" \/ phase = "off")
                     /\ todo' = {a \in Adapter : mem'[a] # None}
<1>b. Begun => Quiet'
  BY <1>0, <1>a DEF Quiet
<1>c. Turned => Quiet'
  BY <1>0 DEF Quiet
<1>d. Inherited /\ phase' = "idle" /\ ~dirty' /\ (phase = "off" \/ phase = "idle" \/ Clean) => Quiet'
  BY <1>0 DEF Quiet
<1>e. UNCHANGED <<by, disk>> /\ phase' = "off" /\ mem' = Empty
      /\ (phase \in {"off", "idle"} \/ Clean) => Quiet'
  BY <1>0 DEF Quiet, Empty
<1>f. \A a \in Adapter : Reported(a).by = by[a]
  BY DEF Reported
<1>1. CASE Start
  <2>1. CASE on
    BY <1>1, <2>1, <1>b, <1>f, ApplyBegins DEF Start, machine
  <2>2. CASE ~on
    BY <1>1, <2>2, <1>d, Rests DEF Start, machine
  <2> QED
    BY <2>1, <2>2
<1>2. CASE Toggle
  <2>1. CASE on
    BY <1>2, <2>1, <1>c, RevertBegins DEF Toggle, machine
  <2>2. CASE ~on
    BY <1>2, <2>2, <1>b, <1>f, ApplyBegins DEF Toggle, machine
  <2> QED
    BY <2>1, <2>2
<1>3. CASE CycleProvider
  <2>1. CASE on
    BY <1>3, <2>1, <1>b, <1>f, ApplyBegins DEF CycleProvider, machine
  <2>2. CASE ~on
    BY <1>3, <2>2, <1>d, <1>0 DEF CycleProvider, machine, locals
  <2> QED
    BY <2>1, <2>2
<1>4. CASE Heal
  BY <1>4, <1>b, <1>f, ApplyBegins DEF Heal, machine
<1>5. CASE Quit
  BY <1>5, <1>e DEF Quit, machine
<1>6. CASE RevertAndQuit
  BY <1>6, <1>c, RevertBegins DEF RevertAndQuit, machine
<1>7. CASE CliApply
  BY <1>7, <1>b, <1>f, ApplyBegins DEF CliApply, machine
<1>8. CASE CliRevert
  BY <1>8, <1>c, RevertBegins DEF CliRevert, machine
<1>9. CASE Crash
  BY <1>9, <1>0 DEF Crash
<1>10. CASE AllHandled
  <2>1. CASE dirty /\ UNCHANGED <<mem, settings, aligned, then, locals>>
    BY <1>0, <1>10, <2>1 DEF AllHandled, machine, settings, locals, Quiet
  <2>2. CASE ~dirty /\ Finish(ok, phase = "apply")
    BY <1>d, <1>e, <1>10, <2>2, Finishes DEF AllHandled, machine, TypeOK
  <2> QED
    BY <1>10, <2>1, <2>2 DEF AllHandled
<1>11. CASE Save
  BY <1>0, <1>11, Finishes DEF Save, machine, Quiet, TypeOK, Empty
<1>12. CASE SaveFails
  BY <1>12, <1>0 DEF SaveFails
<1>13. ASSUME NEW a \in Adapter, Skip(a) PROVE Quiet'
  BY <1>0, <1>13 DEF Skip, machine, settings, Quiet
<1>14. ASSUME NEW a \in Adapter, Switch(a) PROVE Quiet'
  <2>1. /\ phase = "apply" /\ a \in todo /\ seen[a] \in Backup /\ phase' = "apply"
        /\ todo' = todo \ {a} /\ seen' = seen /\ UNCHANGED disk
    BY <1>14 DEF Switch, Archive, Working
  <2>2. mem' = Ensure(a) /\ (dirty' <=> dirty \/ mem[a] = None)
    BY <1>14 DEF Switch, Archive
  <2>3. seen[a] # None
    BY <2>1, DnsAssumption
  <2>4. mem'[a] # None /\ mem'[a].by = "user"
    BY <1>0, <2>1, <2>2, <2>3 DEF Ensure, TypeOK
  <2>5. \A b \in Adapter \ {a} : mem'[b] = mem[b] /\ by'[b] = by[b]
    BY <1>14, <2>2 DEF Ensure, TypeOK, Switch
  <2>6. ~dirty' => mem' = mem /\ ~dirty
    BY <2>2 DEF Ensure
  <2>7. AllAuthentic(mem') /\ \A b \in Adapter : by'[b] = "program" => Authentic(mem'[b])
    BY <1>0, <2>1, <2>4, <2>5
  <2>8. \A b \in todo' : mem'[b] = None => seen'[b].by = "user"
    BY <1>0, <2>1, <2>5 DEF TypeOK
  <2> QED
    BY <1>0, <2>1, <2>6, <2>7, <2>8 DEF Quiet
<1>15. ASSUME NEW a \in Adapter, SwitchFails(a) PROVE Quiet'
  <2>1. /\ phase = "apply" /\ a \in todo /\ seen[a] \in Backup /\ phase' = "apply"
        /\ todo' = todo \ {a} /\ seen' = seen /\ UNCHANGED <<disk, by>>
    BY <1>15 DEF SwitchFails, Archive, Working, machine
  <2>2. mem' = Ensure(a) /\ (dirty' <=> dirty \/ mem[a] = None)
    BY <1>15 DEF SwitchFails, Archive
  <2>3. seen[a] # None
    BY <2>1, DnsAssumption
  <2>4. mem'[a] # None /\ mem'[a].by = "user"
    BY <1>0, <2>1, <2>2, <2>3 DEF Ensure, TypeOK
  <2>5. \A b \in Adapter \ {a} : mem'[b] = mem[b]
    BY <2>2 DEF Ensure, TypeOK
  <2>6. ~dirty' => mem' = mem /\ ~dirty
    BY <2>2 DEF Ensure
  <2> QED
    BY <1>0, <2>1, <2>4, <2>5, <2>6 DEF Quiet, TypeOK
<1>16. ASSUME NEW a \in Adapter, GiveBack(a) PROVE Quiet'
  <2>1. /\ phase = "revert" /\ a \in todo /\ phase' = "revert" /\ mem[a] # None
        /\ todo' = todo \ {a} /\ dirty' /\ ok' = ok /\ UNCHANGED disk
    BY <1>16 DEF GiveBack, Working
  <2>2. by'[a] = "user" /\ mem'[a] = None
    BY <1>0, <1>16, <2>1 DEF GiveBack, TypeOK
  <2>3. \A b \in Adapter \ {a} : mem'[b] = mem[b] /\ by'[b] = by[b]
    BY <1>16 DEF GiveBack, TypeOK
  <2> QED
    BY <1>0, <2>1, <2>2, <2>3 DEF Quiet
<1>17. ASSUME NEW a \in Adapter, AdapterGone(a) PROVE Quiet'
  BY <1>0, <1>17 DEF AdapterGone, KeepBackup, settings, Quiet
<1>18. ASSUME NEW a \in Adapter, GiveBackFails(a) PROVE Quiet'
  <2>1. /\ phase = "revert" /\ phase' = "revert" /\ mem[a] # None
        /\ UNCHANGED <<disk, mem, dirty>> /\ ~ok'
    BY <1>18 DEF GiveBackFails, KeepBackup, Working
  <2>2. \A b \in Adapter \ {a} : by'[b] = by[b]
    BY <1>18 DEF GiveBackFails, TypeOK
  <2> QED
    BY <1>0, <2>1, <2>2 DEF Quiet
<1>19. ASSUME NEW a \in Adapter, Owner(a) PROVE Quiet'
  <2>1. /\ UNCHANGED <<disk, mem, phase, seen, todo, dirty, ok>>
        /\ by' = [by EXCEPT ![a] = "user"]
    BY <1>19 DEF Owner, locals
  <2>2. \A b \in Adapter : by'[b] = "program" => by[b] = "program"
    BY <2>1 DEF TypeOK
  <2> QED
    BY <1>0, <2>1, <2>2 DEF Quiet
<1>20. CASE UNCHANGED vars
  BY <1>0, <1>20 DEF vars, machine, settings, locals, Quiet
<1> QED
  BY <1>1, <1>2, <1>3, <1>4, <1>5, <1>6, <1>7, <1>8, <1>9, <1>10, <1>11, <1>12, <1>13,
     <1>14, <1>15, <1>16, <1>17, <1>18, <1>19, <1>20 DEF Next

LEMMA AlwaysQuiet == Spec => [](TypeOK /\ Working /\ Quiet)
<1>1. Init => Quiet
  BY DEF Init, Quiet, AllAuthentic, Covered, Clean, Reverting, Authentic, Empty
<1>2. TypeOK /\ Working /\ Quiet /\ [Next]_vars => (TypeOK /\ Working /\ Quiet)'
  BY NextTyped, NextQuiet
<1> QED
  BY <1>1, <1>2, InitTyped, PTL DEF Spec

\* Between operations each adapter that has the program's servers has its
\* backup in the file, and the backup records what the owner had, whichever
\* netsh calls failed (dns_ensure in config.rs, apply and revert in dns.rs).
THEOREM BackupsAtRest == Spec => []BackupAtRest
<1>1. TypeOK /\ Quiet => BackupAtRest
  <2> SUFFICES ASSUME Quiet, faults \subseteq {"netsh"}, phase \in {"off", "idle"},
                      NEW a \in Adapter, by[a] = "program"
               PROVE  Authentic(disk[a])
    BY DEF BackupAtRest
  <2>1. phase = "idle" => disk = mem
    BY DEF Quiet, Clean
  <2> QED
    BY <2>1 DEF Quiet, Covered
<1> QED
  BY <1>1, AlwaysQuiet, PTL

\* A revert that returns Ok leaves no adapter with the program's servers and no
\* entry in the file (revert in dns.rs).
THEOREM RevertsEveryAdapter == Spec => RevertsAll
<1>1. TypeOK /\ Working /\ Quiet /\ [Next]_vars =>
        [faults \subseteq {"netsh"} /\ Reverting /\ phase' \in {"off", "idle"} /\ ok =>
           \A a \in Adapter : by[a] = "user" /\ disk'[a] = None]_vars
  <2> SUFFICES ASSUME TypeOK, Working, Quiet, Next, faults \subseteq {"netsh"}, Reverting,
                      phase' \in {"off", "idle"}, ok
               PROVE  \A a \in Adapter : by[a] = "user" /\ disk'[a] = None
    OBVIOUS
  <2>1. todo = {} /\ (disk' = mem \/ (phase = "revert" /\ ~dirty /\ disk' = disk))
    <3>1. CASE AllHandled
      BY <3>1 DEF AllHandled, Reverting
    <3>2. CASE Save
      BY <3>2 DEF Save, Working
    <3>3. ASSUME NEW a \in Adapter,
                 Skip(a) \/ Switch(a) \/ SwitchFails(a) \/ GiveBack(a) \/ AdapterGone(a)
                   \/ GiveBackFails(a) \/ Owner(a)
          PROVE  FALSE
      BY <3>3 DEF Skip, Switch, SwitchFails, GiveBack, AdapterGone, GiveBackFails, KeepBackup,
                  Owner, Reverting
    <3> QED
      BY <3>1, <3>2, <3>3
         DEF Next, Start, Toggle, CycleProvider, Heal, Quit, RevertAndQuit, CliApply, CliRevert,
             Crash, SaveFails, Reverting
  <2>2. \A a \in Adapter : mem[a] = None
    BY <2>1 DEF Quiet
  <2>3. disk' = mem
    BY <2>1 DEF Quiet, Clean
  <2>4. \A a \in Adapter : ~Authentic(mem[a])
    BY <2>2 DEF Authentic
  <2> QED
    BY <2>2, <2>3, <2>4 DEF Quiet, Covered, Reverting, TypeOK
<1>2. [](TypeOK /\ Working /\ Quiet) /\ [][Next]_vars => RevertsAll
  BY <1>1, PTL DEF RevertsAll
<1> QED
  BY <1>2, AlwaysQuiet, PTL DEF Spec

-----------------------------------------------------------------------------
\* What a backup says of its adapter.

LEMMA ReportedFaithful == TypeOK => \A a \in Adapter : Faithful(a, Reported(a))
  BY DEF TypeOK, Faithful, Reported, Automatic

LEMMA NextFaithful == TypeOK /\ Working /\ Faithfully /\ [Next]_vars => Faithfully'
<1> SUFFICES ASSUME TypeOK, Working, Faithfully, [Next]_vars PROVE Faithfully'
  OBVIOUS
<1> DEFINE Good(archive) == \A a \in Adapter : archive[a] # None => Faithful(a, archive[a])
           GoodSeen == \A a \in DOMAIN seen' : Faithful(a, seen'[a])
<1>0. Good(mem) /\ Good(disk) /\ Good(Empty) /\ \A a \in DOMAIN seen : Faithful(a, seen[a])
  BY DEF Faithfully, Empty
<1>a. \A a, b : dhcp' = dhcp => (Faithful(a, b)' <=> Faithful(a, b))
  BY DEF Faithful
<1>b. dhcp' = dhcp
  BY DEF Next, vars, machine, Start, Toggle, CycleProvider, Heal, Quit, RevertAndQuit, CliApply,
         CliRevert, Crash, Interrupted, AllHandled, Save, SaveFails, Skip, Switch, SwitchFails,
         GiveBack, AdapterGone, KeepBackup, GiveBackFails, Owner
<1>c. GoodSeen /\ Good(mem') /\ Good(disk') => Faithfully'
  BY <1>b DEF Faithfully, Faithful
<1>d. ASSUME NEW p, NEW back, BeginApply(p, back) PROVE GoodSeen
  BY <1>d, ApplyBegins, ReportedFaithful
<1>e. ASSUME NEW archive, NEW r, NEW back, BeginRevert(archive, r, back) PROVE GoodSeen
  BY <1>e, RevertBegins, ReportedFaithful
<1>f. Rest => GoodSeen
  BY Rests
<1>g. ASSUME NEW result \in BOOLEAN, NEW applied \in BOOLEAN, Finish(result, applied)
      PROVE  GoodSeen /\ Good(mem')
  BY <1>g, <1>0, Finishes
<1>h. seen' = seen => GoodSeen
  BY <1>0
<1>i. ASSUME NEW a \in Adapter, a \in DOMAIN seen, mem' = Ensure(a) PROVE Good(mem')
  BY <1>0, <1>i DEF Ensure, TypeOK
<1>1. CASE Start
  BY <1>0, <1>1, <1>c, <1>d, <1>f DEF Start
<1>2. CASE Toggle
  BY <1>0, <1>2, <1>c, <1>d, <1>e DEF Toggle
<1>3. CASE CycleProvider
  BY <1>0, <1>3, <1>c, <1>d, <1>h DEF CycleProvider, locals
<1>4. CASE Heal
  BY <1>0, <1>4, <1>c, <1>d DEF Heal
<1>5. CASE Quit
  BY <1>0, <1>5, <1>c, <1>f DEF Quit
<1>6. CASE RevertAndQuit
  BY <1>0, <1>6, <1>c, <1>e DEF RevertAndQuit
<1>7. CASE CliApply
  BY <1>0, <1>7, <1>c, <1>d DEF CliApply
<1>8. CASE CliRevert
  BY <1>0, <1>8, <1>c, <1>e DEF CliRevert
<1>9. CASE Crash
  BY <1>0, <1>9, <1>c, <1>f DEF Crash
<1>10. CASE AllHandled
  BY <1>0, <1>10, <1>c, <1>g, <1>h DEF AllHandled, locals, TypeOK
<1>11. CASE Save
  BY <1>0, <1>11, <1>c, <1>g DEF Save, TypeOK
<1>12. CASE SaveFails
  BY <1>0, <1>12, <1>c, <1>g DEF SaveFails, TypeOK
<1>13. ASSUME NEW a \in Adapter, Skip(a) PROVE Faithfully'
  BY <1>0, <1>13, <1>c, <1>h DEF Skip
<1>14. ASSUME NEW a \in Adapter, Switch(a) PROVE Faithfully'
  BY <1>0, <1>14, <1>c, <1>h, <1>i DEF Switch, Archive, Working
<1>15. ASSUME NEW a \in Adapter, SwitchFails(a) PROVE Faithfully'
  BY <1>0, <1>15, <1>c, <1>h, <1>i DEF SwitchFails, Archive, Working
<1>16. ASSUME NEW a \in Adapter, GiveBack(a) PROVE Faithfully'
  <2>1. Good(mem')
    BY <1>0, <1>16 DEF GiveBack, TypeOK
  <2> QED
    BY <1>0, <1>16, <1>c, <1>h, <2>1 DEF GiveBack
<1>17. ASSUME NEW a \in Adapter, AdapterGone(a) PROVE Faithfully'
  BY <1>0, <1>17, <1>c, <1>h DEF AdapterGone, KeepBackup
<1>18. ASSUME NEW a \in Adapter, GiveBackFails(a) PROVE Faithfully'
  BY <1>0, <1>18, <1>c, <1>h DEF GiveBackFails, KeepBackup
<1>19. ASSUME NEW a \in Adapter, Owner(a) PROVE Faithfully'
  BY <1>0, <1>19, <1>c, <1>h DEF Owner, locals
<1>20. CASE UNCHANGED vars
  BY <1>0, <1>20, <1>c, <1>h DEF vars, locals
<1> QED
  BY <1>1, <1>2, <1>3, <1>4, <1>5, <1>6, <1>7, <1>8, <1>9, <1>10, <1>11, <1>12, <1>13,
     <1>14, <1>15, <1>16, <1>17, <1>18, <1>19, <1>20 DEF Next

\* Only giving a backup back takes it out of the archive of a revert.
LEMMA DrainedByGiveBack ==
  ASSUME TypeOK, Working, [Next]_vars, NEW a \in Adapter, Drained(a)
  PROVE  GiveBack(a)
<1>1. phase' = "revert" /\ mem[a] # None /\ mem'[a] = None
  BY DEF Drained
<1>2. phase # "off"
  BY <1>1 DEF Working, Empty
<1>3. mem' # mem
  BY <1>1
<1>4. ~(Start \/ Toggle \/ CycleProvider \/ Heal \/ Quit \/ RevertAndQuit \/ CliApply \/ CliRevert
        \/ Crash \/ AllHandled \/ Save \/ SaveFails \/ UNCHANGED vars)
  BY <1>1, <1>2, <1>3
     DEF Start, Toggle, CycleProvider, Heal, Quit, RevertAndQuit, CliApply, CliRevert, Crash,
         AllHandled, Save, SaveFails, Finish, vars, TypeOK
<1>5. ASSUME NEW b \in Adapter, Skip(b) \/ Switch(b) \/ SwitchFails(b) \/ AdapterGone(b)
                                  \/ GiveBackFails(b) \/ Owner(b)
      PROVE  FALSE
  BY <1>1, <1>3, <1>5
     DEF Skip, Switch, SwitchFails, AdapterGone, GiveBackFails, KeepBackup, Owner
<1>6. ASSUME NEW b \in Adapter, GiveBack(b) PROVE b = a
  BY <1>1, <1>6 DEF GiveBack, TypeOK
<1> QED
  BY <1>4, <1>5, <1>6 DEF Next

\* A backup that is given up has put back what it was taken of, provided that
\* the flag and the lists of the enumeration can say it (restore_backup).
THEOREM RestoresWhatWasRecorded == Spec => RestoresRecorded
<1> DEFINE Inv == TypeOK /\ Working /\ Faithfully
<1>1. Init => Inv
  <2>1. Init => Faithfully
    BY DEF Init, Faithfully, Empty
  <2> QED
    BY <2>1, InitTyped
<1>2. Inv /\ [Next]_vars => Inv'
  BY NextTyped, NextFaithful
<1>3. Inv /\ [Next]_vars =>
        [\A a \in Adapter : Drained(a) /\ Expressible(a, mem[a]) => PutBack(a, mem[a])]_vars
  <2> SUFFICES ASSUME Inv, [Next]_vars, NEW a \in Adapter, Drained(a), Expressible(a, mem[a])
               PROVE  PutBack(a, mem[a])
    OBVIOUS
  <2>1. GiveBack(a)
    BY DrainedByGiveBack
  <2>2. Faithful(a, mem[a])
    BY DEF Faithfully, Drained
  <2>3. v4'[a] = Restored4(a) /\ ("netsh" \notin faults => v6'[a] = Restored6(a))
    BY <2>1 DEF GiveBack, Lists, TypeOK
  <2>4. Restored4(a) = mem[a].was4
    BY <2>2 DEF Restored4, Faithful, Expressible
  <2>5. Restored6(a) = mem[a].was6
    BY <2>2 DEF Restored6, Faithful, Expressible, Automatic
  <2> QED
    BY <2>3, <2>4, <2>5 DEF PutBack
<1> QED
  BY <1>1, <1>2, <1>3, PTL DEF Spec, RestoresRecorded

-----------------------------------------------------------------------------
\* The provider a revert works with.

LEMMA NextAtHand == TypeOK /\ Working /\ AtHand /\ [Next]_vars => AtHand'
<1> SUFFICES ASSUME TypeOK, Working, AtHand, [Next]_vars, faults' = {} PROVE AtHand'
  BY DEF AtHand
<1>0. /\ faults = {}
      /\ phase = "idle" /\ on => active \in Provider
      /\ phase = "revert" => res \in Provider
      /\ phase \in {"apply", "applied"} => ok /\ res \in Provider
      /\ Reverting /\ then = "idle" => ~on
  BY FaultsFixed DEF AtHand
<1> USE DEF Reverting
<1>a. Resolved \subseteq Provider
  BY ResolvedProvider
<1>b. phase' = "off" => AtHand'
  BY DEF AtHand
<1>c. phase' = "apply" /\ ok' /\ res' \in Provider => AtHand'
  BY DEF AtHand
<1>d. phase' = "revert" /\ res' \in Provider /\ (then' = "idle" => ~on') => AtHand'
  BY DEF AtHand
<1>e. phase' = "idle" /\ (on' => active' \in Provider) => AtHand'
  BY DEF AtHand
<1>f. ASSUME phase \in {"apply", "applied", "revert", "reverted"},
             Finish(ok, phase \in {"apply", "applied"})
      PROVE  AtHand'
  <2>1. ok \in BOOLEAN /\ (phase \in {"apply", "applied"}) \in BOOLEAN
    BY DEF TypeOK
  <2>2. /\ phase' = "off" \/ (phase' = "idle" /\ then = "idle")
        /\ on' = on
        /\ then = "idle" => active' = IF phase \in {"apply", "applied"} /\ ok THEN res ELSE active
    BY <1>f, <2>1, Finishes
  <2>3. phase \in {"apply", "applied"} \/ Reverting
    BY <1>f
  <2> QED
    BY <1>0, <1>b, <1>e, <2>2, <2>3
<1>1. CASE Start
  <2>1. CASE on
    BY <1>1, <2>1, <1>a, <1>c, ApplyBegins DEF Start
  <2>2. CASE ~on
    BY <1>1, <2>2, <1>e DEF Start, settings
  <2> QED
    BY <2>1, <2>2
<1>2. CASE Toggle
  <2>1. CASE on
    BY <1>0, <1>2, <2>1, <1>d, RevertBegins DEF Toggle, LastActive
  <2>2. CASE ~on
    BY <1>2, <2>2, <1>a, <1>c, ApplyBegins DEF Toggle
  <2> QED
    BY <2>1, <2>2
<1>3. CASE CycleProvider
  <2>1. CASE on
    <3>1. Resolved' \subseteq Provider
      BY <1>3 DEF CycleProvider, Resolved, TypeOK
    <3> QED
      BY <1>3, <2>1, <3>1, <1>c, ApplyBegins DEF CycleProvider
  <2>2. CASE ~on
    BY <1>0, <1>3, <2>2, <1>e DEF CycleProvider
  <2> QED
    BY <2>1, <2>2
<1>4. CASE Heal
  BY <1>4, <1>a, <1>c, ApplyBegins DEF Heal
<1>5. CASE Quit
  BY <1>5, <1>b DEF Quit
<1>6. CASE RevertAndQuit
  <2>1. BeginRevert(mem, active, "off") /\ active \in Provider
    BY <1>0, <1>6 DEF RevertAndQuit
  <2>2. phase' = "revert" /\ then' = "off" /\ res' = active
    BY <2>1, RevertBegins
  <2> QED
    BY <1>d, <2>1, <2>2
<1>7. CASE CliApply
  BY <1>7, <1>a, <1>c, ApplyBegins DEF CliApply
<1>8. CASE CliRevert
  <2>1. PICK p \in Resolved : BeginRevert(disk, p, "cli")
    BY <1>8 DEF CliRevert
  <2>2. phase' = "revert" /\ then' = "cli" /\ res' = p
    BY <2>1, RevertBegins
  <2> QED
    BY <1>a, <1>d, <2>2
<1>9. CASE Crash
  BY <1>9, <1>b DEF Crash
<1>10. CASE AllHandled
  <2>1. CASE dirty /\ UNCHANGED <<mem, settings, aligned, then, locals>>
    BY <1>0, <1>10, <2>1 DEF AllHandled, settings, locals, AtHand
  <2>2. CASE ~dirty /\ Finish(ok, phase = "apply")
    BY <1>10, <2>2, <1>f DEF AllHandled
  <2> QED
    BY <1>10, <2>1, <2>2 DEF AllHandled
<1>11. CASE Save
  BY <1>11, <1>f DEF Save
<1>12. CASE SaveFails
  BY <1>0, <1>12 DEF SaveFails
<1>13. ASSUME NEW a \in Adapter, Skip(a) PROVE AtHand'
  BY <1>0, <1>13 DEF Skip, settings, AtHand
<1>14. ASSUME NEW a \in Adapter, Switch(a) PROVE AtHand'
  BY <1>0, <1>14 DEF Switch, settings, AtHand
<1>15. ASSUME NEW a \in Adapter, SwitchFails(a) PROVE AtHand'
  BY <1>0, <1>15 DEF SwitchFails
<1>16. ASSUME NEW a \in Adapter, GiveBack(a) PROVE AtHand'
  BY <1>0, <1>16 DEF GiveBack, settings, AtHand
<1>17. ASSUME NEW a \in Adapter, AdapterGone(a) PROVE AtHand'
  BY <1>0, <1>17 DEF AdapterGone, KeepBackup, settings, AtHand
<1>18. ASSUME NEW a \in Adapter, GiveBackFails(a) PROVE AtHand'
  BY <1>0, <1>18 DEF GiveBackFails
<1>19. ASSUME NEW a \in Adapter, Owner(a) PROVE AtHand'
  BY <1>0, <1>19 DEF Owner, settings, locals, AtHand
<1>20. CASE UNCHANGED vars
  BY <1>0, <1>20 DEF vars, settings, locals, AtHand
<1> QED
  BY <1>1, <1>2, <1>3, <1>4, <1>5, <1>6, <1>7, <1>8, <1>9, <1>10, <1>11, <1>12, <1>13,
     <1>14, <1>15, <1>16, <1>17, <1>18, <1>19, <1>20 DEF Next

\* Where no call fails, giving a backup back leaves the adapter no DoH mapping
\* of the provider the operation works with, and it always works with one
\* (clear_doh, and the provider app.rs remembers).
THEOREM RevertsClearDoh == Spec => DohCleared
<1> DEFINE Inv == TypeOK /\ Working /\ AtHand
<1>1. Init => Inv
  <2>1. Init => AtHand
    BY DEF Init, AtHand, Reverting
  <2> QED
    BY <2>1, InitTyped
<1>2. Inv /\ [Next]_vars => Inv'
  BY NextTyped, NextAtHand
<1>3. Inv /\ [Next]_vars =>
        [\A a \in Adapter :
           Drained(a) /\ faults = {} /\ (res = None \/ Mapped(a) \subseteq {res})
             => Mapped(a)' = {}]_vars
  <2> SUFFICES ASSUME Inv, [Next]_vars, NEW a \in Adapter, Drained(a), faults = {},
                      res = None \/ Mapped(a) \subseteq {res},
                      NEW p \in Provider, <<a, p>> \in doh'
               PROVE  FALSE
    BY DEF Mapped
  <2>1. GiveBack(a)
    BY DrainedByGiveBack
  <2>2. res \in Provider /\ res # None
    BY <2>1, DnsAssumption DEF GiveBack, AtHand
  <2>3. doh' = doh \ {<<a, res>>}
    BY <2>1, <2>2 DEF GiveBack, Mappings, Cleared
  <2>4. p = res
    BY <2>2, <2>3 DEF Mapped
  <2> QED
    BY <2>3, <2>4
<1> QED
  BY <1>1, <1>2, <1>3, PTL DEF Spec, DohCleared

-----------------------------------------------------------------------------
\* The promise of the archive.

LEMMA NextHolding == TypeOK /\ Working /\ Holding /\ [Next]_vars => Holding'
<1> SUFFICES ASSUME TypeOK, Working, Holding, [Next]_vars PROVE Holding'
  OBVIOUS
<1> DEFINE Kept(archive) == \A a \in Adapter : Authentic(disk[a]) =>
             Authentic(archive[a]) \/ (archive[a] = None /\ by[a] = "user")
<1>0. /\ phase # "off" => Kept(mem)
      /\ phase = "apply" => \A a \in todo : Authentic(disk[a]) /\ mem[a] = None => seen[a].by = "user"
      /\ Kept(disk)
  BY DEF Holding
<1> USE DEF Authentic
<1> DEFINE Inherited == UNCHANGED <<by, disk>> /\ (mem' = disk \/ (phase # "off" /\ mem' = mem))
<1>a. Inherited /\ phase' # "apply" => Holding'
  BY <1>0 DEF Holding
<1>b. Inherited /\ todo' \subseteq Adapter /\ (\A a \in todo' : seen'[a].by = by[a]) => Holding'
  BY <1>0 DEF Holding
<1>c. phase' = "off" => Holding'
  BY DEF Holding
<1>d. \A a \in Adapter : Reported(a).by = by[a]
  BY DEF Reported
<1>1. CASE Start
  <2>1. CASE on
    BY <1>1, <2>1, <1>b, <1>d, ApplyBegins DEF Start, machine
  <2>2. CASE ~on
    BY <1>1, <2>2, <1>a DEF Start, machine
  <2> QED
    BY <2>1, <2>2
<1>2. CASE Toggle
  <2>1. CASE on
    BY <1>2, <2>1, <1>a, RevertBegins DEF Toggle, machine
  <2>2. CASE ~on
    BY <1>2, <2>2, <1>b, <1>d, ApplyBegins DEF Toggle, machine
  <2> QED
    BY <2>1, <2>2
<1>3. CASE CycleProvider
  <2>1. CASE on
    BY <1>3, <2>1, <1>b, <1>d, ApplyBegins DEF CycleProvider, machine
  <2>2. CASE ~on
    BY <1>3, <2>2, <1>a DEF CycleProvider, machine
  <2> QED
    BY <2>1, <2>2
<1>4. CASE Heal
  BY <1>4, <1>b, <1>d, ApplyBegins DEF Heal, machine
<1>5. CASE Quit
  BY <1>5, <1>c DEF Quit
<1>6. CASE RevertAndQuit
  BY <1>6, <1>a, RevertBegins DEF RevertAndQuit, machine
<1>7. CASE CliApply
  BY <1>7, <1>b, <1>d, ApplyBegins DEF CliApply, machine
<1>8. CASE CliRevert
  BY <1>8, <1>a, RevertBegins DEF CliRevert, machine
<1>9. CASE Crash
  BY <1>9, <1>c DEF Crash
<1>10. CASE AllHandled
  <2>1. CASE dirty /\ UNCHANGED <<mem, settings, aligned, then, locals>>
    BY <1>10, <2>1, <1>a DEF AllHandled, machine
  <2>2. CASE ~dirty /\ Finish(ok, phase = "apply")
    BY <1>a, <1>c, <1>10, <2>2, Finishes DEF AllHandled, machine, TypeOK
  <2> QED
    BY <1>10, <2>1, <2>2 DEF AllHandled
<1>11. CASE Save
  <2>1. (phase' = "idle" /\ mem' = mem) \/ phase' = "off"
    BY <1>11, Finishes DEF Save, TypeOK
  <2>2. disk' = mem
    BY <1>11 DEF Save
  <2> QED
    BY <1>c, <2>1, <2>2 DEF Holding
<1>12. CASE SaveFails
  <2>1. (phase' = "idle" /\ then = "idle" /\ mem' = mem) \/ phase' = "off"
    BY <1>12, Finishes DEF SaveFails, TypeOK
  <2>2. then = "idle" => UNCHANGED <<by, disk>> /\ phase # "off"
    BY <1>12 DEF SaveFails, machine
  <2> QED
    BY <1>a, <1>c, <2>1, <2>2
<1>13. ASSUME NEW a \in Adapter, Skip(a) PROVE Holding'
  BY <1>0, <1>13 DEF Skip, machine, Holding
<1>14. ASSUME NEW a \in Adapter, Switch(a) \/ SwitchFails(a) PROVE Holding'
  <2>1. /\ phase = "apply" /\ phase' = "apply" /\ a \in todo /\ todo' = todo \ {a}
        /\ mem' = Ensure(a) /\ UNCHANGED <<disk, seen>> /\ seen[a] \in Backup
    BY <1>14 DEF Switch, SwitchFails, Archive, Working
  <2>2. mem'[a] = IF mem[a] = None THEN seen[a] ELSE mem[a]
    BY <2>1 DEF Ensure, TypeOK
  <2>3. \A b \in Adapter \ {a} : mem'[b] = mem[b] /\ by'[b] = by[b]
    BY <1>14, <2>1 DEF Ensure, TypeOK, Switch, SwitchFails, machine
  <2>4. Authentic(disk[a]) => Authentic(mem'[a])
    BY <1>0, <2>1, <2>2, DnsAssumption
  <2> QED
    BY <1>0, <2>1, <2>3, <2>4 DEF Holding, TypeOK
<1>15. ASSUME NEW a \in Adapter, GiveBack(a) PROVE Holding'
  <2>1. /\ phase = "revert" /\ phase' = "revert" /\ mem[a] # None /\ UNCHANGED disk
        /\ mem'[a] = None /\ by'[a] = mem[a].by
    BY <1>15 DEF GiveBack, Working, TypeOK
  <2>2. \A b \in Adapter \ {a} : mem'[b] = mem[b] /\ by'[b] = by[b]
    BY <1>15 DEF GiveBack, TypeOK
  <2> QED
    BY <1>0, <2>1, <2>2 DEF Holding
<1>16. ASSUME NEW a \in Adapter, AdapterGone(a) PROVE Holding'
  BY <1>0, <1>16 DEF AdapterGone, KeepBackup, Holding
<1>17. ASSUME NEW a \in Adapter, GiveBackFails(a) PROVE Holding'
  <2>1. phase = "revert" /\ phase' = "revert" /\ mem[a] # None /\ UNCHANGED <<disk, mem>>
    BY <1>17 DEF GiveBackFails, KeepBackup, Working
  <2>2. \A b \in Adapter \ {a} : by'[b] = by[b]
    BY <1>17 DEF GiveBackFails, TypeOK
  <2> QED
    BY <1>0, <2>1, <2>2 DEF Holding
<1>18. ASSUME NEW a \in Adapter, Owner(a) PROVE Holding'
  <2>1. UNCHANGED <<disk, mem, phase, seen, todo>> /\ by' = [by EXCEPT ![a] = "user"]
    BY <1>18 DEF Owner, locals
  <2>2. \A b \in Adapter : by'[b] = "user" \/ by'[b] = by[b]
    BY <2>1 DEF TypeOK
  <2> QED
    BY <1>0, <2>1, <2>2 DEF Holding
<1>19. CASE UNCHANGED vars
  BY <1>0, <1>19 DEF vars, machine, locals, Holding
<1> QED
  BY <1>1, <1>2, <1>3, <1>4, <1>5, <1>6, <1>7, <1>8, <1>9, <1>10, <1>11, <1>12, <1>13,
     <1>14, <1>15, <1>16, <1>17, <1>18, <1>19 DEF Next

\* The author of one adapter's servers changes in a step that leaves the file
\* alone; a step that replaces the file keeps the originals still owed.
LEMMA StepPromise ==
  TypeOK /\ Working /\ Holding /\ [Next]_vars => [Promise!Next]_(Promise!vars)
<1> SUFFICES ASSUME TypeOK, Working, Holding, [Next]_vars PROVE [Promise!Next]_(Promise!vars)
  OBVIOUS
<1> DEFINE Sets(a, who) == by' = [by EXCEPT ![a] = who] /\ UNCHANGED disk
<1>a. ASSUME NEW a \in Adapter, NEW who \in {"user", "program"}, Sets(a, who)
      PROVE  Promise!Next
  <2>1. CASE who = "program"
    <3>1. Promise!Overwrite(a)
      BY <1>a, <2>1 DEF Promise!Overwrite
    <3> QED
      BY <3>1 DEF Promise!Next
  <2>2. CASE who = "user"
    <3>1. Promise!HandBack(a)
      BY <1>a, <2>2 DEF Promise!HandBack
    <3> QED
      BY <3>1 DEF Promise!Next
  <2> QED
    BY <2>1, <2>2
<1>b. UNCHANGED <<by, disk>> => UNCHANGED Promise!vars
  BY DEF Promise!vars
<1>c. ASSUME UNCHANGED by, phase # "off",
             \A a \in Adapter : Authentic(mem[a]) => Authentic(disk'[a])
      PROVE  Promise!Next
  <2>1. \A a \in Adapter : Authentic(disk[a]) /\ by[a] = "program" => Authentic(disk'[a])
    BY <1>c DEF Holding
  <2>2. [a \in Adapter |-> Authentic(disk'[a])] \in [Adapter -> BOOLEAN]
    BY DEF Authentic
  <2>3. Promise!Replace
    BY <1>c, <2>1, <2>2 DEF Promise!Replace
  <2> QED
    BY <2>3 DEF Promise!Next
<1>1. CASE Start \/ Toggle \/ CycleProvider \/ Heal \/ Quit \/ RevertAndQuit \/ CliApply
           \/ CliRevert \/ AllHandled \/ UNCHANGED vars
  BY <1>1, <1>b DEF Start, Toggle, CycleProvider, Heal, Quit, RevertAndQuit, CliApply,
                    CliRevert, AllHandled, vars, machine
<1>2. CASE Save
  BY <1>2, <1>c DEF Save, machine
<1>3. CASE SaveFails
  <2>1. UNCHANGED by /\ phase # "off"
    BY <1>3 DEF SaveFails, machine
  <2>2. disk' = disk \/ (mem = Empty /\ disk' = Empty)
    BY <1>3 DEF SaveFails
  <2> QED
    BY <1>b, <1>c, <2>1, <2>2
<1>4. CASE Crash
  <2>1. CASE UNCHANGED machine
    BY <1>4, <1>b, <2>1 DEF Crash, machine
  <2>2. ASSUME NEW a \in todo, Interrupted(a), phase = "apply" PROVE Promise!Next
    BY <1>4, <1>a, <2>2 DEF Interrupted, Crash, TypeOK
  <2>3. ASSUME NEW a \in todo, Interrupted(a), phase = "revert" PROVE Promise!Next
    <3>1. mem[a].by \in {"user", "program"} /\ a \in Adapter
      BY <2>3 DEF Working, TypeOK, Backup
    <3>2. PICK who \in {"user", "program"} : by' = [by EXCEPT ![a] = who]
      BY <2>3, <3>1 DEF Interrupted
    <3> QED
      BY <1>4, <1>a, <3>1, <3>2 DEF Crash
  <2> QED
    BY <1>4, <2>1, <2>2, <2>3 DEF Crash, Interrupted
<1>5. ASSUME NEW a \in Adapter, Skip(a) \/ SwitchFails(a) \/ AdapterGone(a)
      PROVE  [Promise!Next]_(Promise!vars)
  BY <1>5, <1>b DEF Skip, SwitchFails, AdapterGone, KeepBackup, machine
<1>6. ASSUME NEW a \in Adapter, Switch(a) PROVE Promise!Next
  BY <1>6, <1>a DEF Switch
<1>7. ASSUME NEW a \in Adapter, GiveBack(a) PROVE Promise!Next
  <2>1. mem[a].by \in {"user", "program"}
    BY <1>7 DEF GiveBack, Working, TypeOK, Backup
  <2> QED
    BY <1>7, <1>a, <2>1 DEF GiveBack
<1>8. ASSUME NEW a \in Adapter, GiveBackFails(a) PROVE [Promise!Next]_(Promise!vars)
  BY <1>8, <1>a, <1>b DEF GiveBackFails, KeepBackup
<1>9. ASSUME NEW a \in Adapter, Owner(a) PROVE Promise!Next
  BY <1>9, <1>a DEF Owner
<1> QED
  BY <1>1, <1>2, <1>3, <1>4, <1>5, <1>6, <1>7, <1>8, <1>9 DEF Next

\* The DNS group implements the promise of the archive, whatever fails and
\* wherever the process dies: what archive.json holds of the owner is given up
\* only once the adapter has it back (dns_ensure, restore_backup, save).
THEOREM ImplementsPromise == Spec => KeepsPromise
<1> DEFINE Inv == TypeOK /\ Working /\ Holding
<1>1. Init => Inv
  <2>1. Init => Holding
    BY DEF Init, Holding
  <2> QED
    BY <2>1, InitTyped
<1>2. Inv /\ [Next]_vars => Inv'
  BY NextTyped, NextHolding
<1>3. Inv /\ [Next]_vars => [Promise!Next]_(Promise!vars)
  BY StepPromise
<1>4. Init => Promise!Init
  BY DEF Init, Promise!Init, Authentic, Empty
<1> QED
  BY <1>1, <1>2, <1>3, <1>4, PTL DEF Spec, KeepsPromise, Promise!Spec

=============================================================================
