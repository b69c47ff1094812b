----------------------------- MODULE AppSessionProofs -----------------------------
(***************************************************************************)
(* Proofs about AppSession, for every set of groups and of settings, every  *)
(* set of groups the command line may set against the saved config, and any *)
(* number of sessions, profiles and failures.                               *)
(***************************************************************************)
EXTENDS AppSession, Integers, TLAPS

Live == (AnySetting \ {"off"}) \cup {"orig", "other"}

\* What is archived of a group that is off is accounted for: by the config in
\* memory while a session runs, by config.json while none does.
AccountedRunning ==
    Running => \A g \in Group : archive[g] /\ cfg[g] = "off" /\ g \notin doing => g \in stranded
AccountedAtRest ==
    ~Running => /\ archive = disk
                /\ \A g \in Group : disk[g] /\ saved[1][g] = "off" => g \in stranded
Accounted ==
    /\ doing # {} => pc = "operate"
    /\ AccountedRunning
    /\ AccountedAtRest

-----------------------------------------------------------------------------
\* What an operation on some groups leaves.

LEMMA OutcomesOf ==
  ASSUME NEW g \in Group, NEW s, live \in [Group -> Live], archive \in [Group -> BOOLEAN]
  PROVE  /\ \A o \in RevertOutcomes(g) :
              /\ o.live \in Live /\ o.kept \in BOOLEAN /\ o.saved \in BOOLEAN /\ o.ok \in BOOLEAN
              /\ (o.kept => archive[g]) /\ (o.ok => ~o.kept)
              /\ (o.ok /\ ~o.saved => ~archive[g] /\ g # Mtu)
         /\ s \in AnySetting \ {"off"} =>
              \A o \in ApplyOutcomes(g, s) :
                o.live \in Live /\ o.kept \in BOOLEAN /\ o.saved \in BOOLEAN /\ o.ok \in BOOLEAN
<1>1. live[g] \in Live /\ archive[g] \in BOOLEAN /\ {"orig", "other"} \subseteq Live
  BY DEF Live
<1>2. ASSUME NEW o \in RevertOutcomes(g)
      PROVE  /\ o.live \in Live /\ o.kept \in BOOLEAN /\ o.saved \in BOOLEAN /\ o.ok \in BOOLEAN
             /\ (o.kept => archive[g]) /\ (o.ok => ~o.kept)
             /\ (o.ok /\ ~o.saved => ~archive[g] /\ g # Mtu)
  <2> DEFINE restored == IF archive[g] THEN "orig" ELSE live[g]
  <2>1. restored \in Live
    BY <1>1
  <2>2. /\ \/ o = Outcome(restored, FALSE, TRUE, TRUE) \/ o = Outcome(restored, FALSE, FALSE, TRUE)
           \/ o = Outcome(live[g], archive[g], TRUE, FALSE) \/ o = Outcome(live[g], archive[g], FALSE, FALSE)
           \/ o = Outcome(restored, FALSE, FALSE, FALSE)
        /\ o.ok /\ ~o.saved => ~archive[g] /\ g # Mtu
    BY DEF RevertOutcomes
  <2> HIDE DEF restored
  <2>3. CASE o = Outcome(restored, FALSE, TRUE, TRUE)
    BY <2>1, <2>3 DEF Outcome
  <2>4. CASE o = Outcome(restored, FALSE, FALSE, TRUE)
    BY <2>1, <2>2, <2>4 DEF Outcome
  <2>5. CASE o = Outcome(live[g], archive[g], TRUE, FALSE)
    BY <1>1, <2>5 DEF Outcome
  <2>6. CASE o = Outcome(live[g], archive[g], FALSE, FALSE)
    BY <1>1, <2>6 DEF Outcome
  <2>7. CASE o = Outcome(restored, FALSE, FALSE, FALSE)
    BY <2>1, <2>7 DEF Outcome
  <2> QED
    BY <2>2, <2>3, <2>4, <2>5, <2>6, <2>7
<1>3. ASSUME s \in AnySetting \ {"off"}, NEW o \in ApplyOutcomes(g, s)
      PROVE  o.live \in Live /\ o.kept \in BOOLEAN /\ o.saved \in BOOLEAN /\ o.ok \in BOOLEAN
  <2>1. s \in Live
    BY <1>3 DEF Live
  <2>2. \/ o = Outcome(s, TRUE, TRUE, TRUE) \/ o = Outcome(s, TRUE, FALSE, TRUE)
        \/ o = Outcome(live[g], archive[g], FALSE, FALSE) \/ o = Outcome("other", TRUE, TRUE, FALSE)
        \/ o = Outcome("other", TRUE, FALSE, FALSE) \/ o = Outcome(s, TRUE, FALSE, FALSE)
    BY <1>3 DEF ApplyOutcomes
  <2>3. "other" \in Live
    BY <1>1
  <2>4. CASE o = Outcome(s, TRUE, TRUE, TRUE)
    BY <2>1, <2>4 DEF Outcome
  <2>5. CASE o = Outcome(s, TRUE, FALSE, TRUE)
    BY <2>1, <2>5 DEF Outcome
  <2>6. CASE o = Outcome(live[g], archive[g], FALSE, FALSE)
    BY <1>1, <2>6 DEF Outcome
  <2>7. CASE o = Outcome("other", TRUE, TRUE, FALSE)
    BY <2>3, <2>7 DEF Outcome
  <2>8. CASE o = Outcome("other", TRUE, FALSE, FALSE)
    BY <2>3, <2>8 DEF Outcome
  <2>9. CASE o = Outcome(s, TRUE, FALSE, FALSE)
    BY <2>1, <2>9 DEF Outcome
  <2> QED
    BY <2>2, <2>4, <2>5, <2>6, <2>7, <2>8, <2>9
<1> QED
  BY <1>2, <1>3

LEMMA Performed ==
  ASSUME NEW S \in SUBSET Group, NEW op, NEW extra \in {0, 1}, Perform(op, extra), TypeOK,
         DOMAIN op = S,
         \A g \in S : op[g].live \in Live /\ op[g].kept \in BOOLEAN
  PROVE  /\ live' \in [Group -> Live] /\ disk' \in [Group -> BOOLEAN] /\ failures' \in 0..MaxFailures
         /\ Memory(op) \in [Group -> BOOLEAN]
<1>0. /\ failures \in 0..MaxFailures /\ MaxFailures \in Nat
      /\ live \in [Group -> Live] /\ archive \in [Group -> BOOLEAN] /\ disk \in [Group -> BOOLEAN]
  BY SessionAssumption DEF TypeOK, Live
<1>1. failures' \in 0..MaxFailures
  <2>1. failures' = failures + extra + (IF AllOk(op) THEN 0 ELSE 1) /\ failures' <= MaxFailures
    BY DEF Perform
  <2> QED
    BY <1>0, <2>1
<1>2. live' \in [Group -> Live]
  BY <1>0 DEF Perform
<1>3. Memory(op) \in [Group -> BOOLEAN]
  BY <1>0 DEF Memory
<1>4. disk' \in Files(op)
  BY DEF Perform
<1>5. disk' \in [Group -> BOOLEAN]
  <2>1. CASE \E g \in S : op[g].saved
    <3>1. PICK early \in SUBSET {g \in S : ~op[g].saved} :
            disk' = [g \in Group |-> IF g \in early THEN archive[g] ELSE Memory(op)[g]]
      BY <1>4, <2>1 DEF Files
    <3> QED
      BY <1>0, <1>3, <3>1
  <2>2. CASE ~\E g \in S : op[g].saved
    BY <1>0, <1>4, <2>2 DEF Files
  <2> QED
    BY <2>1, <2>2
<1> QED
  BY <1>1, <1>2, <1>3, <1>5

\* One group: archive.json has of it what it had, what memory had, or what memory has
\* now; after a save, what memory had only if the group itself did not save.
LEMMA PerformedOn ==
  ASSUME NEW S \in SUBSET Group, NEW op, NEW extra, Perform(op, extra), DOMAIN op = S, NEW g \in Group
  PROVE  /\ g \in S => Memory(op)[g] = op[g].kept
         /\ g \notin S => Memory(op)[g] = archive[g]
         /\ disk'[g] \in {disk[g], archive[g], Memory(op)[g]}
         /\ (\E h \in S : op[h].saved) =>
              disk'[g] = Memory(op)[g] \/ (g \in S /\ ~op[g].saved /\ disk'[g] = archive[g])
<1>1. /\ g \in S => Memory(op)[g] = op[g].kept
      /\ g \notin S => Memory(op)[g] = archive[g]
  BY DEF Memory
<1>2. disk' \in Files(op)
  BY DEF Perform
<1>3. CASE \E h \in S : op[h].saved
  <2>1. PICK early \in SUBSET {h \in S : ~op[h].saved} :
          disk' = [h \in Group |-> IF h \in early THEN archive[h] ELSE Memory(op)[h]]
    BY <1>2, <1>3 DEF Files
  <2> QED
    BY <1>1, <2>1
<1>4. CASE ~\E h \in S : op[h].saved
  <2>1. disk' = disk
    BY <1>2, <1>4 DEF Files
  <2> QED
    BY <1>1, <1>4, <2>1
<1> QED
  BY <1>3, <1>4

\* The groups of an apply are on, so what it archives is of groups that are on.
LEMMA AppliesGroups ==
  ASSUME TypeOK, NEW S \in SUBSET Group, NEW c, \A g \in S : c[g] \in AnySetting \ {"off"},
         NEW op \in Applying(S, c), Perform(op, 0)
  PROVE  /\ live' \in [Group -> Live] /\ disk' \in [Group -> BOOLEAN] /\ failures' \in 0..MaxFailures
         /\ Memory(op) \in [Group -> BOOLEAN] /\ AllOk(op) \in BOOLEAN
         /\ \A g \in Group \ S : Memory(op)[g] = archive[g] /\ disk'[g] \in {disk[g], archive[g]}
<1>1. DOMAIN op = S /\ \A g \in S : op[g] \in ApplyOutcomes(g, c[g])
  BY DEF Applying
<1>2. live \in [Group -> Live] /\ archive \in [Group -> BOOLEAN]
  BY DEF TypeOK, Live
<1>3. \A g \in S : op[g].live \in Live /\ op[g].kept \in BOOLEAN
  BY <1>1, <1>2, OutcomesOf
<1>4. /\ live' \in [Group -> Live] /\ disk' \in [Group -> BOOLEAN] /\ failures' \in 0..MaxFailures
      /\ Memory(op) \in [Group -> BOOLEAN]
  BY <1>1, <1>3, Performed
<1>5. ASSUME NEW g \in Group \ S PROVE Memory(op)[g] = archive[g] /\ disk'[g] \in {disk[g], archive[g]}
  BY <1>1, PerformedOn
<1> QED
  BY <1>4, <1>5 DEF AllOk

\* A revert archives nothing, and one that failed nowhere has drained its groups; what it
\* then leaves on disk was in memory, of other groups, provided that mtu is one of its own.
LEMMA RevertsGroups ==
  ASSUME TypeOK, NEW S \in SUBSET Group, NEW op \in Reverting(S), Perform(op, 0)
  PROVE  /\ live' \in [Group -> Live] /\ disk' \in [Group -> BOOLEAN] /\ failures' \in 0..MaxFailures
         /\ Memory(op) \in [Group -> BOOLEAN] /\ AllOk(op) \in BOOLEAN
         /\ \A g \in Group : (Memory(op)[g] => archive[g]) /\ (disk'[g] => disk[g] \/ archive[g])
         /\ \A g \in Group \ S : Memory(op)[g] = archive[g]
         /\ AllOk(op) /\ Mtu \in S => \A g \in Group : disk'[g] => g \notin S /\ archive[g]
<1>1. DOMAIN op = S /\ \A g \in S : op[g] \in RevertOutcomes(g)
  BY DEF Reverting
<1>2. live \in [Group -> Live] /\ archive \in [Group -> BOOLEAN]
  BY DEF TypeOK, Live
<1>3. \A g \in S : /\ op[g].live \in Live /\ op[g].kept \in BOOLEAN
                   /\ (op[g].kept => archive[g]) /\ (op[g].ok => ~op[g].kept)
                   /\ (op[g].ok /\ ~op[g].saved => ~archive[g] /\ g # Mtu)
  BY <1>1, <1>2, OutcomesOf
<1>4. /\ live' \in [Group -> Live] /\ disk' \in [Group -> BOOLEAN] /\ failures' \in 0..MaxFailures
      /\ Memory(op) \in [Group -> BOOLEAN]
  BY <1>1, <1>3, Performed
<1>5. ASSUME NEW g \in Group
      PROVE  /\ Memory(op)[g] => archive[g]
             /\ disk'[g] => disk[g] \/ archive[g]
             /\ g \notin S => Memory(op)[g] = archive[g]
  <2>1. /\ g \in S => Memory(op)[g] = op[g].kept
        /\ g \notin S => Memory(op)[g] = archive[g]
        /\ disk'[g] \in {disk[g], archive[g], Memory(op)[g]}
    BY <1>1, PerformedOn
  <2>2. Memory(op)[g] => archive[g]
    BY <1>3, <2>1
  <2> QED
    BY <2>1, <2>2
<1>6. ASSUME AllOk(op), Mtu \in S, NEW g \in Group, disk'[g] PROVE g \notin S /\ archive[g]
  <2>1. \A h \in S : op[h].ok
    BY <1>1, <1>6 DEF AllOk
  <2>2. op[Mtu].saved
    BY <1>3, <1>6, <2>1
  <2>3. disk'[g] = Memory(op)[g] \/ (g \in S /\ ~op[g].saved /\ disk'[g] = archive[g])
    BY <1>1, <1>6, <2>2, PerformedOn
  <2>4. g \in S => Memory(op)[g] = op[g].kept
    BY <1>1, PerformedOn
  <2>5. CASE g \in S
    <3>1. ~op[g].kept /\ (~op[g].saved => ~archive[g])
      BY <1>3, <2>1, <2>5
    <3> QED
      BY <1>6, <2>3, <2>4, <2>5, <3>1
  <2>6. CASE g \notin S
    BY <1>5, <1>6, <2>3, <2>6
  <2> QED
    BY <2>5, <2>6
<1> QED
  BY <1>4, <1>5, <1>6 DEF AllOk

LEMMA NextSetting ==
  ASSUME NEW g \in Group, NEW s \in Setting[g]
  PROVE  NextInCycle(g, s) \in Setting[g]
<1> DEFINE n == Len(Cycle[g])
           at == {j \in DOMAIN Cycle[g] : Cycle[g][j] = s}
           i == IF at = {} THEN 1 ELSE CHOOSE j \in at : TRUE
<1>1. n \in Nat /\ n > 1 /\ DOMAIN Cycle[g] = 1..n
  BY SessionAssumption
<1>2. i \in Nat
  BY <1>1
<1> HIDE DEF n, i
<1>3. (i % n) + 1 \in 1..n
  BY <1>1, <1>2
<1>4. Cycle[g] \in Seq(Setting[g])
  BY SessionAssumption
<1>5. Cycle[g][(i % n) + 1] \in Setting[g]
  BY <1>1, <1>3, <1>4
<1> QED
  BY <1>5 DEF NextInCycle, n, i

-----------------------------------------------------------------------------
\* Every step.

LEMMA InitTyped == Init => TypeOK /\ Accounted
<1> SUFFICES ASSUME Init PROVE TypeOK /\ Accounted
  OBVIOUS
<1>1. {error, confirming, removes, quit, exitFlag, due, saveFailed} \subseteq BOOLEAN
  BY DEF Init
<1>2. failures \in 0..MaxFailures
  BY SessionAssumption DEF Init
<1>3. {archive, disk, seen} \subseteq [Group -> BOOLEAN]
  BY DEF Init
<1>4. TypeOK
  BY <1>1, <1>2, <1>3 DEF Init, TypeOK
<1>5. ~Running /\ doing = {} /\ archive = disk /\ \A g \in Group : ~disk[g]
  BY DEF Init, Running
<1> QED
  BY <1>4, <1>5 DEF Accounted, AccountedRunning, AccountedAtRest

LEMMA NextTyped == TypeOK /\ Accounted /\ [Next]_vars => (TypeOK /\ Accounted)'
<1> SUFFICES ASSUME TypeOK, Accounted, [Next]_vars PROVE TypeOK' /\ Accounted'
  OBVIOUS
<1>0. /\ cfg \in Configs /\ selfHeal \in BOOLEAN /\ saved \in Configs \X BOOLEAN
      /\ saved[1] \in Configs /\ saved[2] \in BOOLEAN
      /\ live \in [Group -> Live] /\ archive \in [Group -> BOOLEAN] /\ disk \in [Group -> BOOLEAN]
      /\ failures \in 0..MaxFailures /\ doing \subseteq Group /\ stranded \subseteq Group
  BY DEF TypeOK, Live
<1> DEFINE Machine == /\ live' \in [Group -> Live] /\ archive' \in [Group -> BOOLEAN]
                      /\ disk' \in [Group -> BOOLEAN] /\ failures' \in 0..MaxFailures
           Config == cfg' \in Configs /\ selfHeal' \in BOOLEAN /\ saved' \in Configs \X BOOLEAN
           Flags == /\ {error', confirming', removes', quit', exitFlag', due', saveFailed'} \subseteq BOOLEAN
                    /\ doing' \subseteq Group /\ stranded' \subseteq Group
           Rest == /\ seen' \in [Group -> BOOLEAN]
                   /\ screen' \in {"none", "ERROR", "PENDING", "READY", "PROTECTED", "ACTIVE"}
                   /\ pc' \in {"off", "profile", "top", "poll", "operate", "tick", "draw", "leave",
                               "refreshThenPoll", "refreshThenDraw"}
                   /\ answer' \in {"none", "keep", "revert"}
                   /\ farewell' \in {"none", "kept", "removed"}
<1>a. Machine /\ Config /\ Flags /\ Rest => TypeOK'
  BY DEF TypeOK, Live
<1>b. ASSUME UNCHANGED <<config, archive, disk, doing, stranded>>, Running' = Running,
             pc = "operate" => pc' = "operate"
      PROVE  Accounted'
  BY <1>b DEF Accounted, AccountedRunning, AccountedAtRest, config
<1>c. UNCHANGED machine => Machine
  BY <1>0 DEF machine
<1>d. UNCHANGED config => Config
  BY <1>0 DEF config
<1>e. pc # "operate" => doing = {}
  BY DEF Accounted
\* A session that ends with this archive in memory.
<1>f. ASSUME NEW memory \in [Group -> BOOLEAN], Off(memory), UNCHANGED config, disk' \in [Group -> BOOLEAN],
             \A g \in Group : memory[g] => archive[g], Running
      PROVE  Accounted'
  <2>1. doing' = {} /\ ~Running' /\ archive' = disk' /\ saved' = saved
    BY <1>f DEF Off, Running, config
  <2>2. ASSUME NEW g \in Group, disk'[g], saved[1][g] = "off" PROVE g \in stranded'
    <3>1. CASE g \in LeftBehind(memory)
      BY <1>f, <3>1 DEF Off
    <3>2. CASE g \notin LeftBehind(memory)
      <4>1. g \notin doing /\ cfg[g] = "off" /\ memory[g]
        BY <2>2, <3>2 DEF LeftBehind, On
      <4> QED
        BY <1>f, <4>1 DEF Off, Accounted, AccountedRunning
    <3> QED
      BY <3>1, <3>2
  <2> QED
    BY <2>1, <2>2 DEF Accounted, AccountedRunning, AccountedAtRest
<1>1. CASE Start
  <2> DEFINE S == EnabledIn(saved[1])
  <2>1. PICK op \in Applying(S, saved[1]) :
          Perform(op, 0) /\ archive' = Memory(op) /\ error' = ~AllOk(op)
    BY <1>1 DEF Start
  <2>2. S \in SUBSET Group /\ \A g \in S : saved[1][g] \in AnySetting \ {"off"}
    BY <1>0 DEF Configs, EnabledIn
  <2> HIDE DEF S
  <2>3. Machine /\ AllOk(op) \in BOOLEAN /\ \A g \in Group \ S : archive'[g] = archive[g]
    <3>1. ASSUME NEW g \in Group \ S PROVE archive'[g] = archive[g]
      <4>1. DOMAIN op = S
        BY DEF Applying
      <4>2. Memory(op)[g] = archive[g]
        BY <2>1, <2>2, <4>1, PerformedOn
      <4> QED
        BY <2>1, <4>2
    <3>2. Machine /\ AllOk(op) \in BOOLEAN
      BY <2>1, <2>2, AppliesGroups
    <3> QED
      BY <3>1, <3>2
  <2>4. /\ Config /\ cfg' = saved[1] /\ doing' = doing /\ stranded' = stranded
        /\ pc = "off" /\ pc' = "refreshThenDraw"
    BY <1>0, <1>1 DEF Start, toggle
  <2>5. Flags /\ Rest
    BY <1>0, <1>1, <2>1, <2>3 DEF Start, toggle, TypeOK
  <2>6. AccountedRunning'
    <3> SUFFICES ASSUME NEW g \in Group, archive'[g], cfg'[g] = "off" PROVE g \in stranded
      BY <2>4 DEF AccountedRunning
    <3> QED
      BY <2>3, <2>4 DEF S, EnabledIn, Accounted, AccountedAtRest, Running
  <2>7. Accounted'
    BY <1>e, <2>4, <2>6 DEF Accounted, AccountedAtRest, Running
  <2> QED
    BY <1>a, <2>3, <2>4, <2>5, <2>7
<1>2. CASE Crash
  <2>1. Flags /\ Rest
    BY <1>0, <1>2 DEF Crash, Off, LeftBehind, TypeOK
  <2>2. Machine /\ UNCHANGED <<config, disk>>
    BY <1>0, <1>2 DEF Crash, Off
  <2>3. Accounted'
    BY <1>0, <1>2, <1>f, <2>2 DEF Crash
  <2> QED
    BY <1>a, <1>d, <2>1, <2>2, <2>3
<1>3. CASE CliApply
  <2>1. PICK c \in Configs :
          /\ \E op \in Applying(EnabledIn(c), c) : Perform(op, 0)
          /\ stranded' = stranded \cup (EnabledIn(c) \ EnabledIn(saved[1]))
    BY <1>3 DEF CliApply
  <2> DEFINE S == EnabledIn(c)
  <2>2. PICK op \in Applying(S, c) : Perform(op, 0)
    BY <2>1
  <2>3. S \in SUBSET Group /\ \A g \in S : c[g] \in AnySetting \ {"off"}
    BY DEF Configs, EnabledIn
  <2> HIDE DEF S
  <2>4. /\ live' \in [Group -> Live] /\ disk' \in [Group -> BOOLEAN] /\ failures' \in 0..MaxFailures
        /\ \A g \in Group \ S : disk'[g] \in {disk[g], archive[g]}
    BY <2>2, <2>3, AppliesGroups
  <2>5. archive' = disk' /\ UNCHANGED config /\ doing' = doing /\ ~Running /\ pc' = "off"
    BY <1>3 DEF CliApply
  <2>6. Flags /\ Rest
    BY <1>0, <1>3, <2>1, <2>3 DEF CliApply, exits, TypeOK, S
  <2>7. AccountedAtRest'
    <3> SUFFICES ASSUME NEW g \in Group, disk'[g], saved[1][g] = "off" PROVE g \in stranded'
      BY <2>5 DEF AccountedAtRest, config
    <3>1. CASE g \in S
      BY <2>1, <3>1 DEF S, EnabledIn
    <3>2. CASE g \notin S
      BY <2>1, <2>4, <2>5, <3>2 DEF Accounted, AccountedAtRest
    <3> QED
      BY <3>1, <3>2
  <2>8. Accounted'
    BY <1>e, <2>5, <2>7 DEF Accounted, AccountedRunning, Running
  <2> QED
    BY <1>a, <1>d, <2>4, <2>5, <2>6, <2>8
<1>4. CASE ProfileSave
  <2>1. /\ pc = "off" /\ UNCHANGED <<cfg, selfHeal, live, archive, disk, doing>> /\ pc' \in {"off", "profile"}
        /\ failures' \in 0..MaxFailures
    BY <1>0, <1>4, SessionAssumption DEF ProfileSave
  <2>2. saved' \in Configs \X BOOLEAN /\ stranded' \subseteq Group
    BY <1>0, <1>4 DEF ProfileSave, EnabledIn
  <2>3. Machine /\ Config
    BY <1>0, <2>1, <2>2
  <2>4. Flags /\ Rest
    BY <1>0, <1>4, <2>1, <2>2 DEF ProfileSave, exits, TypeOK
  <2>5. AccountedAtRest'
    <3> SUFFICES ASSUME NEW g \in Group, disk[g], saved'[1][g] = "off" PROVE g \in stranded'
      BY <2>1 DEF Accounted, AccountedAtRest, Running
    <3>1. saved[1][g] = "off" => g \in stranded
      BY <2>1 DEF Accounted, AccountedAtRest, Running
    <3> QED
      BY <1>4, <3>1 DEF ProfileSave, EnabledIn
  <2>6. Accounted'
    BY <1>e, <2>1, <2>5 DEF Accounted, AccountedRunning, Running
  <2> QED
    BY <1>a, <2>3, <2>4, <2>6
<1>5. CASE ProfileDies
  <2>1. Flags /\ Rest
    BY <1>0, <1>5 DEF ProfileDies, exits, toggle, TypeOK
  <2>2. UNCHANGED <<config, machine, doing, stranded>> /\ Running' = Running /\ pc # "operate"
    BY <1>5 DEF ProfileDies, toggle, Running
  <2> QED
    BY <1>a, <1>b, <1>c, <1>d, <2>1, <2>2 DEF machine
<1>6. CASE CliRevert
  <2>1. PICK op \in Reverting(Group) : Perform(op, 0)
    BY <1>6 DEF CliRevert
  <2>2. /\ live' \in [Group -> Live] /\ disk' \in [Group -> BOOLEAN] /\ failures' \in 0..MaxFailures
        /\ \A g \in Group : disk'[g] => disk[g] \/ archive[g]
    BY <2>1, RevertsGroups
  <2>3. /\ archive' = disk' /\ UNCHANGED config /\ doing' = doing /\ pc = "off" /\ pc' = "off"
        /\ stranded' = {g \in stranded : disk'[g]}
    BY <1>6 DEF CliRevert
  <2>4. Flags /\ Rest
    BY <1>0, <1>6, <2>3 DEF CliRevert, exits, TypeOK
  <2>5. archive = disk /\ \A g \in Group : disk[g] /\ saved[1][g] = "off" => g \in stranded
    BY <2>3 DEF Accounted, AccountedAtRest, Running
  <2>6. \A g \in Group : disk'[g] => disk[g]
    BY <2>2, <2>5
  <2>7. Accounted'
    BY <1>e, <2>3, <2>5, <2>6 DEF Accounted, AccountedRunning, AccountedAtRest, Running, config
  <2> QED
    BY <1>a, <1>d, <2>2, <2>3, <2>4, <2>7
<1>7. ASSUME NEW g \in Group, ToggleGroup(g) PROVE TypeOK' /\ Accounted'
  <2>1. PICK saveOk \in BOOLEAN : /\ SaveConfig(saveOk) /\ saveFailed' = ~saveOk
                                  /\ Perform(<<>>, IF saveOk THEN 0 ELSE 1)
    BY <1>7 DEF ToggleGroup
  <2>2. /\ cfg' = [cfg EXCEPT ![g] = NextInCycle(g, cfg[g])] /\ selfHeal' = selfHeal /\ archive' = archive
        /\ doing' = {g} /\ stranded' = stranded /\ pc = "poll" /\ pc' = "operate"
    BY <1>7 DEF ToggleGroup, Key
  <2>3. cfg' \in Configs
    <3>1. cfg[g] \in Setting[g]
      BY <1>0 DEF Configs
    <3>2. NextInCycle(g, cfg[g]) \in Setting[g]
      BY <3>1, NextSetting
    <3> QED
      <4>1. ASSUME NEW h \in Group PROVE cfg'[h] \in Setting[h]
        BY <1>0, <2>2, <3>2, <4>1 DEF Configs
      <4>2. DOMAIN cfg' = Group /\ cfg' = [h \in Group |-> cfg'[h]]
        BY <1>0, <2>2 DEF Configs
      <4> QED
        BY <4>1, <4>2 DEF Configs, AnySetting
  <2>4. Config
    BY <1>0, <2>1, <2>2, <2>3 DEF SaveConfig
  <2> DEFINE extra == IF saveOk THEN 0 ELSE 1
  <2>5. extra \in {0, 1} /\ Perform(<<>>, extra)
    BY <2>1
  <2>6. Machine
    <3> HIDE DEF extra
    <3>1. DOMAIN <<>> = {} /\ {} \in SUBSET Group
      OBVIOUS
    <3> QED
      BY <1>0, <2>2, <2>5, <3>1, Performed
  <2>7. Flags /\ Rest
    BY <1>0, <1>7, <2>1, <2>2 DEF ToggleGroup, exits, TypeOK
  <2>8. AccountedRunning'
    <3> SUFFICES ASSUME NEW h \in Group, archive[h], cfg'[h] = "off", h # g PROVE h \in stranded
      BY <2>2 DEF AccountedRunning
    <3> QED
      BY <1>0, <1>e, <2>2 DEF Configs, Accounted, AccountedRunning, Running
  <2>9. Accounted'
    BY <2>2, <2>8 DEF Accounted, AccountedAtRest, Running
  <2> QED
    BY <1>a, <2>4, <2>6, <2>7, <2>9
<1>8. CASE Operate
  <2>1. PICK op \in IF doing \subseteq EnabledIn(cfg) THEN Applying(doing, cfg) ELSE Reverting(doing) :
          Perform(op, 0) /\ archive' = Memory(op) /\ error' = (saveFailed \/ ~AllOk(op))
    BY <1>8 DEF Operate
  <2>2. /\ Machine /\ AllOk(op) \in BOOLEAN
        /\ \A g \in Group \ doing : archive'[g] = archive[g]
    <3>1. CASE doing \subseteq EnabledIn(cfg)
      <4>1. op \in Applying(doing, cfg) /\ Perform(op, 0) /\ 0 \in {0, 1}
        BY <2>1, <3>1
      <4>2. \A g \in doing : cfg[g] \in AnySetting \ {"off"}
        BY <1>0, <3>1 DEF EnabledIn, Configs
      <4> QED
        BY <1>0, <2>1, <4>1, <4>2, AppliesGroups
    <3>2. CASE ~(doing \subseteq EnabledIn(cfg))
      <4>1. op \in Reverting(doing) /\ Perform(op, 0) /\ 0 \in {0, 1}
        BY <2>1, <3>2
      <4> QED
        BY <1>0, <2>1, <4>1, RevertsGroups
    <3> QED
      BY <3>1, <3>2
  <2>3. /\ UNCHANGED config /\ doing' = {} /\ pc = "operate" /\ pc' = "refreshThenPoll"
        /\ stranded' = {g \in stranded \cup doing : g \in doing => ~On(g) /\ archive'[g]}
    BY <1>8 DEF Operate
  <2>4. Flags /\ Rest
    BY <1>0, <1>8, <2>1, <2>2, <2>3 DEF Operate, exits, TypeOK
  <2>5. AccountedRunning'
    <3> SUFFICES ASSUME NEW g \in Group, archive'[g], cfg[g] = "off" PROVE g \in stranded'
      BY <2>3 DEF AccountedRunning, config
    <3> QED
      BY <2>2, <2>3 DEF Accounted, AccountedRunning, Running, On
  <2>6. Accounted'
    BY <2>3, <2>5 DEF Accounted, AccountedAtRest, Running
  <2> QED
    BY <1>a, <1>d, <2>2, <2>3, <2>4, <2>6
<1>9. CASE ToggleSelfHeal
  <2>1. PICK saveOk \in BOOLEAN : /\ SaveConfig(saveOk)
                                  /\ Perform(<<>>, IF saveOk THEN 0 ELSE 1)
                                  /\ error' = (error \/ ~saveOk)
    BY <1>9 DEF ToggleSelfHeal
  <2> DEFINE extra == IF saveOk THEN 0 ELSE 1
  <2>2. extra \in {0, 1} /\ Perform(<<>>, extra)
    BY <2>1
  <2>3. selfHeal' = ~selfHeal /\ cfg' = cfg /\ UNCHANGED <<archive, toggle>> /\ pc' = pc /\ pc = "poll"
    BY <1>9 DEF ToggleSelfHeal, Key
  <2>4. Machine
    <3> HIDE DEF extra
    <3>1. DOMAIN <<>> = {} /\ {} \in SUBSET Group
      OBVIOUS
    <3> QED
      BY <1>0, <2>2, <2>3, <3>1, Performed
  <2>5. Config
    BY <1>0, <2>1, <2>3 DEF SaveConfig
  <2>6. Flags /\ Rest
    BY <1>0, <1>9, <2>1 DEF ToggleSelfHeal, exits, toggle, TypeOK
  <2>7. Accounted'
    BY <2>3 DEF Accounted, AccountedRunning, AccountedAtRest, Running, toggle
  <2> QED
    BY <1>a, <2>4, <2>5, <2>6, <2>7
<1>10. CASE OtherKey
  <2>1. Machine /\ UNCHANGED <<config, archive, disk, toggle>> /\ pc' = pc
    BY <1>0, <1>10, SessionAssumption DEF OtherKey
  <2>2. Flags /\ Rest
    BY <1>0, <1>10 DEF OtherKey, exits, toggle, TypeOK
  <2>3. Running' = Running
    BY <2>1 DEF Running
  <2> QED
    BY <1>a, <1>b, <1>d, <2>1, <2>2, <2>3 DEF toggle
<1>11. CASE AskExit(TRUE) \/ AskExit(FALSE) \/ AnswerYes \/ AnswerNo
  <2>1. Flags /\ Rest
    BY <1>0, <1>11 DEF AskExit, AnswerYes, AnswerNo, toggle, TypeOK
  <2>2. UNCHANGED <<config, machine, toggle, pc>>
    BY <1>11 DEF AskExit, AnswerYes, AnswerNo
  <2>3. Running' = Running
    BY <2>2 DEF Running
  <2> QED
    BY <1>a, <1>b, <1>c, <1>d, <2>1, <2>2, <2>3 DEF machine, toggle
<1>12. CASE Top \/ PollDone \/ TickIdle \/ Refresh \/ Draw \/ Clock \/ CtrlC \/ UNCHANGED vars
  <2>1. Flags /\ Rest
    <3>1. CASE Refresh
      BY <1>0, <3>1 DEF Refresh, AlignedNow, exits, toggle, TypeOK
    <3>2. CASE Draw
      BY <1>0, <3>2 DEF Draw, OverallState, exits, toggle, TypeOK
    <3>3. CASE Top \/ PollDone \/ TickIdle
      BY <1>0, <3>3 DEF Top, PollDone, Go, TickIdle, exits, toggle, TypeOK
    <3>4. CASE Clock \/ CtrlC \/ UNCHANGED vars
      BY <1>0, <3>4 DEF Clock, CtrlC, vars, exits, toggle, TypeOK
    <3> QED
      BY <1>12, <3>1, <3>2, <3>3, <3>4
  <2>2. UNCHANGED <<config, machine, toggle>>
    BY <1>12 DEF Top, PollDone, Go, TickIdle, Refresh, Draw, Clock, CtrlC, vars
  <2>3. Running' = Running /\ (pc = "operate" => pc' = "operate")
    BY <1>12 DEF Top, PollDone, Go, TickIdle, Refresh, Draw, Clock, CtrlC, vars, Running
  <2> QED
    BY <1>a, <1>b, <1>c, <1>d, <2>1, <2>2, <2>3 DEF machine, toggle
<1>13. CASE Heal
  <2>1. PICK op \in Applying(ToHeal, cfg) :
          Perform(op, 0) /\ archive' = Memory(op) /\ error' = ~AllOk(op)
    BY <1>13 DEF Heal
  <2>2. ToHeal \in SUBSET Group /\ \A g \in ToHeal : On(g) /\ cfg[g] \in AnySetting \ {"off"}
    BY <1>0 DEF ToHeal, On, Configs
  <2>3. /\ Machine /\ AllOk(op) \in BOOLEAN
        /\ \A g \in Group \ ToHeal : archive'[g] = archive[g]
    <3>1. ASSUME NEW g \in Group \ ToHeal PROVE archive'[g] = archive[g]
      <4>1. DOMAIN op = ToHeal
        BY DEF Applying
      <4>2. Memory(op)[g] = archive[g]
        BY <2>1, <2>2, <4>1, PerformedOn
      <4> QED
        BY <2>1, <4>2
    <3>2. Machine /\ AllOk(op) \in BOOLEAN
      BY <2>1, <2>2, AppliesGroups
    <3> QED
      BY <3>1, <3>2
  <2>4. Flags /\ Rest
    BY <1>0, <1>13, <2>1, <2>3 DEF Heal, exits, toggle, TypeOK
  <2>5. UNCHANGED <<config, toggle>> /\ pc = "tick" /\ pc' = "refreshThenDraw"
    BY <1>13 DEF Heal
  <2>6. AccountedRunning'
    <3> SUFFICES ASSUME NEW g \in Group, archive'[g], cfg[g] = "off", g \notin doing PROVE g \in stranded
      BY <2>5 DEF AccountedRunning, config, toggle
    <3> QED
      BY <2>2, <2>3, <2>5 DEF Accounted, AccountedRunning, Running, On
  <2>7. Accounted'
    BY <1>e, <2>5, <2>6 DEF Accounted, AccountedAtRest, Running, toggle
  <2> QED
    BY <1>a, <1>d, <2>3, <2>4, <2>5, <2>7
<1>14. CASE Leave
  <2>1. PICK memory \in [Group -> BOOLEAN] :
          /\ Off(memory)
          /\ \A g \in Group : memory[g] => archive[g]
          /\ live' \in [Group -> Live] /\ disk' \in [Group -> BOOLEAN] /\ failures' \in 0..MaxFailures
          /\ error' \in BOOLEAN
    <3>1. CASE UNCHANGED <<live, disk, failures, error>> /\ Off(archive)
      BY <1>0, <3>1 DEF TypeOK
    <3>2. CASE \E op \in Reverting(RevertedOnExit) :
                 Perform(op, 0) /\ Off(Memory(op)) /\ error' = ~AllOk(op)
      <4>1. PICK op \in Reverting(RevertedOnExit) :
              Perform(op, 0) /\ Off(Memory(op)) /\ error' = ~AllOk(op)
        BY <3>2
      <4>2. RevertedOnExit \in SUBSET Group
        BY DEF RevertedOnExit
      <4> QED
        BY <4>1, <4>2, RevertsGroups
    <3> QED
      BY <1>14, <3>1, <3>2 DEF Leave
  <2>2. UNCHANGED <<config, seen>> /\ Running /\ farewell' \in {"none", "kept", "removed"}
    BY <1>14 DEF Leave, Running
  <2>3. Flags /\ Rest
    BY <1>0, <2>1, <2>2 DEF Off, LeftBehind, TypeOK
  <2>4. Machine
    BY <2>1 DEF Off
  <2>5. Accounted'
    BY <1>f, <2>1, <2>2
  <2> QED
    BY <1>a, <1>d, <2>2, <2>3, <2>4, <2>5
<1>15. ASSUME NEW g \in Group, Drift(g) PROVE TypeOK' /\ Accounted'
  <2>1. Machine
    BY <1>0, <1>15 DEF Drift, Live
  <2>2. Flags /\ Rest
    BY <1>0, <1>15 DEF Drift, exits, toggle, TypeOK
  <2>3. UNCHANGED <<config, archive, disk, toggle, pc>>
    BY <1>15 DEF Drift
  <2>4. Running' = Running
    BY <2>3 DEF Running
  <2> QED
    BY <1>a, <1>b, <1>d, <2>1, <2>2, <2>3, <2>4 DEF toggle
<1> QED
  BY <1>1, <1>2, <1>3, <1>4, <1>5, <1>6, <1>7, <1>8, <1>9, <1>10, <1>11, <1>12, <1>13, <1>14, <1>15
     DEF Next

\* The variables keep their types through sessions, crashes and failures: a key steps
\* from one setting of its group to the next, also from one its cycle does not have
\* (next_in_cycle).
THEOREM TypeCorrect == Spec => []TypeOK
BY InitTyped, NextTyped, PTL DEF Spec

\* A session that says it removed the tweaks and warns of nothing has left in archive.json
\* only entries of groups that are off and were switched off, by a key, a profile or the
\* end of an --apply, without a revert that drained them; none of mtu (revert_all,
\* toggle_tcp and its like, run_profile).
THEOREM RemovalDrains == Spec => RemovesOwed
<1>1. TypeOK /\ Accounted /\ [Next]_vars =>
        [Removed /\ ~error' => \A g \in Group : disk'[g] => g # Mtu /\ ~On(g) /\ g \in stranded]_vars
  <2> SUFFICES ASSUME TypeOK, Accounted, [Next]_vars, Removed, ~error', NEW g \in Group, disk'[g]
               PROVE  g # Mtu /\ ~On(g) /\ g \in stranded
    OBVIOUS
  <2>1. Leave /\ removes
    BY DEF Removed, Next, vars, Start, Crash, CliApply, ProfileSave, ProfileDies, CliRevert, ToggleGroup,
       Operate, Drift, ToggleSelfHeal, OtherKey, AskExit, AnswerYes, AnswerNo, Top, PollDone, Go,
       TickIdle, Heal, Refresh, Draw, Clock, CtrlC, Leave
  <2>2. PICK op \in Reverting(RevertedOnExit) : Perform(op, 0) /\ error' = ~AllOk(op)
    BY <2>1 DEF Leave
  <2>3. RevertedOnExit \in SUBSET Group /\ Mtu \in RevertedOnExit
    BY SessionAssumption DEF RevertedOnExit
  <2>4. AllOk(op)
    <3>1. AllOk(op) \in BOOLEAN
      BY <2>2, <2>3, RevertsGroups
    <3> QED
      BY <2>2, <3>1
  <2>5. g \notin RevertedOnExit /\ archive[g]
    BY <2>2, <2>3, <2>4, RevertsGroups
  <2>6. doing = {} /\ Running
    BY <2>1 DEF Leave, Accounted, Running
  <2> QED
    BY <2>5, <2>6 DEF RevertedOnExit, On, Accounted, AccountedRunning
<1> QED
  BY <1>1, InitTyped, NextTyped, PTL DEF Spec, RemovesOwed

=============================================================================
