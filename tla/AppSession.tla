------------------------------ MODULE AppSession ------------------------------
(***************************************************************************)
(* The interactive session (app.rs): one thread that polls keys, heals     *)
(* drifted groups when five seconds have passed, draws the status line and *)
(* leaves, reverting everything if the user asked for that.  Sessions come *)
(* and go on one machine: they end, crash, start again with the saved      *)
(* config, and --apply, --profile apply and --revert may run in between.   *)
(*                                                                         *)
(* A group is handled as a whole here; TweakGroups says what apply and     *)
(* revert do value by value.  A group that is a switch has the cycle       *)
(* <<"off", "on">>; mtu cycles through its sizes, and a profile may give   *)
(* it one its key does not step through.                                   *)
(***************************************************************************)
EXTENDS Naturals, Sequences

CONSTANTS
    Group,        \* the tweak groups
    Mtu,          \* the group revert_all never skips and render reads live
    Setting,      \* Setting[g]: the settings a config can hold for it
    Cycle,        \* Cycle[g]: those its key steps through, from "off"
    Overridable,  \* groups the command line can set against the saved config
    MaxFailures   \* bound: operations and config saves that fail

AnySetting == UNION {Setting[g] : g \in Group}
Configs == {c \in [Group -> AnySetting] : \A g \in Group : c[g] \in Setting[g]}

ASSUME SessionAssumption ==
    /\ Mtu \in Group /\ Overridable \subseteq Group
    /\ \A g \in Group : Cycle[g] \in Seq(Setting[g]) /\ Len(Cycle[g]) > 1 /\ Cycle[g][1] = "off"
    /\ \A g \in Group : \A i, j \in DOMAIN Cycle[g] : Cycle[g][i] = Cycle[g][j] => i = j
    /\ MaxFailures \in Nat

VARIABLES
    cfg,        \* Config: the setting of each group
    selfHeal,   \* Config: self_heal
    saved,      \* config.json: <<cfg, selfHeal>>
    live,       \* what the machine has: a setting, "orig" or "other"
    archive,    \* the archive in memory has entries of the group
    disk,       \* archive.json has
    seen,       \* status fields: the group was aligned at the last refresh
    error,      \* last_error is set
    confirming, removes, quit,  \* fields of App
    exitFlag,   \* EXIT_REQUESTED of the Ctrl+C handler
    screen,     \* the status last drawn
    due,        \* five seconds have passed since the last heal
    doing,      \* the group whose key was pressed and is not yet applied
    saveFailed, \* the config save of that key failed
    failures,   \* how many failures there were
    pc,         \* where the loop is; "off": no session runs; "profile":
                \* --profile apply has saved the profile as the config
    answer,     \* observer: the exit question answered with y
    stranded,   \* observer: groups switched off without a revert that drained
    farewell    \* what the last session said at its end: "kept", "removed"

machine == <<live, archive, disk, failures>>
config == <<cfg, selfHeal, saved>>
exits == <<confirming, removes, quit, answer>>
toggle == <<doing, saveFailed, stranded>>
vars == <<config, machine, seen, error, exits, exitFlag, screen, due, toggle, pc, farewell>>

Running == pc \notin {"off", "profile"}
On(g) == cfg[g] # "off"

TypeOK ==
    /\ cfg \in Configs /\ selfHeal \in BOOLEAN
    /\ saved \in Configs \X BOOLEAN
    /\ live \in [Group -> (AnySetting \ {"off"}) \cup {"orig", "other"}]
    /\ {archive, disk, seen} \subseteq [Group -> BOOLEAN]
    /\ {error, confirming, removes, quit, exitFlag, due, saveFailed} \subseteq BOOLEAN
    /\ screen \in {"none", "ERROR", "PENDING", "READY", "PROTECTED", "ACTIVE"}
    /\ failures \in 0..MaxFailures
    /\ doing \subseteq Group /\ stranded \subseteq Group
    /\ pc \in {"off", "profile", "top", "poll", "operate", "tick", "draw", "leave",
               "refreshThenPoll", "refreshThenDraw"}
    /\ answer \in {"none", "keep", "revert"}
    /\ farewell \in {"none", "kept", "removed"}

Init ==
    /\ cfg \in Configs /\ selfHeal \in BOOLEAN
    /\ saved = <<cfg, selfHeal>>
    /\ live = [g \in Group |-> "orig"]
    /\ archive = [g \in Group |-> FALSE] /\ disk = archive
    /\ seen = [g \in Group |-> FALSE]
    /\ error = FALSE /\ confirming = FALSE /\ removes = FALSE /\ quit = FALSE
    /\ exitFlag = FALSE /\ due = FALSE /\ failures = 0
    /\ doing = {} /\ saveFailed = FALSE /\ stranded = {}
    /\ screen = "none" /\ pc = "off" /\ answer = "none" /\ farewell = "none"

-----------------------------------------------------------------------------
\* What an operation on a group makes of the machine.  A name that ends in
\* Mutant is the definition below it with a mistake the checks must notice.

\* kept: the archive in memory has entries of the group afterwards; saved: it
\* was written to archive.json; ok: no error was returned.
Outcome(l, kept, wrote, ok) == [live |-> l, kept |-> kept, saved |-> wrote, ok |-> ok]

\* apply: the group has its setting and its originals are archived, and saved
\* unless they were there already; a failed one has done nothing, part of it
\* (saved or not), or everything but its save.
ApplyOutcomes(g, s) ==
    {o \in {Outcome(s, TRUE, TRUE, TRUE), Outcome(s, TRUE, FALSE, TRUE),
            Outcome(live[g], archive[g], FALSE, FALSE), Outcome("other", TRUE, TRUE, FALSE),
            Outcome("other", TRUE, FALSE, FALSE), Outcome(s, TRUE, FALSE, FALSE)} :
       o.ok /\ ~o.saved => archive[g]}

\* revert: what the archive holds is restored and drained, then it is saved
\* whole, except by dns with nothing to restore.  If a restore fails its
\* entries stay, saved or not; a failed save still leaves the group restored.
RevertOutcomesOffMutant(g) ==
    {Outcome("off", FALSE, TRUE, TRUE), Outcome(live[g], archive[g], TRUE, FALSE)}
RevertOutcomes(g) ==
    LET restored == IF archive[g] THEN "orig" ELSE live[g]
    IN {o \in {Outcome(restored, FALSE, TRUE, TRUE), Outcome(restored, FALSE, FALSE, TRUE),
               Outcome(live[g], archive[g], TRUE, FALSE), Outcome(live[g], archive[g], FALSE, FALSE),
               Outcome(restored, FALSE, FALSE, FALSE)} :
          o.ok /\ ~o.saved => ~archive[g] /\ g # Mtu}

AllOk(op) == \A g \in DOMAIN op : op[g].ok

\* The archive in memory after op: one outcome for each group in its domain.
Memory(op) == [g \in Group |-> IF g \in DOMAIN op THEN op[g].kept ELSE archive[g]]

\* Every save writes the whole archive, so that a group that did not save gets
\* its entries written by one that saves after it, not by one before it.
Files(op) ==
    IF \E g \in DOMAIN op : op[g].saved
    THEN {[g \in Group |-> IF g \in early THEN archive[g] ELSE Memory(op)[g]] :
            early \in SUBSET {g \in DOMAIN op : ~op[g].saved}}
    ELSE {disk}

\* What op does to the machine and to archive.json; extra counts a failed
\* config save.
Perform(op, extra) ==
    /\ live' = [g \in Group |-> IF g \in DOMAIN op THEN op[g].live ELSE live[g]]
    /\ disk' \in Files(op)
    /\ failures' = failures + extra + (IF AllOk(op) THEN 0 ELSE 1)
    /\ failures' <= MaxFailures

Applying(S, c) ==
    {op \in [S -> UNION {ApplyOutcomes(g, c[g]) : g \in S}] :
       \A g \in S : op[g] \in ApplyOutcomes(g, c[g])}
Reverting(S) ==
    {op \in [S -> UNION {RevertOutcomes(g) : g \in S}] :
       \A g \in S : op[g] \in RevertOutcomes(g)}

-----------------------------------------------------------------------------
\* A session starts and dies.

EnabledIn(c) == {g \in Group : c[g] # "off"}

\* App::new: apply every enabled group; the statuses follow in Refresh.
Start ==
    /\ pc = "off"
    /\ cfg' = saved[1] /\ selfHeal' = saved[2]
    /\ \E op \in Applying(EnabledIn(saved[1]), saved[1]) :
         Perform(op, 0) /\ archive' = Memory(op) /\ error' = ~AllOk(op)
    /\ confirming' = FALSE /\ removes' = FALSE /\ quit' = FALSE /\ answer' = "none"
    /\ exitFlag' = FALSE /\ due' = FALSE /\ farewell' = "none"
    /\ pc' = "refreshThenDraw"
    /\ UNCHANGED <<saved, seen, screen, toggle>>

\* What a session that ends with this archive in memory leaves unreverted of
\* groups config.json has off: one whose switch was saved and not yet carried
\* out, one that was on although the save of that failed, and one whose drain
\* was not saved.
LeftBehind(memory) ==
    {g \in Group : saved[1][g] = "off" /\ (g \in doing \/ On(g) \/ (disk'[g] /\ ~memory[g]))}

\* The next process loads what is on disk.
Off(memory) ==
    /\ archive' = disk' /\ stranded' = stranded \cup LeftBehind(memory)
    /\ doing' = {} /\ saveFailed' = FALSE
    /\ pc' = "off" /\ screen' = "none"
    /\ confirming' = FALSE /\ removes' = FALSE /\ quit' = FALSE /\ answer' = "none"
    /\ exitFlag' = FALSE /\ due' = FALSE

Crash ==
    /\ Running
    /\ UNCHANGED disk
    /\ Off(archive)
    /\ error' = FALSE /\ farewell' = "none"
    /\ UNCHANGED <<config, live, failures, seen>>

-----------------------------------------------------------------------------
\* The command line between sessions.

\* --apply: every group enabled in the saved config with overrides folded in,
\* which may also set groups the config has off.  The second part of --profile
\* apply is the same.
CliApply ==
    /\ ~Running
    /\ \E c \in Configs :
         /\ \A g \in Group \ Overridable : c[g] = saved[1][g]
         /\ \E op \in Applying(EnabledIn(c), c) : Perform(op, 0)
         /\ stranded' = stranded \cup (EnabledIn(c) \ EnabledIn(saved[1]))
    /\ archive' = disk' /\ farewell' = "none" /\ pc' = "off"
    /\ UNCHANGED <<config, seen, error, exits, exitFlag, screen, due, doing, saveFailed>>

\* --profile apply: the profile becomes the saved config, then --apply runs.
\* A save that fails is the end of it.
ProfileSave ==
    /\ pc = "off"
    /\ \/ /\ saved' \in Configs \X BOOLEAN
          /\ stranded' = (stranded \cup EnabledIn(saved[1])) \ EnabledIn(saved'[1])
          /\ pc' = "profile"
          /\ UNCHANGED failures
       \/ /\ failures < MaxFailures /\ failures' = failures + 1
          /\ UNCHANGED <<saved, stranded, pc>>
    /\ farewell' = "none"
    /\ UNCHANGED <<cfg, selfHeal, live, archive, disk, seen, error, exits, exitFlag, screen,
                   due, doing, saveFailed>>

\* The process dies with the profile saved and nothing applied.
ProfileDies ==
    /\ pc = "profile" /\ pc' = "off"
    /\ UNCHANGED <<config, machine, seen, error, exits, exitFlag, screen, due, toggle, farewell>>

\* --revert: every group, and the config stays as it is.
CliRevert ==
    /\ pc = "off"
    /\ \E op \in Reverting(Group) : Perform(op, 0)
    /\ archive' = disk' /\ stranded' = {g \in stranded : disk'[g]}
    /\ farewell' = "none"
    /\ UNCHANGED <<config, seen, error, exits, exitFlag, screen, due, doing, saveFailed, pc>>

-----------------------------------------------------------------------------
\* Keys.

Key == pc = "poll" /\ ~quit

\* next_in_cycle; a setting that is not in the cycle counts as the first.
NextInCycle(g, s) ==
    LET at == {j \in DOMAIN Cycle[g] : Cycle[g][j] = s}
        i == IF at = {} THEN 1 ELSE CHOOSE j \in at : TRUE
    IN Cycle[g][(i % Len(Cycle[g])) + 1]

\* config::save of what is in memory; it may fail and count a failure.
SaveConfig(ok) == saved' = IF ok THEN <<cfg', selfHeal'>> ELSE saved

\* t, m, p, d and u: step the setting and save the config, which may fail; then
\* apply or revert the group (Operate).
ToggleGroup(g) ==
    /\ Key /\ ~confirming
    /\ cfg' = [cfg EXCEPT ![g] = NextInCycle(g, @)] /\ UNCHANGED selfHeal
    /\ \E saveOk \in BOOLEAN :
         /\ SaveConfig(saveOk) /\ saveFailed' = ~saveOk
         /\ Perform(<<>>, IF saveOk THEN 0 ELSE 1)
    /\ doing' = {g} /\ pc' = "operate"
    /\ UNCHANGED <<archive, seen, error, exits, exitFlag, screen, due, stranded, farewell>>

Operate ==
    /\ pc = "operate"
    /\ \E op \in IF doing \subseteq EnabledIn(cfg) THEN Applying(doing, cfg) ELSE Reverting(doing) :
         /\ Perform(op, 0) /\ archive' = Memory(op)
         /\ error' = (saveFailed \/ ~AllOk(op))
    /\ stranded' = {g \in stranded \cup doing : g \in doing => ~On(g) /\ archive'[g]}
    /\ doing' = {} /\ saveFailed' = FALSE
    /\ pc' = "refreshThenPoll"
    /\ UNCHANGED <<config, seen, exits, exitFlag, screen, due, farewell>>

\* h: a failed save sets last_error, a good one leaves it alone.
ToggleSelfHeal ==
    /\ Key /\ ~confirming
    /\ selfHeal' = ~selfHeal
    /\ UNCHANGED cfg
    /\ \E saveOk \in BOOLEAN :
         /\ SaveConfig(saveOk)
         /\ Perform(<<>>, IF saveOk THEN 0 ELSE 1)
         /\ error' = (error \/ ~saveOk)
    /\ UNCHANGED <<archive, seen, exits, exitFlag, screen, due, toggle, pc, farewell>>

\* a and s: autostart sets or clears last_error, the restore point may set it.
OtherKey ==
    /\ Key /\ ~confirming
    /\ \/ error' = FALSE /\ UNCHANGED failures
       \/ error' = TRUE /\ failures < MaxFailures /\ failures' = failures + 1
    /\ UNCHANGED <<config, live, archive, disk, seen, exits, exitFlag, screen, due, toggle, pc, farewell>>

\* q and x open the exit question.
AskExit(remove) ==
    /\ Key /\ ~confirming
    /\ confirming' = TRUE /\ removes' = remove
    /\ UNCHANGED <<config, machine, seen, error, quit, answer, exitFlag, screen, due, toggle, pc, farewell>>

AnswerYes ==
    /\ Key /\ confirming
    /\ quit' = TRUE
    /\ answer' = IF removes THEN "revert" ELSE "keep"
    /\ UNCHANGED <<config, machine, seen, error, confirming, removes, exitFlag, screen, due, toggle, pc, farewell>>

\* n and Escape close the question; what x asked for stays noted.
AnswerNo ==
    /\ Key /\ confirming
    /\ confirming' = FALSE
    /\ UNCHANGED <<config, machine, seen, error, removes, quit, answer, exitFlag, screen, due, toggle, pc, farewell>>

-----------------------------------------------------------------------------
\* The loop.

Go(next) ==
    /\ pc' = next
    /\ UNCHANGED <<config, machine, seen, error, exits, exitFlag, screen, due, toggle, farewell>>

\* The loop goes on unless quit or the Ctrl+C flag is set.
MustLeaveMutant == quit
MustLeave == quit \/ exitFlag

Top == pc = "top" /\ Go(IF MustLeave THEN "leave" ELSE "poll")

PollDone == pc = "poll" /\ Go("tick")

\* Nothing is due, or self-heal is off (heal returns at once).
TickIdle ==
    /\ pc = "tick"
    /\ ~due \/ ~selfHeal
    /\ due' = FALSE /\ pc' = "draw"
    /\ UNCHANGED <<config, machine, seen, error, exits, exitFlag, screen, toggle, farewell>>

\* The groups heal applies: enabled, and not aligned when last looked at.
ToHealMutant == {g \in Group : On(g) /\ seen[g]}
ToHeal == {g \in Group : On(g) /\ ~seen[g]}

\* heal: last_error becomes the errors of this round, or none.
Heal ==
    /\ pc = "tick" /\ due /\ selfHeal
    /\ \E op \in Applying(ToHeal, cfg) :
         Perform(op, 0) /\ archive' = Memory(op) /\ error' = ~AllOk(op)
    /\ due' = FALSE
    /\ pc' = "refreshThenDraw"
    /\ UNCHANGED <<config, seen, exits, exitFlag, screen, toggle, farewell>>

\* refresh: read the status of every group.
AlignedNow(g) == cfg[g] = live[g]
Refresh ==
    /\ pc \in {"refreshThenPoll", "refreshThenDraw"}
    /\ seen' = [g \in Group |-> AlignedNow(g)]
    /\ pc' = IF pc = "refreshThenPoll" THEN "poll" ELSE "draw"
    /\ UNCHANGED <<config, machine, error, exits, exitFlag, screen, due, toggle, farewell>>

\* all_aligned reads the MTU from the registry, the rest from the last refresh.
AllAlignedMutant == \A g \in Group : On(g) => seen[g]
AllAligned == \A g \in Group : On(g) => IF g = Mtu THEN AlignedNow(g) ELSE seen[g]

OverallStateMutant ==
    IF ~AllAligned THEN "PENDING"
    ELSE IF error THEN "ERROR"
    ELSE IF \A g \in Group : ~On(g) THEN "READY"
    ELSE IF selfHeal THEN "PROTECTED" ELSE "ACTIVE"
OverallState ==
    IF error THEN "ERROR"
    ELSE IF ~AllAligned THEN "PENDING"
    ELSE IF \A g \in Group : ~On(g) THEN "READY"
    ELSE IF selfHeal THEN "PROTECTED" ELSE "ACTIVE"

Draw ==
    /\ pc = "draw"
    /\ screen' = OverallState
    /\ pc' = "top"
    /\ UNCHANGED <<config, machine, seen, error, exits, exitFlag, due, toggle, farewell>>

\* revert_all skips the groups the config has off, except mtu.
RevertedOnExitMutant == {g \in Group : On(g)}
RevertedOnExit == {g \in Group : On(g) \/ g = Mtu}

Leave ==
    /\ pc = "leave"
    /\ \/ /\ removes
          /\ \E op \in Reverting(RevertedOnExit) :
               Perform(op, 0) /\ Off(Memory(op)) /\ error' = ~AllOk(op)
       \/ ~removes /\ UNCHANGED <<live, disk, failures, error>> /\ Off(archive)
    /\ farewell' = IF removes THEN "removed" ELSE "kept"
    /\ UNCHANGED <<config, seen>>

-----------------------------------------------------------------------------
\* Around the loop.

\* Five seconds have passed since the last heal.
Clock ==
    /\ Running /\ ~due
    /\ due' = TRUE
    /\ UNCHANGED <<config, machine, seen, error, exits, exitFlag, screen, toggle, pc, farewell>>

CtrlC ==
    /\ Running /\ ~exitFlag
    /\ exitFlag' = TRUE
    /\ UNCHANGED <<config, machine, seen, error, exits, screen, due, toggle, pc, farewell>>

\* Windows, an installer or the user moves a group out of state.
Drift(g) ==
    /\ live[g] # "other"
    /\ live' = [live EXCEPT ![g] = "other"]
    /\ UNCHANGED <<config, archive, disk, failures, seen, error, exits, exitFlag, screen, due, toggle, pc, farewell>>

Next ==
    \/ Start \/ Crash \/ (\E g \in Group : ToggleGroup(g) \/ Drift(g)) \/ Operate
    \/ CliApply \/ ProfileSave \/ ProfileDies \/ CliRevert
    \/ ToggleSelfHeal \/ OtherKey
    \/ AskExit(TRUE) \/ AskExit(FALSE) \/ AnswerYes \/ AnswerNo
    \/ Top \/ PollDone \/ TickIdle \/ Heal \/ Refresh \/ Draw \/ Leave
    \/ Clock \/ CtrlC

\* The thread takes its steps and time passes.  The key buffer runs empty
\* again and again: nobody types faster than the loop reads (strong, because
\* the steps of a key handler interrupt the poll).  Keys, drifts, crashes and
\* Ctrl+C are never owed.
Fairness ==
    /\ WF_vars(Top) /\ SF_vars(PollDone) /\ WF_vars(TickIdle) /\ WF_vars(Heal)
    /\ WF_vars(Operate) /\ WF_vars(Refresh) /\ WF_vars(Draw) /\ WF_vars(Leave) /\ WF_vars(Clock)

Spec == Init /\ [][Next]_vars
FairSpec == Spec /\ Fairness

-----------------------------------------------------------------------------
\* Properties.

\* README, Self-heal: a group that is enabled while self-heal is on is brought
\* to its setting, whatever drifted it, unless the session or the setting ends.
Watched(g) == Running /\ selfHeal /\ On(g)
Healing == \A g \in Group : Watched(g) ~> (AlignedNow(g) \/ ~Watched(g))

\* y to the exit question and Ctrl+C both end the session.
SessionEnds == quit \/ exitFlag ~> ~Running

\* An MTU that drifted does not stay hidden behind ACTIVE, even without
\* self-heal.
Drifted(g) == Running /\ On(g) /\ ~AlignedNow(g)
MtuDriftShown == Drifted(Mtu) ~> (screen # "ACTIVE" \/ ~Drifted(Mtu))

\* What last_error says is drawn, unless a later operation replaces it first.
ErrorShown == Running /\ error ~> (screen = "ERROR" \/ ~error \/ ~Running)

\* A session that says it removed the tweaks, and warns of nothing, has left
\* in archive.json only entries of groups that are off, and of these only of
\* one that was switched off without a revert that drained it: its revert
\* failed, the session died before it or before a save, a profile has the
\* group off, or --apply had set it on against the config.  Never mtu's.
Removed == farewell' = "removed" /\ farewell # "removed"
RemovesOwed ==
    [][Removed /\ ~error' => \A g \in Group : disk'[g] => g # Mtu /\ ~On(g) /\ g \in stranded]_vars

\* README: x restores every archived value and quits.
RemovesAll == [][Removed /\ ~error' => \A g \in Group : ~disk'[g]]_vars

\* Everything is reverted only after y to "revert every tweak and exit?".
RevertOnlyConfirmed == [][Removed => answer = "revert"]_vars

=============================================================================
