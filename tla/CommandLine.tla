------------------------------- MODULE CommandLine -------------------------------
(***************************************************************************)
(* The command line, from the argument list to the exit code: parse        *)
(* (cli.rs), the dispatch and the elevation of main.rs, the config with    *)
(* its one-run overrides and profiles (config.rs), and --apply, --revert,  *)
(* --status, --plan and --profile as the steps they take on the groups,    *)
(* while something else may change the groups between two of them.         *)
(*                                                                         *)
(* A group is one value here, the program's or the machine's own, which    *)
(* all of its adapters and servers have or only some.  How far an apply or *)
(* a revert gets, and whether it fails, is a choice: TweakGroups and       *)
(* DnsSwitch have the inside, Undo the archive and AppSession the menu.    *)
(***************************************************************************)
EXTENDS Integers, Sequences, SequencesExt

CONSTANTS
    Group,       \* the groups of the instance
    Configs,     \* bound: configs the owner has set in the menu
    Name,        \* words that are valid profile names
    Number,      \* words that are numbers -> the number
    Lines,       \* bound: for the nth command, the argument lists it may have
    None, Malformed

Provider == {"cloudflare", "google"}
Silent == {"tcp", "dns", "multimedia"}  \* --status reports their drift as drift
Groups == Silent \cup {"mtu", "power"}

\* An apply may return Ok and leave some of it undone: the secondary server is
\* best effort, and adapters the enumeration misses now are not tuned.
Lenient == Group \ {"multimedia"}

Sane(mtu) == mtu \in 1280..9000
Setting == {"off", "on"} \cup {w \in DOMAIN Number : Sane(Number[w])}
Saved == [set : [Group -> Setting], provider : Provider \cup {"auto"}]

ASSUME CommandLineAssumption ==
    /\ Group \subseteq Groups
    /\ Configs \subseteq Saved
    /\ \A w \in DOMAIN Number : Number[w] \in Nat
    /\ Len(Lines) \in Nat
    /\ \A n \in 1..Len(Lines) : \A line \in Lines[n] : line \in Seq(ToSet(line))
    /\ None # Malformed /\ {None, Malformed} \cap (Saved \cup Setting) = {}

VARIABLES
    cfg, profiles,   \* config.json and the named profiles, None if there is none
    machine,         \* group -> "own", which is no target, or what the program has set
    short,           \* the groups some adapter or server of which is not at machine[g]
    autostart,       \* the entry in the user's registry
    faster,          \* the provider a probe finds faster now
    runs,            \* commands given so far
    args, pos, options,   \* parse: its argument list, where it is, what it has
    elevated,        \* the process runs as administrator
    phase,           \* "exit" when no process runs
    todo, config, errors, drifted,  \* a run: groups left, resolved_cfg, what it found
    code,            \* the last exit code
    quiet,           \* nothing but the program has changed anything during the run
    plan             \* what the last --plan printed: config and values, or None

files == <<cfg, profiles>>
groups == <<machine, short>>
parsing == <<args, pos, options>>
run == <<todo, config, errors, drifted>>
vars == <<files, groups, autostart, faster, runs, parsing, elevated, phase, run, code, quiet, plan>>

EXIT_OK == 0
EXIT_DRIFT == 1
EXIT_ERROR == 2

-----------------------------------------------------------------------------
\* A token is a flag, --flag or --flag=value, or a word, which has no flag.
\* A name that ends in Mutant is the definition below it with a mistake the
\* checks must notice.

Flag(f) == [flag |-> f, value |-> None]
Assign(f, w) == [flag |-> f, value |-> w]
Word(w) == [flag |-> None, value |-> w]
IsWord(t) == t.flag = None

Action == {"apply", "revert", "status", "plan", "report", "restore-point", "undo"}
Key == {"dns", "mtu", "power"}

ParseBool(w) ==
    IF w \in {"on", "true", "1", "yes"} THEN "on"
    ELSE IF w \in {"off", "false", "0", "no"} THEN "off" ELSE Malformed

ParseMtuMutant(w) == IF w \in DOMAIN Number /\ Number[w] > 0 THEN w ELSE "off"
ParseMtu(w) ==
    IF w \in {"off", "default", "0"} THEN "off"
    ELSE IF w \in DOMAIN Number /\ Sane(Number[w]) THEN w ELSE Malformed

Meaning(key, w) == IF key = "mtu" THEN ParseMtu(w) ELSE ParseBool(w)

\* override_value: the word of --key=word or --key word; a key without is nothing.
OverrideValue(line, i) ==
    LET t == line[i]
    IN  CASE t.flag \notin Key -> None
          [] t.flag \in Key /\ t.value # None -> t.value
          [] OTHER -> IF i < Len(line) /\ IsWord(line[i + 1]) THEN line[i + 1].value ELSE None

ProfileOps == {"save", "apply", "delete"}

\* parse_profile on the tokens after --profile.
ParseProfile(tokens) ==
    LET IsWordOf(i, words) == Len(tokens) >= i /\ IsWord(tokens[i]) /\ tokens[i].value \in words
    IN  IF IsWordOf(1, {"list"}) THEN [op |-> "list", name |-> None]
        ELSE IF IsWordOf(1, ProfileOps) /\ IsWordOf(2, Name)
        THEN [op |-> tokens[1].value, name |-> tokens[2].value]
        ELSE Malformed

NoOverride == [k \in Key |-> None]
Default == [command |-> "interactive", over |-> NoOverride, profile |-> None]

Resolved(file, over) ==
    [file EXCEPT !.set = [g \in Group |->
        IF g \in Key THEN IF over[g] # None THEN over[g] ELSE @[g] ELSE @[g]]]

Enabled(c) == {g \in Group : c.set[g] # "off"}

\* resolve_provider for a command that probed or did not.
Resolver(c, probed) == IF c.provider # "auto" THEN c.provider
                       ELSE IF probed THEN faster ELSE "cloudflare"

\* What the group is set to, given the resolvers.
Target(c, g, resolver) == IF g = "dns" THEN resolver ELSE c.set[g]

\* The status functions of a group, with resolve_provider(.., None).
Aligned(c, g) == machine[g] = Target(c, g, Resolver(c, FALSE)) /\ g \notin short

ApplyOrder == <<"tcp", "dns", "multimedia", "mtu", "power">>
RevertOrder == <<"mtu", "multimedia", "power", "tcp", "dns">>
\* run_status evaluates mtu and power once for the text and again for the code.
Again == <<"mtu", "power">>

TypeOK ==
    /\ cfg \in Saved
    /\ DOMAIN profiles = Name /\ \A n \in Name : profiles[n] = None \/ profiles[n] \in Saved
    /\ machine \in [Group -> Setting \cup Provider \cup {"own"}]
    /\ short \subseteq Group
    /\ faster \in Provider
    /\ pos \in 1..(Len(args) + 1)
    /\ {autostart, elevated, errors, drifted, quiet} \subseteq BOOLEAN
    /\ phase \in {"exit", "scan", "usage", "dispatch", "apply", "revert", "status"}
    /\ todo \in Seq(Groups)
    /\ code \in {EXIT_OK, EXIT_DRIFT, EXIT_ERROR}

Init ==
    /\ cfg \in Configs
    /\ profiles \in [Name -> Configs \cup {None}]
    /\ machine = [g \in Group |-> "own"] /\ short = {}
    /\ autostart \in BOOLEAN
    /\ faster \in Provider
    /\ runs = 0
    /\ args = <<>> /\ pos = 1 /\ options = Default
    /\ elevated = FALSE
    /\ phase = "exit"
    /\ todo = <<>> /\ config = None /\ errors = FALSE /\ drifted = FALSE
    /\ code = EXIT_OK
    /\ quiet = TRUE
    /\ plan = None

-----------------------------------------------------------------------------
\* parse, one token at a time.

Start ==
    /\ phase = "exit" /\ runs < Len(Lines)
    /\ runs' = runs + 1
    /\ args' \in Lines[runs + 1] /\ pos' = 1 /\ options' = Default
    /\ elevated' \in BOOLEAN
    /\ phase' = "scan" /\ quiet' = TRUE
    /\ todo' = <<>> /\ config' = None /\ errors' = FALSE /\ drifted' = FALSE
    /\ UNCHANGED <<files, groups, autostart, faster, code, plan>>

Exit(c) == phase' = "exit" /\ code' = c

Informs == {"help", "version"}
AsksInfo == \E i \in 1..Len(args) : args[i] \in {Flag(f) : f \in Informs}

Inform ==
    /\ phase = "scan" /\ AsksInfo
    /\ \E f \in Informs :
         /\ Flag(f) \in ToSet(args) /\ (f = "version" => Flag("help") \notin ToSet(args))
         /\ options' = [options EXCEPT !.command = f]
    /\ Exit(EXIT_OK)
    /\ UNCHANGED <<files, groups, autostart, faster, runs, args, pos, elevated, run, quiet, plan>>

Scanning == phase = "scan" /\ ~AsksInfo /\ pos <= Len(args)
Passed(o) == pos' = pos + 1 /\ options' = o /\ UNCHANGED phase
ToUsage == phase' = "usage" /\ UNCHANGED <<pos, options>>

\* The action flag given first.
ChosenMutant(f) == f
Chosen(f) == IF options.command = "interactive" THEN f ELSE options.command

ScanAction ==
    /\ args[pos].flag \in Action /\ args[pos].value = None
    /\ Passed([options EXCEPT !.command = Chosen(args[pos].flag)])

ScanOverride ==
    LET w == OverrideValue(args, pos)
        k == args[pos].flag
    IN  /\ w # None
        /\ IF Meaning(k, w) = Malformed
           THEN ToUsage
           ELSE Passed([options EXCEPT !.over[k] = Meaning(k, w)])

ScanProfile ==
    /\ args[pos] = Flag("profile")
    /\ LET profile == ParseProfile(SubSeq(args, pos + 1, Len(args)))
       IN  IF profile = Malformed
           THEN ToUsage
           ELSE /\ options' = [options EXCEPT !.command = "profile", !.profile = profile]
                /\ phase' = "dispatch"
                /\ UNCHANGED pos

\* Anything else, the word of an override too, is passed over.
ScanOther ==
    /\ ~(args[pos].flag \in Action /\ args[pos].value = None)
    /\ OverrideValue(args, pos) = None
    /\ args[pos] # Flag("profile")
    /\ Passed(options)

Scan ==
    /\ Scanning
    /\ ScanAction \/ ScanOverride \/ ScanProfile \/ ScanOther
    /\ UNCHANGED <<files, groups, autostart, faster, runs, args, elevated, run, code, quiet, plan>>

ScanEnd ==
    /\ phase = "scan" /\ ~AsksInfo /\ pos > Len(args)
    /\ phase' = "dispatch"
    /\ UNCHANGED <<files, groups, autostart, faster, runs, parsing, elevated, run, code, quiet, plan>>

Usage ==
    /\ phase = "usage"
    /\ Exit(EXIT_ERROR)
    /\ UNCHANGED <<files, groups, autostart, faster, runs, parsing, elevated, run, quiet, plan>>

-----------------------------------------------------------------------------
\* main: elevation and dispatch.

AppliesProfile(o) == o.command = "profile" /\ o.profile.op = "apply"
NeedsElevationMutant(o) ==
    o.command \in {"apply", "revert", "restore-point", "undo", "interactive"}
NeedsElevation(o) ==
    o.command \in {"apply", "revert", "restore-point", "undo", "interactive"} \/ AppliesProfile(o)

\* The elevated copy gets the arguments, quoted, and parses them again; the
\* exit code of the first process is 0 in any case.
Relaunch ==
    /\ phase = "dispatch" /\ NeedsElevation(options) /\ ~elevated
    /\ \/ elevated' = TRUE /\ phase' = "scan" /\ pos' = 1 /\ options' = Default /\ UNCHANGED code
       \/ Exit(EXIT_OK) /\ UNCHANGED <<pos, options, elevated>>
    /\ UNCHANGED <<files, groups, autostart, faster, runs, args, run, quiet, plan>>

Dispatched(command) ==
    /\ phase = "dispatch" /\ options.command = command
    /\ NeedsElevation(options) => elevated

Begin(next, c, list) ==
    /\ phase' = next /\ config' = c /\ todo' = list
    /\ UNCHANGED <<errors, drifted, code>>

Simple ==
    /\ UNCHANGED <<groups, autostart, faster, runs, parsing, elevated, quiet>>

\* The report is written beside the config or not.
Report ==
    /\ Dispatched("report")
    /\ \E c \in {EXIT_OK, EXIT_ERROR} : Exit(c)
    /\ Simple /\ UNCHANGED <<files, run, plan>>

RestorePoint ==
    /\ Dispatched("restore-point")
    /\ \E c \in {EXIT_OK, EXIT_ERROR} : Exit(c)
    /\ Simple /\ UNCHANGED <<files, run, plan>>

\* The menu, which AppSession models.
Menu ==
    /\ Dispatched("interactive")
    /\ Exit(EXIT_OK)
    /\ Simple /\ UNCHANGED <<files, run, plan>>

\* run_plan probes like run_apply.
ProbedForPlanMutant == FALSE
ProbedForPlan == TRUE

Plan ==
    /\ Dispatched("plan")
    /\ LET c == Resolved(cfg, options.over)
       IN  plan' = [config |-> c, faster |-> faster,
                    set |-> [g \in Enabled(c) |-> Target(c, g, Resolver(c, ProbedForPlan))]]
    /\ Exit(EXIT_OK)
    /\ Simple /\ UNCHANGED <<files, run>>

ToApply(c) == Begin("apply", c, ApplyOrder)

Apply ==
    /\ Dispatched("apply")
    /\ ToApply(Resolved(cfg, options.over))
    /\ Simple /\ UNCHANGED <<files, plan>>

Revert ==
    /\ Dispatched("revert") \/ Dispatched("undo")
    /\ Begin("revert", cfg, RevertOrder)
    /\ Simple /\ UNCHANGED <<files, plan>>

Status ==
    /\ Dispatched("status")
    /\ Begin("status", Resolved(cfg, options.over), ApplyOrder \o Again)
    /\ Simple /\ UNCHANGED <<files, plan>>

SavedByApplyMutant(n) == Resolved(profiles[n], options.over)
SavedByApply(n) == profiles[n]

OnProfile(op) == Dispatched("profile") /\ options.profile.op = op

ProfileApply ==
    LET n == options.profile.name
    IN  /\ OnProfile("apply")
        /\ \/ /\ profiles[n] # None
              /\ cfg' = SavedByApply(n)
              /\ ToApply(Resolved(cfg', options.over))
           \/ \* there is none, or config.json cannot be written
              /\ Exit(EXIT_ERROR)
              /\ UNCHANGED <<cfg, run>>
        /\ Simple /\ UNCHANGED <<profiles, plan>>

\* A file that cannot be written or removed is an error.
SaveProfile ==
    /\ OnProfile("save")
    /\ \/ /\ profiles' = [profiles EXCEPT ![options.profile.name] = Resolved(cfg, options.over)]
          /\ Exit(EXIT_OK)
       \/ Exit(EXIT_ERROR) /\ UNCHANGED profiles
    /\ Simple /\ UNCHANGED <<cfg, run, plan>>

DeleteProfile ==
    /\ OnProfile("delete")
    /\ \/ /\ profiles' = [profiles EXCEPT ![options.profile.name] = None]
          /\ Exit(EXIT_OK)
       \/ Exit(EXIT_ERROR) /\ UNCHANGED profiles
    /\ Simple /\ UNCHANGED <<cfg, run, plan>>

ListProfiles ==
    /\ OnProfile("list")
    /\ Exit(EXIT_OK)
    /\ Simple /\ UNCHANGED <<files, run, plan>>

-----------------------------------------------------------------------------
\* run_apply, run_revert and run_status, a group a step.  An instance may be
\* without some groups.

During(p) ==
    /\ phase = p
    /\ UNCHANGED <<files, faster, runs, parsing, elevated, config, quiet, plan>>

NextGroup == todo # <<>> /\ todo' = Tail(todo) /\ UNCHANGED <<phase, autostart, code>>

\* An apply or a revert of g to v gets nowhere, some of the way or all of it.
Nowhere == UNCHANGED groups
Partly(g, v) ==
    /\ machine' = [machine EXCEPT ![g] = IF v = "own" THEN @ ELSE v]
    /\ short' = short \cup {g}
Wholly(g, v) == machine' = [machine EXCEPT ![g] = v] /\ short' = short \ {g}

\* All of the way without an error, any with one; a lenient one any without.
Set(g, v, lenient) ==
    /\ \/ Wholly(g, v) /\ errors' \in {errors, TRUE}
       \/ /\ Nowhere \/ (Partly(g, v) /\ machine'[g] # "own")
          /\ errors' = TRUE \/ (lenient /\ UNCHANGED errors)
    /\ UNCHANGED drifted

ApplyGroup ==
    /\ During("apply") /\ NextGroup
    /\ LET g == Head(todo)
       IN  IF g \in Enabled(config)
           THEN Set(g, Target(config, g, Resolver(config, TRUE)), g \in Lenient)
           ELSE UNCHANGED <<groups, errors, drifted>>

\* A revert writes back what the archive has, which may be nothing.
RevertGroup ==
    /\ During("revert") /\ NextGroup
    /\ LET g == Head(todo)
       IN  IF g \in Group THEN Set(g, "own", TRUE) ELSE UNCHANGED <<groups, errors, drifted>>

\* Drift of mtu and power at the first look is an error, at the second drift.
Check ==
    /\ During("status") /\ NextGroup
    /\ LET g == Head(todo)
           bad == g \in Enabled(config) /\ ~Aligned(config, g)
           first == Len(todo) > Len(Again)
       IN  /\ errors' = (errors \/ (bad /\ first /\ g \notin Silent))
           /\ drifted' = (drifted \/ (bad /\ (~first \/ g \in Silent)))
    /\ UNCHANGED groups

Finish == IF errors' THEN EXIT_ERROR ELSE EXIT_OK

ApplyEnd ==
    /\ During("apply") /\ todo = <<>>
    /\ UNCHANGED <<groups, autostart, todo, errors, drifted>>
    /\ Exit(Finish)

RevertEnd ==
    /\ During("revert") /\ todo = <<>>
    /\ \/ autostart' = FALSE /\ UNCHANGED errors
       \/ autostart /\ errors' = TRUE /\ UNCHANGED autostart
    /\ UNCHANGED <<groups, todo, drifted>>
    /\ Exit(Finish)

StatusCodeMutant == IF errors THEN EXIT_ERROR ELSE EXIT_OK
StatusCode == IF errors THEN EXIT_ERROR ELSE IF drifted THEN EXIT_DRIFT ELSE EXIT_OK

StatusEnd ==
    /\ During("status") /\ todo = <<>>
    /\ UNCHANGED <<groups, autostart, todo, errors, drifted>>
    /\ Exit(StatusCode)

\* Something else takes a group from the program, or the network changes:
\* bound, once in a run.
Drift ==
    /\ phase \in {"apply", "revert", "status", "exit"} /\ quiet
    /\ \/ \E g \in Group : machine[g] # "own" /\ Wholly(g, "own")
          /\ UNCHANGED faster
       \/ faster' \in Provider \ {faster} /\ UNCHANGED groups
    /\ quiet' = FALSE
    /\ UNCHANGED <<files, autostart, runs, parsing, elevated, phase, run, code, plan>>

Next ==
    \/ Start \/ Inform \/ Scan \/ ScanEnd \/ Usage \/ Relaunch
    \/ Report \/ RestorePoint \/ Menu \/ Plan \/ Apply \/ Revert \/ Status
    \/ ProfileApply \/ SaveProfile \/ DeleteProfile \/ ListProfiles
    \/ ApplyGroup \/ RevertGroup \/ Check \/ ApplyEnd \/ RevertEnd \/ StatusEnd
    \/ Drift

Spec == Init /\ [][Next]_vars

-----------------------------------------------------------------------------
\* Properties.

\* What the comment of parse says of a list without help or version: of the
\* action flags the first wins, overrides are collected wherever they appear,
\* and a malformed one is an error.
Given(k) == {i \in 1..Len(args) : args[i].flag = k /\ OverrideValue(args, i) # None}

DocumentedCommand ==
    LET actions == {i \in 1..Len(args) : \/ args[i].value = None /\ args[i].flag \in Action
                                         \/ args[i] = Flag("profile")}
    IN  IF actions = {} THEN "interactive" ELSE args[Min(actions)].flag

DocumentedOver ==
    [k \in Key |-> IF Given(k) = {} THEN None
                   ELSE Meaning(k, OverrideValue(args, Max(Given(k))))]

DocumentedError == \E k \in Key : \E i \in Given(k) : Meaning(k, OverrideValue(args, i)) = Malformed

\* Every list that is accepted is understood as the comment says (parse).  It is
\* not: --profile beats the action before it and hides the overrides after it.
ParsedAsDocumented ==
    phase = "dispatch" => options.command = DocumentedCommand /\ options.over = DocumentedOver

\* A list without --profile is understood as the comment says, and refused
\* exactly if an override in it is malformed (parse, override_value).
ParsedUnlessProfile ==
    Flag("profile") \notin ToSet(args) =>
      /\ phase = "usage" => DocumentedError
      /\ phase = "dispatch" => ParsedAsDocumented /\ ~DocumentedError

\* Groups and autostart are changed only by an elevated process, config.json
\* only by applying a profile, and then to the profile: an override is for one
\* run (main, run_profile, run_apply).
ChangesAsAllowed ==
    [][quiet' = quiet =>
         /\ groups' # groups \/ autostart' # autostart => elevated
         /\ cfg' # cfg => elevated /\ AppliesProfile(options) /\ cfg' = profiles[options.profile.name]]_vars

Ran(command) == phase = "exit" /\ runs > 0 /\ quiet /\ options.command = command /\ config # None

\* When nothing changes during a --status, it exits 0 exactly if every group
\* enabled for this run is aligned, and 1 if only groups without an error of
\* their own are not (run_status).
StatusExact ==
    Ran("status") =>
      LET off == {g \in Enabled(config) : ~Aligned(config, g)}
      IN  /\ code = EXIT_OK <=> off = {}
          /\ off # {} /\ off \subseteq Silent => code = EXIT_DRIFT

\* A --status that finds a group off exits EXIT_DRIFT (run_status).  It does not
\* for mtu and power, whose drift it counts as an error.
StatusDocumented ==
    Ran("status") /\ (\E g \in Enabled(config) : ~Aligned(config, g)) => code = EXIT_DRIFT

\* Where an --apply, or a profile applied, that exits 0 has switched the DNS, all
\* of its servers are set on every adapter (run_apply).  They need not be: a
\* secondary server that cannot be added is no error.
ApplyAligns ==
    (Ran("apply") \/ Ran("profile")) /\ code = EXIT_OK =>
      \A g \in Enabled(config) \cap {"dns"} :
        machine[g] = Resolver(config, TRUE) => g \notin short

\* Where an --apply that exits 0 has got all of the way with DNS, the --status of
\* the same config finds it aligned (run_apply, run_status).  It need not: --status
\* takes cloudflare for auto, without a probe.
AutoAligns ==
    Ran("apply") /\ code = EXIT_OK =>
      \A g \in Enabled(config) \cap {"dns"} :
        machine[g] = Resolver(config, TRUE) /\ g \notin short => Aligned(config, g)

\* While the probes find the provider faster that a --plan found, an --apply of
\* the config it printed sets no group but those it listed, and none to anything
\* but what it listed, be the run a failure or not (run_plan, run_apply).
PlanKept ==
    [][/\ phase = "apply" /\ quiet' = quiet
       /\ plan # None /\ plan.config = config /\ plan.faster = faster
       => \A g \in Group : machine'[g] # machine[g] =>
            g \in DOMAIN plan.set /\ machine'[g] = plan.set[g]]_vars

=============================================================================
