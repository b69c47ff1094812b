----------------------------- MODULE CommandLineProofs -----------------------------
(***************************************************************************)
(* Proofs about CommandLine, for every set of groups, every argument list,  *)
(* every saved config and profile, and any number of commands.              *)
(***************************************************************************)
EXTENDS CommandLine, SequenceTheorems, TLAPS

-----------------------------------------------------------------------------
\* Types of what the arguments become.

Operations == [op : ProfileOps \cup {"list"}, name : Name \cup {None}]
Sensible(profile) == profile \in Operations /\ (profile.op # "list" => profile.name \in Name)
Overrides == [Key -> Setting \cup {None}]
Heeded ==
    /\ options \in [command : Action \cup {"interactive", "profile"} \cup Informs,
                    over : Overrides, profile : Operations \cup {None}]
    /\ options.command = "profile" => Sensible(options.profile)
    /\ phase = "scan" => options.command \in Action \cup {"interactive"}

Running == {"apply", "revert", "status"}
Typed ==
    /\ TypeOK /\ Heeded
    /\ args \in Seq(ToSet(args)) /\ runs \in Nat
    /\ config \in Saved \cup {None}
    /\ phase \in Running => config \in Saved
    /\ phase \in {"scan", "usage", "dispatch"} => config = None /\ ~errors /\ ~drifted
    /\ phase \in {"apply", "revert"} => elevated
    /\ phase = "apply" => options.command \in {"apply", "profile"}
    /\ phase = "revert" => options.command \in {"revert", "undo"}
    /\ phase = "status" => options.command = "status"

-----------------------------------------------------------------------------
\* The parser has read the tokens before pos.

IsAction(i) == args[i].value = None /\ args[i].flag \in Action
IsGiven(k, i) == args[i].flag = k /\ OverrideValue(args, i) # None

NoneWrong == \A k \in Key : \A i \in 1..pos - 1 :
    IsGiven(k, i) => Meaning(k, OverrideValue(args, i)) # Malformed
LastGiven == \A k \in Key :
    \/ options.over[k] = None /\ \A i \in 1..pos - 1 : ~IsGiven(k, i)
    \/ \E i \in 1..pos - 1 :
         /\ IsGiven(k, i) /\ options.over[k] = Meaning(k, OverrideValue(args, i))
         /\ \A j \in i + 1..pos - 1 : ~IsGiven(k, j)
FirstAction ==
    \/ options.command = "interactive" /\ \A i \in 1..pos - 1 : ~IsAction(i)
    \/ \E i \in 1..pos - 1 :
         /\ IsAction(i) /\ options.command = args[i].flag
         /\ \A j \in 1..i - 1 : ~IsAction(j)
Read ==
    /\ \A i \in 1..pos - 1 : args[i] # Flag("profile")
    /\ NoneWrong /\ LastGiven /\ FirstAction
Parsing == (phase = "scan" => Read) /\ ParsedUnlessProfile

-----------------------------------------------------------------------------
\* What a --status has found so far, and what the last --plan printed.

Finished == phase = "exit" /\ config # None /\ options.command = "status"
Off == {g \in Enabled(config) : ~Aligned(config, g)}

Codes == Finished => todo = <<>> /\ code = StatusCode

Seen ==
    (phase = "status" \/ Finished) /\ quiet =>
      /\ errors => \E g \in Off : g \notin Silent
      /\ drifted => Off # {}
      /\ \A g \in Off : g \in ToSet(todo) \/ drifted \/ (errors /\ g \notin Silent)

Printed ==
    plan # None =>
      /\ plan.config \in Saved
      /\ plan.set = [g \in Enabled(plan.config) |-> Target(plan.config, g,
                       IF plan.config.provider = "auto" THEN plan.faster ELSE plan.config.provider)]

-----------------------------------------------------------------------------
\* Types.

\* A group leaves the list at its head.
LEMMA HeadLeaves ==
  ASSUME NEW S, NEW s \in Seq(S), s # <<>>
  PROVE  /\ Head(s) \in S /\ Tail(s) \in Seq(S)
         /\ ToSet(s) = {Head(s)} \cup ToSet(Tail(s))
<1>1. /\ Head(s) \in S /\ Tail(s) \in Seq(S) /\ Len(Tail(s)) = Len(s) - 1
      /\ \A i \in 1..Len(Tail(s)) : Tail(s)[i] = s[i + 1]
  BY HeadTailProperties
<1>2. Len(s) \in Nat /\ Len(s) > 0 /\ DOMAIN s = 1..Len(s) /\ Head(s) = s[1]
  OBVIOUS
<1>3. Len(Tail(s)) \in Nat /\ DOMAIN Tail(s) = 1..Len(Tail(s))
  BY <1>1
<1>4. ASSUME NEW i \in DOMAIN s PROVE s[i] \in {Head(s)} \cup ToSet(Tail(s))
  <2>1. CASE i = 1
    BY <1>2, <2>1
  <2>2. CASE i # 1
    <3>1. i - 1 \in DOMAIN Tail(s) /\ Tail(s)[i - 1] = s[i]
      BY <1>1, <1>2, <1>3, <2>2
    <3> QED
      BY <3>1 DEF ToSet
  <2> QED
    BY <2>1, <2>2
<1>5. ASSUME NEW i \in DOMAIN Tail(s) PROVE Tail(s)[i] \in ToSet(s)
  <2>1. i + 1 \in DOMAIN s /\ Tail(s)[i] = s[i + 1]
    BY <1>1, <1>2, <1>3
  <2> QED
    BY <2>1 DEF ToSet
<1>6. Head(s) \in ToSet(s)
  BY <1>2 DEF ToSet
<1> QED
  BY <1>1, <1>4, <1>5, <1>6 DEF ToSet

LEMMA Joined ==
  ASSUME NEW S, NEW s \in Seq(S), NEW t \in Seq(S)
  PROVE  s \o t \in Seq(S) /\ ToSet(s) \subseteq ToSet(s \o t)
<1>1. /\ s \o t \in Seq(S) /\ Len(s \o t) = Len(s) + Len(t)
      /\ \A i \in 1..Len(s) : (s \o t)[i] = s[i]
  BY ConcatProperties
<1>2. DOMAIN s = 1..Len(s) /\ DOMAIN (s \o t) = 1..Len(s \o t) /\ Len(s) \in Nat /\ Len(t) \in Nat
  BY <1>1
<1> QED
  BY <1>1, <1>2 DEF ToSet

\* Every group is in the lists of apply and status.
LEMMA EveryGroup ==
  /\ ApplyOrder \in Seq(Groups) /\ RevertOrder \in Seq(Groups) /\ ApplyOrder \o Again \in Seq(Groups)
  /\ Group \subseteq ToSet(ApplyOrder) /\ Group \subseteq ToSet(ApplyOrder \o Again)
<1> USE CommandLineAssumption DEF Groups, Silent
<1>1. /\ ApplyOrder \in Seq(Groups) /\ Again \in Seq(Groups) /\ RevertOrder \in Seq(Groups)
  BY DEF ApplyOrder, RevertOrder, Again
<1>2. /\ ApplyOrder[1] = "tcp" /\ ApplyOrder[2] = "dns" /\ ApplyOrder[3] = "multimedia"
      /\ ApplyOrder[4] = "mtu" /\ ApplyOrder[5] = "power"
  BY DEF ApplyOrder
<1>3. Group \subseteq ToSet(ApplyOrder)
  <2>1. DOMAIN ApplyOrder = 1..5
    BY DEF ApplyOrder
  <2>2. 1 \in 1..5 /\ 2 \in 1..5 /\ 3 \in 1..5 /\ 4 \in 1..5 /\ 5 \in 1..5
    OBVIOUS
  <2> QED
    BY <1>2, <2>1, <2>2 DEF ToSet
<1>4. ApplyOrder \o Again \in Seq(Groups) /\ ToSet(ApplyOrder) \subseteq ToSet(ApplyOrder \o Again)
  <2> HIDE DEF Groups
  <2> QED
    BY <1>1, Joined
<1> QED
  BY <1>1, <1>3, <1>4

LEMMA MeaningType ==
  ASSUME NEW k \in Key, NEW w, Meaning(k, w) # Malformed
  PROVE  Meaning(k, w) \in Setting
  BY DEF Meaning, ParseMtu, ParseBool, Setting

LEMMA ProfileType ==
  ASSUME NEW tokens, ParseProfile(tokens) # Malformed
  PROVE  Sensible(ParseProfile(tokens))
  BY DEF ParseProfile, Sensible, Operations, ProfileOps

LEMMA ResolvedType ==
  ASSUME NEW file \in Saved, NEW over \in Overrides
  PROVE  Resolved(file, over) \in Saved
  BY DEF Resolved, Saved, Overrides

LEMMA TargetType ==
  ASSUME NEW c \in Saved, NEW g \in Group, NEW r \in Provider
  PROVE  Target(c, g, r) \in Setting \cup Provider
  BY DEF Target, Saved

LEMMA InitTyped == Init => Typed
<1> SUFFICES ASSUME Init PROVE Typed
  OBVIOUS
<1> USE CommandLineAssumption
<1>1. TypeOK
  <2>1. {autostart, elevated, errors, drifted, quiet} \subseteq BOOLEAN
    BY DEF Init
  <2>2. args \in Seq(Groups) /\ todo \in Seq(Groups) /\ Len(args) = 0
    BY DEF Init
  <2>3. cfg \in Saved /\ \A n \in Name : profiles[n] = None \/ profiles[n] \in Saved
    BY DEF Init
  <2> QED
    BY <2>1, <2>2, <2>3 DEF Init, TypeOK, EXIT_OK, Setting
<1>2. Heeded
  BY DEF Init, Heeded, Default, NoOverride, Overrides, Informs, Action
<1> QED
  BY <1>1, <1>2 DEF Init, Typed, Running

LEMMA SetType ==
  ASSUME TypeOK, NEW g \in Group, NEW v \in Setting \cup Provider \cup {"own"}, NEW lenient,
         Set(g, v, lenient)
  PROVE  /\ machine' \in [Group -> Setting \cup Provider \cup {"own"}] /\ short' \subseteq Group
         /\ errors' \in BOOLEAN /\ drifted' \in BOOLEAN
<1>1. errors \in BOOLEAN /\ drifted \in BOOLEAN
  BY DEF TypeOK
<1>2. errors' \in {errors, TRUE} /\ drifted' = drifted
  BY DEF Set
<1>3. machine \in [Group -> Setting \cup Provider \cup {"own"}] /\ short \subseteq Group
  BY DEF TypeOK
<1>4. machine' \in [Group -> Setting \cup Provider \cup {"own"}] /\ short' \subseteq Group
  <2>1. CASE Wholly(g, v)
    BY <1>3, <2>1 DEF Wholly
  <2>2. CASE Nowhere
    BY <1>3, <2>2 DEF Nowhere, groups
  <2>3. CASE Partly(g, v)
    BY <1>3, <2>3 DEF Partly
  <2> QED
    BY <2>1, <2>2, <2>3 DEF Set
<1> QED
  BY <1>1, <1>2, <1>4

LEMMA NextTyped == Typed /\ [Next]_vars => Typed'
<1> SUFFICES ASSUME Typed, [Next]_vars PROVE Typed'
  OBVIOUS
<1> USE CommandLineAssumption
<1>0. TypeOK /\ Heeded
  BY DEF Typed
<1> DEFINE Codes3 == {EXIT_OK, EXIT_DRIFT, EXIT_ERROR}
           Shelved(p) == DOMAIN p = Name /\ \A n \in Name : p[n] = None \/ p[n] \in Saved
\* What the commands that end at once have in common.
<1>a. ASSUME UNCHANGED <<groups, autostart, faster, runs, parsing, elevated, run, quiet>>,
             phase' = "exit", code' \in Codes3, cfg' \in Saved, Shelved(profiles')
      PROVE  Typed'
  <2>1. TypeOK'
    BY <1>0, <1>a DEF TypeOK, groups, parsing, run, groups
  <2>2. Heeded'
    BY <1>0, <1>a DEF Heeded, parsing
  <2> QED
    BY <1>a, <2>1, <2>2 DEF Typed, parsing, run, Running
\* What the commands that begin a run have in common.
<1>b. ASSUME NEW p \in Running, NEW c \in Saved, NEW list \in Seq(Groups), Begin(p, c, list),
             UNCHANGED <<groups, autostart, faster, runs, parsing, elevated, quiet>>,
             cfg' \in Saved, Shelved(profiles'), phase = "dispatch",
             p \in {"apply", "revert"} => elevated,
             p = "apply" => options.command \in {"apply", "profile"},
             p = "revert" => options.command \in {"revert", "undo"},
             p = "status" => options.command = "status"
      PROVE  Typed'
  <2>1. TypeOK'
    BY <1>0, <1>b DEF Begin, TypeOK, groups, parsing, Running
  <2>2. Heeded'
    BY <1>0, <1>b DEF Begin, Heeded, parsing, Running
  <2> QED
    BY <1>b, <2>1, <2>2 DEF Typed, Begin, parsing, Running
<1>c. cfg \in Saved /\ Shelved(profiles)
  BY <1>0 DEF TypeOK, groups
\* What the steps of a parse have in common.
<1>d. ASSUME NEW p \in {"scan", "usage", "dispatch"}, phase = "scan", phase' = p,
             UNCHANGED <<files, groups, autostart, faster, runs, args, elevated, run, code, quiet, plan>>,
             pos' \in 1..Len(args) + 1, Heeded'
      PROVE  Typed'
  <2>1. TypeOK'
    BY <1>0, <1>d DEF TypeOK, groups, files, run
  <2> QED
    BY <1>d, <2>1 DEF Typed, run, Running
<1>e. args \in Seq(ToSet(args)) /\ Len(args) \in Nat
  BY DEF Typed
<1>1. CASE Start
  <2>1. runs + 1 \in 1..Len(Lines) /\ args' \in Lines[runs + 1] /\ runs' = runs + 1
    BY <1>1 DEF Start, Typed
  <2>2. args' \in Seq(ToSet(args')) /\ Len(args') \in Nat
    BY <2>1
  <2>3. TypeOK'
    <3>1. {autostart', elevated', errors', drifted', quiet'} \subseteq BOOLEAN
      BY <1>0, <1>1 DEF Start, TypeOK
    <3>2. pos' \in 1..Len(args') + 1 /\ todo' \in Seq(Groups)
      BY <1>1, <2>2 DEF Start
    <3> QED
      BY <1>0, <1>1, <3>1, <3>2 DEF Start, TypeOK, files, groups
  <2>4. Heeded'
    BY <1>1 DEF Start, Heeded, Default, NoOverride, Overrides, Informs, Action
  <2> QED
    BY <1>1, <2>1, <2>2, <2>3, <2>4 DEF Start, Typed, Running
<1>2. CASE Inform
  <2>1. PICK f \in Informs : options' = [options EXCEPT !.command = f]
    BY <1>2 DEF Inform
  <2>2. /\ UNCHANGED <<files, groups, autostart, faster, runs, args, pos, elevated, run, quiet, plan>>
        /\ phase' = "exit" /\ code' = EXIT_OK /\ phase = "scan"
    BY <1>2 DEF Inform, Exit
  <2>3. TypeOK'
    BY <1>0, <2>2 DEF TypeOK, groups, files, run
  <2>4. Heeded'
    BY <1>0, <2>1, <2>2 DEF Heeded, Informs
  <2> QED
    BY <2>2, <2>3, <2>4 DEF Typed, run, Running
<1>3. CASE Scan
  <2>0. /\ phase = "scan" /\ pos \in 1..Len(args) /\ pos + 1 \in 1..Len(args) + 1
        /\ UNCHANGED <<files, groups, autostart, faster, runs, args, elevated, run, code, quiet, plan>>
    BY <1>0, <1>3, <1>e DEF Scan, Scanning, TypeOK
  <2>1. CASE ScanAction
    <3>1. /\ options' = [options EXCEPT !.command = Chosen(args[pos].flag)]
          /\ phase' = phase /\ pos' = pos + 1
      BY <2>1 DEF ScanAction, Passed
    <3>2. Chosen(args[pos].flag) \in Action \cup {"interactive"}
      BY <1>0, <2>0, <2>1 DEF ScanAction, Chosen, Heeded
    <3>3. Heeded'
      BY <1>0, <2>0, <3>1, <3>2 DEF Heeded, Action
    <3> QED
      BY <1>d, <2>0, <3>1, <3>3
  <2>2. CASE ScanOverride
    <3> DEFINE k == args[pos].flag
               w == OverrideValue(args, pos)
    <3>1. k \in Key /\ w # None
      BY <2>2 DEF ScanOverride, OverrideValue
    <3>2. CASE Meaning(k, w) = Malformed
      <4>1. Heeded' /\ phase' = "usage" /\ pos' = pos
        BY <1>0, <2>0, <2>2, <3>2 DEF ScanOverride, ToUsage, Heeded
      <4> QED
        BY <1>0, <1>d, <2>0, <4>1 DEF TypeOK, groups
    <3>3. CASE Meaning(k, w) # Malformed
      <4>1. Meaning(k, w) \in Setting
        BY <3>1, <3>3, MeaningType
      <4>2. phase' = phase /\ pos' = pos + 1 /\ options' = [options EXCEPT !.over[k] = Meaning(k, w)]
        BY <2>2, <3>3 DEF ScanOverride, Passed
      <4> HIDE DEF k, w
      <4>3. Heeded'
        BY <1>0, <2>0, <3>1, <4>1, <4>2 DEF Heeded, Overrides
      <4> QED
        BY <1>d, <2>0, <4>2, <4>3
    <3> QED
      BY <3>2, <3>3
  <2>3. CASE ScanProfile
    <3> DEFINE profile == ParseProfile(SubSeq(args, pos + 1, Len(args)))
    <3>1. CASE profile = Malformed
      <4>1. Heeded' /\ phase' = "usage" /\ pos' = pos
        BY <1>0, <2>0, <2>3, <3>1 DEF ScanProfile, ToUsage, Heeded
      <4> QED
        BY <1>0, <1>d, <2>0, <4>1 DEF TypeOK, groups
    <3>2. CASE profile # Malformed
      <4>1. Sensible(profile)
        BY <3>2, ProfileType
      <4>2. /\ options' = [options EXCEPT !.command = "profile", !.profile = profile]
            /\ phase' = "dispatch" /\ pos' = pos
        BY <2>3, <3>2 DEF ScanProfile
      <4> HIDE DEF profile
      <4>3. Heeded'
        BY <1>0, <4>1, <4>2 DEF Heeded, Sensible
      <4> QED
        BY <1>0, <1>d, <2>0, <4>2, <4>3 DEF TypeOK, groups
    <3> QED
      BY <3>1, <3>2
  <2>4. CASE ScanOther
    <3>1. Heeded'
      BY <1>0, <2>0, <2>4 DEF ScanOther, Passed, Heeded
    <3> QED
      BY <1>d, <2>0, <2>4, <3>1 DEF ScanOther, Passed
  <2> QED
    BY <1>3, <2>1, <2>2, <2>3, <2>4 DEF Scan
<1>4. CASE ScanEnd
  <2>1. Heeded'
    BY <1>0, <1>4 DEF ScanEnd, parsing, Heeded
  <2> QED
    BY <1>0, <1>4, <1>d, <2>1 DEF ScanEnd, parsing, TypeOK
<1>5. CASE Usage
  BY <1>5, <1>a, <1>c DEF Usage, Exit, files
<1>6. CASE Relaunch
  <2>1. phase = "dispatch" /\ UNCHANGED <<files, groups, autostart, faster, runs, args, run, quiet, plan>>
    BY <1>6 DEF Relaunch
  <2>2. CASE Exit(EXIT_OK) /\ UNCHANGED <<pos, options, elevated>>
    BY <1>a, <1>c, <2>1, <2>2 DEF Exit, files, parsing
  <2>3. CASE elevated' = TRUE /\ phase' = "scan" /\ pos' = 1 /\ options' = Default /\ UNCHANGED code
    <3>1. TypeOK'
      BY <1>0, <1>e, <2>1, <2>3 DEF TypeOK, groups, files, run
    <3>2. Heeded'
      BY <2>3 DEF Heeded, Default, NoOverride, Overrides, Informs, Action
    <3> QED
      BY <2>1, <2>3, <3>1, <3>2 DEF Typed, Running, run
  <2> QED
    BY <1>6, <2>2, <2>3 DEF Relaunch
<1>7. CASE Report \/ RestorePoint \/ Menu \/ Plan \/ ListProfiles
  <2>1. /\ UNCHANGED <<files, groups, autostart, faster, runs, parsing, elevated, run, quiet>>
        /\ phase' = "exit" /\ code' \in Codes3
    BY <1>7 DEF Report, RestorePoint, Menu, Plan, ListProfiles, Simple, Exit
  <2> QED
    BY <1>a, <1>c, <2>1 DEF files
<1>8. CASE Apply
  <2>1. Resolved(cfg, options.over) \in Saved
    BY <1>0, <1>c, ResolvedType DEF Heeded
  <2>2. phase = "dispatch" /\ options.command = "apply" /\ elevated
    BY <1>8 DEF Apply, Dispatched, NeedsElevation
  <2> QED
    BY <1>8, <1>b, <1>c, <2>1, <2>2, EveryGroup DEF Apply, ToApply, Simple, Running, files
<1>9. CASE Revert
  <2>1. phase = "dispatch" /\ options.command \in {"revert", "undo"} /\ elevated
    BY <1>9 DEF Revert, Dispatched, NeedsElevation
  <2> QED
    BY <1>9, <1>b, <1>c, <2>1, EveryGroup DEF Revert, Simple, Running, files
<1>10. CASE Status
  <2>1. Resolved(cfg, options.over) \in Saved
    BY <1>0, <1>c, ResolvedType DEF Heeded
  <2> QED
    BY <1>10, <1>b, <1>c, <2>1, EveryGroup DEF Status, Dispatched, Simple, Running, files
<1>11. CASE ProfileApply
  <2>1. /\ phase = "dispatch" /\ options.command = "profile" /\ options.profile.op = "apply"
        /\ elevated /\ UNCHANGED <<profiles, groups, autostart, faster, runs, parsing, elevated, quiet>>
    BY <1>11 DEF ProfileApply, OnProfile, Dispatched, NeedsElevation, AppliesProfile, Simple
  <2>2. options.profile.name \in Name
    BY <1>0, <2>1 DEF Heeded, Sensible
  <2>3. CASE Exit(EXIT_ERROR) /\ UNCHANGED <<cfg, run>>
    BY <1>a, <1>c, <2>1, <2>3 DEF Exit
  <2>4. CASE /\ profiles[options.profile.name] # None
             /\ cfg' = SavedByApply(options.profile.name)
             /\ ToApply(Resolved(cfg', options.over))
    <3>1. cfg' \in Saved
      BY <1>c, <2>2, <2>4 DEF SavedByApply
    <3>2. Resolved(cfg', options.over) \in Saved
      BY <1>0, <3>1, ResolvedType DEF Heeded
    <3> QED
      BY <1>b, <1>c, <2>1, <2>4, <3>1, <3>2, EveryGroup DEF ToApply, Running
  <2> QED
    BY <1>11, <2>3, <2>4 DEF ProfileApply
<1>12. CASE SaveProfile
  <2>1. /\ options.command = "profile" /\ options.profile.op = "save"
        /\ UNCHANGED <<cfg, groups, autostart, faster, runs, parsing, elevated, run, quiet>>
        /\ phase' = "exit" /\ code' \in Codes3
    BY <1>12 DEF SaveProfile, OnProfile, Dispatched, Simple, Exit
  <2>2. options.profile.name \in Name /\ Resolved(cfg, options.over) \in Saved
    BY <1>0, <1>c, <2>1, ResolvedType DEF Heeded, Sensible
  <2>3. Shelved(profiles')
    BY <1>12, <1>c, <2>2 DEF SaveProfile
  <2> QED
    BY <1>a, <1>c, <2>1, <2>3
<1>13. CASE DeleteProfile
  <2>1. /\ UNCHANGED <<cfg, groups, autostart, faster, runs, parsing, elevated, run, quiet>>
        /\ phase' = "exit" /\ code' \in Codes3
    BY <1>13 DEF DeleteProfile, OnProfile, Dispatched, Simple, Exit
  <2>2. Shelved(profiles')
    BY <1>13, <1>c DEF DeleteProfile
  <2> QED
    BY <1>a, <1>c, <2>1, <2>2
<1>14. CASE ApplyGroup \/ RevertGroup \/ Check
  <2>1. /\ todo \in Seq(Groups) /\ todo # <<>> /\ todo' = Tail(todo)
        /\ phase \in Running
        /\ UNCHANGED <<files, faster, runs, parsing, elevated, config, quiet, phase, autostart, code>>
    BY <1>0, <1>14 DEF ApplyGroup, RevertGroup, Check, During, NextGroup, TypeOK, Running
  <2>2. Head(todo) \in Groups /\ todo' \in Seq(Groups)
    BY <2>1, HeadLeaves
  <2>3. Resolver(config, TRUE) \in Provider /\ config \in Saved
    BY <1>0, <2>1 DEF Resolver, Typed, Saved, TypeOK
  <2>4. /\ machine' \in [Group -> Setting \cup Provider \cup {"own"}] /\ short' \subseteq Group
        /\ errors' \in BOOLEAN /\ drifted' \in BOOLEAN
    <3>1. CASE ApplyGroup
      <4>1. CASE Head(todo) \in Enabled(config)
        <5>1. Head(todo) \in Group /\ Target(config, Head(todo), Resolver(config, TRUE)) \in Setting \cup Provider
          BY <2>3, <4>1, TargetType DEF Enabled
        <5>2. Set(Head(todo), Target(config, Head(todo), Resolver(config, TRUE)), Head(todo) \in Lenient)
          BY <3>1, <4>1 DEF ApplyGroup
        <5> QED
          BY <1>0, <5>1, <5>2, SetType
      <4> QED
        BY <1>0, <3>1, <4>1 DEF ApplyGroup, TypeOK, groups
    <3>2. CASE RevertGroup
      <4>1. CASE Head(todo) \in Group
        BY <1>0, <3>2, <4>1, SetType DEF RevertGroup
      <4> QED
        BY <1>0, <3>2, <4>1 DEF RevertGroup, TypeOK, groups
    <3>3. CASE Check
      BY <1>0, <3>3 DEF Check, TypeOK, groups
    <3> QED
      BY <1>14, <3>1, <3>2, <3>3
  <2>5. TypeOK'
    BY <1>0, <2>1, <2>2, <2>4 DEF TypeOK, groups, files, parsing
  <2>6. Heeded'
    BY <1>0, <2>1 DEF Heeded, parsing
  <2> QED
    BY <2>1, <2>5, <2>6 DEF Typed, parsing, Running
<1>15. CASE ApplyEnd \/ RevertEnd \/ StatusEnd
  <2>1. /\ UNCHANGED <<files, faster, runs, parsing, elevated, config, quiet, groups, todo, drifted>>
        /\ autostart' \in BOOLEAN /\ errors' \in BOOLEAN
        /\ phase' = "exit" /\ code' \in Codes3
    BY <1>0, <1>15 DEF ApplyEnd, RevertEnd, StatusEnd, During, Exit, Finish, StatusCode, TypeOK
  <2>2. TypeOK'
    BY <1>0, <2>1 DEF TypeOK, groups, files, parsing
  <2>3. Heeded'
    BY <1>0, <2>1 DEF Heeded, parsing
  <2> QED
    BY <2>1, <2>2, <2>3 DEF Typed, parsing, Running
<1>16. CASE Drift \/ UNCHANGED vars
  <2>1. /\ UNCHANGED <<files, autostart, runs, parsing, elevated, phase, run, code>>
        /\ machine' \in [Group -> Setting \cup Provider \cup {"own"}] /\ faster' \in Provider
        /\ short' \subseteq Group
        /\ quiet' \in BOOLEAN
    BY <1>0, <1>16 DEF Drift, Wholly, groups, vars, TypeOK
  <2>2. TypeOK'
    BY <1>0, <2>1 DEF TypeOK, groups, files, parsing, run
  <2>3. Heeded'
    BY <1>0, <2>1 DEF Heeded, parsing
  <2> QED
    BY <2>1, <2>2, <2>3 DEF Typed, parsing, run, Running
<1> QED
  BY <1>1, <1>2, <1>3, <1>4, <1>5, <1>6, <1>7, <1>8, <1>9, <1>10, <1>11, <1>12, <1>13,
     <1>14, <1>15, <1>16 DEF Next

\* The variables keep their types, whatever the argument lists: what parse takes from
\* an override is a setting, what it takes from --profile names a profile (parse,
\* parse_mtu, parse_profile, resolved_cfg).
THEOREM TypeCorrect == Spec => []TypeOK
<1>1. Typed => TypeOK
  BY DEF Typed
<1> QED
  BY <1>1, InitTyped, NextTyped, PTL DEF Spec

-----------------------------------------------------------------------------
\* What may be changed, and what it may become.

LEMMA OnlyRuns ==
  ASSUME [Next]_vars, quiet' = quiet
  PROVE  /\ groups' # groups \/ autostart' # autostart => phase \in {"apply", "revert"}
         /\ cfg' # cfg => ProfileApply
<1>1. CASE Start \/ Inform \/ Scan \/ ScanEnd \/ Usage \/ Relaunch
  BY <1>1 DEF Start, Inform, Scan, ScanEnd, Usage, Relaunch, files
<1>2. CASE Report \/ RestorePoint \/ Menu \/ Plan \/ Apply \/ Revert \/ Status
  BY <1>2 DEF Report, RestorePoint, Menu, Plan, Apply, Revert, Status, Simple, files
<1>3. CASE ProfileApply \/ SaveProfile \/ DeleteProfile \/ ListProfiles
  BY <1>3 DEF ProfileApply, SaveProfile, DeleteProfile, ListProfiles, Simple, files
<1>4. CASE ApplyGroup \/ RevertGroup \/ Check \/ ApplyEnd \/ RevertEnd \/ StatusEnd
  BY <1>4 DEF ApplyGroup, RevertGroup, Check, ApplyEnd, RevertEnd, StatusEnd, During, NextGroup, files
<1>5. CASE Drift
  BY <1>5 DEF Drift
<1>6. CASE UNCHANGED vars
  BY <1>6 DEF vars, files, groups
<1> QED
  BY <1>1, <1>2, <1>3, <1>4, <1>5, <1>6 DEF Next

\* Groups and autostart are changed by an elevated process alone, and config.json by
\* the application of a profile alone, into that profile (main, ensure_elevated,
\* run_profile, run_apply, run_revert).
THEOREM ChangedAsAllowed == Spec => ChangesAsAllowed
<1>1. Typed /\ [Next]_vars =>
        [quiet' = quiet =>
           /\ groups' # groups \/ autostart' # autostart => elevated
           /\ cfg' # cfg => elevated /\ AppliesProfile(options)
                            /\ cfg' = profiles[options.profile.name]]_vars
  <2> SUFFICES ASSUME Typed, [Next]_vars, quiet' = quiet
               PROVE  /\ groups' # groups \/ autostart' # autostart => elevated
                      /\ cfg' # cfg => elevated /\ AppliesProfile(options)
                                       /\ cfg' = profiles[options.profile.name]
    OBVIOUS
  <2>1. groups' # groups \/ autostart' # autostart => elevated
    BY OnlyRuns DEF Typed
  <2>2. ASSUME cfg' # cfg
        PROVE  elevated /\ AppliesProfile(options) /\ cfg' = profiles[options.profile.name]
    <3>1. ProfileApply
      BY <2>2, OnlyRuns
    <3> QED
      BY <2>2, <3>1 DEF ProfileApply, OnProfile, Dispatched, NeedsElevation, AppliesProfile, SavedByApply
  <2> QED
    BY <2>1, <2>2
<1> QED
  BY <1>1, InitTyped, NextTyped, PTL DEF Spec, ChangesAsAllowed

-----------------------------------------------------------------------------
\* The parser.

LEMMA Least ==
  ASSUME NEW S, NEW i \in S, S \subseteq Int, \A j \in S : i <= j
  PROVE  Min(S) = i
<1>1. Min(S) \in S /\ \A j \in S : Min(S) <= j
  BY DEF Min
<1>2. Min(S) \in Int /\ i \in Int /\ Min(S) <= i /\ i <= Min(S)
  BY <1>1
<1> QED
  BY <1>2

LEMMA Greatest ==
  ASSUME NEW S, NEW i \in S, S \subseteq Int, \A j \in S : j <= i
  PROVE  Max(S) = i
<1>1. Max(S) \in S /\ \A j \in S : Max(S) >= j
  BY DEF Max
<1>2. Max(S) \in Int /\ i \in Int /\ Max(S) >= i /\ Max(S) <= i
  BY <1>1
<1> QED
  BY <1>2

\* At the end of a list without --profile, the parser has what the comments say.
LEMMA ReadAll ==
  ASSUME Read, Len(args) \in Nat, pos = Len(args) + 1, options.over \in Overrides
  PROVE  ~DocumentedError /\ options.over = DocumentedOver /\ options.command = DocumentedCommand
<1>1. \A k \in Key : Given(k) = {i \in 1..pos - 1 : IsGiven(k, i)}
  BY DEF Given, IsGiven
<1>2. ~DocumentedError
  BY <1>1 DEF Read, NoneWrong, DocumentedError
<1>3. ASSUME NEW k \in Key
      PROVE  options.over[k] = IF Given(k) = {} THEN None
                               ELSE Meaning(k, OverrideValue(args, Max(Given(k))))
  <2>1. CASE options.over[k] = None /\ \A i \in 1..pos - 1 : ~IsGiven(k, i)
    BY <1>1, <2>1
  <2>2. ASSUME NEW i \in 1..pos - 1, IsGiven(k, i),
               options.over[k] = Meaning(k, OverrideValue(args, i)),
               \A j \in i + 1..pos - 1 : ~IsGiven(k, j)
        PROVE  options.over[k] = IF Given(k) = {} THEN None
                                 ELSE Meaning(k, OverrideValue(args, Max(Given(k))))
    <3>1. i \in Given(k) /\ \A j \in Given(k) : j \in Int /\ j <= i
      BY <1>1, <2>2
    <3>2. Max(Given(k)) = i
      BY <3>1, Greatest
    <3> QED
      BY <2>2, <3>1, <3>2
  <2> QED
    BY <2>1, <2>2 DEF Read, LastGiven
<1>4. options.over = DocumentedOver
  BY <1>3 DEF DocumentedOver, Overrides
<1>5. options.command = DocumentedCommand
  <2> DEFINE actions == {i \in 1..Len(args) : \/ args[i].value = None /\ args[i].flag \in Action
                                              \/ args[i] = Flag("profile")}
  <2>2. Len(args) = pos - 1 /\ actions = {i \in 1..pos - 1 : IsAction(i)}
    BY DEF IsAction, Read
  <2>3. CASE options.command = "interactive" /\ \A i \in 1..pos - 1 : ~IsAction(i)
    BY <2>2, <2>3 DEF DocumentedCommand
  <2>4. ASSUME NEW i \in 1..pos - 1, IsAction(i), options.command = args[i].flag,
               \A j \in 1..i - 1 : ~IsAction(j)
        PROVE  options.command = DocumentedCommand
    <3>1. i \in actions /\ \A j \in actions : j \in Int /\ i <= j
      BY <2>2, <2>4
    <3>2. Min(actions) = i
      BY <3>1, Least
    <3> QED
      BY <2>4, <3>1, <3>2 DEF DocumentedCommand
  <2> QED
    BY <2>3, <2>4 DEF Read, FirstAction
<1> QED
  BY <1>2, <1>4, <1>5

LEMMA NextParsing == Typed /\ Typed' /\ Parsing /\ [Next]_vars => Parsing'
<1> SUFFICES ASSUME Typed, Typed', Parsing, [Next]_vars,
                    phase' \in {"scan", "usage", "dispatch"}
             PROVE  Parsing'
  BY DEF Parsing, ParsedUnlessProfile
<1>0. TypeOK /\ Heeded /\ args \in Seq(ToSet(args)) /\ Len(args) \in Nat
  BY DEF Typed
<1>a. ASSUME phase' = "scan", pos' = 1, options' = Default PROVE Parsing'
  <2>1. Read'
    BY <1>a DEF Read, NoneWrong, LastGiven, FirstAction, Default, NoOverride
  <2> QED
    BY <1>a, <2>1 DEF Parsing, ParsedUnlessProfile
<1>b. ASSUME UNCHANGED args PROVE DocumentedError' = DocumentedError
  BY <1>b DEF Given, DocumentedError
<1>c. ASSUME UNCHANGED <<args, options>>, phase' = phase
      PROVE  ParsedAsDocumented' = ParsedAsDocumented
  BY <1>c DEF Given, DocumentedOver, DocumentedCommand, ParsedAsDocumented
\* A list with --profile is left aside.
<1>d. ASSUME NEW i \in 1..Len(args), args[i] = Flag("profile"), UNCHANGED args, phase' # "scan"
      PROVE  Parsing'
  BY <1>0, <1>d DEF Parsing, ParsedUnlessProfile, ToSet
<1>1. CASE Start
  BY <1>1, <1>a DEF Start
<1>2. CASE Relaunch
  BY <1>2, <1>a DEF Relaunch, Exit
<1>3. CASE Scan
  <2>0. phase = "scan" /\ pos \in 1..Len(args) /\ Read /\ UNCHANGED args
    BY <1>0, <1>3 DEF Scan, Scanning, TypeOK, Parsing
  <2>a. ASSUME phase' = "scan", pos' = pos + 1, args[pos] # Flag("profile"),
               NoneWrong', LastGiven', FirstAction'
        PROVE  Parsing'
    <3>1. \A i \in 1..pos' - 1 : args'[i] # Flag("profile")
      BY <2>0, <2>a DEF Read
    <3> QED
      BY <2>a, <3>1 DEF Parsing, ParsedUnlessProfile, Read
  <2>b. \A i \in 1..pos + 1 - 1 : i \in 1..pos - 1 \/ i = pos
    BY <2>0
  <2>1. CASE ScanAction
    <3>1. /\ IsAction(pos) /\ options' = [options EXCEPT !.command = Chosen(args[pos].flag)]
          /\ pos' = pos + 1 /\ phase' = "scan"
      BY <2>0, <2>1 DEF ScanAction, Passed, IsAction
    <3>2. args[pos] # Flag("profile") /\ \A k \in Key : ~IsGiven(k, pos)
      BY <3>1 DEF IsAction, IsGiven, Action, Key, Flag
    <3>3. options'.over = options.over /\ options'.command = Chosen(args[pos].flag)
      BY <1>0, <3>1 DEF Heeded
    <3>4. NoneWrong' /\ LastGiven'
      BY <2>0, <2>b, <3>1, <3>2, <3>3 DEF Read, NoneWrong, LastGiven, IsGiven
    <3>5. FirstAction'
      BY <2>0, <2>b, <3>1, <3>3 DEF Read, FirstAction, IsAction, Chosen, Action
    <3> QED
      BY <2>a, <3>1, <3>2, <3>4, <3>5
  <2>2. CASE ScanOverride
    <3> DEFINE k == args[pos].flag
               w == OverrideValue(args, pos)
    <3>1. k \in Key /\ w # None /\ IsGiven(k, pos)
      BY <2>2 DEF ScanOverride, OverrideValue, IsGiven
    <3>2. args[pos] # Flag("profile") /\ ~IsAction(pos) /\ \A l \in Key \ {k} : ~IsGiven(l, pos)
      BY <3>1 DEF IsAction, IsGiven, Action, Key, Flag
    <3>3. CASE Meaning(k, w) = Malformed
      <4>1. phase' = "usage"
        BY <2>2, <3>3 DEF ScanOverride, ToUsage
      <4>2. pos \in Given(k)
        BY <2>0, <3>1 DEF Given, IsGiven
      <4>3. DocumentedError
        BY <3>1, <3>3, <4>2 DEF DocumentedError
      <4> QED
        BY <1>b, <2>0, <4>1, <4>3 DEF Parsing, ParsedUnlessProfile
    <3>4. CASE Meaning(k, w) # Malformed
      <4>1. phase' = "scan" /\ pos' = pos + 1 /\ options' = [options EXCEPT !.over[k] = Meaning(k, w)]
        BY <2>0, <2>2, <3>4 DEF ScanOverride, Passed
      <4>2. /\ options'.command = options.command /\ options'.over[k] = Meaning(k, w)
            /\ \A l \in Key \ {k} : options'.over[l] = options.over[l]
        BY <1>0, <3>1, <4>1 DEF Heeded, Overrides
      <4>3. NoneWrong'
        BY <2>0, <2>b, <3>1, <3>2, <3>4, <4>1 DEF Read, NoneWrong, IsGiven
      <4>4. LastGiven'
        <5> SUFFICES ASSUME NEW l \in Key
                     PROVE  \/ options'.over[l] = None /\ \A i \in 1..pos + 1 - 1 : ~IsGiven(l, i)
                            \/ \E i \in 1..pos + 1 - 1 :
                                 /\ IsGiven(l, i) /\ options'.over[l] = Meaning(l, OverrideValue(args, i))
                                 /\ \A j \in i + 1..pos + 1 - 1 : ~IsGiven(l, j)
          BY <2>0, <4>1 DEF LastGiven, IsGiven
        <5>1. CASE l = k
          BY <2>0, <3>1, <4>2, <5>1
        <5>2. CASE l # k
          BY <2>0, <2>b, <3>2, <4>2, <5>2 DEF Read, LastGiven
        <5> QED
          BY <5>1, <5>2
      <4>5. FirstAction'
        BY <2>0, <2>b, <3>2, <4>1, <4>2 DEF Read, FirstAction, IsAction
      <4> QED
        BY <2>a, <3>2, <4>1, <4>3, <4>4, <4>5
    <3> QED
      BY <3>3, <3>4
  <2>3. CASE ScanProfile
    <3>1. args[pos] = Flag("profile") /\ phase' \in {"usage", "dispatch"}
      BY <2>3 DEF ScanProfile, ToUsage
    <3> QED
      BY <1>d, <2>0, <3>1
  <2>4. CASE ScanOther
    <3>1. /\ ~IsAction(pos) /\ args[pos] # Flag("profile") /\ \A k \in Key : ~IsGiven(k, pos)
          /\ pos' = pos + 1 /\ phase' = "scan" /\ options' = options
      BY <2>0, <2>4 DEF ScanOther, Passed, IsAction, IsGiven
    <3>2. NoneWrong' /\ LastGiven'
      BY <2>0, <2>b, <3>1 DEF Read, NoneWrong, LastGiven, IsGiven
    <3>3. FirstAction'
      BY <2>0, <2>b, <3>1 DEF Read, FirstAction, IsAction
    <3> QED
      BY <2>a, <3>1, <3>2, <3>3
  <2> QED
    BY <1>3, <2>1, <2>2, <2>3, <2>4 DEF Scan
<1>4. CASE ScanEnd
  <2>1. /\ phase = "scan" /\ phase' = "dispatch" /\ Read /\ UNCHANGED <<args, options>>
        /\ pos = Len(args) + 1
    BY <1>0, <1>4 DEF ScanEnd, parsing, TypeOK, Parsing
  <2>2. options.over \in Overrides
    BY <1>0 DEF Heeded
  <2>3. ~DocumentedError /\ options.over = DocumentedOver /\ options.command = DocumentedCommand
    BY <1>0, <2>1, <2>2, ReadAll
  <2> QED
    BY <2>1, <2>3 DEF Parsing, ParsedUnlessProfile, ParsedAsDocumented, DocumentedError,
       DocumentedOver, DocumentedCommand, Given
<1>5. CASE UNCHANGED vars
  BY <1>5, <1>b, <1>c DEF vars, parsing, Parsing, ParsedUnlessProfile, Read, NoneWrong, LastGiven,
     FirstAction, IsAction, IsGiven
<1>6. CASE ApplyGroup \/ RevertGroup \/ Check \/ Drift
  BY <1>6 DEF ApplyGroup, RevertGroup, Check, During, NextGroup, Drift
<1>7. CASE \/ Inform \/ Usage \/ Report \/ RestorePoint \/ Menu \/ Plan \/ Apply \/ Revert \/ Status
           \/ ProfileApply \/ SaveProfile \/ DeleteProfile \/ ListProfiles
           \/ ApplyEnd \/ RevertEnd \/ StatusEnd
  BY <1>7 DEF Inform, Usage, Report, RestorePoint, Menu, Plan, Apply, Revert, Status, ProfileApply,
     SaveProfile, DeleteProfile, ListProfiles, ApplyEnd, RevertEnd, StatusEnd, Exit, ToApply, Begin
<1> QED
  BY <1>1, <1>2, <1>3, <1>4, <1>5, <1>6, <1>7 DEF Next

\* Whatever the argument list without --profile, the parser takes the first action and
\* the last value of each override, wherever they are, and refuses exactly a list with
\* a malformed override (parse, override_value).
THEOREM ParsesUnlessProfile == Spec => []ParsedUnlessProfile
<1>1. Init => Parsing
  BY DEF Init, Parsing, ParsedUnlessProfile
<1>2. Typed /\ Parsing /\ [Next]_vars => (Typed /\ Parsing)'
  BY NextTyped, NextParsing
<1>3. Parsing => ParsedUnlessProfile
  BY DEF Parsing
<1> QED
  BY <1>1, <1>2, <1>3, InitTyped, PTL DEF Spec

-----------------------------------------------------------------------------
\* What a --status exits with.

Runs == Codes /\ Seen

LEMMA NextRuns == Typed /\ Typed' /\ Runs /\ [Next]_vars => Runs'
<1> SUFFICES ASSUME Typed, Typed', Runs, [Next]_vars PROVE Runs'
  OBVIOUS
<1>0. TypeOK /\ Codes /\ Seen
  BY DEF Typed, Runs
<1> USE DEF Finished
<1>a. ASSUME phase' \in {"scan", "usage", "dispatch", "apply", "revert"} \/ (phase' = "exit" /\ config' = None)
      PROVE  Runs'
  BY <1>a DEF Runs, Codes, Seen
<1>1. CASE Start \/ Scan \/ ScanEnd \/ Relaunch \/ Apply \/ Revert
  <2>1. CASE Start
    BY <1>a, <2>1 DEF Start
  <2>2. CASE Scan \/ ScanEnd
    BY <1>a, <2>2 DEF Scan, Scanning, ScanAction, ScanOverride, ScanProfile, ScanOther, Passed,
       ToUsage, ScanEnd
  <2>3. CASE Relaunch
    BY <1>a, <2>3 DEF Relaunch, Exit, run, Typed
  <2>4. CASE Apply \/ Revert
    BY <1>a, <2>4 DEF Apply, Revert, ToApply, Begin
  <2> QED
    BY <1>1, <2>1, <2>2, <2>3, <2>4
<1>2. CASE Inform \/ Usage \/ Report \/ RestorePoint \/ Menu \/ Plan \/ SaveProfile \/ DeleteProfile
           \/ ListProfiles
  <2>1. phase' = "exit" /\ UNCHANGED run /\ phase \in {"scan", "usage", "dispatch"}
    BY <1>2 DEF Inform, Usage, Report, RestorePoint, Menu, Plan, SaveProfile, DeleteProfile,
       ListProfiles, Exit, OnProfile, Dispatched
  <2> QED
    BY <1>a, <2>1 DEF run, Typed
<1>3. CASE ProfileApply
  <2>1. CASE Exit(EXIT_ERROR) /\ UNCHANGED <<cfg, run>>
    BY <1>3, <1>a, <2>1 DEF ProfileApply, OnProfile, Dispatched, Exit, run, Typed
  <2> QED
    BY <1>3, <1>a, <2>1 DEF ProfileApply, ToApply, Begin
<1>4. CASE Status
  <2>1. phase' = "status" /\ ~errors' /\ ~drifted' /\ \A g \in Enabled(config') : g \in ToSet(todo')
    BY <1>4, EveryGroup DEF Status, Dispatched, Begin, Enabled, Typed
  <2> QED
    BY <2>1 DEF Runs, Codes, Seen, Off
<1>5. CASE ApplyGroup \/ RevertGroup
  BY <1>5, <1>a DEF ApplyGroup, RevertGroup, During, NextGroup
<1>6. CASE Check
  <2>1. /\ phase = "status" /\ phase' = phase
        /\ UNCHANGED <<config, quiet, faster, groups>>
        /\ todo \in Seq(Groups) /\ todo # <<>> /\ todo' = Tail(todo)
    BY <1>0, <1>6 DEF Check, During, NextGroup, TypeOK, groups
  <2>2. ToSet(todo) = {Head(todo)} \cup ToSet(todo')
    BY <2>1, HeadLeaves
  <2>3. Off' = Off
    BY <2>1 DEF Off, Aligned, Resolver, groups
  <2>4. /\ errors' => errors \/ (Head(todo) \in Off /\ Head(todo) \notin Silent)
        /\ drifted' => drifted \/ Head(todo) \in Off
        /\ (errors => errors') /\ (drifted => drifted')
        /\ Head(todo) \in Off /\ Head(todo) \in Silent => drifted'
        /\ Head(todo) \in Off /\ Head(todo) \notin Silent => errors' \/ drifted'
    <3>1. Head(todo) \in Off <=> Head(todo) \in Enabled(config) /\ ~Aligned(config, Head(todo))
      BY DEF Off
    <3> QED
      BY <1>6, <3>1 DEF Check
  <2>5. Seen'
    BY <1>0, <2>1, <2>2, <2>3, <2>4 DEF Seen
  <2> QED
    BY <2>1, <2>5 DEF Runs, Codes
<1>7. CASE ApplyEnd \/ RevertEnd
  <2>1. options'.command # "status" /\ phase' = "exit"
    BY <1>7 DEF ApplyEnd, RevertEnd, During, Exit, parsing, Typed
  <2> QED
    BY <2>1 DEF Runs, Codes, Seen
<1>8. CASE StatusEnd
  <2>1. /\ phase = "status" /\ phase' = "exit" /\ todo = <<>>
        /\ UNCHANGED <<config, quiet, faster, groups, todo, errors, drifted, options>>
        /\ code' = StatusCode
    BY <1>8 DEF StatusEnd, During, Exit, parsing
  <2>2. Seen'
    BY <1>0, <2>1 DEF Seen, Off, Aligned, Resolver, groups
  <2> QED
    BY <2>1, <2>2 DEF Runs, Codes, StatusCode
<1>9. CASE Drift
  <2>1. ~quiet' /\ UNCHANGED <<options, phase, todo, config, errors, drifted, code>>
    BY <1>9 DEF Drift, parsing, run
  <2> QED
    BY <1>0, <2>1 DEF Runs, Codes, Seen, StatusCode
<1>10. CASE UNCHANGED vars
  BY <1>0, <1>10 DEF vars, parsing, run, groups, Runs, Codes, Seen, Off, Aligned, Resolver, StatusCode
<1> QED
  BY <1>1, <1>2, <1>3, <1>4, <1>5, <1>6, <1>7, <1>8, <1>9, <1>10 DEF Next

LEMMA AlwaysRuns == Spec => [](Typed /\ Runs)
<1>1. Init => Runs
  BY DEF Init, Runs, Codes, Seen, Finished
<1>2. Typed /\ Runs /\ [Next]_vars => (Typed /\ Runs)'
  BY NextTyped, NextRuns
<1> QED
  BY <1>1, <1>2, InitTyped, PTL DEF Spec

\* The exit code of a --status during which nothing changed is that of the groups
\* enabled for the run: 0 when all are aligned, 1 when those that are not are silent
\* ones, which a caller may ignore (run_status).
THEOREM StatusIsExact == Spec => []StatusExact
<1>1. Typed /\ Runs => StatusExact
  <2> SUFFICES ASSUME Typed, Runs, Ran("status")
               PROVE  /\ code = EXIT_OK <=> Off = {}
                      /\ Off # {} /\ Off \subseteq Silent => code = EXIT_DRIFT
    BY DEF StatusExact, Off
  <2>1. Finished /\ quiet
    BY DEF Ran, Finished
  <2>2. /\ code = StatusCode
        /\ errors => \E g \in Off : g \notin Silent
        /\ drifted => Off # {}
        /\ \A g \in Off : drifted \/ (errors /\ g \notin Silent)
    BY <2>1 DEF Runs, Codes, Seen, ToSet
  <2> QED
    BY <2>2 DEF StatusCode, EXIT_OK, EXIT_DRIFT, EXIT_ERROR
<1> QED
  BY <1>1, AlwaysRuns, PTL

-----------------------------------------------------------------------------
\* What an --apply changes.

LEMMA OnlyApplies ==
  ASSUME [Next]_vars, phase = "apply", quiet' = quiet, groups' # groups
  PROVE  ApplyGroup
<1>1. ~(Start \/ Inform \/ Scan \/ ScanEnd \/ Usage \/ Relaunch)
  BY DEF Start, Inform, Scan, Scanning, ScanEnd, Usage, Relaunch
<1>2. ~(Report \/ RestorePoint \/ Menu \/ Plan \/ Apply \/ Revert \/ Status)
  BY DEF Report, RestorePoint, Menu, Plan, Apply, Revert, Status, Dispatched
<1>3. ~(ProfileApply \/ SaveProfile \/ DeleteProfile \/ ListProfiles)
  BY DEF ProfileApply, SaveProfile, DeleteProfile, ListProfiles, OnProfile, Dispatched
<1>4. ~(RevertGroup \/ Check \/ ApplyEnd \/ RevertEnd \/ StatusEnd)
  BY DEF RevertGroup, Check, ApplyEnd, RevertEnd, StatusEnd, During
<1>5. ~Drift /\ ~UNCHANGED vars
  BY DEF Drift, vars
<1> QED
  BY <1>1, <1>2, <1>3, <1>4, <1>5 DEF Next

\* An --apply, failing or not, changes only what a --plan of its config listed, and only
\* to what it listed: the probes of both choose the same provider while the same one
\* is faster (run_plan, run_apply, resolvers).
THEOREM PlanIsKept == Spec => PlanKept
<1>1. Typed /\ Printed /\ [Next]_vars => Printed'
  <2> SUFFICES ASSUME Typed, Printed, [Next]_vars PROVE Printed'
    OBVIOUS
  <2>1. CASE Plan
    <3>1. Resolved(cfg, options.over) \in Saved
      BY ResolvedType DEF Typed, TypeOK, Heeded
    <3> QED
      BY <2>1, <3>1 DEF Plan, Printed, Resolver, ProbedForPlan
  <2>2. ASSUME ~Plan PROVE plan' = plan
    BY <2>2 DEF Next, vars, Start, Inform, Scan, ScanEnd, Usage, Relaunch, Report, RestorePoint,
       Menu, Apply, Revert, Status, ProfileApply, SaveProfile, DeleteProfile, ListProfiles,
       ApplyGroup, RevertGroup, Check, ApplyEnd, RevertEnd, StatusEnd, During, Drift
  <2> QED
    BY <2>1, <2>2 DEF Printed
<1>2. Init => Printed
  BY DEF Init, Printed
<1>3. Typed /\ Printed /\ [Next]_vars =>
        [/\ phase = "apply" /\ quiet' = quiet
         /\ plan # None /\ plan.config = config /\ plan.faster = faster
         => \A g \in Group : machine'[g] # machine[g] =>
              g \in DOMAIN plan.set /\ machine'[g] = plan.set[g]]_vars
  <2> SUFFICES ASSUME Typed, Printed, [Next]_vars, phase = "apply", quiet' = quiet,
                      plan # None, plan.config = config, plan.faster = faster,
                      NEW g \in Group, machine'[g] # machine[g]
               PROVE  g \in DOMAIN plan.set /\ machine'[g] = plan.set[g]
    OBVIOUS
  <2> DEFINE v == Target(config, g, Resolver(config, TRUE))
  <2>1. ApplyGroup
    BY OnlyApplies DEF groups
  <2>2. Head(todo) = g /\ g \in Enabled(config) /\ Set(g, v, g \in Lenient)
    <3>1. Head(todo) \in Enabled(config)
          /\ Set(Head(todo), Target(config, Head(todo), Resolver(config, TRUE)), Head(todo) \in Lenient)
      BY <2>1 DEF ApplyGroup, groups
    <3>2. Head(todo) = g
      BY <3>1 DEF Set, Wholly, Nowhere, Partly, groups, Typed, TypeOK
    <3> QED
      BY <3>1, <3>2
  <2>3. machine'[g] = v
    BY <2>2 DEF Set, Wholly, Nowhere, Partly, groups, Typed, TypeOK
  <2>4. plan.set = [h \in Enabled(config) |-> Target(config, h, Resolver(config, TRUE))]
    BY DEF Printed, Resolver
  <2> QED
    BY <2>2, <2>3, <2>4
<1> QED
  BY <1>1, <1>2, <1>3, InitTyped, NextTyped, PTL DEF Spec, PlanKept

=============================================================================
