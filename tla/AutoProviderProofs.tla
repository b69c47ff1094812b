--------------------------- MODULE AutoProviderProofs ---------------------------
(***************************************************************************)
(* Proofs about AutoProvider, for every set of conditions of the network    *)
(* and every size of the window.                                            *)
(***************************************************************************)
EXTENDS AutoProvider, SequenceTheorems, TLAPS

-----------------------------------------------------------------------------
\* The window keeps at most History outcomes.
LEMMA WindowType ==
    ASSUME NEW h \in Seq(Times)
    PROVE  Window(h) \in Seq(Times) /\ Len(Window(h)) <= History
<1> DEFINE first == (IF Len(h) > History THEN Len(h) - History ELSE 0) + 1
<1>1. first \in 1..Len(h) + 1 /\ Len(h) \in Nat /\ Len(h) - first + 1 <= History
  BY ProviderAssumption
<1>2. \A i \in first..Len(h) : h[i] \in Times
  BY <1>1
<1>3. SubSeq(h, first, Len(h)) \in Seq(Times)
  BY <1>1, <1>2, SubSeqProperties
<1>4. Len(SubSeq(h, first, Len(h))) <= History
  BY <1>1, SubSeqProperties, ProviderAssumption
<1> QED
  BY <1>3, <1>4 DEF Window

LEMMA RecordType ==
    ASSUME NEW e \in Endpoints, NEW o \in Times
    PROVE  Record(e, o) \in Endpoints /\ Len(Record(e, o).history) <= History
<1>1. Append(e.history, o) \in Seq(Times)
  BY DEF Endpoints
<1> QED
  BY <1>1, WindowType DEF Record, Endpoints

\* An endpoint that was asked once remembers that outcome and no other.
OneSample(e) == e.history = <<e.last>>

LEMMA FirstSample ==
    ASSUME NEW o \in Times
    PROVE  OneSample(Record(Endpoint, o))
<1>1. Append(<<>>, o) = <<o>> /\ Len(<<o>>) = 1
  OBVIOUS
<1>2. Window(<<o>>) = SubSeq(<<o>>, 1, 1)
  BY <1>1, ProviderAssumption DEF Window
<1>3. SubSeq(<<o>>, 1, 1) = <<o>>
  <2>1. <<o>> \in Seq(Times) /\ 1 \in 1..Len(<<o>>) + 1 /\ 1 \in Int
    BY <1>1
  <2>2. SubSeq(<<o>>, 1, 1) \in Seq(Times) /\ Len(SubSeq(<<o>>, 1, 1)) = 1
    BY <2>1, SubSeqProperties
  <2>3. SubSeq(<<o>>, 1, 1)[1] = o
    BY <2>1, SubSeqProperties
  <2>4. \A i \in 1..Len(SubSeq(<<o>>, 1, 1)) : SubSeq(<<o>>, 1, 1)[i] = <<o>>[i]
    BY <2>2, <2>3
  <2>5. Len(SubSeq(<<o>>, 1, 1)) = Len(<<o>>)
    BY <1>1, <2>2
  <2> HIDE DEF Times
  <2> QED
    BY <2>1, <2>2, <2>4, <2>5, SeqEqual, Zenon
<1> QED
  BY <1>1, <1>2, <1>3 DEF OneSample, Record, Endpoint

LEMMA FreshType == Fresh \in [Provider -> Endpoints] /\ \A p \in Provider : Len(Fresh[p].history) <= History
<1>1. Endpoint \in Endpoints /\ Endpoint.history = <<>>
  BY DEF Endpoint, Endpoints, Times
<1> QED
  BY <1>1, ProviderAssumption DEF Fresh

LEMMA ResolveType ==
    ASSUME NEW setting \in Provider \cup {Automatic}, NEW latency
    PROVE  Resolve(setting, latency) \in Provider
  BY DEF Resolve, Provider

LEMMA MoveType ==
    ASSUME moves \in 0..MaxMoves, Move
    PROVE  moves' \in 0..MaxMoves
  BY ProviderAssumption DEF Move

LEMMA InitTyped == Init => TypeOK
<1> SUFFICES ASSUME Init PROVE TypeOK
  OBVIOUS
<1>1. measured = Fresh
  BY DEF Init, Fresh
<1>2. Cloudflare \in Provider /\ 0 \in 0..MaxMoves
  BY ProviderAssumption DEF Provider
<1> QED
  BY <1>1, <1>2, FreshType DEF Init, TypeOK

-----------------------------------------------------------------------------
\* What the round under way holds at each place of the thread.
Round ==
    /\ pc = "off" => at = "none"
    /\ at \notin {"ping", "dns"} => asked = Cloudflare
    /\ at = "ping" /\ asked = Cloudflare => measured = Fresh
    /\ at = "ping" /\ asked = Google => OneSample(measured[Cloudflare]) /\ measured[Google] = Endpoint
    /\ at \in {"dns", "publish"} => \A p \in Provider : OneSample(measured[p])
    /\ slot # None => \A p \in Provider : OneSample(slot[p])

Measured == TypeOK /\ Round

LEMMA PingKeeps ==
    ASSUME Measured, ProbeThread, Ping
    PROVE  Measured'
<1> USE ProviderAssumption DEF Measured
<1>1. asked \in Provider /\ net[asked].ping \in Times /\ measured[asked] \in Endpoints
  BY DEF TypeOK
<1>2. /\ Record(measured[asked], net[asked].ping) \in Endpoints
      /\ Len(Record(measured[asked], net[asked].ping).history) <= History
  BY <1>1, RecordType
<1>3. measured' \in [Provider -> Endpoints] /\ \A p \in Provider : Len(measured'[p].history) <= History
  BY <1>1, <1>2 DEF Ping, TypeOK
<1>4. measured[asked] = Endpoint
  BY <1>1 DEF Ping, Round, Fresh, Provider
<1>5. OneSample(measured'[asked])
  BY <1>1, <1>4, FirstSample DEF Ping, TypeOK
<1>6. TypeOK'
  BY <1>3 DEF ProbeThread, Ping, AskGoogle, AskedBoth, TypeOK, Provider, settings
<1>7. Round'
  <2>0. at = "ping" /\ pc' = pc /\ pc # "off" /\ slot' = slot
    BY DEF ProbeThread, Ping, Round
  <2>1. CASE asked = Cloudflare
    <3>1. asked' = Google /\ at' = "ping"
      BY <2>0, <2>1 DEF Ping, AskGoogle, AskedBoth
    <3>2. measured'[Google] = Endpoint
      BY <1>1, <2>0, <2>1 DEF Ping, Round, Fresh, Provider
    <3> QED
      BY <1>5, <2>0, <2>1, <3>1, <3>2 DEF Round
  <2>2. CASE asked = Google
    <3>1. asked' = Cloudflare /\ at' = "dns"
      BY <2>0, <2>2 DEF Ping, AskGoogle, AskedBoth
    <3>2. measured'[Cloudflare] = measured[Cloudflare]
      BY <1>1, <2>2 DEF Ping, TypeOK, Provider
    <3>3. \A p \in Provider : OneSample(measured'[p])
      BY <1>5, <2>0, <2>2, <3>2 DEF Round, OneSample, Provider
    <3> QED
      BY <2>0, <3>1, <3>3 DEF Round
  <2> QED
    BY <1>1, <2>1, <2>2 DEF Provider
<1> QED
  BY <1>6, <1>7

LEMMA QueryKeeps ==
    ASSUME Measured, ProbeThread, Query
    PROVE  Measured'
<1> USE ProviderAssumption DEF Measured
<1>1. asked \in Provider /\ net[asked].dns \in Times /\ measured \in [Provider -> Endpoints]
  BY DEF TypeOK
<1>2. measured' \in [Provider -> Endpoints]
  BY <1>1 DEF Query, Endpoints
<1>3. \A p \in Provider : measured'[p].history = measured[p].history /\ measured'[p].last = measured[p].last
  BY <1>1 DEF Query, Endpoints
<1>4. TypeOK'
  BY <1>2, <1>3 DEF ProbeThread, Query, AskGoogle, AskedBoth, TypeOK, Provider, settings
<1>5. Round'
  <2>1. at = "dns" /\ pc' = pc /\ pc # "off" /\ slot' = slot
    BY DEF ProbeThread, Query, Round
  <2>2. (at' = "dns" /\ asked' = Google) \/ (at' = "publish" /\ asked' = Cloudflare)
    BY <2>1 DEF Query, AskGoogle, AskedBoth
  <2>3. \A p \in Provider : OneSample(measured'[p])
    BY <1>3, <2>1 DEF Round, OneSample
  <2> QED
    BY <2>1, <2>2, <2>3 DEF Round
<1> QED
  BY <1>4, <1>5

LEMMA ThreadKeeps ==
    ASSUME Measured, ProbeThread
    PROVE  Measured'
<1> USE ProviderAssumption DEF Measured
<1>1. CASE Ping
  BY <1>1, PingKeeps
<1>2. CASE Query
  BY <1>2, QueryKeeps
<1>3. CASE Publish
  BY <1>3 DEF ProbeThread, Publish, Published, TypeOK, Round, settings
<1>4. CASE Wake
  <2>1. TypeOK'
    BY <1>4, FreshType DEF ProbeThread, Wake, TypeOK, settings
  <2>2. at' = "ping" /\ asked' = Cloudflare /\ pc' # "off" /\ measured' = Fresh' /\ slot' = slot
    BY <1>4 DEF ProbeThread, Wake, Round, Fresh
  <2> QED
    BY <2>1, <2>2 DEF Round
<1> QED
  BY <1>1, <1>2, <1>3, <1>4 DEF ProbeThread

LEMMA NextMeasured == Measured /\ [Next]_vars => Measured'
<1> SUFFICES ASSUME Measured, [Next]_vars PROVE Measured'
  OBVIOUS
<1> USE ProviderAssumption DEF Measured
<1>0. ASSUME UNCHANGED probe, pc' = "off" => pc = "off" PROVE Round'
  BY <1>0 DEF Round, probe, OneSample, Fresh
<1>1. CASE ProbeThread
  BY <1>1, ThreadKeeps
<1>2. CASE Start
  <2>1. TypeOK'
    BY <1>2, FreshType, ResolveType DEF Start, SwitchTo, TypeOK, settings
  <2>2. asked = Cloudflare
    BY <1>2 DEF Start, Round
  <2> QED
    BY <1>2, <2>1, <2>2 DEF Start, Round, settings
<1>3. CASE Heal
  BY <1>3, <1>0, ResolveType DEF Heal, SwitchTo, TypeOK, probe, settings
<1>4. CASE Refresh
  BY <1>4, <1>0 DEF Refresh, TypeOK, probe, settings
<1>5. CASE ToggleDns
  <2>1. servers' \in Provider \cup {Other} /\ active' \in Provider \cup {None}
    <3>1. CASE on
      BY <1>5, <3>1 DEF ToggleDns
    <3>2. CASE ~on
      BY <1>5, <3>2, ResolveType DEF ToggleDns, SwitchTo, TypeOK
    <3> QED
      BY <3>1, <3>2
  <2>2. on' \in BOOLEAN /\ moves' \in 0..MaxMoves
    BY <1>5, MoveType DEF ToggleDns, TypeOK
  <2>3. Round'
    BY <1>5, <1>0 DEF ToggleDns, probe
  <2> QED
    BY <1>5, <2>1, <2>2, <2>3 DEF ToggleDns, TypeOK, probe
<1>6. CASE CycleProvider
  <2>1. choice' \in Provider \cup {Automatic}
    BY <1>6 DEF CycleProvider, TypeOK, Provider
  <2>2. servers' \in Provider \cup {Other} /\ active' \in Provider \cup {None}
    <3>1. CASE on
      BY <1>6, <2>1, <3>1, ResolveType DEF CycleProvider, SwitchTo
    <3>2. CASE ~on
      BY <1>6, <3>2 DEF CycleProvider, TypeOK
    <3> QED
      BY <3>1, <3>2
  <2>3. moves' \in 0..MaxMoves
    BY <1>6, MoveType DEF CycleProvider, TypeOK
  <2>4. Round'
    BY <1>6, <1>0 DEF CycleProvider, probe
  <2> QED
    BY <1>6, <2>1, <2>2, <2>3, <2>4 DEF CycleProvider, TypeOK, probe
<1>7. CASE ToggleSelfHeal
  <2>1. moves' \in 0..MaxMoves
    BY <1>7, MoveType DEF ToggleSelfHeal, TypeOK
  <2> QED
    BY <1>7, <1>0, <2>1 DEF ToggleSelfHeal, TypeOK, probe
<1>8. CASE Quit
  <2>1. TypeOK'
    <3>1. /\ net' \in Conditions
          /\ {on', selfheal', aligned'} \subseteq BOOLEAN
          /\ choice' \in Provider \cup {Automatic} /\ servers' \in Provider \cup {Other}
      BY <1>8 DEF Quit, TypeOK, settings
    <3>0. moves' \in 0..MaxMoves
      BY <1>8, MoveType DEF Quit, TypeOK
    <3>2. measured' \in [Provider -> Endpoints] /\ \A p \in Provider : Len(measured'[p].history) <= History
      BY <1>8, FreshType DEF Quit
    <3>3. asked' \in Provider /\ at' = "none" /\ pc' = "off" /\ slot' = None /\ active' = None
      BY <1>8 DEF Quit, Provider
    <3> QED
      BY <3>0, <3>1, <3>2, <3>3 DEF TypeOK
  <2>2. Round'
    BY <1>8 DEF Quit, Round
  <2> QED
    BY <2>1, <2>2
<1>9. CASE CliApply
  <2>0. moves' \in 0..MaxMoves
    BY <1>9, MoveType DEF CliApply, TypeOK
  <2>1. servers' \in Provider
    <3>1. choice \in Provider \cup {Automatic}
      BY DEF TypeOK
    <3> QED
      BY <1>9, <3>1, ResolveType DEF CliApply
  <2>2. TypeOK'
    BY <1>9, <2>0, <2>1 DEF CliApply, TypeOK, probe, settings
  <2>3. Round'
    BY <1>9, <1>0 DEF CliApply
  <2> QED
    BY <2>2, <2>3
<1>10. CASE Network
  <2>1. moves' \in 0..MaxMoves
    BY <1>10, MoveType DEF Network, TypeOK
  <2> QED
    BY <1>10, <1>0, <2>1 DEF Network, TypeOK, probe, settings
<1>11. CASE Drift
  <2>1. moves' \in 0..MaxMoves
    BY <1>11, MoveType DEF Drift, TypeOK
  <2> QED
    BY <1>11, <1>0, <2>1 DEF Drift, TypeOK, probe, settings
<1>12. CASE UNCHANGED vars
  BY <1>12, <1>0 DEF vars, TypeOK, probe, settings
<1> QED
  BY <1>1, <1>2, <1>3, <1>4, <1>5, <1>6, <1>7, <1>8, <1>9, <1>10, <1>11, <1>12 DEF Next

LEMMA AlwaysMeasured == Spec => []Measured
<1>1. Init => Measured
  BY InitTyped, ProviderAssumption DEF Init, Measured, Round, Fresh
<1>2. Measured /\ [Next]_vars => Measured'
  BY NextMeasured
<1> QED
  BY <1>1, <1>2, PTL DEF Spec

\* The variables keep their types, the windows their bound (record, spawn).
THEOREM TypeCorrect == Spec => []TypeOK
  BY AlwaysMeasured, PTL DEF Measured

\* No provider is judged by the time of an earlier round (spawn).
THEOREM RoundsAreFresh == Spec => []NoStaleTime
<1>1. Measured => NoStaleTime
  <2> SUFFICES ASSUME Measured, slot # None, NEW p \in Provider
               PROVE  slot[p].last = slot[p].history[Len(slot[p].history)]
    BY DEF NoStaleTime
  <2>1. slot[p].history = <<slot[p].last>>
    BY DEF Measured, Round, OneSample
  <2> QED
    BY <2>1
<1> QED
  BY <1>1, AlwaysMeasured, PTL

-----------------------------------------------------------------------------
\* resolve_provider takes the one that answers.
LEMMA ResolveAnswers ==
    ASSUME NEW latency, latency # None
    PROVE  LET q == Resolve(Automatic, latency)
           IN  Answers(latency, q) \/ \A p \in Provider : ~Answers(latency, p)
  BY DEF Resolve, Answers, CloudflareFaster, Provider

\* Moving by itself, the menu goes to a provider that answers, if one does, for
\* any times of the two (resolve_provider, heal).
THEOREM MovesToAnswering == Spec => AdoptsAnswering
<1>1. [Next]_vars =>
        [pc = "idle" /\ choice = Automatic /\ choice' = Automatic /\ slot # None
           /\ servers' # servers /\ servers' \in Provider =>
           \/ Answers(slot, servers')
           \/ \A p \in Provider : ~Answers(slot, p)]_vars
  <2> SUFFICES ASSUME [Next]_vars, pc = "idle", choice = Automatic, choice' = Automatic,
                      slot # None, servers' # servers, servers' \in Provider
               PROVE  Answers(slot, servers') \/ \A p \in Provider : ~Answers(slot, p)
    OBVIOUS
  <2>1. Heal \/ ToggleDns \/ CycleProvider
    BY ProviderAssumption
       DEF Next, vars, ProbeThread, Start, Refresh, ToggleSelfHeal, Quit, CliApply, Network, Drift
  <2>2. servers' = Resolve(Automatic, slot)
    BY <2>1, ProviderAssumption DEF Heal, ToggleDns, CycleProvider, SwitchTo
  <2> QED
    BY <2>2, ResolveAnswers
<1> QED
  BY <1>1, PTL DEF Spec, AdoptsAnswering

=============================================================================
