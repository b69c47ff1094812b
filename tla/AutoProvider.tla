------------------------------ MODULE AutoProvider ------------------------------
(***************************************************************************)
(* Which provider the DNS group uses when it is told to take the faster    *)
(* one: the probe thread (probe.rs) measures both providers in rounds and  *)
(* publishes each round in a slot shared with the menu; resolve_provider   *)
(* (dns.rs) picks from the slot; heal and refresh (app.rs) each ask it,    *)
(* one after the other, and the thread may publish in between.             *)
(*                                                                         *)
(* Switching the adapters is one step that succeeds; DnsSwitch has what    *)
(* may go wrong in it.                                                     *)
(***************************************************************************)
EXTENDS Integers, Sequences

CONSTANTS
    Cloudflare, Google,
    Automatic,       \* the setting that takes the faster of them
    Other,      \* servers that belong to neither
    None,
    History,    \* HISTORY: probes an endpoint remembers
    Conditions, \* bound: [ping, dns] times of each provider, None if no answer
    MaxMoves    \* bound: changes of the network, keys, ends, drifts and commands

Provider == {Cloudflare, Google}
Times == Nat \cup {None}

ASSUME ProviderAssumption ==
    /\ Cloudflare # Google
    /\ {Automatic, Other, None} \cap Provider = {}
    /\ Automatic # Other /\ Automatic # None /\ Other # None
    /\ History \in Nat \ {0}
    /\ MaxMoves \in Nat
    /\ None \notin Nat
    /\ Conditions \subseteq [Provider -> [ping : Times, dns : Times]]

VARIABLES
    net,        \* what a probe sent now would measure
    at,         \* the probe thread: "none", "ping", "dns", "publish" or "sleep"
    asked,      \* the provider it sends the ping or the query to
    measured,   \* the round it is working on: provider -> endpoint and DNS time
    slot,       \* App::latency: the last round published, or None
    pc,         \* the menu: "off", "idle", or "refresh" after a handler
    on, choice, selfheal,  \* Config: dns, dns_provider, self_heal
    servers,    \* whose servers the adapters have
    active,     \* App::active_dns
    aligned,    \* App::dns of the last refresh has all aligned
    moves       \* changes so far

probe == <<at, asked, measured, slot>>
settings == <<on, choice, selfheal>>
vars == <<net, probe, pc, settings, servers, active, aligned, moves>>

-----------------------------------------------------------------------------
\* A name that ends in Mutant is the definition below it with a mistake the
\* checks must notice.

\* Endpoint: the last success and the window of outcomes, None for a lost one.
Endpoints == [last : Times, history : Seq(Times), dns : Times]
Endpoint == [last |-> None, history |-> <<>>, dns |-> None]

Window(history) ==
    SubSeq(history, (IF Len(history) > History THEN Len(history) - History ELSE 0) + 1, Len(history))

Record(e, outcome) ==
    [e EXCEPT !.last = IF outcome = None THEN @ ELSE outcome,
              !.history = Window(Append(@, outcome))]

\* The time a provider is judged by: DNS when it was measured, else the ping.
Time(e) == IF e.dns # None THEN e.dns ELSE e.last

\* resolve_provider on the times of both.
CloudflareFasterMutant(c, g) == c = None \/ (g # None /\ c <= g)
CloudflareFaster(c, g) == g = None \/ (c # None /\ c <= g)

ResolveMutant(setting, latency) ==
    IF latency = None \/ setting # Automatic THEN setting
    ELSE IF CloudflareFaster(Time(latency[Cloudflare]), Time(latency[Google]))
    THEN Cloudflare ELSE Google
Resolve(setting, latency) ==
    IF setting # Automatic THEN setting
    ELSE IF latency = None \/ CloudflareFaster(Time(latency[Cloudflare]), Time(latency[Google]))
    THEN Cloudflare ELSE Google

\* latency_now: all probes at once.
Probed(n) == [p \in Provider |-> [Record(Endpoint, n[p].ping) EXCEPT !.dns = n[p].dns]]

TypeOK ==
    /\ net \in Conditions
    /\ at \in {"none", "ping", "dns", "publish", "sleep"}
    /\ asked \in Provider
    /\ measured \in [Provider -> Endpoints]
    /\ slot \in [Provider -> Endpoints] \cup {None}
    /\ \A p \in Provider : Len(measured[p].history) <= History
    /\ pc \in {"off", "idle", "refresh"}
    /\ {on, selfheal, aligned} \subseteq BOOLEAN
    /\ choice \in Provider \cup {Automatic}
    /\ servers \in Provider \cup {Other}
    /\ active \in Provider \cup {None}
    /\ moves \in 0..MaxMoves

Init ==
    /\ net \in Conditions
    /\ at = "none" /\ asked = Cloudflare
    /\ measured = [p \in Provider |-> Endpoint] /\ slot = None
    /\ pc = "off"
    /\ on \in BOOLEAN /\ choice \in Provider \cup {Automatic} /\ selfheal \in BOOLEAN
    /\ servers = Other /\ active = None /\ aligned = FALSE
    /\ moves = 0

-----------------------------------------------------------------------------
\* The probe thread.

\* Every round starts from empty windows.
FreshMutant == measured
Fresh == [p \in Provider |-> Endpoint]

\* Cloudflare is asked before Google.
AskGoogle == asked = Cloudflare /\ asked' = Google /\ at' = at
AskedBoth(next) == asked = Google /\ asked' = Cloudflare /\ at' = next

Ping ==
    /\ at = "ping"
    /\ measured' = [measured EXCEPT ![asked] = Record(@, net[asked].ping)]
    /\ AskGoogle \/ AskedBoth("dns")
    /\ UNCHANGED slot

Query ==
    /\ at = "dns"
    /\ measured' = [measured EXCEPT ![asked].dns = net[asked].dns]
    /\ AskGoogle \/ AskedBoth("publish")
    /\ UNCHANGED slot

PublishedMutant == IF slot = None THEN measured ELSE slot
Published == measured

Publish ==
    /\ at = "publish"
    /\ slot' = Published
    /\ at' = "sleep"
    /\ UNCHANGED <<asked, measured>>

Wake ==
    /\ at = "sleep"
    /\ at' = "ping" /\ measured' = Fresh
    /\ UNCHANGED <<asked, slot>>

ProbeThread ==
    /\ Ping \/ Query \/ Publish \/ Wake
    /\ UNCHANGED <<net, pc, settings, servers, active, aligned, moves>>

-----------------------------------------------------------------------------
\* The menu.

Move == moves < MaxMoves /\ moves' = moves + 1

\* dns::apply with p.
SwitchTo(p) == servers' = p /\ active' = p

\* App::new applies before App::run spawns the thread; then there is no slot.
Start ==
    /\ pc = "off"
    /\ IF on
       THEN SwitchTo(Resolve(choice, None))
       ELSE UNCHANGED <<servers, active>>
    /\ aligned' = (servers' = Resolve(choice, None))
    /\ pc' = "idle"
    /\ at' = "ping" /\ measured' = Fresh
    /\ UNCHANGED <<net, asked, slot, settings, moves>>

\* heal: adopt the provider that is the right one now, or repair a drift.
Heal ==
    /\ pc = "idle" /\ selfheal
    /\ LET p == Resolve(choice, slot)
       IN  IF on /\ ((active # None /\ active # p) \/ ~aligned)
           THEN SwitchTo(p)
           ELSE UNCHANGED <<servers, active>>
    /\ pc' = "refresh"
    /\ UNCHANGED <<net, probe, settings, aligned, moves>>

\* refresh, the last thing a handler does, resolves again.
Refresh ==
    /\ pc = "refresh"
    /\ aligned' = (servers = Resolve(choice, slot))
    /\ pc' = "idle"
    /\ UNCHANGED <<net, probe, settings, servers, active, moves>>

\* d, whose revert gives the adapters their own servers back.
ToggleDns ==
    /\ pc = "idle"
    /\ Move
    /\ on' = ~on
    /\ IF on
       THEN servers' = Other /\ active' = None
       ELSE SwitchTo(Resolve(choice, slot))
    /\ pc' = "refresh"
    /\ UNCHANGED <<net, probe, choice, selfheal, aligned>>

\* r: cloudflare, google, auto, and round again.
CycleProvider ==
    /\ pc = "idle"
    /\ Move
    /\ choice' = CASE choice = Cloudflare -> Google
                   [] choice = Google -> Automatic
                   [] choice = Automatic -> Cloudflare
    /\ IF on
       THEN SwitchTo(Resolve(choice', slot))
       ELSE UNCHANGED <<servers, active>>
    /\ pc' = "refresh"
    /\ UNCHANGED <<net, probe, on, selfheal, aligned>>

ToggleSelfHeal ==
    /\ pc = "idle"
    /\ Move
    /\ selfheal' = ~selfheal
    /\ UNCHANGED <<net, probe, pc, on, choice, servers, active, aligned>>

\* q, or Ctrl+C: the thread ends with the process.
Quit ==
    /\ pc = "idle"
    /\ Move
    /\ pc' = "off" /\ active' = None /\ aligned' = FALSE
    /\ at' = "none" /\ asked' = Cloudflare /\ slot' = None /\ measured' = Fresh
    /\ UNCHANGED <<net, settings, servers>>

\* --apply with the group on probes by itself.
CliApply ==
    /\ pc = "off"
    /\ Move
    /\ servers' = Resolve(choice, Probed(net))
    /\ UNCHANGED <<net, probe, pc, settings, active, aligned>>

Network ==
    /\ Move
    /\ net' \in Conditions \ {net}
    /\ UNCHANGED <<probe, pc, settings, servers, active, aligned>>

Drift ==
    /\ Move
    /\ servers # Other /\ servers' = Other
    /\ UNCHANGED <<net, probe, pc, settings, active, aligned>>

Next ==
    \/ ProbeThread
    \/ Start \/ Heal \/ Refresh \/ ToggleDns \/ CycleProvider \/ ToggleSelfHeal \/ Quit
    \/ CliApply \/ Network \/ Drift

Spec == Init /\ [][Next]_vars

\* The thread and the loop of the menu run on; nobody has to press a key.
Fairness == WF_vars(ProbeThread) /\ WF_vars(Heal) /\ WF_vars(Refresh)
FairSpec == Spec /\ Fairness

-----------------------------------------------------------------------------
\* Properties.

\* A time a provider is judged by was measured in the round that was published:
\* one that has stopped answering has no time left from an earlier round
\* (the fresh windows in spawn; Endpoint::record keeps the last success).
NoStaleTime ==
    slot # None =>
      \A p \in Provider : slot[p].last = slot[p].history[Len(slot[p].history)]

\* When the menu moves to another provider by itself, the one it moves to has
\* answered in the round it judges by, or neither has (resolve_provider, heal).
Answers(latency, p) == Time(latency[p]) # None
AdoptsAnswering ==
    [][pc = "idle" /\ choice = Automatic /\ choice' = Automatic /\ slot # None
         /\ servers' # servers /\ servers' \in Provider =>
         \/ Answers(slot, servers')
         \/ \A p \in Provider : ~Answers(slot, p)]_vars

\* When nothing changes any more, a menu that heals ends up with the provider
\* the network now favours on the adapters, its own record of it, and a status
\* without drift, whatever rounds were under way and however heal and refresh
\* came to differ before (heal, refresh, spawn).
Settled ==
    LET p == Resolve(choice, Probed(net))
    IN  servers = p /\ active = p /\ (pc = "idle" => aligned)
Settles == <>[](pc # "off" /\ on /\ selfheal => Settled)

=============================================================================
