# stabilizatores: verification models

TLA+ models of `stabilizatores`, a Windows program that tunes network settings,
heals them when they drift and can put back what it found. The question behind
the models is the one its users rely on: **is the original state of the machine
always recoverable, and does `x` / `--revert` recover it?**

The models are translated from the source under `src/src/` of the repository;
the README and `docs/ARCHITECTURE.md` are used only as statements to hold the
code against.

## The system

| Part | State it keeps | Operations | What makes it hard |
|---|---|---|---|
| Archive (`config.rs`) | `archive.json`: original registry values and DNS settings; a copy in the memory of each process | `ensure`, `restore_group`, `dns_ensure`, load, save | crashes, failed saves, several processes with copies of their own |
| Registry groups (`tcp.rs`, `mtu.rs`, `power.rs`, `system.rs`) | none; the registry | `apply`, `revert`, `status` | several writes per operation, each of which may fail; order of write and save |
| DNS group (`dns.rs`) | none; adapters, DoH table | `apply`, `revert`, `status`, provider choice | several `netsh` calls per adapter, half of them best effort; adapters that vanish or are renamed |
| Session (`app.rs`) | config, archive, cached statuses, `last_error`, the exit question | keys, `heal`, `refresh`, `render`, `revert_all` | cached statuses, keys in any order, Ctrl+C from another thread |
| Probe (`probe.rs`) | latency windows, shared slot | sampling thread, `latency_now` | a thread publishing while the session chooses a provider |
| Command line (`cli.rs`) | config, profiles | `--apply`, `--revert`, `--undo`, `--status`, `--plan`, `--report`, `--profile` | runs beside a session; order of flags |
| Snapshots (`config.rs`) | `archive-snapshots/*.json` | take, prune, latest | names with a resolution of a second; undo after a failed revert |
| Registry and adapter access (`registry.rs`, `interfaces.rs`) | none | read, write, delete, enumerate | errors that turn into empty lists |
| `netsh`, elevation, autostart, Ctrl+C (`netsh.rs`, `win.rs`) | an autostart entry, a flag | one-shot calls | failures that are only logged; an elevated copy that parses the arguments again |
| Diagnostics, log, restore point (`connections.rs`, `traffic.rs`, `wlan.rs`, `log.rs`, `restore.rs`) | little or none | reads, one-shot calls | pure I/O, not modelled |

Interaction: the session and each command line load the config and the archive
once, call the groups with the archive they hold, and the groups save all of it
back. Nothing locks the files. The session's one thread runs every operation;
the probe thread publishes latencies through a mutex and the Ctrl+C handler
sets a flag.

What makes each part correct: the archive never takes the program's own value
for an original and never loses an original that is still owed; a group that
reports a successful revert has given everything back; a drifted group is
healed; the status line does not hide a drift or an error for ever; everything
is reverted only when the user confirmed it, and then all of it; `--undo` finds
the archive of the last apply; the menu settles on the provider that is faster;
a live link follows its registry value; an exit code tells the truth.

## Modules

| Module | Models | Role |
|---|---|---|
| `ArchivePromise` | what the archive promises, without how | abstract specification |
| `TweakGroups` | `tcp`, `mtu`, `power`, `system` `apply`/`revert` and `config::Archive` | detailed specification, implements `ArchivePromise` |
| `DnsSwitch` | `dns::apply`/`revert`, `Archive::dns_ensure` and what the menu and the command line do with them | DNS group, implements `ArchivePromise` |
| `MtuLink` | `mtu::apply`/`revert`/`status` with the live link | registry value and link together |
| `Undo` | `write_atomic`, snapshots, `--apply`, `--revert`, `--undo` | the files behind the archive |
| `AutoProvider` | `probe`, `resolve_provider`, `heal` and `refresh` | two threads and a shared slot |
| `AppSession` | `App::run`, `key`, `heal`, `refresh`, `revert_all`, the status line | session at group granularity |
| `CommandLine` | `parse`, `main`, `run_*`, profiles | from the argument list to the exit code |
| `TweakGroupsProofs`, `DnsSwitchProofs`, `MtuLinkProofs`, `UndoProofs`, `AutoProviderProofs`, `AppSessionProofs`, `CommandLineProofs` | | TLAPS proofs about the module they are named after |
| `SnapshotNameProofs` | | TLAPS proof that snapshot names are ordered by time, used by `UndoProofs` |
| `MC...` | | instances for TLC |

Definitions whose names end in `Mutant` stand beside the definition they are a
wrong version of. No specification uses them; replacing the right definition by
the wrong one has to break the property named in `PROJECT.json`.

The modules share the operations, not the variables: each takes what another
one models in detail as one step with the outcomes it shows there. `TweakGroups`
has a group value by value, `Undo` and `CommandLine` take the group as one
value; `AutoProvider` takes a switch of the adapters as one step that succeeds,
`DnsSwitch` any choice of the provider.

### TweakGroups

| Variable | Code |
|---|---|
| `reg` | the registry values of the groups |
| `disk` | `archive.json` |
| `mem[p]` | the `Archive` held by process `p` (`App::archive`, the local of a `run_*` command) |
| `phase`, `group`, `todo`, `at`, `target`, `dirty`, `ok` | the control point and the locals of the running `apply` or `revert` |
| `by`, `Entry.by` | observers: who wrote a value, who had written an archived one |

`apply` is `ApplyBegin`, then for each value `Read` (read and `ensure`) and
`Write`, then `ScanDone` and `Save` if an entry was added. `system::apply`
differs in the order: it saves (`ArchiveFirst`) between `ensure` and the write;
the constant `Eager` holds the groups of that kind. `revert` is `RevertBegin`,
`Restore` for each entry, `RestoreDone`, `Save`. Every step that can fail in
the code has a failing twin, enabled by the constant `Faults`:

| Fault | Effect in the code |
|---|---|
| `load` | `load_archive` falls back to an empty archive |
| `read` | `?` returns from the middle of `apply`, before the save |
| `write` | remembered, the group goes on |
| `restore` | the entry stays in the archive, the group goes on |
| `save` | the operation returns the error, memory keeps what was not saved |
| `crash` | the process ends at any step |

`Drift` is anybody else changing a value at any moment. The adapters an `apply`
sees are any subset of those the group knows (`interfaces::physical` leaves out
what it cannot read). Values of a group are handled in any order, which covers
the order of the tables and of the enumeration. What `apply` writes is a
function of the value read (`Tuned`): a constant for most values, an
or with the flags for `PnPCapabilities`. The live link that `mtu` also sets
through `netsh`, and its several targets, are in `MtuLink`; a save is one step
here and three in `Undo`.

### AppSession

`pc` is the position in the loop of `App::run`: `top` tests `quit` and the
Ctrl+C flag, `poll` handles keys, `tick` heals when five seconds have passed,
`draw` draws, `leave` is what follows the loop. A key that toggles a group is
three steps, because a crash or a drift may fall between them: `ToggleGroup`
steps the setting and saves the config, `Operate` applies or reverts the group
and sets `last_error`, `Refresh` reads the statuses; `Heal` too is followed by
`Refresh`. `archive` and `disk` say of each group whether the archive in memory
and `archive.json` have entries of it. An operation on a group has the outcomes
that `TweakGroups` shows: done, failed with nothing or part of it changed, or
done but not saved; the next group that saves writes what an earlier one did not
(`Files`). Between sessions `--apply` may run with overrides (`CliApply`),
`--profile apply` puts any config in the place of the saved one (`ProfileSave`)
and then runs an apply or dies, and `--revert` reverts every group. `stranded` is
an observer: groups that were switched off without a revert that drained them.
`MaxFailures` bounds how many operations and config saves fail.
The line is drawn in every round of the loop instead of once a second: a second
of age makes no difference to properties about what is shown for ever. `dns` is
a switch like the others here. `--undo` is in `Undo` only.

### DnsSwitch

| Variable | Code |
|---|---|
| `dhcp`, `v4`, `v6`, `doh` | the adapters as `interfaces::all` and `netsh` see them |
| `disk`, `mem` | the `dns` half of `archive.json`; `App::archive` |
| `on`, `choice`, `active`, `aligned` | `Config::dns`, `Config::dns_provider`, `App::active_dns`, `App::dns` |
| `phase`, `then`, `seen`, `todo`, `res`, `dirty`, `ok` | the running operation, its caller and its locals; `seen` is the enumeration it began with |
| `by`, `was4`, `was6` and `by` of a backup | observers |

An operation enumerates any subset of the adapters (those that are up, or
there), then handles them one at a time. The `netsh` calls for one adapter are
one step with all the outcomes they can have: an IPv4 call that must succeed
ends the work on the adapter (`SwitchFails`, `GiveBackFails`), the best-effort
calls for the second server, IPv6 and DoH may do all, part or nothing. The
owner changes adapters at any moment, also between the enumeration and the
calls (`Owner`). `faults` is chosen once per behaviour, so one run covers
several combinations. A machine without DoH support, or a process whose
detection of it failed, is not in this module; neither is a change of the
address mode of an adapter, nor a failed save of the config.

### MtuLink

| Variable | Code |
|---|---|
| `reg`, `live` | the MTU value of an adapter in the registry; the MTU of its link |
| `listed`, `keyed` | what `interfaces::physical` returns; the keys `registry::key_exists` finds |
| `archive`, `saved` | the MTU entries in memory and in `archive.json` |
| `pc`, `target`, `todo`, `at`, `entries`, `dirty` | the running `apply` or `revert` and its locals |
| `odd` | observer: adapters whose link was not brought to the registry's value |

`apply` writes the registry (`Write`), then sets the link (`Link`), adapter by
adapter. `revert` restores the registry, saves, and only then sets the links
(`Relink`): a failed save returns before any of them, a failed call is only
logged. `netsh` with `store=persistent` writes the registry value too, with
`store=active` it does not, which is what `Relink` says. `Effective` is what
Windows makes of a registry value when it starts (`Reboot`).

### Undo

| Variable | Code |
|---|---|
| `archive`, `tmp`, `snaps` | `archive.json`, `archive.tmp`, `archive-snapshots/` |
| `clock` | the Unix time `timestamp_compact` reads |
| `job`, `pc`, `mem`, `todo`, `bytes`, `stamp`, `next`, `ok` | the running command and its locals |
| `before`, `orig`, `risk`, `touched`, `undone` | observers: the archive before the last apply, the content each value had when it was first replaced, the groups whose entry an undo has swapped, whether the owner changed something and an undo came since that apply |

A save is `Open`, `Write`, `Rename`; a crash may fall before each. A snapshot is
`BeginCopy`, `Copy`, `Prune` and is not atomic. Its name is computed from the
Unix time by the algorithm of `civil_from_days`, and names are compared field by
field, which is the order of the fixed-width strings. Instants are natural
numbers, so the branch for days before 1970 is not there. A file that was cut
short is `Torn`: it loads as an empty archive, as text that is no JSON does.

### AutoProvider

| Variable | Code |
|---|---|
| `at`, `asked`, `measured`, `slot` | the probe thread: its place in the round, the round, `App::latency` |
| `net` | what a probe sent now would measure |
| `pc`, `on`, `choice`, `selfheal` | the menu and its config |
| `servers`, `active`, `aligned` | the adapters, `App::active_dns`, the status of the last refresh |

The thread pings both providers, queries both, publishes, sleeps. Handlers of
the menu (`Heal`, `ToggleDns`, `CycleProvider`) are followed by `Refresh`, which
resolves the provider again: the thread may publish in between, so the two can
disagree. Times are any natural numbers.

### CommandLine

| Variable | Code |
|---|---|
| `args`, `pos`, `options` | `parse` and its result |
| `phase`, `todo`, `config`, `errors`, `drifted`, `code` | `main`, the running `run_*` and its locals, the exit code |
| `elevated` | `win::is_elevated` |
| `cfg`, `profiles`, `autostart` | `config.json`, the named profiles, the autostart entry |
| `machine`, `short` | what each group has been set to; the groups some adapter or server of which has not |
| `faster` | the provider a probe finds faster |
| `runs`, `quiet`, `plan` | bound; observers |

A token is a flag, a flag with a value or a word; `Scan` takes one token at a
time in the order of the tests in `parse`. A command that needs elevation ends,
with exit code 0, when it has started an elevated copy, and the model goes on
with the copy. Groups are applied, reverted and looked at in the order of the
code, each by a step that may fail; the step of a group that is not enabled
passes over it, as the `if cfg.tcp` of the code does, so an instance need not
have every group. An apply or revert of a group gets nowhere, part of the way or
all of it (`Set`); an error goes with any of these, and no error with less than
all of it for the groups in which the code lets something pass: the secondary
DNS server, which is best effort (`dns.rs:278`), and adapters an enumeration
misses. `Drift` falls between two steps. The actions
for `--report`, `--restore-point` and the menu only have their exit codes.

## Checks

Runs that must pass:

| Run | Instance | Shows |
|---|---|---|
| `MCTweakGroups_healthy` | 1 process, group of two values that saves last (one machine-wide, one under an adapter), one-value group that saves first, 3 contents, faults `write`, `restore` | `OriginalsAuthentic`, `OriginalRecoverable`, `ArchivedAtRest`, `RevertRestores`, `WriteAhead`, and `KeepsPromise`: `TweakGroups` implements `ArchivePromise`, with the group that saves first under its write-ahead part |
| `MCTweakGroups_faulty` | the same, 2 contents, all faults but `load` | `SavedOriginalKept` and its inductive part `MemoryKnowsDisk` |
| `MCDnsSwitch_switch` | one adapter with either address mode, two interchangeable providers and `auto`, no fault or one kind of `netsh`, `save`, `crash` | `BackupAtRest`, `RevertsAll`, `RestoresRecorded`, `DohCleared`, `KeepsPromise` |
| `MCMtuLink_netsh` | two adapters that are alike, two sizes, one of them the usual one | `LinkFollows`: a link differs from its registry value only where a call is due, failed or was not made; `RevertReturns`; `StatusShowsLink` |
| `MCUndo_files` | one group, two contents of the owner's, three instants around the end of a leap day and of a year, two snapshots kept, no fault or one kind of `restore`, `save`, `crash` | `SavedWhole`; `OwedKept`: the entry of a value that is still the program's is the content `apply` first replaced, unless an undo swapped it; `UndoReturns`, `UntouchedHarmless` |
| `MCAutoProvider_menu` | five conditions of the network, three changes of any kind, a window of two | `NoStaleTime`, `AdoptsAnswering`, `Settles` |
| `MCAppSession_safe` | a switch and `mtu` with one size on its cycle and one off it, one failure anywhere, `--apply` with an override of the switch, `--profile apply` and `--revert` between sessions | `RemovesOwed`: after an `x` without a warning, `archive.json` has entries only of groups that are off and were switched off without a revert that drained them, never of `mtu` |
| `MCAppSession_live` | `mtu` alone with two sizes, one failure | `Healing`, `SessionEnds`, `MtuDriftShown`, `ErrorShown` |
| `MCCommandLine_runs` | `dns` and `mtu`, every list of up to three of eleven tokens and some longer ones, then a second command | `ParsedUnlessProfile`, `StatusExact`, `PlanKept`, `ChangesAsAllowed` |

Runs that TLC must find violated, each a statement of the repository that the
code does not keep; `PROJECT.json` quotes it and names the line:

| Run | What happens |
|---|---|
| `MCTweakGroups_crash` | a crash between a write and the save at the end of `apply` loses the original; the next `apply` archives the program's own value. A read that fails between the two, or the save that fails, does the same once the process ends |
| `MCDnsSwitch_exact` | an adapter with its address from DHCP and DNS servers set by hand gets automatic DNS back |
| `MCUndo_lost` | a restore fails in an undo, which then overwrites its entry with a snapshot that has none: the value stays the program's and its original is gone |

The modules state more of what the repository says and the code does not do. No
run repeats these; TLC violates each when it is added to the configuration named,
and `--` marks what it is held against:

| Property | Add to | What happens |
|---|---|---|
| `RemovesAll` | `MCAppSession_safe` | a profile with a group off is applied; `x` leaves the entries of that group and gives no warning -- `README.md:59-60` |
| `RevertOnlyConfirmed` | `MCAppSession_safe` | `x`, `n`, Ctrl+C reverts everything (`app.rs:163`) -- the question of `app.rs:723` |
| `ArchivedAtRest` | `MCTweakGroups_faulty` | a read that fails leaves `apply` before its save (`tcp.rs:95`) -- `README.md:58-59` |
| `WriteAhead` | `MCTweakGroups_faulty` | a failed save, then an `apply` that finds the entry in memory and writes with nothing on disk -- `system.rs:26` |
| `OriginalKept` | `MCUndo_files` | apply, apply, undo, the owner changes a value, apply: the entry is older than what was replaced (`cli.rs:380`) -- `README.md:184-185` |
| `RevertHarmless` | `MCUndo_files` | a revert after an undo writes over what the owner has set since -- `cli.rs:373-375` |
| `TornOwesNothing` | `MCUndo_lost`, with `crash` and `restore` together | a crash cuts a snapshot short; an undo whose restore fails puts it in the place of the archive (`config.rs:284`) -- `README.md:60-61` |
| `ParsedAsDocumented` | `MCCommandLine_runs` | `--profile` beats an action before it and hides the overrides after it (`cli.rs:140`) -- `cli.rs:98-101` |
| `StatusDocumented` | `MCCommandLine_runs` | `--status` exits 2 for a drift of `mtu` (`cli.rs:511`) -- `cli.rs:462-463`, `README.md:119` |
| `ApplyAligns` | `MCCommandLine_runs` | an `--apply` exits 0 without the secondary DNS server (`dns.rs:278`) -- `cli.rs:275-276` |
| `AutoAligns` | `MCCommandLine_runs` | an `--apply` chooses Google for `auto`, and `--status` calls that a drift (`cli.rs:468`) -- `cli.rs:275-276` |
| `StatusVerifiesLink` | `MCMtuLink_netsh` | `status` is true of an adapter whose link has another size (`mtu.rs:106`) -- `docs/ARCHITECTURE.md:205-206` |

**Known limits of the code** that shape the properties: each names what a
property leaves out.

- Two processes: each saves the whole archive it loaded (`config.rs:252`), so a
  menu beside an `--apply` overwrites originals, and both write the same
  temporary file. Everything about the archive is for one process at a time. The
  menu's copy of the config overwrites an applied profile in the same way.
- A failed read leaves `apply` before its save, and no later `apply` of the same
  process saves the entries it added: `ArchivedAtRest` holds where reads succeed.
  After a failed save `system::apply` finds its entry in memory and writes with
  nothing on disk: `WriteAhead` holds where saves succeed.
- `x` passes over groups that are switched off. Their entries are there after a
  failed revert, a crash between the save of the config and the revert
  (`app.rs:244`), a profile applied with the group off (`cli.rs:403-408`), or an
  `--apply` with an override; no warning is given. `RemovesOwed` says that there
  are no other ways; `mtu` is always reverted.
- The DoH mappings of a provider that was active before stay after a change of
  provider; `DohCleared` is about the active one.
- The status line hides the drift of a group other than `mtu` for as long as
  self-heal is off, because nothing reads the statuses again.
- `--undo` leaves the snapshot as the archive, whether or not the revert before it
  succeeded (`cli.rs:380`). `MCUndo_lost` and three rows of the table above are what
  that can do; `OwedKept` leaves out
  the groups whose entry the swap has changed (`risk`) until they are given back,
  `UntouchedHarmless` the reverts after a change by the owner, and `SavedWhole` the
  snapshot that was cut short.
- `resolve_provider` compares the ping of one provider with the query of the
  other when a query failed: a provider that answers pings but no queries may
  be preferred to one that resolves, and `AdoptsAnswering` counts either answer.
- A probe window never holds more than one sample, because every round starts
  from fresh ones (`probe.rs:143`): loss and jitter are always those of one
  probe. `NoStaleTime` is what the fresh windows are good for.
- `mtu::status` reads only the registry although `docs/ARCHITECTURE.md:205-206`
  names the live subinterface too, and a failed `netsh` call of `revert` is
  never repeated: links in `odd` stay as they are. `StatusShowsLink`, `LinkFollows`
  and `RevertReturns` are about the others.
- Drift of `mtu` or `power` makes `--status` exit 2, not the 1 of
  `README.md:119`; `StatusExact` has 1 only when other groups alone drifted. It is
  about a status during which nothing changes: `mtu` and `power` are looked at
  twice, and may differ.
- An `--apply` that exits 0 need not have set all that `--plan` lists: the
  secondary DNS server is best effort, and adapters may be missing. `PlanKept` says
  that it sets nothing else.
- The exit code of a command that had to elevate itself is 0 whatever the copy
  returns.

**Bounds.** Two groups, one of each kind, are enough for their interference:
they share only the archive, and every save writes all of it. Two values in the
group that saves last are the least for a scan that fails after it has written
something, and one of them is left out of some scans. Two contents tell an
original from a tuned value; the healthy run has a third, so that a drift can
also change one original to another. Drifts, restarts and operations are not
bounded. In `AppSession` one failure is enough for every finding and every
property is about the machine between operations; `mtu` is the one group that is
treated apart, a switch stands for the rest; a size that its key does not step
through is what a profile or `--mtu` can bring (`next_in_cycle` takes it for the
first). In `DnsSwitch` adapters share only
the archive, of which every save writes all, so one adapter that may be missing
from any enumeration shows each of its lives; two lists (the owner's and the
network's) and two providers tell apart every list the code compares. The
providers are symmetric: no definition prefers one.

In `MtuLink` an operation visits two adapters, so each can fail between or after
the other; runs of operations, drifts and reboots are not bounded. Both sizes are of the menu, and
one is the usual one. In `Undo` one
group can be archived, owed, restored or not; the clock stands still for any
number of applies or moves on, so snapshots share a name or follow one another,
and with two kept the third prunes, as the ninth does in the code. In
`AutoProvider` `MaxMoves` bounds what people and the network do, not the rounds;
three moves are a change of setting, a change of the network and an end. The
five conditions have each provider faster, each kind of answer missing, and no
network. In `CommandLine` three tokens are the least for two overrides of one key
and an action, or for `--profile` with operation and name; two commands are the
least for a plan and its apply, or a profile saved and applied. `dns` stands for
the groups whose drift is drift and for the provider, `mtu` for those whose
drift is an error and for the numbers, with the ends of the range among them.

**Deadlock** is checked in every run but `MCCommandLine_runs`: an ended process
can start again, a running one can always step; outside a session the command
line can run. In `CommandLine` the commands of `Lines` come to an end, and when
the last one has exited nothing is left to do.

**Fairness.** `AppSession!FairSpec`: the loop and the clock take their steps
(weak fairness): the loop has one thread and nothing in it blocks for ever.
Strong fairness of `PollDone` says that the key buffer runs empty again and
again; key handlers interrupt the poll, so weak fairness would not be enough.
Keys, drifts, crashes, failures and Ctrl+C are never assumed to happen.
`Healing` needs failures to end, which `MaxFailures` states.
`AutoProvider!FairSpec`: weak fairness of `ProbeThread` (its calls have timeouts
and its lock is held only for a copy), of `Heal` (the loop heals every five
seconds) and of `Refresh` (it follows in the same thread). `Settles` is about
behaviours in which the moves have come to an end, which `MaxMoves` states.

## Proofs

For every value of the constants the named assumptions allow:

| Theorem | Says | Assumes |
|---|---|---|
| `TweakGroupsProofs!TypeCorrect` | `TypeOK` and `LocalsOK` always | nothing: any number of processes, any faults |
| `TweakGroupsProofs!SavedOriginalNeverLost`, `MemoryKnows` | `SavedOriginalKept`, `MemoryKnowsDisk` | one process at a time, no `load` fault |
| `TweakGroupsProofs!EagerGroupsWriteAhead`, `EagerGroupsSaved` | `WriteAhead`, `EagerSaved` | one process at a time, no `load` and no `save` fault |
| `TweakGroupsProofs!EntriesAuthentic`, `OriginalsOnDiskAtRest`, `OriginalsAtHand` | `OriginalsAuthentic`, `ArchivedAtRest`, `OriginalRecoverable` | one process at a time, only `write` and `restore` faults |
| `TweakGroupsProofs!RevertLeavesNothing` | `RevertRestores` | the same |
| `TweakGroupsProofs!GroupsImplementPromise` | `KeepsPromise` (refinement of `ArchivePromise`) | one process at a time, no `load` fault; the write-ahead part of the promise only when saves cannot fail |
| `MtuLinkProofs!TypeCorrect`, `LinkAlwaysFollows`, `StatusTrueOfLinks`, `RevertGivesBack` | `TypeOK`, `LinkFollows`, `StatusShowsLink`, `RevertReturns` | nothing |
| `DnsSwitchProofs!TypeCorrect`, `BackupsAtRest`, `RevertsEveryAdapter`, `RestoresWhatWasRecorded`, `RevertsClearDoh` | `TypeOK`, `BackupAtRest`, `RevertsAll`, `RestoresRecorded`, `DohCleared` | nothing: any adapters, providers and lists; the faults a statement allows are its own premise |
| `DnsSwitchProofs!ImplementsPromise` | `KeepsPromise` (refinement of `ArchivePromise`) | nothing |
| `UndoProofs!TypeCorrect`, `ArchiveReplacedWhole`, `OwedAlwaysKept` | `TypeOK`, `SavedWhole`, `OwedKept` | nothing, any instants in any order |
| `UndoProofs!UndoGivesBack`, `RevertAfterUndo` | `UndoReturns`, `UntouchedHarmless` | the clock is not set back (`ClockForward`) |
| `SnapshotNameProofs!NamesInOrderOfTime` | names of later instants come later, equal instants have equal names, and every field is an integer | nothing: any two instants since 1970 |
| `AppSessionProofs!TypeCorrect`, `RemovalDrains` | `TypeOK`, `RemovesOwed` | nothing: any groups, settings, sessions and failures |
| `CommandLineProofs!TypeCorrect`, `ChangedAsAllowed`, `ParsesUnlessProfile` | `TypeOK`, `ChangesAsAllowed`, `ParsedUnlessProfile` | nothing: argument lists of any length |
| `CommandLineProofs!StatusIsExact`, `PlanIsKept` | `StatusExact`, `PlanKept` | nothing |
| `AutoProviderProofs!TypeCorrect`, `RoundsAreFresh`, `MovesToAnswering` | `TypeOK`, `NoStaleTime`, `AdoptsAnswering` | nothing |

"Nothing" means nothing beyond the named `ASSUME` of the module, which says of
what kind its constants are and that its sentinels differ from values. Modules
other than `TweakGroups` have one process at a time built in. The assumptions are the
limits above: with two processes, or a file that silently loads as empty, the
statements are false. `ClockForward` says that the instants the clock goes
through are in order. Nothing in the code ensures it, for the wall clock may be
set back between two commands; `latest_snapshot` then finds a snapshot that is
not the last one taken.

*Types.* `TypeOK` is not inductive alone: `Restore` reads `mem[p][v].val` and
`Write` writes `target[p]`, so `LocalsOK` adds that a value about to be restored
or written has its entry and its target.

*Saved originals.* A save replaces the file by the memory of the process, so the
file's promise must be in memory: `MemoryKnowsDisk` says that for every original
on disk a running process has one too, or has just given the value back.
`Start` establishes it, `Ensure` keeps it because it never overwrites an entry
and because a value without an entry is in other hands, `Write` keeps it because
of `LocalsOK`, `Restore` because the entry it drains says whose value it wrote.

*Write-ahead.* `EagerSaved` says that an entry in memory is the saved one except
between `ensure` and the save, and that a value without an entry is not the
program's. `WriteAhead` follows for `Write`, and both are kept by `Save`.

*Authentic entries.* That `ensure` takes no value of the program's needs that
every such value has an entry already. `Holds` says so of the memory of a
running process and, when none runs, of the file, and that the two differ only
where a save is due; a start then loads what the last process held. It needs
reads, saves and the process itself not to fail: one of them parts the two.

*Complete reverts.* `Emptied` follows the loop of `restore_group`: while no
restore has failed, each value of the group is still to come or has no entry.
With `Holds`, a value without an entry is not the program's.

*Refinement.* `by` maps to `author` and "the file holds an entry the program did
not write" to `kept`. Saves map to `Replace`, writes to `Overwrite`, restores to
`HandBack` (or to `Overwrite` when the entry restored was not authentic),
drifts to `HandBack`, all else to stuttering.

*DNS backups.* `Working` types what the operation holds: a backup for each
adapter it has to give back, a provider to switch to. `Quiet` is for runs in
which only `netsh` fails: memory is the file until an entry comes or goes, each
entry records what the owner had, and an adapter that is the program's has one.
`ensure` keeps it because the adapters an `apply` saw without an entry were the
owner's; `BackupAtRest` and `RevertsAll` follow. `Faithfully` says of each
backup, in memory, on disk or just taken, what it says of the lists that were
there, whatever fails; `RestoresRecorded` is a step from it. `DohCleared` needs
`AtHand`: a group that is on has its active provider in the menu, so a revert
knows whose mappings to remove. `ImplementsPromise` rests on `Holding`, which
is `MemoryKnowsDisk` of the adapters; switches map to `Overwrite`, saves to
`Replace`, restores to `HandBack`.

*Links.* `LinkFollows` is inductive with the types because it leaves out the
adapters an operation has still to set (`Pending`); what a step sets is taken
out of `odd` or put in, and nothing else moves a link or a value.

*Saves.* `Filled` says that at the rename the temporary file is what the process
meant to write, and that this is an archive except for the snapshot an undo
copies. Only `Rename` changes `archive.json`.

*Names.* `civil_from_days` is shown to rise: of two days one is in a later era, or
both are in one and the later has the later year, or day of the year, or
month, or day of the month, each division in turn being monotone and in its
range. The seconds of a day order the rest.

*Undo.* `Shelf` says that the names in the directory are ordered, so that one of
them is the last. `Known` says, while nothing fails, that every archive there is
(the file, a snapshot, the copy in memory) holds contents of the owner's only,
and that each value of the program's has an entry: an `apply` keeps what it
finds, and a snapshot is a file that had them. `Owed` says, while nothing but
restores fails, that the entry of a group is what the first `apply` over it
found, in the file, in memory and in what is about to be saved, but for the
groups of `risk`, whose entries an undo swapped: a restore that fails leaves its
entry, and one that succeeds gives the value and the entry back together.
`OwedKept` follows. `Remembered` says, while nothing fails at all,
that the last snapshot is the archive the last `apply` found: names are in
order, and pruning keeps the last ones. `UndoReturns` follows. `Harmless` adds
that, while the owner changes nothing, an entry that `apply` found is still in
the archive or its value is back, so after an undo each entry equals its value
and a revert writes what is there.

*Removal.* `Accounted` says that what is archived of a group that is off is in
`stranded`: by the config in memory while a session runs, where the group of the
key at hand is still to be reverted, and by the saved config while none does. A
revert that drains a group takes it out; a failed one, a session that dies
between the save of the config and the revert or before a save of the archive, a
profile and an override put it in. `RevertsGroups` says that a revert that failed
nowhere has drained its groups on disk too, `mtu` among them, so what is left
after `x` is of groups it passed over, and these are off.

*Parser.* `Read` is the invariant of the scan: the action is the first one
before `pos`, each override is the last value of its key, none of them malformed,
and there has been no `--profile`. At the end of a list without one this is what
the comment of `parse` says; an error is met at the first malformed override.

*Exit codes.* `Codes` relates the exit code to `errors` and `drifted`, `Seen`
says of the groups a status has passed (no longer in `todo`) that each that was
off has been counted. A change from outside meanwhile clears `quiet`, the premise
of `StatusExact`. `Printed` says that each line of a kept plan is the target of
its group under the plan's config and the provider it found; equal configs and
providers then make equal targets, however far the apply of a group gets.

Every safety property of every passing run is proved. Only model-checked are the
liveness properties `Healing`, `SessionEnds`, `MtuDriftShown`, `ErrorShown` and
`Settles`, which rest on fairness and are out of the prover's reach, and the
statements the code does not keep, of which TLC shows counterexamples.

## Open work

1. Two processes at once in `Undo` (both write the one temporary file) and a
   menu beside a command in `CommandLine`: what does still hold.
2. `DnsSwitch`: DoH detection cached per process; a failed save of the config.

## Not modelled

- Rendering, colours, wording, the keys that only choose what is shown, console
  modes and key decoding: no other step reads what they leave behind.
- `connections`, `traffic`, `wlan`: samples of Windows tables for the screen;
  the one state kept, the previous traffic counters, is read by nothing else.
- `log`: best-effort text with one rotation, which only its viewer reads.
- `restore`: one call; its failure is the exit code in `CommandLine`.
- The contents of `--report`, and loss, jitter and the sparkline of `probe`:
  computed for display.
- `registry::read_names` and the walk of `interfaces`: whether the enumeration
  ends rests on the codes Windows returns and not on anything in the source; an
  operation may see any subset of the adapters instead.
- `lib`: module declarations.
