# Formal models of senpi-skills-af

TLA+ specifications, model-checking configurations and machine-checked proofs
for the parts of this repository that keep state, talk to services that fail,
and move or account for money: deploying and closing strategy packages
(`senpi-strategy-ops`), the Aftermath runtime (`aftermath_runtime`), four of the
scanners (`strategies/`), and the arithmetic behind the portfolio and trade
reports.

* [1. The system](#1-the-system)
* [2. Modules](#2-modules)
* [3. Model against code](#3-model-against-code)
* [4. Runs and bounds](#4-runs-and-bounds)
* [5. Where the code and its documents disagree](#5-where-the-code-and-its-documents-disagree)
* [6. Fairness](#6-fairness)
* [7. Proofs](#7-proofs)
* [8. What is not modelled](#8-what-is-not-modelled)
* [9. Plan](#9-plan)

## 1. The system

The repository is a set of *skills*: directories of prompts and scripts an agent
runs for a user who trades through the Senpi backend, a library
(`aftermath_runtime`) that lets the same strategies trade on Aftermath, and some
hundred strategy packages. Most of it reads and prints. What keeps state, or
computes what a user acts on:

| component | state | operations | hard part | correct means |
|---|---|---|---|---|
| `senpi-strategy-ops/scripts/deploy.py` | `.deploy-state.json` per package; strategies on the backend; runtimes on the host | `create`, `runtime`, `verify` (each short, resumable, re-run until done) | a command may be killed between any two calls; answers are lost; reads fail and look empty; the backend works on meanwhile; a budget is split with rounding and minimums | an instance is funded once, with what was asked; its runtime trades on its own fresh wallet; `live` is true when reported; re-running converges |
| `senpi-strategy-ops/scripts/close.py` | the same platform; a thread per strategy | `close <id>`, `close --all`, `close_one` from `create` | threads on a shared, ageing inventory; deletes whose exit code says nothing | no `strategy_close` under a running runtime; re-running closes everything |
| `aftermath_runtime/stream.py` | rows, sequence, synced flag | `disconnected`, `replace_snapshot`, `apply_delta` | gaps, repeats, reordering, a restarted server | the rows are one published table, never a mixture |
| `aftermath_runtime/safety.py` | kill switch, circuit breaker | `check`, `trigger`, signal handlers | a signal inside a running trigger, orders that move while they are read, a cancel that is only built | a cancellation reported as verified left nothing resting; an unproved one leaves the switch armed |
| `aftermath_runtime/adapter.py`, `ptb.py`, `gas.py`, `accounts.py` | the cached account, the sponsor, the breaker | `call_tool` and its handlers | the account is chosen by collateral, which moves between the look and the build | a transaction is built for the account the strategy looked at; a halted runtime hands out none |
| `adapter.py` `audit_query` | a cursor and the cursors seen | paged read | events arrive and are forgotten between pages | no gap, no repeat |
| `aftermath_runtime/codec.py` | none | decimals to native units and back | two roundings on top of each other | never worse than the caller's limit |
| `aftermath_runtime/harness.py` and the scanners | a record per tick, committed or rolled back | `scan` | ticks that raise or are cut off; failing reads; several ways out, each with a record of its own | no signal twice in a session or a cooldown, and none swallowed |
| `senpi-portfolio/scripts/portfolio.py` | a state file the steps share | `money`, `strategies`, `positions`, `all` | money moves between the reads; reads fail and look like zero; steps are killed and re-run | an unwarned total is right; a partial one says so |
| `senpi-improve-trades/scripts/review.py` | none | rebuild round trips from fills, match exit events | partial fills, forgotten fills, late or missing events | first in first out; each trade its own exit |
| reports, discovery, tools, CI, documents | none that outlives a call | reading and printing | - | not modelled (section 8) |

How they interact: an operator (an agent following `SKILL.md`) runs `deploy.py`
and `close.py` commands one after another. A command reads and changes the
strategy backend over MCP and the runtime host through the `openclaw` command
line. Nothing locks either; the user can close or pause a strategy in the app at
any time, the backend funds and flattens asynchronously, and the host restarts
runtimes it supervises. Between commands only `.deploy-state.json` remains. A
runtime runs its package's scanner tick by tick through the harness; a scanner
reads through the adapter, and what it signals is built by the adapter's tools,
signed and submitted by the host. The reports read the same platform.

## 2. Modules

| module | models | kind |
|---|---|---|
| `SenpiPlatform` | the strategy backend and the runtime host as the scripts use them | environment, external |
| `CloseOne` | `close.py` `close_one` and the reads it depends on, one action per call | component |
| `StrategyOps` | `deploy.py` `create`, `runtime`, `verify` and `close.py` `main`, the state file, kills, the operator; EXTENDS `CloseOne` | composition |
| `Funding` | `plan_funding` and what create does with it | pure algorithm |
| `Replica` | what a consumer of snapshots and deltas promises | abstract specification |
| `SnapshotStream` | `stream.py` under a faulty feed; refines `Replica` | component |
| `KillSwitch` | `safety.py` `KillSwitch` and `ShutdownHandler` wired to `adapter.py` `_cancel_all_and_verify`, next to the strategy loop and the venue | component |
| `Adapter` | `call_tool` from the check to the hand-over: gas, account, preview, build, inspect | component |
| `AuditQuery` | the paged order history | component |
| `Codec` | `NativeCodec` | pure algorithm |
| `Scanner` | rooster's `scan` on `ScanState` and `run_scan`, step by step | component |
| `Reentry` | what kestrel, hyena and scorpion remember, tick by tick | component |
| `Portfolio` | the steps of `portfolio.py`, the state file, a platform in motion | component |
| `Fills`, `ExitMatch` | `review.py`'s reconstruction and its matching | pure algorithms |
| `MC_StrategyOps`, `MC_KillSwitch`, `MC_SnapshotStream`, `MC_Portfolio` | symmetry and constants of their runs | model checking |
| `MC_Scanner` | `Scanner` and `Reentry` side by side | model checking |
| `MC_Calculations` | `Fills`, `ExitMatch`, `Funding`, `Codec`, `AuditQuery` side by side | model checking |
| `StrategyOps_proofs`, `SnapshotStream_proofs`, `KillSwitch_proofs`, `Adapter_proofs`, `Scanner_proofs` (with `Reentry`), `Portfolio_proofs`, `Calculations_proofs` | theorems about the module, or the side-by-side modules, they are named after | proofs |
| `SumTheorems` | lemmas on sums over finite sets and folds along sequences | proofs |

"Side by side": the modules share no state; a behaviour of the run is a
behaviour of one of them and the others rest, so that one run answers for all.

## 3. Model against code

### SenpiPlatform, CloseOne, StrategyOps

*Data.* Every strategy has a wallet of its own, so a strategy id (`Sid`) stands
for its wallet too; a runtime is registered under `<package>-<instance>`, so an
instance (`Inst`) stands for its runtime's name. `FUND_WALLET` stands for every
status on the way to `ACTIVE`. One package is modelled.

*Control.* `pc` names the command in progress and the place in it: `c.*` create,
`r.*` runtime, `v.row` verify, `x.*` close, `a.*` close --all. `st` is the
command's copy of the state, `file` the saved one, written exactly where the code
calls `save_state` or unlinks. Each call to a service is a step, and everything
else (activation, flattening, the user, the host) can happen between two steps.
The two calls of create's retry are two steps as well: a kill fits between them.

*History.* Two things are not in the code, and only properties read them. `lost` of
a strategy: the call that made it answered with an error create takes for a refused
name. `up`: the instances whose runtime has run without a break since create read
the existing strategies. A runtime that stops leaves `up` for good, also when it
comes back, and so does the one runtime whose look-up failed.

| code | model |
|---|---|
| `cmd_create` reconcile loop, save | `Reconcile`, `Reconciled` |
| `list_runtimes()`, `existing_open` | `CreateReadsRuntimes`, `CreateReadsExisting` |
| `_has_running_runtime`, refusal | `HasRunningRuntime`, `LiveCheck`, `LiveChecked` |
| closing existing strategies, forgetting ids | `CreateCloses`, `CreateForgets` |
| `plan_funding` halt | `Fund` (the amounts: module `Funding`) |
| create loop: the call with a name, the same call without one, the id saved | `Submit`, `Retry` (how either ends: `CallFails`, `SubmitFailed`, `SubmitAnswered`), `Record` |
| polling | `Submitted`, `Poll`, `Polled` |
| `cmd_runtime` self-heal, `_recover_wallet` | `Recover`, `Candidates`, `Matches` |
| find, delete, create a runtime | `FindRuntime`, `DeleteOld`, `RegisterRuntime`, `RuntimeDone` |
| `_check_live`, `cmd_verify` | `VerifyRow`, `Verified` |
| `close.py` `main` | `CloseReadsOpen`, `CloseReadsRuntimes`, `CloseThread`, `CloseDone` |
| `close_one`, `_runtime_gone` | `Stop`, `CheckStopped`, `StopAgain`, `NothingToStop`, `SubmitClose`, `runtime_gone` |
| a session timeout, a socket error that is not an `MCPError`, a reboot | `Kill` |
| `write_text` cut short | `KillWhileSaving` |

*Mishaps.* Everything that goes wrong is a *mishap* of a named kind, counted in
`mishaps` and enabled by the constant `Mishaps`:

| kind | what happens |
|---|---|
| `kill`, `torn` | the process ends; ... while `save_state` writes |
| `create` | `strategy_create_custom_strategy` answers an error, having created a strategy or not |
| `name` | the call answers an error with "name" in it (or one of three codes), having created nothing; create calls again without a name |
| `name_lost` | the same answer, but the call took effect: the retry makes a second strategy |
| `funding`, `balance` | funding fails for good; the balance falls short |
| `slow` | the polling deadline cuts off a strategy on its way |
| `strategy_list`, `recheck`, `health` | a read fails: `strategy_list`; `runtime list` where `close_one` reads a failure as unreadable; runtime health |
| `inventory`, `lookup` | `runtime list` fails and reads as empty: where `close_one`, `runtime` and `verify` go by it; where create looks up the runtime of one existing strategy |
| `delete`, `register` | `runtime delete` has no effect; `runtime create` fails, having taken effect or not |
| `strategy_close` | its answer is an error, the close having taken effect or not |
| `runtime` | a runtime stops or its scanner breaks |
| `app_close`, `app_pause` | the user closes or pauses a strategy in the app |

*Simplifications.* Loops over the instances take them in any order, which
contains the manifest's order. A re-check inside `verify --max-wait` is a verify
run again. An exception in one close thread ends the process after the others
have finished; the model kills it at any point, which contains that. Commands run
one at a time, as `SKILL.md` has the operator run them. Polling passes in which
nothing the command waits for can still happen are left out; the deadline ends
them.

### Funding

Shares are parts of `Whole`, money is in cents, the balance in parts of a cent.
The code multiplies floats and calls `round`; a product that ends in half a cent
is stored a little above or below it, so `Rounded` is both neighbours there. A
plan takes any of the possible amounts for each instance. What create does with
the plan (halt and name `usable`, or go on) is `Next`; the balance it reads may
be missing, as in the code.

### SnapshotStream

`rows`, `sequence`, `synced` are the fields of `SnapshotStreamState`; each outcome
of each method is an action. A call that only raises changes nothing and has no
action. The server publishes numbered tables and deltas between neighbours; any
message it published in the current run may arrive at any time, which covers
loss, repetition, delay and reordering. A restart numbers from 0 again and breaks
the connection, so `disconnected()` runs with it.

### KillSwitch

*State.* `armed`, `fired`, `verified` are the fields of `KillSwitch`; `silent` is
`silence_seconds() > max_silence_seconds`; `config_armed` is `RuntimeConfig.armed`,
frozen; `catalog` and `cached` are `AdapterState.catalog` and whether it is set;
`sponsored` whether `ensure_gas_ready` has nothing left to ask; `halted` the
breaker's latch. The venue keeps `listed` markets, `resting` orders and orders
`inflight`, one per market, since nothing tells two orders of a market apart.
`landed` is a history variable: the markets an order landed in since the running
reading began.

*Control.* A trigger is a sequence of requests, one step each: `ReadCatalog`,
`Read` per market, `Decide`, `ResolveGas`, `Cancel`, the second reading,
`Conclude`; `phase` says how far it is. Every request can fail where the code
lets it: inside the `try` a failure counts as survivors (`Survived`), elsewhere
the exception leaves `trigger` (`Raised`). Between two steps orders fill and land
and markets are listed and delisted.

*Threads.* A trading process has one thread, so the strategy loop (`LoopStep`)
rests while a trigger runs. `ShutdownHandler` is a signal handler: `Signal` may
come at any moment, starts a trigger of its own inside the running one, and the
`SystemExit` it ends with goes through the outer trigger, which therefore never
continues. Nothing in the repository installs the handler or calls `check`; the
model has a host do both.

*Cancel changes no order.* `execution.cancel_orders` previews, builds and inspects
a transaction and `_cancel_all_and_verify` drops it. Orders go only because they
fill, expire or are cancelled by someone else (`Gone`).

### Adapter

`account`, `sponsor` and `halted` are fields of `AdapterState`, `GasConfig` and
`CircuitBreaker`. A call of a building tool is a sequence of requests: `Begin`
(armed and not halted), `Gas`, `Resolve` (which account: the cached one, or the
pinned one, or the one with the most collateral, equals in any order), `Preview`
(not for `top_up`, `withdraw_funds` and the two that create an account), `Build`,
which inspects the answer, drops the cached account and hands the transaction to
the host. The host may hold `MaxBuilt` transactions and submit them in any order
or drop them; collateral moves between any two requests, by submissions and
otherwise. `CancelAll` and `Reread` are `_cancel_all_and_verify` from the
account's point of view: the orders of one account in one step, since
`KillSwitch` has the reading market by market. `looked` and `picks` are history
variables for the properties.

### AuditQuery

A page is the `Limit` events before the cursor, newest first; `rows`, `cursor`,
`seen`, `pages` are the locals of `_tool_audit_query`. New events arrive and the
venue forgets old ones between two pages. `echoes` is a venue that answers with
the cursor it was given, the case the set of cursors seen is there for.

### Codec

A decimal is a number of parts, `Places` of them to a native unit: what the venue
cannot represent is what is left after division. `ToUnits` and `ToQuantum` are
the two roundings, `Bid`, `Ask` the two directions, `Refused` what raises.

### Scanner

`records`, `staged` are `ScanState`'s; a record is reduced to its `fired` map. A
tick reads the clock once (`StartTick`), then the account (`ReadAccount`, or
`GivesUp`), then scores (`Score`: any set of candidates, any choice among them
the slots allow), and then the harness commits (`Commit`) and hands over
(`Return`). `Abort` is a raise, an expired tick or a killed process at any point:
what is staged goes. Between `Commit` and `Return` it loses committed signals,
which the code allows (`run_scan` commits before it looks at what `scan`
returned). `sent` and `spent` keep the sessions that are still ahead.

### Reentry

One tick of kestrel, hyena or scorpion is one action: which of the ways out of
`scan` it takes, with the record that way appends. `signaled` is the map the next
tick reads (kestrel's `recent`), `lastClosed` and `prevHeld` scorpion's two
others. Hyena's `_persist` puts a truth value where the map was, scorpion's tick
without candidates writes empty maps and kestrel's tick with its book full writes
none: all three are `Wipe`. A read of the account may fail and look empty
(`Reads`), except in hyena, which then waits. `shared` says that the committed
map is the very object the next tick writes to: `ScanState.last()` copies the
record but not the map in it, and kestrel does not copy either, so a tick that is
cut off (`KestrelCutOff`) leaves its mark. Scorpion stores a close under the
position's name (`XYZ:GOLD`) and looks it up under the bare one (`GOLD`), so
`CoolingDown` is restricted to `Perps`.

### Portfolio

`run` is the process of a step: `Begin` loads the file, `FetchEmbedded` and
`ListStrategies` read, `HydrateWallet` reads one wallet (the loop's order is any),
`Save` replaces the file, `Tell` prints. `told` is the last slice printed. An
agent runs the steps of one of the `Plans` and repeats a step that was killed.
Mishaps: `fails` (a read answers an error), `empty` (it answers with nothing,
which reads as zero), `detail` (a read beside the money fails and only warns),
`kill` (also while saving), `save`. The clearinghouse answers with two views that
both hold the idle money, and `Hydrate` undoes the overlap as the code does.
Money is in units larger than the tolerance of `reconciles`.

*Sessions.* Every question is a session. `portfolio.py` is always given its default
state file, and nothing removes it: `NewSession` starts with the file the session
before left, or with none (`--state` names another, or the temporary directory was
swept). `lost` and `asof` of a state are history: whether a read behind its rows
failed, and in which session those reads were made.

### Fills, ExitMatch

`Fills` lets a wallet trade and the exchange forget its oldest fills; what
`_reconstruct_closed_from_fills` makes of the rest is computed from them
(`Take`, `Consume`, `InWindow`, `Newest`). The reference is not the walk: the units a
coin opens are numbered in the order of its fills (`OpenedBy`), and the k-th it closes
must be the k-th it opened. `ExitMatch` lets trades of one asset close and their events be
logged, late or never, with or without an order id.

## 4. Runs and bounds

| run | question | instance |
|---|---|---|
| `stream` | are the rows always one published table, and does the consumer implement `Replica`? | 2 keys, 1 content, 4 versions per server run, any number of restarts |
| `faults` | do wallets stay with their instance; what can be open twice; does create spare every runtime that kept running, and a teardown never close a strategy under a registered one? | 2 instances, 4 strategies, 2 mishaps |
| `book` | for an operator who follows the reports: is `live` true, and is a dead wallet ever used? | 2 instances, 4 strategies, 2 mishaps |
| `converges` | does that operator get to `live`, and does close get everything closed? | 1 instance, 4 strategies, 3 mishaps |
| `killswitch` | is a verified cancellation true, and does an unproved one leave the switch armed, under signals, failures and a moving venue? | 3 markets, unbounded |
| `adapter` | is a transaction built for the account the strategy looked at, does a halt hold, is a pinned cancellation verified where it was made? | 2 accounts, collateral up to 2, 1 transaction with the host |
| `scanner` | does rooster signal once a session and miss nothing; do the other three keep their cooldowns? | 2 assets, 2 opens (one at midnight), days of 4 minutes, 4 days; 2 assets, cooldowns of 2, 7 moments |
| `portfolio` | is an unwarned total right, a partial one warned, and do the steps of a session agree? | 2 wallets, 2 units, 2 movements, 2 mishaps, 2 sessions |
| `calculations` | do the reconstruction, the matching, the split of a budget, the codec and the paged read agree with their references? | below |

`calculations`: 4 fills of 2 coins, 2 sizes, 2 prices; 2 trades closing at 6
moments with a window of 2; 3 instances, quarter shares, budgets and balances up
to 14 cents in half cents; decimals to 45 in quarter units under quanta 1, 2, 3, 5;
6 events, pages of 2, up to 3 pages.

*Why the bounds are enough.* Two instances give every pairing of a finished and
an unfinished instance and two concurrent close threads. A strategy id is never
used again, so `Sid` bounds how many strategies can ever be made: four are two
complete deploys of a two-instance package; when they run out, create ends
"failed". Two mishaps make a failure and a failure of its recovery; every
violation listed below needs at most two. In the stream, three deltas are a
delta, its successor and one that skips it. The kill switch has no counter: its
run is exhaustive for three markets, enough for one already read, one being read
and one the cached catalog misses. Two accounts suffice for the adapter, since a
decision names one and can only be overtaken by another. In the scanner a window
of two minutes holds two ticks of one session, and a history of one record is the
least the ledger can live on. A cooldown of 2 admits ticks inside, at and after
its end; 7 moments hold a signal, a record without the map and a second signal,
with room for a failed read. In the portfolio, two mishaps are a failed read and
the kill that makes the file outlive it; two sessions are one that leaves rows and
warnings in the file and one that finds them. Four fills
are two opens and two closes, the least in which lots can be used in the wrong
order; the decimals reach every remainder of every quantum twice.

`faults` is run with an operator who may run any command at any time; `book` and
`converges` with `ByTheBook`, in which the operator runs the step the last report
asks for (`Asks`).

## 5. Where the code and its documents disagree

Three are runs in which TLC finds the documented property violated.

| run | property | what happens |
|---|---|---|
| `resume` | `CreateResumes` | polling is cut off while a wallet is funding; the re-run finds the strategy not `ACTIVE`, discards it, finds it again as an existing runtime-less strategy, closes what it can and forgets every id (`deploy.py:220`, `248-261`; `SKILL.md:93` promises a resume) |
| `nocancel` | `CancelTakes` | the cancellation is built, inspected and dropped (`adapter.py:512`); the re-read finds every order that had been resting (`safety.py:227` promises "every open order is cancelled", and `test_adapter.py:512` passes because its fake builder cancels) |
| `reemits` | `SignalsSpaced` | kestrel's tick with a full book appends a record without `recent` (`kestrel/main/scanners/scan.py:171`); the next tick reads the last record only, and signals again what it signalled minutes ago (its docstring: "a per-asset signal-dedup map ... mirrors the v2 180m re-emit cooldown"). Hyena loses its map on every tick that emits nothing (`scan.py:377`), scorpion on every tick without candidates (`scan.py:187`) |

The others have no run of their own. Each is found by TLC with the constants
given; for the module `StrategyOps` with `Inst = {i1}`, `Sid = {s1, s2, s3}`,
`None = None`, specification `Spec`.

| property | constants | what happens |
|---|---|---|
| `OneOpenStrategyPerInstance` | `Mishaps = {"strategy_list"}`, `MaxMishaps = 1`, `Commands = {"create"}`, `ByTheBook = FALSE` | `list_strategies` returns `[]` for a failed read (`_cli.py:327`): the recorded id is discarded or the existing strategy not seen, and the instance is funded again (against the comment at `deploy.py:227`) |
| the same without its exception (`... => s = t`) | `Mishaps = {"name_lost"}`, `MaxMishaps = 1`, `Commands = {"create"}`, `ByTheBook = TRUE` | the call with a name takes effect and answers an error whose text has "name" in it; create calls again, not idempotently, and two wallets are funded (`deploy.py:303-308` against `227`) |
| `CreateSparesRunning` for every runtime that is running (`Running(i)` for `i \in up`) | `Mishaps = {"lookup"}`, `MaxMishaps = 1`, all commands but `close_all`, `ByTheBook = FALSE` | `_has_running_runtime` reads `[]` from a failed `runtime list` and create closes a live deploy (`deploy.py:237` against `229`) |
| the same | `Mishaps = {"runtime"}`, the rest the same | the runtime stands still when create looks (`deploy.py:240`), the host restarts it, and create closes the strategy it trades (`deploy.py:248-251` against `229`) |
| `StopBeforeClose` | `Mishaps = {"inventory"}`, `MaxMishaps = 1`, all commands but `close_all`, `ByTheBook = TRUE` | close's shared inventory is `[]` for a failed read, so `_runtime_gone` is never asked (`close.py:178` against `41-43`) |
| `NeverReusesDeadWallet` | `Mishaps = {}`, `MaxMishaps = 0`, all commands, `ByTheBook = FALSE` | `close --all` leaves the state file; `runtime` registers on the closed wallet (`close.py:205` against `deploy.py:422`) |
| the same | `Mishaps = {"app_close"}`, `MaxMishaps = 1`, all commands but `close_all`, `ByTheBook = TRUE` | the user closes the strategy in the app before `runtime` is run, which does not look |
| `LiveMeansDeployed` | `Mishaps = {"runtime"}`, the rest the same | the runtime of a row found live stops before verify reports |
| `VerifiedWhereCancelled` of `Adapter` | `Accounts = {1, 2}`, `MaxCollateral = 1`, `MaxBuilt = 1`, `None = None` | the build drops the cached account, and the re-read resolves it again: if collateral has moved, the orders that prove the cancellation are another account's (`adapter.py:515` against `483`, `516`) |
| `ReportIsTrue` of `Portfolio` without `told'.asof = sessions` | `MaxSessions = 2`, `Funds = 1`, `MaxMoves = 1`, `Mishaps = {}`, `MaxMishaps = 0`, two wallets | a `positions` step takes the rows an earlier session left in the default state file (`portfolio.py:1288` against `SKILL.md:284-285`) |
| `PartialIsWarned` of `Portfolio` without `told'.asof = sessions` | the same with `MaxMoves = 0`, `Mishaps = {"fails"}`, `MaxMishaps = 1` | a read fails; the next session's `money` step saves the rows it found in the default state file without their warning, and its `strategies` step tells them as they are |
| `OncePerSession` of `Scanner` | `Opens = {1}`, one asset, the rest as in `Scanner.cfg` | a window that begins before midnight has two keys, since the key takes the day of the tick: the open is signalled twice (rooster's `scan.py:12-13`, `runtime.yaml:14`) |

What the passing runs leave out, in full:

* `faults`: the mishaps `strategy_list` and `inventory`. No command is left out.
* `book`: the mishaps `strategy_list`, `runtime` and `app_close`, and the command
  `close --all`.
* `converges`: the mishaps `name_lost` and `app_pause`, and the command `close --all`.
  With `app_pause` it does not converge (a `PAUSED` strategy is never submitted, below);
  `name_lost` with three mishaps is out of reach of the run's time, with two it converges.
* `adapter`: an unpinned account is not claimed to be verified where it cancelled.
* `portfolio`: nothing of the file or of the sessions; the two properties that the
  table has without their condition speak of slices made of their own session's
  reads, `PositionsFollowStrategies` of all of them.
* `scanner`: windows across midnight; and `Reentry`'s two properties except the
  records without the map.

The exceptions inside the two properties of create are as narrow as the code allows.
`OneOpenStrategyPerInstance` excuses a pair of which one strategy came of the call
with the misread answer and one did not: a third is a violation, and so are two made
by calls that answered anything else. `CreateSparesRunning` gives up the one runtime
whose own look-up failed, and what stops after create has read the strategies; a
runtime beside it that has kept running must be left alone.

Met while modelling, without a document that plainly says otherwise:

* After `close --all` verify reports `live` for a runtime registered on a closed
  wallet, since it judges by name (`deploy.py:582`). A `PAUSED` strategy is a
  target of close but is never submitted (`close.py:35`, `104`), so `converges`
  has no `app_pause`. The docstring at `deploy.py:14` ("Refuses if it finds ...
  strategies not in the state file") is older than the code below it.
* `plan_funding`: a create re-run with the very budget its halt advised can halt
  again, by a cent of rounding (shares of a half, 2200.01 available: 2197.01 is
  advised, 2197.02 needed) or because the minimum raises a share. `HaltIsNear`
  says by how much at most.
* After a verified firing the kill switch stays disarmed while `call_tool` goes
  on building orders; a signal then cancels nothing and the process exits with 0
  (`safety.py:280`). A market listed after the catalog was cached is never read.
* The account cached between a build and its landing can be older than the
  landing; the sponsor is cached for ever. `build_onboarding`'s docstring says the
  deposit and the allocations are recorded on the intent; they are not.
* An order history served by a venue that echoes cursors is read twice: the first
  cursor is not among those seen.
* `ScanState.last()` copies the record and not the maps in it (`harness.py:53`).
  Kestrel and some two dozen scanners that read their map in the same way write
  into the committed record; `rollback()` does not undo it, though the class
  promises that a crashed scanner leaves no "half-written dedup ledger behind"
  (`harness.py:42-43`). The signal is lost and its asset passed over for a
  cooldown (`KestrelCutOff`).
* Scorpion's post-close cooldown never applies to an `xyz:` asset
  (`scorpion/main/scanners/scan.py:142`, `155`).
* `run_scan` commits before it has looked at what `scan` returned; an answer that
  is not a list, or a kill at that point, loses signals the ledger has entered.
* The portfolio reads a garbled or empty answer as 0 dollars without a warning;
  `reconciles` is what catches it, and an `all` run stores no totals for it. A
  failed `strategy_list` is stored as no strategies and taken from there later,
  with its warning.

## 6. Fairness

Safety runs assume none. `FairSpec` (run `converges`) assumes

* `WF(Work)`: a command that is not killed goes on: every loop in the scripts is
  bounded and every call has a timeout;
* `WF(Start)`: the operator runs some command, the one the last report asks for
  under `ByTheBook`: the premise of "re-run until it reports done";
* `WF(Activate(s))`, `WF(Flattened(s))`: the backend completes what it accepted
  (a funding that fails is a mishap and leaves the status at once);
* `WF(RuntimeRecovers(i))`: the host restarts what it supervises, as the comment
  in `deploy.py:525-531` relies on.

Mishaps have no fairness and are finitely many: "eventually" means once things
stop going wrong. The other components promise nothing that must happen: a
scanner may be idle for ever and a report may be killed every time.

## 7. Proofs

Every invariant and every action property of the passing runs is a theorem. A theorem
holds for every value of the constants that satisfies the named assumptions, each in
the module that declares the constants: `PlatformAssumption` (the null value is not an
id, the sets of instances and ids are finite, the bound is a natural number);
`MaxVersionAssumption`, `MarkersAssumption` (stream); `AccountsAssumption`,
`BoundsAssumption`, `NoneAssumption` (adapter); `ClockAssumption`,
`HistoryAssumption` (scanner); `BoundsAssumption`, `WalletAssumption`
(portfolio: finitely many wallets); `ReentryAssumption` in `MC_Scanner`;
`FillsAssumption` (a fill has a size), `ExitAssumption`, `FundingAssumption` (the
minimum wallet is not nothing), `CodecAssumption` (a quantum is not zero) and
`AuditAssumption` in `MC_Calculations`, for the modules these reach by INSTANCE.
A hypothesis of a single theorem stands in its statement and is named below.

**`StrategyOps_proofs`** (deploy and teardown).

* `TypeCorrect`, one lemma per action.
* `WalletBelongsTheorem`. `WalletBelongs` alone is not inductive: create copies a
  wallet from a strategy's record, so `OwnInv` adds that recorded ids, the command's
  copy of them and the reply not yet recorded name strategies of their instance, and
  that those strategies are not `UNUSED`, so that nothing hands them out again.
  `_recover_wallet` keeps it because it matches by name in a package of several
  instances, and because a single instance owns every strategy.
* `NeverFundsTwice`, where `strategy_list` succeeds: `FundInv` adds what create knows
  between its reconciliation and its record (`FundsUnheld`): nothing of the package is
  open; then nothing open belongs to an instance still to be funded, except the
  strategy whose id has just come back, and, where create calls again, the one that
  the misread answer made. Commands may be killed anywhere, between the two calls too.
* `StopsBeforeClosing`, where the inventory can be read: `StopInv` says that the
  inventory names the runtime of every instance as long as it is used
  (`InventoryHolds`), that a job that checks for a runtime checks for the wallet's own,
  and that one that submits has found none (`JobsSafe`).
* `CreateSparesRunningTheorem`, without a hypothesis: what is in `up` runs (`UpRuns`),
  `up` is empty unless create is checking or closing what exists (`UpInTime`), and no
  strategy that a runtime in `up` trades is among those found idle (`UpSpared`), so
  that no closing touches it (`ClosesSpare`).
* `NeverReusesDeadWalletTheorem` and `LiveMeansDeployedTheorem`, for an operator who
  goes by the reports (`ByTheBook`), where `strategy_list` succeeds and nothing is
  closed in the app, and for the second where runtimes do not stop of themselves.
  `BookInv` goes round the commands: which report asks for what, and so what the file
  can hold when a command starts (`Creating`, `Wiring`, `Verifying`).

The hypotheses are those named, each theorem has its own, and all other mishaps remain, a
kill at any point among them. `NeverFundsTwice`, `StopsBeforeClosing` and
`LiveMeansDeployedTheorem` are false without each of theirs (section 5; for the last also
the constants of `book` with `strategy_list` or `app_close` added).
`NeverReusesDeadWalletTheorem` needs the operator, and that nothing is closed in the app.
That `strategy_list` succeeds is what its proof rests on; on the instance of `book` TLC
finds it to hold without.

**`SnapshotStream_proofs`.** `IInv`, the conjunction of the types, "synced rows are the
table of their number", "the rows were published" and "the history was published", is
inductive. `TypeCorrect`, `SyncedRowsTheorem` and `RowsWerePublishedTheorem` follow. The
last conjunct is needed because a snapshot may be any old version.
`ImplementsReplicaTheorem` maps each action to a step of `Replica` or a stutter: a delta
to `Advance`, a snapshot to `Resync`, a gap to `Lose`.

**`KillSwitch_proofs`.** `IInv` adds to the types that a reading which has found nothing
saw every market it is done with empty, but for what `landed` (`ReadSoFar`), and that a
switch at work is armed and has proved nothing yet (`ArmedWhileTriggered`). One lemma per
kind of step, `EndKeeps` for the three ways a trigger ends. `VerifiedFlat` needs the
first: the step that sets `verified` ends a reading that found nothing. `FailedArmed`
needs the second.

**`Adapter_proofs`.** `IInv` adds to the types that a cached account is one selection has
named since the last build (`CacheInv`), that a call past its resolution acts through the
cached account and through the one the strategy looked at (`CallInv`), and that under a
pin no other is ever chosen (`PinInv`). `CacheYoung`, `ActsThere`, `HaltTheorem` and
`PinnedTheorem` follow.

**`Scanner_proofs`** (rooster, and what three others remember).

* `TypeTheorem`, `OncePerSessionTheorem` and `NeverSilencedTheorem`; the last two under
  `WindowsInsideDay`, without which they are false (section 5). The invariant follows the
  ledger round: from the last record into a tick, through the staged map and back
  (`LedgerInv`, `TickInv`, `StagedInv`), and says that an entry for a session still ahead
  accounts for a committed signal, and a delivered signal of a session still ahead has its
  entry (`SentInv`). `NeverSilenced` is the first half: an entry that silences an asset
  was written for a signal.
* `SpacedTheorem` and `CooldownTheorem`: `MemoryInv` says of each signal that it is in
  the map no earlier than it was given, or is older than its cooldown, or a record without
  the map has come since (`SignaledInv`), and of each position scorpion has seen that it is
  remembered as held, or as closed later than that, or is out of its cooldown, or such a
  record has come since (`SightedInv`). Pruning keeps four cooldowns, so it drops nothing
  that counts. `MemoryTheorem` says the same of the side-by-side specification.

**`Portfolio_proofs`.**

* `TypeTheorem`: `TypeOK`, each wallet read once among it, and `Conserved`: the money in
  the embedded and the strategy wallets always adds up to `Funds`.
* `PositionsTheorem`: once the rows are told they are in a file the later steps of the
  session start from (`NarratedInv`).
* `PartialIsWarnedTheorem`, `ReportTheorem`, for any number of sessions on one file, and
  without a hypothesis. Each is about slices made of their session's own reads; for the
  rows of a former session both claims are false (section 5). `AgeInv`: no state is
  younger than the session it is in. `WarnInv`: a usable file, and the data of a step
  under way, have a warning for what they lack. `TruthInv`: as long as nothing moves, what
  is unwarned is what the platform has. That an unwarned total is right is then `AddsUp`:
  no wallet's worth is below what was read of it, and the sums are equal, so each is equal.

**`Calculations_proofs`**, with **`SumTheorems`**.

* `NeverWorseTheorem`, `RoundTripsTheorem` (codec): both roundings go the same way, so the
  second never undoes the first. Division with its remainder is all they rest on.
* `NoGapNoRepeatTheorem` (paged read): the times read go down from the start without a gap,
  and the cursor is the last of them (`Consecutive`, `GoesOn`), while no page repeats one
  that the cursor names.
* `RightEventTheorem`, `NearestIsOwnTheorem` (exit matching): every event in the log is of a
  trade that has closed and no older than it (`LogInv`).
* `FundsWhatWasAskedTheorem`, `HaltIsNearTheorem` (funding): every amount is its share to
  half a cent, or the minimum (`Planned`), and the create goes on only if the balance it
  read covers their total and the fees (`Decided`).
* `LotsTheorem`, `EntryTheorem`, `ReportNewestTheorem` (fills). The invariant of the wallet
  is only that it never closes more than it opened (`FillsInv`). The rest is about the
  reconstruction, followed fill by fill: of a coin that was flat where the answered fills
  begin, the lots are a `Chain`, their units following on each other from the last one
  closed to the last one opened. An open adds to its end (`ChainAppend`), a close takes from
  its front (`TakeStep`, `ConsumeLemma`), and so the trade it makes is of the units that
  come next (`GoodTrip`).

`SumTheorems` has what these and the portfolio know of folds: a sum over a finite set is
that over the set without an element and the element; sums agree where the functions do;
a fold along a sequence has on each prefix what one step makes of the prefix before
(`FoldExists`, `Prefixes`). An induction over data is done there without the library's
induction theorems, which take an operator as parameter: the counterexamples are a set of
natural numbers, or of sizes of subsets, and a nonempty one has a least element (`Smallest`).

Only model-checked: liveness (`DeployConverges`, `CloseConverges`), which is out of the
prover's reach, and the counterexamples of section 5, which TLC finds and nothing has to
prove.

## 8. What is not modelled

* `--dry-run`, `--instance`, `status`, `validate`: no state changes, or a subset
  of the modelled targets. `status.py` is worth a remark: it reads the strategies
  and then the runtimes, and a failed `strategy_list` reads as none, so that every
  runtime of a live deploy is printed as an orphan, "safe to delete".
* verify's DSL verdict (a static look at a file) and funded-amount verdict.
* `_fetch.py`: files of a package are written as they arrive, so a download that
  fails part-way leaves a partial package directory behind.
* The adapter's serial gate: it covers only the build, and one thread never finds
  it busy. What happens to two deposits built one after the other is the venue's
  decision. Sizing, limits and the conversions of the reading tools.
* Signing and submission: the host does both, outside the repository.
* The scores of the scanners: pure functions of one tick's inputs, taken as any
  number. About 120 other scanners: those that remember signals do it as kestrel
  does, with or without a record that lacks the map.
* `portfolio.py`'s mandates, market enrichment and exposure, which no bucket
  depends on; two processes writing the same `.tmp` file at once.
* `review.py`'s reading steps (a failed `curl` is silent, `review.py:713-731`) and
  its statistics.
* `senpi-market-pulse`, `senpi-smart-money`, `senpi-trader-research`,
  `senpi-account-status`, `senpi-strategy-discover`: they read once and print.
* Tools, contracts, schemas, CI: repository maintenance.

## 9. Plan

In order: (1) `status.py` as a command of `StrategyOps`, under "what it calls safe
to delete has no open strategy"; (2) two scanners' sessions on one wallet, composed
with `Adapter` by way of the signals; (3) the deposits the serial gate is meant for,
once the host's rules for submission are written down.

With each, its invariants proved: (1) extends `OwnInv` by what the status report has
read; (2) needs that two scanners' ledgers are apart; (3) has an invariant of its own.
