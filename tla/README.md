# TLA+ models of the automated trading engine

This directory holds TLA+ specifications of the part of the platform that acts on its own and
with money at stake: the V2 engine under `src/services/automated_trading/`, the processes and the
scheduler that run it, the switch that stops it and the configuration it runs on. V2 is the engine that
can send orders to the Binance USDT-M Testnet account. TLC checks the specifications on small
instances; TLAPS proves the safety properties for every value of the constants. `PROJECT.json` lists the
runs, the mutants, the theorems, the lines of code behind every definition, the findings and the
hazards.

## 1. Inventory

The engine is *exchange-first*: the exchange is the truth, the database holds projections of it,
and every cycle starts by reading the account and repairing the projections.

| Component | State it keeps | Operations | Hard because |
|---|---|---|---|
| account writer registry (`infrastructure/account_writer.py`) | one JSON record per account: bound database, owner, generation, lease expiry; a file lock | bind, rebind, acquire, renew, release, `mutation_guard` | processes race for the lock, the clock is read outside it, holders die |
| supervisor (`scripts/run-local-paper-scheduler.py`) | its lease, its worker | acquire, renew, spawn, recycle, stop | killed at any point; orphans; pid reuse |
| scheduler coordination (`services/execution/scheduler_coordination.py`, `v2_scheduler_entry.py`, `scripts/reclaim_stale_scheduler_locks.py`) | database lease row, cycle rows, fencing token | acquire/renew, claim, finish, validate fence, delete the rows of the dead | two schedulers; lease lost in the middle of a cycle; rows deleted under their readers |
| cycle service (`application/cycle_service.py`) | everything it read this cycle | one pass: snapshot, repairs, reconcile, recover, tighten, decide, enter | long chain of exchange calls and transactions; anything may change between two of them |
| entry service, fact persistence (`application/entry_service.py`, `fact_persistence.py`) | intents, orders, fills, positions | intent before submission, submission, projection | lost answers, crash between order and record |
| protection service (`application/protection_service.py`) | plan and attempt number | submit stop, retry, re-read, emergency close | retry of what was already done |
| reconciliation and recovery (`application/reconciliation_service.py`, `recovery_service.py`, `recovery_executor.py`) | none: views of both sides | compare, plan, execute | acts on a snapshot that ages; its own actions create new discrepancies |
| exit service (`application/exit_service.py`) | none | reduce-only exit | partial fills, residual orders |
| repository and models (`infrastructure/repository.py`, `models.py`) | all V2 tables, row versions | guarded transitions, unique indexes | an illegal transition rolls the transaction back |
| exchange adapter (`infrastructure/binance_adapter.py`) | none | order calls, snapshot, fills | every failure looks alike to the caller |
| runtime control (`infrastructure/repository.py`, `services/execution/scheduler.py`, `apps/api/routers/automated_trading.py`) | the row `global`: entries enabled, reason, author, version | disable, enable, claim a hold, clear it | three parties read the row and write it later; process and task both restart |
| configuration snapshots (`services/strategy_library/repository.py`, `scripts/set_operator_risk_per_trade.py`) | snapshots of a run, its active and its pending one | create, stage, activate, clear | many callers load the run and write it later, some without a condition; cycles of one run overlap |
| risk controls (`application/risk_controls.py`, `domain/portfolio_risk.py`) | none | stop ladder, caps | rounding, reservations by concurrent intents |
| legacy engine (`services/execution/paper_*.py`, `gateway.py`) | paper orders and positions | paper cycle, mirror | see section 7 |
| decision, strategy, AI review, audit, research, validation, data, API, frontend | no trading state | signals, reports | – |

They interact through three things only: the exchange account, the database and the registry file. The supervisor holds
the account lease and spawns a worker; the worker's scheduler takes the database lease and claims a slot; the slot's cycle
activates the pending configuration, reads the account, repairs, reconciles, recovers, tightens and may enter; every
mutation passes `mutation_guard`. The operator acts through the API and the command line at any time.

What makes the modelled components correct:

* **registry**: one effective writer; a mutation is sent only under the capability the registry
  names; generations are never shared and never go back; a live holder is not displaced.
* **protection and recovery**: a live position keeps a stop; its local state is never CLOSED without
  the fill that closed it; entries stay blocked unless exposure is protected; whatever was
  interrupted is finished by a later cycle; nothing stays behind after the exit.
* **entry**: no entry is executed on top of another of its symbol; what the exchange holds counts against the
  budget; a position in the database rests on a fill; a filled entry ends as a managed position.
* **runtime control**: an operator's pause is never overridden by the machinery; a hold that is reported is in the
  row; entries come back on request or on the evidence of a healthy cycle, and a hold is given back once cycles are healthy.
* **scheduler coordination**: a slot runs once; whoever takes the lease of a run gets a larger token; nobody touches the
  unexpired lease of a live owner.
* **configuration snapshots**: the configuration changes only to what was staged on the one it replaces, as if each change
  were one step; what is staged takes effect.

## 2. Modules

| Module | Contents |
|---|---|
| `AccountWriter` | the registry, the supervisors and workers that use it, the operator |
| `MCAccountWriter` | its instance for TLC (symmetry) |
| `SingleWriter` | the abstract promise of the registry, which `AccountWriter` implements |
| `AccountWriterProofs` | theorems about it, the refinement included |
| `ProtectionLifecycle` | one position: exchange, database, and the cycles of the worker |
| `MCProtectionLifecycle` | its instance for TLC (symmetry) |
| `ProtectionLifecycleProofs` | theorems about it |
| `EntryLifecycle` | entries of several symbols, from the intent to the managed position |
| `MCEntryLifecycle`, `EntryLifecycleProofs` | its instance for TLC and the theorems about it |
| `RuntimeControl` | the switch for new entries: operator, worker and supervisor |
| `RuntimeControlProofs` | theorems about it |
| `SchedulerLease` | the database lease of the schedulers and their claims on slots |
| `MCSchedulerLease`, `SchedulerLeaseProofs` | its instance for TLC and the theorems about it |
| `ConfigSnapshot` | active and pending configuration of a run, its editors and its cycles |
| `StagedConfig` | the atomic steps the writes of `ConfigSnapshot` are compared with |
| `ConfigSnapshotProofs` | theorems about it |

`ProtectionLifecycle` and `EntryLifecycle` model the same cycle from two sides: the one follows one position and its
stops, with the entry reduced to its end, the other follows intents, orders and fills of several symbols,
with protection reduced to its outcome. The definitions commented "Mutant of" are not
used by a specification: each is a plausible bug, and `PROJECT.json` names the property that catches it.

### AccountWriter

`reg` is the account's record in the registry file. Every operation holds `_registry_lock` for its
whole critical section, so the section is one step; what happens outside is a step of its own.
`BeginAcquire`/`BeginRenew` read the clock, `Acquire`/`Renew` use that reading under the lock any
time later. `RebindPreflight` is the operator's check of the exchange, `RebindCommit` the change.
`mutation_guard` is the one operation that keeps the lock across steps: `EnterGuard` checks and
sends, `LeaveGuard` receives the answer. A supervisor that leaves kills its worker (`Stop`, `RenewRejected`; phase
`stopping`) and then releases the lease (`Release`), and may die in between. `Kill` is a worker's end by `_terminate_worker` or on its
own: the operating system drops its lock and a request already sent goes to `wire`, from where
`Land` delivers or loses it. `Crash` is a supervisor that dies without its `finally`; its worker
stays. `Reuse` starts another supervisor under the same pid, hence the same owner id.

Abstractions: one account scope (records of different scopes share a file and its lock, and are
never read together); the owner id is a model value, `Probeable` says whether this host can
recognise its death (`_dead_local_supervisor_owner` answers DEAD only for a local pid); the exchange is
reduced to the database on whose behalf it holds exposure. Status reports are read-only and left out. That
`_terminate_worker` ends the worker is assumed: `taskkill` runs with `check=False` and the POSIX `kill` is not waited for. A worker that survived would pass the
fence beside the one that replaces it, and `OneEffectiveWriter` would not hold; the file lock would still separate their mutations.

`SingleWriter` says what the rest of the system relies on: there is one current capability, it passes on only
while nobody writes, each time under a larger generation, and writes carry the current one. The mapping is
`current <- Registered`, `writing <- Mutating`, `last <- written`.

### ProtectionLifecycle

The exchange is `live`, `book` (the open stops by exchange id, each with its client id), `closer`
(what closed the position) and `visible` (whether that fill can be read). The database is `pos`,
`records` (the protection rows, oldest first) and `exit` (the exit order row). `cycle` is all that
the running cycle remembers, and its program counter; `Crash` forgets it.

| Code | Actions |
|---|---|
| `ensure_protection` | `SubmitProtection`, `SubmitProtectionFails`, `RereadQuantity`, `Fenced` |
| `_escalate_emergency` | `EscalateEmergency` |
| `persist_entry_and_protection` | `PersistEntry` |
| `fetch_authoritative_snapshot` | `FetchPositions`, then `FetchOrders` |
| `reconcile_closed_position_protections` | `ReconcileClosedProtections` |
| `_recover_confirmed_v2_exit_gaps` | `RecoverExitGap`, `NoExitGap`, `ExitGapUnreadable` |
| `_project_confirmed_protection_exits` | `ProjectExit`, `NoProjectedExit`, `ProjectUnreadable`, `CancelSiblings` |
| `persist_exit_result` (three transactions) | `PersistExitIntent`, `PersistExitAck`, `PersistExitFill`, `PersistExitRefused` |
| `reconcile`, `recover_pending_state`, the deferral of quarantines | `Reconcile` |
| `execute_recovery_actions` | `MarkIntentNotSubmitted`, `ResolveUnknownIntent`, `BeginResubmit`, `PersistResubmit`, `QuarantineLocalPosition`, `CancelOrphan`, `RecoveryDone` |
| `_apply_profit_protection` | `ReplaceStop`, `CancelOldStop`, `UpdateStop`, `EndCycle` |
| the exchange and the operator | `StopFires`, `ManualClose`, `FillsVisible` |

Abstractions:

* One position of one unit. Different positions share nothing but the snapshot; partial quantities
  are not modelled.
* A stop's client order id is its revision number, as `stop_client_order_id` is injective in it; an
  exit's is its attempt number. Version numbers are kept, because the code derives revisions from
  them and the collisions matter.
* The take-profit order is left out. It is submitted, recorded and cancelled with the stop, and
  its failure after the stop was accepted is what the fault `lost` does, or, when the fence refuses it, `Fenced`.
* Prices are left out: whether a tighter stop is due is a free choice in every cycle. Of a record's stop price only
  this is kept: one that profit protection moved (`tight`) lies at the entry price or beyond it, where the `ProtectionPlan` of a recovery refuses it
  (`Protectable`).
* An exit closes the position at once; its fill may become readable only later (`lag`).
* `SUBMITTING` and `TRIGGERED` are passed through inside one transaction and never seen; `FAILED` and
  `UNKNOWN` are written by no code that runs in production.
* `forced_exit_reason` is set by tests only, so the loop over forced exits is left out.
* A position whose entry was not saved (`pos = "NONE"` after a crash) is the matter of the entry-gap
  recovery, not of this module; here it only blocks entries.
* Of the database only the unique index on client ids refuses a transaction; other database errors
  have the effect of a crash at that point.

The six faults are those the code handles: the worker dies (`crash`), a request never arrives
(`unavailable`), its answer is lost (`lost`), a query raises (`unreadable`), a fill is late (`lag`), the
account writer fence refuses a mutation (`fenced`).

### EntryLifecycle

The exchange is `held` (per symbol, the intents whose fills make up the position) with the orders' fates; the database is `db`
(per intent its state, receipts, position and whether its decision was finalised); `cycle` is the worker's memory.

| Code | Actions |
|---|---|
| the scheduler, `fetch_authoritative_snapshot` | `StartCycle`, `FetchSnapshot`, `SnapshotFails`, `Refetch` |
| `_recover_confirmed_v2_entry_gap` | `GapFlat`, `GapSkip`, `GapAdopt`, `GapFails`, `GapDone` |
| `_project_confirmed_protection_exits` | `ProjectExit` |
| `reconcile`, `recover_pending_state`, `execute_recovery_actions` for intents | `Reconcile`, `Recover` |
| `evaluate_entry`, `evaluate_portfolio_risk`, `persist_entry_intent_before_submission` | `ReserveIntent`, `NoEntry`, `Authorise` |
| `execute_entry` with the post-fill margin guard | `NotAttempted`, `SubmitEntry`, `SubmitRests`, `SubmitFails`, `SubmitFenced`, `MarginGuard` |
| `persist_entry_submission_result`, `persist_entry_and_protection`, the unwound entry | `PersistSubmission`, `Protect`, `PersistEntry`, `ProjectUnwound`, `CloseUnwound` |
| the finalisation in `v2_scheduler_entry.py` | `Finalise` |
| exchange, operator | `OrderExecutes`, `PositionCloses`, `SetControl`, `RecordGap` (`record_historical_ledger_gap`) |

Abstractions: cycles run one symbol at a time, as the scheduler does; a step is one exchange call or one
transaction (the three of an exit, which `ProtectionLifecycle` tells apart, are one here); every entry is a long of one unit of quantity and one unit of risk; whether there is a candidate is a free
choice. `EXCHANGE_UNKNOWN` is never reached because the adapter raises no `ExchangeTimeout`. Faults: `crash`, `unavailable`, `lost`,
`unreadable`, `lag`, `fenced`, a market order that does not execute at once (`resting`), a transaction that fails (`database`).

### RuntimeControl

`OperatorReads`/`OperatorWrites` are `set_runtime_control` of the two endpoints: the row is loaded, later the columns that differ from
the loaded row are written, whatever the row holds by then. The worker's recovery of its V2 task is `Bootstrap`, `Hydrate`,
`CycleEnds`, `AfterCycle`, `ClearReads/Writes/Raises`, `TaskCrashes`, `Check`, `ClaimReads/Writes/Raises`, `Restart`, `Rehydrate`,
`WorkerExits`; the supervisor's is `Detect`, `KeeperClaimReads/Writes`, `Recycle`. Claims and clears are compare-and-sets between a read and a
write of their own. The row is absent at first, or it is the disabled one that
migration 0019 inserts, which `Bootstrap` leaves alone. A worker whose read of the row raises takes it for a row without a hold
(`_runtime_entry_control_state`). The operator's requests come one after the other; a database error in the supervisor's
first read is left out.

### SchedulerLease

`lease` is the job's row, `cycles` the claims, `inst` each scheduler's memory. `Observe`, `Read`, `Acquire`, `ReadToken` are
`acquire_or_renew_lease` and `fencing_token`; `Claim`, `ClaimConflict`, `Reclaim` are `claim_cycle`; `Heartbeat`, `Renew` the
renewal thread; `Finish`, `Release` the end of a run. `time` is the slowest clock; `JobClock[i]` says by how much the clock
a run observes (the exchange's for V2) is ahead of it, `LocalClock[i]` the clock of the host, which heartbeats and releases read; no two
differ by more than `MaxSkew`, which is less than the time to live. Short calls end while no clock has the lease they write expired; a run may take
longer. `DeleteLease`, `ReadClaims` and `FailClaims` are `scripts/reclaim_stale_scheduler_locks.py`, which the supervisor runs on every recycle
(`run-local-paper-scheduler.py:368`) and `launch-paper-console.ps1:207` at start. It compares process ids only, whatever the host, and takes a
process it may not signal for dead: a member of `Views` is the set of schedulers that it sees from one place it is run at. sqlite begins its transaction with the first
write, so claims are failed in the transaction that deletes a lease, or after a read of their own. The row is absent afterwards and the next
acquisition inserts token 1. `validate_fence`, which only the legacy engine calls, changes nothing and is left out.

### ConfigSnapshot

`run` holds the active and the pending pointer, `effective` the label (`effective_cycle_id`) of each stored snapshot, `proc` what each
session loaded. A configuration stands for its canonical hash, unique in a run. `LoadForEdit` is the load and the checks of
`create_snapshot`; `Restage`, `Create`, `Found`, `Conflict` are how it ends; `LoadForSizing`, `StageProfile` are
`stage_execution_profile_snapshot`, which two scripts call (`apply_e010_testnet_sizing_profile.py`, `apply_directional_risk_cap.py`); `StartCycle`,
`ActivatePending`, `RunCycle` a cycle; `Withdraw`, `ClearActive` are the two transactions of `set_operator_risk_per_trade.py`. Which label a caller
offers, and when it offers none, is one definition per caller (`ApiSnapshot` to `StageCeilings`). Cycles of a run overlap: those of the
scheduler hold the lease, `POST auto-cycle` (`runs.py:774` and `1161`) and the task queue (`tasks.py:80`) do not ask for it. What a cycle captures
after its activation is its own copy, which nobody else writes, so it is not kept. `base` is a history variable, the configuration the pending one is to
replace; so are `overtaken`, the processes about to write without a condition what another unconditional write has changed since their load, and
`lost`, what such writes cleared from the pending slot. Left out: the column `execution_profile`, and `clear_pending`, which nothing calls.

`StagedConfig` says what a change of the run is meant to be: a founding, a staging on the active configuration or the activation of what was
staged on it, each in one step, although the code loads, decides and writes in three. `AtomicUnlessOvertaken` compares every step with it.

## 3. Runs

| Run | Instance | Shows |
|---|---|---|
| `account_writer` | 2 supervisors (one probeable), 2 workers, 2 databases, clock 1..4, lease 2; 1.4 M states | type, `FencedMutation`, `GenerationsUnique`, `OneEffectiveWriter`, `NoEvictionOfLiveHolder`, `ImplementsSingleWriter` |
| `account_writer_pid_reuse` | one database, lease 2, pids reused up to generation 2 | `MutationsInGenerationOrder` survives the reuse of a pid. `OneEffectiveWriter` does not: an heir of the pid inherits the unexpired lease and its generation |
| `protection` | 4 order ids, 4 faults of any kind; 68 k states | type, `ClosedOnEvidence`, `UnblockedMeansProtected`, `MakeBeforeBreak`, `OnlyLegalTransitions` |
| `protection_liveness` | 3 faults of any kind but lag; 442 k states | `FiredStopNotQuarantined`, `StopFillProjected`, `NakedIsResolved` |
| `protection_settles` | 2 faults among unreadable, lag, fenced | `FlatIsCleaned` |
| `entry` | 2 symbols, 2 intents, 3 faults of all kinds but `resting`, budget diagnostic; 456 k states | type, `OneExposurePerSymbol`, `ReservedUnlessWrittenOff`, `ProjectedOnEvidence`, `TerminalCorrectedByFillOnly` |
| `entry_liveness` | budget 1 enforced, 2 faults among lag, resting, unavailable, fenced; 49 k states | `ExposureWithinBudget`, `FilledEntryIsManaged` |
| `runtime_control` | 2 requests, 2 attempts, 2 faults of any kind, row absent or migrated; 356 k states | type, `HoldIsDurable`, `PauseIsTheOperators`, `EnabledOnEvidence`, `HoldIsReleased` |
| `scheduler_lease` | 3 schedulers on 2 hosts, ttl and interval 3, clock to 6, the exchange's clock ahead of the first host's and behind the second's, the script run on the first host; 3.9 M states | type, `SlotRunsOnce`, `TakeoverRaisesToken`, `LeaseIsItsOwners` |
| `config_snapshot` | 2 editors, 1 sizer, 2 cycle runners, 1 script, 3 configurations, 3 requests, 1 death; 281 k states | type, `AtomicUnlessOvertaken`, `StagedTakesEffect` |
| `protection_retry_revision` | 1 `unavailable` | `RecoveryKeepsLastStop` is violated |
| `runtime_control_pause` | 1 request, 1 `task` | `PauseTakesEffect` is violated |

`MutationsInGenerationOrder` follows from the refinement of the first run; it is checked where pids are reused.

The two violations are the findings of `PROJECT.json`: each states what a docstring or message of the repository says
and shows that the code does otherwise, in a handful of steps. The fault sets of the liveness runs differ because each
leaves out the faults after which the code is known not to finish the work (section 5).

**Bounds.** Two supervisors suffice for a takeover and, as each acquires once, for a takeover back;
the clock reaches a lease's beginning, end and beyond. `MaxTime` stops the clock and `MaxGeneration` the
reuse of pids, so these runs end (`CHECK_DEADLOCK FALSE`). Four order ids allow an entry stop, its
retry, a replacement and a resubmission at once. When none is fresh (`NoneFresh`) a submission fails,
which is the behaviour of `unavailable`, so the bound adds no behaviour the code lacks; the violations
were found with six ids as well. `MaxVersion = 4` bounds only how often profit protection may tighten.
`MaxFaults` bounds the faults: the counterexamples need one, the passing runs allow two to four. Two intents are an
entry and the one that may come on top of it; three intents with one and two faults were checked as well (728 k and 4.0 M
states). Three schedulers are an owner, a successor on its host and one that cannot probe it; the clock allows
two expiries. Two requests and two attempts let a pause meet a hold, its clearing and a restart. Three requests found
a run, change it and leave one to collide, or let the script come between; two runners are an activation and the one that overtakes it. The clock of `scheduler_lease` is bounded, so that run ends too
(`CHECK_DEADLOCK FALSE`). Symmetry is used only in runs without liveness properties.

**Fairness.** Always of the machinery, never of the market, the operator or the choice among enabled steps.
`ProtectionLifecycle`: the worker keeps taking steps (the scheduler starts a cycle per tick and the supervisor replaces a dead
worker), and a fill becomes readable in the end. `EntryLifecycle`: a started cycle goes on, every symbol's cycle is started again and
again (strong fairness of `StartCycle(s)`, because cycles of other symbols disable it in between), a resting market order executes.
`RuntimeControl`: worker and supervisor go on, and cycles are healthy again and again (strong fairness of
`CycleEnds("healthy")`; faults are bounded). `ConfigSnapshot`: cycles are started and end. That profit protection may tighten
forever is harmless because of `MaxVersion`.

## 4. Proofs

The proof modules follow one scheme: an inductive invariant, that `Init` implies it, that every action keeps
it (one step per action, one below it per conjunct the action can disturb), and each property from it.

`AccountWriterProofs` proves for any sets of supervisors, workers and databases and any lease:
`TypeCorrect`, `MutationsAreFenced`, `GenerationsAreUnique`, `MutationsAreOrdered`,
`LiveHoldersKeepTheLease`, the refinement `RegistryImplementsSingleWriter` and, assuming that pids are not reused, `OneWriter`. The invariant adds to the
properties that no capability is ahead of the registry's generation, and one of the current generation agrees with the
record unless a rebind has dropped the owner (`Bounded`); that an unbound account has no owner (`UnboundUnowned`); that a
supervisor past its acquire holds a capability in its own name (`LeaseInOwnName`); that the guard's holder runs and every
running worker has a capability (`GuardRunning`); and that no clock reading is ahead of the clock and no mutation ahead
of the registry (`History`). `OneWriter` needs that a supervisor's workers that run under its lease are its one child
(`OnlyChild`), which is what a reused pid breaks. `LateRequestsWereFenced` says what is left of the fence when a worker is killed
inside it: its request may land later, but it is not newer than the last mutation sent, and in the generation that is writing it is of the
writing capability. It rests on `Sent`: whoever is inside the guard sent the last mutation.

`ProtectionLifecycleProofs` proves for any set of order ids, any faults and any number of them:
`TypeCorrect`, `ClosesOnEvidence`, `UnblockedIsProtected`, `ReplacementIsSafe`, `TransitionsAreLegal`. The invariant
relates the program counter to what was established before it: an exit under way was confirmed at the exchange
(`Evidence`), each stage of the exit and each return address fits the position's state (`Continuation`), a replacement in
progress holds a stop that was open when it was submitted (`Replacement`), what a reconciliation planned
follows from what it saw (`Blocked`, `Justified`), an ACTIVE record names an order (`ActiveHasOrder`), and before the
position is saved there is only the entry (`EntryPending`). `FiredStopsAreNotQuarantined` is the safety half of `StopFillProjected`, for
fills that are readable when the position is seen flat (`lag` is not among the faults). Its invariant `QInv` follows the fill from the exchange to the
quarantine: a position a snapshot shows flat stays flat and its fill is readable (`FlatSeen`), a second snapshot is taken only after the exit was saved
(`AfterExit`), a quarantine is not planned while the worker protects or tightens (`Tasks`), and whoever reconciles with complete lookups, plans a
quarantine or finds one has no recorded stop that fired (`Unfired`).

`EntryLifecycleProofs` proves for any symbols, budget and faults: `TypeCorrect`, `PositionsRestOnEvidence`,
`TerminalIsCorrectedByFillOnly`; if market orders execute at once (`resting` is not among the faults) `OneExposureHolds` and
`ReservationHolds`; if moreover every submission is answered and saved (`Answered`) `ExposureStaysWithinBudget`. The invariants: an
intent not yet numbered has left no trace, a decided one has its row, the cycle works on the current intent, and the recovery of a gap looks at rows
that are still as it read them (`Unused`, `Decided`, `Current`, `GapRows`); fills and the exposures they make agree, what the
snapshot showed covers what the exchange holds, the gate passes only a flat symbol, an unwound entry is flat, at most one intent is exposed
per symbol and it is reserved (`NoOpen`, `Fills`, `SnapCovers`, `GateFlat`, `UnwoundFlat`, `OneExposure`, `Reserved`); for the budget, that
every exposure has a receipt and a submission in flight has room (`Receipted`, `Room`).

`SchedulerLeaseProofs` proves for any schedulers, hosts and places the script is run at, and for any clocks that differ by less than the time to live,
`TypeCorrect`, `LeasesAreTheirOwners`, `TakeoversRaiseToken` and `SlotsRunOnce`. An owner judged dead is dead and left its row as it was, and only the leader
of an unexpired lease is past its acquisition (`DeadOwner`, `Timely`, `Leader`). The row an update was computed from is still the row, or the update will not find it
expired, or the row is not that of a run under way (`SeenRow`): a grant has expired for no observation made before it, a release ends its run. Who
ran a slot and is not named by its claim is dead, and so is the claimant whose row is about to be rewritten (`NamedOrDead`, `DeadClaim`). What the script can undo
is stated for the schedulers it sees (`Visible`): the lease of one it does not see it deletes, and two schedulers of a host it does not see may then both
rewrite the claim of a dead one. Of the fence no theorem says that it is final; section 5 says why.

`RuntimeControlProofs` proves for any number of requests and faults `TypeCorrect`, `PausesAreTheOperators` and `HoldsAreDurable`. A row that was read
and not changed since is the row (`Observed`); reason and author of a row fit together, what the worker takes for a hold
disables entries, and a worker that starts holds nothing (`CoupledRows`, `PauseRead`, `HoldDisables`, `BootHoldsNothing`).
`EntriesEnabledOnEvidence` adds that a worker about to clear a hold saw a healthy cycle (`Earned`). `UnracedPausesTakeEffect` draws the line around the second
finding: a disable request pauses entries whenever the row is still the one it read, or that one was enabled and not by the operator; `PauseTakesEffect`
fails only for the others.

`ConfigSnapshotProofs` proves for any editors, sizers, runners of cycles, scripts and configurations `TypeCorrect` and `AtomicSteps`: every change is an atomic
founding, staging or activation, but for the script's own and for the unconditional writes that another unconditional write overtook. The invariant says why
the conditional updates need no such exception and never cause one: what is pending was staged on the active configuration and differs from it
(`StagedOn`), a cycle nobody overtook finds pending what it loaded (`StillPending`), a founder nobody overtook finds an unfounded run (`StillUnfounded`). Any number of
editors may act in between: they wait for an empty pending slot and leave the active pointer alone.

The assumptions on the constants are the named `ASSUME`s of the modules, which TLC evaluates in every run. TLC checked each
invariant before it was proved. Only model-checked, because the prover does not handle fairness: the liveness properties
`StopFillProjected`, `NakedIsResolved`, `FlatIsCleaned`, `FilledEntryIsManaged`, `HoldIsReleased`, `StagedTakesEffect`.

## 5. Behaviours the models show

Besides the two findings, the models reach states that no line of the repository rules out, or that the passing runs leave out by a
named assumption. They are listed because a maintainer would want to know of them.

*Registry.* The operator's preflight of a rebind runs outside the lock (`account_writer.py:289`), so exposure may be opened between
check and change. A request sent by a worker that is killed inside the guard may land under its successor's generation, after mutations
of that generation; `LateRequestsWereFenced` is all that remains of the fence for it.

*Protection.* An emergency exit closes a position that has a stop, because superseded CANCELLED records are still required
(`reconciliation_service.py:696`). A stop that fires and whose fill is readable only later ends in quarantine, its exit is never projected
(`cycle_service.py:1097`). The stop of a lost submission counts as known and stays after the exit
(`reconciliation_service.py:770`). A fence error leaves a position bare, without the record that recovery needs (`protection_service.py:285`). When
the stop of a tightened record is gone, the resubmission builds its plan from that record, whose price lies at the entry or beyond, and `ProtectionPlan` raises in every
cycle (`recovery_executor.py:379`, `protection_service.py:93`): the position stays bare. If the worker dies after it saved the exit's intent and the next lookup
raises, recovery cancels that intent as never submitted, although the exit has filled ("Not at exchange: the submission never landed",
`recovery_service.py:192`); every later projection of the exit is refused (`fact_persistence.py:1066`) and the position stays REDUCING.
`NakedIsResolved` excepts the position without a record and the tightened one, `StopFillProjected` the cancelled exit intent; both hold in
every other case.

*Entry.* When the position of a late fill closed, its gap was recorded as historical and a later entry of the symbol is not
yet saved, the gap recovery projects the later position under the older intent (`cycle_service.py:1384` compares quantities; the docstring at
line 1218 says "Symbol or quantity proximity alone is never sufficient."). With a resting market order a second entry can
execute on top of the first. After a crash, a lost answer or a failed transaction the reservation of an exposure may be written off
unseen, and after a crash the filled entry may be managed by nobody: it is an unknown position that blocks entries. The reservation of an entry that a pause stopped is not
released while cycles are healthy. The open-position cap counts positions only (`portfolio_risk.py:131`), so it can be exceeded by
one entry whose fill is unread when the budget is diagnostic. "No request was sent" (`entry_service.py:445`) is also said of a lost answer.

*Runtime control.* A claim is tried once: a stale read or a database error leaves an unsafe restart with entries
enabled (`scheduler.py:432`). The end of a running cycle can clear a hold that the supervisor took during it, and the
healthy cycle that clears a hold may have ended before it was taken ("after a fresh healthy V2 cycle", `scheduler.py:837`, promises a recent cycle, not
a later one). A late enable
request can turn a hold into what looks like an operator's pause.

*Scheduler.* The script deletes the row of a process it takes for dead, and the token starts again at one (`reclaim_stale_scheduler_locks.py:49`,
`scheduler_coordination.py:104`): a run of the earlier row that holds token 1 passes `validate_fence` again when its own heartbeat inserts the
row. Also without a deletion a token can be granted twice when clocks differ: a lease just released by the slower clock looks expired to an update of the faster
one that was computed from the row before, and both take the next token. So tokens are larger for whoever takes the lease of a run under way, which is
`TakeoverRaisesToken`, and no more. A live scheduler of another host or user is dead to the script; its lease is deleted and its claims are failed. A run that outlives its lease goes on beside its
successor's. A late heartbeat raises its own token, so that the next one does not match. `fencing_token` may read
another owner's token.

*Configuration.* With two runners of cycles (a manual `auto-cycle` beside a scheduled one) the slower `activate_pending` brings an older configuration
back and clears what was staged in between. With two founders the second baseline replaces the
first. `set_operator_risk_per_trade.py` withdraws what is pending, and clears the active configuration a transaction later; what was staged in between stays, and a
cycle makes it active although the one it was staged on is gone. A snapshot that is staged again keeps its first label: going back to a `MIGRATION_BASELINE` leaves it pending forever, and
every later edit is refused. The same follows from a label no cycle matches in the API's request. The PATCH endpoints save the profile
before `create_snapshot` refuses.

## 6. Plan

Done: `AccountWriter`, `ProtectionLifecycle`, `EntryLifecycle`, `RuntimeControl`, `SchedulerLease`, `ConfigSnapshot`, their runs and
the proofs of all their safety properties; the abstract specification `SingleWriter` with the proof that it is implemented, and `StagedConfig`.

Left, in this order:

1. `NotificationOutbox` (`services/notifications.py`): several dispatchers send and mark the same rows; duplicates and a late failure that
   overwrites "sent".
2. `RiskLadder` (`risk_controls.py`): stop ladder, rounding and caps as pure operators against reference definitions.
3. A composition of `EntryLifecycle` and `ProtectionLifecycle` for one symbol, with the quantities of partial fills.
4. Abstract specifications of leadership (`SchedulerLease`) and of the switch (`RuntimeControl`), with their refinements.

## 7. Not modelled

The map covers about a twentieth of the repository's Python. Most of the rest has no protocol to model:
signals, indicators, back-testing, research and validation pipelines are arithmetic over price series, and AI review, audit, reports,
read models of the API and the frontend keep no state that decides what is sent to the exchange.

The legacy engine (`paper_cycle_orchestrator.py`, `paper_exchange_execution.py`, `gateway.py`) is what `AUTOMATED_TRADING_ENGINE` selects by default. At
this commit it cannot mutate the testnet account: its gateways come from `configured_gateways()` (`gateway.py:1300`), which passes no writer
capability, and `_mutation_context` (`gateway.py:393`) then raises `ACCOUNT_WRITER_FENCE_REJECTED`, while its mirror requires the
testnet (`paper_cycle_orchestrator.py:2259`). What remains is a local simulation. Where it shares state with V2, the leases and the configuration
snapshots, the modules include it.

`fencing.py` and `runtime_lock.py` have no caller in production, and `exit_service.py` acts only on a `forced_exit_reason`, which tests alone
set. The adjudication of several fills to one case attributes facts of the past at the operator's command. What of a
modelled component is left out is said in the notes of `PROJECT.json`.
