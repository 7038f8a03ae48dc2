-------------------------- MODULE EntryLifecycle --------------------------
(***************************************************************************)
(* Entries of several symbols, from the durable intent to the managed      *)
(* position, with everything that can come between the two.                *)
(*                                                                         *)
(*   application/cycle_service.py      run_automated_trading_cycle,        *)
(*                                     _recover_confirmed_v2_entry_gap     *)
(*   application/entry_service.py      evaluate_entry, execute_entry       *)
(*   application/fact_persistence.py   persist_entry_...                   *)
(*   application/reconciliation_service.py, recovery_service.py,           *)
(*   recovery_executor.py              as far as they touch intents        *)
(*   application/historical_ledger.py  record_historical_ledger_gap        *)
(*   domain/portfolio_risk.py          evaluate_portfolio_risk             *)
(*                                                                         *)
(* Cycles run one symbol at a time.  A step is one exchange call or one    *)
(* database transaction; between two steps the exchange, the operator and  *)
(* the death of the worker may come in.                                    *)
(*                                                                         *)
(* Every entry is a long of one unit of quantity and one unit of risk, so  *)
(* the net position of a symbol is the set of intents whose fills make it  *)
(* up.  Protection is reduced to its outcome: ProtectionLifecycle models   *)
(* how it is reached.  Intents are numbered in the order of creation.      *)
(***************************************************************************)
EXTENDS Integers, FiniteSets

CONSTANTS
    Symbols,           \* the execution symbols
    MaxIntents,        \* bound on the entries attempted
    MaxOpenPositions,  \* max_open_positions
    MaxRisk,           \* the initial risk budget, in units
    Enforced,          \* is the risk budget enforced (not Canary sampling)?
    Faults,            \* the kinds of fault that may happen
    MaxFaults,         \* how many of them may happen
    NoSymbol

FaultKinds == {"crash",        \* the worker process dies
               "unavailable",  \* a request never reaches the exchange
               "lost",         \* it is executed and its answer is lost
               "unreadable",   \* a query raises
               "lag",          \* a fill is not yet among the trades
               "resting",      \* a market order is accepted and executes later
               "fenced",       \* the account writer fence refuses the order
               "database"}     \* a transaction raises and is rolled back

ASSUME EntryAssumption ==
    /\ MaxIntents \in Nat
    /\ MaxOpenPositions \in Nat
    /\ MaxRisk \in Nat
    /\ Enforced \in BOOLEAN
    /\ Faults \subseteq FaultKinds
    /\ MaxFaults \in Nat
    /\ NoSymbol \notin Symbols

Intents == 1 .. MaxIntents
NoIntent == 0

VARIABLES
    \* the exchange
    order,    \* the market order of each intent
    held,     \* the intents whose fills make up each symbol's position
    \* the database
    db,       \* the intent, its order, fill, decision and position rows
    gaps,     \* intents with a HISTORICAL_LEDGER_GAP incident
    enabled,  \* the runtime control row: entry_enabled
    \* the worker
    cycle,    \* what the running cycle holds in memory
    faults    \* faults so far

exchange == <<order, held>>
database == <<db, gaps, enabled>>
vars == <<exchange, database, cycle, faults>>

\* Intent states.  INTENT_CREATED is passed through inside one transaction;
\* EXCHANGE_UNKNOWN follows an ExchangeTimeout, which the adapter never raises.
Pending == {"EXCHANGE_SUBMITTING", "EXCHANGE_ACKNOWLEDGED"}
Terminal == {"FILLED", "REJECTED", "CANCELLED"}
OpenStates == {"POSITION_PROJECTED", "PROTECTED"}

\* receipt: the order row, always saved with the exchange id;
\* decision: "none" until the cycle is finalised, then whether its reason is OK.
Row == [state : {"NONE"} \cup Pending \cup Terminal,
        symbol : Symbols \cup {NoSymbol},
        receipt : BOOLEAN, fill : BOOLEAN,
        decision : {"none", "OK", "other"},
        position : {"NONE", "CLOSED", "QUARANTINED"} \cup OpenStates,
        quantity : Nat]

NoRow == [state |-> "NONE", symbol |-> NoSymbol, receipt |-> FALSE,
          fill |-> FALSE, decision |-> "none", position |-> "NONE",
          quantity |-> 0]

Stages == {"idle", "snapshot", "gap", "refetch", "exits", "recover", "gate",
           "authorise", "submit", "guard", "persist", "unwound", "unwinding",
           "protect", "project", "finalise"}
Results == {"none", "paused", "not_attempted", "filled", "acknowledged",
            "unread", "guarded", "over", "rejected"}

Flat == [s \in Symbols |-> {}]

\* What the worker knows within a cycle, and between two cycles.
Memories == [pc : Stages, symbol : Symbols \cup {NoSymbol},
             enabled : BOOLEAN, snap : [Symbols -> SUBSET Intents],
             open : SUBSET Intents, todo : SUBSET Intents,
             recovered : BOOLEAN, recovery : BOOLEAN,
             blocked : SUBSET (Symbols \cup {NoSymbol}),
             intent : Intents \cup {NoIntent}, result : Results,
             protected : BOOLEAN]

Idle == [pc |-> "idle", symbol |-> NoSymbol, enabled |-> FALSE,
         snap |-> Flat, open |-> {}, todo |-> {}, recovered |-> FALSE,
         recovery |-> FALSE, blocked |-> {}, intent |-> NoIntent,
         result |-> "none", protected |-> FALSE]

At(pc) == cycle.pc = pc
Goto(pc) == cycle' = [cycle EXCEPT !.pc = pc]
Abort == cycle' = Idle

Fault(kind) == kind \in Faults /\ faults < MaxFaults /\ faults' = faults + 1
NoFault == UNCHANGED faults

-----------------------------------------------------------------------------
(* What the code reads from the database                                   *)

\* get_open_positions of a symbol, by the intent that opened the position.
OpenPositions(s) ==
    {i \in Intents : db[i].symbol = s /\ db[i].position \in OpenStates}

AllOpen == {i \in Intents : db[i].position \in OpenStates}

\* list_active_initial_risk_exposures: the intents not yet superseded by a
\* position row of their own.
ReservedByIntent ==
    {i \in Intents : /\ db[i].state \in Pending \cup {"FILLED"}
                     /\ db[i].position = "NONE"}

Committed == AllOpen \cup ReservedByIntent

\* Mutant of BudgetAllows: only positions consume the budget.
BudgetOfPositions ==
    /\ Cardinality(AllOpen) < MaxOpenPositions
    /\ Enforced => Cardinality(AllOpen) < MaxRisk

\* evaluate_portfolio_risk and portfolio_risk_blocks: the cap counts exposures
\* whose source is a position, the budget counts all of them.
BudgetAllows ==
    /\ Cardinality(AllOpen) < MaxOpenPositions
    /\ Enforced => Cardinality(Committed) < MaxRisk

\* The intents a confirmed fill belongs to without any position row.
Unprojected ==
    {i \in Intents : db[i].fill /\ db[i].position = "NONE"} \ gaps

Quarantined == {i \in Intents : db[i].position = "QUARANTINED"}

\* The decisions _recover_confirmed_v2_entry_gap looks at.
GapCandidates(s) ==
    {i \in Intents : /\ db[i].symbol = s
                     /\ db[i].decision = "OK"
                     /\ db[i].position = "NONE"}

-----------------------------------------------------------------------------
Init ==
    /\ order = [i \in Intents |-> "none"]
    /\ held = Flat
    /\ db = [i \in Intents |-> NoRow]
    /\ gaps = {}
    /\ enabled \in BOOLEAN
    /\ cycle = Idle
    /\ faults = 0

-----------------------------------------------------------------------------
(* The exchange and the operator                                           *)

\* A resting order executes.
OrderExecutes(i) ==
    /\ order[i] = "open"
    /\ order' = [order EXCEPT ![i] = "filled"]
    /\ held' = [held EXCEPT ![db[i].symbol] = @ \cup {i}]
    /\ UNCHANGED <<database, cycle, faults>>

\* A stop, a target or the operator closes a symbol's position.
PositionCloses(s) ==
    /\ held[s] # {}
    /\ held' = [held EXCEPT ![s] = {}]
    /\ UNCHANGED <<order, database, cycle, faults>>

\* The operator pauses or resumes entries.
SetControl ==
    /\ enabled' = ~ enabled
    /\ UNCHANGED <<exchange, db, gaps, cycle, faults>>

\* record_historical_ledger_gap, at the operator's command: a fill without a
\* position, the symbol flat and without open orders.  That the writer started
\* after the fill is the operator's input.
RecordGap(i) ==
    /\ db[i].fill
    /\ db[i].position = "NONE"
    /\ held[db[i].symbol] = {}
    /\ \A j \in Intents : db[j].symbol = db[i].symbol => order[j] # "open"
    /\ gaps' = gaps \cup {i}
    /\ UNCHANGED <<exchange, db, enabled, cycle, faults>>

-----------------------------------------------------------------------------
(* A cycle: snapshot and repair of lost entries                            *)

StartCycle(s) ==
    /\ At("idle")
    /\ cycle' = [Idle EXCEPT !.pc = "snapshot", !.symbol = s,
                             !.enabled = enabled]
    /\ UNCHANGED <<exchange, database>> /\ NoFault

Resting == {i \in Intents : order[i] = "open"}

\* fetch_authoritative_snapshot, then the decisions to look at.
FetchSnapshot ==
    /\ At("snapshot")
    /\ cycle' = [cycle EXCEPT !.pc = "gap", !.snap = held, !.open = Resting,
                              !.todo = GapCandidates(cycle.symbol)]
    /\ UNCHANGED <<exchange, database>> /\ NoFault

\* The fetch that opens the cycle returns early when it fails; the one after
\* a recovery raises.  Either way the cycle is over.
SnapshotFails ==
    /\ At("snapshot") \/ At("refetch")
    /\ Fault("unreadable")
    /\ Abort
    /\ UNCHANGED <<exchange, database>>

\* Newest decision first.
AtGap(i) ==
    /\ At("gap")
    /\ i \in cycle.todo
    /\ \A j \in cycle.todo : j <= i

\* The exchange is flat: keep the fill as a fact, never invent a position.
GapFlat(i) ==
    /\ AtGap(i)
    /\ cycle.snap[cycle.symbol] = {}
    /\ db[i].receipt /\ order[i] = "filled"
    /\ ~ (db[i].fill /\ db[i].state = "FILLED")
    /\ db' = [db EXCEPT ![i] =
                 [db[i] EXCEPT
                     !.fill = TRUE,
                     !.state = IF db[i].state = "EXCHANGE_ACKNOWLEDGED"
                               THEN "CANCELLED" ELSE db[i].state]]
    /\ cycle' = [cycle EXCEPT !.todo = @ \ {i}, !.recovered = TRUE]
    /\ UNCHANGED <<exchange, gaps, enabled>> /\ NoFault

\* Nothing to recover for this decision.
GapSkip(i) ==
    /\ AtGap(i)
    /\ IF cycle.snap[cycle.symbol] = {}
       THEN \/ ~ db[i].receipt
            \/ order[i] # "filled"
            \/ db[i].fill /\ db[i].state = "FILLED"
       ELSE order[i] # "filled"
    /\ cycle' = [cycle EXCEPT !.todo = @ \ {i}]
    /\ UNCHANGED <<exchange, database>> /\ NoFault

\* Does the position still have to grow to the exchange's quantity?
ShouldProject(s) ==
    \A p \in OpenPositions(s) : db[p].quantity < Cardinality(cycle.snap[s])

\* Mutant of AdoptedRows: the fill is not attributed to its intent.
AdoptedWithoutFill(i, s) ==
    [j \in Intents |->
        IF j = i THEN [db[i] EXCEPT !.position = "PROTECTED", !.quantity = 1]
        ELSE db[j]]

\* persist_entry_and_protection of a recovered entry: a position of its own,
\* or its quantity added to the one that exists.
AdoptedRows(i, s) ==
    [j \in Intents |->
        CASE j = i ->
               [db[i] EXCEPT
                   !.state = "FILLED", !.receipt = TRUE, !.fill = TRUE,
                   !.position = IF OpenPositions(s) = {} THEN "PROTECTED"
                                ELSE @,
                   !.quantity = IF OpenPositions(s) = {} THEN 1 ELSE @]
          [] j # i /\ j \in OpenPositions(s) /\ ShouldProject(s) ->
               [db[j] EXCEPT !.quantity = @ + 1, !.position = "PROTECTED"]
          [] j # i /\ j \in OpenPositions(s) /\ ~ ShouldProject(s) ->
               [db[j] EXCEPT !.quantity = Cardinality(cycle.snap[s])]
          [] OTHER -> db[j]]

\* The exchange holds a position: adopt the exact fill, protected first when
\* the position has to grow.  (A REJECTED intent would make the transaction
\* raise; its decision is never OK.)
GapAdopt(i) ==
    /\ AtGap(i)
    /\ cycle.snap[cycle.symbol] # {}
    /\ order[i] = "filled"
    /\ db' = AdoptedRows(i, cycle.symbol)
    /\ cycle' = [cycle EXCEPT !.todo = @ \ {i}, !.recovered = TRUE]
    /\ UNCHANGED <<exchange, gaps, enabled>> /\ NoFault

\* An order or its fills cannot be read, protection cannot be activated (and
\* its emergency exit may have closed the position), or the transaction fails.
GapFails ==
    /\ At("gap") /\ cycle.todo # {}
    /\ \/ Fault("unreadable") /\ UNCHANGED held
       \/ Fault("database") /\ UNCHANGED held
       \/ /\ Fault("unavailable")
          /\ cycle.snap[cycle.symbol] # {}
          /\ ShouldProject(cycle.symbol)
          /\ \/ UNCHANGED held
             \/ held' = [held EXCEPT ![cycle.symbol] = {}]
    /\ cycle' = [cycle EXCEPT !.pc = "exits", !.todo = {}]
    /\ UNCHANGED <<order, database>>

GapDone ==
    /\ At("gap") /\ cycle.todo = {}
    /\ Goto(IF cycle.recovered THEN "refetch" ELSE "exits")
    /\ UNCHANGED <<exchange, database>> /\ NoFault

Refetch ==
    /\ At("refetch")
    /\ cycle' = [cycle EXCEPT !.pc = "exits", !.snap = held, !.open = Resting]
    /\ UNCHANGED <<exchange, database>> /\ NoFault

-----------------------------------------------------------------------------
(* Exits, reconciliation and recovery                                      *)

\* The exit of a position that is gone from the exchange is confirmed by its
\* own fill; the snapshot is taken again.
ProjectExit(i) ==
    /\ At("exits")
    /\ db[i].position \in OpenStates \cup {"QUARANTINED"}
    /\ cycle.snap[db[i].symbol] = {}
    /\ db' = [db EXCEPT ![i].position = "CLOSED"]
    /\ cycle' = [cycle EXCEPT !.snap = held, !.open = Resting]
    /\ UNCHANGED <<exchange, gaps, enabled>> /\ NoFault

\* Discrepancies of the snapshot and the database.
Missing == {i \in AllOpen : cycle.snap[db[i].symbol] = {}}
Unprotected ==
    {i \in AllOpen \ Missing : db[i].position = "POSITION_PROJECTED"}
Orphans == {i \in cycle.open : ~ db[i].receipt}
Mismatched ==
    {i \in AllOpen \ Missing :
        db[i].quantity # Cardinality(cycle.snap[db[i].symbol])}

\* Mutant of Unclaimable: a live position nobody claims is overlooked.
NothingUnclaimable == {}

\* EXTERNAL_POSITION_UNCLAIMABLE.
Unclaimable ==
    {s \in Symbols : cycle.snap[s] # {} /\ OpenPositions(s) = {}}

RecoveryRequired ==
    Unprojected \cup Quarantined \cup Missing \cup Unprotected \cup Orphans

\* reconcile, and evaluate_entry's view of its result; the local positions
\* the gate looks at are the ones loaded here.
Reconcile ==
    /\ At("exits")
    /\ cycle' = [cycle EXCEPT
                    !.pc = IF /\ RecoveryRequired = {}
                              /\ Unclaimable = {} /\ Mismatched = {}
                           THEN "gate" ELSE "recover",
                    !.recovery = RecoveryRequired # {},
                    !.blocked = Unclaimable
                        \cup {db[i].symbol : i \in RecoveryRequired
                                               \cup Mismatched \cup AllOpen}]
    /\ UNCHANGED <<exchange, database>> /\ NoFault

\* Mutant of MarkedNotSubmitted: acknowledged orders are written off as well.
MarkedWithReceipt ==
    {i \in Intents : db[i].state \in Pending /\ i \notin cycle.open}

\* Mutant of MarkedNotSubmitted: every intent without a receipt is marked.
MarkedWhateverTheState ==
    {i \in Intents : db[i].state # "NONE" /\ ~ db[i].receipt}

\* recover_pending_state part 1 and _mark_intent_not_submitted: without an
\* order row the client id is unknown, so no open order can match it.
\* RESOLVE_UNKNOWN_INTENT_BY_CLIENT_ID finds the receipt already saved.
MarkedNotSubmitted ==
    {i \in Intents : db[i].state \in Pending /\ ~ db[i].receipt}

\* execute_recovery_actions: write off intents, resubmit protection for the
\* positions in p, cancel the orphans in o that still rest, quarantine the
\* ghosts in g, which is none of them when a terminal exit could not be read in
\* this cycle.  A failing action is skipped.
Recover(p, o, g) ==
    /\ At("recover")
    /\ \/ g = Missing /\ NoFault
       \/ g = {} /\ Missing # {} /\ Fault("unreadable")
    /\ p \subseteq Unprotected
    /\ o \subseteq {i \in Orphans : order[i] = "open"}
    /\ db' = [i \in Intents |->
                 [db[i] EXCEPT
                     !.state = IF i \in MarkedNotSubmitted THEN "CANCELLED"
                               ELSE @,
                     !.position = IF i \in g THEN "QUARANTINED"
                                  ELSE IF i \in p THEN "PROTECTED" ELSE @]]
    /\ order' = [i \in Intents |-> IF i \in o THEN "cancelled" ELSE order[i]]
    /\ Goto("gate")
    /\ UNCHANGED <<held, gaps, enabled>>

-----------------------------------------------------------------------------
(* A cycle: the entry                                                      *)

\* evaluate_entry: DEGRADED blocks the affected symbols only.
GateApproves ==
    /\ cycle.enabled
    /\ ~ cycle.recovery
    /\ cycle.symbol \notin cycle.blocked

\* persist_entry_intent_before_submission: control row, budget and intent in
\* one transaction.
ReserveIntent(i) ==
    /\ At("gate")
    /\ GateApproves
    /\ db[i].state = "NONE"
    /\ \A j \in Intents : db[j].state = "NONE" => i <= j
    /\ enabled
    /\ BudgetAllows
    /\ db' = [db EXCEPT ![i] = [@ EXCEPT !.state = "EXCHANGE_SUBMITTING",
                                         !.symbol = cycle.symbol]]
    /\ cycle' = [cycle EXCEPT !.pc = "authorise", !.intent = i]
    /\ UNCHANGED <<exchange, gaps, enabled>> /\ NoFault

\* No candidate, a gate that blocks, a refused or a failed reservation.
NoEntry ==
    /\ At("gate")
    /\ Abort
    /\ UNCHANGED <<exchange, database>> /\ NoFault

\* The control row is read again; a paused entry leaves its intent behind.
Authorise ==
    /\ At("authorise")
    /\ cycle' = IF enabled THEN [cycle EXCEPT !.pc = "submit"]
                ELSE [cycle EXCEPT !.pc = "finalise", !.result = "paused"]
    /\ UNCHANGED <<exchange, database>> /\ NoFault

Outcome(pc, r) == cycle' = [cycle EXCEPT !.pc = pc, !.result = r]

Executed ==
    /\ order' = [order EXCEPT ![cycle.intent] = "filled"]
    /\ held' = [held EXCEPT ![cycle.symbol] = @ \cup {cycle.intent}]

\* execute_entry before the request: the quantity rounds to nothing or is
\* below the minimum.
NotAttempted ==
    /\ At("submit")
    /\ Outcome("persist", "not_attempted")
    /\ UNCHANGED <<exchange, database>> /\ NoFault

\* The order is executed and its fills are read, or are not there yet, or
\* cannot be read; a fill above the margin ceiling (Canary) is unwound.
SubmitEntry ==
    /\ At("submit")
    /\ Executed
    /\ \/ Outcome("persist", "filled") /\ NoFault
       \/ Outcome("persist", "acknowledged") /\ Fault("lag")
       \/ Outcome("persist", "unread") /\ Fault("unreadable")
       \/ ~ Enforced /\ Outcome("guard", "guarded") /\ NoFault
    /\ UNCHANGED database

\* The order is accepted and rests; no fill is there to be read.
SubmitRests ==
    /\ At("submit")
    /\ Fault("resting")
    /\ order' = [order EXCEPT ![cycle.intent] = "open"]
    /\ Outcome("persist", "acknowledged")
    /\ UNCHANGED <<held, database>>

\* BinanceAdapterUnavailable: the request failed, or its answer did.
SubmitFails ==
    /\ At("submit")
    /\ \/ Fault("unavailable") /\ UNCHANGED exchange
       \/ Fault("lost") /\ Executed
    /\ Outcome("persist", "rejected")
    /\ UNCHANGED database

\* AccountWriterFenceError leaves the cycle; nothing is finalised.
SubmitFenced ==
    /\ At("submit")
    /\ Fault("fenced")
    /\ Abort
    /\ UNCHANGED <<exchange, database>>

\* The reduce-only guard order: it closes the fill, or fails.
MarginGuard ==
    /\ At("guard")
    /\ \/ /\ held' = [held EXCEPT ![cycle.symbol] = {}]
          /\ Outcome("persist", "guarded") /\ NoFault
       \/ Fault("unavailable") /\ Outcome("persist", "over") /\ UNCHANGED held
    /\ UNCHANGED <<order, database>>

\* Mutant of SubmissionRow: an unavailable exchange leaves the outcome open.
UnavailableIsUnknown(row, r) ==
    IF r = "rejected" THEN [row EXCEPT !.state = "EXCHANGE_UNKNOWN"] ELSE row

\* What persist_entry_submission_result writes for each result.
SubmissionRow(row, r) ==
    CASE r \in {"filled", "acknowledged", "unread"} ->
           [row EXCEPT !.state = "EXCHANGE_ACKNOWLEDGED", !.receipt = TRUE]
      [] r \in {"guarded", "over"} ->
           [row EXCEPT !.state = "EXCHANGE_ACKNOWLEDGED", !.receipt = TRUE,
                       !.fill = TRUE]
      [] r = "rejected" -> [row EXCEPT !.state = "REJECTED"]
      [] r = "not_attempted" -> [row EXCEPT !.state = "CANCELLED"]

AfterSubmission ==
    CASE cycle.result = "filled" -> "protect"
      [] cycle.result = "guarded" -> "unwound"
      [] OTHER -> "finalise"

\* persist_entry_submission_result; an exception is recorded and swallowed.
PersistSubmission ==
    /\ At("persist")
    /\ \/ /\ db' = [db EXCEPT ![cycle.intent] =
                                  SubmissionRow(@, cycle.result)]
          /\ NoFault
       \/ Fault("database") /\ UNCHANGED db
    /\ Goto(AfterSubmission)
    /\ UNCHANGED <<exchange, gaps, enabled>>

\* _recover_confirmed_margin_guard_lifecycle: the entry of an unwound fill,
\* from its exact receipts and without protection, once the guard's fills are
\* read; nothing when a receipt is missing or the transaction raises.
ProjectUnwound ==
    /\ At("unwound")
    /\ \/ /\ db[cycle.intent].receipt /\ db[cycle.intent].fill
          /\ OpenPositions(cycle.symbol) = {}
          /\ db' = [db EXCEPT ![cycle.intent].state = "FILLED",
                              ![cycle.intent].position = "POSITION_PROJECTED",
                              ![cycle.intent].quantity = 1]
          /\ Goto("unwinding") /\ NoFault
       \/ /\ UNCHANGED db /\ Goto("finalise")
          /\ \/ ~ db[cycle.intent].receipt /\ NoFault
             \/ Fault("unreadable") \/ Fault("lag") \/ Fault("database")
    /\ UNCHANGED <<exchange, gaps, enabled>>

\* Its guard exit (persist_exit_result), in transactions of its own: when one
\* of them raises the position stays open.
CloseUnwound ==
    /\ At("unwinding")
    /\ \/ db' = [db EXCEPT ![cycle.intent].position = "CLOSED"] /\ NoFault
       \/ Fault("database") /\ UNCHANGED db
    /\ Goto("finalise")
    /\ UNCHANGED <<exchange, gaps, enabled>>

\* ensure_protection: active, or not, with or without its emergency exit.
Protect ==
    /\ At("protect")
    /\ \/ /\ NoFault
          /\ cycle' = [cycle EXCEPT !.pc = "project", !.protected = TRUE]
          /\ UNCHANGED held
       \/ /\ Fault("unavailable") \/ Fault("fenced")
          /\ Goto("project")
          /\ held' \in {held, [held EXCEPT ![cycle.symbol] = {}]}
    /\ UNCHANGED <<order, database>>

\* persist_entry_and_protection of this cycle's entry; an exception is
\* recorded and swallowed, the unique index on open positions included.
PersistEntry ==
    /\ At("project")
    /\ \/ /\ OpenPositions(cycle.symbol) = {}
          /\ db' = [db EXCEPT ![cycle.intent] =
                       [@ EXCEPT !.state = "FILLED", !.receipt = TRUE,
                                 !.fill = TRUE, !.quantity = 1,
                                 !.position = IF cycle.protected
                                              THEN "PROTECTED"
                                              ELSE "POSITION_PROJECTED"]]
          /\ NoFault
       \/ Fault("database") /\ UNCHANGED db
    /\ Goto("finalise")
    /\ UNCHANGED <<exchange, gaps, enabled>>

\* Mutant of DecisionReason: an acknowledged entry is not reported as OK.
OnlyProtectedIsOK ==
    IF cycle.result = "filled" /\ cycle.protected THEN "OK" ELSE "other"

\* The last funnel stage: OK for a protected fill and for an order that was
\* acknowledged with no fill to read.
DecisionReason ==
    IF \/ cycle.result = "filled" /\ cycle.protected
       \/ cycle.result = "acknowledged"
    THEN "OK" ELSE "other"

\* _finalize_v2_cycle_decision.
Finalise ==
    /\ At("finalise")
    /\ db' = [db EXCEPT ![cycle.intent].decision = DecisionReason]
    /\ Abort
    /\ UNCHANGED <<exchange, gaps, enabled>> /\ NoFault

\* The worker dies; a request on its way may still be executed.
Crash ==
    /\ ~ At("idle")
    /\ Fault("crash")
    /\ Abort
    /\ UNCHANGED database
    /\ \/ UNCHANGED exchange
       \/ At("submit") /\ Executed

-----------------------------------------------------------------------------
Cycle ==
    \/ FetchSnapshot \/ SnapshotFails
    \/ \E i \in Intents : GapFlat(i) \/ GapSkip(i) \/ GapAdopt(i)
    \/ GapFails \/ GapDone \/ Refetch
    \/ \E i \in Intents : ProjectExit(i)
    \/ Reconcile
    \/ \E p, o, g \in SUBSET Intents : Recover(p, o, g)
    \/ \E i \in Intents : ReserveIntent(i)
    \/ NoEntry \/ Authorise
    \/ NotAttempted \/ SubmitEntry \/ SubmitRests \/ SubmitFails
    \/ SubmitFenced \/ MarginGuard \/ PersistSubmission \/ ProjectUnwound
    \/ CloseUnwound \/ Protect \/ PersistEntry \/ Finalise

Next ==
    \/ \E s \in Symbols : StartCycle(s)
    \/ Cycle
    \/ Crash
    \/ \E i \in Intents : OrderExecutes(i) \/ RecordGap(i)
    \/ \E s \in Symbols : PositionCloses(s)
    \/ SetControl

Spec == Init /\ [][Next]_vars

\* The worker keeps running, every pass reaches every symbol, and a resting
\* market order executes in the end.
FairSpec ==
    /\ Spec
    /\ WF_vars(Cycle)
    /\ \A s \in Symbols : SF_vars(StartCycle(s))
    /\ \A i \in Intents : WF_vars(OrderExecutes(i))

-----------------------------------------------------------------------------
(* Properties                                                              *)

\* The type of the state, the worker's memory included.
TypeOK ==
    /\ order \in [Intents -> {"none", "open", "filled", "cancelled"}]
    /\ held \in [Symbols -> SUBSET Intents]
    /\ db \in [Intents -> Row]
    /\ gaps \in SUBSET Intents
    /\ enabled \in BOOLEAN
    /\ cycle \in Memories
    /\ faults \in 0 .. MaxFaults

\* "One position per symbol" (evaluate_entry): whatever is lost, written off
\* or forgotten on the way, no second entry is executed on top of an exposure
\* of the same symbol.
OneExposurePerSymbol ==
    \A s \in Symbols : \A i, j \in held[s] : i = j

\* An intent written off without a receipt: rejected, or marked as never
\* submitted.
WrittenOff(i) == db[i].state \in {"REJECTED", "CANCELLED"} /\ ~ db[i].receipt

\* "A filled entry remains an intent reservation until its matching durable
\* position exists" (list_active_initial_risk_exposures): what the exchange
\* holds is committed risk of the intent that bought it, from the order to
\* the confirmed exit; only an intent whose order the code never saw
\* acknowledged can be missing.
ReservedUnlessWrittenOff ==
    \A s \in Symbols : \A i \in held[s] : i \in Committed \/ WrittenOff(i)

\* "Correct a terminal local guess only after an exact exchange fill is
\* durable" (reconcile_intent_from_confirmed_fill): a rejected intent stays
\* rejected, any other terminal state only ever becomes FILLED, on the fill
\* row of an order the exchange did fill.
TerminalCorrectedByFillOnly ==
    [][\A i \in Intents :
          db[i].state \in Terminal /\ db'[i].state # db[i].state =>
              /\ db[i].state = "CANCELLED" /\ db'[i].state = "FILLED"
              /\ db'[i].fill /\ order[i] = "filled"]_vars

\* A position is projected from receipts only (persist_entry_and_protection,
\* "without inventing" anything): its own order is filled at the exchange and
\* both receipts are saved, also when a later cycle adopts it; and no symbol
\* has two open positions.
ProjectedOnEvidence ==
    /\ \A i \in Intents : db[i].position # "NONE" =>
           order[i] = "filled" /\ db[i].receipt /\ db[i].fill
    /\ \A s \in Symbols : \A i, j \in OpenPositions(s) : i = j

\* The enforced risk budget bounds the symbols exposed at the exchange at any
\* time, entries whose fills are still unread included.
ExposureWithinBudget ==
    Enforced => Cardinality({s \in Symbols : held[s] # {}}) <= MaxRisk

\* An entry the exchange filled is recorded, or its position is gone, in the
\* end (_recover_confirmed_v2_entry_gap: "Recover a confirmed V2 fill lost in
\* the submit->fill persistence race").
FilledEntryIsManaged ==
    \A i \in Intents :
        (\E s \in Symbols : i \in held[s]) ~>
            (db[i].fill \/ \A s \in Symbols : i \notin held[s])
=============================================================================
