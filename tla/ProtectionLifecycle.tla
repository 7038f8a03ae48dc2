------------------------ MODULE ProtectionLifecycle ------------------------
(***************************************************************************)
(* One managed position from its entry fill to its confirmed exit: the     *)
(* stop orders at the exchange, the protection records in the database,    *)
(* and the cycles of the worker that keeps the two in step.                *)
(*                                                                         *)
(*   application/protection_service.py     ensure_protection               *)
(*   application/cycle_service.py          run_automated_trading_cycle     *)
(*   application/reconciliation_service.py reconcile                       *)
(*   application/recovery_service.py       recover_pending_state           *)
(*   application/recovery_executor.py      execute_recovery_actions        *)
(*   application/fact_persistence.py       persist_*, reconcile_closed_... *)
(*                                                                         *)
(* A step is one exchange call or one database transaction.  Between two   *)
(* steps a stop may fire, the operator may close the position, the fills   *)
(* may become readable, and the worker may die: everything it held in      *)
(* memory (the variable cycle) is then gone and the next cycle starts from *)
(* the database and the exchange.                                          *)
(*                                                                         *)
(* The quantity is one unit and the take-profit order is left out: it is   *)
(* submitted, recorded and cancelled together with the stop, and its       *)
(* failure after the stop was accepted is the fault "lost".  A client      *)
(* order id of a stop is its revision number, that of a reduce-only exit   *)
(* its attempt number.  Of prices, only the side is kept: a stop that was  *)
(* tightened lies beyond the entry price.  Whether a tighter stop is due   *)
(* is a free choice.                                                       *)
(***************************************************************************)
EXTENDS Integers, Sequences

CONSTANTS
    OrderIds,     \* exchange ids of stop orders
    NoOrder,      \* an absent exchange id
    Faults,       \* the kinds of fault that may happen
    MaxFaults,    \* how many of them may happen
    MaxVersion    \* bound on the version profit protection may reach

FaultKinds == {"crash",        \* the worker process dies
               "unavailable",  \* a request never reaches the exchange
               "lost",         \* it is executed and its answer is lost
               "unreadable",   \* a query raises
               "lag",          \* a fill is not yet among the trades
               "fenced"}       \* the account writer fence refuses a mutation

ASSUME ProtectionAssumption ==
    /\ NoOrder \notin OrderIds
    /\ Faults \subseteq FaultKinds
    /\ MaxFaults \in Nat
    /\ MaxVersion \in Nat

VARIABLES
    \* the exchange
    live,       \* the position is open
    book,       \* client id of each open stop order, 0 if it is not open
    closer,     \* what closed the position
    visible,    \* the closing fill can be read
    \* the database
    pos,        \* state of the managed position, "NONE" before it is saved
    records,    \* its protection records, oldest first
    exit,       \* the exit order row: stage and stop client id (0: an exit's)
    \* the worker
    cycle,      \* what the running cycle holds in memory
    faults      \* faults so far

exchange == <<live, book, closer, visible>>
database == <<pos, records, exit>>
vars == <<exchange, database, cycle, faults>>

Open(b) == {o \in OrderIds : b[o] # 0}
EmptyBook == [o \in OrderIds |-> 0]
NotClosed == [kind |-> "none", order |-> NoOrder, attempt |-> 0]

\* Position states the code treats as open (get_open_positions).
OpenStates == {"POSITION_PROJECTED", "PROTECTED", "REDUCING"}
PositionStates == OpenStates \cup {"NONE", "CLOSED", "QUARANTINED"}

\* Protection states that outlive a transaction; SUBMITTING and TRIGGERED are
\* passed through inside one, FAILED and UNKNOWN are never written.
RecordStates == {"INTENT", "ACTIVE", "FILLED", "CANCELLED"}
Cancellable == {"INTENT", "ACTIVE"}

Managed == pos \in OpenStates
RecordedOrders(rs) == {rs[i].order : i \in DOMAIN rs} \ {NoOrder}
RecordedCids(rs) == {rs[i].cid : i \in DOMAIN rs}
ActiveIndices(rs) == {i \in DOMAIN rs : rs[i].state = "ACTIVE"}

NoPlan == [for |-> "none", first |-> 0, cid |-> 0, try |-> 0]
NothingToDo == [intent |-> "none", resubmit |-> FALSE, quarantine |-> FALSE,
                cancel |-> {}]

\* The worker between two cycles.
Idle == [pc |-> "idle", ret |-> "idle", snapLive |-> FALSE,
         snapBook |-> EmptyBook, view |-> <<>>, incomplete |-> FALSE,
         blocked |-> TRUE, todo |-> NothingToDo, plan |-> NoPlan,
         placed |-> NoOrder, trigger |-> NoOrder, siblings |-> {}, exitCid |-> 0,
         old |-> NoOrder, index |-> 0, newCid |-> 0]

At(pc) == cycle.pc = pc
Goto(pc) == cycle' = [cycle EXCEPT !.pc = pc]

Fault(kind) == kind \in Faults /\ faults < MaxFaults /\ faults' = faults + 1
NoFault == UNCHANGED faults

-----------------------------------------------------------------------------
(* The exchange                                                            *)

\* An id no order, record or memory of the worker refers to.
Fresh(o) ==
    /\ book[o] = 0 /\ cycle.snapBook[o] = 0
    /\ o \notin RecordedOrders(records) \cup RecordedOrders(cycle.view)
    /\ o \notin {closer.order, cycle.placed}

\* A client id that is open at the exchange cannot be submitted again.
Duplicate(cid) == \E o \in OrderIds : book[o] = cid

\* The bound on the number of orders is reached.
NoneFresh == \A o \in OrderIds : ~ Fresh(o)

Accept(o, cid) ==
    /\ Fresh(o)
    /\ ~ Duplicate(cid)
    /\ book' = [book EXCEPT ![o] = cid]
    /\ UNCHANGED <<live, closer, visible>>

Cancelled(S) == [o \in OrderIds |-> IF o \in S THEN 0 ELSE book[o]]

Close(how) ==
    /\ live
    /\ live' = FALSE
    /\ closer' = how
    /\ \/ visible' = TRUE /\ NoFault
       \/ visible' = FALSE /\ Fault("lag")

\* The market reaches a stop: it closes the position.  Other stops stay open.
StopFires(o) ==
    /\ book[o] # 0
    /\ Close([kind |-> "stop", order |-> o, attempt |-> 0])
    /\ book' = [book EXCEPT ![o] = 0]
    /\ UNCHANGED <<database, cycle>>

\* Somebody closes the position by hand.
ManualClose ==
    /\ Close([kind |-> "manual", order |-> NoOrder, attempt |-> 0])
    /\ UNCHANGED <<book, database, cycle>>

FillsVisible ==
    /\ ~ live /\ ~ visible
    /\ visible' = TRUE
    /\ UNCHANGED <<live, book, closer, database, cycle, faults>>

-----------------------------------------------------------------------------
(* ensure_protection, for an entry or for a recovery                       *)

\* adapter.submit_protection answers: the stop is in the book.
SubmitProtection(o) ==
    /\ At("submit")
    /\ Accept(o, cycle.plan.cid)
    /\ cycle' = [cycle EXCEPT !.pc = "ensured", !.placed = o]
    /\ UNCHANGED database /\ NoFault

\* It raises BinanceAdapterUnavailable: a duplicate client id, a request that
\* was not received, or one that was executed and whose answer was lost.
SubmitProtectionFails ==
    /\ At("submit")
    /\ \/ /\ Duplicate(cycle.plan.cid) \/ NoneFresh
          /\ NoFault /\ UNCHANGED exchange
       \/ Fault("unavailable") /\ UNCHANGED exchange
       \/ Fault("lost") /\ \E o \in OrderIds : Accept(o, cycle.plan.cid)
    /\ Goto("reread")
    /\ UNCHANGED database

\* The live quantity decides: already flat, one retry under revision 2, or
\* the emergency close.
RereadQuantity ==
    /\ At("reread")
    /\ \/ ~ live /\ Goto("ensured") /\ NoFault
       \/ /\ live /\ cycle.plan.try = 1
          /\ cycle' = [cycle EXCEPT !.pc = "submit",
                            !.plan = [cycle.plan EXCEPT !.cid = 2, !.try = 2]]
          /\ NoFault
       \/ live /\ cycle.plan.try = 2 /\ Goto("escalate") /\ NoFault
       \/ Goto("escalate") /\ Fault("unreadable")
    /\ UNCHANGED <<exchange, database>>

\* _escalate_emergency: a reduce-only market exit whose attempt number is the
\* plan's.  Its answer and the verification read only choose the incident.
EscalateEmergency ==
    /\ At("escalate")
    /\ \/ /\ Close([kind |-> "exit", order |-> NoOrder,
                    attempt |-> cycle.plan.cid])
          /\ UNCHANGED book
       \/ UNCHANGED exchange /\ ~ live /\ NoFault
       \/ UNCHANGED exchange /\ Fault("unavailable")
    /\ Goto("ensured")
    /\ UNCHANGED database

\* AccountWriterFenceError is not among the exceptions ensure_protection
\* handles: an entry is saved without a protection record, a recovery action
\* is given up.  It may refuse the take-profit after the stop was accepted.
Fenced ==
    /\ cycle.pc \in {"submit", "escalate"}
    /\ Fault("fenced")
    /\ \/ UNCHANGED exchange
       \/ At("submit") /\ \E o \in OrderIds : Accept(o, cycle.plan.cid)
    /\ cycle' = [cycle EXCEPT !.plan = NoPlan,
                              !.pc = IF cycle.plan.for = "entry" THEN "ensured"
                                     ELSE "recover"]
    /\ UNCHANGED database

\* Mutant of NewRecord: the transition to ACTIVE is forgotten.
NewRecordSubmitting(cid, order) ==
    [state |-> IF order = NoOrder THEN "INTENT" ELSE "SUBMITTING",
     cid |-> cid, order |-> order, version |-> 1, tight |-> FALSE]

\* save_protection, and update_protection_active when the stop was
\* acknowledged (INTENT, SUBMITTING, ACTIVE: version 2).
NewRecord(cid, order) ==
    IF order = NoOrder
    THEN [state |-> "INTENT", cid |-> cid, order |-> NoOrder, version |-> 0,
          tight |-> FALSE]
    ELSE [state |-> "ACTIVE", cid |-> cid, order |-> order, version |-> 2,
          tight |-> FALSE]

\* persist_entry_and_protection: the record carries the plan's client id.
PersistEntry ==
    /\ At("ensured") /\ cycle.plan.for # "recovery"
    /\ pos' = IF cycle.placed = NoOrder THEN "POSITION_PROJECTED"
              ELSE "PROTECTED"
    /\ records' = IF cycle.plan = NoPlan THEN <<>>
                  ELSE <<NewRecord(cycle.plan.first, cycle.placed)>>
    /\ cycle' = Idle
    /\ UNCHANGED <<exchange, exit, faults>>

-----------------------------------------------------------------------------
(* run_automated_trading_cycle, up to its reconciliation                   *)

\* fetch_authoritative_snapshot reads the positions and then the orders, once
\* when a cycle starts and again after an exit was projected.
FetchPositions ==
    /\ cycle.pc \in {"idle", "resnapshot"}
    /\ cycle' = [cycle EXCEPT !.pc = "orders", !.snapLive = live,
                              !.ret = IF At("idle") THEN "stale" ELSE "reconcile"]
    /\ UNCHANGED <<exchange, database, faults>>

FetchOrders ==
    /\ At("orders")
    /\ cycle' = [cycle EXCEPT !.pc = cycle.ret, !.snapBook = book]
    /\ UNCHANGED <<exchange, database, faults>>

\* Mutant of IsStale: a protection that has filled is rewritten too.
IsStaleAnyState(r) == r.order \notin Open(cycle.snapBook)

\* A record reconcile_closed_position_protections cancels.
IsStale(r) == r.state \in Cancellable /\ r.order \notin Open(cycle.snapBook)

CancelRecord(r) == [r EXCEPT !.state = "CANCELLED", !.version = @ + 1]

\* reconcile_closed_position_protections.
ReconcileClosedProtections ==
    /\ At("stale")
    /\ records' = IF pos \in {"CLOSED", "QUARANTINED"}
                  THEN [i \in DOMAIN records |->
                            IF IsStale(records[i]) THEN CancelRecord(records[i])
                            ELSE records[i]]
                  ELSE records
    /\ Goto("gaps")
    /\ UNCHANGED <<exchange, pos, exit, faults>>

\* _recover_confirmed_v2_exit_gaps looks at positions that are REDUCING or
\* QUARANTINED while the exchange is flat: by the exit order row it saved, or
\* by the client ids of the exit attempts 1 to 3.
GapCandidate == pos \in {"REDUCING", "QUARANTINED"} /\ ~ cycle.snapLive
GapKnown ==
    \/ exit.stage \in {"intent", "writtenOff", "ack", "refused"}
    \/ closer.kind = "exit" /\ closer.attempt \in 1..3

\* The trades of the exit can be read.  The exchange id of the market order a
\* stop turned into need not be the id the stop was recorded under.
RecoverExitGap ==
    /\ At("gaps")
    /\ GapCandidate /\ GapKnown /\ visible
    /\ \E trigger \in {NoOrder, closer.order} :
          cycle' = [cycle EXCEPT !.pc = "exitIntent", !.ret = "project",
                                 !.trigger = trigger, !.exitCid = 0]
    /\ UNCHANGED <<exchange, database, faults>>

\* Nothing to recover; a row that never got its exchange id may not be found.
NoExitGap ==
    /\ At("gaps")
    /\ \/ ~ GapCandidate \/ ~ GapKnown \/ ~ visible
       \/ exit.stage \in {"intent", "writtenOff"}
    /\ Goto("project")
    /\ UNCHANGED <<exchange, database, faults>>

ExitGapUnreadable ==
    /\ At("gaps")
    /\ GapCandidate
    /\ Fault("unreadable")
    /\ cycle' = [cycle EXCEPT !.pc = "project", !.incomplete = TRUE]
    /\ UNCHANGED <<exchange, database>>

\* Mutant of ProjectedOrders: those of ACTIVE records, whatever the position.
ProjectedActive ==
    IF pos = "QUARANTINED" \/ (Managed /\ ~ cycle.snapLive)
    THEN {records[i].order : i \in ActiveIndices(records)} ELSE {}

\* The orders whose fills _project_confirmed_protection_exits looks up.
ProjectedOrders ==
    CASE pos = "QUARANTINED" ->
            {records[i].order : i \in ActiveIndices(records)}
      [] Managed /\ ~ cycle.snapLive -> RecordedOrders(records)
      [] OTHER -> {}

StopFilled ==
    closer.kind = "stop" /\ closer.order \in ProjectedOrders /\ visible

ProjectExit ==
    /\ At("project")
    /\ StopFilled
    /\ \E i \in DOMAIN records :
          /\ records[i].order = closer.order
          /\ cycle' = [cycle EXCEPT !.pc = "exitIntent", !.ret = "siblings",
                                    !.trigger = closer.order,
                                    !.siblings = ProjectedOrders \ {closer.order},
                                    !.exitCid = records[i].cid]
    /\ UNCHANGED <<exchange, database, faults>>

NoProjectedExit ==
    /\ At("project")
    /\ ~ StopFilled
    /\ Goto("reconcile")
    /\ UNCHANGED <<exchange, database, faults>>

\* A lookup raises: the cycle remembers that exits may be unread.
ProjectUnreadable ==
    /\ At("project")
    /\ ProjectedOrders # {}
    /\ Fault("unreadable")
    /\ cycle' = [cycle EXCEPT !.pc = "reconcile", !.incomplete = TRUE]
    /\ UNCHANGED <<exchange, database>>

\* persist_exit_result, first transaction: the exit intent and order row,
\* unless an earlier attempt saved them.
PersistExitIntent ==
    /\ At("exitIntent")
    /\ exit' = IF exit.stage # "none" THEN exit
               ELSE [stage |-> "intent", cid |-> cycle.exitCid]
    /\ Goto("exitAck")
    /\ UNCHANGED <<exchange, pos, records, faults>>

\* The intent of the exit is CANCELLED.
WrittenOff == exit.stage \in {"writtenOff", "refused"}

\* Second transaction: the exchange order id, and the position is REDUCING.
\* An intent that recovery has cancelled stays so.
PersistExitAck ==
    /\ At("exitAck")
    /\ exit' = [exit EXCEPT !.stage = IF WrittenOff THEN "refused" ELSE "ack"]
    /\ pos' = IF pos \in {"POSITION_PROJECTED", "PROTECTED"} THEN "REDUCING"
              ELSE pos
    /\ Goto("exitFill")
    /\ UNCHANGED <<exchange, records, faults>>

\* What the third transaction makes of a protection record.
Settle(r) ==
    CASE r.state = "ACTIVE" /\ r.order = cycle.trigger ->
            [r EXCEPT !.state = "FILLED", !.version = @ + 2]
      [] \/ r.state = "INTENT"
         \/ r.state = "ACTIVE" /\ r.order # cycle.trigger -> CancelRecord(r)
      [] OTHER -> r

\* Third transaction: the fills, the position CLOSED (a QUARANTINED one is
\* repaired) and its protections settled.
PersistExitFill ==
    /\ At("exitFill")
    /\ exit.stage = "ack"
    /\ exit' = [exit EXCEPT !.stage = "filled"]
    /\ pos' = "CLOSED"
    /\ records' = [i \in DOMAIN records |-> Settle(records[i])]
    /\ Goto(cycle.ret)
    /\ UNCHANGED <<exchange, faults>>

\* It expects an acknowledged intent and raises on a cancelled one; both
\* callers remember that exits may be unread.
PersistExitRefused ==
    /\ At("exitFill")
    /\ exit.stage = "refused"
    /\ cycle' = [cycle EXCEPT
                    !.pc = IF cycle.ret = "siblings" THEN "reconcile"
                           ELSE cycle.ret,
                    !.incomplete = TRUE]
    /\ UNCHANGED <<exchange, database, faults>>

\* The siblings of the stop that fired are cancelled; a failure is logged.
CancelSiblings ==
    /\ At("siblings")
    /\ \/ book' = Cancelled(cycle.siblings) /\ NoFault
       \/ \E failed \in SUBSET (cycle.siblings \cap Open(book)) \ {{}} :
             book' = Cancelled(cycle.siblings \ failed) /\ Fault("unavailable")
    /\ Goto("resnapshot")
    /\ UNCHANGED <<live, closer, visible, database>>

-----------------------------------------------------------------------------
(* reconcile and recover_pending_state                                     *)

\* Mutant of KnownCids: protections of closed positions count as well.
KnownOfAnyPosition == RecordedCids(records) \cup {exit.cid}

\* Client ids with a local record: protections of open positions, and rows.
KnownCids ==
    (IF Managed THEN RecordedCids(records) ELSE {})
        \cup (IF exit.stage # "none" THEN {exit.cid} ELSE {})

Orphans == {o \in Open(cycle.snapBook) : cycle.snapBook[o] \notin KnownCids}

\* Mutant of ProtectionMissing: the exchange's open orders are not consulted.
MissingIgnored == FALSE

\* PROTECTION_ORDER_MISSING_AT_EXCHANGE, of any record of the position.
ProtectionMissing == ~ (RecordedOrders(records) \subseteq Open(cycle.snapBook))

\* Mutant of Deferred: quarantine although an exit may be unread.
NeverDeferred == FALSE

\* The quarantine of a ghost is deferred while exits may be unread.
Deferred == cycle.incomplete

\* What recover_pending_state plans for the intent of an exit that is not
\* FILLED or CANCELLED: its client id is looked for among the open orders.
IntentAction ==
    IF exit.stage \notin {"intent", "adopted", "ack"} THEN "none"
    ELSE IF \E o \in Open(cycle.snapBook) : cycle.snapBook[o] = exit.cid
         THEN "resolve" ELSE "mark"

\* reconcile: every discrepancy blocks entries; the plan is what
\* recover_pending_state makes of them, less a deferred quarantine.
Reconcile ==
    LET resubmit == /\ Managed /\ cycle.snapLive
                    /\ ActiveIndices(records) = {} \/ ProtectionMissing
        ghost == Managed /\ ~ cycle.snapLive
        unclaimed == ~ Managed /\ cycle.snapLive
        discrepancy == \/ resubmit \/ ghost \/ unclaimed
                       \/ pos = "QUARANTINED" \/ Orphans # {}
    IN  /\ At("reconcile")
        /\ cycle' = [cycle EXCEPT
                        !.pc = "recover",
                        !.view = IF Managed THEN records ELSE <<>>,
                        !.blocked = discrepancy,
                        !.todo = [intent |-> IF discrepancy THEN IntentAction
                                             ELSE "none",
                                  resubmit |-> resubmit,
                                  quarantine |-> ghost /\ ~ Deferred,
                                  cancel |-> Orphans]]
        /\ UNCHANGED <<exchange, database, faults>>

-----------------------------------------------------------------------------
(* execute_recovery_actions: the intents, then the discrepancies in order  *)

\* _mark_intent_not_submitted: an intent whose order row has no exchange id is
\* CANCELLED, although the exit it stands for has filled.
MarkIntentNotSubmitted ==
    /\ At("recover") /\ cycle.todo.intent = "mark"
    /\ exit' = IF exit.stage = "intent" THEN [exit EXCEPT !.stage = "writtenOff"]
               ELSE exit
    /\ cycle' = [cycle EXCEPT !.todo.intent = "none"]
    /\ UNCHANGED <<exchange, pos, records, faults>>

\* _resolve_unknown_intent: the row takes the exchange id of the order that is
\* open under its client id, which is not the one that filled.
ResolveUnknownIntent ==
    /\ At("recover") /\ cycle.todo.intent = "resolve"
    /\ \/ exit' = [exit EXCEPT !.stage = "adopted"] /\ NoFault
       \/ UNCHANGED exit /\ Fault("unreadable")
    /\ cycle' = [cycle EXCEPT !.todo.intent = "none"]
    /\ UNCHANGED <<exchange, pos, records>>

\* A stop whose price the ProtectionPlan of a recovery accepts.
Protectable == records # <<>> /\ ~ records[Len(records)].tight

\* _resubmit_protection: a new plan from the newest record.  Without a record
\* there is no price to protect with, and a stop that was tightened lies on
\* the wrong side of the entry price: the action fails.
BeginResubmit ==
    LET revision == records[Len(records)].version + 2
        todo == [cycle.todo EXCEPT !.resubmit = FALSE]
    IN  /\ At("recover") /\ cycle.todo.intent = "none" /\ cycle.todo.resubmit
        /\ cycle' = IF ~ Protectable THEN [cycle EXCEPT !.todo = todo]
                    ELSE [cycle EXCEPT
                            !.pc = "submit",
                            !.plan = [for |-> "recovery", first |-> revision,
                                      cid |-> revision, try |-> 1],
                            !.todo = todo]
        /\ UNCHANGED <<exchange, database, faults>>

Supersede(rs) ==
    [i \in DOMAIN rs |-> IF i = Len(rs) /\ rs[i].state = "ACTIVE"
                         THEN CancelRecord(rs[i]) ELSE rs[i]]

\* A stop that was acknowledged supersedes the newest record, unless its
\* client id is already recorded: the unique index refuses the transaction.
PersistResubmit ==
    /\ At("ensured") /\ cycle.plan.for = "recovery"
    /\ records' = IF \/ cycle.placed = NoOrder
                     \/ cycle.plan.first \in RecordedCids(records)
                  THEN records
                  ELSE Append(Supersede(records),
                              NewRecord(cycle.plan.first, cycle.placed))
    /\ cycle' = [cycle EXCEPT !.pc = "recover", !.plan = NoPlan,
                              !.placed = NoOrder]
    /\ UNCHANGED <<exchange, pos, exit, faults>>

\* Mutant of QuarantineLocalPosition: a ghost is taken for a closed position.
CloseLocalPosition ==
    /\ At("recover") /\ cycle.todo.intent = "none"
    /\ ~ cycle.todo.resubmit /\ cycle.todo.quarantine
    /\ pos' = "CLOSED"
    /\ cycle' = [cycle EXCEPT !.todo.quarantine = FALSE]
    /\ UNCHANGED <<exchange, records, exit, faults>>

\* _quarantine_local_position.
QuarantineLocalPosition ==
    /\ At("recover") /\ cycle.todo.intent = "none"
    /\ ~ cycle.todo.resubmit /\ cycle.todo.quarantine
    /\ pos' = "QUARANTINED"
    /\ cycle' = [cycle EXCEPT !.todo.quarantine = FALSE]
    /\ UNCHANGED <<exchange, records, exit, faults>>

\* CANCEL_ORPHAN_PROTECTION_ORDER, by exchange id; a failure is recorded.
CancelOrphan(o) ==
    /\ At("recover") /\ cycle.todo.intent = "none"
    /\ ~ cycle.todo.resubmit /\ ~ cycle.todo.quarantine
    /\ o \in cycle.todo.cancel
    /\ \/ book' = Cancelled({o}) /\ NoFault
       \/ book[o] # 0 /\ UNCHANGED book /\ Fault("unavailable")
    /\ cycle' = [cycle EXCEPT !.todo.cancel = @ \ {o}]
    /\ UNCHANGED <<live, closer, visible, database>>

RecoveryDone ==
    /\ At("recover") /\ cycle.todo = NothingToDo
    /\ Goto("profit")
    /\ UNCHANGED <<exchange, database, faults>>

-----------------------------------------------------------------------------
(* _apply_profit_protection, on the state loaded before the recovery       *)

\* The stop that is cancelled is that of the first record with one, the
\* record that is tightened is the last ACTIVE one.
IsOldStop(i) ==
    /\ cycle.view[i].order # NoOrder
    /\ \A j \in 1..(i - 1) : cycle.view[j].order = NoOrder
IsTightened(i) ==
    /\ cycle.view[i].state = "ACTIVE"
    /\ \A j \in ActiveIndices(cycle.view) : j <= i

\* What is remembered while a replacement is under way.
Replacing(o, i, k) ==
    [cycle EXCEPT !.pc = "cancelOld", !.placed = o, !.old = cycle.view[i].order,
                  !.index = k, !.newCid = cycle.view[k].version + 1]

\* Mutant of ReplaceStop: the old stop is cancelled before the new one.
CancelFirst(o) ==
    /\ At("profit") /\ cycle.snapLive
    /\ \E i, k \in DOMAIN cycle.view :
          /\ IsOldStop(i) /\ IsTightened(k)
          /\ Fresh(o)
          /\ book' = Cancelled({cycle.view[i].order})
          /\ cycle' = Replacing(o, i, k)
    /\ UNCHANGED <<live, closer, visible, database, faults>>

\* submit_stop_replacement with the next revision.  An answer that is lost
\* ends the cycle with the new stop in the book and not in the database.
ReplaceStop(o) ==
    /\ At("profit") /\ cycle.snapLive
    /\ \E i, k \in DOMAIN cycle.view :
          /\ IsOldStop(i) /\ IsTightened(k)
          /\ cycle.view[k].version < MaxVersion
          /\ Accept(o, cycle.view[k].version + 1)
          /\ \/ NoFault /\ cycle' = Replacing(o, i, k)
             \/ Fault("lost") /\ cycle' = Idle
    /\ UNCHANGED database

\* The old stop is cancelled; an exception leaves the database as it was.
CancelOldStop ==
    /\ At("cancelOld")
    /\ \/ /\ cycle.old \in Open(book)
          /\ book' = Cancelled({cycle.old})
          /\ \/ NoFault /\ Goto("updateStop")
             \/ Fault("lost") /\ cycle' = Idle
       \/ /\ cycle.old \notin Open(book) /\ NoFault
          /\ cycle' = Idle /\ UNCHANGED book
       \/ /\ cycle.old \in Open(book) /\ Fault("unavailable")
          /\ cycle' = Idle /\ UNCHANGED book
    /\ UNCHANGED <<live, closer, visible, database>>

\* p1_profit_protection locks a profit in: the stop passes the entry price.
Tightened(r) ==
    [r EXCEPT !.cid = cycle.newCid, !.order = cycle.placed, !.version = @ + 1,
              !.tight = TRUE]

\* update_protection_stop and the commit; the unique index on client ids may
\* refuse it.
UpdateStop ==
    /\ At("updateStop")
    /\ records' =
          IF \E j \in DOMAIN records \ {cycle.index} :
                records[j].cid = cycle.newCid
          THEN records
          ELSE [i \in DOMAIN records |->
                    IF i = cycle.index THEN Tightened(records[i])
                    ELSE records[i]]
    /\ cycle' = Idle
    /\ UNCHANGED <<exchange, pos, exit, faults>>

\* No tighter stop is due, or its submission is refused: the cycle ends.
EndCycle ==
    /\ At("profit")
    /\ cycle' = Idle
    /\ UNCHANGED <<exchange, database, faults>>

\* The worker dies, or a snapshot cannot be read and the cycle returns.
Crash ==
    /\ cycle # Idle
    /\ Fault("crash")
    /\ cycle' = Idle
    /\ UNCHANGED <<exchange, database>>

-----------------------------------------------------------------------------
\* An entry has filled and its protection is about to be submitted.
Init ==
    /\ live = TRUE /\ book = EmptyBook
    /\ closer = NotClosed /\ visible = FALSE
    /\ pos = "NONE" /\ records = <<>>
    /\ exit = [stage |-> "none", cid |-> 0]
    /\ cycle = [Idle EXCEPT !.pc = "submit",
                            !.plan = [for |-> "entry", first |-> 1,
                                      cid |-> 1, try |-> 1]]
    /\ faults = 0

Protect ==
    \/ \E o \in OrderIds : SubmitProtection(o)
    \/ SubmitProtectionFails
    \/ RereadQuantity
    \/ EscalateEmergency
    \/ Fenced
    \/ PersistEntry
    \/ PersistResubmit

Observe ==
    \/ FetchPositions \/ FetchOrders
    \/ ReconcileClosedProtections
    \/ RecoverExitGap \/ NoExitGap \/ ExitGapUnreadable
    \/ ProjectExit \/ NoProjectedExit \/ ProjectUnreadable
    \/ PersistExitIntent \/ PersistExitAck
    \/ PersistExitFill \/ PersistExitRefused
    \/ CancelSiblings

Recover ==
    \/ Reconcile
    \/ MarkIntentNotSubmitted \/ ResolveUnknownIntent
    \/ BeginResubmit
    \/ QuarantineLocalPosition
    \/ \E o \in OrderIds : CancelOrphan(o)
    \/ RecoveryDone

Tighten ==
    \/ \E o \in OrderIds : ReplaceStop(o)
    \/ CancelOldStop
    \/ UpdateStop
    \/ EndCycle

Worker == Protect \/ Observe \/ Recover \/ Tighten

Environment ==
    \/ \E o \in OrderIds : StopFires(o)
    \/ ManualClose
    \/ FillsVisible
    \/ Crash

Next == Worker \/ Environment

Spec == Init /\ [][Next]_vars

\* The scheduler runs a cycle per tick and the supervisor restarts a dead
\* worker, so the worker keeps taking steps; a fill becomes readable.
FairSpec == Spec /\ WF_vars(Worker) /\ WF_vars(FillsVisible)

-----------------------------------------------------------------------------
(* Properties                                                              *)

Record == [state : RecordStates, cid : Nat, order : OrderIds \cup {NoOrder},
           version : Nat, tight : BOOLEAN]

PCs == {"idle", "submit", "reread", "escalate", "ensured", "orders", "stale",
        "gaps", "project", "exitIntent", "exitAck", "exitFill", "siblings",
        "resnapshot", "reconcile", "recover", "profit", "cancelOld",
        "updateStop"}
Order == OrderIds \cup {NoOrder}
Plan == [for : {"none", "entry", "recovery"}, first : Nat, cid : Nat,
         try : 0..2]
Todo == [intent : {"none", "mark", "resolve"}, resubmit : BOOLEAN,
         quarantine : BOOLEAN, cancel : SUBSET OrderIds]
Stages == {"none", "intent", "adopted", "writtenOff", "ack", "refused", "filled"}
Cycle == [pc : PCs, ret : PCs, snapLive : BOOLEAN,
          snapBook : [OrderIds -> Nat], view : Seq(Record),
          incomplete : BOOLEAN, blocked : BOOLEAN, todo : Todo, plan : Plan,
          placed : Order, trigger : Order, siblings : SUBSET Order,
          exitCid : Nat, old : Order,
          index : Nat, newCid : Nat]

\* Type correctness of the exchange, the database and the worker's memory.
TypeOK ==
    /\ live \in BOOLEAN /\ visible \in BOOLEAN
    /\ book \in [OrderIds -> Nat]
    /\ closer \in [kind : {"none", "stop", "exit", "manual"}, order : Order,
                   attempt : Nat]
    /\ pos \in PositionStates
    /\ records \in Seq(Record)
    /\ exit \in [stage : Stages, cid : Nat]
    /\ cycle \in Cycle
    /\ faults \in 0..MaxFaults

\* A position is CLOSED only on evidence from the exchange: the account is
\* flat, an exit of this position closed it, and its fill is saved
\* (persist_exit_result; "never infers a close from exchange-flat state").
ClosedOnEvidence ==
    pos = "CLOSED" =>
        /\ ~ live
        /\ closer.kind \in {"stop", "exit"}
        /\ exit.stage = "filled"

\* When a reconciliation leaves entries unblocked, the exposure it saw was
\* managed, and an ACTIVE record names a stop that it saw open.
UnblockedMeansProtected ==
    cycle.pc \in {"recover", "profit"} /\ ~ cycle.blocked /\ cycle.snapLive =>
        \E i \in ActiveIndices(cycle.view) :
            cycle.view[i].order \in Open(cycle.snapBook)

\* Profit protection submits the replacement before it cancels: its steps
\* never take the last stop of a live position away, whatever fires between.
MakeBeforeBreak ==
    [][cycle.pc \in {"profit", "cancelOld"} /\ live' /\ Open(book) # {}
            => Open(book') # {}]_vars

\* _LEGAL_PROTECTION_TRANSITIONS and _LEGAL_POSITION_TRANSITIONS (domain/
\* state.py), with the steps made inside one transaction composed and the
\* repair of a quarantined position added.  A transition outside them would
\* raise and roll its transaction back.
LegalRecord == {<<"INTENT", "CANCELLED">>, <<"ACTIVE", "CANCELLED">>,
                <<"ACTIVE", "FILLED">>}
LegalPosition == {<<"POSITION_PROJECTED", "REDUCING">>,
                  <<"POSITION_PROJECTED", "QUARANTINED">>,
                  <<"PROTECTED", "REDUCING">>, <<"PROTECTED", "QUARANTINED">>,
                  <<"REDUCING", "CLOSED">>, <<"REDUCING", "QUARANTINED">>,
                  <<"QUARANTINED", "CLOSED">>}

OnlyLegalTransitions ==
    [][/\ pos \notin {"NONE", pos'} => <<pos, pos'>> \in LegalPosition
       /\ \A i \in DOMAIN records :
            records'[i].state # records[i].state =>
                <<records[i].state, records'[i].state>> \in LegalRecord]_vars

\* A stop that fired while a record of the position names it ends as a CLOSED
\* position, not as a permanently quarantined one: _project_confirmed_
\* protection_exits runs "before ghost-position recovery", and the deferral of
\* the quarantine ("U1", cycle_service.py) covers a lookup that raised.  The
\* one way out is an exit intent that recovery cancelled as not submitted.
StopFillProjected ==
    closer.kind = "stop" /\ closer.order \in RecordedOrders(records)
        ~> pos = "CLOSED" \/ WrittenOff

\* Not even for a while: as long as fills are readable when the position is
\* seen flat, a position whose recorded stop fired is never QUARANTINED, at
\* whatever point of a cycle it fired, a lookup raised or the worker died.
FiredStopNotQuarantined ==
    "lag" \notin Faults /\ pos = "QUARANTINED" /\ closer.kind = "stop"
        => closer.order \notin RecordedOrders(records)

\* A managed position whose newest record a recovery can protect it with is
\* not left without a stop: it is protected again, or it is closed
\* (_escalate_emergency: "the only correct end state for a live position that
\* cannot be protected").
NakedIsResolved ==
    Managed /\ live /\ Open(book) = {} /\ Protectable
        ~> ~ live \/ Open(book) # {}

\* After the exit no stop of the position stays behind at the exchange.
FlatIsCleaned == <>[](~ live => Open(book) = {})

\* What execute_recovery_actions says ("Never opens or increases risk"): the
\* recovery of a live position does not cancel its last stop.
RecoveryKeepsLastStop ==
    [][cycle.pc = "recover" /\ live' /\ Open(book) # {}
            => Open(book') # {}]_vars
=============================================================================
