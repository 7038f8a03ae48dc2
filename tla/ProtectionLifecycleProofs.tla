--------------------- MODULE ProtectionLifecycleProofs ---------------------
(***************************************************************************)
(* Proofs about ProtectionLifecycle, for every set of order ids, every     *)
(* kind and number of faults and every bound on versions.                  *)
(***************************************************************************)
EXTENDS ProtectionLifecycle, TLAPS, SequenceTheorems

\* Every definition that only groups variables or names a step of control.
USE DEF exchange, database, At, Goto, NoFault
USE ProtectionAssumption

-----------------------------------------------------------------------------
(* Type correctness                                                        *)

LEMMA EmptyBookType == EmptyBook \in [OrderIds -> Nat]
  BY DEF EmptyBook

LEMMA NoPlanType == NoPlan \in Plan
  BY DEF NoPlan, Plan

LEMMA IdleType == Idle \in Cycle
  BY EmptyBookType
  DEF Idle, Cycle, PCs, Todo, Plan, NothingToDo, NoPlan, Order, Record

LEMMA InitType == Init => TypeOK
  <1> SUFFICES ASSUME Init PROVE TypeOK
    OBVIOUS
  <1>0. [for |-> "entry", first |-> 1, cid |-> 1, try |-> 1] \in Plan
    BY DEF Plan
  <1>1. cycle \in Cycle
    BY <1>0, IdleType DEF Init, Cycle, PCs
  <1>2. closer \in [kind : {"none", "stop", "exit", "manual"}, order : Order,
                    attempt : Nat]
    BY DEF Init, NotClosed, Order
  <1>3. records \in Seq(Record)
    BY DEF Init
  <1>4. exit \in [stage : Stages, cid : Nat]
    BY DEF Init, Stages
  <1>5. live \in BOOLEAN /\ visible \in BOOLEAN
    BY DEF Init
  <1>6. book \in [OrderIds -> Nat]
    BY EmptyBookType DEF Init
  <1>7. pos \in PositionStates
    BY DEF Init, PositionStates
  <1>8. faults \in 0..MaxFaults
    BY DEF Init
  <1> QED BY <1>1, <1>2, <1>3, <1>4, <1>5, <1>6, <1>7, <1>8 DEF TypeOK

LEMMA FaultType ==
    ASSUME TypeOK, NEW kind, Fault(kind) \/ UNCHANGED faults
    PROVE  faults' \in 0..MaxFaults
  BY DEF TypeOK, Fault

\* A new record has the type of a record.
LEMMA NewRecordType ==
    ASSUME NEW cid \in Nat, NEW order \in Order
    PROVE  NewRecord(cid, order) \in Record
  BY DEF NewRecord, Record, Order, RecordStates

LEMMA CancelRecordType ==
    ASSUME NEW r \in Record
    PROVE  CancelRecord(r) \in Record
  <1>1. r.version + 1 \in Nat
    BY DEF Record
  <1> QED BY <1>1 DEF CancelRecord, Record, RecordStates

LEMMA SettleType ==
    ASSUME NEW r \in Record
    PROVE  Settle(r) \in Record
  <1>1. r.version + 2 \in Nat
    BY DEF Record
  <1>2. [r EXCEPT !.state = "FILLED", !.version = @ + 2] \in Record
    BY <1>1 DEF Record, RecordStates
  <1>3. CancelRecord(r) \in Record
    BY CancelRecordType
  <1> QED BY <1>2, <1>3 DEF Settle

\* A record for each index of a sequence of records is a sequence of records.
LEMMA MappedRecords ==
    ASSUME NEW rs \in Seq(Record), NEW ms,
           ms = [i \in DOMAIN rs |-> ms[i]],
           \A i \in DOMAIN rs : ms[i] \in Record
    PROVE  ms \in Seq(Record)
  <1>1. DOMAIN rs = 1..Len(rs) /\ Len(rs) \in Nat
    BY LenProperties
  <1>2. ms \in [1..Len(rs) -> Record]
    BY <1>1
  <1> QED BY <1>1, <1>2, IsASeq

LEMMA CloseType ==
    ASSUME TypeOK, NEW how \in [kind : {"none", "stop", "exit", "manual"},
                                order : Order, attempt : Nat],
           Close(how)
    PROVE  /\ live' \in BOOLEAN /\ visible' \in BOOLEAN
           /\ closer' \in [kind : {"none", "stop", "exit", "manual"},
                           order : Order, attempt : Nat]
           /\ faults' \in 0..MaxFaults
  <1>1. live' \in BOOLEAN /\ visible' \in BOOLEAN
    BY DEF Close
  <1>2. closer' = how
    BY DEF Close
  <1>3. faults' \in 0..MaxFaults
    BY FaultType DEF Close
  <1> QED BY <1>1, <1>2, <1>3

LEMMA AcceptType ==
    ASSUME TypeOK, NEW o \in OrderIds, NEW cid \in Nat, Accept(o, cid)
    PROVE  book' \in [OrderIds -> Nat]
  BY DEF Accept, TypeOK

LEMMA CancelledType ==
    ASSUME TypeOK, NEW S
    PROVE  Cancelled(S) \in [OrderIds -> Nat]
  BY DEF Cancelled, TypeOK

\* Moving the worker's control keeps the type of its memory.
LEMMA GotoType ==
    ASSUME TypeOK, NEW pc \in PCs
    PROVE  [cycle EXCEPT !.pc = pc] \in Cycle
  BY DEF TypeOK, Cycle

-----------------------------------------------------------------------------
(* One lemma per group of actions                                          *)

LEMMA ExchangeType ==
    ASSUME TypeOK,
           \/ \E o \in OrderIds : StopFires(o)
           \/ ManualClose
           \/ FillsVisible
           \/ Crash
    PROVE  TypeOK'
  <1>1. ASSUME NEW o \in OrderIds, StopFires(o) PROVE TypeOK'
    <2>1. [kind |-> "stop", order |-> o, attempt |-> 0]
            \in [kind : {"none", "stop", "exit", "manual"}, order : Order,
                 attempt : Nat]
      BY DEF Order
    <2>2. book' \in [OrderIds -> Nat]
      BY <1>1 DEF StopFires, TypeOK
    <2> QED BY <1>1, <2>1, <2>2, CloseType DEF StopFires, TypeOK
  <1>2. CASE ManualClose
    <2>1. [kind |-> "manual", order |-> NoOrder, attempt |-> 0]
            \in [kind : {"none", "stop", "exit", "manual"}, order : Order,
                 attempt : Nat]
      BY DEF Order
    <2> QED BY <1>2, <2>1, CloseType DEF ManualClose, TypeOK
  <1>3. CASE FillsVisible
    BY <1>3 DEF FillsVisible, TypeOK
  <1>4. CASE Crash
    BY <1>4, IdleType, FaultType DEF Crash, TypeOK
  <1> QED BY <1>1, <1>2, <1>3, <1>4

LEMMA ProtectType ==
    ASSUME TypeOK, Protect
    PROVE  TypeOK'
  <1>0. cycle.plan.cid \in Nat /\ cycle.plan.first \in Nat
    BY DEF TypeOK, Cycle, Plan
  <1>1. ASSUME NEW o \in OrderIds, SubmitProtection(o) PROVE TypeOK'
    <2>1. [cycle EXCEPT !.pc = "ensured", !.placed = o] \in Cycle
      BY DEF TypeOK, Cycle, PCs, Order
    <2>2. book' \in [OrderIds -> Nat]
      BY <1>0, <1>1, AcceptType DEF SubmitProtection
    <2> QED BY <1>1, <2>1, <2>2 DEF SubmitProtection, Accept, TypeOK
  <1>2. CASE SubmitProtectionFails
    <2>1. cycle' \in Cycle
      BY <1>2, GotoType DEF SubmitProtectionFails, PCs
    <2>2. book' \in [OrderIds -> Nat]
      BY <1>0, <1>2, AcceptType DEF SubmitProtectionFails, TypeOK
    <2>3. faults' \in 0..MaxFaults
      BY <1>2, FaultType DEF SubmitProtectionFails
    <2>4. UNCHANGED <<live, closer, visible, pos, records, exit>>
      BY <1>2 DEF SubmitProtectionFails, Accept
    <2> QED BY <2>1, <2>2, <2>3, <2>4 DEF TypeOK
  <1>3. CASE RereadQuantity
    <2>1. [cycle EXCEPT !.pc = "submit",
              !.plan = [cycle.plan EXCEPT !.cid = 2, !.try = 2]] \in Cycle
      <3>0. cycle.plan \in Plan /\ 2 \in 0..2 /\ 2 \in Nat
        BY DEF TypeOK, Cycle
      <3>1. [cycle.plan EXCEPT !.cid = 2, !.try = 2] \in Plan
        BY <3>0 DEF Plan
      <3> QED BY <3>1 DEF TypeOK, Cycle, PCs
    <2>2. cycle' \in Cycle
      BY <1>3, <2>1, GotoType DEF RereadQuantity, PCs
    <2>3. faults' \in 0..MaxFaults
      BY <1>3, FaultType DEF RereadQuantity
    <2> QED BY <1>3, <2>2, <2>3 DEF RereadQuantity, TypeOK
  <1>4. CASE EscalateEmergency
    <2>1. cycle' \in Cycle
      BY <1>4, GotoType DEF EscalateEmergency, PCs
    <2>2. [kind |-> "exit", order |-> NoOrder, attempt |-> cycle.plan.cid]
            \in [kind : {"none", "stop", "exit", "manual"}, order : Order,
                 attempt : Nat]
      BY <1>0 DEF Order
    <2>3. /\ live' \in BOOLEAN /\ visible' \in BOOLEAN
          /\ closer' \in [kind : {"none", "stop", "exit", "manual"},
                          order : Order, attempt : Nat]
          /\ faults' \in 0..MaxFaults
      <3>1. CASE Close([kind |-> "exit", order |-> NoOrder,
                        attempt |-> cycle.plan.cid])
        BY <2>2, <3>1, CloseType
      <3>2. CASE /\ UNCHANGED exchange
                 /\ NoFault \/ Fault("unavailable")
        BY <3>2, FaultType DEF TypeOK
      <3> QED BY <1>4, <3>1, <3>2 DEF EscalateEmergency
    <2> QED BY <1>4, <2>1, <2>3 DEF EscalateEmergency, TypeOK
  <1>5. CASE Fenced
    <2>1. cycle' \in Cycle
      BY <1>5, NoPlanType DEF Fenced, TypeOK, Cycle, PCs
    <2>2. book' \in [OrderIds -> Nat]
      BY <1>0, <1>5, AcceptType DEF Fenced, TypeOK
    <2>3. UNCHANGED <<live, closer, visible>>
      BY <1>5 DEF Fenced, Accept
    <2> QED BY <1>5, <2>1, <2>2, <2>3, FaultType DEF Fenced, TypeOK
  <1>6. CASE PersistEntry
    <2>1. NewRecord(cycle.plan.first, cycle.placed) \in Record
      BY <1>0, NewRecordType DEF TypeOK, Cycle
    <2>2. records' \in Seq(Record)
      BY <1>6, <2>1 DEF PersistEntry
    <2>3. pos' \in PositionStates
      BY <1>6 DEF PersistEntry, PositionStates, OpenStates
    <2> QED BY <1>6, <2>2, <2>3, IdleType DEF PersistEntry, TypeOK
  <1>7. CASE PersistResubmit
    <2>1. NewRecord(cycle.plan.first, cycle.placed) \in Record
      BY <1>0, NewRecordType DEF TypeOK, Cycle
    <2>2. Supersede(records) \in Seq(Record)
      <3>1. \A i \in DOMAIN records : records[i] \in Record
        BY DEF TypeOK
      <3>2. \A i \in DOMAIN records : Supersede(records)[i] \in Record
        BY <3>1, CancelRecordType DEF Supersede
      <3>3. Supersede(records) = [i \in DOMAIN records |-> Supersede(records)[i]]
        BY DEF Supersede
      <3> QED BY <3>2, <3>3, MappedRecords DEF TypeOK
    <2>3. records' \in Seq(Record)
      BY <1>7, <2>1, <2>2 DEF PersistResubmit, TypeOK
    <2>4. cycle' \in Cycle
      BY <1>7, NoPlanType DEF PersistResubmit, TypeOK, Cycle, PCs, Order
    <2> QED BY <1>7, <2>3, <2>4 DEF PersistResubmit, TypeOK
  <1> QED BY <1>1, <1>2, <1>3, <1>4, <1>5, <1>6, <1>7 DEF Protect

LEMMA ObserveType ==
    ASSUME TypeOK, Observe
    PROVE  TypeOK'
  <1>0. \A i \in DOMAIN records : records[i] \in Record
    BY DEF TypeOK
  <1>1. CASE FetchPositions
    BY <1>1 DEF FetchPositions, TypeOK, Cycle, PCs
  <1>2. CASE FetchOrders
    <2>1. cycle.ret \in PCs
      BY DEF TypeOK, Cycle
    <2> QED BY <1>2, <2>1 DEF FetchOrders, TypeOK, Cycle
  <1>3. CASE ReconcileClosedProtections
    <2>1. records' \in Seq(Record)
      BY <1>0, <1>3, CancelRecordType, MappedRecords
      DEF ReconcileClosedProtections, TypeOK
    <2>2. cycle' \in Cycle
      BY <1>3, GotoType DEF ReconcileClosedProtections, PCs
    <2> QED BY <1>3, <2>1, <2>2 DEF ReconcileClosedProtections, TypeOK
  <1>4. CASE RecoverExitGap
    <2>1. closer.order \in Order
      BY DEF TypeOK
    <2>2. \A t \in Order :
             [cycle EXCEPT !.pc = "exitIntent", !.ret = "project",
                           !.trigger = t, !.exitCid = 0] \in Cycle
      BY DEF TypeOK, Cycle, PCs
    <2>3. cycle' \in Cycle
      BY <1>4, <2>1, <2>2 DEF RecoverExitGap, Order
    <2> QED BY <1>4, <2>3 DEF RecoverExitGap, TypeOK
  <1>5. CASE NoExitGap
    BY <1>5, GotoType DEF NoExitGap, TypeOK, PCs
  <1>6. CASE ExitGapUnreadable
    <2>1. cycle' \in Cycle
      BY <1>6 DEF ExitGapUnreadable, TypeOK, Cycle, PCs
    <2> QED BY <1>6, <2>1, FaultType DEF ExitGapUnreadable, TypeOK
  <1>7. CASE ProjectExit
    <2>1. closer.order \in Order
      BY DEF TypeOK
    <2>2. \A i \in DOMAIN records : records[i].cid \in Nat
      BY <1>0 DEF Record
    <2>3. \A t \in Order, c \in Nat, S \in SUBSET Order :
             [cycle EXCEPT !.pc = "exitIntent", !.ret = "siblings",
                           !.trigger = t, !.siblings = S, !.exitCid = c] \in Cycle
      BY DEF TypeOK, Cycle, PCs
    <2>4. cycle' \in Cycle
      <3>1. PICK i \in DOMAIN records :
               cycle' = [cycle EXCEPT !.pc = "exitIntent", !.ret = "siblings",
                                      !.trigger = closer.order,
                                      !.siblings = ProjectedOrders \ {closer.order},
                                      !.exitCid = records[i].cid]
        BY <1>7 DEF ProjectExit
      <3>2. records[i].cid \in Nat
        BY <2>2
      <3>3. \A j \in DOMAIN records : records[j].order \in Order
        BY <1>0 DEF Record, Order
      <3>4. ProjectedOrders \in SUBSET Order
        BY <3>3 DEF ProjectedOrders, RecordedOrders, ActiveIndices
      <3>5. ProjectedOrders \ {closer.order} \in SUBSET Order
        BY <3>4
      <3> QED BY <2>1, <2>3, <3>1, <3>2, <3>5
    <2> QED BY <1>7, <2>4 DEF ProjectExit, TypeOK
  <1>8. CASE NoProjectedExit
    BY <1>8, GotoType DEF NoProjectedExit, TypeOK, PCs
  <1>9. CASE ProjectUnreadable
    <2>1. cycle' \in Cycle
      BY <1>9 DEF ProjectUnreadable, TypeOK, Cycle, PCs
    <2> QED BY <1>9, <2>1, FaultType DEF ProjectUnreadable, TypeOK
  <1>10. CASE PersistExitIntent
    <2>1. cycle.exitCid \in Nat
      BY DEF TypeOK, Cycle
    <2>2. cycle' \in Cycle
      BY <1>10, GotoType DEF PersistExitIntent, PCs, TypeOK, Cycle
    <2> QED BY <1>10, <2>1, <2>2 DEF PersistExitIntent, TypeOK, Stages
  <1>11. CASE PersistExitAck
    <2>1. cycle' \in Cycle
      BY <1>11, GotoType DEF PersistExitAck, PCs
    <2>2. pos' \in PositionStates
      BY <1>11 DEF PersistExitAck, TypeOK, PositionStates, OpenStates
    <2> QED BY <1>11, <2>1, <2>2 DEF PersistExitAck, TypeOK, Stages
  <1>12. CASE PersistExitFill
    <2>1. records' \in Seq(Record)
      BY <1>0, <1>12, SettleType, MappedRecords DEF PersistExitFill, TypeOK
    <2>2. cycle' \in Cycle
      <3>1. cycle.ret \in PCs
        BY DEF TypeOK, Cycle
      <3> QED BY <1>12, <3>1, GotoType DEF PersistExitFill
    <2>3. pos' \in PositionStates
      BY <1>12 DEF PersistExitFill, PositionStates
    <2> QED BY <1>12, <2>1, <2>2, <2>3 DEF PersistExitFill, TypeOK, Stages
  <1>13. CASE CancelSiblings
    <2>1. cycle' \in Cycle
      BY <1>13, GotoType DEF CancelSiblings, PCs
    <2>2. book' \in [OrderIds -> Nat]
      <3>1. PICK S : book' = Cancelled(S)
        BY <1>13 DEF CancelSiblings
      <3> QED BY <3>1, CancelledType
    <2>3. faults' \in 0..MaxFaults
      BY <1>13, FaultType DEF CancelSiblings
    <2> QED BY <1>13, <2>1, <2>2, <2>3 DEF CancelSiblings, TypeOK
  <1>14. CASE PersistExitRefused
    <2>1. cycle.ret \in PCs
      BY DEF TypeOK, Cycle
    <2>2. cycle' \in Cycle
      BY <1>14, <2>1 DEF PersistExitRefused, TypeOK, Cycle, PCs
    <2> QED BY <1>14, <2>2 DEF PersistExitRefused, TypeOK
  <1> QED BY <1>1, <1>2, <1>3, <1>4, <1>5, <1>6, <1>7, <1>8, <1>9, <1>10,
             <1>11, <1>12, <1>13, <1>14 DEF Observe

LEMMA RecoverType ==
    ASSUME TypeOK, Recover
    PROVE  TypeOK'
  <1>1. CASE Reconcile
    <2>1. /\ (IF Managed THEN records ELSE <<>>) \in Seq(Record)
          /\ Orphans \in SUBSET OrderIds
      BY DEF TypeOK, Orphans, Open
    <2>2. \A v \in Seq(Record), b \in BOOLEAN, t \in Todo :
             [cycle EXCEPT !.pc = "recover", !.view = v, !.blocked = b,
                           !.todo = t] \in Cycle
      BY DEF TypeOK, Cycle, PCs
    <2>3. \A a \in {"none", "mark", "resolve"}, r, q \in BOOLEAN :
             [intent |-> a, resubmit |-> r, quarantine |-> q,
              cancel |-> Orphans] \in Todo
      BY <2>1 DEF Todo
    <2>4. IntentAction \in {"none", "mark", "resolve"}
      BY DEF IntentAction
    <2>5. cycle' \in Cycle
      BY <1>1, <2>1, <2>2, <2>3, <2>4 DEF Reconcile
    <2> QED BY <1>1, <2>5 DEF Reconcile, TypeOK
  <1>2. CASE BeginResubmit
    <2>1. [cycle.todo EXCEPT !.resubmit = FALSE] \in Todo
      BY DEF TypeOK, Cycle, Todo
    <2>2. [cycle EXCEPT !.todo = [cycle.todo EXCEPT !.resubmit = FALSE]] \in Cycle
      BY <2>1 DEF TypeOK, Cycle
    <2>3. \A p \in Plan :
             [cycle EXCEPT !.pc = "submit", !.plan = p,
                           !.todo = [cycle.todo EXCEPT !.resubmit = FALSE]] \in Cycle
      BY <2>1 DEF TypeOK, Cycle, PCs
    <2>4. records # <<>> => records[Len(records)].version + 2 \in Nat
      <3>1. records \in Seq(Record)
        BY DEF TypeOK
      <3>2. records # <<>> => records[Len(records)] \in Record
        BY <3>1
      <3> QED BY <3>2 DEF Record
    <2>5. \A n \in Nat : [for |-> "recovery", first |-> n, cid |-> n,
                          try |-> 1] \in Plan
      BY DEF Plan
    <2>6. cycle' \in Cycle
      BY <1>2, <2>2, <2>3, <2>4, <2>5 DEF BeginResubmit, Protectable
    <2> QED BY <1>2, <2>6 DEF BeginResubmit, TypeOK
  <1>3. CASE QuarantineLocalPosition
    <2>1. cycle' \in Cycle
      BY <1>3 DEF QuarantineLocalPosition, TypeOK, Cycle, Todo
    <2> QED BY <1>3, <2>1 DEF QuarantineLocalPosition, TypeOK, PositionStates
  <1>4. ASSUME NEW o \in OrderIds, CancelOrphan(o) PROVE TypeOK'
    <2>1. cycle' \in Cycle
      BY <1>4 DEF CancelOrphan, TypeOK, Cycle, Todo
    <2>2. book' \in [OrderIds -> Nat]
      BY <1>4, CancelledType DEF CancelOrphan, TypeOK
    <2>3. faults' \in 0..MaxFaults
      BY <1>4, FaultType DEF CancelOrphan
    <2> QED BY <1>4, <2>1, <2>2, <2>3 DEF CancelOrphan, TypeOK
  <1>5. CASE RecoveryDone
    BY <1>5, GotoType DEF RecoveryDone, TypeOK, PCs
  <1>6. CASE MarkIntentNotSubmitted
    <2>1. cycle' \in Cycle
      BY <1>6 DEF MarkIntentNotSubmitted, TypeOK, Cycle, Todo
    <2> QED BY <1>6, <2>1 DEF MarkIntentNotSubmitted, TypeOK, Stages
  <1>7. CASE ResolveUnknownIntent
    <2>1. cycle' \in Cycle
      BY <1>7 DEF ResolveUnknownIntent, TypeOK, Cycle, Todo
    <2>2. exit' \in [stage : Stages, cid : Nat]
      BY <1>7 DEF ResolveUnknownIntent, TypeOK, Stages
    <2>3. faults' \in 0..MaxFaults
      BY <1>7, FaultType DEF ResolveUnknownIntent
    <2> QED BY <1>7, <2>1, <2>2, <2>3 DEF ResolveUnknownIntent, TypeOK
  <1> QED BY <1>1, <1>2, <1>3, <1>4, <1>5, <1>6, <1>7 DEF Recover

LEMMA TightenType ==
    ASSUME TypeOK, Tighten
    PROVE  TypeOK'
  <1>1. ASSUME NEW o \in OrderIds, ReplaceStop(o) PROVE TypeOK'
    <2>1. PICK i, k \in DOMAIN cycle.view :
             /\ Accept(o, cycle.view[k].version + 1)
             /\ \/ NoFault /\ cycle' = Replacing(o, i, k)
                \/ Fault("lost") /\ cycle' = Idle
      BY <1>1 DEF ReplaceStop
    <2>2. cycle.view \in Seq(Record)
      BY DEF TypeOK, Cycle
    <2>3. /\ cycle.view[i].order \in Order
          /\ cycle.view[k].version \in Nat
          /\ k \in Nat
      <3>1. i \in 1..Len(cycle.view) /\ k \in 1..Len(cycle.view)
        BY <2>1, <2>2
      <3>2. cycle.view[i] \in Record /\ cycle.view[k] \in Record
        BY <2>2, <3>1
      <3> QED BY <2>2, <3>1, <3>2 DEF Record, Order
    <2>4. cycle.view[k].version + 1 \in Nat
      BY <2>3
    <2>5. Replacing(o, i, k) \in Cycle
      BY <2>3, <2>4 DEF Replacing, TypeOK, Cycle, PCs, Order
    <2>6. book' \in [OrderIds -> Nat]
      BY <2>1, <2>4, AcceptType
    <2>7. faults' \in 0..MaxFaults
      BY <2>1, FaultType
    <2>8. cycle' \in Cycle
      BY <2>1, <2>5, IdleType
    <2> QED BY <1>1, <2>1, <2>6, <2>7, <2>8 DEF ReplaceStop, Accept, TypeOK
  <1>2. CASE CancelOldStop
    <2>1. cycle' \in Cycle
      BY <1>2, GotoType, IdleType DEF CancelOldStop, PCs
    <2>2. book' \in [OrderIds -> Nat]
      BY <1>2, CancelledType DEF CancelOldStop, TypeOK
    <2>3. faults' \in 0..MaxFaults
      BY <1>2, FaultType DEF CancelOldStop
    <2> QED BY <1>2, <2>1, <2>2, <2>3 DEF CancelOldStop, TypeOK
  <1>3. CASE UpdateStop
    <2>1. records' \in Seq(Record)
      <3>1. \A r \in Record : Tightened(r) \in Record
        <4> SUFFICES ASSUME NEW r \in Record PROVE Tightened(r) \in Record
          OBVIOUS
        <4>1. r.version + 1 \in Nat
          BY DEF Record
        <4>2. cycle.newCid \in Nat /\ cycle.placed \in OrderIds \cup {NoOrder}
          BY DEF TypeOK, Cycle, Order
        <4> QED BY <4>1, <4>2 DEF Tightened, Record
      <3>2. \A i \in DOMAIN records : records[i] \in Record
        BY DEF TypeOK
      <3> QED BY <1>3, <3>1, <3>2, MappedRecords DEF UpdateStop, TypeOK
    <2> QED BY <1>3, <2>1, IdleType DEF UpdateStop, TypeOK
  <1>4. CASE EndCycle
    BY <1>4, IdleType DEF EndCycle, TypeOK
  <1> QED BY <1>1, <1>2, <1>3, <1>4 DEF Tighten

LEMMA NextType == TypeOK /\ [Next]_vars => TypeOK'
  <1> SUFFICES ASSUME TypeOK, [Next]_vars PROVE TypeOK'
    OBVIOUS
  <1>1. CASE Next
    BY <1>1, ExchangeType, ProtectType, ObserveType, RecoverType, TightenType
    DEF Next, Worker, Environment
  <1>2. CASE UNCHANGED vars
    BY <1>2 DEF vars, TypeOK
  <1> QED BY <1>1, <1>2

\* The exchange, the database and the worker's memory keep their types,
\* whatever faults happen (run protection).
THEOREM TypeCorrect == Spec => []TypeOK
  BY InitType, NextType, PTL DEF Spec
-----------------------------------------------------------------------------
(***************************************************************************)
(* The inductive invariant.  None of the properties is inductive: each     *)
(* needs to know what the worker has already established when its control  *)
(* is at a given step, after an arbitrary interleaving with the exchange.  *)
(***************************************************************************)

\* The steps of a cycle up to its reconciliation.
BeforeReconcile == {"idle", "orders", "stale", "gaps", "project", "exitIntent",
                    "exitAck", "exitFill", "siblings", "resnapshot",
                    "reconcile"}

\* A stop or an exit of this position has closed it.
ExitSeen == ~ live /\ closer.kind \in {"stop", "exit"}

\* An exit is being saved, or was saved, only after the exchange executed it.
Evidence ==
    /\ live => closer.kind = "none"
    /\ exit.stage # "none" => ExitSeen
    /\ cycle.pc \in {"exitIntent", "exitAck", "exitFill"} => ExitSeen
    /\ cycle.pc \in {"exitIntent", "exitAck"} =>
            pos \in OpenStates \cup {"QUARANTINED"}
    /\ cycle.pc = "exitFill" => pos \in {"REDUCING", "QUARANTINED"}
    /\ pos = "CLOSED" => exit.stage = "filled"

\* Where the worker goes on after a snapshot and after an exit was saved.
Continuation ==
    /\ cycle.pc = "orders" => cycle.ret \in {"stale", "reconcile"}
    /\ cycle.pc \in {"exitIntent", "exitAck", "exitFill"} =>
            cycle.ret \in {"project", "siblings"}

\* While the old stop is about to be cancelled the new one is another order,
\* and it is open unless the position is gone.
Replacement ==
    /\ cycle.pc = "cancelOld" =>
            /\ cycle.old # cycle.placed
            /\ live => book[cycle.placed] # 0
    /\ cycle.pc \in {"cancelOld", "updateStop"} => cycle.placed \in OrderIds

\* Entries are blocked until a reconciliation has said otherwise; only a
\* position that is managed is to be quarantined, and only the intent of an
\* exit that is not saved yet is to be resolved.
Blocked ==
    /\ cycle.pc \in BeforeReconcile => cycle.blocked /\ ~ cycle.todo.quarantine
    /\ cycle.todo.quarantine => pos \in OpenStates
    /\ cycle.todo.intent # "none" =>
            cycle.pc = "recover" /\ exit.stage # "none" /\ pos # "CLOSED"

\* A reconciliation leaves a live position unblocked only if an ACTIVE record's
\* stop was in the snapshot.
StopSeen ==
    \E i \in ActiveIndices(cycle.view) : cycle.view[i].order \in Open(cycle.snapBook)

Justified == ~ cycle.blocked /\ cycle.snapLive => StopSeen

\* An ACTIVE record has an exchange id.
ActiveHasOrder ==
    \A i \in DOMAIN records :
        records[i].state = "ACTIVE" => records[i].order \in OrderIds

\* Only a position that was not yet saved is waiting for its entry to be
\* saved, and it has no protection record.
EntryPending ==
    /\ cycle.pc \in {"submit", "reread", "escalate", "ensured"}
            /\ cycle.plan.for # "recovery" => pos = "NONE"
    /\ cycle.plan.for = "recovery" => pos # "NONE"
    /\ pos = "NONE" => records = <<>>

IInv ==
    /\ TypeOK
    /\ Evidence
    /\ Continuation
    /\ Replacement
    /\ Blocked
    /\ Justified
    /\ ActiveHasOrder
    /\ EntryPending

LEMMA IdleFields ==
    /\ Idle.pc = "idle" /\ Idle.ret = "idle" /\ Idle.blocked = TRUE
    /\ Idle.todo.quarantine = FALSE /\ Idle.todo.intent = "none"
    /\ Idle.plan = NoPlan /\ Idle.plan.for = "none"
  BY DEF Idle, NothingToDo, NoPlan

\* A replacement that was submitted: the new stop is not the old one, the rest
\* of the worker's memory is as it was.
LEMMA ReplaceStopControl ==
    ASSUME TypeOK, NEW o \in OrderIds, ReplaceStop(o)
    PROVE  \/ cycle' = Idle
           \/ /\ cycle'.pc = "cancelOld"
              /\ cycle'.placed = o /\ cycle'.old # o
              /\ cycle'.plan = cycle.plan /\ cycle'.todo = cycle.todo
              /\ cycle'.view = cycle.view /\ cycle'.blocked = cycle.blocked
              /\ cycle'.snapLive = cycle.snapLive
              /\ cycle'.snapBook = cycle.snapBook
  <1>1. PICK i, k \in DOMAIN cycle.view :
           /\ IsOldStop(i)
           /\ Accept(o, cycle.view[k].version + 1)
           /\ cycle' = Replacing(o, i, k) \/ cycle' = Idle
    BY DEF ReplaceStop
  <1>2. cycle.view[i].order \in RecordedOrders(cycle.view)
    BY <1>1 DEF IsOldStop, RecordedOrders
  <1>3. cycle.view[i].order # o
    BY <1>1, <1>2 DEF Accept, Fresh
  <1>4. CASE cycle' = Replacing(o, i, k)
    <2> DEFINE a == cycle.view[i].order
               c == cycle.view[k].version + 1
    <2>1. cycle' = [cycle EXCEPT !.pc = "cancelOld", !.placed = o, !.old = a,
                                 !.index = k, !.newCid = c]
      BY <1>4 DEF Replacing
    <2>2. a # o
      BY <1>3
    <2> HIDE DEF a, c
    <2> QED BY <2>1, <2>2 DEF TypeOK, Cycle
  <1> QED BY <1>1, <1>4

\* What a reconciliation said stands while the worker remembers it.
LEMMA JustifiedFrame ==
    ASSUME Justified, cycle'.blocked = cycle.blocked,
           cycle'.snapLive = cycle.snapLive, cycle'.view = cycle.view,
           cycle'.snapBook = cycle.snapBook
    PROVE  Justified'
  BY DEF Justified, StopSeen, ActiveIndices, Open

LEMMA BlockedIsJustified ==
    ASSUME cycle'.blocked PROVE Justified'
  BY DEF Justified

\* After the old stop was cancelled the rest of the memory is as it was.
LEMMA CancelOldStopControl ==
    ASSUME TypeOK, CancelOldStop
    PROVE  \/ cycle' = Idle
           \/ /\ cycle'.pc = "updateStop"
              /\ cycle'.placed = cycle.placed
              /\ cycle'.plan = cycle.plan /\ cycle'.todo = cycle.todo
              /\ cycle'.view = cycle.view /\ cycle'.blocked = cycle.blocked
              /\ cycle'.snapLive = cycle.snapLive
              /\ cycle'.snapBook = cycle.snapBook
  <1>1. cycle' = Idle \/ cycle' = [cycle EXCEPT !.pc = "updateStop"]
    BY DEF CancelOldStop
  <1> QED BY <1>1 DEF TypeOK, Cycle

\* What a reconciliation leaves in the worker's memory.
LEMMA ReconcileControl ==
    ASSUME TypeOK, Reconcile
    PROVE  /\ cycle'.pc = "recover"
           /\ cycle'.view = IF Managed THEN records ELSE <<>>
           /\ cycle'.snapLive = cycle.snapLive
           /\ cycle'.snapBook = cycle.snapBook
           /\ cycle'.plan = cycle.plan
           /\ cycle'.todo.quarantine => Managed
           /\ cycle'.todo.intent # "none" =>
                    exit.stage \in {"intent", "adopted", "ack"}
           /\ ~ cycle'.blocked /\ cycle.snapLive =>
                    /\ Managed
                    /\ ActiveIndices(records) # {}
                    /\ ~ ProtectionMissing
  <1> DEFINE resubmit == /\ Managed /\ cycle.snapLive
                         /\ ActiveIndices(records) = {} \/ ProtectionMissing
             ghost == Managed /\ ~ cycle.snapLive
             unclaimed == ~ Managed /\ cycle.snapLive
             v == IF Managed THEN records ELSE <<>>
             b == \/ resubmit \/ ghost \/ unclaimed
                  \/ pos = "QUARANTINED" \/ Orphans # {}
             t == [intent |-> IF b THEN IntentAction ELSE "none",
                   resubmit |-> resubmit, quarantine |-> ghost /\ ~ Deferred,
                   cancel |-> Orphans]
  <1>1. cycle' = [cycle EXCEPT !.pc = "recover", !.view = v, !.blocked = b,
                               !.todo = t]
    BY Zenon DEF Reconcile
  <1>2. /\ t.quarantine => Managed
        /\ t.intent # "none" => exit.stage \in {"intent", "adopted", "ack"}
    <2>1. IntentAction # "none" => exit.stage \in {"intent", "adopted", "ack"}
      BY DEF IntentAction
    <2>2. t.intent = (IF b THEN IntentAction ELSE "none")
      BY Zenon
    <2>3. t.quarantine => Managed
      OBVIOUS
    <2> QED BY <2>1, <2>2, <2>3
  <1>3. ~ b /\ cycle.snapLive =>
            Managed /\ ActiveIndices(records) # {} /\ ~ ProtectionMissing
    OBVIOUS
  <1>4. v = IF Managed THEN records ELSE <<>>
    OBVIOUS
  <1> HIDE DEF v, b, t
  <1> QED BY <1>1, <1>2, <1>3, <1>4 DEF TypeOK, Cycle

LEMMA CancelRecordState ==
    ASSUME NEW r \in Record PROVE CancelRecord(r).state = "CANCELLED"
  BY DEF CancelRecord, Record

\* No protection is ACTIVE after the exit was saved.
LEMMA SettleState ==
    ASSUME NEW r \in Record
    PROVE  /\ Settle(r).state # "ACTIVE"
           /\ Settle(r).state # r.state =>
                  <<r.state, Settle(r).state>> \in LegalRecord
  <1>1. CASE r.state = "ACTIVE" /\ r.order = cycle.trigger
    <2>1. Settle(r).state = "FILLED"
      BY <1>1 DEF Settle, Record
    <2> QED BY <1>1, <2>1 DEF LegalRecord
  <1>2. CASE \/ r.state = "INTENT"
             \/ r.state = "ACTIVE" /\ r.order # cycle.trigger
    <2>1. Settle(r).state = "CANCELLED"
      BY <1>2, CancelRecordState DEF Settle
    <2> QED BY <1>2, <2>1 DEF LegalRecord
  <1>3. CASE r.state \notin {"INTENT", "ACTIVE"}
    BY <1>3 DEF Settle
  <1> QED BY <1>1, <1>2, <1>3

LEMMA ContinuationStep ==
    ASSUME IInv, [Next]_vars
    PROVE  Continuation'
  <1> USE DEF IInv, TypeOK, Cycle, Continuation
  <1>1. ASSUME NEW o \in OrderIds, SubmitProtection(o) PROVE Continuation'
    BY <1>1 DEF SubmitProtection, Accept
  <1>2. CASE SubmitProtectionFails
    BY <1>2 DEF SubmitProtectionFails, Accept
  <1>3. CASE RereadQuantity
    BY <1>3 DEF RereadQuantity
  <1>4. CASE EscalateEmergency
    BY <1>4 DEF EscalateEmergency, Close
  <1>5. CASE Fenced
    BY <1>5 DEF Fenced, Accept
  <1>6. CASE PersistEntry
    BY <1>6, IdleFields DEF PersistEntry
  <1>7. CASE PersistResubmit
    BY <1>7 DEF PersistResubmit
  <1>8. CASE FetchPositions
    BY <1>8 DEF FetchPositions
  <1>9. CASE FetchOrders
    BY <1>9 DEF FetchOrders
  <1>10. CASE ReconcileClosedProtections
    BY <1>10 DEF ReconcileClosedProtections
  <1>11. CASE RecoverExitGap
    BY <1>11 DEF RecoverExitGap, GapCandidate, GapKnown, OpenStates
  <1>12. CASE NoExitGap
    BY <1>12 DEF NoExitGap
  <1>13. CASE ExitGapUnreadable
    BY <1>13 DEF ExitGapUnreadable
  <1>14. CASE ProjectExit
    BY <1>14 DEF ProjectExit, StopFilled, ProjectedOrders, Managed, OpenStates
  <1>15. CASE NoProjectedExit
    BY <1>15 DEF NoProjectedExit
  <1>16. CASE ProjectUnreadable
    BY <1>16 DEF ProjectUnreadable
  <1>17. CASE PersistExitIntent
    BY <1>17 DEF PersistExitIntent
  <1>18. CASE PersistExitAck
    BY <1>18 DEF PersistExitAck, OpenStates
  <1>19. CASE PersistExitFill
    BY <1>19 DEF PersistExitFill, OpenStates
  <1>20. CASE CancelSiblings
    BY <1>20 DEF CancelSiblings
  <1>21. CASE Reconcile
    BY <1>21 DEF Reconcile
  <1>22. CASE BeginResubmit
    BY <1>22 DEF BeginResubmit
  <1>23. CASE QuarantineLocalPosition
    BY <1>23 DEF QuarantineLocalPosition, Managed, OpenStates
  <1>24. ASSUME NEW o \in OrderIds, CancelOrphan(o) PROVE Continuation'
    BY <1>24 DEF CancelOrphan
  <1>25. CASE RecoveryDone
    BY <1>25 DEF RecoveryDone
  <1>26. ASSUME NEW o \in OrderIds, ReplaceStop(o) PROVE Continuation'
    <2>1. cycle'.pc \in {"cancelOld", "idle"}
      BY <1>26, ReplaceStopControl, IdleFields
    <2> QED BY <1>26, <2>1 DEF ReplaceStop, Accept
  <1>27. CASE CancelOldStop
    BY <1>27, CancelOldStopControl, IdleFields DEF CancelOldStop
  <1>28. CASE UpdateStop
    BY <1>28, IdleFields DEF UpdateStop
  <1>29. CASE EndCycle
    BY <1>29, IdleFields DEF EndCycle
  <1>30. ASSUME NEW o \in OrderIds, StopFires(o) PROVE Continuation'
    BY <1>30 DEF StopFires, Close
  <1>31. CASE ManualClose
    BY <1>31 DEF ManualClose, Close
  <1>32. CASE FillsVisible
    BY <1>32 DEF FillsVisible
  <1>33. CASE Crash
    BY <1>33, IdleFields DEF Crash
  <1>34. CASE UNCHANGED vars
    BY <1>34 DEF vars
  <1>35. CASE PersistExitRefused
    BY <1>35 DEF PersistExitRefused
  <1>36. CASE MarkIntentNotSubmitted
    BY <1>36 DEF MarkIntentNotSubmitted
  <1>37. CASE ResolveUnknownIntent
    BY <1>37 DEF ResolveUnknownIntent
  <1> QED
    BY <1>1, <1>2, <1>3, <1>4, <1>5, <1>6, <1>7, <1>8, <1>9, <1>10, <1>11,
       <1>12, <1>13, <1>14, <1>15, <1>16, <1>17, <1>18, <1>19, <1>20, <1>21,
       <1>22, <1>23, <1>24, <1>25, <1>26, <1>27, <1>28, <1>29, <1>30, <1>31,
       <1>32, <1>33, <1>34, <1>35, <1>36, <1>37
    DEF Next, Worker, Environment, Protect, Observe, Recover, Tighten

LEMMA EvidenceStep ==
    ASSUME IInv, [Next]_vars
    PROVE  Evidence'
  <1> USE DEF IInv, TypeOK, Cycle, Evidence, ExitSeen, Continuation
  <1>1. ASSUME NEW o \in OrderIds, SubmitProtection(o) PROVE Evidence'
    BY <1>1 DEF SubmitProtection, Accept
  <1>2. CASE SubmitProtectionFails
    BY <1>2 DEF SubmitProtectionFails, Accept
  <1>3. CASE RereadQuantity
    BY <1>3 DEF RereadQuantity
  <1>4. CASE EscalateEmergency
    BY <1>4 DEF EscalateEmergency, Close
  <1>5. CASE Fenced
    BY <1>5 DEF Fenced, Accept
  <1>6. CASE PersistEntry
    BY <1>6, IdleFields DEF PersistEntry
  <1>7. CASE PersistResubmit
    BY <1>7 DEF PersistResubmit
  <1>8. CASE FetchPositions
    BY <1>8 DEF FetchPositions
  <1>9. CASE FetchOrders
    BY <1>9 DEF FetchOrders
  <1>10. CASE ReconcileClosedProtections
    BY <1>10 DEF ReconcileClosedProtections
  <1>11. CASE RecoverExitGap
    BY <1>11 DEF RecoverExitGap, GapCandidate, GapKnown, OpenStates
  <1>12. CASE NoExitGap
    BY <1>12 DEF NoExitGap
  <1>13. CASE ExitGapUnreadable
    BY <1>13 DEF ExitGapUnreadable
  <1>14. CASE ProjectExit
    BY <1>14 DEF ProjectExit, StopFilled, ProjectedOrders, Managed, OpenStates
  <1>15. CASE NoProjectedExit
    BY <1>15 DEF NoProjectedExit
  <1>16. CASE ProjectUnreadable
    BY <1>16 DEF ProjectUnreadable
  <1>17. CASE PersistExitIntent
    BY <1>17 DEF PersistExitIntent
  <1>18. CASE PersistExitAck
    BY <1>18 DEF PersistExitAck, OpenStates
  <1>19. CASE PersistExitFill
    BY <1>19 DEF PersistExitFill, OpenStates
  <1>20. CASE CancelSiblings
    BY <1>20 DEF CancelSiblings
  <1>21. CASE Reconcile
    BY <1>21 DEF Reconcile
  <1>22. CASE BeginResubmit
    BY <1>22 DEF BeginResubmit
  <1>23. CASE QuarantineLocalPosition
    BY <1>23 DEF QuarantineLocalPosition, Managed, OpenStates
  <1>24. ASSUME NEW o \in OrderIds, CancelOrphan(o) PROVE Evidence'
    BY <1>24 DEF CancelOrphan
  <1>25. CASE RecoveryDone
    BY <1>25 DEF RecoveryDone
  <1>26. ASSUME NEW o \in OrderIds, ReplaceStop(o) PROVE Evidence'
    <2>1. cycle'.pc \in {"cancelOld", "idle"}
      BY <1>26, ReplaceStopControl, IdleFields
    <2> QED BY <1>26, <2>1 DEF ReplaceStop, Accept
  <1>27. CASE CancelOldStop
    BY <1>27, CancelOldStopControl, IdleFields DEF CancelOldStop
  <1>28. CASE UpdateStop
    BY <1>28, IdleFields DEF UpdateStop
  <1>29. CASE EndCycle
    BY <1>29, IdleFields DEF EndCycle
  <1>30. ASSUME NEW o \in OrderIds, StopFires(o) PROVE Evidence'
    BY <1>30 DEF StopFires, Close
  <1>31. CASE ManualClose
    BY <1>31 DEF ManualClose, Close
  <1>32. CASE FillsVisible
    BY <1>32 DEF FillsVisible
  <1>33. CASE Crash
    BY <1>33, IdleFields DEF Crash
  <1>34. CASE UNCHANGED vars
    BY <1>34 DEF vars
  <1>35. CASE PersistExitRefused
    BY <1>35 DEF PersistExitRefused
  <1>36. CASE MarkIntentNotSubmitted
    BY <1>36 DEF MarkIntentNotSubmitted, Blocked
  <1>37. CASE ResolveUnknownIntent
    BY <1>37 DEF ResolveUnknownIntent, Blocked
  <1> QED
    BY <1>1, <1>2, <1>3, <1>4, <1>5, <1>6, <1>7, <1>8, <1>9, <1>10, <1>11,
       <1>12, <1>13, <1>14, <1>15, <1>16, <1>17, <1>18, <1>19, <1>20, <1>21,
       <1>22, <1>23, <1>24, <1>25, <1>26, <1>27, <1>28, <1>29, <1>30, <1>31,
       <1>32, <1>33, <1>34, <1>35, <1>36, <1>37
    DEF Next, Worker, Environment, Protect, Observe, Recover, Tighten

LEMMA ReplacementStep ==
    ASSUME IInv, [Next]_vars
    PROVE  Replacement'
  <1> USE DEF IInv, TypeOK, Cycle, Replacement, Continuation
  <1>1. ASSUME NEW o \in OrderIds, SubmitProtection(o) PROVE Replacement'
    BY <1>1 DEF SubmitProtection, Accept
  <1>2. CASE SubmitProtectionFails
    BY <1>2 DEF SubmitProtectionFails, Accept
  <1>3. CASE RereadQuantity
    BY <1>3 DEF RereadQuantity
  <1>4. CASE EscalateEmergency
    BY <1>4 DEF EscalateEmergency, Close
  <1>5. CASE Fenced
    BY <1>5 DEF Fenced, Accept
  <1>6. CASE PersistEntry
    BY <1>6, IdleFields DEF PersistEntry
  <1>7. CASE PersistResubmit
    BY <1>7 DEF PersistResubmit
  <1>8. CASE FetchPositions
    BY <1>8 DEF FetchPositions
  <1>9. CASE FetchOrders
    BY <1>9 DEF FetchOrders
  <1>10. CASE ReconcileClosedProtections
    BY <1>10 DEF ReconcileClosedProtections
  <1>11. CASE RecoverExitGap
    BY <1>11 DEF RecoverExitGap, GapCandidate, GapKnown, OpenStates
  <1>12. CASE NoExitGap
    BY <1>12 DEF NoExitGap
  <1>13. CASE ExitGapUnreadable
    BY <1>13 DEF ExitGapUnreadable
  <1>14. CASE ProjectExit
    BY <1>14 DEF ProjectExit, StopFilled, ProjectedOrders, Managed, OpenStates
  <1>15. CASE NoProjectedExit
    BY <1>15 DEF NoProjectedExit
  <1>16. CASE ProjectUnreadable
    BY <1>16 DEF ProjectUnreadable
  <1>17. CASE PersistExitIntent
    BY <1>17 DEF PersistExitIntent
  <1>18. CASE PersistExitAck
    BY <1>18 DEF PersistExitAck, OpenStates
  <1>19. CASE PersistExitFill
    BY <1>19 DEF PersistExitFill, OpenStates
  <1>20. CASE CancelSiblings
    BY <1>20 DEF CancelSiblings
  <1>21. CASE Reconcile
    BY <1>21 DEF Reconcile
  <1>22. CASE BeginResubmit
    BY <1>22 DEF BeginResubmit
  <1>23. CASE QuarantineLocalPosition
    BY <1>23 DEF QuarantineLocalPosition, Managed, OpenStates
  <1>24. ASSUME NEW o \in OrderIds, CancelOrphan(o) PROVE Replacement'
    BY <1>24 DEF CancelOrphan
  <1>25. CASE RecoveryDone
    BY <1>25 DEF RecoveryDone
  <1>26. ASSUME NEW o \in OrderIds, ReplaceStop(o) PROVE Replacement'
    <2>1. PICK k \in DOMAIN cycle.view : Accept(o, cycle.view[k].version + 1)
      BY <1>26 DEF ReplaceStop
    <2>2. cycle.view[k] \in Record
      BY <2>1
    <2>3. cycle.view[k].version + 1 # 0
      BY <2>2 DEF Record
    <2>4. book'[o] # 0
      BY <2>1, <2>3 DEF Accept
    <2> QED BY <1>26, <2>4, ReplaceStopControl, IdleFields
  <1>27. CASE CancelOldStop
    BY <1>27, CancelOldStopControl, IdleFields DEF CancelOldStop
  <1>28. CASE UpdateStop
    BY <1>28, IdleFields DEF UpdateStop
  <1>29. CASE EndCycle
    BY <1>29, IdleFields DEF EndCycle
  <1>30. ASSUME NEW o \in OrderIds, StopFires(o) PROVE Replacement'
    BY <1>30 DEF StopFires, Close
  <1>31. CASE ManualClose
    BY <1>31 DEF ManualClose, Close
  <1>32. CASE FillsVisible
    BY <1>32 DEF FillsVisible
  <1>33. CASE Crash
    BY <1>33, IdleFields DEF Crash
  <1>34. CASE UNCHANGED vars
    BY <1>34 DEF vars
  <1>35. CASE PersistExitRefused
    BY <1>35 DEF PersistExitRefused
  <1>36. CASE MarkIntentNotSubmitted
    BY <1>36 DEF MarkIntentNotSubmitted
  <1>37. CASE ResolveUnknownIntent
    BY <1>37 DEF ResolveUnknownIntent
  <1> QED
    BY <1>1, <1>2, <1>3, <1>4, <1>5, <1>6, <1>7, <1>8, <1>9, <1>10, <1>11,
       <1>12, <1>13, <1>14, <1>15, <1>16, <1>17, <1>18, <1>19, <1>20, <1>21,
       <1>22, <1>23, <1>24, <1>25, <1>26, <1>27, <1>28, <1>29, <1>30, <1>31,
       <1>32, <1>33, <1>34, <1>35, <1>36, <1>37
    DEF Next, Worker, Environment, Protect, Observe, Recover, Tighten

LEMMA BlockedStep ==
    ASSUME IInv, [Next]_vars
    PROVE  Blocked'
  <1> USE DEF IInv, TypeOK, Cycle, Todo, Blocked, Continuation, BeforeReconcile, Evidence
  <1>1. ASSUME NEW o \in OrderIds, SubmitProtection(o) PROVE Blocked'
    BY <1>1 DEF SubmitProtection, Accept
  <1>2. CASE SubmitProtectionFails
    BY <1>2 DEF SubmitProtectionFails, Accept
  <1>3. CASE RereadQuantity
    <2> DEFINE retry == [cycle.plan EXCEPT !.cid = 2, !.try = 2]
    <2>0. \/ cycle' = [cycle EXCEPT !.pc = "ensured"]
          \/ cycle' = [cycle EXCEPT !.pc = "submit", !.plan = retry]
          \/ cycle' = [cycle EXCEPT !.pc = "escalate"]
      BY <1>3 DEF RereadQuantity
    <2> HIDE DEF retry
    <2>1. /\ cycle'.todo = cycle.todo
          /\ cycle'.pc \in {"ensured", "submit", "escalate"}
      BY <2>0
    <2> QED BY <1>3, <2>1 DEF RereadQuantity
  <1>4. CASE EscalateEmergency
    BY <1>4 DEF EscalateEmergency, Close
  <1>5. CASE Fenced
    BY <1>5 DEF Fenced, Accept
  <1>6. CASE PersistEntry
    BY <1>6, IdleFields DEF PersistEntry
  <1>7. CASE PersistResubmit
    BY <1>7 DEF PersistResubmit
  <1>8. CASE FetchPositions
    BY <1>8 DEF FetchPositions
  <1>9. CASE FetchOrders
    BY <1>9 DEF FetchOrders
  <1>10. CASE ReconcileClosedProtections
    BY <1>10 DEF ReconcileClosedProtections
  <1>11. CASE RecoverExitGap
    BY <1>11 DEF RecoverExitGap, GapCandidate, GapKnown, OpenStates
  <1>12. CASE NoExitGap
    BY <1>12 DEF NoExitGap
  <1>13. CASE ExitGapUnreadable
    BY <1>13 DEF ExitGapUnreadable
  <1>14. CASE ProjectExit
    BY <1>14 DEF ProjectExit, StopFilled, ProjectedOrders, Managed, OpenStates
  <1>15. CASE NoProjectedExit
    BY <1>15 DEF NoProjectedExit
  <1>16. CASE ProjectUnreadable
    BY <1>16 DEF ProjectUnreadable
  <1>17. CASE PersistExitIntent
    BY <1>17 DEF PersistExitIntent
  <1>18. CASE PersistExitAck
    BY <1>18 DEF PersistExitAck, OpenStates
  <1>19. CASE PersistExitFill
    BY <1>19 DEF PersistExitFill, OpenStates
  <1>20. CASE CancelSiblings
    BY <1>20 DEF CancelSiblings
  <1>21. CASE Reconcile
    BY <1>21, ReconcileControl DEF Reconcile, Managed
  <1>22. CASE BeginResubmit
    <2>1. [cycle.todo EXCEPT !.resubmit = FALSE].quarantine
              = cycle.todo.quarantine
      OBVIOUS
    <2>2. cycle'.todo = [cycle.todo EXCEPT !.resubmit = FALSE]
      BY <1>22 DEF BeginResubmit
    <2>3. cycle'.pc \in {"recover", "submit"}
      BY <1>22 DEF BeginResubmit
    <2> QED BY <1>22, <2>1, <2>2, <2>3 DEF BeginResubmit
  <1>23. CASE QuarantineLocalPosition
    <2>1. /\ cycle'.pc = "recover" /\ ~ cycle'.todo.quarantine
          /\ cycle'.todo.intent = "none"
      BY <1>23 DEF QuarantineLocalPosition
    <2> QED BY <2>1
  <1>24. ASSUME NEW o \in OrderIds, CancelOrphan(o) PROVE Blocked'
    <2>1. cycle'.pc = "recover" /\ cycle'.todo.quarantine = cycle.todo.quarantine
      BY <1>24 DEF CancelOrphan
    <2> QED BY <1>24, <2>1 DEF CancelOrphan
  <1>25. CASE RecoveryDone
    BY <1>25 DEF RecoveryDone, NothingToDo
  <1>26. ASSUME NEW o \in OrderIds, ReplaceStop(o) PROVE Blocked'
    <2>1. UNCHANGED <<pos, exit>> /\ cycle.pc = "profit"
      BY <1>26 DEF ReplaceStop
    <2> QED BY <1>26, <2>1, ReplaceStopControl, IdleFields
  <1>27. CASE CancelOldStop
    <2>1. UNCHANGED <<pos, exit>> /\ cycle.pc = "cancelOld"
      BY <1>27 DEF CancelOldStop
    <2> QED BY <1>27, <2>1, CancelOldStopControl, IdleFields
  <1>28. CASE UpdateStop
    BY <1>28, IdleFields DEF UpdateStop
  <1>29. CASE EndCycle
    BY <1>29, IdleFields DEF EndCycle
  <1>30. ASSUME NEW o \in OrderIds, StopFires(o) PROVE Blocked'
    BY <1>30 DEF StopFires, Close
  <1>31. CASE ManualClose
    BY <1>31 DEF ManualClose, Close
  <1>32. CASE FillsVisible
    BY <1>32 DEF FillsVisible
  <1>33. CASE Crash
    BY <1>33, IdleFields DEF Crash
  <1>34. CASE UNCHANGED vars
    BY <1>34 DEF vars
  <1>35. CASE PersistExitRefused
    BY <1>35 DEF PersistExitRefused
  <1>36. CASE MarkIntentNotSubmitted
    BY <1>36 DEF MarkIntentNotSubmitted
  <1>37. CASE ResolveUnknownIntent
    BY <1>37 DEF ResolveUnknownIntent
  <1> QED
    BY <1>1, <1>2, <1>3, <1>4, <1>5, <1>6, <1>7, <1>8, <1>9, <1>10, <1>11,
       <1>12, <1>13, <1>14, <1>15, <1>16, <1>17, <1>18, <1>19, <1>20, <1>21,
       <1>22, <1>23, <1>24, <1>25, <1>26, <1>27, <1>28, <1>29, <1>30, <1>31,
       <1>32, <1>33, <1>34, <1>35, <1>36, <1>37
    DEF Next, Worker, Environment, Protect, Observe, Recover, Tighten

LEMMA JustifiedStep ==
    ASSUME IInv, [Next]_vars
    PROVE  Justified'
  <1> USE DEF IInv, TypeOK, Cycle
  <1>1. ASSUME NEW o \in OrderIds, SubmitProtection(o) PROVE Justified'
    BY <1>1, JustifiedFrame DEF SubmitProtection
  <1>2. CASE SubmitProtectionFails
    BY <1>2, JustifiedFrame DEF SubmitProtectionFails
  <1>3. CASE RereadQuantity
    BY <1>3, JustifiedFrame DEF RereadQuantity
  <1>4. CASE EscalateEmergency
    BY <1>4, JustifiedFrame DEF EscalateEmergency
  <1>5. CASE Fenced
    BY <1>5, JustifiedFrame DEF Fenced, Accept
  <1>6. CASE PersistEntry
    BY <1>6, BlockedIsJustified, IdleFields DEF PersistEntry
  <1>7. CASE PersistResubmit
    BY <1>7, JustifiedFrame DEF PersistResubmit
  <1>8. CASE FetchPositions
    BY <1>8, BlockedIsJustified DEF FetchPositions, Blocked, BeforeReconcile
  <1>9. CASE FetchOrders
    BY <1>9, BlockedIsJustified DEF FetchOrders, Blocked, BeforeReconcile
  <1>10. CASE ReconcileClosedProtections
    BY <1>10, JustifiedFrame DEF ReconcileClosedProtections
  <1>11. CASE RecoverExitGap
    BY <1>11, JustifiedFrame DEF RecoverExitGap
  <1>12. CASE NoExitGap
    BY <1>12, JustifiedFrame DEF NoExitGap
  <1>13. CASE ExitGapUnreadable
    BY <1>13, JustifiedFrame DEF ExitGapUnreadable
  <1>14. CASE ProjectExit
    BY <1>14, JustifiedFrame DEF ProjectExit
  <1>15. CASE NoProjectedExit
    BY <1>15, JustifiedFrame DEF NoProjectedExit
  <1>16. CASE ProjectUnreadable
    BY <1>16, JustifiedFrame DEF ProjectUnreadable
  <1>17. CASE PersistExitIntent
    BY <1>17, JustifiedFrame DEF PersistExitIntent
  <1>18. CASE PersistExitAck
    BY <1>18, JustifiedFrame DEF PersistExitAck
  <1>19. CASE PersistExitFill
    BY <1>19, JustifiedFrame DEF PersistExitFill
  <1>20. CASE CancelSiblings
    BY <1>20, JustifiedFrame DEF CancelSiblings
  <1>21. CASE Reconcile
    <2> SUFFICES ASSUME ~ cycle'.blocked, cycle'.snapLive PROVE StopSeen'
      BY DEF Justified
    <2>1. /\ Managed /\ ActiveIndices(records) # {} /\ ~ ProtectionMissing
          /\ cycle'.view = records /\ cycle'.snapBook = cycle.snapBook
      BY <1>21, ReconcileControl
    <2>2. PICK i \in ActiveIndices(records) : TRUE
      BY <2>1
    <2>3. records[i].order \in OrderIds /\ i \in DOMAIN records
      BY <2>2 DEF ActiveIndices, ActiveHasOrder
    <2>4. records[i].order \in RecordedOrders(records)
      BY <2>3 DEF RecordedOrders
    <2>5. records[i].order \in Open(cycle.snapBook)
      BY <2>1, <2>4 DEF ProtectionMissing
    <2> QED BY <2>1, <2>2, <2>5 DEF StopSeen, ActiveIndices, Open
  <1>22. CASE BeginResubmit
    BY <1>22, JustifiedFrame DEF BeginResubmit
  <1>23. CASE QuarantineLocalPosition
    BY <1>23, JustifiedFrame DEF QuarantineLocalPosition
  <1>24. ASSUME NEW o \in OrderIds, CancelOrphan(o) PROVE Justified'
    BY <1>24, JustifiedFrame DEF CancelOrphan
  <1>25. CASE RecoveryDone
    BY <1>25, JustifiedFrame DEF RecoveryDone
  <1>26. ASSUME NEW o \in OrderIds, ReplaceStop(o) PROVE Justified'
    BY <1>26, ReplaceStopControl, JustifiedFrame, BlockedIsJustified,
       IdleFields
  <1>27. CASE CancelOldStop
    BY <1>27, CancelOldStopControl, JustifiedFrame, BlockedIsJustified,
       IdleFields
  <1>28. CASE UpdateStop
    BY <1>28, BlockedIsJustified, IdleFields DEF UpdateStop
  <1>29. CASE EndCycle
    BY <1>29, BlockedIsJustified, IdleFields DEF EndCycle
  <1>30. ASSUME NEW o \in OrderIds, StopFires(o) PROVE Justified'
    BY <1>30, JustifiedFrame DEF StopFires
  <1>31. CASE ManualClose
    BY <1>31, JustifiedFrame DEF ManualClose
  <1>32. CASE FillsVisible
    BY <1>32, JustifiedFrame DEF FillsVisible
  <1>33. CASE Crash
    BY <1>33, BlockedIsJustified, IdleFields DEF Crash
  <1>34. CASE UNCHANGED vars
    BY <1>34 DEF vars, Justified, StopSeen, ActiveIndices, Open
  <1>35. CASE PersistExitRefused
    BY <1>35, JustifiedFrame DEF PersistExitRefused
  <1>36. CASE MarkIntentNotSubmitted
    BY <1>36, JustifiedFrame DEF MarkIntentNotSubmitted
  <1>37. CASE ResolveUnknownIntent
    BY <1>37, JustifiedFrame DEF ResolveUnknownIntent
  <1> QED
    BY <1>1, <1>2, <1>3, <1>4, <1>5, <1>6, <1>7, <1>8, <1>9, <1>10, <1>11,
       <1>12, <1>13, <1>14, <1>15, <1>16, <1>17, <1>18, <1>19, <1>20, <1>21,
       <1>22, <1>23, <1>24, <1>25, <1>26, <1>27, <1>28, <1>29, <1>30, <1>31,
       <1>32, <1>33, <1>34, <1>35, <1>36, <1>37
    DEF Next, Worker, Environment, Protect, Observe, Recover, Tighten

LEMMA ActiveHasOrderStep ==
    ASSUME IInv, [Next]_vars
    PROVE  ActiveHasOrder'
  <1> USE DEF IInv, TypeOK, Cycle, ActiveHasOrder
  <1>1. ASSUME NEW o \in OrderIds, SubmitProtection(o) PROVE ActiveHasOrder'
    BY <1>1 DEF SubmitProtection, Accept
  <1>2. CASE SubmitProtectionFails
    BY <1>2 DEF SubmitProtectionFails, Accept
  <1>3. CASE RereadQuantity
    BY <1>3 DEF RereadQuantity
  <1>4. CASE EscalateEmergency
    BY <1>4 DEF EscalateEmergency, Close
  <1>5. CASE Fenced
    BY <1>5 DEF Fenced, Accept
  <1>6. CASE PersistEntry
    <2>1. cycle.placed # NoOrder => cycle.placed \in OrderIds
      BY DEF Order
    <2>2. records' = <<>> \/ records' = <<NewRecord(cycle.plan.first, cycle.placed)>>
      BY <1>6 DEF PersistEntry
    <2> QED BY <2>1, <2>2 DEF NewRecord
  <1>7. CASE PersistResubmit
    <2>1. cycle.placed # NoOrder => cycle.placed \in OrderIds
      BY DEF Order
    <2> DEFINE old == Supersede(records)
               new == NewRecord(cycle.plan.first, cycle.placed)
    <2>2. new.state = "ACTIVE" => new.order \in OrderIds
      BY <2>1 DEF NewRecord
    <2>3. DOMAIN old = DOMAIN records
      BY DEF Supersede
    <2>4. \A i \in DOMAIN old : old[i].state = "ACTIVE" => old[i].order \in OrderIds
      <3>1. \A i \in DOMAIN records : records[i] \in Record
        OBVIOUS
      <3> QED BY <3>1, CancelRecordState DEF Supersede
    <2>5. old \in Seq(Record)
      <3>1. \A i \in DOMAIN records : old[i] \in Record
        BY CancelRecordType DEF Supersede
      <3>2. old = [i \in DOMAIN records |-> old[i]]
        BY DEF Supersede
      <3> QED BY <3>1, <3>2, MappedRecords
    <2>6. records' = records \/ records' = Append(old, new)
      BY <1>7 DEF PersistResubmit
    <2>7. new \in Record
      <3>1. cycle.plan.first \in Nat /\ cycle.placed \in Order
        BY DEF Plan
      <3> QED BY <3>1, NewRecordType
    <2> HIDE DEF old, new
    <2>8. /\ DOMAIN Append(old, new) = 1..(Len(old) + 1)
          /\ DOMAIN old = 1..Len(old)
          /\ \A i \in 1..Len(old) : Append(old, new)[i] = old[i]
          /\ Append(old, new)[Len(old) + 1] = new
      BY <2>5, <2>7, AppendProperties
    <2>9. \A i \in 1..(Len(old) + 1) : i \in 1..Len(old) \/ i = Len(old) + 1
      BY <2>5, LenProperties
    <2> QED BY <2>2, <2>4, <2>6, <2>8, <2>9
  <1>8. CASE FetchPositions
    BY <1>8 DEF FetchPositions
  <1>9. CASE FetchOrders
    BY <1>9 DEF FetchOrders
  <1>10. CASE ReconcileClosedProtections
    <2>1. \A i \in DOMAIN records : records[i] \in Record
      OBVIOUS
    <2> QED BY <1>10, <2>1, CancelRecordState DEF ReconcileClosedProtections
  <1>11. CASE RecoverExitGap
    BY <1>11 DEF RecoverExitGap, GapCandidate, GapKnown, OpenStates
  <1>12. CASE NoExitGap
    BY <1>12 DEF NoExitGap
  <1>13. CASE ExitGapUnreadable
    BY <1>13 DEF ExitGapUnreadable
  <1>14. CASE ProjectExit
    BY <1>14 DEF ProjectExit, StopFilled, ProjectedOrders, Managed, OpenStates
  <1>15. CASE NoProjectedExit
    BY <1>15 DEF NoProjectedExit
  <1>16. CASE ProjectUnreadable
    BY <1>16 DEF ProjectUnreadable
  <1>17. CASE PersistExitIntent
    BY <1>17 DEF PersistExitIntent
  <1>18. CASE PersistExitAck
    BY <1>18 DEF PersistExitAck, OpenStates
  <1>19. CASE PersistExitFill
    <2>1. \A i \in DOMAIN records : records[i] \in Record
      OBVIOUS
    <2> QED BY <1>19, <2>1, SettleState DEF PersistExitFill
  <1>20. CASE CancelSiblings
    BY <1>20 DEF CancelSiblings
  <1>21. CASE Reconcile
    BY <1>21 DEF Reconcile
  <1>22. CASE BeginResubmit
    BY <1>22 DEF BeginResubmit
  <1>23. CASE QuarantineLocalPosition
    BY <1>23 DEF QuarantineLocalPosition, Managed, OpenStates
  <1>24. ASSUME NEW o \in OrderIds, CancelOrphan(o) PROVE ActiveHasOrder'
    BY <1>24 DEF CancelOrphan
  <1>25. CASE RecoveryDone
    BY <1>25 DEF RecoveryDone
  <1>26. ASSUME NEW o \in OrderIds, ReplaceStop(o) PROVE ActiveHasOrder'
    BY <1>26, IdleFields DEF ReplaceStop, Accept, Replacing
  <1>27. CASE CancelOldStop
    BY <1>27, CancelOldStopControl, IdleFields DEF CancelOldStop
  <1>28. CASE UpdateStop
    <2>1. \A i \in DOMAIN records : records[i] \in Record
      OBVIOUS
    <2>2. cycle.placed \in OrderIds
      BY <1>28 DEF UpdateStop, Replacement
    <2>3. \A r \in Record : Tightened(r).order = cycle.placed
      BY DEF Tightened, Record
    <2>4. CASE records' = records
      BY <2>4
    <2>5. CASE records' = [i \in DOMAIN records |->
                             IF i = cycle.index THEN Tightened(records[i])
                             ELSE records[i]]
      BY <2>1, <2>2, <2>3, <2>5
    <2> QED BY <1>28, <2>4, <2>5 DEF UpdateStop
  <1>29. CASE EndCycle
    BY <1>29, IdleFields DEF EndCycle
  <1>30. ASSUME NEW o \in OrderIds, StopFires(o) PROVE ActiveHasOrder'
    BY <1>30 DEF StopFires, Close
  <1>31. CASE ManualClose
    BY <1>31 DEF ManualClose, Close
  <1>32. CASE FillsVisible
    BY <1>32 DEF FillsVisible
  <1>33. CASE Crash
    BY <1>33, IdleFields DEF Crash
  <1>34. CASE UNCHANGED vars
    BY <1>34 DEF vars
  <1>35. CASE PersistExitRefused
    BY <1>35 DEF PersistExitRefused
  <1>36. CASE MarkIntentNotSubmitted
    BY <1>36 DEF MarkIntentNotSubmitted
  <1>37. CASE ResolveUnknownIntent
    BY <1>37 DEF ResolveUnknownIntent
  <1> QED
    BY <1>1, <1>2, <1>3, <1>4, <1>5, <1>6, <1>7, <1>8, <1>9, <1>10, <1>11,
       <1>12, <1>13, <1>14, <1>15, <1>16, <1>17, <1>18, <1>19, <1>20, <1>21,
       <1>22, <1>23, <1>24, <1>25, <1>26, <1>27, <1>28, <1>29, <1>30, <1>31,
       <1>32, <1>33, <1>34, <1>35, <1>36, <1>37
    DEF Next, Worker, Environment, Protect, Observe, Recover, Tighten

LEMMA EntryPendingStep ==
    ASSUME IInv, [Next]_vars
    PROVE  EntryPending'
  <1> USE DEF IInv, TypeOK, Cycle, Plan, EntryPending, Continuation
  <1>1. ASSUME NEW o \in OrderIds, SubmitProtection(o) PROVE EntryPending'
    BY <1>1 DEF SubmitProtection, Accept
  <1>2. CASE SubmitProtectionFails
    BY <1>2 DEF SubmitProtectionFails, Accept
  <1>3. CASE RereadQuantity
    <2>1. cycle.plan \in Plan
      OBVIOUS
    <2>2. [cycle.plan EXCEPT !.cid = 2, !.try = 2].for = cycle.plan.for
      BY <2>1
    <2>3. cycle'.plan.for = cycle.plan.for
      BY <1>3, <2>2 DEF RereadQuantity
    <2> QED BY <1>3, <2>3 DEF RereadQuantity
  <1>4. CASE EscalateEmergency
    BY <1>4 DEF EscalateEmergency, Close
  <1>5. CASE Fenced
    <2>1. cycle'.plan.for = "none"
      BY <1>5 DEF Fenced, NoPlan
    <2>2. cycle'.pc = IF cycle.plan.for = "entry" THEN "ensured" ELSE "recover"
      BY <1>5 DEF Fenced, Accept
    <2> QED BY <1>5, <2>1, <2>2 DEF Fenced
  <1>6. CASE PersistEntry
    BY <1>6, IdleFields DEF PersistEntry
  <1>7. CASE PersistResubmit
    BY <1>7 DEF PersistResubmit
  <1>8. CASE FetchPositions
    BY <1>8 DEF FetchPositions
  <1>9. CASE FetchOrders
    BY <1>9 DEF FetchOrders
  <1>10. CASE ReconcileClosedProtections
    BY <1>10 DEF ReconcileClosedProtections
  <1>11. CASE RecoverExitGap
    BY <1>11 DEF RecoverExitGap, GapCandidate, GapKnown, OpenStates
  <1>12. CASE NoExitGap
    BY <1>12 DEF NoExitGap
  <1>13. CASE ExitGapUnreadable
    BY <1>13 DEF ExitGapUnreadable
  <1>14. CASE ProjectExit
    BY <1>14 DEF ProjectExit, StopFilled, ProjectedOrders, Managed, OpenStates
  <1>15. CASE NoProjectedExit
    BY <1>15 DEF NoProjectedExit
  <1>16. CASE ProjectUnreadable
    BY <1>16 DEF ProjectUnreadable
  <1>17. CASE PersistExitIntent
    BY <1>17 DEF PersistExitIntent
  <1>18. CASE PersistExitAck
    BY <1>18 DEF PersistExitAck, OpenStates
  <1>19. CASE PersistExitFill
    BY <1>19 DEF PersistExitFill, OpenStates
  <1>20. CASE CancelSiblings
    BY <1>20 DEF CancelSiblings
  <1>21. CASE Reconcile
    BY <1>21 DEF Reconcile
  <1>22. CASE BeginResubmit
    <2>1. /\ cycle.pc = "recover" /\ UNCHANGED <<pos, records>>
          /\ \/ cycle'.pc = "recover" /\ cycle'.plan = cycle.plan
             \/ /\ cycle'.pc = "submit" /\ cycle'.plan.for = "recovery"
                /\ records # <<>>
      BY <1>22 DEF BeginResubmit, Protectable
    <2> QED BY <2>1
  <1>23. CASE QuarantineLocalPosition
    BY <1>23 DEF QuarantineLocalPosition, Managed, OpenStates
  <1>24. ASSUME NEW o \in OrderIds, CancelOrphan(o) PROVE EntryPending'
    BY <1>24 DEF CancelOrphan
  <1>25. CASE RecoveryDone
    BY <1>25 DEF RecoveryDone
  <1>26. ASSUME NEW o \in OrderIds, ReplaceStop(o) PROVE EntryPending'
    <2>1. UNCHANGED <<pos, records>>
      BY <1>26 DEF ReplaceStop
    <2> QED BY <1>26, <2>1, ReplaceStopControl, IdleFields
  <1>27. CASE CancelOldStop
    <2>1. UNCHANGED <<pos, records>>
      BY <1>27 DEF CancelOldStop
    <2> QED BY <1>27, <2>1, CancelOldStopControl, IdleFields
  <1>28. CASE UpdateStop
    BY <1>28, IdleFields DEF UpdateStop
  <1>29. CASE EndCycle
    BY <1>29, IdleFields DEF EndCycle
  <1>30. ASSUME NEW o \in OrderIds, StopFires(o) PROVE EntryPending'
    BY <1>30 DEF StopFires, Close
  <1>31. CASE ManualClose
    BY <1>31 DEF ManualClose, Close
  <1>32. CASE FillsVisible
    BY <1>32 DEF FillsVisible
  <1>33. CASE Crash
    BY <1>33, IdleFields DEF Crash
  <1>34. CASE UNCHANGED vars
    BY <1>34 DEF vars
  <1>35. CASE PersistExitRefused
    BY <1>35 DEF PersistExitRefused
  <1>36. CASE MarkIntentNotSubmitted
    BY <1>36 DEF MarkIntentNotSubmitted
  <1>37. CASE ResolveUnknownIntent
    BY <1>37 DEF ResolveUnknownIntent
  <1> QED
    BY <1>1, <1>2, <1>3, <1>4, <1>5, <1>6, <1>7, <1>8, <1>9, <1>10, <1>11,
       <1>12, <1>13, <1>14, <1>15, <1>16, <1>17, <1>18, <1>19, <1>20, <1>21,
       <1>22, <1>23, <1>24, <1>25, <1>26, <1>27, <1>28, <1>29, <1>30, <1>31,
       <1>32, <1>33, <1>34, <1>35, <1>36, <1>37
    DEF Next, Worker, Environment, Protect, Observe, Recover, Tighten

LEMMA InitInv == Init => IInv
  <1> SUFFICES ASSUME Init PROVE IInv
    OBVIOUS
  <1>1. TypeOK
    BY InitType
  <1>2. /\ cycle.pc = "submit" /\ cycle.plan.for = "entry"
        /\ cycle.blocked /\ ~ cycle.todo.quarantine /\ cycle.todo.intent = "none"
    BY IdleFields DEF Init
  <1>3. Evidence /\ Continuation /\ Replacement
    BY <1>2 DEF Init, Evidence, Continuation, Replacement, NotClosed
  <1>4. Blocked /\ Justified
    BY <1>2 DEF Blocked, Justified
  <1>5. ActiveHasOrder /\ EntryPending
    BY <1>2 DEF Init, ActiveHasOrder, EntryPending
  <1> QED BY <1>1, <1>3, <1>4, <1>5 DEF IInv

LEMMA NextInv == IInv /\ [Next]_vars => IInv'
  BY NextType, ContinuationStep, EvidenceStep, ReplacementStep, BlockedStep,
     JustifiedStep, ActiveHasOrderStep, EntryPendingStep DEF IInv

LEMMA Invariance == Spec => []IInv
  BY InitInv, NextInv, PTL DEF Spec

-----------------------------------------------------------------------------
(* The properties                                                          *)

\* A position is CLOSED only when the exchange executed a stop or an exit of
\* it and the fill is saved: persist_exit_result, for any interleaving of
\* fills, crashes, lost answers and unreadable queries.
THEOREM ClosesOnEvidence == Spec => []ClosedOnEvidence
  <1>1. IInv => ClosedOnEvidence
    BY DEF IInv, Evidence, ExitSeen, ClosedOnEvidence
  <1> QED BY <1>1, Invariance, PTL

\* A reconciliation that leaves entries unblocked saw the stop of an ACTIVE
\* record of the live position (reconcile, reconciliation_service.py).
THEOREM UnblockedIsProtected == Spec => []UnblockedMeansProtected
  <1>1. IInv => UnblockedMeansProtected
    BY DEF IInv, Justified, StopSeen, UnblockedMeansProtected
  <1> QED BY <1>1, Invariance, PTL

\* Profit protection never takes the last stop of a live position away
\* (_apply_profit_protection submits before it cancels).
THEOREM ReplacementIsSafe == Spec => MakeBeforeBreak
  <1>1. ASSUME IInv, [Next]_vars
        PROVE  [cycle.pc \in {"profit", "cancelOld"} /\ live' /\ Open(book) # {}
                    => Open(book') # {}]_vars
    <2> SUFFICES ASSUME Next, cycle.pc \in {"profit", "cancelOld"}, live',
                        Open(book) # {}
                 PROVE  Open(book') # {}
      BY <1>1
    <2>1. ASSUME NEW o \in OrderIds, ReplaceStop(o) PROVE Open(book') # {}
      <3>1. PICK k \in DOMAIN cycle.view : Accept(o, cycle.view[k].version + 1)
        BY <2>1 DEF ReplaceStop
      <3>2. cycle.view[k] \in Record
        BY <1>1, <3>1 DEF IInv, TypeOK, Cycle
      <3>3. book'[o] # 0
        BY <1>1, <3>1, <3>2 DEF Accept, IInv, TypeOK, Record
      <3> QED BY <3>3 DEF Open
    <2>2. CASE CancelOldStop
      <3>1. live /\ cycle.pc = "cancelOld"
        BY <2>2 DEF CancelOldStop
      <3>2. /\ cycle.placed \in OrderIds /\ cycle.old # cycle.placed
            /\ book[cycle.placed] # 0
        BY <1>1, <3>1 DEF IInv, Replacement
      <3>3. book'[cycle.placed] # 0
        BY <2>2, <3>2 DEF CancelOldStop, Cancelled
      <3> QED BY <3>2, <3>3 DEF Open
    <2>3. CASE EndCycle
      BY <2>3 DEF EndCycle
    <2>4. CASE UNCHANGED book
      BY <2>4
    <2>5. ASSUME NEW o \in OrderIds, StopFires(o) PROVE FALSE
      BY <2>5 DEF StopFires, Close
    <2> QED BY <1>1, <2>1, <2>2, <2>3, <2>4, <2>5
      DEF Next, Worker, Environment, Protect, Observe, Recover, Tighten,
          SubmitProtection, SubmitProtectionFails, RereadQuantity,
          EscalateEmergency, Fenced, PersistEntry, PersistResubmit,
          FetchPositions, FetchOrders, ReconcileClosedProtections,
          RecoverExitGap, NoExitGap, ExitGapUnreadable, ProjectExit,
          NoProjectedExit, ProjectUnreadable, PersistExitIntent,
          PersistExitAck, PersistExitFill, PersistExitRefused, CancelSiblings,
          Reconcile, MarkIntentNotSubmitted, ResolveUnknownIntent,
          BeginResubmit, QuarantineLocalPosition, CancelOrphan, RecoveryDone,
          UpdateStop, ManualClose, FillsVisible, Crash
  <1> QED BY <1>1, Invariance, PTL DEF Spec, MakeBeforeBreak

LegalStep ==
    /\ pos \notin {"NONE", pos'} => <<pos, pos'>> \in LegalPosition
    /\ \A i \in DOMAIN records :
          records'[i].state # records[i].state =>
              <<records[i].state, records'[i].state>> \in LegalRecord

\* Every change of a saved position or protection is a transition the tables
\* of domain/state.py allow: none of the writers is ever refused and rolled
\* back by them, in whatever state a crash or a fill has left the rows.
THEOREM TransitionsAreLegal == Spec => OnlyLegalTransitions
  <1>1. ASSUME IInv, [Next]_vars PROVE LegalStep
    <2>0. /\ \A i \in DOMAIN records : records[i] \in Record
          /\ pos \in PositionStates
      BY <1>1 DEF IInv, TypeOK
    <2>1. CASE UNCHANGED <<pos, records>>
      BY <2>1 DEF LegalStep
    <2>2. CASE PersistEntry
      <3>1. pos = "NONE" /\ records = <<>>
        BY <1>1, <2>2 DEF PersistEntry, IInv, EntryPending
      <3> QED BY <3>1 DEF LegalStep
    <2>3. CASE PersistResubmit
      <3> DEFINE old == Supersede(records)
                 new == NewRecord(cycle.plan.first, cycle.placed)
      <3>1. records' = records \/ records' = Append(old, new)
        BY <2>3 DEF PersistResubmit
      <3>2. \A i \in DOMAIN records :
               old[i].state # records[i].state =>
                   <<records[i].state, old[i].state>> \in LegalRecord
        BY <2>0, CancelRecordState DEF Supersede, LegalRecord
      <3>3. old \in Seq(Record) /\ DOMAIN old = DOMAIN records
        <4>1. \A i \in DOMAIN records : old[i] \in Record
          BY <2>0, CancelRecordType DEF Supersede
        <4>2. old = [i \in DOMAIN records |-> old[i]]
          BY DEF Supersede
        <4>3. records \in Seq(Record)
          BY <1>1 DEF IInv, TypeOK
        <4> QED BY <4>1, <4>2, <4>3, MappedRecords DEF Supersede
      <3>4. new \in Record
        <4>1. cycle.plan.first \in Nat /\ cycle.placed \in Order
          BY <1>1 DEF IInv, TypeOK, Cycle, Plan
        <4> QED BY <4>1, NewRecordType
      <3>5. pos' = pos
        BY <2>3 DEF PersistResubmit
      <3> HIDE DEF old, new
      <3>6. \A i \in DOMAIN old : Append(old, new)[i] = old[i]
        BY <3>3, <3>4, AppendProperties
      <3> QED BY <3>1, <3>2, <3>3, <3>5, <3>6 DEF LegalStep
    <2>4. CASE ReconcileClosedProtections
      BY <2>0, <2>4, CancelRecordState
      DEF ReconcileClosedProtections, IsStale, Cancellable, LegalStep, LegalRecord
    <2>5. CASE PersistExitAck
      BY <2>5 DEF PersistExitAck, LegalStep, LegalPosition
    <2>6. CASE PersistExitFill
      <3>1. pos \in {"REDUCING", "QUARANTINED"}
        BY <1>1, <2>6 DEF PersistExitFill, IInv, Evidence
      <3>2. \A i \in DOMAIN records :
               records'[i].state # records[i].state =>
                   <<records[i].state, records'[i].state>> \in LegalRecord
        BY <2>0, <2>6, SettleState DEF PersistExitFill
      <3> QED BY <2>6, <3>1, <3>2 DEF PersistExitFill, LegalStep, LegalPosition
    <2>7. CASE QuarantineLocalPosition
      <3>1. pos \in OpenStates
        BY <1>1, <2>7 DEF QuarantineLocalPosition, IInv, Blocked
      <3> QED BY <2>7, <3>1
          DEF QuarantineLocalPosition, LegalStep, LegalPosition, OpenStates
    <2>8. CASE UpdateStop
      <3>1. \A r \in Record : Tightened(r).state = r.state
        BY DEF Tightened, Record
      <3> QED BY <2>0, <2>8, <3>1 DEF UpdateStop, LegalStep
    <2> QED BY <1>1, <2>1, <2>2, <2>3, <2>4, <2>5, <2>6, <2>7, <2>8
      DEF vars, Next, Worker, Environment, Protect, Observe, Recover, Tighten,
          SubmitProtection, SubmitProtectionFails, RereadQuantity,
          EscalateEmergency, Fenced, FetchPositions, FetchOrders,
          RecoverExitGap, NoExitGap, ExitGapUnreadable, ProjectExit,
          NoProjectedExit, ProjectUnreadable, PersistExitIntent,
          PersistExitRefused, CancelSiblings, Reconcile,
          MarkIntentNotSubmitted, ResolveUnknownIntent, BeginResubmit,
          CancelOrphan,
          RecoveryDone, ReplaceStop, CancelOldStop, EndCycle, StopFires,
          ManualClose, FillsVisible, Crash
  <1> QED BY <1>1, Invariance, PTL DEF Spec, OnlyLegalTransitions, LegalStep

-----------------------------------------------------------------------------
(* The quarantine                                                          *)

\* A stop a record of the position names has closed it.
FiredAndRecorded ==
    closer.kind = "stop" /\ closer.order \in RecordedOrders(records)

\* The steps of a cycle that follow a snapshot of the positions.
AfterSnapshot == {"orders", "stale", "gaps", "project", "exitIntent",
                  "exitAck", "exitFill", "siblings", "resnapshot",
                  "reconcile", "recover", "profit"}
Submitting == {"submit", "reread", "escalate", "ensured"}

\* The position does not open again, and without lag the fill that closed it
\* is readable.
FlatSeen ==
    /\ ~ live => visible
    /\ cycle.pc \in AfterSnapshot /\ ~ cycle.snapLive => ~ live

\* A second snapshot is taken only after the exit was saved.
AfterExit ==
    \/ cycle.pc \in {"siblings", "resnapshot"}
    \/ cycle.pc = "orders" /\ cycle.ret = "reconcile"
    => pos = "CLOSED"

\* A position is not quarantined while the worker is protecting it again or
\* tightens its stop.
Tasks ==
    /\ cycle.todo.quarantine =>
           cycle.pc = "recover" /\ ~ cycle.snapLive /\ ~ cycle.todo.resubmit
    /\ cycle.todo.resubmit => cycle.pc = "recover" /\ cycle.snapLive /\ Managed
    /\ cycle.plan.for = "recovery" =>
           cycle.pc \in Submitting /\ cycle.snapLive /\ Managed
    /\ cycle.pc \in {"submit", "reread", "escalate"} => cycle.plan.for # "none"
    /\ cycle.pc \in {"recover", "profit"} \cup Submitting
           /\ cycle.snapLive /\ cycle.view # <<>> => Managed
    /\ cycle.pc \in {"cancelOld", "updateStop"} => Managed

\* Whoever comes to quarantine the position has looked up its stops.
Unfired ==
    /\ cycle.pc = "reconcile" /\ Managed /\ ~ cycle.snapLive
           /\ ~ cycle.incomplete => ~ FiredAndRecorded
    /\ cycle.todo.quarantine => ~ FiredAndRecorded
    /\ pos = "QUARANTINED" => ~ live /\ ~ FiredAndRecorded

QInv == FlatSeen /\ AfterExit /\ Tasks /\ Unfired

LEMMA IdleTasks ==
    /\ Idle.pc = "idle" /\ Idle.todo.quarantine = FALSE
    /\ Idle.todo.resubmit = FALSE /\ Idle.plan.for = "none"
  BY DEF Idle, NothingToDo, NoPlan

\* The tasks a reconciliation leaves.
LEMMA ReconcileTasks ==
    ASSUME TypeOK, Reconcile
    PROVE  /\ cycle'.pc = "recover" /\ cycle'.plan = cycle.plan
           /\ cycle'.snapLive = cycle.snapLive
           /\ cycle'.view # <<>> => Managed
           /\ cycle'.todo.resubmit => Managed /\ cycle.snapLive
           /\ cycle'.todo.quarantine =>
                  Managed /\ ~ cycle.snapLive /\ ~ cycle.incomplete
  <1> DEFINE resubmit == /\ Managed /\ cycle.snapLive
                         /\ ActiveIndices(records) = {} \/ ProtectionMissing
             ghost == Managed /\ ~ cycle.snapLive
             v == IF Managed THEN records ELSE <<>>
             b == \/ resubmit \/ ghost \/ (~ Managed /\ cycle.snapLive)
                  \/ pos = "QUARANTINED" \/ Orphans # {}
             t == [intent |-> IF b THEN IntentAction ELSE "none",
                   resubmit |-> resubmit, quarantine |-> ghost /\ ~ Deferred,
                   cancel |-> Orphans]
  <1>1. cycle' = [cycle EXCEPT !.pc = "recover", !.view = v, !.blocked = b,
                               !.todo = t]
    BY Zenon DEF Reconcile
  <1>2. /\ t.resubmit => Managed /\ cycle.snapLive
        /\ t.quarantine => Managed /\ ~ cycle.snapLive /\ ~ cycle.incomplete
    BY DEF Deferred
  <1>3. v # <<>> => Managed
    OBVIOUS
  <1> HIDE DEF v, b, t
  <1> QED BY <1>1, <1>2, <1>3 DEF TypeOK, Cycle

LEMMA FlatSeenStep ==
    ASSUME "lag" \notin Faults, IInv, FlatSeen, Tasks, [Next]_vars
    PROVE  FlatSeen'
  <1> USE DEF IInv, TypeOK, Cycle, FlatSeen, AfterSnapshot, Continuation
  <1>1. ASSUME NEW o \in OrderIds, SubmitProtection(o) PROVE FlatSeen'
    BY <1>1 DEF SubmitProtection, Accept
  <1>2. CASE SubmitProtectionFails
    BY <1>2 DEF SubmitProtectionFails, Accept
  <1>3. CASE RereadQuantity
    <2>1. /\ UNCHANGED <<live, visible>>
          /\ cycle'.pc \in {"ensured", "submit", "escalate"}
      BY <1>3 DEF RereadQuantity
    <2> QED BY <2>1
  <1>4. CASE EscalateEmergency
    BY <1>4 DEF EscalateEmergency, Close, Fault
  <1>5. CASE Fenced
    <2>1. /\ UNCHANGED <<live, visible>> /\ cycle'.snapLive = cycle.snapLive
          /\ cycle'.pc = "ensured" \/ cycle.plan.for = "recovery"
      BY <1>5 DEF Fenced, Accept, Tasks, Plan
    <2> QED BY <2>1 DEF Tasks
  <1>6. CASE PersistEntry
    BY <1>6, IdleFields DEF PersistEntry
  <1>7. CASE PersistResubmit
    <2>1. cycle.snapLive
      BY <1>7 DEF PersistResubmit, Tasks
    <2> QED BY <1>7, <2>1 DEF PersistResubmit
  <1>8. CASE FetchPositions
    BY <1>8 DEF FetchPositions
  <1>9. CASE FetchOrders
    BY <1>9 DEF FetchOrders
  <1>10. CASE ReconcileClosedProtections
    BY <1>10 DEF ReconcileClosedProtections
  <1>11. CASE RecoverExitGap
    BY <1>11 DEF RecoverExitGap
  <1>12. CASE NoExitGap
    BY <1>12 DEF NoExitGap
  <1>13. CASE ExitGapUnreadable
    BY <1>13 DEF ExitGapUnreadable
  <1>14. CASE ProjectExit
    BY <1>14 DEF ProjectExit
  <1>15. CASE NoProjectedExit
    BY <1>15 DEF NoProjectedExit
  <1>16. CASE ProjectUnreadable
    BY <1>16 DEF ProjectUnreadable
  <1>17. CASE PersistExitIntent
    BY <1>17 DEF PersistExitIntent
  <1>18. CASE PersistExitAck
    BY <1>18 DEF PersistExitAck
  <1>19. CASE PersistExitFill
    BY <1>19 DEF PersistExitFill
  <1>20. CASE CancelSiblings
    BY <1>20 DEF CancelSiblings
  <1>21. CASE Reconcile
    BY <1>21 DEF Reconcile
  <1>22. CASE BeginResubmit
    BY <1>22 DEF BeginResubmit
  <1>23. CASE QuarantineLocalPosition
    BY <1>23 DEF QuarantineLocalPosition
  <1>24. ASSUME NEW o \in OrderIds, CancelOrphan(o) PROVE FlatSeen'
    BY <1>24 DEF CancelOrphan
  <1>25. CASE RecoveryDone
    BY <1>25 DEF RecoveryDone
  <1>26. ASSUME NEW o \in OrderIds, ReplaceStop(o) PROVE FlatSeen'
    <2>1. UNCHANGED <<live, visible>> /\ cycle'.pc \in {"cancelOld", "idle"}
      BY <1>26, ReplaceStopControl, IdleFields DEF ReplaceStop, Accept
    <2> QED BY <2>1
  <1>27. CASE CancelOldStop
    BY <1>27, CancelOldStopControl, IdleFields DEF CancelOldStop
  <1>28. CASE UpdateStop
    BY <1>28, IdleFields DEF UpdateStop
  <1>29. CASE EndCycle
    BY <1>29, IdleFields DEF EndCycle
  <1>30. ASSUME NEW o \in OrderIds, StopFires(o) PROVE FlatSeen'
    BY <1>30 DEF StopFires, Close, Fault
  <1>31. CASE ManualClose
    BY <1>31 DEF ManualClose, Close, Fault
  <1>32. CASE FillsVisible
    BY <1>32 DEF FillsVisible
  <1>33. CASE Crash
    BY <1>33, IdleFields DEF Crash
  <1>34. CASE UNCHANGED vars
    BY <1>34 DEF vars
  <1>35. CASE PersistExitRefused
    BY <1>35 DEF PersistExitRefused
  <1>36. CASE MarkIntentNotSubmitted
    BY <1>36 DEF MarkIntentNotSubmitted
  <1>37. CASE ResolveUnknownIntent
    BY <1>37 DEF ResolveUnknownIntent
  <1> QED
    BY <1>1, <1>2, <1>3, <1>4, <1>5, <1>6, <1>7, <1>8, <1>9, <1>10, <1>11,
       <1>12,
    <1>13, <1>14, <1>15, <1>16, <1>17, <1>18, <1>19, <1>20, <1>21, <1>22, <1>23,
    <1>24, <1>25, <1>26, <1>27, <1>28, <1>29, <1>30, <1>31, <1>32, <1>33, <1>34, <1>35, <1>36, <1>37
    DEF Next, Worker, Environment, Protect, Observe, Recover, Tighten

LEMMA AfterExitStep ==
    ASSUME IInv, AfterExit, [Next]_vars
    PROVE  AfterExit'
  <1> USE DEF IInv, TypeOK, Cycle, AfterExit, Continuation
  <1>1. ASSUME NEW o \in OrderIds, SubmitProtection(o) PROVE AfterExit'
    BY <1>1 DEF SubmitProtection, Accept
  <1>2. CASE SubmitProtectionFails
    BY <1>2 DEF SubmitProtectionFails, Accept
  <1>3. CASE RereadQuantity
    BY <1>3 DEF RereadQuantity
  <1>4. CASE EscalateEmergency
    BY <1>4 DEF EscalateEmergency, Close
  <1>5. CASE Fenced
    BY <1>5 DEF Fenced, Accept
  <1>6. CASE PersistEntry
    BY <1>6, IdleFields DEF PersistEntry
  <1>7. CASE PersistResubmit
    BY <1>7 DEF PersistResubmit
  <1>8. CASE FetchPositions
    BY <1>8 DEF FetchPositions
  <1>9. CASE FetchOrders
    BY <1>9 DEF FetchOrders
  <1>10. CASE ReconcileClosedProtections
    BY <1>10 DEF ReconcileClosedProtections
  <1>11. CASE RecoverExitGap
    BY <1>11 DEF RecoverExitGap
  <1>12. CASE NoExitGap
    BY <1>12 DEF NoExitGap
  <1>13. CASE ExitGapUnreadable
    BY <1>13 DEF ExitGapUnreadable
  <1>14. CASE ProjectExit
    BY <1>14 DEF ProjectExit
  <1>15. CASE NoProjectedExit
    BY <1>15 DEF NoProjectedExit
  <1>16. CASE ProjectUnreadable
    BY <1>16 DEF ProjectUnreadable
  <1>17. CASE PersistExitIntent
    BY <1>17 DEF PersistExitIntent
  <1>18. CASE PersistExitAck
    BY <1>18 DEF PersistExitAck
  <1>19. CASE PersistExitFill
    BY <1>19 DEF PersistExitFill
  <1>20. CASE CancelSiblings
    BY <1>20 DEF CancelSiblings
  <1>21. CASE Reconcile
    BY <1>21 DEF Reconcile
  <1>22. CASE BeginResubmit
    BY <1>22 DEF BeginResubmit
  <1>23. CASE QuarantineLocalPosition
    BY <1>23 DEF QuarantineLocalPosition
  <1>24. ASSUME NEW o \in OrderIds, CancelOrphan(o) PROVE AfterExit'
    BY <1>24 DEF CancelOrphan
  <1>25. CASE RecoveryDone
    BY <1>25 DEF RecoveryDone
  <1>26. ASSUME NEW o \in OrderIds, ReplaceStop(o) PROVE AfterExit'
    BY <1>26, ReplaceStopControl, IdleFields
  <1>27. CASE CancelOldStop
    BY <1>27, CancelOldStopControl, IdleFields
  <1>28. CASE UpdateStop
    BY <1>28, IdleFields DEF UpdateStop
  <1>29. CASE EndCycle
    BY <1>29, IdleFields DEF EndCycle
  <1>30. ASSUME NEW o \in OrderIds, StopFires(o) PROVE AfterExit'
    BY <1>30 DEF StopFires, Close
  <1>31. CASE ManualClose
    BY <1>31 DEF ManualClose, Close
  <1>32. CASE FillsVisible
    BY <1>32 DEF FillsVisible
  <1>33. CASE Crash
    BY <1>33, IdleFields DEF Crash
  <1>34. CASE UNCHANGED vars
    BY <1>34 DEF vars
  <1>35. CASE PersistExitRefused
    BY <1>35 DEF PersistExitRefused
  <1>36. CASE MarkIntentNotSubmitted
    BY <1>36 DEF MarkIntentNotSubmitted
  <1>37. CASE ResolveUnknownIntent
    BY <1>37 DEF ResolveUnknownIntent
  <1> QED
    BY <1>1, <1>2, <1>3, <1>4, <1>5, <1>6, <1>7, <1>8, <1>9, <1>10, <1>11,
       <1>12,
    <1>13, <1>14, <1>15, <1>16, <1>17, <1>18, <1>19, <1>20, <1>21, <1>22, <1>23,
    <1>24, <1>25, <1>26, <1>27, <1>28, <1>29, <1>30, <1>31, <1>32, <1>33, <1>34, <1>35, <1>36, <1>37
    DEF Next, Worker, Environment, Protect, Observe, Recover, Tighten

LEMMA TasksStep ==
    ASSUME IInv, Tasks, [Next]_vars
    PROVE  Tasks'
  <1> USE DEF IInv, TypeOK, Cycle, Todo, Plan, Tasks, Submitting, Continuation, Managed
  <1>1. ASSUME NEW o \in OrderIds, SubmitProtection(o) PROVE Tasks'
    BY <1>1 DEF SubmitProtection, Accept
  <1>2. CASE SubmitProtectionFails
    BY <1>2 DEF SubmitProtectionFails, Accept
  <1>3. CASE RereadQuantity
    <2>1. cycle.plan \in Plan
      OBVIOUS
    <2>2. [cycle.plan EXCEPT !.cid = 2, !.try = 2].for = cycle.plan.for
      BY <2>1
    <2>3. cycle'.plan.for = cycle.plan.for
      BY <1>3, <2>2 DEF RereadQuantity
    <2>4. /\ cycle'.todo = cycle.todo /\ cycle'.view = cycle.view
          /\ cycle'.snapLive = cycle.snapLive
      <3> DEFINE p == [cycle.plan EXCEPT !.cid = 2, !.try = 2]
      <3>1. \/ \E pc \in PCs : cycle' = [cycle EXCEPT !.pc = pc]
            \/ cycle' = [cycle EXCEPT !.pc = "submit", !.plan = p]
        BY <1>3 DEF RereadQuantity, PCs
      <3> HIDE DEF p
      <3> QED BY <3>1
    <2>5. /\ cycle.pc = "reread" /\ pos' = pos
          /\ cycle'.pc \in {"ensured", "submit", "escalate"}
      BY <1>3 DEF RereadQuantity
    <2> QED BY <2>3, <2>4, <2>5
  <1>4. CASE EscalateEmergency
    BY <1>4 DEF EscalateEmergency, Close
  <1>5. CASE Fenced
    <2>1. /\ cycle'.plan = NoPlan /\ cycle'.todo = cycle.todo
          /\ cycle'.view = cycle.view /\ cycle'.snapLive = cycle.snapLive
          /\ cycle'.pc \in {"ensured", "recover"} /\ pos' = pos
          /\ cycle.pc \in {"submit", "escalate"}
      BY <1>5 DEF Fenced, Accept
    <2> QED BY <2>1 DEF NoPlan
  <1>6. CASE PersistEntry
    BY <1>6, IdleTasks DEF PersistEntry
  <1>7. CASE PersistResubmit
    <2>1. /\ cycle'.plan = NoPlan /\ cycle'.todo = cycle.todo
          /\ cycle'.view = cycle.view /\ cycle'.snapLive = cycle.snapLive
          /\ cycle'.pc = "recover" /\ pos' = pos /\ cycle.pc = "ensured"
      BY <1>7 DEF PersistResubmit, At
    <2> QED BY <2>1 DEF NoPlan
  <1>8. CASE FetchPositions
    BY <1>8 DEF FetchPositions
  <1>9. CASE FetchOrders
    BY <1>9 DEF FetchOrders
  <1>10. CASE ReconcileClosedProtections
    BY <1>10 DEF ReconcileClosedProtections
  <1>11. CASE RecoverExitGap
    BY <1>11 DEF RecoverExitGap
  <1>12. CASE NoExitGap
    BY <1>12 DEF NoExitGap
  <1>13. CASE ExitGapUnreadable
    BY <1>13 DEF ExitGapUnreadable
  <1>14. CASE ProjectExit
    BY <1>14 DEF ProjectExit
  <1>15. CASE NoProjectedExit
    BY <1>15 DEF NoProjectedExit
  <1>16. CASE ProjectUnreadable
    BY <1>16 DEF ProjectUnreadable
  <1>17. CASE PersistExitIntent
    BY <1>17 DEF PersistExitIntent
  <1>18. CASE PersistExitAck
    BY <1>18 DEF PersistExitAck
  <1>19. CASE PersistExitFill
    BY <1>19 DEF PersistExitFill
  <1>20. CASE CancelSiblings
    BY <1>20 DEF CancelSiblings
  <1>21. CASE Reconcile
    BY <1>21, ReconcileTasks DEF Reconcile, At
  <1>22. CASE BeginResubmit
    <2>1. /\ cycle.pc = "recover" /\ cycle.todo.resubmit /\ pos' = pos
          /\ cycle'.view = cycle.view /\ cycle'.snapLive = cycle.snapLive
          /\ cycle'.todo = [cycle.todo EXCEPT !.resubmit = FALSE]
          /\ \/ cycle'.pc = "recover" /\ cycle'.plan = cycle.plan
             \/ cycle'.pc = "submit" /\ cycle'.plan.for = "recovery"
      BY <1>22 DEF BeginResubmit, At
    <2>2. /\ cycle'.todo.quarantine = cycle.todo.quarantine
          /\ cycle'.todo.resubmit = FALSE
      BY <2>1
    <2> QED BY <2>1, <2>2
  <1>23. CASE QuarantineLocalPosition
    BY <1>23 DEF QuarantineLocalPosition
  <1>24. ASSUME NEW o \in OrderIds, CancelOrphan(o) PROVE Tasks'
    BY <1>24 DEF CancelOrphan
  <1>25. CASE RecoveryDone
    BY <1>25 DEF RecoveryDone, NothingToDo
  <1>26. ASSUME NEW o \in OrderIds, ReplaceStop(o) PROVE Tasks'
    <2>1. /\ cycle.pc = "profit" /\ cycle.snapLive /\ cycle.view # <<>>
          /\ pos' = pos
      BY <1>26 DEF ReplaceStop, At
    <2> QED BY <1>26, <2>1, ReplaceStopControl, IdleTasks
  <1>27. CASE CancelOldStop
    <2>1. pos' = pos /\ cycle.pc = "cancelOld"
      BY <1>27 DEF CancelOldStop, At
    <2> QED BY <1>27, <2>1, CancelOldStopControl, IdleTasks
  <1>28. CASE UpdateStop
    BY <1>28, IdleTasks DEF UpdateStop
  <1>29. CASE EndCycle
    BY <1>29, IdleTasks DEF EndCycle
  <1>30. ASSUME NEW o \in OrderIds, StopFires(o) PROVE Tasks'
    BY <1>30 DEF StopFires, Close
  <1>31. CASE ManualClose
    BY <1>31 DEF ManualClose, Close
  <1>32. CASE FillsVisible
    BY <1>32 DEF FillsVisible
  <1>33. CASE Crash
    BY <1>33, IdleTasks DEF Crash
  <1>34. CASE UNCHANGED vars
    BY <1>34 DEF vars
  <1>35. CASE PersistExitRefused
    BY <1>35 DEF PersistExitRefused
  <1>36. CASE MarkIntentNotSubmitted
    <2>1. /\ cycle'.todo.quarantine = cycle.todo.quarantine
          /\ cycle'.todo.resubmit = cycle.todo.resubmit
          /\ cycle'.pc = "recover" /\ UNCHANGED <<pos, records, exchange>>
          /\ cycle'.plan = cycle.plan /\ cycle'.view = cycle.view
          /\ cycle'.snapLive = cycle.snapLive
      BY <1>36 DEF MarkIntentNotSubmitted
    <2> QED BY <1>36, <2>1 DEF MarkIntentNotSubmitted
  <1>37. CASE ResolveUnknownIntent
    <2>1. /\ cycle'.todo.quarantine = cycle.todo.quarantine
          /\ cycle'.todo.resubmit = cycle.todo.resubmit
          /\ cycle'.pc = "recover" /\ UNCHANGED <<pos, records, exchange>>
          /\ cycle'.plan = cycle.plan /\ cycle'.view = cycle.view
          /\ cycle'.snapLive = cycle.snapLive
      BY <1>37 DEF ResolveUnknownIntent
    <2> QED BY <1>37, <2>1 DEF ResolveUnknownIntent
  <1> QED
    BY <1>1, <1>2, <1>3, <1>4, <1>5, <1>6, <1>7, <1>8, <1>9, <1>10, <1>11,
       <1>12,
    <1>13, <1>14, <1>15, <1>16, <1>17, <1>18, <1>19, <1>20, <1>21, <1>22, <1>23,
    <1>24, <1>25, <1>26, <1>27, <1>28, <1>29, <1>30, <1>31, <1>32, <1>33, <1>34, <1>35, <1>36, <1>37
    DEF Next, Worker, Environment, Protect, Observe, Recover, Tighten

\* The orders a record names outlive its state.
LEMMA ClosedProtectionsOrders ==
    ASSUME TypeOK, ReconcileClosedProtections
    PROVE  RecordedOrders(records') = RecordedOrders(records)
  <1>1. \A i \in DOMAIN records : records[i] \in Record
    BY DEF TypeOK
  <1>2. \A r \in Record : CancelRecord(r).order = r.order
    BY DEF CancelRecord, Record
  <1>3. /\ DOMAIN records' = DOMAIN records
        /\ \A i \in DOMAIN records : records'[i].order = records[i].order
    BY <1>1, <1>2 DEF ReconcileClosedProtections
  <1> QED BY <1>3 DEF RecordedOrders

LEMMA UnfiredStep ==
    ASSUME IInv, FlatSeen, AfterExit, Tasks, Unfired, [Next]_vars
    PROVE  Unfired'
  <1> USE DEF IInv, TypeOK, Cycle, Todo, Unfired, Continuation, Managed, FiredAndRecorded
  <1>1. ASSUME NEW o \in OrderIds, SubmitProtection(o) PROVE Unfired'
    BY <1>1 DEF SubmitProtection, Accept
  <1>2. CASE SubmitProtectionFails
    BY <1>2 DEF SubmitProtectionFails, Accept
  <1>3. CASE RereadQuantity
    BY <1>3 DEF RereadQuantity
  <1>4. CASE EscalateEmergency
    BY <1>4 DEF EscalateEmergency, Close
  <1>5. CASE Fenced
    BY <1>5 DEF Fenced, Accept
  <1>6. CASE PersistEntry
    BY <1>6, IdleTasks DEF PersistEntry, OpenStates
  <1>7. CASE PersistResubmit
    BY <1>7 DEF PersistResubmit, Tasks, OpenStates
  <1>8. CASE FetchPositions
    BY <1>8 DEF FetchPositions
  <1>9. CASE FetchOrders
    BY <1>9 DEF FetchOrders, AfterExit, OpenStates
  <1>10. CASE ReconcileClosedProtections
    <2>1. RecordedOrders(records') = RecordedOrders(records)
      BY <1>10, ClosedProtectionsOrders
    <2> QED BY <1>10, <2>1 DEF ReconcileClosedProtections
  <1>11. CASE RecoverExitGap
    BY <1>11 DEF RecoverExitGap
  <1>12. CASE NoExitGap
    BY <1>12 DEF NoExitGap
  <1>13. CASE ExitGapUnreadable
    BY <1>13 DEF ExitGapUnreadable
  <1>14. CASE ProjectExit
    BY <1>14 DEF ProjectExit
  <1>15. CASE NoProjectedExit
    BY <1>15 DEF NoProjectedExit, StopFilled, ProjectedOrders, FlatSeen,
       AfterSnapshot, OpenStates
  <1>16. CASE ProjectUnreadable
    BY <1>16 DEF ProjectUnreadable
  <1>17. CASE PersistExitIntent
    BY <1>17 DEF PersistExitIntent
  <1>18. CASE PersistExitAck
    BY <1>18 DEF PersistExitAck
  <1>19. CASE PersistExitFill
    BY <1>19 DEF PersistExitFill, Blocked, BeforeReconcile, OpenStates
  <1>20. CASE CancelSiblings
    BY <1>20 DEF CancelSiblings
  <1>21. CASE Reconcile
    BY <1>21, ReconcileTasks DEF Reconcile, At
  <1>22. CASE BeginResubmit
    BY <1>22 DEF BeginResubmit
  <1>23. CASE QuarantineLocalPosition
    BY <1>23 DEF QuarantineLocalPosition, Tasks, FlatSeen, AfterSnapshot,
       OpenStates
  <1>24. ASSUME NEW o \in OrderIds, CancelOrphan(o) PROVE Unfired'
    BY <1>24 DEF CancelOrphan
  <1>25. CASE RecoveryDone
    BY <1>25 DEF RecoveryDone
  <1>26. ASSUME NEW o \in OrderIds, ReplaceStop(o) PROVE Unfired'
    <2>1. UNCHANGED <<live, closer, pos, records>>
      BY <1>26 DEF ReplaceStop, Accept
    <2> QED BY <1>26, <2>1, ReplaceStopControl, IdleTasks
  <1>27. CASE CancelOldStop
    <2>1. UNCHANGED <<live, closer, pos, records>>
      BY <1>27 DEF CancelOldStop
    <2> QED BY <1>27, <2>1, CancelOldStopControl, IdleTasks
  <1>28. CASE UpdateStop
    BY <1>28, IdleTasks DEF UpdateStop, Tasks, OpenStates
  <1>29. CASE EndCycle
    BY <1>29, IdleTasks DEF EndCycle
  <1>30. ASSUME NEW o \in OrderIds, StopFires(o) PROVE Unfired'
    BY <1>30 DEF StopFires, Close, FlatSeen, AfterSnapshot, Tasks
  <1>31. CASE ManualClose
    BY <1>31 DEF ManualClose, Close
  <1>32. CASE FillsVisible
    BY <1>32 DEF FillsVisible
  <1>33. CASE Crash
    BY <1>33, IdleTasks DEF Crash
  <1>34. CASE UNCHANGED vars
    BY <1>34 DEF vars
  <1>35. CASE PersistExitRefused
    BY <1>35 DEF PersistExitRefused
  <1>36. CASE MarkIntentNotSubmitted
    <2>1. /\ cycle'.todo.quarantine = cycle.todo.quarantine
          /\ cycle'.todo.resubmit = cycle.todo.resubmit
          /\ cycle'.pc = "recover" /\ UNCHANGED <<pos, records, exchange>>
          /\ cycle'.plan = cycle.plan /\ cycle'.view = cycle.view
          /\ cycle'.snapLive = cycle.snapLive
      BY <1>36 DEF MarkIntentNotSubmitted
    <2> QED BY <1>36, <2>1 DEF MarkIntentNotSubmitted
  <1>37. CASE ResolveUnknownIntent
    <2>1. /\ cycle'.todo.quarantine = cycle.todo.quarantine
          /\ cycle'.todo.resubmit = cycle.todo.resubmit
          /\ cycle'.pc = "recover" /\ UNCHANGED <<pos, records, exchange>>
          /\ cycle'.plan = cycle.plan /\ cycle'.view = cycle.view
          /\ cycle'.snapLive = cycle.snapLive
      BY <1>37 DEF ResolveUnknownIntent
    <2> QED BY <1>37, <2>1 DEF ResolveUnknownIntent
  <1> QED
    BY <1>1, <1>2, <1>3, <1>4, <1>5, <1>6, <1>7, <1>8, <1>9, <1>10, <1>11,
       <1>12,
    <1>13, <1>14, <1>15, <1>16, <1>17, <1>18, <1>19, <1>20, <1>21, <1>22, <1>23,
    <1>24, <1>25, <1>26, <1>27, <1>28, <1>29, <1>30, <1>31, <1>32, <1>33, <1>34, <1>35, <1>36, <1>37
    DEF Next, Worker, Environment, Protect, Observe, Recover, Tighten

\* A position whose recorded stop fired is never quarantined, as long as fills
\* are readable when the position is seen flat: the lookup of the stops comes
\* between the snapshot and the reconciliation, and one that raised defers.
THEOREM FiredStopsAreNotQuarantined == Spec => []FiredStopNotQuarantined
  <1>1. CASE "lag" \in Faults
    <2>1. TypeOK => FiredStopNotQuarantined
      BY <1>1 DEF FiredStopNotQuarantined
    <2> QED BY <2>1, TypeCorrect, PTL
  <1>2. CASE "lag" \notin Faults
    <2>1. Init => QInv
      <3>1. Init => /\ cycle.pc = "submit" /\ cycle.plan.for = "entry"
                    /\ ~ cycle.todo.quarantine /\ ~ cycle.todo.resubmit
                    /\ ~ cycle.snapLive
        BY DEF Init, Idle, NothingToDo
      <3> QED
        BY <3>1 DEF Init, QInv, FlatSeen, AfterExit, Tasks, Unfired,
           AfterSnapshot, Submitting
    <2>2. IInv /\ QInv /\ [Next]_vars => QInv'
      BY <1>2, FlatSeenStep, AfterExitStep, TasksStep, UnfiredStep DEF QInv
    <2>3. QInv => FiredStopNotQuarantined
      BY DEF QInv, Unfired, FiredAndRecorded, FiredStopNotQuarantined
    <2> QED BY <2>1, <2>2, <2>3, InitInv, NextInv, PTL DEF Spec
  <1> QED BY <1>1, <1>2

=============================================================================
