----------------------- MODULE RuntimeControlProofs -----------------------
(***************************************************************************)
(* Proofs about RuntimeControl, for any number of requests, attempts and   *)
(* faults.                                                                 *)
(***************************************************************************)
EXTENDS RuntimeControl, TLAPS

-----------------------------------------------------------------------------
(* Types                                                                   *)

\* A claim has its reason, and the last attempt is only spent on the claim
\* that gives up and after it.
Purpose ==
    /\ worker.pc \in {"claim", "claiming"} =>
           worker.reason \in {"unsafe", "config", "exhausted"}
    /\ \/ worker.attempt < MaxAttempts
       \/ worker.pc = "exhausted"
       \/ worker.pc \in {"claim", "claiming"} /\ worker.reason = "exhausted"

TInv == TypeOK /\ Purpose

LEMMA Constants ==
    /\ NoRow \in Rows /\ NoRow.exists = FALSE
    /\ NoRequest \in Requests /\ NoRequest.open = FALSE
    /\ FreshWorker \in WorkerStates /\ FreshWorker.pc = "boot"
    /\ FreshWorker.attempt = 0 /\ FreshWorker.hold = FALSE
    /\ FreshKeeper \in KeeperStates /\ FreshKeeper.pc = "watch"
    /\ MaxAttempts \in Nat \ {0} /\ MaxFaults \in Nat /\ MaxRequests \in Nat
  <1>1. NoRow \in Rows /\ NoRow.exists = FALSE
    BY DEF NoRow, Rows, Reasons, Writers
  <1>2. NoRequest \in Requests /\ NoRequest.open = FALSE
    BY <1>1 DEF NoRequest, Requests
  <1>3. /\ FreshWorker \in WorkerStates /\ FreshWorker.pc = "boot"
        /\ FreshWorker.attempt = 0 /\ FreshWorker.hold = FALSE
    BY <1>1, ControlAssumption DEF FreshWorker, WorkerStates, Stages, States
  <1>4. FreshKeeper \in KeeperStates /\ FreshKeeper.pc = "watch"
    BY <1>1 DEF FreshKeeper, KeeperStates
  <1> QED BY <1>1, <1>2, <1>3, <1>4, ControlAssumption

LEMMA InitTInv ==
    ASSUME Init PROVE TInv
  <1>1. MigratedRow \in Rows
    BY DEF MigratedRow, Rows, Reasons, Writers
  <1> QED BY <1>1, Constants DEF Init, TInv, TypeOK, Purpose

\* The rows the worker, the supervisor and the operator write are rows.
LEMMA RowTypes ==
    ASSUME TypeOK
    PROVE  /\ \A reason \in Reasons, enabled \in BOOLEAN :
                  LivenessRow(enabled, reason) \in Rows
           /\ \A reason \in Reasons, enabled \in BOOLEAN, by \in Writers :
                  Ensured(InitialRow(enabled, reason, by)) \in Rows
           /\ Stored(request.seen, Requested) \in Rows
  <1>1. row \in Rows /\ request \in Requests /\ request.seen \in Rows
    BY DEF TypeOK, Requests
  <1>2. ASSUME NEW reason \in Reasons, NEW enabled \in BOOLEAN
        PROVE  LivenessRow(enabled, reason) \in Rows
    BY <1>1, <1>2 DEF LivenessRow, Rows, Writers
  <1>3. ASSUME NEW reason \in Reasons, NEW enabled \in BOOLEAN,
               NEW by \in Writers
        PROVE  Ensured(InitialRow(enabled, reason, by)) \in Rows
    <2>1. InitialRow(enabled, reason, by) \in Rows
      BY DEF InitialRow, Rows
    <2> QED BY <1>1, <2>1 DEF Ensured
  <1>4. Stored(request.seen, Requested) \in Rows
    <2>1. /\ row.enabled \in BOOLEAN /\ row.reason \in Reasons
          /\ row.by \in Writers /\ row.version \in Nat
          /\ request.enable \in BOOLEAN /\ request.seen.version \in Nat
      BY <1>1 DEF Rows, Requests
    <2>2. /\ Requested.enabled = request.enable
          /\ Requested.reason = "operator" /\ Requested.by = "api"
          /\ Requested.version = request.seen.version + 1
      BY DEF Requested
    <2>3. Column(request.seen.enabled, Requested.enabled, row.enabled)
              \in BOOLEAN
      BY <2>1, <2>2 DEF Column
    <2>4. Column(request.seen.reason, Requested.reason, row.reason) \in Reasons
      BY <2>1, <2>2 DEF Column, Reasons
    <2>5. Column(request.seen.by, Requested.by, row.by) \in Writers
      BY <2>1, <2>2 DEF Column, Writers
    <2>6. Column(request.seen.version, Requested.version, row.version) \in Nat
      BY <2>1, <2>2 DEF Column
    <2> QED BY <2>3, <2>4, <2>5, <2>6 DEF Stored, Rows
  <1> QED BY <1>2, <1>3, <1>4

\* The end of a claim.
LEMMA ClaimedType ==
    ASSUME TInv, NEW persisted \in BOOLEAN,
           worker.pc \in {"claim", "claiming"}, worker' = Claimed(persisted)
    PROVE  /\ worker' \in WorkerStates /\ Purpose'
           /\ worker'.hold = persisted
           /\ worker'.pc \in {"exhausted", "backoff", "cycle"}
           /\ worker'.seen = NoRow
  <1>1. worker \in WorkerStates /\ worker.reason \in
            {"unsafe", "config", "exhausted"}
    BY DEF TInv, TypeOK, Purpose
  <1>2. worker.attempt \in 0 .. MaxAttempts /\ MaxAttempts \in Nat
    BY <1>1, Constants DEF WorkerStates
  <1>3. CASE worker.reason = "exhausted"
    BY <1>1, <1>2, <1>3, Constants DEF Claimed, WorkerStates, Stages, States,
       HoldReasons, Purpose
  <1>4. CASE worker.reason = "unsafe"
    BY <1>1, <1>2, <1>4, Constants DEF Claimed, WorkerStates, Stages, States,
       HoldReasons, Purpose, TInv
  <1>5. CASE worker.reason = "config"
    BY <1>1, <1>2, <1>5, Constants DEF Claimed, WorkerStates, Stages, States,
       HoldReasons, Purpose, TInv
  <1> QED BY <1>1, <1>3, <1>4, <1>5

LEMMA NextTInv ==
    ASSUME TInv, [Next]_vars
    PROVE  TInv'
  <1>0. /\ TypeOK /\ Purpose
        /\ row \in Rows /\ request \in Requests /\ worker \in WorkerStates
        /\ keeper \in KeeperStates
        /\ requests \in 0 .. MaxRequests /\ faults \in 0 .. MaxFaults
        /\ worker.attempt \in 0 .. MaxAttempts /\ MaxAttempts \in Nat \ {0}
        /\ MaxFaults \in Nat /\ MaxRequests \in Nat
        /\ IsHold(row) \in BOOLEAN
        /\ 0 \in 0 .. MaxAttempts /\ 0 < MaxAttempts
    <2>2. 0 \in 0 .. MaxAttempts /\ 0 < MaxAttempts
      BY Constants
    <2>1. IsHold(row) \in BOOLEAN
      BY DEF IsHold
    <2> QED BY <2>1, <2>2, Constants DEF TInv, TypeOK, WorkerStates
  <1>1. faults' \in 0 .. MaxFaults
    <2>1. \A kind : Fault(kind) => faults' \in 0 .. MaxFaults
      BY <1>0 DEF Fault
    <2>2. faults' = faults => faults' \in 0 .. MaxFaults
      BY <1>0
    <2> QED
      BY <2>1, <2>2 DEF Next, Worker, Keeper, Operator, Bootstrap, Hydrate,
         CycleEnds, AfterCycle, ClearReads, ClearWrites, ClearRaises,
         TaskCrashes, Check, ClaimReads, ClaimWrites, ClaimRaises, Restart,
         Rehydrate, WorkerExits, Detect, KeeperClaimReads, KeeperClaimWrites,
         Recycle, OperatorReads, OperatorWrites, NoFault, vars
  <1>2. ASSUME row' \in Rows, request' \in Requests,
               requests' \in 0 .. MaxRequests, worker' \in WorkerStates,
               keeper' \in KeeperStates, Purpose'
        PROVE  TInv'
    BY <1>1, <1>2 DEF TInv, TypeOK
  <1>3. CASE Operator
    <2>1. UNCHANGED <<worker, keeper>>
      BY <1>3 DEF Operator, OperatorReads, OperatorWrites
    <2>2. row' \in Rows /\ requests' \in 0 .. MaxRequests
      BY <1>0, <1>3, RowTypes DEF Operator, OperatorReads, OperatorWrites
    <2>3. request' \in Requests
      <3>1. ASSUME NEW enable \in BOOLEAN, OperatorReads(enable)
            PROVE  request' \in Requests
        BY <1>0, <3>1 DEF OperatorReads, Requests
      <3> QED BY <1>3, <3>1, Constants DEF Operator, OperatorWrites
    <2> QED BY <1>0, <1>2, <2>1, <2>2, <2>3 DEF Purpose
  <1>4. CASE Keeper
    <2>1. UNCHANGED <<request, requests>>
      BY <1>4 DEF Keeper, Detect, KeeperClaimReads, KeeperClaimWrites, Recycle
    <2>2. row' \in Rows
      BY <1>0, <1>4, RowTypes DEF Keeper, Detect, KeeperClaimReads,
         KeeperClaimWrites, Recycle, Reasons, HoldReasons, Writers
    <2>3. keeper' \in KeeperStates
      <3>1. CASE Detect
        BY <1>0, <3>1 DEF Detect, KeeperStates
      <3>2. CASE KeeperClaimReads
        <4>1. \/ keeper' = [keeper EXCEPT !.pc = "recycle"]
              \/ keeper' = [keeper EXCEPT !.pc = "claiming", !.seen = row']
          BY <3>2 DEF KeeperClaimReads
        <4> QED BY <1>0, <2>2, <4>1 DEF KeeperStates
      <3>3. CASE KeeperClaimWrites
        BY <3>3, Constants DEF KeeperClaimWrites, KeeperStates
      <3> QED BY <1>4, <3>1, <3>2, <3>3, Constants DEF Keeper, Recycle
    <2>4. worker' \in WorkerStates /\ Purpose'
      <3>1. CASE Recycle
        BY <1>0, <3>1, Constants DEF Recycle, Purpose
      <3>2. CASE worker' = worker
        BY <1>0, <3>2 DEF Purpose
      <3> QED
        BY <1>4, <3>1, <3>2 DEF Keeper, Detect, KeeperClaimReads,
           KeeperClaimWrites
    <2> QED BY <1>0, <1>2, <2>1, <2>2, <2>3, <2>4
  <1>5. CASE Worker \/ CycleEnds("healthy") \/ WorkerExits
    <2>1. UNCHANGED <<request, requests, keeper>>
      BY <1>5 DEF Worker, Bootstrap, Hydrate, CycleEnds, AfterCycle,
         ClearReads, ClearWrites, ClearRaises, TaskCrashes, Check, ClaimReads,
         ClaimWrites, ClaimRaises, Restart, Rehydrate, WorkerExits
    <2>2. row' \in Rows
      <3>1. CASE ClaimReads \/ ClaimWrites
        <4>1. worker.reason \in Reasons
          BY <1>0, <3>1 DEF ClaimReads, ClaimWrites, At, Purpose, Reasons,
             HoldReasons
        <4> QED
          BY <1>0, <3>1, <4>1, RowTypes DEF ClaimReads, ClaimWrites, Writers
      <3>2. CASE Bootstrap \/ ClearWrites
        BY <1>0, <3>2, RowTypes DEF Bootstrap, ClearWrites, Reasons, Writers
      <3> QED
        BY <1>0, <1>5, <3>1, <3>2 DEF Worker, Hydrate, CycleEnds, AfterCycle,
           ClearReads, ClearRaises, TaskCrashes, Check, ClaimRaises, Restart,
           Rehydrate, WorkerExits
    <2>3. worker' \in WorkerStates /\ Purpose'
      <3>1. CASE Bootstrap
        BY <1>0, <3>1 DEF Bootstrap, At, Goto, WorkerStates, Stages, Purpose
      <3>2. CASE Hydrate
        BY <1>0, <3>2 DEF Hydrate, At, Goto, WorkerStates, Stages, States,
           Purpose, IsHold
      <3>3. ASSUME NEW r \in {"healthy", "completed", "failed"}, CycleEnds(r)
            PROVE  worker' \in WorkerStates /\ Purpose'
        BY <1>0, <3>3 DEF CycleEnds, At, WorkerStates, Stages, Purpose
      <3>4. CASE AfterCycle
        <4>1. \/ worker' = [worker EXCEPT !.hold = TRUE,
                             !.state = "MANAGEMENT", !.pc = "clear"]
              \/ worker' = [worker EXCEPT !.hold = TRUE,
                             !.state = "MANAGEMENT", !.pc = "cycle"]
              \/ worker' = [worker EXCEPT !.pc = "cycle",
                             !.state = "HEALTHY", !.attempt = 0]
              \/ worker' = [worker EXCEPT !.pc = "cycle"]
          BY <3>4 DEF AfterCycle, AfterCycleWith
        <4>2. worker.attempt < MaxAttempts
          BY <1>0, <3>4 DEF AfterCycle, At, Purpose
        <4>3. CASE worker' = [worker EXCEPT !.hold = TRUE,
                                 !.state = "MANAGEMENT", !.pc = "clear"]
          BY <1>0, <4>2, <4>3 DEF WorkerStates, Stages, States, Purpose
        <4>4. CASE worker' = [worker EXCEPT !.hold = TRUE,
                                 !.state = "MANAGEMENT", !.pc = "cycle"]
          BY <1>0, <4>2, <4>4 DEF WorkerStates, Stages, States, Purpose
        <4>5. CASE worker' = [worker EXCEPT !.pc = "cycle",
                                 !.state = "HEALTHY", !.attempt = 0]
          <5>1. /\ worker' \in WorkerStates
                /\ worker'.attempt = 0 /\ worker'.pc = "cycle"
            BY <1>0, <4>5 DEF WorkerStates, Stages, States
          <5> QED BY <1>0, <5>1 DEF Purpose
        <4>6. CASE worker' = [worker EXCEPT !.pc = "cycle"]
          BY <1>0, <4>2, <4>6 DEF WorkerStates, Stages, Purpose
        <4> QED BY <4>1, <4>3, <4>4, <4>5, <4>6
      <3>5. CASE ClearReads
        BY <1>0, <3>5, Constants DEF ClearReads, At, Disowned, WorkerStates,
           Stages, States, Purpose
      <3>6. CASE ClearWrites
        <4>1. \/ worker' = [worker EXCEPT !.pc = "cycle", !.hold = FALSE,
                             !.state = "RECOVERED", !.attempt = 0,
                             !.seen = NoRow]
              \/ worker' = [worker EXCEPT !.pc = "cycle", !.seen = NoRow]
              \/ worker' = [Disowned EXCEPT !.seen = NoRow]
          BY <3>6 DEF ClearWrites
        <4>2. worker.attempt < MaxAttempts
          BY <1>0, <3>6 DEF ClearWrites, At, Purpose
        <4>3. CASE worker' = [worker EXCEPT !.pc = "cycle", !.hold = FALSE,
                                 !.state = "RECOVERED", !.attempt = 0,
                                 !.seen = NoRow]
          <5>1. /\ worker' \in WorkerStates
                /\ worker'.attempt = 0 /\ worker'.pc = "cycle"
            BY <1>0, <4>3, Constants DEF WorkerStates, Stages, States
          <5> QED BY <1>0, <5>1 DEF Purpose
        <4>4. CASE worker' = [worker EXCEPT !.pc = "cycle", !.seen = NoRow]
          BY <1>0, <4>2, <4>4, Constants DEF WorkerStates, Stages, Purpose
        <4>5. CASE worker' = [Disowned EXCEPT !.seen = NoRow]
          BY <1>0, <4>2, <4>5, Constants DEF Disowned, WorkerStates, Stages,
             States, Purpose
        <4> QED BY <4>1, <4>3, <4>4, <4>5
      <3>7. CASE ClearRaises
        BY <1>0, <3>7, Constants DEF ClearRaises, At, Disowned, WorkerStates,
           Stages, States, Purpose
      <3>8. CASE TaskCrashes
        <4>1. worker.attempt < MaxAttempts
          BY <1>0, <3>8 DEF TaskCrashes, At, Purpose
        <4> DEFINE crashed == [worker EXCEPT !.attempt = @ + 1,
                                  !.failed = TRUE, !.state = "CRASH_DETECTED"]
        <4>2. crashed \in WorkerStates /\ crashed.attempt = worker.attempt + 1
          <5>1. worker.attempt + 1 \in 0 .. MaxAttempts
            BY <1>0, <4>1
          <5> QED BY <1>0, <5>1 DEF WorkerStates, States
        <4>3. \/ /\ crashed.attempt >= MaxAttempts
                 /\ worker' = [crashed EXCEPT !.pc = "claim",
                                              !.reason = "exhausted"]
              \/ /\ ~ (crashed.attempt >= MaxAttempts)
                 /\ worker' = [crashed EXCEPT !.pc = "check"]
          BY <3>8 DEF TaskCrashes
        <4> HIDE DEF crashed
        <4>4. CASE worker' = [crashed EXCEPT !.pc = "claim",
                                              !.reason = "exhausted"]
          BY <4>2, <4>4 DEF WorkerStates, Stages, HoldReasons, Purpose
        <4>5. CASE /\ ~ (crashed.attempt >= MaxAttempts)
                   /\ worker' = [crashed EXCEPT !.pc = "check"]
          BY <1>0, <4>2, <4>5 DEF WorkerStates, Stages, Purpose
        <4> QED BY <4>3, <4>4, <4>5
      <3>9. ASSUME NEW safe \in BOOLEAN, Check(safe)
            PROVE  worker' \in WorkerStates /\ Purpose'
        BY <1>0, <3>9 DEF Check, At, WorkerStates, Stages, States,
           HoldReasons, Purpose
      <3>10. CASE ClaimReads
        <4>1. CASE \E b \in BOOLEAN : worker' = Claimed(b)
          BY <3>10, <4>1, ClaimedType DEF ClaimReads, At
        <4>2. CASE worker' = [worker EXCEPT !.pc = "claiming", !.seen = row']
          BY <1>0, <2>2, <3>10, <4>2 DEF ClaimReads, At, WorkerStates, Stages,
             Purpose
        <4>3. CASE OperatorPaused(row')
          BY <3>10, <4>1, <4>3 DEF ClaimReads
        <4>4. CASE ~ OperatorPaused(row') /\ ~ row'.enabled
                   /\ row'.reason = worker.reason
          BY <3>10, <4>1, <4>4 DEF ClaimReads
        <4>5. CASE ~ OperatorPaused(row')
                   /\ ~ (~ row'.enabled /\ row'.reason = worker.reason)
          BY <3>10, <4>2, <4>5 DEF ClaimReads
        <4> QED BY <4>3, <4>4, <4>5
      <3>11. CASE ClaimWrites \/ ClaimRaises
        <4>1. Matches(worker.seen) \in BOOLEAN
          BY Zenon DEF Matches
        <4> QED BY <3>11, <4>1, ClaimedType DEF ClaimWrites, ClaimRaises, At
      <3>12. CASE Restart
        BY <1>0, <3>12 DEF Restart, At, WorkerStates, Stages, States, Purpose
      <3>13. ASSUME NEW ok \in BOOLEAN, Rehydrate(ok)
             PROVE  worker' \in WorkerStates /\ Purpose'
        BY <1>0, <3>13 DEF Rehydrate, At, WorkerStates, Stages, HoldReasons,
           Purpose
      <3>14. CASE WorkerExits
        BY <1>0, <3>14, Constants DEF WorkerExits, WorkerStates, Stages,
           Purpose
      <3> QED
        BY <1>5, <3>1, <3>2, <3>3, <3>4, <3>5, <3>6, <3>7, <3>8, <3>9, <3>10,
           <3>11, <3>12, <3>13, <3>14 DEF Worker
    <2> QED BY <1>0, <1>2, <2>1, <2>2, <2>3
  <1>6. CASE UNCHANGED vars
    BY <1>0, <1>2, <1>6 DEF vars, Purpose
  <1> QED BY <1>3, <1>4, <1>5, <1>6 DEF Next

\* The row and the memory of the worker, the supervisor and the request keep
\* their types; that a claim has one of the reasons its callers tell apart,
\* and that the attempts do not exceed their limit, is part of it.
THEOREM TypeCorrect == Spec => []TypeOK
  <1>1. TInv => TypeOK
    BY DEF TInv
  <1> QED BY <1>1, InitTInv, NextTInv, PTL DEF Spec

-----------------------------------------------------------------------------
(* The operator's pause                                                    *)

\* What a compare-and-set expects is never a row the operator paused.
Observed ==
    /\ worker.pc = "clearing" => IsHold(worker.seen)
    /\ worker.pc = "claiming" => worker.seen.enabled \/ IsHold(worker.seen)
    /\ keeper.pc = "claiming" => keeper.seen.enabled \/ IsHold(keeper.seen)

System == Worker \/ CycleEnds("healthy") \/ WorkerExits \/ Keeper

\* A row that is found as it was expected is not paused by the operator.
LEMMA MatchedRow ==
    ASSUME TypeOK, NEW seen \in Rows, seen.enabled \/ IsHold(seen),
           Matches(seen)
    PROVE  ~ OperatorPaused(row)
  <1>1. row.enabled = seen.enabled /\ row.reason = seen.reason
    BY DEF Matches
  <1>2. row.enabled \in BOOLEAN /\ seen.enabled \in BOOLEAN
    BY DEF TypeOK, Rows
  <1> QED BY <1>1, <1>2 DEF OperatorPaused, IsHold

\* The writes of the worker and the supervisor.
LEMMA SystemWrites ==
    ASSUME TInv, Observed, System, row' # row
    PROVE  /\ ~ OperatorPaused(row)
           /\ row'.by # "api" /\ row'.reason # "operator"
           /\ ~ row'.enabled \/ ~ IsHold(row')
           /\ \/ ~ row'.enabled
              \/ Bootstrap
              \/ ClearWrites /\ Matches(worker.seen)
  <1>0. /\ TypeOK /\ worker.seen \in Rows /\ keeper.seen \in Rows
        /\ (worker.pc \in {"claim", "claiming"} =>
                worker.reason \in {"unsafe", "config", "exhausted"})
    BY DEF TInv, TypeOK, Purpose, WorkerStates, KeeperStates
  <1>1. CASE Bootstrap
    <2>1. row' = InitialRow(TRUE, "standard", "bootstrap") /\ ~ row.exists
      BY <1>1 DEF Bootstrap, Ensured
    <2> QED BY <1>1, <2>1 DEF InitialRow, OperatorPaused, IsHold, HoldReasons
  <1>2. CASE ClearWrites
    <2>1. row' = LivenessRow(TRUE, "recovered") /\ Matches(worker.seen)
          /\ IsHold(worker.seen)
      BY <1>2 DEF ClearWrites, At, Observed
    <2>2. ~ OperatorPaused(row)
      BY <1>0, <2>1, MatchedRow
    <2> QED BY <1>2, <2>1, <2>2 DEF LivenessRow, IsHold, HoldReasons
  <1>3. CASE ClaimReads
    <2>1. row' = InitialRow(FALSE, worker.reason, "liveness") /\ ~ row.exists
      BY <1>3 DEF ClaimReads, Ensured
    <2>2. worker.reason # "operator"
      BY <1>0, <1>3 DEF ClaimReads, At
    <2> QED BY <2>1, <2>2 DEF InitialRow, OperatorPaused
  <1>4. CASE ClaimWrites
    <2>1. row' = LivenessRow(FALSE, worker.reason) /\ Matches(worker.seen)
          /\ (worker.seen.enabled \/ IsHold(worker.seen))
      BY <1>4 DEF ClaimWrites, At, Observed
    <2>2. worker.reason # "operator"
      BY <1>0, <1>4 DEF ClaimWrites, At
    <2>3. ~ OperatorPaused(row)
      BY <1>0, <2>1, MatchedRow
    <2> QED BY <2>1, <2>2, <2>3 DEF LivenessRow
  <1>5. CASE KeeperClaimReads
    <2>1. row' = InitialRow(FALSE, "supervisor", "liveness") /\ ~ row.exists
      BY <1>5 DEF KeeperClaimReads, Ensured
    <2> QED BY <2>1 DEF InitialRow, OperatorPaused
  <1>6. CASE KeeperClaimWrites
    <2>1. row' = LivenessRow(FALSE, "supervisor") /\ Matches(keeper.seen)
          /\ (keeper.seen.enabled \/ IsHold(keeper.seen))
      BY <1>6 DEF KeeperClaimWrites, Observed
    <2>2. ~ OperatorPaused(row)
      BY <1>0, <2>1, MatchedRow
    <2> QED BY <2>1, <2>2 DEF LivenessRow
  <1> QED
    BY <1>1, <1>2, <1>3, <1>4, <1>5, <1>6 DEF System, Worker, Keeper, Hydrate,
       CycleEnds, AfterCycle, ClearReads, ClearRaises, TaskCrashes, Check,
       ClaimRaises, Restart, Rehydrate, WorkerExits, Detect, Recycle

LEMMA NextObserved ==
    ASSUME TInv, Observed, [Next]_vars
    PROVE  Observed'
  <1>0. TypeOK /\ worker \in WorkerStates /\ keeper \in KeeperStates
        /\ row \in Rows /\ row' \in Rows
    BY NextTInv DEF TInv, TypeOK
  <1>1. CASE Keeper
    <2>1. CASE KeeperClaimReads
      <3>1. CASE keeper'.pc = "recycle" /\ worker' = worker
        BY <3>1 DEF Observed
      <3>2. CASE ~ OperatorPaused(row') /\ keeper'.seen = row' /\ row'.exists
                 /\ worker' = worker
        BY <1>0, <3>2 DEF Observed, OperatorPaused
      <3>3. row'.exists /\ worker' = worker
        BY <2>1 DEF KeeperClaimReads, Ensured, InitialRow
      <3> QED
        BY <1>0, <2>1, <3>1, <3>2, <3>3 DEF KeeperClaimReads, KeeperStates
    <2>2. CASE Detect \/ KeeperClaimWrites \/ Recycle
      <3>1. keeper'.pc # "claiming"
        <4>1. CASE Detect
          BY <1>0, <4>1 DEF Detect, KeeperStates
        <4>2. CASE KeeperClaimWrites
          BY <4>2 DEF KeeperClaimWrites
        <4>3. CASE Recycle
          BY <4>3, Constants DEF Recycle
        <4> QED BY <2>2, <4>1, <4>2, <4>3
      <3>2. worker' = worker \/ worker'.pc = "boot"
        BY <2>2, Constants DEF Detect, KeeperClaimWrites, Recycle
      <3> QED BY <3>1, <3>2 DEF Observed
    <2> QED BY <1>1, <2>1, <2>2 DEF Keeper
  <1>2. CASE Worker \/ CycleEnds("healthy") \/ WorkerExits
    <2>1. keeper' = keeper
      BY <1>2 DEF Worker, Bootstrap, Hydrate, CycleEnds, AfterCycle,
         ClearReads, ClearWrites, ClearRaises, TaskCrashes, Check, ClaimReads,
         ClaimWrites, ClaimRaises, Restart, Rehydrate, WorkerExits
    <2>2. CASE ClearReads
      <3>1. \/ worker'.pc = "cycle"
            \/ worker' = [worker EXCEPT !.pc = "clearing", !.seen = row]
               /\ IsHold(row)
        BY <1>0, <2>2 DEF ClearReads, Disowned, WorkerStates
      <3> QED BY <1>0, <2>1, <3>1 DEF Observed, IsHold, WorkerStates
    <2>3. CASE ClaimReads
      <3>1. row'.exists
        BY <2>3 DEF ClaimReads, Ensured, InitialRow
      <3>2. CASE \E b \in BOOLEAN : worker' = Claimed(b)
        BY <2>1, <2>3, <3>2, ClaimedType DEF ClaimReads, At, Observed
      <3>3. CASE ~ OperatorPaused(row')
                 /\ worker' = [worker EXCEPT !.pc = "claiming", !.seen = row']
        <4>1. row'.enabled \/ IsHold(row')
          BY <1>0, <3>1, <3>3 DEF OperatorPaused
        <4>2. worker'.pc = "claiming" /\ worker'.seen = row'
          BY <1>0, <3>3 DEF WorkerStates
        <4> QED BY <2>1, <4>1, <4>2 DEF Observed, IsHold
      <3> QED BY <2>3, <3>2, <3>3 DEF ClaimReads
    <2>4. CASE ClaimWrites \/ ClaimRaises
      <3>1. Matches(worker.seen) \in BOOLEAN
        BY Zenon DEF Matches
      <3>2. \E b \in BOOLEAN : worker' = Claimed(b)
        BY <2>4, <3>1 DEF ClaimWrites, ClaimRaises
      <3>3. worker.pc \in {"claim", "claiming"}
        BY <2>4 DEF ClaimWrites, ClaimRaises, At
      <3> QED BY <2>1, <3>2, <3>3, ClaimedType DEF Observed
    <2>5. CASE /\ ~ ClearReads /\ ~ ClaimReads /\ ~ ClaimWrites
               /\ ~ ClaimRaises
      <3>1. worker'.pc \notin {"clearing", "claiming"}
        BY <1>0, <1>2, <2>5, Constants DEF Worker, Bootstrap, Hydrate, Goto,
           CycleEnds, AfterCycle, AfterCycleWith, ClearWrites, ClearRaises,
           TaskCrashes, Check, Restart, Rehydrate, WorkerExits, Disowned, WorkerStates
      <3> QED BY <2>1, <3>1 DEF Observed
    <2> QED BY <2>2, <2>3, <2>4, <2>5
  <1>3. CASE UNCHANGED <<worker, keeper>>
    BY <1>3 DEF Observed
  <1> QED
    BY <1>1, <1>2, <1>3 DEF Next, Operator, OperatorReads, OperatorWrites,
       vars

\* Nothing the worker or the supervisor observed earlier lets them change a
\* row the operator paused.
THEOREM PausesAreTheOperators == Spec => PauseIsTheOperators
  <1>1. Init => Observed
    BY Constants DEF Init, Observed
  <1>2. ASSUME TInv, Observed, [Next]_vars, OperatorPaused(row), row' # row
        PROVE  request.open /\ ~ request'.open
    <2>1. OperatorWrites
      BY <1>2, SystemWrites DEF Next, System, Operator, OperatorReads, vars
    <2> QED BY <2>1, Constants DEF OperatorWrites
  <1>3. TInv /\ Observed /\ [Next]_vars =>
            [OperatorPaused(row) /\ row' # row
                => request.open /\ ~ request'.open]_vars
    BY <1>2
  <1>4. TInv /\ Observed /\ [Next]_vars => TInv' /\ Observed'
    BY NextTInv, NextObserved
  <1> QED
    BY <1>1, <1>3, <1>4, InitTInv, PTL DEF Spec, PauseIsTheOperators

-----------------------------------------------------------------------------
(* The hold                                                                *)

\* The operator's name and his reason are stored together or not at all.
Coupled(r) ==
    /\ r.by = "api" <=> r.reason = "operator"
    /\ r.by = "api" => r.exists

CoupledRows == Coupled(row) /\ (request.open => Coupled(request.seen))

\* A pause the operator's next request has read is still there.
PauseRead == request.open /\ OperatorPaused(request.seen) => row = request.seen

HoldDisables == IsHold(row) => ~ row.enabled

BootHoldsNothing == worker.pc = "boot" => ~ worker.hold

HInv == /\ CoupledRows /\ PauseRead /\ HoldDisables /\ BootHoldsNothing
        /\ HoldIsDurable

LEMMA InitHInv ==
    ASSUME Init PROVE HInv
  BY Constants
     DEF Init, HInv, CoupledRows, Coupled, PauseRead, HoldDisables,
         BootHoldsNothing, HoldIsDurable, IsHold, HoldReasons, NoRow,
         MigratedRow, OperatorPaused

\* The operator's write against whatever the row has become since he read it.
LEMMA OperatorStep ==
    ASSUME TInv, HInv, OperatorWrites
    PROVE  HInv'
  <1>0. /\ row \in Rows /\ request.seen \in Rows /\ request.open
        /\ request.enable \in BOOLEAN
        /\ row.enabled \in BOOLEAN /\ request.seen.enabled \in BOOLEAN
    BY DEF TInv, TypeOK, Requests, Rows, OperatorWrites
  <1>1. /\ request' = NoRequest /\ ~ request'.open /\ worker' = worker
    BY Constants DEF OperatorWrites
  <1>2. CASE row' = row
    BY <1>1, <1>2 DEF HInv, CoupledRows, Coupled, PauseRead, HoldDisables,
       BootHoldsNothing, HoldIsDurable, IsHold
  <1>3. CASE row' = Stored(request.seen, Requested)
    <2>1. /\ row'.by = IF request.seen.by = "api" THEN row.by ELSE "api"
          /\ row'.reason = IF request.seen.reason = "operator"
                           THEN row.reason ELSE "operator"
          /\ row'.enabled = IF request.enable = request.seen.enabled
                            THEN row.enabled ELSE request.enable
          /\ row'.exists
      BY <1>3 DEF Stored, Column, Requested
    <2>2. request.seen.by = "api" <=> request.seen.reason = "operator"
      BY <1>0 DEF HInv, CoupledRows, Coupled
    <2>3. CASE request.seen.by # "api"
      <3>1. row'.by = "api" /\ row'.reason = "operator"
        BY <2>1, <2>2, <2>3
      <3> QED
        BY <1>1, <2>1, <3>1 DEF HInv, CoupledRows, Coupled, PauseRead, HoldDisables,
           BootHoldsNothing, HoldIsDurable, IsHold, HoldReasons
    <2>4. CASE request.seen.by = "api"
      <3>1. row'.by = row.by /\ row'.reason = row.reason
        BY <2>1, <2>2, <2>4
      <3>2. CASE ~ row'.enabled \/ row'.enabled = row.enabled
        BY <1>0, <1>1, <2>1, <3>1, <3>2 DEF HInv, CoupledRows, Coupled, PauseRead,
           HoldDisables, BootHoldsNothing, HoldIsDurable, IsHold
      <3>3. CASE row'.enabled /\ row'.enabled # row.enabled
        <4>1. request.enable /\ ~ request.seen.enabled
          BY <1>0, <2>1, <3>3
        <4>2. CASE request.seen.exists
          <5>1. row = request.seen
            BY <1>0, <2>2, <2>4, <4>1, <4>2 DEF HInv, PauseRead,
               OperatorPaused, IsHold, HoldReasons
          <5> QED
            BY <1>1, <2>1, <2>2, <2>4, <3>1, <5>1 DEF HInv, CoupledRows, Coupled,
               PauseRead, HoldDisables, BootHoldsNothing, HoldIsDurable,
               IsHold, HoldReasons
        <4>3. CASE ~ request.seen.exists
          BY <1>0, <2>4, <4>3 DEF HInv, CoupledRows, Coupled
        <4> QED BY <4>2, <4>3
      <3> QED BY <3>2, <3>3
    <2> QED BY <2>3, <2>4
  <1> QED BY <1>2, <1>3 DEF OperatorWrites

LEMMA NextHInv ==
    ASSUME TInv, Observed, HInv, [Next]_vars
    PROVE  HInv'
  <1>0. /\ TypeOK /\ worker \in WorkerStates /\ row \in Rows
        /\ worker.hold \in BOOLEAN /\ row.enabled \in BOOLEAN
        /\ request.open \in BOOLEAN
    BY DEF TInv, TypeOK, WorkerStates, Rows, Requests
  <1>1. CASE \E enable \in BOOLEAN : OperatorReads(enable)
    <2>1. /\ row' = row /\ worker' = worker
          /\ request'.seen = row /\ request'.open
      BY <1>1 DEF OperatorReads
    <2> QED
      BY <2>1 DEF HInv, CoupledRows, Coupled, PauseRead, HoldDisables,
         BootHoldsNothing, HoldIsDurable, IsHold
  <1>2. CASE System
    <2>1. request' = request
      BY <1>2 DEF System, Worker, Keeper, Bootstrap, Hydrate, CycleEnds,
         AfterCycle, ClearReads, ClearWrites, ClearRaises, TaskCrashes, Check,
         ClaimReads, ClaimWrites, ClaimRaises, Restart, Rehydrate,
         WorkerExits, Detect, KeeperClaimReads, KeeperClaimWrites, Recycle
    <2>2. CoupledRows'
      BY <1>2, <2>1, SystemWrites DEF HInv, CoupledRows, Coupled
    <2>3. PauseRead'
      BY <1>2, <2>1, SystemWrites DEF HInv, PauseRead, OperatorPaused, IsHold
    <2>4. HoldDisables'
      BY <1>2, SystemWrites DEF HInv, HoldDisables, IsHold
    <2>5. /\ BootHoldsNothing'
          /\ worker'.hold => worker.hold \/ IsHold(row') \/ ~ row'.enabled
          /\ Bootstrap \/ (ClearWrites /\ Matches(worker.seen)) => ~ worker'.hold
      <3>1. CASE ClaimReads
        <4>1. CASE worker' = Claimed(FALSE)
          BY <3>1, <4>1, ClaimedType DEF ClaimReads, At, BootHoldsNothing,
             Bootstrap, ClearWrites
        <4>2. CASE worker' = Claimed(TRUE) /\ ~ row'.enabled
          BY <3>1, <4>2, ClaimedType DEF ClaimReads, At, BootHoldsNothing,
             Bootstrap, ClearWrites
        <4>3. CASE worker' = [worker EXCEPT !.pc = "claiming", !.seen = row']
          BY <1>0, <3>1, <4>3 DEF ClaimReads, At, WorkerStates,
             BootHoldsNothing, Bootstrap, ClearWrites
        <4> QED BY <3>1, <4>1, <4>2, <4>3 DEF ClaimReads
      <3>2. CASE ClaimWrites
        <4>1. /\ Matches(worker.seen) \in BOOLEAN
              /\ Matches(worker.seen) => ~ row'.enabled
          <5>1. Matches(worker.seen) \in BOOLEAN
            BY Zenon DEF Matches
          <5> QED BY <3>2, <5>1 DEF ClaimWrites, LivenessRow
        <4> QED
          BY <3>2, <4>1, ClaimedType DEF ClaimWrites, At, BootHoldsNothing,
             Bootstrap, ClearWrites
      <3>3. CASE ClaimRaises
        BY <3>3, ClaimedType DEF ClaimRaises, At, BootHoldsNothing, Bootstrap,
           ClearWrites
      <3>4. CASE Bootstrap
        BY <1>0, <3>4 DEF Bootstrap, At, Goto, WorkerStates, HInv,
           BootHoldsNothing
      <3>5. CASE ClearWrites
        <4>1. CASE Matches(worker.seen)
          BY <1>0, <3>5, <4>1 DEF ClearWrites, WorkerStates, BootHoldsNothing
        <4>2. CASE ~ Matches(worker.seen)
          BY <1>0, <3>5, <4>2 DEF ClearWrites, At, Disowned, WorkerStates,
             BootHoldsNothing, Bootstrap
        <4> QED BY <4>1, <4>2
      <3>6. CASE ClearReads \/ ClearRaises
        BY <1>0, <3>6 DEF ClearReads, ClearRaises, At, Disowned, WorkerStates,
           BootHoldsNothing, Bootstrap, ClearWrites
      <3>7. CASE Hydrate
        BY <1>0, <3>7 DEF Hydrate, At, Goto, WorkerStates, BootHoldsNothing,
           IsHold, Bootstrap, ClearWrites
      <3>8. CASE AfterCycle
        <4>1. \/ HoldKnown \/ worker'.hold = worker.hold
          BY <1>0, <3>8 DEF AfterCycle, AfterCycleWith, WorkerStates
        <4>2. worker'.pc \in {"clear", "cycle"} /\ row' = row
          BY <1>0, <3>8 DEF AfterCycle, AfterCycleWith, WorkerStates
        <4> QED
          BY <1>0, <3>8, <4>1, <4>2 DEF AfterCycle, At, HoldKnown, IsHold,
             BootHoldsNothing, Bootstrap, ClearWrites
      <3>9. CASE CycleEnds("healthy") \/ CycleEnds("completed")
                 \/ CycleEnds("failed")
        BY <1>0, <3>9 DEF CycleEnds, At, WorkerStates, BootHoldsNothing,
           Bootstrap, ClearWrites
      <3>10. CASE TaskCrashes
        BY <1>0, <3>10 DEF TaskCrashes, At, WorkerStates, BootHoldsNothing,
           Bootstrap, ClearWrites
      <3>11. CASE Restart \/ \E ok \in BOOLEAN : Check(ok) \/ Rehydrate(ok)
        BY <1>0, <3>11 DEF Restart, Check, Rehydrate, At, WorkerStates,
           BootHoldsNothing, Bootstrap, ClearWrites
      <3>12. CASE WorkerExits \/ Recycle
        <4>1. ~ worker'.hold
          BY <3>12, Constants DEF WorkerExits, Recycle, WorkerStates
        <4> QED BY <4>1 DEF BootHoldsNothing
      <3>13. CASE Detect \/ KeeperClaimReads \/ KeeperClaimWrites
        <4>1. worker' = worker
          BY <3>13 DEF Detect, KeeperClaimReads, KeeperClaimWrites
        <4>2. ~ Bootstrap /\ ~ ClearWrites
          BY <1>0, <4>1 DEF Bootstrap, ClearWrites, At, Goto, WorkerStates,
             Disowned
        <4> QED BY <4>1, <4>2 DEF HInv, BootHoldsNothing
      <3> QED
        BY <1>2, <3>1, <3>2, <3>3, <3>4, <3>5, <3>6, <3>7, <3>8, <3>9, <3>10,
           <3>11, <3>12, <3>13 DEF System, Worker, Keeper
    <2>6. HoldIsDurable'
      <3>1. ASSUME worker'.hold PROVE ~ row'.enabled \/ row'.by = "api"
        <4>1. CASE row' = row
          BY <2>4, <2>5, <3>1, <4>1 DEF HInv, HoldIsDurable, HoldDisables
        <4>2. CASE row' # row
          <5>1. \/ ~ row'.enabled
                \/ Bootstrap \/ (ClearWrites /\ Matches(worker.seen))
            BY <1>2, <4>2, SystemWrites
          <5>2. ~ (Bootstrap \/ (ClearWrites /\ Matches(worker.seen)))
            BY <2>5, <3>1
          <5> QED BY <5>1, <5>2
        <4> QED BY <4>1, <4>2
      <3> QED BY <3>1 DEF HoldIsDurable
    <2> QED BY <2>2, <2>3, <2>4, <2>5, <2>6 DEF HInv
  <1>3. CASE UNCHANGED vars
    BY <1>3 DEF vars, HInv, CoupledRows, Coupled, PauseRead, HoldDisables,
       BootHoldsNothing, HoldIsDurable, IsHold
  <1> QED
    BY <1>1, <1>2, <1>3, OperatorStep DEF Next, System, Operator

\* A hold the worker shows is in the row, whatever request of the operator
\* was under way when it was taken.
THEOREM HoldsAreDurable == Spec => []HoldIsDurable
  <1>1. Init => Observed
    BY Constants DEF Init, Observed
  <1>2. TInv /\ Observed /\ HInv /\ [Next]_vars => TInv' /\ Observed' /\ HInv'
    BY NextTInv, NextObserved, NextHInv
  <1>3. HInv => HoldIsDurable
    BY DEF HInv
  <1> QED BY <1>1, <1>2, <1>3, InitTInv, InitHInv, PTL DEF Spec

-----------------------------------------------------------------------------
(* What enables entries again                                              *)

\* A hold is about to be cleared after a healthy cycle only.
Earned == worker.pc \in {"clear", "clearing"} => worker.result = "healthy"

LEMMA NextEarned ==
    ASSUME TInv, Earned, [Next]_vars
    PROVE  Earned'
  <1>0. worker \in WorkerStates
    BY DEF TInv, TypeOK
  <1>1. CASE AfterCycle
    <2>1. worker'.result = worker.result
      BY <1>0, <1>1 DEF AfterCycle, AfterCycleWith, WorkerStates
    <2>2. worker'.pc = "clear" => ClearsHold
      BY <1>0, <1>1 DEF AfterCycle, AfterCycleWith, WorkerStates
    <2>3. worker'.pc \in {"clear", "cycle"}
      BY <1>0, <1>1 DEF AfterCycle, AfterCycleWith, WorkerStates
    <2> QED BY <2>1, <2>2, <2>3 DEF Earned, ClearsHold
  <1>2. CASE ClearReads
    BY <1>0, <1>2 DEF ClearReads, At, Disowned, WorkerStates, Earned
  <1>3. CASE ClaimReads
    <2>1. CASE worker' = [worker EXCEPT !.pc = "claiming", !.seen = row']
      BY <1>0, <2>1 DEF WorkerStates, Earned
    <2>2. CASE \E b \in BOOLEAN : worker' = Claimed(b)
      BY <1>3, <2>2, ClaimedType DEF ClaimReads, At, Earned
    <2> QED BY <1>3, <2>1, <2>2 DEF ClaimReads
  <1>4. CASE ClaimWrites \/ ClaimRaises
    <2>1. Matches(worker.seen) \in BOOLEAN
      BY Zenon DEF Matches
    <2>2. \E b \in BOOLEAN : worker' = Claimed(b)
      BY <1>4, <2>1 DEF ClaimWrites, ClaimRaises
    <2>3. worker.pc \in {"claim", "claiming"}
      BY <1>4 DEF ClaimWrites, ClaimRaises, At
    <2> QED BY <2>2, <2>3, ClaimedType DEF Earned
  <1>5. CASE UNCHANGED worker
    BY <1>5 DEF Earned
  <1>6. CASE /\ Next
             /\ ~ AfterCycle /\ ~ ClearReads /\ ~ ClaimReads /\ ~ ClaimWrites
             /\ ~ ClaimRaises /\ ~ UNCHANGED worker
    <2>1. worker'.pc \notin {"clear", "clearing"}
      BY <1>0, <1>6, Constants
         DEF Next, Worker, Keeper, Operator, Bootstrap, Hydrate, Goto,
             CycleEnds, ClearWrites, ClearRaises, TaskCrashes, Check, Restart,
             Rehydrate, WorkerExits, Detect, KeeperClaimReads,
             KeeperClaimWrites, Recycle, OperatorReads, OperatorWrites,
             Disowned, WorkerStates
    <2> QED BY <2>1 DEF Earned
  <1> QED BY <1>1, <1>2, <1>3, <1>4, <1>5, <1>6 DEF vars

\* Nothing enables new entries but the operator's request to, the first start
\* of a worker, and the end of a hold after a healthy cycle, however the
\* requests, the worker, the supervisor and their restarts interleave.
THEOREM EntriesEnabledOnEvidence == Spec => EnabledOnEvidence
  <1>1. Init => Observed /\ Earned
    BY Constants DEF Init, Observed, Earned
  <1>2. ASSUME TInv, Observed, Earned, [Next]_vars,
               ~ row.enabled, row'.enabled
        PROVE  \/ request.open /\ request.enable /\ ~ request'.open
               \/ worker.result = "healthy" /\ IsHold(row)
               \/ worker.pc = "boot" /\ ~ row.exists
    <2>0. /\ row.enabled \in BOOLEAN /\ request.enable \in BOOLEAN
          /\ request.seen.enabled \in BOOLEAN
      BY <1>2 DEF TInv, TypeOK, Rows, Requests
    <2>1. CASE OperatorWrites
      <3>1. row' = Stored(request.seen, Requested)
        BY <1>2, <2>1 DEF OperatorWrites
      <3>2. request.enable
        BY <1>2, <2>0, <3>1 DEF Stored, Column, Requested
      <3> QED BY <2>1, <3>2, Constants DEF OperatorWrites
    <2>2. CASE System
      <3>1. CASE Bootstrap
        BY <1>2, <3>1 DEF Bootstrap, Ensured, At
      <3>2. CASE ClearWrites /\ Matches(worker.seen)
        BY <1>2, <3>2 DEF ClearWrites, At, Matches, Observed, Earned, IsHold
      <3> QED BY <1>2, <2>2, <3>1, <3>2, SystemWrites
    <2> QED
      BY <1>2, <2>1, <2>2 DEF Next, System, Operator, OperatorReads, vars
  <1>3. TInv /\ Observed /\ Earned /\ [Next]_vars =>
            [~ row.enabled /\ row'.enabled
                => \/ request.open /\ request.enable /\ ~ request'.open
                   \/ worker.result = "healthy" /\ IsHold(row)
                   \/ worker.pc = "boot" /\ ~ row.exists]_vars
    BY <1>2
  <1>4. TInv /\ Observed /\ Earned /\ [Next]_vars =>
            TInv' /\ Observed' /\ Earned'
    BY NextTInv, NextObserved, NextEarned
  <1> QED
    BY <1>1, <1>3, <1>4, InitTInv, PTL DEF Spec, EnabledOnEvidence

-----------------------------------------------------------------------------
(* When a pause takes effect                                               *)

\* A request to disable entries (disable_entry) pauses them, and not by a hold
\* a healthy cycle will clear, when the row is still the one it read, or when
\* that one was enabled and not by the operator, whatever it has become since.
\* PauseTakesEffect fails without one of the two.
UnracedPauseTakesEffect ==
    [][request.open /\ ~ request.enable /\ row' # row /\ ~ request'.open
          /\ (\/ row = request.seen
              \/ request.seen.enabled /\ request.seen.reason # "operator")
          => OperatorPaused(row')]_vars

\* The requests that the stored columns cannot defeat.
THEOREM UnracedPausesTakeEffect == Spec => UnracedPauseTakesEffect
  <1>1. ASSUME TInv, [Next]_vars, request.open, ~ request.enable, row' # row,
               ~ request'.open,
               \/ row = request.seen
               \/ request.seen.enabled /\ request.seen.reason # "operator"
        PROVE  OperatorPaused(row')
    <2>1. OperatorWrites
      BY <1>1 DEF Next, Worker, Keeper, Operator, Bootstrap, Hydrate,
         CycleEnds, AfterCycle, ClearReads, ClearWrites, ClearRaises,
         TaskCrashes, Check, ClaimReads, ClaimWrites, ClaimRaises, Restart,
         Rehydrate, WorkerExits, Detect, KeeperClaimReads, KeeperClaimWrites,
         Recycle, OperatorReads, vars
    <2>2. row' = Stored(request.seen, Requested)
      BY <1>1, <2>1 DEF OperatorWrites
    <2>3. /\ row.enabled \in BOOLEAN /\ request.seen.enabled \in BOOLEAN
          /\ request.enable \in BOOLEAN
      BY <1>1 DEF TInv, TypeOK, Rows, Requests
    <2>4. row'.exists /\ ~ row'.enabled /\ row'.reason = "operator"
      BY <1>1, <2>2, <2>3 DEF Stored, Column, Requested
    <2> QED BY <2>4 DEF OperatorPaused, IsHold, HoldReasons
  <1>2. TInv /\ [Next]_vars =>
            [request.open /\ ~ request.enable /\ row' # row /\ ~ request'.open
                /\ (\/ row = request.seen
                    \/ request.seen.enabled /\ request.seen.reason # "operator")
                => OperatorPaused(row')]_vars
    BY <1>1
  <1> QED
    BY <1>2, InitTInv, NextTInv, PTL DEF Spec, UnracedPauseTakesEffect
=============================================================================
