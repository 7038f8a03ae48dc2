-------------------------- MODULE RuntimeControl --------------------------
(***************************************************************************)
(* The durable switch for new entries (the row "global" of                 *)
(* v2_runtime_controls) and the three parties that write it.               *)
(*                                                                         *)
(*   apps/api/routers/automated_trading.py   disable_entry, enable_entry   *)
(*   services/execution/scheduler.py         the worker: recovery of its   *)
(*                                           V2 task, holds and their end  *)
(*   scripts/run-local-paper-scheduler.py    run_supervisor: recycles the  *)
(*                                           worker process                *)
(*   infrastructure/repository.py            set_, ensure_, get_ and       *)
(*                                           compare_and_set_runtime_control*)
(*                                                                         *)
(* A step is one statement on the row, or one decision of the worker       *)
(* between two of them.  The operator's request reads the row and writes   *)
(* it later; the unit of work of the ORM then stores the columns that      *)
(* differ from what was read, without a predicate on the version.          *)
(***************************************************************************)
EXTENDS Integers

CONSTANTS
    MaxRequests,   \* bound on the operator's requests
    MaxAttempts,   \* MAX_INPROCESS_RECOVERY_ATTEMPTS
    Faults,        \* the kinds of fault that may happen
    MaxFaults      \* how many of them may happen

FaultKinds == {"task",      \* the V2 task ends with an exception
               "failure",   \* a cycle reports an error
               "stall",     \* a cycle outlives the watchdog
               "exit",      \* the worker process exits
               "database"}  \* a session on the control row raises

ASSUME ControlAssumption ==
    /\ MaxRequests \in Nat
    /\ MaxAttempts \in Nat \ {0}
    /\ Faults \subseteq FaultKinds
    /\ MaxFaults \in Nat

\* Reasons that start with LIVENESS_RECOVERY_HOLD_PREFIX, by their origin.
HoldReasons == {"unsafe", "config", "exhausted", "supervisor"}
Reasons == HoldReasons \cup {"none", "default", "standard", "recovered",
                              "operator"}
Writers == {"nobody", "migration", "bootstrap", "liveness", "api"}

Rows == [exists : BOOLEAN, enabled : BOOLEAN, reason : Reasons,
         by : Writers, version : Nat]
NoRow == [exists |-> FALSE, enabled |-> FALSE, reason |-> "none",
          by |-> "nobody", version |-> 0]

\* The row migration 0019 inserts: disabled, for a reason that is no hold.
MigratedRow == [exists |-> TRUE, enabled |-> FALSE, reason |-> "default",
                by |-> "migration", version |-> 0]

VARIABLES
    row,       \* the control row
    request,   \* the operator's request: what it read and what it wants
    requests,  \* how many requests were made
    worker,    \* the worker process: its V2 task and its recovery status
    keeper,    \* the supervisor process
    faults     \* faults so far

vars == <<row, request, requests, worker, keeper, faults>>

Requests == [open : BOOLEAN, enable : BOOLEAN, seen : Rows]
NoRequest == [open |-> FALSE, enable |-> FALSE, seen |-> NoRow]

Stages == {"down", "boot", "hydrate", "cycle", "after", "clear", "clearing",
           "check", "claim", "claiming", "backoff", "rehydrate", "exhausted"}

\* RECOVERY_...: the states the callers of _set_recovery_hold leave behind.
States == {"HEALTHY", "CRASH_DETECTED", "ENTRY_HOLD", "MANAGEMENT",
           "RESTARTING", "VERIFYING", "RECOVERED", "EXHAUSTED"}

\* state, hold and attempt: status.recovery; failed: the published task shows
\* an unrecovered failure; seen: the row read by the session that is open.
WorkerStates == [pc : Stages, state : States, hold : BOOLEAN,
                 attempt : 0 .. MaxAttempts,
                 result : {"none", "healthy", "completed", "failed"},
                 failed : BOOLEAN, reason : HoldReasons \cup {"none"},
                 seen : Rows]
FreshWorker == [pc |-> "boot", state |-> "HEALTHY", hold |-> FALSE,
                attempt |-> 0, result |-> "none", failed |-> FALSE,
                reason |-> "none", seen |-> NoRow]

KeeperStates == [pc : {"watch", "claim", "claiming", "recycle"}, seen : Rows]
FreshKeeper == [pc |-> "watch", seen |-> NoRow]

IsHold(r) == r.reason \in HoldReasons
OperatorPaused(r) == r.exists /\ ~ r.enabled /\ ~ IsHold(r)

Fault(kind) == kind \in Faults /\ faults < MaxFaults /\ faults' = faults + 1
NoFault == UNCHANGED faults

\* A database that was migrated, or one whose tables were created without.
Init ==
    /\ row \in {NoRow, MigratedRow}
    /\ request = NoRequest
    /\ requests = 0
    /\ worker = FreshWorker
    /\ keeper = FreshKeeper
    /\ faults = 0

-----------------------------------------------------------------------------
(* The statements on the row                                               *)

\* Mutant of Matches: the update compares the version only.
MatchesVersionOnly(seen) == row.version = seen.version

\* The predicate of compare_and_set_runtime_control.
Matches(seen) ==
    /\ row.version = seen.version
    /\ row.enabled = seen.enabled
    /\ row.reason = seen.reason

\* Mutant of LivenessRow: the reason is stored without its prefix.
UnprefixedRow(enabled, reason) ==
    [exists |-> row.exists, enabled |-> enabled, reason |-> "unprefixed",
     by |-> "liveness", version |-> row.version + 1]

\* The values of the update.
LivenessRow(enabled, reason) ==
    [exists |-> row.exists, enabled |-> enabled, reason |-> reason,
     by |-> "liveness", version |-> row.version + 1]

\* ensure_runtime_control: the row, or the new one if there was none.
Ensured(new) == IF row.exists THEN row ELSE new
InitialRow(enabled, reason, by) ==
    [exists |-> TRUE, enabled |-> enabled, reason |-> reason, by |-> by,
     version |-> 0]

\* What the unit of work stores: the columns that differ from the ones read.
Column(seen, new, stored) == IF new = seen THEN stored ELSE new
Stored(seen, new) ==
    [exists  |-> TRUE,
     enabled |-> Column(seen.enabled, new.enabled, row.enabled),
     reason  |-> Column(seen.reason, new.reason, row.reason),
     by      |-> Column(seen.by, new.by, row.by),
     version |-> Column(seen.version, new.version, row.version)]

-----------------------------------------------------------------------------
(* The operator: disable_entry and enable_entry                            *)

OperatorReads(enable) ==
    /\ ~ request.open
    /\ requests < MaxRequests
    /\ request' = [open |-> TRUE, enable |-> enable, seen |-> row]
    /\ requests' = requests + 1
    /\ UNCHANGED <<row, worker, keeper, faults>>

Requested ==
    [exists |-> TRUE, enabled |-> request.enable, reason |-> "operator",
     by |-> "api", version |-> request.seen.version + 1]

\* The insert of a row somebody else inserted fails.
OperatorWrites ==
    /\ request.open
    /\ row' = IF row.exists /\ ~ request.seen.exists THEN row
              ELSE Stored(request.seen, Requested)
    /\ request' = NoRequest
    /\ UNCHANGED <<requests, worker, keeper, faults>>

-----------------------------------------------------------------------------
(* The worker                                                              *)

At(pc) == worker.pc = pc
Goto(pc) == worker' = [worker EXCEPT !.pc = pc]

\* initialize_standard_runtime_entry_control: arm only an absent row.
Bootstrap ==
    /\ At("boot")
    /\ row' = Ensured(InitialRow(TRUE, "standard", "bootstrap"))
    /\ Goto("hydrate")
    /\ UNCHANGED <<request, requests, keeper>> /\ NoFault

\* start(): a hold found in the row is taken over into memory; a read that
\* raises finds none.
Hydrate ==
    /\ At("hydrate")
    /\ \/ /\ worker' = [worker EXCEPT
                           !.pc = "cycle", !.hold = IsHold(row),
                           !.state = IF IsHold(row) THEN "ENTRY_HOLD" ELSE @]
          /\ NoFault
       \/ Goto("cycle") /\ Fault("database")
    /\ UNCHANGED <<row, request, requests, keeper>>

\* A cycle ends.  "healthy": completed, every symbol HEALTHY, a safe preflight
\* and complete readiness; "completed" lacks one of the last three.
CycleEnds(r) ==
    /\ At("cycle")
    /\ worker' = [worker EXCEPT !.pc = "after", !.result = r,
                                !.failed = r = "failed"]
    /\ IF r = "failed" THEN Fault("failure") ELSE NoFault
    /\ UNCHANGED <<row, request, requests, keeper>>

\* Mutant of HoldKnown: only a hold already in memory counts.
HoldInMemory == worker.hold

\* A hold is in the row or in memory.
HoldKnown == IsHold(row) \/ worker.hold

\* Mutant of ClearsHold: any cycle that completed.
ClearsOnCompletion == worker.result # "failed"

\* The evidence _maybe_clear_recovery_hold asks for.
ClearsHold == worker.result = "healthy"

\* _run_periodic after the V2 cycle: with a hold the state is MANAGEMENT and
\* a healthy cycle goes on to clear it.
AfterCycleWith(hold) ==
    IF hold
    THEN [worker EXCEPT
             !.hold = TRUE, !.state = "MANAGEMENT",
             !.pc = IF ClearsHold THEN "clear" ELSE "cycle"]
    ELSE IF /\ worker.result # "failed"
            /\ worker.state \in {"VERIFYING", "RESTARTING"}
         THEN [worker EXCEPT !.pc = "cycle", !.state = "HEALTHY",
                             !.attempt = 0]
         ELSE [worker EXCEPT !.pc = "cycle"]

\* A durable hold is hydrated; a read that raises leaves the one in memory.
AfterCycle ==
    /\ At("after")
    /\ \/ worker' = AfterCycleWith(HoldKnown) /\ NoFault
       \/ worker' = AfterCycleWith(worker.hold) /\ Fault("database")
    /\ UNCHANGED <<row, request, requests, keeper>>

\* Somebody else owns the switch: the hold ends in memory only.
Disowned == [worker EXCEPT !.pc = "cycle", !.hold = FALSE,
                           !.state = "HEALTHY"]

\* _clear_liveness_recovery_hold: the observation.
ClearReads ==
    /\ At("clear")
    /\ worker' = IF row.enabled \/ ~ IsHold(row)
                 THEN IF IsHold(row)
                      THEN [worker EXCEPT !.pc = "cycle"]
                      ELSE Disowned
                 ELSE [worker EXCEPT !.pc = "clearing", !.seen = row]
    /\ UNCHANGED <<row, request, requests, keeper>> /\ NoFault

\* The update; when it misses, the row is read once more.
ClearWrites ==
    /\ At("clearing")
    /\ IF Matches(worker.seen)
       THEN /\ row' = LivenessRow(TRUE, "recovered")
            /\ worker' = [worker EXCEPT !.pc = "cycle", !.hold = FALSE,
                                        !.state = "RECOVERED", !.attempt = 0,
                                        !.seen = NoRow]
       ELSE /\ UNCHANGED row
            /\ worker' = IF IsHold(row)
                         THEN [worker EXCEPT !.pc = "cycle", !.seen = NoRow]
                         ELSE [Disowned EXCEPT !.seen = NoRow]
    /\ UNCHANGED <<request, requests, keeper>> /\ NoFault

\* The session raises; the read that follows may raise as well.
ClearRaises ==
    /\ At("clear") \/ At("clearing")
    /\ Fault("database")
    /\ worker' \in {[Disowned EXCEPT !.seen = NoRow],
                    [worker EXCEPT !.pc = "cycle", !.seen = NoRow]}
    /\ UNCHANGED <<row, request, requests, keeper>>

\* The V2 task ends unexpectedly (_supervise_critical_task).
TaskCrashes ==
    /\ At("cycle") \/ At("after")
    /\ Fault("task")
    /\ LET crashed == [worker EXCEPT !.attempt = @ + 1, !.failed = TRUE,
                                     !.state = "CRASH_DETECTED"]
       IN  worker' = IF crashed.attempt >= MaxAttempts
                     THEN [crashed EXCEPT !.pc = "claim",
                                          !.reason = "exhausted"]
                     ELSE [crashed EXCEPT !.pc = "check"]
    /\ UNCHANGED <<row, request, requests, keeper>>

\* _safe_v2_recovery_check.
Check(safe) ==
    /\ At("check")
    /\ worker' = IF safe
                 THEN [worker EXCEPT !.pc = "backoff", !.state = "RESTARTING"]
                 ELSE [worker EXCEPT !.pc = "claim", !.reason = "unsafe"]
    /\ UNCHANGED <<row, request, requests, keeper>> /\ NoFault

\* Mutant of Claimed: the outcome of the claim is ignored.
ClaimedRegardless(persisted) ==
    [worker EXCEPT
        !.hold = TRUE, !.reason = "none", !.seen = NoRow,
        !.state = IF worker.reason = "exhausted" THEN "EXHAUSTED"
                  ELSE "MANAGEMENT",
        !.pc = CASE worker.reason = "exhausted" -> "exhausted"
                 [] worker.reason = "unsafe" -> "backoff"
                 [] worker.reason = "config" -> "cycle"]

\* What the callers of _set_recovery_hold do with its outcome.
Claimed(persisted) ==
    [worker EXCEPT
        !.hold = persisted, !.reason = "none", !.seen = NoRow,
        !.state = IF worker.reason = "exhausted" THEN "EXHAUSTED"
                  ELSE "MANAGEMENT",
        !.pc = CASE worker.reason = "exhausted" -> "exhausted"
                 [] worker.reason = "unsafe" -> "backoff"
                 [] worker.reason = "config" -> "cycle"]

\* _claim_liveness_recovery_hold: an operator's pause is left alone, the same
\* hold is kept, anything else has to be replaced.
ClaimReads ==
    /\ At("claim")
    /\ row' = Ensured(InitialRow(FALSE, worker.reason, "liveness"))
    /\ worker' = IF OperatorPaused(row') THEN Claimed(FALSE)
                 ELSE IF ~ row'.enabled /\ row'.reason = worker.reason
                 THEN Claimed(TRUE)
                 ELSE [worker EXCEPT !.pc = "claiming", !.seen = row']
    /\ UNCHANGED <<request, requests, keeper>> /\ NoFault

ClaimWrites ==
    /\ At("claiming")
    /\ row' = IF Matches(worker.seen) THEN LivenessRow(FALSE, worker.reason)
              ELSE row
    /\ worker' = Claimed(Matches(worker.seen))
    /\ UNCHANGED <<request, requests, keeper>> /\ NoFault

ClaimRaises ==
    /\ At("claim") \/ At("claiming")
    /\ Fault("database")
    /\ worker' = Claimed(FALSE)
    /\ UNCHANGED <<row, request, requests, keeper>>

\* The backoff ends; a restart after a safe check is still to be verified.
Restart ==
    /\ At("backoff")
    /\ worker' = [worker EXCEPT !.pc = "rehydrate",
                                !.state = IF @ = "RESTARTING" THEN "VERIFYING"
                                          ELSE @]
    /\ UNCHANGED <<row, request, requests, keeper>> /\ NoFault

\* _rehydrate_runtime_contract_for_recovery.
Rehydrate(ok) ==
    /\ At("rehydrate")
    /\ worker' = IF ok THEN [worker EXCEPT !.pc = "cycle"]
                 ELSE [worker EXCEPT !.pc = "claim", !.reason = "config"]
    /\ UNCHANGED <<row, request, requests, keeper>> /\ NoFault

WorkerExits ==
    /\ ~ At("down")
    /\ Fault("exit")
    /\ worker' = [FreshWorker EXCEPT !.pc = "down"]
    /\ UNCHANGED <<row, request, requests, keeper>>

-----------------------------------------------------------------------------
(* The supervisor: run_supervisor                                          *)

\* _worker_health_reason and critical_task_liveness_errors.
Unhealthy ==
    \/ worker.failed
    \/ worker.pc \in {"down", "exhausted"}

Detect ==
    /\ keeper.pc = "watch"
    /\ \/ Unhealthy /\ NoFault
       \/ At("cycle") /\ Fault("stall")
    /\ keeper' = [keeper EXCEPT !.pc = "claim"]
    /\ UNCHANGED <<row, request, requests, worker>>

KeeperClaimReads ==
    /\ keeper.pc = "claim"
    /\ row' = Ensured(InitialRow(FALSE, "supervisor", "liveness"))
    /\ keeper' = IF \/ OperatorPaused(row')
                    \/ ~ row'.enabled /\ row'.reason = "supervisor"
                 THEN [keeper EXCEPT !.pc = "recycle"]
                 ELSE [keeper EXCEPT !.pc = "claiming", !.seen = row']
    /\ UNCHANGED <<request, requests, worker>> /\ NoFault

\* A claim that misses or raises is not repeated.
KeeperClaimWrites ==
    /\ keeper.pc = "claiming"
    /\ \/ /\ row' = IF Matches(keeper.seen)
                    THEN LivenessRow(FALSE, "supervisor") ELSE row
          /\ NoFault
       \/ Fault("database") /\ UNCHANGED row
    /\ keeper' = [pc |-> "recycle", seen |-> NoRow]
    /\ UNCHANGED <<request, requests, worker>>

\* _terminate_worker and, after the backoff, _spawn_worker.
Recycle ==
    /\ keeper.pc = "recycle"
    /\ worker' = FreshWorker
    /\ keeper' = FreshKeeper
    /\ UNCHANGED <<row, request, requests>> /\ NoFault

-----------------------------------------------------------------------------
Worker ==
    \/ Bootstrap \/ Hydrate
    \/ CycleEnds("completed") \/ CycleEnds("failed")
    \/ AfterCycle \/ ClearReads \/ ClearWrites \/ ClearRaises
    \/ TaskCrashes \/ \E safe \in BOOLEAN : Check(safe)
    \/ ClaimReads \/ ClaimWrites \/ ClaimRaises
    \/ Restart \/ \E ok \in BOOLEAN : Rehydrate(ok)

Keeper == Detect \/ KeeperClaimReads \/ KeeperClaimWrites \/ Recycle

Operator == OperatorWrites \/ \E enable \in BOOLEAN : OperatorReads(enable)

Next ==
    Worker \/ CycleEnds("healthy") \/ WorkerExits \/ Keeper \/ Operator

Spec == Init /\ [][Next]_vars

\* The worker's task and the supervisor's loop keep running, and among the
\* cycles there is a healthy one again and again.
FairSpec ==
    /\ Spec
    /\ WF_vars(Worker)
    /\ WF_vars(Keeper)
    /\ SF_vars(CycleEnds("healthy"))

-----------------------------------------------------------------------------
(* Properties                                                              *)

\* The type of the state.
TypeOK ==
    /\ row \in Rows
    /\ request \in Requests
    /\ requests \in 0 .. MaxRequests
    /\ worker \in WorkerStates
    /\ keeper \in KeeperStates
    /\ faults \in 0 .. MaxFaults

\* "A manual/operator pause owns the switch and must never be overridden"
\* (_maybe_clear_recovery_hold): whatever the worker and the supervisor read
\* before, only a request of the operator changes the row he paused.
PauseIsTheOperators ==
    [][OperatorPaused(row) /\ row' # row => request.open /\ ~ request'.open]_vars

\* "Freeze new exposure durably" (_set_recovery_hold): while the worker's
\* status shows a hold, entries are disabled in the row that the cycles read,
\* unless the operator wrote it last.
HoldIsDurable ==
    worker.hold => ~ row.enabled \/ row.by = "api"

\* "Clear only a supervisor-created hold after a fresh healthy V2 cycle": new
\* entries are enabled again by the operator who asks for it, or by the worker
\* that saw a healthy cycle end and finds a hold of the system in the row when
\* it writes; otherwise only the first start of a worker enables them.
EnabledOnEvidence ==
    [][~ row.enabled /\ row'.enabled
          => \/ request.open /\ request.enable /\ ~ request'.open
             \/ worker.result = "healthy" /\ IsHold(row)
             \/ worker.pc = "boot" /\ ~ row.exists]_vars

\* A hold the system took is given back, in the row and in the worker's
\* status, by some healthy cycle (_maybe_clear_recovery_hold), whichever of
\* the worker and the supervisor took it and however often they restart.
HoldIsReleased ==
    []<>(~ IsHold(row) /\ ~ worker.hold)

\* Statement of the repository that the code does not keep.

\* "Disable new entries" (disable_entry): after the request entries are
\* disabled, and not by a hold that a healthy cycle will clear.
PauseTakesEffect ==
    [][request.open /\ ~ request.enable /\ row' # row /\ ~ request'.open
          => OperatorPaused(row')]_vars
=============================================================================
