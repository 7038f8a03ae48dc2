-------------------------- MODULE ConfigSnapshot --------------------------
(***************************************************************************)
(* The operator's configuration of one paper run: its immutable snapshots, *)
(* the active one and the pending one that a later cycle activates.        *)
(*                                                                         *)
(*   services/strategy_library/repository.py    ConfigSnapshotRepository   *)
(*   services/execution/v2_scheduler_entry.py   _load_v2_operator_snapshot *)
(*   services/execution/paper_cycle_orchestrator.py            _run_cycle  *)
(*   scripts/set_operator_risk_per_trade.py                                *)
(*   and the callers of create_snapshot (API, tasks, bootstrap, scripts)   *)
(*                                                                         *)
(* Every caller loads the run in one statement and writes it in a later    *)
(* one.  create_snapshot and stage_execution_profile_snapshot claim the    *)
(* pending slot with a conditional update; the first snapshot of a run and *)
(* activate_pending write what they loaded without a condition, and so     *)
(* does the script.  Cycles of one run may overlap: the scheduler's hold   *)
(* the lease, those of the API and of the task queue do not ask for it.    *)
(*                                                                         *)
(* A configuration stands for its canonical hash, which is unique in a run *)
(* (uq_config_snapshot_run_hash), so it identifies the snapshot too.       *)
(***************************************************************************)
EXTENDS Naturals

CONSTANTS
    Configs,      \* the configurations, by hash
    CycleIds,     \* the cycle ids an operator may name
    Editors,      \* the sessions that call create_snapshot
    Sizers,       \* the ones that call stage_execution_profile_snapshot
    Cycles,       \* the runners of cycles
    Scripts,      \* the runs of set_operator_risk_per_trade
    MaxRequests,  \* bound on the requests of editors, sizers and scripts
    MaxFaults,    \* bound on the cycles that die
    NoConfig

ASSUME ConfigAssumption ==
    /\ NoConfig \notin Configs
    /\ "absent" \notin CycleIds
    /\ Editors \cap Sizers = {}
    /\ Cycles \cap (Editors \cup Sizers) = {}
    /\ Scripts \cap (Editors \cup Sizers \cup Cycles) = {}
    /\ MaxRequests \in Nat
    /\ MaxFaults \in Nat

VARIABLES
    run,        \* active_config_* and pending_config_* of the paper run
    effective,  \* effective_cycle_id of each stored snapshot
    base,       \* the configuration the pending one is to replace, as its
                \* editor, or whoever wrote the active pointer since, knew it
    proc,       \* what each session, cycle and script holds in memory
    overtaken,  \* who is about to write without a condition what another
                \* such write has changed since the load (history)
    lost,       \* what such writes cleared from the pending slot (history)
    requests,   \* requests made
    faults      \* cycles that died

vars == <<run, effective, base, proc, overtaken, lost, requests, faults>>

Sessions == Editors \cup Sizers
Processes == Sessions \cup Cycles \cup Scripts

Config == Configs \cup {NoConfig}
Labels == {"NEXT_CYCLE", "BASELINE"} \cup CycleIds
Runs == [active : Config, pending : Config]

EmptyRun == [active |-> NoConfig, pending |-> NoConfig]

\* saw: the run as loaded; config and label: the snapshot a session offers.
Memories == [pc : {"idle", "loaded", "running"}, saw : Runs,
             config : Config, label : Labels]
Idle == [pc |-> "idle", saw |-> EmptyRun, config |-> NoConfig,
         label |-> "NEXT_CYCLE"]

Init ==
    /\ run = EmptyRun
    /\ effective = [c \in Configs |-> "absent"]
    /\ base = NoConfig
    /\ proc = [p \in Processes |-> Idle]
    /\ overtaken = {}
    /\ lost = {}
    /\ requests = 0
    /\ faults = 0

Stored(c) == effective[c] # "absent"

\* The process is done; it overtakes those in S.
Done(p, S) ==
    /\ proc' = [proc EXCEPT ![p] = Idle]
    /\ overtaken' = (overtaken \cup S) \ {p}

Reset(p) == Done(p, {})

\* Who is about to write the active pointer of a run without one, and who is
\* about to activate a pending configuration.
Founding == {e \in Sessions : proc[e].pc = "loaded" /\ proc[e].saw.active = NoConfig}
Activating == {k \in Cycles : proc[k].pc = "loaded"}

-----------------------------------------------------------------------------
(* The callers of create_snapshot: the labels each may give to a snapshot  *)
(* for the run it loaded; none where it returns or raises.                 *)

\* POST config-snapshots: the label is the operator's.
ApiSnapshot(row) == Labels

\* PATCH execution-profile.
ProfilePatch(row) == {"NEXT_CYCLE"}

\* PATCH auto-settings.
AutoSettings(row) == {"NEXT_CYCLE"}

\* The weekly refresh of the volatility tiers.
TierRefresh(row) == IF row.active = NoConfig THEN {} ELSE {"NEXT_CYCLE"}

\* The refresh of the contract metadata.
UniverseRefresh(row) == IF row.active = NoConfig THEN {} ELSE {"NEXT_CYCLE"}

\* Arming the validated run for the testnet.
ArmRun(row) == {IF row.active = NoConfig THEN "BASELINE" ELSE "NEXT_CYCLE"}

\* The sampling toggle of the natural testnet launcher.
SamplingToggle(row) ==
    CASE row.active = NoConfig -> {"BASELINE"}
      [] row.active # NoConfig /\ row.pending # NoConfig -> {}
      [] row.active # NoConfig /\ row.pending = NoConfig -> {"NEXT_CYCLE"}

\* The promotion of strategy rules.
StagePromoted(row) ==
    IF row.pending # NoConfig THEN {}
    ELSE {IF row.active = NoConfig THEN "BASELINE" ELSE "NEXT_CYCLE"}

\* The forward-validation contract.
StageForward(row) ==
    IF row.active = NoConfig \/ row.pending # NoConfig THEN {}
    ELSE {"NEXT_CYCLE"}

\* The remediation script of the symbol ceilings.
StageCeilings(row) == IF row.active = NoConfig THEN {} ELSE {"NEXT_CYCLE"}

Offers(row) ==
    UNION {ApiSnapshot(row), ProfilePatch(row), AutoSettings(row),
           TierRefresh(row), UniverseRefresh(row), ArmRun(row),
           SamplingToggle(row), StagePromoted(row), StageForward(row),
           StageCeilings(row)}

-----------------------------------------------------------------------------
(* ConfigSnapshotRepository.create_snapshot                                *)

\* The run is loaded.  A stale base_config_hash, or a pending snapshot, is a
\* ConfigConflictError that changes nothing.
LoadForEdit(e, c, label) ==
    /\ proc[e].pc = "idle"
    /\ requests < MaxRequests
    /\ run.pending = NoConfig
    /\ label \in Offers(run)
    /\ proc' = [proc EXCEPT ![e] = [pc |-> "loaded", saw |-> run,
                                    config |-> c, label |-> label]]
    /\ requests' = requests + 1
    /\ UNCHANGED <<run, effective, base, overtaken, lost, faults>>

\* Mutant of Claimable: the base hash is checked when the run is loaded only.
ClaimableOnAnyBase(p) == run.pending = NoConfig

\* Mutant of Claimable: the pending slot is checked when it is loaded only.
ClaimableIfPending(p) == run.active = proc[p].saw.active

\* The predicate of the conditional updates, on the row as it then is.
Claimable(p) ==
    /\ run.active = proc[p].saw.active
    /\ run.pending = NoConfig

\* The values of the conditional updates.
Claimed(p) == [run EXCEPT !.pending = proc[p].config]

\* Mutant of Insert: the snapshot is not flushed.
InsertForgotten(p) == UNCHANGED effective

\* The row of a new snapshot.
Insert(p) == effective' = [effective EXCEPT ![proc[p].config] = proc[p].label]

Claim(p) ==
    /\ Claimable(p)
    /\ run' = Claimed(p)
    /\ base' = proc[p].saw.active
    /\ lost' = lost \ {proc[p].config}

\* The hash is known: the old snapshot becomes pending, with its old label,
\* unless it is the active one.
Restage(e) ==
    /\ proc[e].pc = "loaded"
    /\ Stored(proc[e].config)
    /\ IF proc[e].config # proc[e].saw.active THEN Claim(e)
       ELSE UNCHANGED <<run, base, lost>>
    /\ Reset(e)
    /\ UNCHANGED <<effective, requests, faults>>

\* A new snapshot for a run that has an active one.
Create(e) ==
    /\ proc[e].pc = "loaded"
    /\ ~Stored(proc[e].config)
    /\ proc[e].saw.active # NoConfig
    /\ Insert(e)
    /\ Claim(e)
    /\ Reset(e)
    /\ UNCHANGED <<requests, faults>>

\* The first snapshot of a run is active at once.
Found(e) ==
    /\ proc[e].pc = "loaded"
    /\ ~Stored(proc[e].config)
    /\ proc[e].saw.active = NoConfig
    /\ Insert(e)
    /\ run' = [run EXCEPT !.active = proc[e].config]
    /\ base' = proc[e].config
    /\ Done(e, Founding)
    /\ UNCHANGED <<lost, requests, faults>>

\* ConfigConflictError, a unique constraint or a database error: rollback.
Conflict(p) ==
    /\ proc[p].pc = "loaded"
    /\ Reset(p)
    /\ UNCHANGED <<run, effective, base, lost, requests, faults>>

-----------------------------------------------------------------------------
(* stage_execution_profile_snapshot: profile, snapshot and pending pointer *)
(* in one transaction that locks the row with its first statement.         *)

LoadForSizing(s, c) ==
    /\ proc[s].pc = "idle"
    /\ requests < MaxRequests
    /\ run.pending = NoConfig
    /\ proc' = [proc EXCEPT ![s] = [pc |-> "loaded", saw |-> run,
                                    config |-> c, label |-> "NEXT_CYCLE"]]
    /\ requests' = requests + 1
    /\ UNCHANGED <<run, effective, base, overtaken, lost, faults>>

StageProfile(s) ==
    /\ proc[s].pc = "loaded"
    /\ ~Stored(proc[s].config)
    /\ Insert(s)
    /\ Claim(s)
    /\ Reset(s)
    /\ UNCHANGED <<requests, faults>>

-----------------------------------------------------------------------------
(* A cycle: activate_pending, then get_active.                             *)

\* Mutant of Due: only a snapshot that names the cycle.
DueByName(id) ==
    /\ run.pending # NoConfig
    /\ id # "NEXT_CYCLE"
    /\ effective[run.pending] = id

\* Whether the pending snapshot is due in a cycle with this id.
Due(id) ==
    /\ run.pending # NoConfig
    /\ effective[run.pending] \in {id, "NEXT_CYCLE"}

\* _load_v2_operator_snapshot, and _run_cycle of the legacy engine, whose id
\* no operator names, load the run.
StartCycle(k, id) ==
    /\ proc[k].pc = "idle"
    /\ proc' = [proc EXCEPT ![k] =
                   IF Due(id) THEN [Idle EXCEPT !.pc = "loaded", !.saw = run]
                              ELSE [Idle EXCEPT !.pc = "running"]]
    /\ UNCHANGED <<run, effective, base, overtaken, lost, requests, faults>>

\* The columns that differ from the loaded ones are written, whatever the row
\* holds by now.
Activated(k) ==
    [active |-> IF proc[k].saw.active # proc[k].saw.pending
                THEN proc[k].saw.pending ELSE run.active,
     pending |-> NoConfig]

ActivatePending(k) ==
    /\ proc[k].pc = "loaded"
    /\ run' = Activated(k)
    /\ lost' = lost \cup ({run.pending} \ {NoConfig, proc[k].saw.pending})
    /\ proc' = [proc EXCEPT ![k] = [Idle EXCEPT !.pc = "running"]]
    /\ overtaken' = (overtaken \cup Activating \cup Founding) \ {k}
    /\ UNCHANGED <<effective, base, requests, faults>>

\* get_active reads the row again, into memory of the cycle that nobody else
\* reads or writes, and the cycle runs on what it captured until it ends.
RunCycle(k) ==
    /\ proc[k].pc = "running"
    /\ Reset(k)
    /\ UNCHANGED <<run, effective, base, lost, requests, faults>>

Die(k) ==
    /\ proc[k].pc # "idle"
    /\ faults < MaxFaults
    /\ faults' = faults + 1
    /\ Reset(k)
    /\ UNCHANGED <<run, effective, base, lost, requests>>

-----------------------------------------------------------------------------
(* set_operator_risk_per_trade: two transactions.                          *)

\* Whatever is pending is withdrawn.
Withdraw(x) ==
    /\ proc[x].pc = "idle"
    /\ requests < MaxRequests
    /\ run' = [run EXCEPT !.pending = NoConfig]
    /\ lost' = lost \cup ({run.pending} \ {NoConfig})
    /\ proc' = [proc EXCEPT ![x].pc = "loaded"]
    /\ overtaken' = overtaken \cup Activating
    /\ requests' = requests + 1
    /\ UNCHANGED <<effective, base, faults>>

\* The active configuration is cleared, so that the next start publishes one;
\* what was staged meanwhile stays.
ClearActive(x) ==
    /\ proc[x].pc = "loaded"
    /\ run' = [run EXCEPT !.active = NoConfig]
    /\ base' = NoConfig
    /\ Reset(x)
    /\ UNCHANGED <<effective, lost, requests, faults>>

-----------------------------------------------------------------------------
EditorStep(e) ==
    \/ \E c \in Configs, label \in Labels : LoadForEdit(e, c, label)
    \/ Restage(e) \/ Create(e) \/ Found(e) \/ Conflict(e)

SizerStep(s) ==
    \/ \E c \in Configs : LoadForSizing(s, c)
    \/ StageProfile(s) \/ Conflict(s)

CycleStep(k) ==
    \/ \E id \in CycleIds \cup {"NEXT_CYCLE"} : StartCycle(k, id)
    \/ ActivatePending(k) \/ RunCycle(k)

ScriptStep(x) == Withdraw(x) \/ ClearActive(x) \/ Conflict(x)

Next ==
    \/ \E e \in Editors : EditorStep(e)
    \/ \E s \in Sizers : SizerStep(s)
    \/ \E k \in Cycles : CycleStep(k) \/ Die(k)
    \/ \E x \in Scripts : ScriptStep(x)

Spec == Init /\ [][Next]_vars

\* The scheduler keeps starting cycles, and a cycle that does not die ends.
FairSpec == Spec /\ \A k \in Cycles : WF_vars(CycleStep(k))

-----------------------------------------------------------------------------
(* Properties                                                              *)

\* The type of the state; the pointers of the run lead to stored snapshots.
TypeOK ==
    /\ run \in Runs
    /\ effective \in [Configs -> Labels \cup {"absent"}]
    /\ base \in Config
    /\ proc \in [Processes -> Memories]
    /\ overtaken \in SUBSET Processes
    /\ lost \in SUBSET Configs
    /\ requests \in 0 .. MaxRequests
    /\ faults \in 0 .. MaxFaults
    /\ \A c \in {run.active, run.pending} \ {NoConfig} : Stored(c)

Staged == INSTANCE StagedConfig
             WITH active <- run.active, pending <- run.pending

\* "A concurrent operator edit fails loudly instead of being silently
\* overwritten": whoever changes the run, other than the script that clears it,
\* loads it, decides and writes it back as if in one step: it founds, stages on
\* the active configuration, or activates what is staged on it.  Only an
\* activation or a founding that another activation or founding, or the
\* script, overtook since its load does not; whatever any number of editors
\* and sizers stage in between, it does.
AtomicUnlessOvertaken ==
    [][\/ \E x \in Scripts : ScriptStep(x)
       \/ \E k \in overtaken \cap Cycles : ActivatePending(k)
       \/ \E e \in overtaken \cap Editors : Found(e)
       \/ Staged!Next
       \/ UNCHANGED run]_vars

\* "Activates on the next scheduler cycle": a staged configuration whose label
\* is NEXT_CYCLE becomes active, unless a slower activation or the script
\* clears it first.
StagedTakesEffect ==
    \A c \in Configs :
        run.pending = c /\ effective[c] = "NEXT_CYCLE"
            ~> run.active = c \/ c \in lost
=============================================================================
