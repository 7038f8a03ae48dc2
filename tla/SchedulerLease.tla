-------------------------- MODULE SchedulerLease --------------------------
(***************************************************************************)
(* Leadership of the schedulers of one database and the claims on the      *)
(* slots of a job.                                                         *)
(*                                                                         *)
(*   services/execution/scheduler_coordination.py   SchedulerCoordinator   *)
(*   services/execution/scheduler.py   _run_coordinated_once,              *)
(*                                     _renew_lease_until_done             *)
(*   scripts/reclaim_stale_scheduler_locks.py   run on every recycle       *)
(*                                                                         *)
(* acquire_or_renew_lease reads the row in one statement and updates it in *)
(* another whose predicate is evaluated on the row as it then is; claim_   *)
(* cycle inserts and, on conflict, reads and rewrites the row.  Between    *)
(* two statements other schedulers run and processes die.                  *)
(*                                                                         *)
(* The clock has the resolution of the code's timestamps: no two readings  *)
(* are equal.  A run observes one clock (the exchange's for the V2 job, or *)
(* its host's), heartbeats and releases read the host's; clocks may differ *)
(* by up to MaxSkew.  The statements of one acquisition and claim, and of  *)
(* one heartbeat, end while no clock has the lease they write expired; a   *)
(* run may take longer.                                                    *)
(*                                                                         *)
(* The reclaim script probes the process of every lease and claim from     *)
(* where it runs: a scheduler of another host or of another user is dead   *)
(* to it.  It deletes rows, so tokens may start again at one.              *)
(***************************************************************************)
EXTENDS Integers

CONSTANTS
    Instances,   \* the schedulers, each a process of its own
    Host,        \* the host of each
    Ttl,         \* lease_ttl
    Interval,    \* interval_seconds: the length of a slot
    JobClock,    \* by how much the clock a run observes is ahead of time
    LocalClock,  \* by how much the clock of each scheduler's host is
    MaxSkew,     \* bound on both
    MaxTime,     \* bound on the clock
    Views,       \* the schedulers the reclaim script can see, for every
                 \* place (host and user) it is run at
    NoOwner

ASSUME LeaseAssumption ==
    /\ Ttl \in Nat \ {0}
    /\ Interval \in Nat \ {0}
    /\ MaxSkew \in 0 .. Ttl - 1
    /\ JobClock \in [Instances -> 0 .. MaxSkew]
    /\ LocalClock \in [Instances -> 0 .. MaxSkew]
    /\ MaxTime \in Nat
    /\ Views \subseteq SUBSET Instances
    /\ NoOwner \notin Instances

Slots == 0 .. MaxTime + MaxSkew

VARIABLES
    lease,   \* the row of the job: owner_id, fencing_token, expires_at
    cycles,  \* the claim on each slot
    ran,     \* the schedulers that ran each slot (history)
    inst,    \* what each scheduler holds in memory
    alive,   \* the schedulers whose process is alive
    time,    \* the time of the slowest clock
    doomed   \* the claims a run of the reclaim script is about to fail

vars == <<lease, cycles, ran, inst, alive, time, doomed>>

Leases == [owner : Instances \cup {NoOwner}, token : Nat, expires : Nat]
NoLease == [owner |-> NoOwner, token |-> 0, expires |-> 0]

Claims == [status : {"claimed", "completed", "failed"}, by : Instances]
NoClaim == [status |-> "none", by |-> NoOwner]

\* obs: observed_at; seen and dead: the row as read and the probe of its
\* owner; token: the token of this run; cached: _fencing_tokens; slot: the
\* row of the claim (scheduler_cycle_id).
IdleInst == [pc |-> "idle", obs |-> 0, seen |-> NoLease, dead |-> FALSE,
             token |-> 0, cached |-> 0, beat |-> FALSE, slot |-> 0]

\* Where an instance is between two statements of a call.
Short == {"read", "write", "token", "claim", "reclaim", "beat"}
Stages == Short \cup {"idle", "run", "release"}

Memories == [pc : Stages, obs : Nat, seen : Leases, dead : BOOLEAN,
             token : Nat, cached : Nat, beat : BOOLEAN, slot : Slots]

SlotOf(i) == inst[i].obs \div Interval

CanTick ==
    /\ time < MaxTime
    /\ \A i \in alive : inst[i].pc \in Short =>
           time + 1 + MaxSkew < inst[i].obs + Ttl

Init ==
    /\ lease = NoLease
    /\ cycles = [s \in Slots |-> NoClaim]
    /\ ran = [s \in Slots |-> {}]
    /\ inst = [i \in Instances |-> IdleInst]
    /\ alive = Instances
    /\ time = 0
    /\ doomed = {}

At(i, pc) == i \in alive /\ inst[i].pc = pc
Goto(i, pc) == inst' = [inst EXCEPT ![i].pc = pc]
Reset(i) == inst' = [inst EXCEPT ![i] = IdleInst]

-----------------------------------------------------------------------------
(* acquire_or_renew_lease                                                  *)

\* The clock of the job is read for the run.
Observe(i) ==
    /\ At(i, "idle")
    /\ CanTick
    /\ time' = time + 1
    /\ inst' = [inst EXCEPT ![i] = [IdleInst EXCEPT !.pc = "read",
                                                    !.obs = time' + JobClock[i]]]
    /\ UNCHANGED <<lease, cycles, ran, alive, doomed>>

\* Is the owner of the row a process of this host that is gone?
DeadLocalOwner(i) ==
    /\ lease.owner \in Instances \ {i}
    /\ Host[lease.owner] = Host[i]
    /\ lease.owner \notin alive

Read(i) ==
    /\ At(i, "read")
    /\ inst' = [inst EXCEPT ![i].pc = "write", ![i].seen = lease,
                            ![i].dead = DeadLocalOwner(i)]
    /\ UNCHANGED <<lease, cycles, ran, alive, time, doomed>>

\* Mutant of Effective: the predicate is evaluated on the row as read.
EffectiveAsRead(i) ==
    LET m == inst[i] IN
    /\ m.seen.owner = NoOwner <=> lease.owner = NoOwner
    /\ m.seen.owner = i \/ m.seen.expires <= m.obs \/ m.dead

\* Is the update (after the one that expires a dead owner's row, and in the
\* same transaction) or the insert of an absent row effective?  A row deleted
\* since the read is not updated, one inserted since refuses the insert.
Effective(i) ==
    LET m == inst[i] IN
    /\ m.seen.owner = NoOwner <=> lease.owner = NoOwner
    /\ \/ lease.owner = i
       \/ lease.expires <= m.obs
       \/ m.dead /\ lease.owner = m.seen.owner

\* One more than the token of the row as read; 1 for an absent row.
NextToken(i) ==
    LET m == inst[i] IN
    IF m.seen.owner # i \/ m.seen.expires <= m.obs
    THEN m.seen.token + 1 ELSE m.seen.token

Grant(i) ==
    lease' = [owner |-> i, token |-> NextToken(i),
              expires |-> inst[i].obs + Ttl]

\* The run becomes leader, or is on standby.
Acquire(i) ==
    /\ At(i, "write")
    /\ IF Effective(i)
       THEN Grant(i) /\ Goto(i, "token")
       ELSE UNCHANGED lease /\ Reset(i)
    /\ UNCHANGED <<cycles, ran, alive, time, doomed>>

\* fencing_token: the token of the row, whoever owns it now.  A run that
\* finds no row ends ("lease_lost/fenced").
ReadToken(i) ==
    /\ At(i, "token")
    /\ IF lease.owner = NoOwner
       THEN Reset(i)
       ELSE inst' = [inst EXCEPT ![i] =
                [@ EXCEPT !.pc = "claim", !.seen = NoLease, !.dead = FALSE,
                          !.token = lease.token, !.cached = lease.token]]
    /\ UNCHANGED <<lease, cycles, ran, alive, time, doomed>>

-----------------------------------------------------------------------------
(* claim_cycle                                                             *)

\* Mutant of NewClaim: the row does not name its scheduler.
AnonymousClaim(i) == [status |-> "claimed", by |-> NoOwner]

NewClaim(i) == [status |-> "claimed", by |-> i]

\* The claimed slot is run, with heartbeats.
Start(i) ==
    inst' = [inst EXCEPT ![i].pc = "run", ![i].beat = TRUE,
                         ![i].slot = SlotOf(i)]

\* The insert.
Claim(i) ==
    /\ At(i, "claim")
    /\ cycles[SlotOf(i)] = NoClaim
    /\ cycles' = [cycles EXCEPT ![SlotOf(i)] = NewClaim(i)]
    /\ ran' = [ran EXCEPT ![SlotOf(i)] = @ \cup {i}]
    /\ Start(i)
    /\ UNCHANGED <<lease, alive, time, doomed>>

\* Mutant of Reclaimable: the status of the claim is not looked at.
ReclaimableAnyStatus(i) ==
    LET c == cycles[SlotOf(i)] IN
    /\ c.by \in Instances \ {i}
    /\ Host[c.by] = Host[i]

\* dead_local_claim.
Reclaimable(i) ==
    LET c == cycles[SlotOf(i)] IN
    /\ c.status = "claimed"
    /\ c.by \in Instances \ {i}
    /\ Host[c.by] = Host[i]
    /\ c.by \notin alive

\* The insert conflicts: the row is read.
ClaimConflict(i) ==
    /\ At(i, "claim")
    /\ cycles[SlotOf(i)] # NoClaim
    /\ Goto(i, IF Reclaimable(i) THEN "reclaim" ELSE "release")
    /\ UNCHANGED <<lease, cycles, ran, alive, time, doomed>>

\* The row is rewritten; its status is a column that does not change.
Reclaim(i) ==
    /\ At(i, "reclaim")
    /\ cycles' = [cycles EXCEPT ![SlotOf(i)].by = i]
    /\ ran' = [ran EXCEPT ![SlotOf(i)] = @ \cup {i}]
    /\ Start(i)
    /\ UNCHANGED <<lease, alive, time, doomed>>

-----------------------------------------------------------------------------
(* The run, its heartbeats and its end                                     *)

\* A heartbeat reads the local clock and the row; a row of its own with
\* another token ends the heartbeats.
Heartbeat(i) ==
    /\ At(i, "run")
    /\ inst[i].beat
    /\ CanTick
    /\ time' = time + 1
    /\ IF lease.owner = i /\ lease.token # inst[i].token
       THEN inst' = [inst EXCEPT ![i].beat = FALSE]
       ELSE inst' = [inst EXCEPT ![i].pc = "beat",
                                 ![i].obs = time' + LocalClock[i],
                                 ![i].seen = lease,
                                 ![i].dead = DeadLocalOwner(i)]
    /\ UNCHANGED <<lease, cycles, ran, alive, doomed>>

\* A lost lease is recorded as an error; the run goes on.
Renew(i) ==
    /\ At(i, "beat")
    /\ IF Effective(i)
       THEN /\ Grant(i)
            /\ inst' = [inst EXCEPT ![i].pc = "run",
                                    ![i].cached = NextToken(i)]
       ELSE /\ UNCHANGED lease
            /\ inst' = [inst EXCEPT ![i].pc = "run", ![i].beat = FALSE]
    /\ UNCHANGED <<cycles, ran, alive, time, doomed>>

\* The run ends: finish_cycle writes the row it claimed, whatever has become
\* of it.
Finish(i, status) ==
    /\ At(i, "run")
    /\ cycles' = [cycles EXCEPT ![inst[i].slot].status = status]
    /\ Goto(i, "release")
    /\ UNCHANGED <<lease, ran, alive, time, doomed>>

\* Mutant of ReleaseMatches: whoever owns the lease.
ReleaseAlways(i) == TRUE

\* The predicate of release_lease.
ReleaseMatches(i) == lease.owner = i /\ lease.token = inst[i].cached

Release(i) ==
    /\ At(i, "release")
    /\ CanTick
    /\ time' = time + 1
    /\ lease' = IF ReleaseMatches(i)
                THEN [lease EXCEPT !.expires = time' + LocalClock[i]]
                ELSE lease
    /\ Reset(i)
    /\ UNCHANGED <<cycles, ran, alive, doomed>>

Die(i) ==
    /\ i \in alive
    /\ alive' = alive \ {i}
    /\ Reset(i)
    /\ UNCHANGED <<lease, cycles, ran, time, doomed>>

Tick ==
    /\ CanTick
    /\ time' = time + 1
    /\ UNCHANGED <<lease, cycles, ran, inst, alive, doomed>>

-----------------------------------------------------------------------------
(* reclaim_stale_scheduler_locks                                           *)

\* The schedulers that are dead to the script: it looks at the process id
\* only, and a process it may not signal is dead as well.
DeadTo(V) == Instances \ (alive \cap V)

ClaimsOf(D) == {s \in Slots : cycles[s].status = "claimed" /\ cycles[s].by \in D}

Failed(S) == [s \in Slots |-> IF s \in S THEN [cycles[s] EXCEPT !.status = "failed"]
                              ELSE cycles[s]]

\* The row of a dead owner is deleted and, in the same transaction, the claims
\* of the dead are failed.
DeleteLease(V) ==
    /\ lease.owner \in DeadTo(V)
    /\ lease' = NoLease
    /\ cycles' = Failed(ClaimsOf(DeadTo(V)))
    /\ UNCHANGED <<ran, inst, alive, time, doomed>>

\* Without a row to delete the claims are read before the transaction begins,
\* and failed by their id alone.
ReadClaims(V) ==
    /\ doomed = {} /\ ClaimsOf(DeadTo(V)) # {}
    /\ doomed' = ClaimsOf(DeadTo(V))
    /\ UNCHANGED <<lease, cycles, ran, inst, alive, time>>

FailClaims ==
    /\ doomed # {}
    /\ cycles' = Failed(doomed)
    /\ doomed' = {}
    /\ UNCHANGED <<lease, ran, inst, alive, time>>

Script == FailClaims \/ \E V \in Views : DeleteLease(V) \/ ReadClaims(V)

-----------------------------------------------------------------------------
Step(i) ==
    \/ Observe(i) \/ Read(i) \/ Acquire(i) \/ ReadToken(i)
    \/ Claim(i) \/ ClaimConflict(i) \/ Reclaim(i)
    \/ Heartbeat(i) \/ Renew(i)
    \/ \E status \in {"completed", "failed"} : Finish(i, status)
    \/ Release(i)

Next == Tick \/ Script \/ \E i \in Instances : Step(i) \/ Die(i)

Spec == Init /\ [][Next]_vars

-----------------------------------------------------------------------------
(* Properties                                                              *)

\* The type of the state.
TypeOK ==
    /\ lease \in Leases
    /\ cycles \in [Slots -> {NoClaim} \cup Claims]
    /\ ran \in [Slots -> SUBSET Instances]
    /\ inst \in [Instances -> Memories]
    /\ alive \in SUBSET Instances
    /\ time \in 0 .. MaxTime
    /\ doomed \in SUBSET Slots

\* The schedulers whose process every run of the script sees.
Visible == {i \in Instances : \A V \in Views : i \in V}

\* Where a run has been granted the lease and not released it.
Holding == {"token", "claim", "reclaim", "run", "beat", "release"}

\* A run under way whose lease another scheduler takes is left with a smaller
\* fencing token (next_token), by whatever clocks the lease lapsed: the token
\* is computed from a row read before the update, and still no update that was
\* computed before the run's grant takes the lease from it.
TakeoverRaisesToken ==
    [][\A o \in alive :
          /\ lease.owner = o /\ inst[o].pc \in Holding
          /\ lease'.owner \in Instances \ {o}
          => lease'.token > lease.token]_vars

\* "A stale owner must never expire a lease after another process takes over"
\* (release_lease): the lease of a live scheduler that no clock has expired
\* changes by its own steps only, if the script can see the scheduler.
LeaseIsItsOwners ==
    [][\A o \in alive \cap Visible :
          lease.owner = o /\ time + MaxSkew < lease.expires /\ lease' # lease
              => lease'.owner = o /\ inst'[o] # inst[o]]_vars

\* "Per-slot cycle claims": two schedulers run the same slot only when one of
\* them died with it, on a host whose schedulers the script can see.
SlotRunsOnce ==
    \A s \in Slots : \A i, j \in ran[s] :
        \/ i = j
        \/ {i, j} \cap alive # {i, j}
        \/ \E k \in Instances \ Visible : Host[k] = Host[i]
=============================================================================
