----------------------- MODULE SchedulerLeaseProofs -----------------------
(***************************************************************************)
(* Proofs about SchedulerLease, for any number of schedulers and hosts.    *)
(*                                                                         *)
(* All of it holds for all clocks within MaxSkew of each other, and        *)
(* wherever the reclaim script is run; what the script can undo is stated  *)
(* for the schedulers it sees.                                             *)
(***************************************************************************)
EXTENDS SchedulerLease, TLAPS

-----------------------------------------------------------------------------
(* Types                                                                   *)

\* What was observed is not later than the latest clock.
Clocked == \A i \in Instances : inst[i].obs <= time + MaxSkew

\* The row that is about to be rewritten is there.
RowIsThere ==
    /\ \A i \in Instances :
           /\ inst[i].pc = "reclaim" => cycles[SlotOf(i)] \in Claims
           /\ inst[i].pc \in {"run", "beat"} => cycles[inst[i].slot] \in Claims
    /\ \A s \in doomed : cycles[s] \in Claims

TInv == TypeOK /\ Clocked /\ RowIsThere

LEMMA Quotient ==
    ASSUME NEW a \in Nat, NEW b \in Nat \ {0}
    PROVE  a \div b \in 0 .. a
  BY Z3

LEMMA ClockType ==
    ASSUME NEW m \in Nat, NEW t \in 0 .. m, NEW a \in Nat
    PROVE  t \in Nat /\ t + a \in Nat
  OBVIOUS

LEMMA SlotType ==
    ASSUME TypeOK, Clocked, NEW i \in Instances
    PROVE  SlotOf(i) \in Slots
  <1>1. inst[i].obs \in Nat /\ inst[i].obs <= MaxTime + MaxSkew
    BY LeaseAssumption DEF TypeOK, Clocked, Memories
  <1>2. SlotOf(i) \in 0 .. inst[i].obs
    BY <1>1, Quotient, LeaseAssumption DEF SlotOf
  <1> QED BY <1>1, <1>2, LeaseAssumption DEF Slots

LEMMA IdleType == IdleInst \in Memories
  <1>1. NoLease \in Leases
    BY DEF NoLease, Leases
  <1>2. 0 \in Slots
    BY LeaseAssumption DEF Slots
  <1> QED BY <1>1, <1>2 DEF IdleInst, Memories, Stages

LEMMA InitTInv ==
    ASSUME Init PROVE TInv
  BY LeaseAssumption, IdleType
     DEF Init, TInv, TypeOK, Clocked, RowIsThere, IdleInst, NoLease, Leases,
         Slots

LEMMA GrantType ==
    ASSUME TypeOK, NEW i \in Instances, Grant(i)
    PROVE  lease' \in Leases
  <1>1. NextToken(i) \in Nat
    BY DEF NextToken, TypeOK, Leases, Memories
  <1> QED BY <1>1, LeaseAssumption DEF Grant, TypeOK, Leases, Memories

\* The claims are written by Claim, Reclaim and Finish, which leave a claim
\* where there was one.
LEMMA CyclesType ==
    ASSUME TInv, NEW i \in Instances, NEW status \in {"completed", "failed"},
           Claim(i) \/ Reclaim(i) \/ Finish(i, status)
    PROVE  /\ cycles' \in [Slots -> {NoClaim} \cup Claims]
           /\ \A q \in Slots : cycles[q] \in Claims => cycles'[q] \in Claims
           /\ Claim(i) \/ Reclaim(i) => cycles'[SlotOf(i)] \in Claims
  <1>0. /\ cycles \in [Slots -> {NoClaim} \cup Claims]
        /\ SlotOf(i) \in Slots /\ inst[i].slot \in Slots
    BY SlotType DEF TInv, TypeOK, Memories
  <1>1. CASE Claim(i)
    <2>1. NewClaim(i) \in Claims
      BY DEF NewClaim, Claims
    <2> QED BY <1>0, <1>1, <2>1 DEF Claim
  <1>2. CASE Reclaim(i)
    <2>1. cycles[SlotOf(i)] \in Claims
      BY <1>2 DEF Reclaim, At, TInv, RowIsThere
    <2>2. [cycles[SlotOf(i)] EXCEPT !.by = i] \in Claims
      BY <2>1 DEF Claims
    <2> QED BY <1>0, <1>2, <2>2 DEF Reclaim
  <1>3. CASE Finish(i, status)
    <2>1. cycles[inst[i].slot] \in Claims
      BY <1>3 DEF Finish, At, TInv, RowIsThere
    <2>2. [cycles[inst[i].slot] EXCEPT !.status = status] \in Claims
      BY <2>1 DEF Claims
    <2>3. ~ (Claim(i) \/ Reclaim(i))
      BY <1>3 DEF Finish, Claim, Reclaim, At
    <2> QED BY <1>0, <1>3, <2>2, <2>3 DEF Finish
  <1> QED BY <1>1, <1>2, <1>3

\* What the script writes and what it leaves alone: it removes the row of a
\* scheduler that is dead or that it does not see, and changes the status of
\* claims.
LEMMA ScriptStep ==
    ASSUME TInv, Script
    PROVE  /\ UNCHANGED <<ran, inst, alive, time>>
           /\ lease' = lease \/ (lease' = NoLease
                                  /\ lease.owner \notin alive \cap Visible)
           /\ cycles' \in [Slots -> {NoClaim} \cup Claims]
           /\ doomed' \in SUBSET Slots
           /\ \A s \in Slots : /\ cycles[s] \in Claims => cycles'[s] \in Claims
                               /\ cycles'[s].by = cycles[s].by
                               /\ cycles'[s] = NoClaim => cycles[s] = NoClaim
           /\ \A s \in doomed' : cycles'[s] \in Claims
  <1>0. /\ cycles \in [Slots -> {NoClaim} \cup Claims]
        /\ doomed \subseteq Slots /\ \A s \in doomed : cycles[s] \in Claims
        /\ NoClaim \notin Claims
    BY DEF TInv, TypeOK, RowIsThere, NoClaim, Claims
  <1>1. ASSUME NEW D, NEW s \in ClaimsOf(D)
        PROVE  s \in Slots /\ cycles[s] \in Claims
    BY <1>0, <1>1 DEF ClaimsOf, NoClaim
  <1>2. ASSUME NEW S \in SUBSET Slots, \A s \in S : cycles[s] \in Claims
        PROVE  /\ Failed(S) \in [Slots -> {NoClaim} \cup Claims]
               /\ \A s \in Slots :
                      /\ cycles[s] \in Claims => Failed(S)[s] \in Claims
                      /\ Failed(S)[s].by = cycles[s].by
                      /\ Failed(S)[s] = NoClaim => cycles[s] = NoClaim
    <2>1. ASSUME NEW s \in Slots
          PROVE  \/ Failed(S)[s] = cycles[s]
                 \/ /\ Failed(S)[s] \in Claims
                    /\ Failed(S)[s].by = cycles[s].by
      <3>1. CASE s \in S
        <4>1. [cycles[s] EXCEPT !.status = "failed"] \in Claims
          BY <1>2, <3>1 DEF Claims
        <4>2. [cycles[s] EXCEPT !.status = "failed"].by = cycles[s].by
          BY <1>2, <3>1 DEF Claims
        <4> QED BY <3>1, <4>1, <4>2 DEF Failed
      <3>2. CASE s \notin S
        BY <3>2 DEF Failed
      <3> QED BY <3>1, <3>2
    <2>2. Failed(S) = [s \in Slots |-> Failed(S)[s]]
      BY DEF Failed
    <2> QED BY <1>0, <2>1, <2>2
  <1>3. ASSUME NEW V \in Views, DeleteLease(V)
        PROVE  lease.owner \notin alive \cap Visible
    BY <1>3 DEF DeleteLease, DeadTo, Visible
  <1>4. CASE \E V \in Views : DeleteLease(V)
    <2>1. PICK V \in Views : DeleteLease(V)
      BY <1>4
    <2>2. /\ ClaimsOf(DeadTo(V)) \in SUBSET Slots
          /\ \A s \in ClaimsOf(DeadTo(V)) : cycles[s] \in Claims
      BY <1>1
    <2>3. /\ cycles' = Failed(ClaimsOf(DeadTo(V))) /\ lease' = NoLease
          /\ UNCHANGED <<ran, inst, alive, time, doomed>>
      BY <2>1 DEF DeleteLease
    <2>4. lease.owner \notin alive \cap Visible
      BY <1>3, <2>1
    <2> QED BY <1>0, <1>2, <2>2, <2>3, <2>4
  <1>5. CASE \E V \in Views : ReadClaims(V)
    BY <1>0, <1>1, <1>5 DEF ReadClaims
  <1>6. CASE FailClaims
    BY <1>0, <1>2, <1>6 DEF FailClaims
  <1> QED BY <1>4, <1>5, <1>6 DEF Script

LEMMA NextTInv ==
    ASSUME TInv, [Next]_vars
    PROVE  TInv'
  <1>0. /\ TypeOK /\ Clocked /\ RowIsThere
        /\ Ttl \in Nat /\ Interval \in Nat /\ MaxSkew \in Nat
        /\ MaxTime \in Nat
        /\ \A j \in Instances : /\ JobClock[j] \in 0 .. MaxSkew
                                /\ LocalClock[j] \in 0 .. MaxSkew
    BY LeaseAssumption DEF TInv
  <1> USE DEF Stages, Short
  <1>1. ASSUME NEW i \in Instances, Step(i) \/ Die(i)
        PROVE  TInv'
    <2>0. SlotOf(i) \in Slots
      BY <1>0, SlotType
    <2>1. lease' \in Leases
      <3>1. CASE Acquire(i) \/ Renew(i)
        BY <1>0, <3>1, GrantType DEF Acquire, Renew, TypeOK
      <3>2. CASE Release(i)
        BY <1>0, <3>2 DEF Release, TypeOK, Leases
      <3>3. CASE lease' = lease
        BY <1>0, <3>3 DEF TypeOK
      <3> QED
        BY <1>1, <3>1, <3>2, <3>3 DEF Step, Die, Observe, Read, ReadToken,
           Claim, ClaimConflict, Reclaim, Heartbeat, Finish
    <2>2. /\ cycles' \in [Slots -> {NoClaim} \cup Claims]
          /\ \A q \in Slots : cycles[q] \in Claims => cycles'[q] \in Claims
          /\ Claim(i) \/ Reclaim(i) => cycles'[SlotOf(i)] \in Claims
      <3>1. CASE Claim(i) \/ Reclaim(i)
        BY <3>1, CyclesType
      <3>2. CASE \E status \in {"completed", "failed"} : Finish(i, status)
        BY <3>2, CyclesType
      <3>3. CASE cycles' = cycles /\ ~ (Claim(i) \/ Reclaim(i))
        BY <1>0, <3>3 DEF TypeOK
      <3> QED
        BY <1>1, <3>1, <3>2, <3>3 DEF Step, Die, Observe, Read,
           ReadToken, Acquire, ClaimConflict, Heartbeat, Renew, Release
    <2>3. /\ ran' \in [Slots -> SUBSET Instances]
          /\ alive' \in SUBSET Instances
          /\ time' \in 0 .. MaxTime /\ time <= time' /\ doomed' = doomed
      BY <1>0, <1>1, <2>0 DEF Step, Die, Observe, Read, ReadToken, Acquire,
         Claim, ClaimConflict, Reclaim, Heartbeat, Renew, Finish, Release,
         TypeOK, CanTick
    <2>4. /\ inst' \in [Instances -> Memories]
          /\ \A j \in Instances \ {i} : inst'[j] = inst[j]
          /\ inst'[i].obs \in {0, inst[i].obs, time' + JobClock[i],
                               time' + LocalClock[i]}
          /\ inst'[i].pc = "reclaim" =>
                 /\ inst'[i].obs = inst[i].obs
                 /\ cycles[SlotOf(i)] # NoClaim
          /\ inst'[i].pc \in {"run", "beat"} =>
                 \/ /\ inst[i].pc \in {"run", "beat"}
                    /\ inst'[i].slot = inst[i].slot
                 \/ /\ Claim(i) \/ Reclaim(i)
                    /\ inst'[i].slot = SlotOf(i)
      <3>0. /\ IdleInst \in Memories /\ IdleInst.pc = "idle"
            /\ IdleInst.obs = 0
            /\ NoLease \in Leases /\ lease \in Leases
            /\ inst[i] \in Memories /\ inst \in [Instances -> Memories]
            /\ lease.token \in Nat /\ time + 1 \in Nat
            /\ DeadLocalOwner(i) \in BOOLEAN
            /\ time' + JobClock[i] \in Nat /\ time' + LocalClock[i] \in Nat
        <4>5. time' + JobClock[i] \in Nat /\ time' + LocalClock[i] \in Nat
          <5>1. /\ time' \in 0 .. MaxTime /\ MaxTime \in Nat
                /\ JobClock[i] \in Nat /\ LocalClock[i] \in Nat
            BY <1>0, <2>3
          <5> QED BY <5>1, ClockType
        <4>6. time + 1 \in Nat
          BY <1>0 DEF TypeOK
        <4>1. IdleInst.pc = "idle" /\ IdleInst.obs = 0
          BY DEF IdleInst
        <4>2. NoLease \in Leases
          BY DEF NoLease, Leases
        <4>3. lease \in Leases /\ lease.token \in Nat
          BY <1>0 DEF TypeOK, Leases
        <4>4. DeadLocalOwner(i) \in BOOLEAN
          BY Zenon DEF DeadLocalOwner
        <4> QED BY <1>0, <4>1, <4>2, <4>3, <4>4, <4>5, <4>6, IdleType
               DEF TypeOK
      <3>1. CASE Observe(i)
        <4>1. inst'[i] = [IdleInst EXCEPT !.pc = "read", !.obs = time' + JobClock[i]]
          BY <3>0, <3>1 DEF Observe
        <4>2. /\ inst'[i] \in Memories /\ inst'[i].obs = time' + JobClock[i]
              /\ inst'[i].pc = "read"
          BY <3>0, <4>1 DEF Memories
        <4> QED BY <3>0, <3>1, <4>2 DEF Observe
      <3>2. CASE Read(i)
        BY <3>0, <3>2 DEF Read, Memories
      <3>3. CASE Acquire(i)
        <4>1. CASE Goto(i, "token")
          BY <3>0, <4>1 DEF Goto, Memories
        <4>2. CASE Reset(i)
          BY <3>0, <4>2 DEF Reset
        <4> QED BY <3>3, <4>1, <4>2 DEF Acquire
      <3>4. CASE ReadToken(i)
        <4>1. CASE Reset(i)
          BY <3>0, <4>1 DEF Reset
        <4>2. CASE inst' = [inst EXCEPT ![i] =
                [@ EXCEPT !.pc = "claim", !.seen = NoLease, !.dead = FALSE,
                          !.token = lease.token, !.cached = lease.token]]
          BY <3>0, <4>2 DEF Memories
        <4> QED BY <3>4, <4>1, <4>2 DEF ReadToken
      <3>5. CASE Claim(i)
        BY <2>0, <3>0, <3>5 DEF Claim, Start, Memories
      <3>6. CASE ClaimConflict(i)
        BY <3>0, <3>6 DEF ClaimConflict, Goto, Memories
      <3>7. CASE Reclaim(i)
        BY <2>0, <3>0, <3>7 DEF Reclaim, Start, Memories
      <3>8. CASE Heartbeat(i)
        <4>1. CASE inst' = [inst EXCEPT ![i].beat = FALSE]
          BY <3>0, <3>8, <4>1 DEF Heartbeat, At, Memories
        <4>2. CASE inst' = [inst EXCEPT ![i].pc = "beat",
                                 ![i].obs = time' + LocalClock[i],
                                 ![i].seen = lease,
                                 ![i].dead = DeadLocalOwner(i)]
          BY <3>0, <3>8, <4>2 DEF Heartbeat, At, Memories
        <4> QED BY <3>8, <4>1, <4>2 DEF Heartbeat
      <3>9. CASE Renew(i)
        <4>1. NextToken(i) \in Nat
          BY <1>0 DEF NextToken, TypeOK, Leases, Memories
        <4> QED BY <3>0, <3>9, <4>1 DEF Renew, At, Memories
      <3>10. CASE \E status \in {"completed", "failed"} : Finish(i, status)
        BY <3>0, <3>10 DEF Finish, Goto, Memories
      <3>11. CASE Release(i) \/ Die(i)
        BY <3>0, <3>11 DEF Release, Die, Reset
      <3> QED
        BY <1>1, <3>1, <3>2, <3>3, <3>4, <3>5, <3>6, <3>7, <3>8, <3>9, <3>10,
           <3>11 DEF Step
    <2>5. TypeOK'
      BY <1>0, <2>1, <2>2, <2>3, <2>4 DEF TypeOK
    <2>6. Clocked'
      <3>1. inst[i].obs \in Nat /\ time \in Nat /\ time' \in Nat
        BY <1>0, <2>3 DEF TypeOK, Memories
      <3>2. inst'[i].obs <= time' + MaxSkew
        BY <1>0, <2>3, <2>4, <3>1 DEF Clocked
      <3>3. \A j \in Instances \ {i} : inst'[j].obs <= time' + MaxSkew
        BY <1>0, <2>3, <2>4, <3>1 DEF Clocked, TypeOK, Memories
      <3> QED BY <3>2, <3>3 DEF Clocked
    <2>7. RowIsThere'
      <3>1. ASSUME NEW j \in Instances, inst'[j].pc = "reclaim"
            PROVE  cycles'[SlotOf(j)'] \in Claims
        <4>1. SlotOf(j)' = SlotOf(j) /\ SlotOf(j) \in Slots
          BY <1>0, <2>4, <3>1, SlotType DEF SlotOf
        <4>2. cycles[SlotOf(j)] \in Claims
          BY <1>0, <2>0, <2>4, <3>1 DEF RowIsThere, TypeOK
        <4> QED BY <2>2, <4>1, <4>2
      <3>2. ASSUME NEW j \in Instances, inst'[j].pc \in {"run", "beat"}
            PROVE  cycles'[inst'[j].slot] \in Claims
        <4>1. CASE inst[j].pc \in {"run", "beat"} /\ inst'[j].slot = inst[j].slot
          <5>1. inst[j].slot \in Slots /\ cycles[inst[j].slot] \in Claims
            BY <1>0, <4>1 DEF RowIsThere, TypeOK, Memories
          <5> QED BY <2>2, <4>1, <5>1
        <4>2. CASE (Claim(i) \/ Reclaim(i)) /\ j = i /\ inst'[i].slot = SlotOf(i)
          BY <2>2, <4>2
        <4> QED BY <2>4, <3>2, <4>1, <4>2
      <3>3. ASSUME NEW s \in doomed' PROVE cycles'[s] \in Claims
        BY <1>0, <2>2, <2>3, <3>3 DEF RowIsThere, TypeOK
      <3> QED BY <3>1, <3>2, <3>3 DEF RowIsThere
    <2> QED BY <2>5, <2>6, <2>7 DEF TInv
  <1>2. CASE Tick
    <2>1. TypeOK'
      BY <1>0, <1>2 DEF Tick, CanTick, TypeOK
    <2>2. Clocked'
      BY <1>0, <1>2 DEF Tick, Clocked, TypeOK, Memories
    <2>3. RowIsThere'
      BY <1>0, <1>2 DEF Tick, RowIsThere, SlotOf
    <2> QED BY <2>1, <2>2, <2>3 DEF TInv
  <1>3. CASE UNCHANGED vars
    BY <1>0, <1>3 DEF vars, TInv, TypeOK, Clocked, RowIsThere, SlotOf
  <1>4. CASE Script
    <2>0. NoLease \in Leases
      BY DEF NoLease, Leases
    <2>1. TypeOK'
      BY <1>0, <1>4, <2>0, ScriptStep DEF TypeOK
    <2>2. Clocked'
      BY <1>0, <1>4, ScriptStep DEF Clocked
    <2>3. RowIsThere'
      <3>1. \A j \in Instances : /\ SlotOf(j)' = SlotOf(j) /\ SlotOf(j) \in Slots
                                 /\ inst'[j] = inst[j] /\ inst[j].slot \in Slots
        BY <1>0, <1>4, ScriptStep, SlotType DEF SlotOf, TypeOK, Memories
      <3> QED BY <1>0, <1>4, <3>1, ScriptStep DEF RowIsThere
    <2> QED BY <2>1, <2>2, <2>3 DEF TInv
  <1> QED BY <1>1, <1>2, <1>3, <1>4 DEF Next

\* The columns and the memory of the schedulers keep their types, whatever
\* the skew of the clocks; that a rewritten claim is a claim is the part that
\* needs an argument.
THEOREM TypeCorrect == Spec => []TypeOK
  <1>1. TInv => TypeOK
    BY DEF TInv
  <1> QED BY <1>1, InitTInv, NextTInv, PTL DEF Spec

-----------------------------------------------------------------------------
(* The lease, whatever the clocks                                          *)

\* A dead process executes nothing.
DeadIdle == \A i \in Instances \ alive : inst[i].pc = "idle"

\* Within a call the lease it writes is not expired yet, by any clock.
Timely ==
    \A i \in Instances : inst[i].pc \in Short =>
        time + MaxSkew < inst[i].obs + Ttl

\* The owner that was found dead is dead, and left the row as it was.
DeadOwner ==
    \A i \in Instances : inst[i].pc \in {"write", "beat"} /\ inst[i].dead =>
        /\ inst[i].seen.owner \in Instances \ alive
        /\ lease.owner = inst[i].seen.owner => lease.token = inst[i].seen.token

\* From the grant to the claim a run that the script sees is the leader.
Leader ==
    \A i \in Visible : inst[i].pc \in {"token", "claim", "reclaim"} =>
        lease.owner = i /\ lease.expires = inst[i].obs + Ttl

LInv == DeadIdle /\ Timely /\ DeadOwner /\ Leader

\* The row changes by a step of a live scheduler, which then owns it; it owned
\* it before, or the row had expired by some clock, or its owner is dead.
LEMMA LeaseStep ==
    ASSUME TInv, LInv, NEW i \in Instances, Step(i) \/ Die(i), lease' # lease
    PROVE  /\ i \in alive /\ alive' = alive
           /\ lease'.owner = i
           /\ inst'[i].pc # inst[i].pc
           /\ lease.owner # i =>
                  ~ (lease.owner \in alive /\ time + MaxSkew < lease.expires)
  <1>0. /\ TypeOK /\ NoOwner \notin Instances /\ MaxSkew \in Nat
        /\ inst \in [Instances -> Memories] /\ inst[i] \in Memories
        /\ lease \in Leases /\ time \in Nat /\ alive \subseteq Instances
    BY LeaseAssumption DEF TInv, TypeOK
  <1>1. CASE Acquire(i) \/ Renew(i)
    <2>1. /\ Grant(i) /\ Effective(i) /\ i \in alive
          /\ inst[i].pc \in {"write", "beat"} /\ alive' = alive
          /\ inst'[i].pc \in {"token", "run"}
      BY <1>0, <1>1 DEF Acquire, Renew, At, Goto, Memories
    <2>2. lease'.owner = i
      BY <2>1 DEF Grant
    <2>3. inst[i].obs \in Nat /\ inst[i].obs <= time + MaxSkew
      BY <1>0 DEF TInv, Clocked, Memories
    <2>4. ASSUME lease.owner # i
          PROVE  ~ (lease.owner \in alive /\ time + MaxSkew < lease.expires)
      <3>1. lease.expires \in Nat
        BY <1>0 DEF Leases
      <3>2. CASE lease.expires <= inst[i].obs
        BY <1>0, <2>3, <3>1, <3>2
      <3>3. CASE inst[i].dead /\ lease.owner = inst[i].seen.owner
        BY <2>1, <3>3 DEF LInv, DeadOwner
      <3> QED BY <2>1, <2>4, <3>2, <3>3 DEF Effective
    <2> QED BY <2>1, <2>2, <2>4
  <1>2. CASE Release(i)
    <2>1. /\ ReleaseMatches(i)
          /\ lease' = [lease EXCEPT !.expires = time + 1 + LocalClock[i]]
          /\ inst[i].pc = "release" /\ inst'[i].pc = "idle"
          /\ i \in alive /\ alive' = alive
      BY <1>0, <1>2 DEF Release, At, Reset, IdleInst
    <2> QED BY <1>0, <2>1 DEF ReleaseMatches, Leases
  <1> QED
    BY <1>1, <1>2 DEF Step, Die, Observe, Read, ReadToken, Claim,
       ClaimConflict, Reclaim, Heartbeat, Finish

LEMMA InitLInv ==
    ASSUME Init PROVE LInv
  BY DEF Init, LInv, DeadIdle, Timely, DeadOwner, Leader, IdleInst, Short,
         Visible

\* Reading the token of the run.
LEMMA TokenRead ==
    ASSUME TypeOK, NEW i \in Instances, ReadToken(i)
    PROVE  /\ inst[i].pc = "token" /\ i \in alive
           /\ UNCHANGED <<lease, cycles, ran, alive, time>>
           /\ \/ inst'[i].pc = "idle"
              \/ inst'[i].pc = "claim" /\ inst'[i].obs = inst[i].obs
  <1>0. inst \in [Instances -> Memories] /\ inst[i] \in Memories
    BY DEF TypeOK
  <1>1. CASE Reset(i)
    BY <1>0, <1>1 DEF ReadToken, At, Reset, IdleInst
  <1>2. CASE inst' = [inst EXCEPT ![i] =
                [@ EXCEPT !.pc = "claim", !.seen = NoLease, !.dead = FALSE,
                          !.token = lease.token, !.cached = lease.token]]
    BY <1>0, <1>2 DEF ReadToken, At, Memories
  <1> QED BY <1>1, <1>2 DEF ReadToken

\* What a step of one scheduler leaves alone, and how the clock advances.
LEMMA Others ==
    ASSUME TypeOK, NEW i \in Instances, Step(i) \/ Die(i)
    PROVE  /\ \A j \in Instances \ {i} : inst'[j] = inst[j]
           /\ alive' \in {alive, alive \ {i}}
           /\ time' = time \/ (time' = time + 1 /\ CanTick)
  BY DEF Step, Die, Observe, Read, ReadToken, Acquire, Claim, ClaimConflict,
         Reclaim, Heartbeat, Renew, Finish, Release, Goto, Reset, Start,
         TypeOK

\* What a step makes of the scheduler itself.
LEMMA Itself ==
    ASSUME TInv, LInv, NEW i \in Instances, Step(i) \/ Die(i)
    PROVE  /\ i \notin alive' => inst'[i].pc = "idle"
           /\ inst'[i].pc \in Short => time' + MaxSkew < inst'[i].obs + Ttl
           /\ inst'[i].pc \in {"write", "beat"} =>
                  /\ lease' = lease /\ alive' = alive
                  /\ inst'[i].seen = lease
                  /\ inst'[i].dead => DeadLocalOwner(i)
           /\ i \in Visible /\ inst'[i].pc \in {"token", "claim", "reclaim"} =>
                  /\ i \in alive
                  /\ lease'.owner = i
                  /\ lease'.expires = inst'[i].obs + Ttl
  <1>0. /\ TypeOK /\ Ttl \in Nat \ {0}
        /\ MaxSkew \in Nat /\ MaxSkew < Ttl
        /\ JobClock[i] \in Nat /\ LocalClock[i] \in Nat
        /\ inst \in [Instances -> Memories] /\ inst[i] \in Memories
        /\ inst[i].obs \in Nat /\ time \in Nat
    BY LeaseAssumption DEF TInv, TypeOK, Memories
  <1>1. inst[i].pc \in Short => time + MaxSkew < inst[i].obs + Ttl
    BY DEF LInv, Timely
  <1>2. i \in Visible /\ inst[i].pc \in {"token", "claim", "reclaim"} =>
            lease.owner = i /\ lease.expires = inst[i].obs + Ttl
    BY DEF LInv, Leader
  <1>3. CASE Observe(i)
    <2>1. inst'[i] = [IdleInst EXCEPT !.pc = "read",
                                      !.obs = time' + JobClock[i]]
      BY <1>0, <1>3 DEF Observe
    <2>2. /\ inst'[i].pc = "read" /\ time' = time + 1
          /\ inst'[i].obs = time + 1 + JobClock[i]
      BY <1>0, <1>3, <2>1 DEF Observe, IdleInst
    <2> QED BY <1>0, <1>3, <2>2 DEF Observe, At
  <1>4. CASE Read(i)
    BY <1>0, <1>1, <1>4 DEF Read, At, Memories, Short
  <1>5. CASE Acquire(i)
    BY <1>0, <1>1, <1>5 DEF Acquire, Grant, At, Goto, Reset, IdleInst,
       Memories, Short
  <1>6. CASE ReadToken(i)
    BY <1>0, <1>1, <1>2, <1>6, TokenRead DEF Short
  <1>7. CASE Claim(i) \/ Reclaim(i)
    BY <1>0, <1>7 DEF Claim, Reclaim, Start, At, Memories, Short
  <1>8. CASE ClaimConflict(i)
    BY <1>0, <1>1, <1>2, <1>8 DEF ClaimConflict, Goto, At, Memories, Short
  <1>9. CASE Heartbeat(i)
    BY <1>0, <1>9 DEF Heartbeat, At, Memories, Short
  <1>10. CASE Renew(i)
    BY <1>0, <1>10 DEF Renew, At, Memories, Short
  <1>11. CASE \E status \in {"completed", "failed"} : Finish(i, status)
    BY <1>0, <1>11 DEF Finish, At, Goto, Memories, Short
  <1>12. CASE Release(i) \/ Die(i)
    BY <1>0, <1>12 DEF Release, Die, At, Reset, IdleInst, Short
  <1> QED
    BY <1>3, <1>4, <1>5, <1>6, <1>7, <1>8, <1>9, <1>10, <1>11, <1>12 DEF Step

LEMMA NextLInv ==
    ASSUME TInv, LInv, [Next]_vars
    PROVE  LInv'
  <1>0. /\ TypeOK /\ Ttl \in Nat \ {0} /\ MaxSkew \in Nat
        /\ inst \in [Instances -> Memories] /\ time \in Nat
        /\ \A j \in Instances : inst[j].obs \in Nat
    BY LeaseAssumption DEF TInv, TypeOK, Memories
  <1>1. ASSUME NEW i \in Instances, Step(i) \/ Die(i)
        PROVE  LInv'
    <2>1. /\ \A j \in Instances \ {i} : inst'[j] = inst[j]
          /\ alive' \in {alive, alive \ {i}}
          /\ time' = time \/ (time' = time + 1 /\ CanTick)
      BY <1>0, <1>1, Others
    <2>2. DeadIdle'
      BY <1>1, <2>1, Itself DEF LInv, DeadIdle
    <2>3. Timely'
      <3>1. ASSUME NEW j \in Instances \ {i}, inst'[j].pc \in Short
            PROVE  time' + MaxSkew < inst'[j].obs + Ttl
        <4>1. j \in alive /\ inst[j].pc \in Short
          BY <2>1, <3>1 DEF LInv, DeadIdle, Short
        <4>2. time + MaxSkew < inst[j].obs + Ttl
          BY <4>1 DEF LInv, Timely
        <4> QED BY <1>0, <2>1, <4>1, <4>2 DEF CanTick
      <3>2. inst'[i].pc \in Short => time' + MaxSkew < inst'[i].obs + Ttl
        BY <1>1, Itself
      <3> QED BY <3>1, <3>2 DEF Timely
    <2>4. DeadOwner'
      <3>1. ASSUME NEW j \in Instances \ {i},
                   inst'[j].pc \in {"write", "beat"}, inst'[j].dead
            PROVE  /\ inst'[j].seen.owner \in Instances \ alive'
                   /\ lease'.owner = inst'[j].seen.owner =>
                          lease'.token = inst'[j].seen.token
        <4>1. /\ inst[j].seen.owner \in Instances \ alive
              /\ lease.owner = inst[j].seen.owner =>
                     lease.token = inst[j].seen.token
          BY <2>1, <3>1 DEF LInv, DeadOwner
        <4>2. lease' # lease => lease'.owner \in alive
          BY <1>1, LeaseStep
        <4> QED BY <2>1, <4>1, <4>2
      <3>2. inst'[i].pc \in {"write", "beat"} /\ inst'[i].dead =>
                /\ inst'[i].seen = lease' /\ alive' = alive
                /\ lease.owner \in Instances \ alive /\ lease' = lease
        BY <1>1, Itself DEF DeadLocalOwner
      <3> QED BY <3>1, <3>2 DEF DeadOwner
    <2>5. Leader'
      <3>1. ASSUME NEW j \in Visible \ {i},
                   inst'[j].pc \in {"token", "claim", "reclaim"}
            PROVE  /\ lease'.owner = j
                   /\ lease'.expires = inst'[j].obs + Ttl
        <4>1. /\ j \in alive /\ lease.owner = j
              /\ lease.expires = inst[j].obs + Ttl
              /\ time + MaxSkew < inst[j].obs + Ttl /\ inst'[j] = inst[j]
          BY <2>1, <3>1 DEF LInv, Leader, Timely, DeadIdle, Short, Visible
        <4>2. lease' = lease
          BY <1>1, <4>1, LeaseStep
        <4> QED BY <4>1, <4>2
      <3>2. i \in Visible /\ inst'[i].pc \in {"token", "claim", "reclaim"} =>
                lease'.owner = i /\ lease'.expires = inst'[i].obs + Ttl
        BY <1>1, Itself
      <3> QED BY <3>1, <3>2 DEF Leader
    <2> QED BY <2>2, <2>3, <2>4, <2>5 DEF LInv
  <1>2. CASE Tick
    <2>1. Timely'
      <3>1. ASSUME NEW j \in Instances, inst[j].pc \in Short
            PROVE  time' + MaxSkew < inst[j].obs + Ttl
        <4>1. j \in alive
          BY <3>1 DEF LInv, DeadIdle, Short
        <4> QED BY <1>0, <1>2, <3>1, <4>1 DEF Tick, CanTick
      <3> QED BY <1>2, <3>1 DEF Tick, Timely
    <2> QED
      BY <1>2, <2>1 DEF Tick, LInv, DeadIdle, DeadOwner, Leader
  <1>3. CASE UNCHANGED vars
    BY <1>3 DEF vars, LInv, DeadIdle, Timely, DeadOwner, Leader
  <1>4. CASE Script
    <2>1. /\ UNCHANGED <<inst, alive, time>>
          /\ lease' = lease \/ (lease' = NoLease
                                 /\ lease.owner \notin alive \cap Visible)
      BY <1>4, ScriptStep
    <2>2. DeadIdle' /\ Timely'
      BY <2>1 DEF LInv, DeadIdle, Timely
    <2>3. DeadOwner'
      BY <2>1, LeaseAssumption DEF LInv, DeadOwner, NoLease
    <2>4. Leader'
      BY <2>1 DEF LInv, Leader, DeadIdle, Visible
    <2> QED BY <2>2, <2>3, <2>4 DEF LInv
  <1> QED BY <1>1, <1>2, <1>3, <1>4 DEF Next

\* Nobody touches the lease of a live scheduler that no clock has expired:
\* neither a standby, nor a late heartbeat, nor the release of an earlier
\* leader, nor a script that sees the scheduler.
THEOREM LeasesAreTheirOwners == Spec => LeaseIsItsOwners
  <1>1. ASSUME TInv, LInv, [Next]_vars, NEW o \in alive \cap Visible,
               lease.owner = o, time + MaxSkew < lease.expires,
               lease' # lease
        PROVE  lease'.owner = o /\ inst'[o] # inst[o]
    <2>1. PICK i \in Instances : Step(i) \/ Die(i)
      BY <1>1, ScriptStep DEF Next, Tick, vars
    <2> QED BY <1>1, <2>1, LeaseStep
  <1>2. TInv /\ LInv /\ [Next]_vars =>
            [\A o \in alive \cap Visible :
                lease.owner = o /\ time + MaxSkew < lease.expires
                    /\ lease' # lease
                => lease'.owner = o /\ inst'[o] # inst[o]]_vars
    BY <1>1
  <1>3. TInv /\ LInv /\ [Next]_vars => TInv' /\ LInv'
    BY NextTInv, NextLInv
  <1> QED
    BY <1>2, <1>3, InitTInv, InitLInv, PTL DEF Spec, LeaseIsItsOwners

-----------------------------------------------------------------------------
(* The token                                                               *)

\* Is the scheduler in a run that was granted the lease?
Underway(o) == o \in alive /\ inst[o].pc \in Holding

\* The row an update is computed from is still the row, or the update will
\* not find it expired, or the row is not that of a run under way.
SeenRow ==
    \A i \in Instances : inst[i].pc \in {"write", "beat"} =>
        \/ lease = inst[i].seen
        \/ inst[i].obs < lease.expires
        \/ ~ Underway(lease.owner)

\* A scheduler enters a run by a grant, and a grant has expired for nobody's
\* observation; a release ends the run.
LEMMA HoldingStep ==
    ASSUME TInv, LInv, NEW i \in Instances, Step(i) \/ Die(i)
    PROVE  \/ \A j \in Instances : inst[j].obs < lease'.expires
           \/ inst'[i].pc \notin Holding
           \/ lease' = lease /\ inst[i].pc \in Holding
  <1>0. /\ inst \in [Instances -> Memories] /\ inst[i] \in Memories
        /\ time \in Nat /\ Ttl \in Nat /\ MaxSkew \in Nat
        /\ \A j \in Instances : inst[j].obs \in Nat /\ inst[j].obs <= time + MaxSkew
    BY LeaseAssumption DEF TInv, TypeOK, Clocked, Memories
  <1>1. CASE Grant(i) /\ inst[i].pc \in {"write", "beat"}
    <2>1. time + MaxSkew < inst[i].obs + Ttl /\ lease'.expires = inst[i].obs + Ttl
      BY <1>1 DEF LInv, Timely, Short, Grant
    <2> QED BY <1>0, <2>1
  <1>2. CASE Observe(i)
    <2>1. inst'[i] = [IdleInst EXCEPT !.pc = "read",
                                      !.obs = time' + JobClock[i]]
      BY <1>0, <1>2 DEF Observe
    <2> QED BY <2>1 DEF IdleInst, Holding
  <1>3. CASE Read(i) \/ Release(i) \/ Die(i)
    BY <1>0, <1>3 DEF Read, Release, Die, Reset, IdleInst, Memories, Holding
  <1>4. CASE Acquire(i) \/ Renew(i)
    BY <1>0, <1>1, <1>4 DEF Acquire, Renew, At, Reset, IdleInst, Memories,
       Holding
  <1>5. CASE \/ ReadToken(i) \/ Claim(i) \/ ClaimConflict(i) \/ Reclaim(i)
             \/ Heartbeat(i)
             \/ \E status \in {"completed", "failed"} : Finish(i, status)
    BY <1>5 DEF ReadToken, Claim, ClaimConflict, Reclaim, Heartbeat, Finish,
       At, Holding
  <1> QED BY <1>1, <1>2, <1>3, <1>4, <1>5 DEF Step

LEMMA NextSeenRow ==
    ASSUME TInv, LInv, SeenRow, [Next]_vars
    PROVE  SeenRow'
  <1>0. /\ TypeOK /\ alive \subseteq Instances /\ NoOwner \notin Instances
        /\ lease \in Leases
    BY LeaseAssumption DEF TInv, TypeOK
  <1>1. ASSUME NEW i \in Instances, Step(i) \/ Die(i)
        PROVE  SeenRow'
    <2>1. /\ \A j \in Instances \ {i} : inst'[j] = inst[j]
          /\ alive' \in {alive, alive \ {i}}
      BY <1>0, <1>1, Others
    <2>2. lease' # lease => lease'.owner = i
      BY <1>1, LeaseStep
    <2>3. ASSUME NEW j \in Instances \ {i},
                 inst'[j].pc \in {"write", "beat"}
          PROVE  \/ lease' = inst'[j].seen
                 \/ inst'[j].obs < lease'.expires
                 \/ ~ Underway(lease.owner)'
      <3>1. CASE \A k \in Instances : inst[k].obs < lease'.expires
        BY <2>1, <2>3, <3>1
      <3>2. CASE inst'[i].pc \notin Holding /\ lease'.owner = i
        BY <3>2 DEF Underway
      <3>3. CASE /\ lease' = lease
                 /\ lease.owner = i => inst[i].pc \in Holding
        <4>1. Underway(lease.owner)' => Underway(lease.owner)
          BY <1>0, <2>1, <3>3 DEF Underway
        <4> QED BY <2>1, <2>3, <3>3, <4>1 DEF SeenRow
      <3> QED BY <1>1, <2>2, <3>1, <3>2, <3>3, HoldingStep
    <2>4. inst'[i].pc \in {"write", "beat"} => lease' = inst'[i].seen
      BY <1>1, Itself
    <2> QED BY <2>3, <2>4 DEF SeenRow
  <1>2. CASE Script
    <2>1. /\ UNCHANGED <<inst, alive>>
          /\ lease' = lease \/ lease'.owner = NoOwner
      BY <1>2, ScriptStep DEF NoLease
    <2> QED BY <1>0, <2>1 DEF SeenRow, Underway
  <1>3. CASE UNCHANGED <<lease, inst, alive>>
    BY <1>3 DEF SeenRow, Underway
  <1> QED BY <1>1, <1>2, <1>3 DEF Next, Tick, vars

\* The token of a run under way grows when its lease passes on, although it is
\* computed from a row read in an earlier statement, and whatever clocks the
\* lease was granted, judged and released by.
THEOREM TakeoversRaiseToken == Spec => TakeoverRaisesToken
  <1>1. ASSUME TInv, LInv, SeenRow, [Next]_vars, NEW o \in alive,
               lease.owner = o, inst[o].pc \in Holding,
               lease'.owner \in Instances \ {o}
        PROVE  lease'.token > lease.token
    <2>0. /\ lease \in Leases /\ lease.expires \in Nat /\ lease.token \in Nat
          /\ inst \in [Instances -> Memories]
          /\ o \in Instances /\ NoOwner \notin Instances
      BY <1>1, LeaseAssumption DEF TInv, TypeOK, Leases
    <2>1. PICK i \in Instances : Step(i) \/ Die(i)
      BY <1>1, <2>0, ScriptStep DEF Next, Tick, vars, NoLease
    <2>2. lease' # lease /\ lease'.owner = i /\ i # o
      BY <1>1, <2>1, LeaseStep
    <2>3. ~ Release(i)
      BY <1>1, <2>0, <2>2 DEF Release, ReleaseMatches
    <2>4. Acquire(i) \/ Renew(i)
      BY <2>1, <2>2, <2>3 DEF Step, Die, Observe, Read, ReadToken, Claim,
         ClaimConflict, Reclaim, Heartbeat, Finish
    <2>5. /\ Grant(i) /\ Effective(i) /\ inst[i].pc \in {"write", "beat"}
      BY <2>2, <2>4 DEF Acquire, Renew, At
    <2>6. ~ (inst[i].dead /\ lease.owner = inst[i].seen.owner)
      BY <1>1, <2>5 DEF LInv, DeadOwner
    <2>7. lease.expires <= inst[i].obs
      BY <1>1, <2>2, <2>5, <2>6 DEF Effective
    <2>8. inst[i].obs \in Nat
      BY <2>0 DEF Memories
    <2>9. lease = inst[i].seen
      BY <1>1, <2>0, <2>5, <2>7, <2>8 DEF SeenRow, Underway
    <2>10. lease'.token = lease.token + 1
      BY <1>1, <2>2, <2>5, <2>9 DEF Grant, NextToken
    <2> QED BY <2>0, <2>10
  <1>2. Init => SeenRow
    BY DEF Init, SeenRow, IdleInst
  <1>3. TInv /\ LInv /\ SeenRow /\ [Next]_vars =>
            [\A o \in alive :
                /\ lease.owner = o /\ inst[o].pc \in Holding
                /\ lease'.owner \in Instances \ {o}
                => lease'.token > lease.token]_vars
    BY <1>1
  <1>4. TInv /\ LInv /\ SeenRow /\ [Next]_vars => TInv' /\ LInv' /\ SeenRow'
    BY NextTInv, NextLInv, NextSeenRow
  <1> QED
    BY <1>2, <1>3, <1>4, InitTInv, InitLInv, PTL DEF Spec, TakeoverRaisesToken

-----------------------------------------------------------------------------
(* The slots                                                               *)

\* Are all schedulers of the host of this one seen by the script?
Sure(i) == \A k \in Instances : Host[k] = Host[i] => k \in Visible

\* A slot without a claim was not run; whoever ran a slot is of the host of the
\* scheduler that its claim names and, if it is not that scheduler, dead.
NamedOrDead ==
    \A s \in Slots :
        /\ cycles[s] = NoClaim => ran[s] = {}
        /\ \A r \in ran[s] : /\ Host[r] = Host[cycles[s].by]
                             /\ Sure(r) /\ r # cycles[s].by => r \notin alive

\* The scheduler named by a claim about to be rewritten is of the same host and
\* still dead, and nobody else rewrites the claim.
DeadClaim ==
    \A i \in Instances : inst[i].pc = "reclaim" =>
        /\ Host[cycles[SlotOf(i)].by] = Host[i]
        /\ Sure(i) => cycles[SlotOf(i)].by \notin alive

SInv == NamedOrDead /\ DeadClaim

LEMMA NextSInv ==
    ASSUME TInv, LInv, SInv, [Next]_vars
    PROVE  SInv'
  <1>0. /\ TypeOK /\ Clocked /\ RowIsThere
        /\ inst \in [Instances -> Memories]
        /\ cycles \in [Slots -> {NoClaim} \cup Claims]
        /\ ran \in [Slots -> SUBSET Instances]
        /\ NoClaim \notin Claims
    <2>1. NoClaim \notin Claims
      BY DEF NoClaim, Claims
    <2> QED BY <2>1 DEF TInv, TypeOK
  <1>1. ASSUME NEW i \in Instances, Step(i) \/ Die(i)
        PROVE  SInv'
    <2>0. SlotOf(i) \in Slots
      BY <1>0, SlotType
    <2>1. /\ \A j \in Instances \ {i} : inst'[j] = inst[j]
          /\ alive' \subseteq alive
      BY <1>0, <1>1, Others
    <2>2. CASE Claim(i)
      <3>1. /\ cycles' = [cycles EXCEPT ![SlotOf(i)] = NewClaim(i)]
            /\ ran' = [ran EXCEPT ![SlotOf(i)] = @ \cup {i}]
            /\ cycles[SlotOf(i)] = NoClaim /\ inst'[i].pc = "run"
            /\ NewClaim(i) \in Claims /\ NewClaim(i).by = i
        BY <1>0, <2>2 DEF Claim, Start, NewClaim, Claims, Memories
      <3>2. NamedOrDead'
        <4>1. \A s \in Slots \ {SlotOf(i)} :
                  cycles'[s] = cycles[s] /\ ran'[s] = ran[s]
          BY <1>0, <3>1
        <4>2. /\ cycles'[SlotOf(i)] = NewClaim(i)
              /\ ran'[SlotOf(i)] = {i}
          BY <1>0, <2>0, <3>1 DEF SInv, NamedOrDead
        <4> QED BY <1>0, <2>1, <3>1, <4>1, <4>2 DEF SInv, NamedOrDead
      <3>3. DeadClaim'
        <4>1. ASSUME NEW j \in Instances, inst'[j].pc = "reclaim"
              PROVE  /\ Host[cycles'[SlotOf(j)'].by] = Host[j]
                     /\ Sure(j) => cycles'[SlotOf(j)'].by \notin alive'
          <5>1. inst'[j] = inst[j] /\ SlotOf(j)' = SlotOf(j)
            BY <2>1, <3>1, <4>1 DEF SlotOf
          <5>2. cycles[SlotOf(j)] \in Claims /\ SlotOf(j) \in Slots
            BY <1>0, <4>1, <5>1, SlotType DEF RowIsThere
          <5> QED BY <1>0, <2>1, <3>1, <4>1, <5>1, <5>2 DEF SInv, DeadClaim
        <4> QED BY <4>1 DEF DeadClaim
      <3> QED BY <3>2, <3>3 DEF SInv
    <2>3. CASE Reclaim(i)
      <3>1. /\ cycles' = [cycles EXCEPT ![SlotOf(i)].by = i]
            /\ ran' = [ran EXCEPT ![SlotOf(i)] = @ \cup {i}]
            /\ inst[i].pc = "reclaim" /\ inst'[i].pc = "run"
            /\ cycles[SlotOf(i)] \in Claims
        BY <1>0, <2>3 DEF Reclaim, Start, At, Memories, RowIsThere
      <3>2. /\ cycles'[SlotOf(i)].by = i /\ cycles'[SlotOf(i)] # NoClaim
            /\ ran'[SlotOf(i)] = ran[SlotOf(i)] \cup {i}
            /\ \A s \in Slots \ {SlotOf(i)} :
                   cycles'[s] = cycles[s] /\ ran'[s] = ran[s]
        BY <1>0, <2>0, <3>1 DEF Claims, NoClaim
      <3>3. /\ Host[cycles[SlotOf(i)].by] = Host[i]
            /\ Sure(i) => cycles[SlotOf(i)].by \notin alive
        BY <3>1 DEF SInv, DeadClaim
      <3>4. \A r \in ran[SlotOf(i)] : /\ Host[r] = Host[i]
                                      /\ Sure(r) => r \notin alive
        <4>1. ASSUME NEW r \in ran[SlotOf(i)]
              PROVE  Host[r] = Host[i] /\ (Sure(r) => r \notin alive)
          <5>1. /\ Host[r] = Host[i]
                /\ Sure(r) /\ r # cycles[SlotOf(i)].by => r \notin alive
            BY <2>0, <3>3, <4>1 DEF SInv, NamedOrDead
          <5>2. Sure(r) => Sure(i)
            BY <5>1 DEF Sure
          <5> QED BY <3>3, <5>1, <5>2
        <4> QED BY <4>1
      <3>5. NamedOrDead'
        BY <2>1, <3>2, <3>4 DEF SInv, NamedOrDead
      <3>6. DeadClaim'
        <4>1. ASSUME NEW j \in Instances, inst'[j].pc = "reclaim"
              PROVE  /\ Host[cycles'[SlotOf(j)'].by] = Host[j]
                     /\ Sure(j) => cycles'[SlotOf(j)'].by \notin alive'
          <5>1. j # i /\ inst'[j] = inst[j] /\ SlotOf(j)' = SlotOf(j)
            BY <2>1, <3>1, <4>1 DEF SlotOf
          <5>2. /\ Host[cycles[SlotOf(j)].by] = Host[j] /\ SlotOf(j) \in Slots
                /\ Sure(j) => cycles[SlotOf(j)].by \notin alive
            BY <1>0, <4>1, <5>1, SlotType DEF SInv, DeadClaim
          <5>3. CASE SlotOf(j) = SlotOf(i)
            <6>1. Host[j] = Host[i]
              BY <3>3, <5>2, <5>3
            <6>2. ~ Sure(j)
              <7>1. Sure(j) => i \in Visible /\ j \in Visible
                BY <6>1 DEF Sure
              <7> QED BY <3>1, <4>1, <5>1, <7>1 DEF LInv, Leader
            <6> QED BY <3>2, <5>1, <5>3, <6>1, <6>2
          <5>4. CASE SlotOf(j) # SlotOf(i)
            BY <2>1, <3>2, <5>1, <5>2, <5>4
          <5> QED BY <5>3, <5>4
        <4> QED BY <4>1 DEF DeadClaim
      <3> QED BY <3>5, <3>6 DEF SInv
    <2>4. CASE \E status \in {"completed", "failed"} : Finish(i, status)
      <3>1. PICK status \in {"completed", "failed"} : Finish(i, status)
        BY <2>4
      <3>2. /\ \A q \in Slots : /\ cycles'[q].by = cycles[q].by
                                /\ cycles'[q] = NoClaim => cycles[q] = NoClaim
            /\ ran' = ran
        <4> DEFINE s == inst[i].slot
        <4>1. /\ cycles' = [cycles EXCEPT ![s].status = status]
              /\ cycles[s] \in Claims /\ s \in Slots
          BY <1>0, <3>1 DEF Finish, At, RowIsThere, Memories
        <4>2. cycles'[s].by = cycles[s].by /\ cycles'[s] # NoClaim
          BY <1>0, <4>1 DEF Claims, NoClaim
        <4> QED BY <1>0, <3>1, <4>1, <4>2 DEF Finish
      <3>3. \A j \in Instances : inst'[j].pc = "reclaim" => inst'[j] = inst[j]
        BY <1>0, <2>1, <3>1 DEF Finish, Goto, Memories
      <3>4. NamedOrDead'
        BY <2>1, <3>2 DEF SInv, NamedOrDead
      <3>5. DeadClaim'
        BY <1>0, <2>1, <3>2, <3>3, SlotType DEF SInv, DeadClaim, SlotOf
      <3> QED BY <3>4, <3>5 DEF SInv
    <2>5. CASE ClaimConflict(i)
      <3>1. /\ UNCHANGED <<cycles, ran, alive>> /\ inst'[i].obs = inst[i].obs
            /\ inst'[i].pc = "reclaim" => Reclaimable(i)
        BY <1>0, <2>5 DEF ClaimConflict, Goto, Memories
      <3>2. NamedOrDead'
        BY <3>1 DEF SInv, NamedOrDead
      <3>3. DeadClaim'
        BY <2>1, <3>1 DEF SInv, DeadClaim, Reclaimable, SlotOf
      <3> QED BY <3>2, <3>3 DEF SInv
    <2>6. CASE /\ UNCHANGED <<cycles, ran>>
               /\ inst'[i].pc # "reclaim"
      BY <2>1, <2>6 DEF SInv, NamedOrDead, DeadClaim, SlotOf
    <2>7. CASE \/ Observe(i) \/ Read(i) \/ Acquire(i) \/ ReadToken(i)
               \/ Heartbeat(i) \/ Renew(i) \/ Release(i) \/ Die(i)
      <3>1. inst'[i].pc # "reclaim"
        <4>1. CASE Observe(i)
          <5>1. inst'[i] = [IdleInst EXCEPT !.pc = "read",
                                            !.obs = time' + JobClock[i]]
            BY <1>0, <4>1 DEF Observe
          <5> QED BY <5>1 DEF IdleInst
        <4>2. CASE Read(i) \/ ReadToken(i)
          BY <1>0, <4>2, TokenRead DEF Read, Memories
        <4>4. CASE Acquire(i)
          BY <1>0, <4>4 DEF Acquire, Goto, Reset, IdleInst, Memories
        <4>3. CASE Heartbeat(i) \/ Renew(i) \/ Release(i) \/ Die(i)
          BY <1>0, <4>3 DEF Heartbeat, Renew, Release, Die, At, Reset,
             IdleInst, Memories
        <4> QED BY <2>7, <4>1, <4>2, <4>3, <4>4
      <3>2. UNCHANGED <<cycles, ran>>
        BY <2>7 DEF Observe, Read, Acquire, ReadToken, Heartbeat, Renew,
           Release, Die
      <3> QED BY <2>6, <3>1, <3>2
    <2> QED BY <1>1, <2>2, <2>3, <2>4, <2>5, <2>7 DEF Step
  <1>2. CASE UNCHANGED <<cycles, ran, inst, alive>>
    BY <1>2 DEF SInv, NamedOrDead, DeadClaim, SlotOf
  <1>3. CASE Script
    <2>1. /\ UNCHANGED <<ran, inst, alive>>
          /\ \A s \in Slots : /\ cycles'[s].by = cycles[s].by
                              /\ cycles'[s] = NoClaim => cycles[s] = NoClaim
      BY <1>3, ScriptStep
    <2>2. \A j \in Instances : SlotOf(j)' = SlotOf(j) /\ SlotOf(j) \in Slots
      BY <1>0, <2>1, SlotType DEF SlotOf
    <2>3. NamedOrDead'
      BY <2>1 DEF SInv, NamedOrDead
    <2>4. DeadClaim'
      BY <2>1, <2>2 DEF SInv, DeadClaim
    <2> QED BY <2>3, <2>4 DEF SInv
  <1> QED BY <1>1, <1>2, <1>3 DEF Next, Tick, vars

\* No two live schedulers of a host that the script sees run a slot: the claim of a dead scheduler is
\* rewritten without a condition, and it is the lease that keeps a second
\* scheduler of the host from rewriting it too.
THEOREM SlotsRunOnce == Spec => []SlotRunsOnce
  <1>1. Init => SInv
    BY DEF Init, SInv, NamedOrDead, DeadClaim, IdleInst
  <1>2. TInv /\ LInv /\ SInv /\ [Next]_vars => TInv' /\ LInv' /\ SInv'
    BY NextTInv, NextLInv, NextSInv
  <1>3. SInv => SlotRunsOnce
    BY DEF SInv, NamedOrDead, SlotRunsOnce, Sure
  <1> QED
    BY <1>1, <1>2, <1>3, InitTInv, InitLInv, PTL DEF Spec
=============================================================================
