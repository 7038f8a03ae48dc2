------------------------ MODULE AccountWriterProofs ------------------------
(***************************************************************************)
(* Proofs about AccountWriter, for every set of owners, workers and        *)
(* databases, every lease length and every bound on the clock.             *)
(***************************************************************************)
EXTENDS AccountWriter, TLAPS

\* Every definition that only groups variables.
USE DEF registryVars, supervisorVars, exchangeVars

(***************************************************************************)
(* The inductive invariant.  GenerationsUnique alone is not inductive: it  *)
(* must also be known that no capability is ahead of the registry and that *)
(* one of the registry's own generation is the registry's record, unless a *)
(* rebind dropped the owner.                                               *)
(***************************************************************************)

\* No capability is ahead of the registry, and a capability of the registry's
\* generation agrees with the record unless the record has lost its owner.
Bounded ==
    \A c \in Capabilities :
        /\ c.owner \in Owners
        /\ c.generation <= reg.generation
        /\ c.generation = reg.generation /\ reg.owner # NoOwner =>
                c.owner = reg.owner /\ c.db = reg.db

\* An unbound account has no owner.
UnboundUnowned == reg.db = NoDb => reg.owner = NoOwner

\* A supervisor past its acquire holds a capability in its own name.
LeaseInOwnName ==
    \A o \in Owners :
        /\ lease[o] # NoCapability => lease[o].owner = o
        /\ sup[o] \in {"holding", "renewing"} => lease[o] # NoCapability

\* Only a running worker holds the lock, and a worker that runs has a
\* capability.
GuardRunning ==
    /\ guard # NoWorker => worker[guard].running
    /\ \A w \in Workers : worker[w].running => worker[w].cap # NoCapability

\* The clock never ran backwards past a reading, and no mutation was sent for
\* a generation the registry has not reached.
History ==
    /\ \A o \in Owners : request[o].observed <= now
    /\ written <= reg.generation

IInv ==
    /\ TypeOK
    /\ Bounded
    /\ UnboundUnowned
    /\ LeaseInOwnName
    /\ GuardRunning
    /\ History
    /\ FencedMutation
    /\ GenerationsUnique

-----------------------------------------------------------------------------
(* Type correctness                                                        *)

USE AccountWriterAssumption

LEMMA InitType == Init => TypeOK
  BY DEF Init, TypeOK, Phases, Capability, NoCapability, NoLease

\* Killing a worker keeps the types of what it touches.
LEMMA KillType ==
    ASSUME TypeOK, NEW w \in Workers \cup {NoWorker}, Kill(w)
    PROVE  /\ worker' \in [Workers -> [running : BOOLEAN, cap : Capability]]
           /\ guard' \in Workers \cup {NoWorker}
           /\ wire' \subseteq Capability
  <1>1. worker' \in [Workers -> [running : BOOLEAN, cap : Capability]]
    BY DEF Kill, TypeOK
  <1>2. guard' \in Workers \cup {NoWorker}
    BY DEF Kill, TypeOK
  <1>3. wire' \subseteq Capability
    BY DEF Kill, TypeOK
  <1> QED BY <1>1, <1>2, <1>3

LEMMA ReleaseType ==
    ASSUME TypeOK, NEW o \in Owners, Release(o)
    PROVE  reg' \in [db : Databases \cup {NoDb}, owner : Owners \cup {NoOwner},
                     generation : Nat, expiry : Nat]
  BY DEF Release, Released, TypeOK

\* So does a supervisor that kills its worker and leaves.
LEMMA LeaveType ==
    ASSUME TypeOK, NEW o \in Owners, KillAndLeave(o)
    PROVE  TypeOK'
  <1>1. child[o] \in Workers \cup {NoWorker}
    BY DEF TypeOK
  <1> QED BY <1>1, KillType DEF KillAndLeave, TypeOK, Phases

LEMMA NextType == TypeOK /\ [Next]_vars => TypeOK'
  <1> SUFFICES ASSUME TypeOK, [Next]_vars PROVE TypeOK'
    OBVIOUS
  <1>1. CASE Tick
    BY <1>1 DEF Tick, TypeOK
  <1>2. CASE OperatorNext
    <2>1. ASSUME NEW d \in Databases, Bind(d) PROVE TypeOK'
      BY <2>1 DEF Bind, TypeOK
    <2>2. ASSUME NEW d \in Databases, RebindPreflight(d) PROVE TypeOK'
      BY <2>2 DEF RebindPreflight, TypeOK
    <2>3. CASE RebindCommit
      BY <2>3 DEF RebindCommit, TypeOK, NoLease
    <2>4. CASE RebindRefused
      BY <2>4 DEF RebindRefused, TypeOK
    <2> QED BY <1>2, <2>1, <2>2, <2>3, <2>4 DEF OperatorNext
  <1>3. ASSUME NEW o \in Owners, SupervisorNext(o) PROVE TypeOK'
    <2>1. ASSUME NEW d \in Databases, BeginAcquire(o, d) PROVE TypeOK'
      BY <2>1 DEF BeginAcquire, TypeOK, Phases
    <2>2. CASE Acquire(o)
      BY <2>2 DEF Acquire, NextGeneration, TypeOK, Phases, Capability
    <2>3. CASE AcquireRefused(o)
      BY <2>3 DEF AcquireRefused, TypeOK, Phases
    <2>4. CASE BeginRenew(o)
      BY <2>4 DEF BeginRenew, TypeOK, Phases
    <2>5. CASE Renew(o)
      <3>1. request[o].observed + LeaseSeconds \in Nat
        BY DEF TypeOK
      <3>2. reg' \in [db : Databases \cup {NoDb}, owner : Owners \cup {NoOwner},
                     generation : Nat, expiry : Nat]
        BY <2>5, <3>1 DEF Renew, TypeOK
      <3> QED BY <2>5, <3>2 DEF Renew, TypeOK, Phases
    <2>6. CASE RenewRejected(o)
      BY <2>6, LeaveType DEF RenewRejected
    <2>7. ASSUME NEW w \in Workers, Spawn(o, w) PROVE TypeOK'
      BY <2>7 DEF Spawn, TypeOK
    <2>8. CASE Recycle(o)
      <3>1. child[o] \in Workers \cup {NoWorker}
        BY DEF TypeOK
      <3> QED BY <2>8, <3>1, KillType DEF Recycle, TypeOK
    <2>9. CASE Stop(o)
      BY <2>9, LeaveType DEF Stop
    <2>10. CASE Crash(o)
      BY <2>10 DEF Crash, TypeOK, Phases
    <2>11. CASE Reuse(o)
      BY <2>11 DEF Reuse, TypeOK, Phases, Capability, NoCapability
    <2>12. CASE Release(o)
      BY <2>12, ReleaseType DEF Release, TypeOK, Phases
    <2> QED
      BY <1>3, <2>1, <2>2, <2>3, <2>4, <2>5, <2>6, <2>7, <2>8, <2>9, <2>10,
         <2>11, <2>12 DEF SupervisorNext
  <1>4. ASSUME NEW w \in Workers, WorkerNext(w) PROVE TypeOK'
    <2>1. CASE EnterGuard(w)
      BY <2>1 DEF EnterGuard, TypeOK, Capability
    <2>2. CASE LeaveGuard(w)
      BY <2>2 DEF LeaveGuard, TypeOK, Capability
    <2>3. CASE WorkerCrash(w)
      BY <2>3, KillType DEF WorkerCrash, TypeOK
    <2> QED BY <1>4, <2>1, <2>2, <2>3 DEF WorkerNext
  <1>5. ASSUME NEW cap \in wire, Land(cap) PROVE TypeOK'
    BY <1>5 DEF Land, TypeOK, Capability
  <1>6. CASE UNCHANGED vars
    BY <1>6 DEF vars, TypeOK
  <1> QED BY <1>1, <1>2, <1>3, <1>4, <1>5, <1>6 DEF Next

\* Every reachable state is well typed: the registry record, what the
\* supervisors and workers hold, and the history.
THEOREM TypeCorrect == Spec => []TypeOK
  BY InitType, NextType, PTL DEF Spec

-----------------------------------------------------------------------------
(* The fence                                                               *)

\* What the invariant says about the registry and the capabilities survives a
\* step that creates no capability and keeps the record's identity.
LEMMA SameRecord ==
    ASSUME IInv, Capabilities' \subseteq Capabilities,
           reg'.db = reg.db, reg'.owner = reg.owner,
           reg'.generation = reg.generation
    PROVE  Bounded' /\ UnboundUnowned' /\ GenerationsUnique'
  BY DEF IInv, Bounded, UnboundUnowned, GenerationsUnique

\* Killing a worker creates no capability and stops no other worker.
LEMMA KillFacts ==
    ASSUME TypeOK, NEW w \in Workers \cup {NoWorker}, Kill(w), lease' = lease
    PROVE  /\ Capabilities' \subseteq Capabilities
           /\ \A v \in Workers : /\ worker'[v].cap = worker[v].cap
                                 /\ worker'[v].running => worker[v].running /\ v # w
                                 /\ v # w => worker'[v].running = worker[v].running
           /\ guard' \in {guard, NoWorker}
           /\ guard' # NoWorker => guard # w
  <1>1. \A v \in Workers : /\ worker'[v].cap = worker[v].cap
                           /\ worker'[v].running => worker[v].running /\ v # w
                           /\ v # w => worker'[v].running = worker[v].running
    <2> SUFFICES ASSUME NEW v \in Workers
                 PROVE  /\ worker'[v].cap = worker[v].cap
                        /\ worker'[v].running => worker[v].running /\ v # w
                        /\ v # w => worker'[v].running = worker[v].running
      OBVIOUS
    <2>1. worker[v] \in [running : BOOLEAN, cap : Capability]
      BY DEF TypeOK
    <2>2. CASE v = w
      <3>1. worker'[v] = [worker[v] EXCEPT !.running = FALSE]
        BY <2>2 DEF Kill
      <3> QED BY <2>1, <2>2, <3>1
    <2>3. CASE v # w
      BY <2>3 DEF Kill
    <2> QED BY <2>2, <2>3
  <1>2. guard' \in {guard, NoWorker} /\ (guard' # NoWorker => guard # w)
    BY DEF Kill
  <1>3. wire' \subseteq wire \cup {worker[v].cap : v \in Workers}
    BY DEF Kill
  <1>4. {worker'[v].cap : v \in Workers} = {worker[v].cap : v \in Workers}
    BY <1>1
  <1> QED BY <1>1, <1>2, <1>3, <1>4 DEF Capabilities

\* Releasing a lease touches only its expiry.
LEMMA ReleaseFacts ==
    ASSUME TypeOK, NEW o \in Owners, Release(o)
    PROVE  reg'.db = reg.db /\ reg'.owner = reg.owner
           /\ reg'.generation = reg.generation
  BY DEF Release, Released, TypeOK

LEMMA InitIInv == Init => IInv
  <1> SUFFICES ASSUME Init PROVE IInv
    OBVIOUS
  <1>1. TypeOK
    BY InitType
  <1>2. Capabilities = {}
    BY DEF Init, Capabilities
  <1> QED
    BY <1>1, <1>2 DEF Init, IInv, Bounded, UnboundUnowned, LeaseInOwnName,
       GuardRunning, History, FencedMutation, GenerationsUnique, NoCapability

\* The acquire step: the capability it grants either starts a new generation
\* or repeats the one the registry already records for this owner.
LEMMA AcquireIInv ==
    ASSUME IInv, TypeOK', NEW o \in Owners, Acquire(o)
    PROVE  IInv'
  <1> DEFINE granted == [db |-> request[o].db, owner |-> o,
                         generation |-> NextGeneration(o, request[o].observed)]
  <1>0. TypeOK
    BY DEF IInv
  <1>1. /\ reg'.db = granted.db /\ reg'.owner = o /\ reg'.db # NoDb
        /\ reg'.generation = granted.generation /\ reg.db = granted.db
        /\ lease' = [lease EXCEPT ![o] = granted]
        /\ UNCHANGED <<now, guard, request, child, worker, operator, wire,
                       exposure, written>>
        /\ guard = NoWorker
        /\ sup' = [sup EXCEPT ![o] = "holding"]
    BY DEF Acquire, LockFree
  <1>2. \/ granted.generation = reg.generation + 1
        \/ granted.generation = reg.generation /\ reg.owner = o
    BY DEF NextGeneration
  <1>3. Capabilities' \subseteq Capabilities \cup {granted}
    BY <1>0, <1>1 DEF Capabilities, TypeOK
  <1>4. \A c \in Capabilities :
            c.generation = granted.generation =>
                c.owner = o /\ c.db = granted.db
    BY <1>0, <1>1, <1>2 DEF IInv, Bounded, TypeOK, Capabilities, Capability
  <1>5. \A c \in Capabilities : c.generation <= granted.generation
    BY <1>0, <1>2 DEF IInv, Bounded, TypeOK, Capabilities, Capability
  <1>6. \A c \in Capabilities : c = [db |-> c.db, owner |-> c.owner,
                                    generation |-> c.generation]
    BY <1>0 DEF TypeOK, Capabilities, Capability
  <1>7. granted.generation \in Nat
    BY <1>0, <1>2 DEF TypeOK
  <1>8. Bounded'
    BY <1>1, <1>3, <1>4, <1>5, <1>7 DEF IInv, Bounded
  <1>9. GenerationsUnique'
    <2>1. \A c \in Capabilities :
            c.generation = granted.generation => c = granted
      BY <1>4, <1>6
    <2> QED BY <1>3, <2>1 DEF IInv, GenerationsUnique
  <1>10. LeaseInOwnName'
    BY <1>0, <1>1 DEF IInv, LeaseInOwnName, TypeOK, NoCapability
  <1>11. History'
    BY <1>0, <1>1, <1>2 DEF IInv, History, TypeOK
  <1>12. GuardRunning' /\ FencedMutation' /\ UnboundUnowned'
    BY <1>1 DEF IInv, GuardRunning, FencedMutation, UnboundUnowned
  <1> QED BY <1>8, <1>9, <1>10, <1>11, <1>12 DEF IInv

\* A step that keeps the record's identity, creates no capability, and leaves
\* leases, phases, workers and guard alone.
LEMMA QuietStep ==
    ASSUME IInv, TypeOK',
           reg'.db = reg.db, reg'.owner = reg.owner,
           reg'.generation = reg.generation,
           Capabilities' \subseteq Capabilities,
           LeaseInOwnName', GuardRunning', History', FencedMutation'
    PROVE  IInv'
  BY SameRecord DEF IInv

\* A killed worker leaves the invariant's clauses about workers intact.
LEMMA KillWorkers ==
    ASSUME IInv, NEW w \in Workers \cup {NoWorker}, Kill(w), lease' = lease,
           reg'.db = reg.db, reg'.owner = reg.owner,
           reg'.generation = reg.generation
    PROVE  GuardRunning' /\ FencedMutation'
  <1>1. TypeOK
    BY DEF IInv
  <1>2. guard' # NoWorker => guard' = guard /\ guard \in Workers /\ guard # w
    BY <1>1, KillFacts DEF TypeOK
  <1>3. GuardRunning'
    BY <1>1, <1>2, KillFacts DEF IInv, GuardRunning
  <1>4. FencedMutation'
    BY <1>1, <1>2, KillFacts DEF IInv, FencedMutation
  <1> QED BY <1>3, <1>4

LEMMA OperatorIInv ==
    ASSUME IInv, TypeOK', OperatorNext
    PROVE  IInv'
  <1>0. TypeOK
    BY DEF IInv
  <1>1. UNCHANGED <<supervisorVars, worker, wire, now, written>>
    BY DEF OperatorNext, Bind, RebindPreflight, RebindCommit, RebindRefused
  <1>2. Capabilities' = Capabilities
    BY <1>1 DEF Capabilities
  <1>3. guard' = guard
    BY DEF OperatorNext, Bind, RebindPreflight, RebindCommit, RebindRefused
  <1>4. reg'.generation = reg.generation
    BY <1>0 DEF OperatorNext, Bind, RebindPreflight, RebindCommit,
                RebindRefused, TypeOK
  <1>5. LeaseInOwnName' /\ GuardRunning' /\ History'
    BY <1>1, <1>3, <1>4 DEF IInv, LeaseInOwnName, GuardRunning, History
  <1>6. CASE reg'.db = reg.db /\ reg'.owner = reg.owner
    <2>1. FencedMutation'
      BY <1>1, <1>3, <1>4, <1>6 DEF IInv, FencedMutation
    <2> QED BY <1>2, <1>4, <1>5, <1>6, <2>1, QuietStep
  <1>7. CASE ~ (reg'.db = reg.db /\ reg'.owner = reg.owner)
    <2>1. guard = NoWorker
      BY <1>7 DEF OperatorNext, Bind, RebindPreflight, RebindCommit,
                  RebindRefused, LockFree
    <2>2. reg'.owner = NoOwner /\ reg'.db # NoDb
      <3>1. ASSUME NEW d \in Databases, Bind(d)
            PROVE  reg'.owner = NoOwner /\ reg'.db # NoDb
        <4>1. reg'.db = d /\ reg'.owner = reg.owner
          BY <1>0, <3>1 DEF Bind, TypeOK
        <4>2. reg.db = NoDb
          BY <1>7, <3>1, <4>1 DEF Bind
        <4> QED BY <4>1, <4>2 DEF IInv, UnboundUnowned
      <3>2. CASE RebindCommit
        BY <1>0, <3>2 DEF RebindCommit, TypeOK
      <3> QED
        BY <1>7, <3>1, <3>2 DEF OperatorNext, RebindPreflight, RebindRefused
    <2>3. Bounded'
      BY <1>2, <1>4, <2>2 DEF IInv, Bounded
    <2>4. UnboundUnowned'
      BY <2>2 DEF UnboundUnowned
    <2>5. GenerationsUnique'
      BY <1>2 DEF IInv, GenerationsUnique
    <2>6. FencedMutation'
      BY <1>3, <2>1 DEF FencedMutation
    <2> QED BY <1>5, <2>3, <2>4, <2>5, <2>6 DEF IInv
  <1> QED BY <1>6, <1>7

LEMMA SupervisorIInv ==
    ASSUME IInv, TypeOK', NEW o \in Owners, SupervisorNext(o)
    PROVE  IInv'
  <1>0. TypeOK
    BY DEF IInv
  <1>1. ASSUME NEW d \in Databases, BeginAcquire(o, d) PROVE IInv'
    <2>1. Capabilities' = Capabilities
      BY <1>1 DEF BeginAcquire, Capabilities
    <2>2. LeaseInOwnName'
      BY <1>0, <1>1 DEF BeginAcquire, IInv, LeaseInOwnName, TypeOK
    <2>3. History'
      BY <1>0, <1>1 DEF BeginAcquire, IInv, History, TypeOK
    <2>4. GuardRunning' /\ FencedMutation'
      BY <1>1 DEF BeginAcquire, IInv, GuardRunning, FencedMutation
    <2> QED BY <1>1, <2>1, <2>2, <2>3, <2>4, QuietStep DEF BeginAcquire
  <1>2. CASE Acquire(o)
    BY <1>2, AcquireIInv
  <1>3. CASE AcquireRefused(o)
    <2>1. Capabilities' = Capabilities
      BY <1>3 DEF AcquireRefused, Capabilities
    <2>2. LeaseInOwnName'
      BY <1>0, <1>3 DEF AcquireRefused, IInv, LeaseInOwnName, TypeOK
    <2>3. GuardRunning' /\ FencedMutation' /\ History'
      BY <1>3 DEF AcquireRefused, IInv, GuardRunning, FencedMutation, History
    <2> QED BY <1>3, <2>1, <2>2, <2>3, QuietStep DEF AcquireRefused
  <1>4. CASE BeginRenew(o)
    <2>1. Capabilities' = Capabilities
      BY <1>4 DEF BeginRenew, Capabilities
    <2>2. LeaseInOwnName'
      BY <1>0, <1>4 DEF BeginRenew, IInv, LeaseInOwnName, TypeOK
    <2>3. History'
      BY <1>0, <1>4 DEF BeginRenew, IInv, History, TypeOK
    <2>4. GuardRunning' /\ FencedMutation'
      BY <1>4 DEF BeginRenew, IInv, GuardRunning, FencedMutation
    <2> QED BY <1>4, <2>1, <2>2, <2>3, <2>4, QuietStep DEF BeginRenew
  <1>5. CASE Renew(o)
    <2>1. Capabilities' = Capabilities
      BY <1>5 DEF Renew, Capabilities
    <2>2. LeaseInOwnName'
      BY <1>0, <1>5 DEF Renew, IInv, LeaseInOwnName, TypeOK
    <2>3. reg'.db = reg.db /\ reg'.owner = reg.owner
          /\ reg'.generation = reg.generation
      BY <1>0, <1>5 DEF Renew, TypeOK
    <2>4. GuardRunning' /\ FencedMutation' /\ History'
      BY <1>5, <2>3 DEF Renew, IInv, GuardRunning, FencedMutation, History
    <2> QED BY <2>1, <2>2, <2>3, <2>4, QuietStep
  <1>6. ASSUME Kill(child[o]), lease' = lease, request' = request, now' = now,
               written' = written,
               sup' \in {sup, [sup EXCEPT ![o] = "stopping"]}, reg' = reg
        PROVE  IInv'
    <2>1. child[o] \in Workers \cup {NoWorker}
      BY <1>0 DEF TypeOK
    <2>2. reg'.db = reg.db /\ reg'.owner = reg.owner
          /\ reg'.generation = reg.generation
      BY <1>6
    <2>3. Capabilities' \subseteq Capabilities
      BY <1>0, <1>6, <2>1, KillFacts
    <2>4. LeaseInOwnName'
      BY <1>0, <1>6 DEF IInv, LeaseInOwnName, TypeOK
    <2>5. History'
      BY <1>6, <2>2 DEF IInv, History
    <2>6. GuardRunning' /\ FencedMutation'
      BY <1>6, <2>1, <2>2, KillWorkers
    <2> QED BY <2>2, <2>3, <2>4, <2>5, <2>6, QuietStep
  <1>7. CASE RenewRejected(o)
    BY <1>6, <1>7 DEF RenewRejected, KillAndLeave
  <1>8. CASE Recycle(o)
    BY <1>6, <1>8 DEF Recycle
  <1>9. CASE Stop(o)
    BY <1>6, <1>9 DEF Stop, KillAndLeave
  <1>10. ASSUME NEW w \in Workers, Spawn(o, w) PROVE IInv'
    <2>1. worker' = [worker EXCEPT ![w] = [running |-> TRUE, cap |-> lease[o]]]
      BY <1>10 DEF Spawn
    <2>2. \A v \in Workers : worker'[v].cap \in {worker[v].cap, lease[o]}
      BY <1>0, <2>1 DEF TypeOK
    <2>3. Capabilities' \subseteq Capabilities
      BY <1>0, <1>10, <2>2 DEF Capabilities, Spawn
    <2>4. lease[o] # NoCapability
      BY <1>10 DEF Spawn, IInv, LeaseInOwnName
    <2>5. LeaseInOwnName' /\ History'
      BY <1>10 DEF Spawn, IInv, LeaseInOwnName, History
    <2>6. guard # w \/ guard = NoWorker
      BY <1>10 DEF Spawn, IInv, GuardRunning
    <2>7. GuardRunning' /\ FencedMutation'
      BY <1>0, <1>10, <2>1, <2>4, <2>6
         DEF Spawn, IInv, GuardRunning, FencedMutation, TypeOK
    <2> QED BY <1>10, <2>3, <2>5, <2>7, QuietStep DEF Spawn
  <1>11. CASE Crash(o)
    <2>1. Capabilities' = Capabilities
      BY <1>11 DEF Crash, Capabilities
    <2>2. LeaseInOwnName'
      BY <1>0, <1>11 DEF Crash, IInv, LeaseInOwnName, TypeOK
    <2>3. GuardRunning' /\ FencedMutation' /\ History'
      BY <1>11 DEF Crash, IInv, GuardRunning, FencedMutation, History
    <2> QED BY <1>11, <2>1, <2>2, <2>3, QuietStep DEF Crash
  <1>12. CASE Reuse(o)
    <2>1. \A p \in Owners : lease'[p] \in {lease[p], NoCapability}
      BY <1>0, <1>12 DEF Reuse, TypeOK
    <2>2. Capabilities' \subseteq Capabilities
      BY <1>12, <2>1 DEF Reuse, Capabilities
    <2>3. LeaseInOwnName'
      BY <1>0, <1>12 DEF Reuse, IInv, LeaseInOwnName, TypeOK
    <2>4. GuardRunning' /\ FencedMutation' /\ History'
      BY <1>12 DEF Reuse, IInv, GuardRunning, FencedMutation, History
    <2> QED BY <1>12, <2>2, <2>3, <2>4, QuietStep DEF Reuse
  <1>13. CASE Release(o)
    <2>1. Capabilities' = Capabilities
      BY <1>13 DEF Release, Capabilities
    <2>2. LeaseInOwnName'
      BY <1>0, <1>13 DEF Release, IInv, LeaseInOwnName, TypeOK
    <2>3. reg'.db = reg.db /\ reg'.owner = reg.owner
          /\ reg'.generation = reg.generation
      BY <1>0, <1>13, ReleaseFacts
    <2>4. GuardRunning' /\ FencedMutation' /\ History'
      BY <1>13, <2>3 DEF Release, IInv, GuardRunning, FencedMutation, History
    <2> QED BY <2>1, <2>2, <2>3, <2>4, QuietStep
  <1> QED
    BY <1>1, <1>2, <1>3, <1>4, <1>5, <1>7, <1>8, <1>9, <1>10, <1>11, <1>12,
       <1>13
       DEF SupervisorNext

LEMMA WorkerIInv ==
    ASSUME IInv, TypeOK', NEW w \in Workers, WorkerNext(w)
    PROVE  IInv'
  <1>0. TypeOK
    BY DEF IInv
  <1>1. CASE EnterGuard(w)
    <2>1. Capabilities' = Capabilities
      BY <1>1 DEF EnterGuard, Capabilities
    <2>2. LeaseInOwnName'
      BY <1>1 DEF EnterGuard, IInv, LeaseInOwnName
    <2>3. History'
      BY <1>0, <1>1 DEF EnterGuard, IsCurrent, IInv, History, TypeOK
    <2>4. GuardRunning' /\ FencedMutation'
      BY <1>1 DEF EnterGuard, IsCurrent, IInv, GuardRunning, FencedMutation
    <2> QED BY <1>1, <2>1, <2>2, <2>3, <2>4, QuietStep DEF EnterGuard
  <1>2. CASE LeaveGuard(w)
    <2>1. Capabilities' = Capabilities
      BY <1>2 DEF LeaveGuard, Capabilities
    <2>2. LeaseInOwnName' /\ History' /\ GuardRunning' /\ FencedMutation'
      BY <1>2 DEF LeaveGuard, IInv, LeaseInOwnName, History, GuardRunning,
                  FencedMutation
    <2> QED BY <1>2, <2>1, <2>2, QuietStep DEF LeaveGuard
  <1>3. CASE WorkerCrash(w)
    <2>1. Capabilities' \subseteq Capabilities
      BY <1>0, <1>3, KillFacts DEF WorkerCrash
    <2>2. GuardRunning' /\ FencedMutation'
      BY <1>3, KillWorkers DEF WorkerCrash
    <2>3. LeaseInOwnName' /\ History'
      BY <1>3 DEF WorkerCrash, IInv, LeaseInOwnName, History
    <2> QED BY <1>3, <2>1, <2>2, <2>3, QuietStep DEF WorkerCrash
  <1> QED BY <1>1, <1>2, <1>3 DEF WorkerNext

LEMMA NextIInv == IInv /\ [Next]_vars => IInv'
  <1> SUFFICES ASSUME IInv, [Next]_vars PROVE IInv'
    OBVIOUS
  <1>0. TypeOK /\ TypeOK'
    BY NextType DEF IInv
  <1>1. CASE Tick
    <2>1. Capabilities' = Capabilities
      BY <1>1 DEF Tick, Capabilities
    <2>2. History'
      BY <1>0, <1>1 DEF Tick, IInv, History, TypeOK
    <2>3. LeaseInOwnName' /\ GuardRunning' /\ FencedMutation'
      BY <1>1 DEF Tick, IInv, LeaseInOwnName, GuardRunning, FencedMutation
    <2> QED BY <1>0, <1>1, <2>1, <2>2, <2>3, QuietStep DEF Tick
  <1>2. CASE OperatorNext
    BY <1>0, <1>2, OperatorIInv
  <1>3. ASSUME NEW o \in Owners, SupervisorNext(o) PROVE IInv'
    BY <1>0, <1>3, SupervisorIInv
  <1>4. ASSUME NEW w \in Workers, WorkerNext(w) PROVE IInv'
    BY <1>0, <1>4, WorkerIInv
  <1>5. ASSUME NEW cap \in wire, Land(cap) PROVE IInv'
    <2>1. Capabilities' \subseteq Capabilities
      BY <1>5 DEF Land, Capabilities
    <2>2. LeaseInOwnName' /\ History' /\ GuardRunning' /\ FencedMutation'
      BY <1>5 DEF Land, IInv, LeaseInOwnName, History, GuardRunning,
                  FencedMutation
    <2> QED BY <1>0, <1>5, <2>1, <2>2, QuietStep DEF Land
  <1>6. CASE UNCHANGED vars
    <2>1. Capabilities' = Capabilities
      BY <1>6 DEF vars, Capabilities
    <2>2. LeaseInOwnName' /\ History' /\ GuardRunning' /\ FencedMutation'
      BY <1>6 DEF vars, IInv, LeaseInOwnName, History, GuardRunning,
                  FencedMutation
    <2> QED BY <1>0, <1>6, <2>1, <2>2, QuietStep DEF vars
  <1> QED BY <1>1, <1>2, <1>3, <1>4, <1>5, <1>6 DEF Next

\* The registry never moves away from under a mutation in progress: the
\* worker inside mutation_guard is the recorded database, owner and
\* generation, for any number of supervisors, workers and databases and
\* whatever crashes, expires or is rebound.
THEOREM MutationsAreFenced == Spec => []FencedMutation
  <1>1. IInv => FencedMutation
    BY DEF IInv
  <1> QED BY <1>1, InitIInv, NextIInv, PTL DEF Spec

\* acquire_account_writer never gives two holders the same generation.
THEOREM GenerationsAreUnique == Spec => []GenerationsUnique
  <1>1. IInv => GenerationsUnique
    BY DEF IInv
  <1> QED BY <1>1, InitIInv, NextIInv, PTL DEF Spec

\* A mutation of an older generation is never sent after one of a newer.
THEOREM MutationsAreOrdered == Spec => MutationsInGenerationOrder
  <1>1. IInv /\ [Next]_vars => (written' >= written \/ UNCHANGED vars)
    <2> SUFFICES ASSUME IInv, Next PROVE written' >= written
      BY DEF vars
    <2>0. written \in Nat /\ written <= reg.generation
      BY DEF IInv, TypeOK, History
    <2>1. CASE \E w \in Workers : EnterGuard(w)
      BY <2>0, <2>1 DEF EnterGuard, IsCurrent
    <2>2. CASE ~ \E w \in Workers : EnterGuard(w)
      <3>1. written' = written
        BY <2>2 DEF Next, Tick, OperatorNext, Bind, RebindPreflight,
           RebindCommit, RebindRefused, SupervisorNext, BeginAcquire, Acquire,
           AcquireRefused, BeginRenew, Renew, RenewRejected, Spawn, Recycle,
           Stop, KillAndLeave, Release, Crash, Reuse, WorkerNext, LeaveGuard, WorkerCrash, Land
      <3> QED BY <2>0, <3>1
    <2> QED BY <2>1, <2>2
  <1> QED BY <1>1, InitIInv, NextIInv, PTL DEF Spec, MutationsInGenerationOrder

\* No live supervisor loses its unexpired lease: a takeover needs an expired
\* lease or a dead owner, although the taker reads its clock before it waits
\* for the lock.
THEOREM LiveHoldersKeepTheLease == Spec => NoEvictionOfLiveHolder
  <1> DEFINE Kept == reg.owner \in Owners /\ reg'.owner # reg.owner =>
                        ~ Unexpired(now) \/ sup[reg.owner] = "gone"
  <1>1. IInv /\ [Next]_vars => Kept
    <2> SUFFICES ASSUME IInv, [Next]_vars, reg.owner \in Owners,
                        reg'.owner # reg.owner
                 PROVE  ~ Unexpired(now) \/ sup[reg.owner] = "gone"
      OBVIOUS
    <2>0. TypeOK
      BY DEF IInv
    <2>1. CASE OperatorNext
      <3>1. CASE RebindCommit
        BY <3>1 DEF RebindCommit
      <3>2. CASE \E d \in Databases : Bind(d)
        BY <2>0, <3>2 DEF Bind, TypeOK
      <3> QED BY <2>1, <3>1, <3>2 DEF OperatorNext, RebindPreflight, RebindRefused
    <2>2. ASSUME NEW o \in Owners, SupervisorNext(o)
          PROVE  ~ Unexpired(now) \/ sup[reg.owner] = "gone"
      <3>1. CASE Acquire(o)
        <4>1. o # reg.owner
          BY <3>1 DEF Acquire
        <4>2. request[o].observed <= now
          BY DEF IInv, History
        <4>3. ~ Unexpired(request[o].observed) => ~ Unexpired(now)
          BY <2>0, <4>2 DEF Unexpired, TypeOK
        <4> QED BY <3>1, <4>1, <4>3 DEF Acquire, HeldByAnother, IsDead
      <3>2. CASE Renew(o)
        BY <2>0, <3>2 DEF Renew, TypeOK
      <3>3. CASE Release(o)
        BY <2>0, <3>3, ReleaseFacts
      <3>4. CASE reg' = reg
        BY <3>4
      <3> QED
        BY <2>2, <3>1, <3>2, <3>3, <3>4 DEF SupervisorNext, BeginAcquire,
           AcquireRefused, BeginRenew, Spawn, Recycle, Stop, RenewRejected,
           KillAndLeave, Crash, Reuse
    <2>3. CASE reg' = reg
      BY <2>3
    <2> QED
      BY <2>1, <2>2, <2>3 DEF Next, Tick, WorkerNext, EnterGuard, LeaveGuard,
         WorkerCrash, Land, vars
  <1> QED BY <1>1, InitIInv, NextIInv, PTL DEF Spec, NoEvictionOfLiveHolder

-----------------------------------------------------------------------------
(* One effective writer, when no pid is reused                             *)

\* A running worker is the child its owner would kill before respawning.
OnlyChild ==
    \A w \in Workers : worker[w].running => child[worker[w].cap.owner] = w

LEMMA NextOnlyChild ==
    ASSUME PidReuse = FALSE, IInv, OnlyChild, [Next]_vars
    PROVE  OnlyChild'
  <1>0. TypeOK
    BY DEF IInv
  <1>1. \A w \in Workers : worker[w].running => worker[w].cap.owner \in Owners
    BY DEF IInv, GuardRunning, Bounded, Capabilities
  <1>2. ASSUME NEW o \in Owners, Kill(child[o]), lease' = lease,
               child' = [child EXCEPT ![o] = NoWorker]
        PROVE  OnlyChild'
    <2>1. child[o] \in Workers \cup {NoWorker}
      BY <1>0 DEF TypeOK
    <2>2. \A v \in Workers : /\ worker'[v].cap = worker[v].cap
                             /\ worker'[v].running =>
                                    worker[v].running /\ v # child[o]
      BY <1>0, <1>2, <2>1, KillFacts
    <2> QED BY <1>0, <1>1, <1>2, <2>2 DEF OnlyChild, TypeOK
  <1>3. ASSUME NEW o \in Owners, SupervisorNext(o) PROVE OnlyChild'
    <2>1. CASE RenewRejected(o) \/ Recycle(o) \/ Stop(o)
      BY <1>2, <2>1 DEF RenewRejected, Recycle, Stop, KillAndLeave
    <2>2. ASSUME NEW w \in Workers, Spawn(o, w) PROVE OnlyChild'
      <3>1. lease[o].owner = o
        BY <2>2 DEF Spawn, IInv, LeaseInOwnName
      <3>2. \A v \in Workers : worker[v].running => worker[v].cap.owner # o
        BY <2>2 DEF Spawn, OnlyChild
      <3>3. /\ worker' = [worker EXCEPT ![w] = [running |-> TRUE,
                                                cap |-> lease[o]]]
            /\ child' = [child EXCEPT ![o] = w]
        BY <2>2 DEF Spawn
      <3> QED BY <1>0, <1>1, <3>1, <3>2, <3>3 DEF OnlyChild, TypeOK
    <2>3. CASE UNCHANGED <<worker, child>>
      BY <2>3 DEF OnlyChild
    <2> QED
      BY <1>3, <2>1, <2>2, <2>3 DEF SupervisorNext, BeginAcquire, Acquire,
         AcquireRefused, BeginRenew, Renew, Release, Crash, Reuse
  <1>4. ASSUME NEW w \in Workers, WorkerNext(w) PROVE OnlyChild'
    <2>1. CASE WorkerCrash(w)
      <3>1. \A v \in Workers : /\ worker'[v].cap = worker[v].cap
                               /\ worker'[v].running => worker[v].running
        BY <1>0, <2>1, KillFacts DEF WorkerCrash
      <3> QED BY <2>1, <3>1 DEF OnlyChild, WorkerCrash
    <2>2. CASE UNCHANGED <<worker, child>>
      BY <2>2 DEF OnlyChild
    <2> QED BY <1>4, <2>1, <2>2 DEF WorkerNext, EnterGuard, LeaveGuard
  <1>5. CASE UNCHANGED <<worker, child>>
    BY <1>5 DEF OnlyChild
  <1> QED
    BY <1>3, <1>4, <1>5 DEF Next, Tick, OperatorNext, Bind, RebindPreflight,
       RebindCommit, RebindRefused, Land, vars

\* As long as a pid is not used again, at most one process passes
\* mutation_guard: the orphan of a crashed supervisor is fenced off by the
\* takeover, and a supervisor kills its worker before it starts another.
THEOREM OneWriter ==
    ASSUME PidReuse = FALSE
    PROVE  Spec => []OneEffectiveWriter
  <1>1. Init => OnlyChild
    BY DEF Init, OnlyChild
  <1>2. IInv /\ OnlyChild /\ [Next]_vars => OnlyChild'
    BY NextOnlyChild
  <1>3. IInv /\ OnlyChild => OneEffectiveWriter
    BY DEF OneEffectiveWriter, EffectiveWriters, IsCurrent, OnlyChild
  <1> QED BY <1>1, <1>2, <1>3, InitIInv, NextIInv, PTL DEF Spec
-----------------------------------------------------------------------------
(* Refinement of SingleWriter                                              *)

\* What the mapping shows of a step that keeps the record's identity and at
\* most lets go of the guard.
LEMMA AtMostEnds ==
    ASSUME IInv, reg'.db = reg.db, reg'.owner = reg.owner,
           reg'.generation = reg.generation, written' = written,
           guard' \in {guard, NoWorker},
           \A v \in Workers : worker'[v].cap = worker[v].cap
    PROVE  [Account!Next]_(Account!abstractVars)
  <1>1. Registered' = Registered
    BY DEF Registered
  <1>2. CASE guard' = guard
    <2>1. guard # NoWorker => guard \in Workers
      BY DEF IInv, TypeOK
    <2>2. Mutating' = Mutating
      BY <1>2, <2>1 DEF Mutating, NoCapability
    <2> QED BY <1>1, <2>2 DEF Account!abstractVars
  <1>3. CASE guard # NoWorker /\ guard' = NoWorker
    <2>1. guard \in Workers /\ Mutating # NoCapability
      BY <1>3 DEF IInv, TypeOK, GuardRunning, Mutating
    <2>2. Mutating' = NoCapability
      BY <1>3 DEF Mutating, NoCapability
    <2>3. Account!End
      BY <1>1, <2>1, <2>2 DEF Account!End, Account!Nobody, NoCapability
    <2> QED BY <2>3 DEF Account!Next
  <1> QED BY <1>2, <1>3

\* The record changes only while nobody is inside the guard.
LEMMA WhileNobodyWrites ==
    ASSUME IInv, guard = NoWorker, guard' = NoWorker, written' = written,
           \/ /\ reg'.db \in Databases /\ reg'.owner = NoOwner
              /\ reg'.generation = reg.generation
           \/ /\ reg'.db = reg.db /\ reg'.owner \in Owners
              /\ reg'.generation = reg.generation + 1
    PROVE  Account!Next
  <1>1. Mutating = Account!Nobody /\ Mutating' = Account!Nobody
    BY DEF Mutating, NoCapability, Account!Nobody
  <1>2. CASE /\ reg'.db \in Databases /\ reg'.owner = NoOwner
             /\ reg'.generation = reg.generation
    <2>1. Account!Rebind(reg'.db)
      BY <1>1, <1>2 DEF Account!Rebind, Registered
    <2> QED BY <1>2, <2>1 DEF Account!Next
  <1>3. CASE /\ reg'.db = reg.db /\ reg'.owner \in Owners
             /\ reg'.generation = reg.generation + 1
    <2>1. Account!Grant(reg'.owner)
      BY <1>1, <1>3 DEF Account!Grant, Registered
    <2> QED BY <1>3, <2>1 DEF Account!Next
  <1> QED BY <1>2, <1>3

\* Every step of the registry and its processes is a step of the single
\* writer or changes nothing it shows.
LEMMA StepRefines ==
    ASSUME IInv, [Next]_vars
    PROVE  [Account!Next]_(Account!abstractVars)
  <1>0. TypeOK
    BY DEF IInv
  <1>1. ASSUME NEW d \in Databases, Bind(d)
        PROVE  [Account!Next]_(Account!abstractVars)
    <2>1. CASE reg.db = d
      <3>1. reg' = reg
        BY <1>0, <1>1, <2>1 DEF Bind, TypeOK
      <3> QED BY <1>1, <3>1, AtMostEnds DEF Bind
    <2>2. CASE reg.db # d
      <3>0. /\ reg'.db = d /\ reg'.owner = NoOwner
            /\ reg'.generation = reg.generation
        BY <1>0, <1>1, <2>2 DEF Bind, TypeOK, IInv, UnboundUnowned
      <3> QED BY <1>1, <3>0, WhileNobodyWrites DEF Bind, LockFree
    <2> QED BY <2>1, <2>2
  <1>2. CASE RebindCommit
    <2>1. operator \in Databases
      BY <1>0, <1>2 DEF RebindCommit, TypeOK
    <2>0. /\ reg'.db = operator /\ reg'.owner = NoOwner
          /\ reg'.generation = reg.generation
      BY <1>0, <1>2 DEF RebindCommit, TypeOK
    <2> QED BY <1>2, <2>1, <2>0, WhileNobodyWrites DEF RebindCommit, LockFree
  <1>3. ASSUME NEW o \in Owners, Acquire(o)
        PROVE  [Account!Next]_(Account!abstractVars)
    <2>1. /\ reg'.db = reg.db /\ reg'.owner = o
          /\ reg'.generation = NextGeneration(o, request[o].observed)
          /\ guard = NoWorker /\ guard' = guard
          /\ written' = written /\ worker' = worker
      BY <1>3 DEF Acquire, LockFree
    <2>2. CASE reg.owner = o /\ Unexpired(request[o].observed)
      BY <2>1, <2>2, AtMostEnds DEF NextGeneration
    <2>3. CASE ~ (reg.owner = o /\ Unexpired(request[o].observed))
      <3>0. reg'.generation = reg.generation + 1
        BY <2>1, <2>3 DEF NextGeneration
      <3> QED BY <1>3, <2>1, <3>0, WhileNobodyWrites
    <2> QED BY <2>2, <2>3
  <1>4. ASSUME NEW w \in Workers, EnterGuard(w)
        PROVE  [Account!Next]_(Account!abstractVars)
    <2>1. worker[w].cap = Registered /\ worker[w].cap \in Capabilities
      <3>1. worker[w].cap \in Capability
        BY <1>0 DEF TypeOK
      <3>2. worker[w].cap = Registered
        BY <1>4, <3>1 DEF EnterGuard, IsCurrent, Registered, Capability
      <3>3. worker[w].cap # NoCapability
        BY <1>4 DEF EnterGuard, IInv, GuardRunning
      <3> QED BY <3>2, <3>3 DEF Capabilities
    <2>2. Registered.owner # NoOwner /\ written <= Registered.generation
      BY <2>1 DEF IInv, Bounded, History, Registered
    <2>3. Mutating = Account!Nobody /\ Mutating' = worker[w].cap
      BY <1>4 DEF EnterGuard, LockFree, Mutating, NoCapability, Account!Nobody
    <2>4. Registered' = Registered /\ written' = worker[w].cap.generation
      BY <1>4 DEF EnterGuard, Registered
    <2>5. written \in Nat /\ Registered.generation \in Nat
      BY <1>0 DEF TypeOK, Registered
    <2>6. Account!Begin
      BY <2>1, <2>2, <2>3, <2>4, <2>5 DEF Account!Begin
    <2> QED BY <2>6 DEF Account!Next
  <1>5. ASSUME NEW o \in Owners, Stop(o) \/ RenewRejected(o)
        PROVE  [Account!Next]_(Account!abstractVars)
    <2>1. child[o] \in Workers \cup {NoWorker}
      BY <1>0 DEF TypeOK
    <2>2. Kill(child[o]) /\ reg' = reg /\ lease' = lease /\ written' = written
      BY <1>5 DEF Stop, RenewRejected, KillAndLeave
    <2> QED BY <1>0, <2>1, <2>2, KillFacts, AtMostEnds
  <1>6. ASSUME NEW o \in Owners, Recycle(o)
        PROVE  [Account!Next]_(Account!abstractVars)
    <2>1. child[o] \in Workers \cup {NoWorker}
      BY <1>0 DEF TypeOK
    <2> QED BY <1>0, <1>6, <2>1, KillFacts, AtMostEnds DEF Recycle
  <1>7. ASSUME NEW w \in Workers, WorkerCrash(w)
        PROVE  [Account!Next]_(Account!abstractVars)
    BY <1>0, <1>7, KillFacts, AtMostEnds DEF WorkerCrash
  <1>8. ASSUME NEW o \in Owners, NEW w \in Workers, Spawn(o, w)
        PROVE  [Account!Next]_(Account!abstractVars)
    <2>1. guard # w
      BY <1>8 DEF Spawn, IInv, GuardRunning
    <2>2. guard # NoWorker => guard \in Workers
      BY <1>0 DEF TypeOK
    <2>3. guard # NoWorker => worker'[guard] = worker[guard]
      BY <1>0, <1>8, <2>1, <2>2 DEF Spawn, TypeOK
    <2>4. Mutating' = Mutating
      BY <1>8, <2>3 DEF Spawn, Mutating, NoCapability
    <2>5. Registered' = Registered /\ written' = written
      BY <1>8 DEF Spawn, Registered
    <2> QED BY <2>4, <2>5 DEF Account!abstractVars
  <1>9. ASSUME NEW o \in Owners, Renew(o)
        PROVE  [Account!Next]_(Account!abstractVars)
    <2>1. /\ reg'.db = reg.db /\ reg'.owner = reg.owner
          /\ reg'.generation = reg.generation
      BY <1>0, <1>9 DEF Renew, TypeOK
    <2> QED BY <1>9, <2>1, AtMostEnds DEF Renew
  <1>0a. ASSUME NEW o \in Owners, Release(o)
         PROVE  [Account!Next]_(Account!abstractVars)
    BY <1>0, <1>0a, ReleaseFacts, AtMostEnds DEF Release
  <1>10. ASSUME UNCHANGED <<reg, written, worker>>, guard' \in {guard, NoWorker}
         PROVE  [Account!Next]_(Account!abstractVars)
    BY <1>10, AtMostEnds
  <1>11. Next => \/ \E d \in Databases : Bind(d)
                 \/ RebindCommit
                 \/ \E o \in Owners : \/ Acquire(o) \/ Stop(o) \/ Recycle(o)
                                       \/ RenewRejected(o) \/ Renew(o)
                                       \/ Release(o)
                                       \/ \E w \in Workers : Spawn(o, w)
                 \/ \E w \in Workers : EnterGuard(w) \/ WorkerCrash(w)
                 \/ /\ UNCHANGED <<reg, written, worker>>
                    /\ guard' \in {guard, NoWorker}
    BY DEF Next, Tick, OperatorNext, RebindPreflight, RebindRefused,
       SupervisorNext, BeginAcquire, AcquireRefused, BeginRenew, Crash, Reuse,
       WorkerNext, LeaveGuard, Land
  <1>12. CASE UNCHANGED vars
    BY <1>10, <1>12 DEF vars
  <1> QED BY <1>1, <1>2, <1>3, <1>4, <1>5, <1>6, <1>7, <1>8, <1>9, <1>10,
             <1>11, <1>12, <1>0a

\* The account writer registry implements the single writer: whatever number
\* of supervisors, workers and databases take part, the account sees one
\* capability at a time, each of a new generation, and mutations under the
\* current one only.
THEOREM RegistryImplementsSingleWriter == Spec => ImplementsSingleWriter
  <1>1. Init => Account!Init
    BY DEF Init, Account!Init, Account!Nobody, Registered, Mutating,
       NoCapability
  <1>2. IInv /\ [Next]_vars => [Account!Next]_(Account!abstractVars)
    BY StepRefines
  <1> QED
    BY <1>1, <1>2, InitIInv, NextIInv, PTL DEF Spec, ImplementsSingleWriter,
       Account!Spec

-----------------------------------------------------------------------------
(* The requests of killed workers                                          *)

\* A request whose sender was killed inside mutation_guard left under the
\* fence: it is not newer than the last mutation that was sent, and while a
\* mutation of its generation is under way it is of that very capability.
LateRequestWasFenced ==
    \A c \in wire :
        /\ c.generation <= written
        /\ guard # NoWorker /\ c.generation = worker[guard].cap.generation =>
               c = worker[guard].cap

\* Whoever is inside the guard sent the last mutation.
Sent ==
    /\ guard # NoWorker => worker[guard].cap.generation = written
    /\ NoCapability \notin wire
    /\ \A c \in wire : c.generation <= written

\* A worker that is killed leaves at most its own request behind.
LEMMA KillSent ==
    ASSUME IInv, Sent, NEW w \in Workers \cup {NoWorker}, Kill(w),
           lease' = lease, written' = written
    PROVE  Sent'
  <1>0. TypeOK /\ written \in Nat
    BY DEF IInv, TypeOK
  <1>1. /\ \A v \in Workers : worker'[v].cap = worker[v].cap
        /\ guard' \in {guard, NoWorker}
    BY <1>0, KillFacts
  <1>2. guard' # NoWorker => guard' \in Workers /\ guard' = guard
    BY <1>0, <1>1 DEF TypeOK
  <1>3. \/ wire' = wire
        \/ /\ guard = w /\ guard \in Workers
           /\ wire' = wire \cup {worker[guard].cap}
    BY DEF Kill
  <1>4. guard # NoWorker =>
            /\ worker[guard].cap # NoCapability
            /\ worker[guard].cap.generation <= written
    BY <1>0 DEF IInv, GuardRunning, Sent, TypeOK
  <1>5. guard \in Workers => guard # NoWorker
    BY AccountWriterAssumption
  <1> QED BY <1>1, <1>2, <1>3, <1>4, <1>5 DEF Sent

LEMMA NextSent ==
    ASSUME IInv, Sent, [Next]_vars
    PROVE  Sent'
  <1>0. TypeOK /\ written \in Nat /\ written <= reg.generation
        /\ (guard # NoWorker => guard \in Workers)
    BY DEF IInv, TypeOK, History
  <1>1. ASSUME NEW o \in Owners, Stop(o) \/ RenewRejected(o) \/ Recycle(o)
        PROVE  Sent'
    <2>1. child[o] \in Workers \cup {NoWorker}
      BY <1>0 DEF TypeOK
    <2> QED BY <1>1, <2>1, KillSent DEF Stop, RenewRejected, KillAndLeave, Recycle
  <1>2. ASSUME NEW w \in Workers, WorkerCrash(w)
        PROVE  Sent'
    BY <1>2, KillSent DEF WorkerCrash
  <1>3. ASSUME NEW w \in Workers, EnterGuard(w)
        PROVE  Sent'
    <2>1. written' = reg.generation /\ reg.generation \in Nat
      BY <1>0, <1>3 DEF EnterGuard, IsCurrent, TypeOK
    <2>2. \A c \in wire : c.generation \in Nat
      BY <1>0 DEF TypeOK, Capability
    <2> QED BY <1>0, <1>3, <2>1, <2>2 DEF EnterGuard, Sent
  <1>4. ASSUME NEW o \in Owners, NEW w \in Workers, Spawn(o, w)
        PROVE  Sent'
    <2>1. guard # w
      BY <1>4 DEF Spawn, IInv, GuardRunning
    <2>2. guard # NoWorker => worker'[guard] = worker[guard]
      BY <1>0, <1>4, <2>1 DEF Spawn, TypeOK
    <2> QED BY <1>4, <2>2 DEF Spawn, Sent
  <1>5. ASSUME NEW cap \in wire, Land(cap)
        PROVE  Sent'
    BY <1>5 DEF Land, Sent
  <1>6. ASSUME NEW w \in Workers, LeaveGuard(w)
        PROVE  Sent'
    BY <1>6 DEF LeaveGuard, Sent
  <1>7. CASE UNCHANGED <<guard, worker, wire, written>>
    BY <1>7 DEF Sent
  <1> QED
    BY <1>1, <1>2, <1>3, <1>4, <1>5, <1>6, <1>7
       DEF Next, Tick, OperatorNext, Bind, RebindPreflight, RebindCommit,
           RebindRefused, SupervisorNext, BeginAcquire, Acquire,
           AcquireRefused, BeginRenew, Renew, Release, Crash, Reuse,
           WorkerNext, vars

\* The request of a worker that was killed inside its guard may land at any
\* time, but it is never one of a generation that has not written yet, nor a
\* second capability's within the generation that is writing.
THEOREM LateRequestsWereFenced == Spec => []LateRequestWasFenced
  <1>1. Init => Sent
    BY DEF Init, Sent
  <1>2. IInv /\ Sent => LateRequestWasFenced
    <2> SUFFICES ASSUME IInv, Sent, NEW c \in wire, guard # NoWorker,
                        c.generation = worker[guard].cap.generation
                 PROVE  c = worker[guard].cap
      BY DEF Sent, LateRequestWasFenced
    <2>1. guard \in Workers /\ worker[guard].cap # NoCapability
      BY DEF IInv, TypeOK, GuardRunning
    <2>2. c \in Capabilities /\ worker[guard].cap \in Capabilities
      BY <2>1 DEF Sent, Capabilities
    <2> QED BY <2>2 DEF IInv, GenerationsUnique
  <1> QED
    BY <1>1, <1>2, InitIInv, NextIInv, NextSent, PTL DEF Spec
=============================================================================
