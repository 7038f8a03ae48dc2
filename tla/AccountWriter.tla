--------------------------- MODULE AccountWriter ---------------------------
(***************************************************************************)
(* The machine-wide registry that decides which process may mutate the     *)
(* exchange account                                                        *)
(* (services/automated_trading/infrastructure/account_writer.py), together *)
(* with the supervisor and worker processes that use it                    *)
(* (scripts/run-local-paper-scheduler.py) and the operator's bind/rebind   *)
(* commands (scripts/account_writer_cli.py).                               *)
(*                                                                         *)
(* One account scope is modelled: records of different scopes share the    *)
(* file and its lock and never read each other.  Every operation takes the *)
(* file lock, so its critical section is one step; what the code does      *)
(* OUTSIDE the lock is a step of its own: reading the clock before an      *)
(* acquire or a renew, and the operator's preflight before a rebind.  Only *)
(* mutation_guard keeps the lock across steps, for as long as the exchange *)
(* request takes.                                                          *)
(***************************************************************************)
EXTENDS Integers

CONSTANTS
    Owners,        \* supervisor identities, "host:pid"
    Workers,       \* worker processes, each started at most once
    Databases,     \* database identities
    Probeable,     \* owners whose pid this host can classify as DEAD
    PidReuse,      \* may a later supervisor get a dead supervisor's pid?
    LeaseSeconds,  \* DEFAULT_LEASE_SECONDS
    MaxTime,       \* bound on the clock
    MaxGeneration, \* bound on restarts under a reused pid
    NoOwner, NoDb, NoWorker

ASSUME AccountWriterAssumption ==
    /\ LeaseSeconds \in Nat \ {0}
    /\ MaxTime \in Nat
    /\ MaxGeneration \in Nat
    /\ PidReuse \in BOOLEAN
    /\ Probeable \subseteq Owners
    /\ NoOwner \notin Owners
    /\ NoDb \notin Databases
    /\ NoWorker \notin Workers

VARIABLES
    now,       \* wall clock
    reg,       \* the account's record in the registry file
    guard,     \* the worker inside mutation_guard, which holds the file lock
    sup,       \* phase of each supervisor process
    request,   \* what a supervisor read before taking the lock
    lease,     \* the capability a supervisor was granted
    child,     \* the worker a supervisor owns (its Popen handle)
    worker,    \* each worker process and the capability it inherited
    wire,      \* requests still on the network whose sender was killed
    operator,  \* database the operator has preflighted a rebind to
    exposure,  \* database on whose behalf the exchange holds exposure
    written    \* history: generation of the last mutation that was sent

registryVars == <<reg, guard>>
supervisorVars == <<sup, request, lease, child>>
exchangeVars == <<wire, exposure, written>>
vars == <<now, registryVars, supervisorVars, worker, operator, exchangeVars>>

NoLease == 0          \* "lease_expires_at" absent; the clock starts at 1
Capability == [db : Databases \cup {NoDb}, owner : Owners \cup {NoOwner},
               generation : Nat]
NoCapability == [db |-> NoDb, owner |-> NoOwner, generation |-> 0]

Phases == {"new", "acquiring", "holding", "renewing", "stopping", "gone"}

-----------------------------------------------------------------------------
(* Conditions the code tests on the record                                 *)

\* Mutant of LockFree: the file lock is not taken.
LockNotTaken == TRUE

\* The registry file lock is free (_registry_lock).
LockFree == guard = NoWorker

\* A lease is recorded and expires after the observed time.
Unexpired(observed) == reg.expiry # NoLease /\ reg.expiry > observed

\* Mutant of IsCurrent: only the database is compared.
CurrentByDatabase(cap, observed) == reg.db = cap.db /\ Unexpired(observed)

\* _assert_current: the record names exactly this capability and its lease
\* has not expired at the time the caller observed.
IsCurrent(cap, observed) ==
    /\ reg.db = cap.db
    /\ reg.owner = cap.owner
    /\ reg.generation = cap.generation
    /\ Unexpired(observed)

\* Mutant of IsDead: every local owner counts as dead.
DeadIfLocal(o) == o \in Probeable

\* _dead_local_supervisor_owner: DEAD only for a local pid that is gone.
IsDead(o) == o \in Probeable /\ sup[o] = "gone"

\* The refusal ACCOUNT_WRITER_ALREADY_HELD of acquire_account_writer.
HeldByAnother(o, observed) ==
    /\ Unexpired(observed)
    /\ reg.owner # o
    /\ ~ IsDead(reg.owner)

\* Mutant of NextGeneration: the takeover of an unexpired lease keeps it.
GenerationKeptOnTakeover(o, observed) ==
    IF Unexpired(observed) THEN reg.generation ELSE reg.generation + 1

\* The generation acquire_account_writer writes.
NextGeneration(o, observed) ==
    IF reg.owner = o /\ Unexpired(observed)
    THEN reg.generation
    ELSE reg.generation + 1

-----------------------------------------------------------------------------
Init ==
    /\ now = 1
    /\ reg = [db |-> NoDb, owner |-> NoOwner, generation |-> 0,
              expiry |-> NoLease]
    /\ guard = NoWorker
    /\ sup = [o \in Owners |-> "new"]
    /\ request = [o \in Owners |-> [db |-> NoDb, observed |-> 0]]
    /\ lease = [o \in Owners |-> NoCapability]
    /\ child = [o \in Owners |-> NoWorker]
    /\ worker = [w \in Workers |-> [running |-> FALSE, cap |-> NoCapability]]
    /\ wire = {}
    /\ operator = NoDb
    /\ exposure = NoDb
    /\ written = 0

Tick ==
    /\ now < MaxTime
    /\ now' = now + 1
    /\ UNCHANGED <<registryVars, supervisorVars, worker, operator, exchangeVars>>

-----------------------------------------------------------------------------
(* Operator commands                                                       *)

\* bind_account: idempotent for the bound database, refused for another one.
Bind(d) ==
    /\ LockFree
    /\ reg.db \in {NoDb, d}
    /\ reg' = [reg EXCEPT !.db = d]
    /\ UNCHANGED <<now, guard, supervisorVars, worker, operator, exchangeVars>>

\* rebind_account before its lock: the exchange is flat and has no open order.
\* Whether the new database is clear of pending recovery is an input: the
\* command is refused, and nothing changes, when it is not.
RebindPreflight(d) ==
    /\ operator = NoDb
    /\ exposure = NoDb
    /\ operator' = d
    /\ UNCHANGED <<now, registryVars, supervisorVars, worker, exchangeVars>>

\* rebind_account under its lock: needs a record and no unexpired lease; the
\* owner and the lease are dropped, the generation stays.
RebindCommit ==
    /\ operator # NoDb
    /\ LockFree
    /\ reg.db # NoDb
    /\ ~ Unexpired(now)
    /\ reg' = [reg EXCEPT !.db = operator, !.owner = NoOwner,
                          !.expiry = NoLease]
    /\ operator' = NoDb
    /\ UNCHANGED <<now, guard, supervisorVars, worker, exchangeVars>>

RebindRefused ==
    /\ operator # NoDb
    /\ LockFree
    /\ reg.db = NoDb \/ Unexpired(now)
    /\ operator' = NoDb
    /\ UNCHANGED <<now, registryVars, supervisorVars, worker, exchangeVars>>

-----------------------------------------------------------------------------
(* Supervisors                                                             *)

\* acquire_account_writer reads the clock, then waits for the lock.
BeginAcquire(o, d) ==
    /\ sup[o] = "new"
    /\ sup' = [sup EXCEPT ![o] = "acquiring"]
    /\ request' = [request EXCEPT ![o] = [db |-> d, observed |-> now]]
    /\ UNCHANGED <<now, registryVars, lease, child, worker, operator,
                   exchangeVars>>

\* acquire_account_writer under the lock, granted.
Acquire(o) ==
    LET observed == request[o].observed
        granted == [db |-> request[o].db, owner |-> o,
                    generation |-> NextGeneration(o, observed)]
    IN  /\ sup[o] = "acquiring"
        /\ LockFree
        /\ reg.db # NoDb
        /\ reg.db = request[o].db
        /\ ~ HeldByAnother(o, observed)
        /\ reg' = [db |-> granted.db, owner |-> granted.owner,
                   generation |-> granted.generation,
                   expiry |-> observed + LeaseSeconds]
        /\ lease' = [lease EXCEPT ![o] = granted]
        /\ sup' = [sup EXCEPT ![o] = "holding"]
        /\ UNCHANGED <<now, guard, request, child, worker, operator,
                       exchangeVars>>

\* acquire_account_writer raises: the supervisor exits without a worker.
AcquireRefused(o) ==
    /\ sup[o] = "acquiring"
    /\ LockFree
    /\ \/ reg.db = NoDb
       \/ reg.db # request[o].db
       \/ HeldByAnother(o, request[o].observed)
    /\ sup' = [sup EXCEPT ![o] = "gone"]
    /\ UNCHANGED <<now, registryVars, request, lease, child, worker, operator,
                   exchangeVars>>

\* renew_account_writer reads the clock, then waits for the lock.
BeginRenew(o) ==
    /\ sup[o] = "holding"
    /\ sup' = [sup EXCEPT ![o] = "renewing"]
    /\ request' = [request EXCEPT ![o].observed = now]
    /\ UNCHANGED <<now, registryVars, lease, child, worker, operator,
                   exchangeVars>>

Renew(o) ==
    /\ sup[o] = "renewing"
    /\ LockFree
    /\ IsCurrent(lease[o], request[o].observed)
    /\ reg' = [reg EXCEPT !.expiry = request[o].observed + LeaseSeconds]
    /\ sup' = [sup EXCEPT ![o] = "holding"]
    /\ UNCHANGED <<now, guard, request, lease, child, worker, operator,
                   exchangeVars>>

\* _spawn_worker: the child inherits the capability through its environment.
Spawn(o, w) ==
    /\ sup[o] = "holding"
    /\ child[o] = NoWorker
    /\ worker[w].cap = NoCapability
    /\ child' = [child EXCEPT ![o] = w]
    /\ worker' = [worker EXCEPT ![w] = [running |-> TRUE, cap |-> lease[o]]]
    /\ UNCHANGED <<now, registryVars, sup, request, lease, operator,
                   exchangeVars>>

\* A worker process ends, by _terminate_worker or on its own.  Inside the
\* guard the operating system drops its lock while its request, already sent,
\* may still reach the exchange.  That the kill succeeds is assumed: taskkill
\* is not checked.  (w may be NoWorker: nothing to kill.)
Kill(w) ==
    /\ worker' = [v \in Workers |->
                    IF v = w THEN [worker[v] EXCEPT !.running = FALSE]
                    ELSE worker[v]]
    /\ guard' = IF guard = w THEN NoWorker ELSE guard
    /\ wire' = IF guard = w /\ w # NoWorker THEN wire \cup {worker[w].cap}
               ELSE wire

\* run_supervisor recycles an unhealthy worker.
Recycle(o) ==
    /\ sup[o] = "holding"
    /\ child[o] # NoWorker
    /\ Kill(child[o])
    /\ child' = [child EXCEPT ![o] = NoWorker]
    /\ UNCHANGED <<now, reg, sup, request, lease, operator, exposure, written>>

\* The supervisor's worker is killed before its account lease is released.
KillAndLeave(o) ==
    /\ Kill(child[o])
    /\ child' = [child EXCEPT ![o] = NoWorker]
    /\ sup' = [sup EXCEPT ![o] = "stopping"]
    /\ UNCHANGED <<now, reg, request, lease, operator, exposure, written>>

\* run_supervisor stops: interrupt, lost scheduler lease, fatal boot error.
Stop(o) ==
    /\ sup[o] = "holding"
    /\ KillAndLeave(o)

\* renew_account_writer raises: the supervisor leaves the same way.
RenewRejected(o) ==
    /\ sup[o] = "renewing"
    /\ LockFree
    /\ ~ IsCurrent(lease[o], request[o].observed)
    /\ KillAndLeave(o)

\* Mutant of Released: the expiry is pushed back two lease periods.
ReleasedBackdated(o) ==
    IF IsCurrent(lease[o], now) THEN [reg EXCEPT !.expiry = now - 2 * LeaseSeconds]
    ELSE reg

\* release_account_writer ends a lease that is current; the refusal of one
\* that is not is suppressed.
Released(o) ==
    IF IsCurrent(lease[o], now) THEN [reg EXCEPT !.expiry = now] ELSE reg

\* The supervisor's finally, under the lock.
Release(o) ==
    /\ sup[o] = "stopping"
    /\ LockFree
    /\ reg' = Released(o)
    /\ sup' = [sup EXCEPT ![o] = "gone"]
    /\ UNCHANGED <<now, guard, request, lease, child, worker, operator,
                   exchangeVars>>

\* The supervisor dies without its finally; its worker keeps running.
Crash(o) ==
    /\ sup[o] \in {"acquiring", "holding", "renewing", "stopping"}
    /\ sup' = [sup EXCEPT ![o] = "gone"]
    /\ UNCHANGED <<now, registryVars, request, lease, child, worker, operator,
                   exchangeVars>>

\* Another supervisor process is started under the pid of one that is gone.
\* It knows nothing of that one's lease or worker.
Reuse(o) ==
    /\ PidReuse
    /\ reg.generation < MaxGeneration
    /\ sup[o] = "gone"
    /\ sup' = [sup EXCEPT ![o] = "new"]
    /\ lease' = [lease EXCEPT ![o] = NoCapability]
    /\ child' = [child EXCEPT ![o] = NoWorker]
    /\ UNCHANGED <<now, registryVars, request, worker, operator, exchangeVars>>

-----------------------------------------------------------------------------
(* Workers and the exchange                                                *)

\* mutation_guard on entry: take the lock, check the capability, keep the
\* lock while the request is sent.
EnterGuard(w) ==
    /\ worker[w].running
    /\ LockFree
    /\ IsCurrent(worker[w].cap, now)
    /\ guard' = w
    /\ written' = worker[w].cap.generation
    /\ UNCHANGED <<now, reg, supervisorVars, worker, operator, wire, exposure>>

\* The answer arrives (an entry opened exposure, an exit closed it, a leverage
\* change did neither) and the guard releases the lock.
LeaveGuard(w) ==
    /\ guard = w
    /\ guard' = NoWorker
    /\ exposure' \in {exposure, NoDb, worker[w].cap.db}
    /\ UNCHANGED <<now, reg, supervisorVars, worker, operator, wire, written>>

WorkerCrash(w) ==
    /\ worker[w].running
    /\ Kill(w)
    /\ UNCHANGED <<now, reg, supervisorVars, operator, exposure, written>>

\* The exchange receives, or never receives, a killed worker's request.
Land(cap) ==
    /\ cap \in wire
    /\ wire' = wire \ {cap}
    /\ exposure' \in {exposure, NoDb, cap.db}
    /\ UNCHANGED <<now, registryVars, supervisorVars, worker, operator, written>>

-----------------------------------------------------------------------------
OperatorNext ==
    \/ \E d \in Databases : Bind(d) \/ RebindPreflight(d)
    \/ RebindCommit
    \/ RebindRefused

SupervisorNext(o) ==
    \/ \E d \in Databases : BeginAcquire(o, d)
    \/ Acquire(o)
    \/ AcquireRefused(o)
    \/ BeginRenew(o)
    \/ Renew(o)
    \/ RenewRejected(o)
    \/ \E w \in Workers : Spawn(o, w)
    \/ Recycle(o)
    \/ Stop(o)
    \/ Release(o)
    \/ Crash(o)
    \/ Reuse(o)

WorkerNext(w) == EnterGuard(w) \/ LeaveGuard(w) \/ WorkerCrash(w)

Next ==
    \/ Tick
    \/ OperatorNext
    \/ \E o \in Owners : SupervisorNext(o)
    \/ \E w \in Workers : WorkerNext(w)
    \/ \E cap \in wire : Land(cap)

Spec == Init /\ [][Next]_vars

-----------------------------------------------------------------------------
(* Properties                                                              *)

\* Type correctness of the registry record, the processes and the history.
TypeOK ==
    /\ now \in Nat \ {0}
    /\ reg \in [db : Databases \cup {NoDb}, owner : Owners \cup {NoOwner},
                generation : Nat, expiry : Nat]
    /\ guard \in Workers \cup {NoWorker}
    /\ sup \in [Owners -> Phases]
    /\ request \in [Owners -> [db : Databases \cup {NoDb}, observed : Nat]]
    /\ lease \in [Owners -> Capability]
    /\ child \in [Owners -> Workers \cup {NoWorker}]
    /\ worker \in [Workers -> [running : BOOLEAN, cap : Capability]]
    /\ wire \subseteq Capability
    /\ operator \in Databases \cup {NoDb}
    /\ exposure \in Databases \cup {NoDb}
    /\ written \in Nat

\* While a worker is inside mutation_guard (account_writer.py, mutation_guard)
\* the registry still names its database, owner and generation, whatever
\* expires, crashes, restarts or is commanded in the meantime.
FencedMutation ==
    guard # NoWorker =>
        LET cap == worker[guard].cap IN
            /\ reg.db = cap.db
            /\ reg.owner = cap.owner
            /\ reg.generation = cap.generation

\* Two capabilities of one generation are the same capability: a takeover
\* under any database, or after a rebind (which forgets the owner), never
\* hands out a number that somebody else was given.
Capabilities ==
    ({lease[o] : o \in Owners} \cup {worker[w].cap : w \in Workers} \cup wire)
        \ {NoCapability}

GenerationsUnique ==
    \A c1, c2 \in Capabilities : c1.generation = c2.generation => c1 = c2

\* At most one running worker process would pass mutation_guard's check: the
\* orphan of a crashed supervisor is fenced off before its successor's worker
\* can write (run_supervisor: "cannot create a second writer").
EffectiveWriters ==
    {w \in Workers : worker[w].running /\ IsCurrent(worker[w].cap, now)}

OneEffectiveWriter ==
    \A v, w \in EffectiveWriters : v = w

\* Once a generation has written to the exchange no older generation sends a
\* mutation again.
MutationsInGenerationOrder == [][written' >= written]_vars

\* The record passes from one owner to another only if the earlier lease has
\* expired or its owner is gone: reading the clock before waiting for the lock
\* never evicts a live holder.
NoEvictionOfLiveHolder ==
    [][reg.owner \in Owners /\ reg'.owner # reg.owner =>
            ~ Unexpired(now) \/ sup[reg.owner] = "gone"]_vars

-----------------------------------------------------------------------------
(* The promise to the account                                              *)

Registered == [db |-> reg.db, owner |-> reg.owner,
               generation |-> reg.generation]
Mutating == IF guard = NoWorker THEN NoCapability ELSE worker[guard].cap

Account == INSTANCE SingleWriter
               WITH current <- Registered, writing <- Mutating, last <- written

\* The registry with its lock, leases, supervisors and workers implements the
\* single writer: "exactly one" capability is current, it never changes under
\* a mutation, and a mutation is sent under the current one only.
ImplementsSingleWriter == Account!Spec
=============================================================================
