----------------------- MODULE ConfigSnapshotProofs -----------------------
(***************************************************************************)
(* Proofs about ConfigSnapshot, for any number of editors, sizers, runners *)
(* of cycles, scripts and configurations.                                  *)
(*                                                                         *)
(* The writes of activate_pending and of the first snapshot have no        *)
(* condition.  They are atomic all the same as long as no other write of   *)
(* that kind came between: the conditional updates of the sessions wait    *)
(* for an empty pending slot and never touch the active pointer, so what   *)
(* an activation or a founding relies on is still in the row.              *)
(***************************************************************************)
EXTENDS ConfigSnapshot, TLAPS

-----------------------------------------------------------------------------
(* Types                                                                   *)

\* What a session that has loaded the run is about to offer.
Offered ==
    \A p \in Sessions :
        proc[p].pc # "idle" => proc[p].pc = "loaded" /\ proc[p].config \in Configs

\* The pointers of a run lead to stored snapshots.
Leads(row) == \A c \in {row.active, row.pending} \ {NoConfig} : Stored(c)

\* What was loaded is stored: snapshots are never deleted.
SawStored == \A p \in Processes : Leads(proc[p].saw)

\* A script loads nothing.
ScriptsBlind == \A x \in Scripts : proc[x].saw = EmptyRun

TInv == TypeOK /\ Offered /\ SawStored /\ ScriptsBlind

LEMMA IdleType ==
    /\ Idle \in Memories
    /\ Idle.pc = "idle" /\ Idle.saw = EmptyRun
    /\ EmptyRun \in Runs
    /\ EmptyRun.active = NoConfig /\ EmptyRun.pending = NoConfig
  BY DEF Idle, Memories, EmptyRun, Runs, Config, Labels

LEMMA ProcessSets ==
    /\ Sessions \subseteq Processes /\ Cycles \subseteq Processes
    /\ Scripts \subseteq Processes /\ Editors \subseteq Sessions
    /\ Sizers \subseteq Sessions
    /\ Sessions \cap Cycles = {} /\ Sessions \cap Scripts = {}
    /\ Scripts \cap Cycles = {}
  BY ConfigAssumption DEF Sessions, Processes

LEMMA InitTInv ==
    ASSUME Init PROVE TInv
  <1>1. \A p \in Processes : proc[p] = Idle
    BY DEF Init
  <1>2. proc \in [Processes -> Memories]
    BY IdleType DEF Init
  <1>3. Offered /\ SawStored /\ ScriptsBlind
    BY <1>1, IdleType, ProcessSets DEF Offered, SawStored, ScriptsBlind, Leads
  <1>4. TypeOK
    BY <1>2, IdleType, ConfigAssumption DEF Init, TypeOK, Config
  <1> QED BY <1>3, <1>4 DEF TInv

\* What a step must do to the tables and to one memory to keep the types.
LEMMA TypeStep ==
    ASSUME TInv, NEW p \in Processes, NEW m \in Memories,
           proc' = [proc EXCEPT ![p] = m],
           p \in Sessions /\ m.pc # "idle"
               => m.pc = "loaded" /\ m.config \in Configs,
           effective' \in [Configs -> Labels \cup {"absent"}],
           \A c \in Configs : Stored(c) => Stored(c)',
           run' \in Runs, Leads(run)', base' \in Config,
           m.saw \in {run, EmptyRun}, p \in Scripts => m.saw = EmptyRun,
           overtaken' \in SUBSET Processes, lost' \in SUBSET Configs,
           requests' \in 0 .. MaxRequests, faults' \in 0 .. MaxFaults
    PROVE  TInv'
  <1>0. /\ TypeOK /\ Offered /\ SawStored /\ ScriptsBlind
        /\ proc \in [Processes -> Memories] /\ run \in Runs
    BY DEF TInv, TypeOK
  <1>1. /\ proc'[p] = m
        /\ \A q \in Processes : q # p => proc'[q] = proc[q]
        /\ proc' \in [Processes -> Memories]
    BY <1>0
  <1>2. TypeOK'
    BY <1>1 DEF TypeOK, Leads
  <1>3. Offered'
    BY <1>0, <1>1, ProcessSets DEF Offered
  <1>4. SawStored'
    <2> SUFFICES ASSUME NEW q \in Processes,
                        NEW c \in {proc'[q].saw.active, proc'[q].saw.pending}
                                     \ {NoConfig}
                 PROVE  Stored(c)'
      BY DEF SawStored, Leads
    <2>1. CASE q = p
      <3>1. m.saw = run
        BY <1>1, <2>1, IdleType
      <3>2. c \in Configs /\ Stored(c)
        BY <1>0, <1>1, <2>1, <3>1 DEF TypeOK, Runs, Config
      <3> QED BY <3>2
    <2>2. CASE q # p
      <3>1. c \in Configs /\ Stored(c)
        BY <1>0, <1>1, <2>2 DEF SawStored, Leads, Memories, Runs, Config
      <3> QED BY <3>1
    <2> QED BY <2>1, <2>2
  <1>5. ScriptsBlind'
    BY <1>0, <1>1, ProcessSets DEF ScriptsBlind
  <1> QED BY <1>2, <1>3, <1>4, <1>5 DEF TInv

\* The steps of Next by what they do.
Load(p) ==
    \/ \E c \in Configs, label \in Labels : LoadForEdit(p, c, label)
    \/ \E c \in Configs : LoadForSizing(p, c)
Decide(p) == Restage(p) \/ Create(p) \/ StageProfile(p)
Leave(p) == Conflict(p) \/ RunCycle(p) \/ Die(p)
Start(k) == \E id \in CycleIds \cup {"NEXT_CYCLE"} : StartCycle(k, id)

LEMMA NextCases ==
    ASSUME Next
    PROVE  \/ \E p \in Sessions : Load(p) \/ Decide(p)
           \/ \E e \in Editors : Found(e)
           \/ \E p \in Processes : Leave(p)
           \/ \E k \in Cycles : Start(k) \/ ActivatePending(k)
           \/ \E x \in Scripts : Withdraw(x) \/ ClearActive(x)
  BY ProcessSets
     DEF Next, EditorStep, SizerStep, CycleStep, ScriptStep, Load, Decide,
         Leave, Start

\* A session loads the run.
LEMMA LoadFacts ==
    ASSUME TInv, NEW p \in Sessions, Load(p)
    PROVE  /\ UNCHANGED <<run, effective, base, overtaken, lost, faults>>
           /\ requests' \in 0 .. MaxRequests
           /\ run.pending = NoConfig
           /\ \E m \in Memories :
                  /\ proc' = [proc EXCEPT ![p] = m]
                  /\ m.pc = "loaded" /\ m.saw = run /\ m.config \in Configs
  <1>1. CASE \E c \in Configs, label \in Labels : LoadForEdit(p, c, label)
    <2>1. PICK c \in Configs, label \in Labels : LoadForEdit(p, c, label)
      BY <1>1
    <2>2. [pc |-> "loaded", saw |-> run, config |-> c, label |-> label]
              \in Memories
      BY DEF TInv, TypeOK, Memories, Config
    <2>3. requests' \in 0 .. MaxRequests
      BY <2>1, ConfigAssumption DEF LoadForEdit, TInv, TypeOK
    <2> QED BY <2>1, <2>2, <2>3 DEF LoadForEdit
  <1>2. CASE \E c \in Configs : LoadForSizing(p, c)
    <2>1. PICK c \in Configs : LoadForSizing(p, c)
      BY <1>2
    <2>2. [pc |-> "loaded", saw |-> run, config |-> c,
           label |-> "NEXT_CYCLE"] \in Memories
      BY DEF TInv, TypeOK, Memories, Config, Labels
    <2>3. requests' \in 0 .. MaxRequests
      BY <2>1, ConfigAssumption DEF LoadForSizing, TInv, TypeOK
    <2> QED BY <2>1, <2>2, <2>3 DEF LoadForSizing
  <1> QED BY <1>1, <1>2 DEF Load

\* A session that writes a snapshot: rows are only added.
LEMMA InsertFacts ==
    ASSUME TInv, NEW p \in Sessions, proc[p].pc = "loaded",
           Insert(p) \/ UNCHANGED effective
    PROVE  /\ proc[p].config \in Configs
           /\ effective' \in [Configs -> Labels \cup {"absent"}]
           /\ \A c \in Configs : Stored(c) => Stored(c)'
           /\ Insert(p) => effective'[proc[p].config] # "absent"
  <1>0. /\ TypeOK /\ p \in Processes
        /\ proc[p].config \in Configs
        /\ proc[p].label \in Labels
        /\ "absent" \notin Labels
    BY ConfigAssumption, ProcessSets
       DEF TInv, TypeOK, Offered, Memories, Labels
  <1>1. PICK d \in Configs : d = proc[p].config
    BY <1>0
  <1>2. CASE Insert(p)
    BY <1>0, <1>1, <1>2 DEF Insert, TypeOK, Stored
  <1>3. CASE UNCHANGED effective /\ ~ Insert(p)
    BY <1>0, <1>3 DEF TypeOK, Stored
  <1> QED BY <1>2, <1>3

\* What a session's decision does to the run: nothing, or it stages, on the
\* active configuration, another one that is stored by then.
LEMMA DecideFacts ==
    ASSUME TInv, NEW p \in Sessions, Decide(p)
    PROVE  /\ effective' \in [Configs -> Labels \cup {"absent"}]
           /\ \A c \in Configs : Stored(c) => Stored(c)'
           /\ proc' = [proc EXCEPT ![p] = Idle]
           /\ overtaken' = overtaken \ {p}
           /\ UNCHANGED <<requests, faults>>
           /\ \/ UNCHANGED <<run, base, lost>>
              \/ \E c \in Configs :
                    /\ Stored(c)' /\ c # run.active
                    /\ run.pending = NoConfig
                    /\ run' = [active |-> run.active, pending |-> c]
                    /\ base' = run.active
                    /\ lost' = lost \ {c}
  <1>0. /\ proc[p].pc = "loaded" /\ run \in Runs
        /\ Insert(p) \/ UNCHANGED effective
        /\ proc' = [proc EXCEPT ![p] = Idle]
        /\ overtaken' = overtaken \ {p}
        /\ UNCHANGED <<requests, faults>>
        /\ Leads(run) /\ NoConfig \notin Configs
    BY ConfigAssumption
       DEF TInv, TypeOK, Leads, Decide, Restage, Create, StageProfile, Reset,
           Done
  <1>1. PICK d \in Configs : d = proc[p].config
    BY <1>0, InsertFacts
  <1>2. /\ effective' \in [Configs -> Labels \cup {"absent"}]
        /\ \A c \in Configs : Stored(c) => Stored(c)'
        /\ Insert(p) => Stored(d)'
    BY <1>0, <1>1, InsertFacts DEF Stored
  <1>3. CASE Claim(p) /\ Stored(d)' /\ d # run.active
    <2>1. run' = [active |-> run.active, pending |-> d]
      BY <1>0, <1>1, <1>3 DEF Claim, Claimed, Runs
    <2> QED
      BY <1>0, <1>1, <1>2, <1>3, <2>1 DEF Claim, Claimable
  <1>4. CASE UNCHANGED <<run, base, lost>>
    BY <1>0, <1>2, <1>4
  <1>5. ASSUME Claim(p), Stored(d), d # proc[p].saw.active
        PROVE  Stored(d)' /\ d # run.active
    BY <1>2, <1>5 DEF Claim, Claimable
  <1>6. ASSUME ~ Stored(d), Insert(p)
        PROVE  Stored(d)' /\ d # run.active
    BY <1>0, <1>2, <1>6 DEF Leads
  <1> QED
    BY <1>1, <1>3, <1>4, <1>5, <1>6
       DEF Decide, Restage, Create, StageProfile, Stored

\* The founding of a run.
LEMMA FoundFacts ==
    ASSUME TInv, NEW e \in Editors, Found(e)
    PROVE  /\ effective' \in [Configs -> Labels \cup {"absent"}]
           /\ \A c \in Configs : Stored(c) => Stored(c)'
           /\ proc' = [proc EXCEPT ![e] = Idle]
           /\ overtaken' = (overtaken \cup Founding) \ {e}
           /\ UNCHANGED <<lost, requests, faults>>
           /\ proc[e].pc = "loaded" /\ proc[e].saw.active = NoConfig
           /\ \E c \in Configs :
                 /\ ~ Stored(c) /\ Stored(c)'
                 /\ run' = [active |-> c, pending |-> run.pending]
                 /\ base' = c
  <1>0. /\ proc[e].pc = "loaded" /\ run \in Runs /\ Insert(e)
        /\ e \in Sessions
    BY ProcessSets DEF Found, TInv, TypeOK
  <1>1. PICK d \in Configs : d = proc[e].config
    BY <1>0, InsertFacts
  <1>2. /\ effective' \in [Configs -> Labels \cup {"absent"}]
        /\ \A c \in Configs : Stored(c) => Stored(c)'
        /\ Stored(d)'
    BY <1>0, <1>1, InsertFacts DEF Stored
  <1>3. run' = [active |-> d, pending |-> run.pending]
    BY <1>0, <1>1 DEF Found, Runs
  <1> QED
    BY <1>0, <1>1, <1>2, <1>3 DEF Found, Done, Stored

\* A cycle starts.
LEMMA StartFacts ==
    ASSUME TInv, NEW k \in Cycles, Start(k)
    PROVE  /\ UNCHANGED <<run, effective, base, overtaken, lost, requests,
                          faults>>
           /\ \E m \in Memories :
                 /\ proc' = [proc EXCEPT ![k] = m]
                 /\ \/ m.pc = "loaded" /\ m.saw = run /\ run.pending # NoConfig
                    \/ m.pc = "running" /\ m.saw = EmptyRun
  <1>1. PICK id \in CycleIds \cup {"NEXT_CYCLE"} : StartCycle(k, id)
    BY DEF Start
  <1>2. CASE Due(id)
    <2> DEFINE m == [Idle EXCEPT !.pc = "loaded", !.saw = run]
    <2>1. m \in Memories /\ m.pc = "loaded" /\ m.saw = run
      BY DEF Idle, Memories, TInv, TypeOK, Config, Labels
    <2>2. proc' = [proc EXCEPT ![k] = m]
      BY <1>1, <1>2 DEF StartCycle
    <2> HIDE DEF m
    <2> QED BY <1>1, <1>2, <2>1, <2>2 DEF StartCycle, Due
  <1>3. CASE ~ Due(id)
    <2> DEFINE m == [Idle EXCEPT !.pc = "running"]
    <2>1. m \in Memories /\ m.pc = "running" /\ m.saw = EmptyRun
      BY IdleType DEF Idle, Memories
    <2>2. proc' = [proc EXCEPT ![k] = m]
      BY <1>1, <1>3 DEF StartCycle
    <2> HIDE DEF m
    <2> QED BY <1>1, <2>1, <2>2 DEF StartCycle
  <1> QED BY <1>2, <1>3

\* A cycle activates what it loaded.
LEMMA ActivateFacts ==
    ASSUME TInv, NEW k \in Cycles, ActivatePending(k)
    PROVE  /\ UNCHANGED <<effective, base, requests, faults>>
           /\ proc[k].pc = "loaded"
           /\ overtaken' = (overtaken \cup Activating \cup Founding) \ {k}
           /\ lost' \in SUBSET Configs
           /\ run' \in Runs /\ Leads(run)' /\ run'.pending = NoConfig
           /\ proc[k].saw.active # proc[k].saw.pending
                 => run'.active = proc[k].saw.pending
           /\ \E m \in Memories :
                 /\ proc' = [proc EXCEPT ![k] = m]
                 /\ m.pc = "running" /\ m.saw = EmptyRun
  <1>0. /\ k \in Processes /\ proc[k].saw \in Runs /\ run \in Runs
        /\ lost \in SUBSET Configs
        /\ Leads(run) /\ Leads(proc[k].saw)
    BY ProcessSets DEF TInv, TypeOK, Memories, Leads, SawStored
  <1>1. /\ run'.active \in {proc[k].saw.pending, run.active}
        /\ run'.pending = NoConfig
        /\ proc[k].saw.active # proc[k].saw.pending
                 => run'.active = proc[k].saw.pending
    BY DEF ActivatePending, Activated
  <1>2. run' \in Runs
    BY <1>0 DEF ActivatePending, Activated, Runs, Config
  <1>3. Leads(run)'
    BY <1>0, <1>1 DEF ActivatePending, Leads, Stored
  <1>4. lost' \in SUBSET Configs
    BY <1>0 DEF ActivatePending, Runs, Config
  <1> DEFINE m == [Idle EXCEPT !.pc = "running"]
  <1>5. m \in Memories /\ m.pc = "running" /\ m.saw = EmptyRun
    BY IdleType DEF Idle, Memories
  <1>6. proc' = [proc EXCEPT ![k] = m]
    BY DEF ActivatePending
  <1> HIDE DEF m
  <1> QED
    BY <1>1, <1>2, <1>3, <1>4, <1>5, <1>6 DEF ActivatePending

\* A process is done without a write.
LEMMA LeaveFacts ==
    ASSUME TInv, NEW p \in Processes, Leave(p)
    PROVE  /\ UNCHANGED <<run, effective, base, lost, requests>>
           /\ faults' \in 0 .. MaxFaults
           /\ proc' = [proc EXCEPT ![p] = Idle]
           /\ overtaken' = overtaken \ {p}
  BY ConfigAssumption
     DEF Leave, Conflict, RunCycle, Die, Reset, Done, TInv, TypeOK

\* The two transactions of the script.
LEMMA ScriptFacts ==
    ASSUME TInv, NEW x \in Scripts, Withdraw(x) \/ ClearActive(x)
    PROVE  /\ UNCHANGED <<effective, faults>>
           /\ requests' \in 0 .. MaxRequests
           /\ lost' \in SUBSET Configs
           /\ \/ /\ run' = [active |-> run.active, pending |-> NoConfig]
                 /\ overtaken' = overtaken \cup Activating
                 /\ UNCHANGED base
              \/ /\ run' = [active |-> NoConfig, pending |-> run.pending]
                 /\ overtaken' = overtaken \ {x}
                 /\ base' = NoConfig
           /\ \E m \in Memories :
                 /\ proc' = [proc EXCEPT ![x] = m]
                 /\ m.saw = EmptyRun
  <1>0. /\ x \in Processes /\ proc[x].saw = EmptyRun /\ proc[x] \in Memories /\ run \in Runs
        /\ proc \in [Processes -> Memories]
        /\ lost \in SUBSET Configs /\ requests \in 0 .. MaxRequests
    BY ProcessSets DEF TInv, TypeOK, ScriptsBlind
  <1>1. CASE Withdraw(x)
    <2> DEFINE m == [proc[x] EXCEPT !.pc = "loaded"]
    <2>1. m \in Memories /\ m.saw = EmptyRun
      BY <1>0 DEF Memories
    <2>2. proc' = [proc EXCEPT ![x] = m]
      BY <1>0, <1>1 DEF Withdraw
    <2>3. requests' \in 0 .. MaxRequests
      BY <1>0, <1>1, ConfigAssumption DEF Withdraw
    <2>4. lost' \in SUBSET Configs
      BY <1>0, <1>1 DEF Withdraw, Runs, Config
    <2>5. run' = [active |-> run.active, pending |-> NoConfig]
      BY <1>0, <1>1 DEF Withdraw, Runs
    <2> HIDE DEF m
    <2> QED BY <1>1, <2>1, <2>2, <2>3, <2>4, <2>5 DEF Withdraw
  <1>2. CASE ClearActive(x)
    <2>1. run' = [active |-> NoConfig, pending |-> run.pending]
      BY <1>0, <1>2 DEF ClearActive, Runs
    <2>2. overtaken' = overtaken \ {x} /\ proc' = [proc EXCEPT ![x] = Idle]
      BY <1>2 DEF ClearActive, Reset, Done
    <2> QED
      BY <1>0, <1>2, <2>1, <2>2, IdleType DEF ClearActive
  <1> QED BY <1>1, <1>2

LEMMA NextTInv ==
    ASSUME TInv, [Next]_vars
    PROVE  TInv'
  <1>0. /\ run \in Runs /\ base \in Config /\ Leads(run)
        /\ proc \in [Processes -> Memories]
        /\ effective \in [Configs -> Labels \cup {"absent"}]
        /\ overtaken \in SUBSET Processes /\ lost \in SUBSET Configs
        /\ requests \in 0 .. MaxRequests /\ faults \in 0 .. MaxFaults
        /\ Founding \subseteq Processes /\ Activating \subseteq Processes
        /\ \A p \in Processes : proc[p].saw \in Runs
        /\ NoConfig \in Config
    BY ProcessSets
       DEF TInv, TypeOK, Leads, Founding, Activating, Memories, Config
  <1>1. ASSUME NEW p \in Sessions, Load(p)
        PROVE  TInv'
    <2>1. PICK m \in Memories :
              /\ proc' = [proc EXCEPT ![p] = m]
              /\ m.pc = "loaded" /\ m.saw = run /\ m.config \in Configs
      BY <1>1, LoadFacts
    <2>2. /\ UNCHANGED <<run, effective, base, overtaken, lost, faults>>
          /\ requests' \in 0 .. MaxRequests
      BY <1>1, LoadFacts
    <2>3. Leads(run)' /\ \A c \in Configs : Stored(c) => Stored(c)'
      BY <1>0, <2>2 DEF Leads, Stored
    <2> QED BY <1>0, <2>1, <2>2, <2>3, TypeStep, ProcessSets
  <1>2. ASSUME NEW p \in Sessions, Decide(p)
        PROVE  TInv'
    <2>1. /\ effective' \in [Configs -> Labels \cup {"absent"}]
          /\ \A c \in Configs : Stored(c) => Stored(c)'
          /\ proc' = [proc EXCEPT ![p] = Idle]
          /\ overtaken' = overtaken \ {p}
          /\ UNCHANGED <<requests, faults>>
      BY <1>2, DecideFacts
    <2>2. run' \in Runs /\ Leads(run)' /\ base' \in Config
          /\ lost' \in SUBSET Configs
      <3>1. CASE UNCHANGED <<run, base, lost>>
        BY <1>0, <2>1, <3>1 DEF Leads, Runs, Config
      <3>2. ASSUME NEW c \in Configs, Stored(c)',
                   run' = [active |-> run.active, pending |-> c],
                   base' = run.active, lost' = lost \ {c}
            PROVE  run' \in Runs /\ Leads(run)' /\ base' \in Config
                   /\ lost' \in SUBSET Configs
        BY <1>0, <2>1, <3>2 DEF Leads, Runs, Config
      <3> QED BY <1>2, <3>1, <3>2, DecideFacts
    <2> QED BY <1>0, <2>1, <2>2, TypeStep, IdleType, ProcessSets
  <1>3. ASSUME NEW e \in Editors, Found(e)
        PROVE  TInv'
    <2>1. /\ effective' \in [Configs -> Labels \cup {"absent"}]
          /\ \A c \in Configs : Stored(c) => Stored(c)'
          /\ proc' = [proc EXCEPT ![e] = Idle]
          /\ overtaken' = (overtaken \cup Founding) \ {e}
          /\ UNCHANGED <<lost, requests, faults>>
      BY <1>3, FoundFacts
    <2>2. PICK c \in Configs :
              /\ Stored(c)' /\ base' = c
              /\ run' = [active |-> c, pending |-> run.pending]
      BY <1>3, FoundFacts
    <2>3. run' \in Runs /\ Leads(run)' /\ base' \in Config
      BY <1>0, <2>1, <2>2 DEF Leads, Runs, Config
    <2> QED BY <1>0, <2>1, <2>3, TypeStep, IdleType, ProcessSets
  <1>4. ASSUME NEW p \in Processes, Leave(p)
        PROVE  TInv'
    <2>1. /\ UNCHANGED <<run, effective, base, lost, requests>>
          /\ faults' \in 0 .. MaxFaults
          /\ proc' = [proc EXCEPT ![p] = Idle]
          /\ overtaken' = overtaken \ {p}
      BY <1>4, LeaveFacts
    <2>2. Leads(run)' /\ \A c \in Configs : Stored(c) => Stored(c)'
      BY <1>0, <2>1 DEF Leads, Stored
    <2> QED BY <1>0, <2>1, <2>2, TypeStep, IdleType
  <1>5. ASSUME NEW k \in Cycles, Start(k)
        PROVE  TInv'
    <2>1. PICK m \in Memories :
              proc' = [proc EXCEPT ![k] = m] /\ m.saw \in {run, EmptyRun}
      BY <1>5, StartFacts
    <2>2. UNCHANGED <<run, effective, base, overtaken, lost, requests, faults>>
      BY <1>5, StartFacts
    <2>3. Leads(run)' /\ \A c \in Configs : Stored(c) => Stored(c)'
      BY <1>0, <2>2 DEF Leads, Stored
    <2> QED BY <1>0, <2>1, <2>2, <2>3, TypeStep, ProcessSets
  <1>6. ASSUME NEW k \in Cycles, ActivatePending(k)
        PROVE  TInv'
    <2>1. PICK m \in Memories :
              proc' = [proc EXCEPT ![k] = m] /\ m.saw \in {run, EmptyRun}
      BY <1>6, ActivateFacts
    <2>2. /\ UNCHANGED <<effective, base, requests, faults>>
          /\ overtaken' = (overtaken \cup Activating \cup Founding) \ {k}
          /\ lost' \in SUBSET Configs
          /\ run' \in Runs /\ Leads(run)'
      BY <1>6, ActivateFacts
    <2>3. \A c \in Configs : Stored(c) => Stored(c)'
      BY <2>2 DEF Stored
    <2> QED BY <1>0, <2>1, <2>2, <2>3, TypeStep, ProcessSets
  <1>7. ASSUME NEW x \in Scripts, Withdraw(x) \/ ClearActive(x)
        PROVE  TInv'
    <2>1. PICK m \in Memories :
              /\ proc' = [proc EXCEPT ![x] = m]
              /\ m.saw = EmptyRun
      BY <1>7, ScriptFacts
    <2>2. /\ UNCHANGED <<effective, faults>>
          /\ requests' \in 0 .. MaxRequests
          /\ lost' \in SUBSET Configs
          /\ \/ /\ run' = [active |-> run.active, pending |-> NoConfig]
                /\ overtaken' = overtaken \cup Activating
                /\ UNCHANGED base
             \/ /\ run' = [active |-> NoConfig, pending |-> run.pending]
                /\ overtaken' = overtaken \ {x}
                /\ base' = NoConfig
      BY <1>7, ScriptFacts
    <2>3. /\ run' \in Runs /\ Leads(run)' /\ base' \in Config
          /\ overtaken' \in SUBSET Processes
      BY <1>0, <2>2 DEF Leads, Stored, Runs, Config
    <2>4. \A c \in Configs : Stored(c) => Stored(c)'
      BY <2>2 DEF Stored
    <2> QED BY <1>0, <2>1, <2>2, <2>3, <2>4, TypeStep, ProcessSets
  <1>8. CASE UNCHANGED vars
    BY <1>8
       DEF vars, TInv, TypeOK, Offered, SawStored, ScriptsBlind, Leads, Stored
  <1> QED BY <1>1, <1>2, <1>3, <1>4, <1>5, <1>6, <1>7, <1>8, NextCases

\* The state keeps its type, and the pointers of the run never dangle, for any
\* number of sessions, runners of cycles and scripts.
THEOREM TypeCorrect == Spec => []TypeOK
  <1>1. TInv => TypeOK
    BY DEF TInv
  <1> QED BY <1>1, InitTInv, NextTInv, PTL DEF Spec

-----------------------------------------------------------------------------
(* What was loaded is still in the row when it is written                  *)

\* What is pending was staged on the active configuration, and is another.
StagedOn ==
    run.pending # NoConfig => base = run.active /\ run.pending # run.active

\* A cycle that nobody overtook finds pending what it loaded.
StillPending ==
    \A k \in Activating :
        /\ proc[k].saw.pending # NoConfig
        /\ proc[k].saw.pending # proc[k].saw.active
        /\ k \notin overtaken => run.pending = proc[k].saw.pending

\* A session that nobody overtook finds the run without a configuration, if
\* it loaded it so.
StillUnfounded == \A e \in Founding \ overtaken : run.active = NoConfig

SInv == StagedOn /\ StillPending /\ StillUnfounded

LEMMA InitSInv ==
    ASSUME Init PROVE SInv
  <1>1. \A p \in Processes : proc[p].pc = "idle"
    BY IdleType DEF Init
  <1>2. Founding = {} /\ Activating = {}
    BY <1>1, ProcessSets DEF Founding, Activating
  <1> QED
    BY <1>2, IdleType
       DEF Init, SInv, StagedOn, StillPending, StillUnfounded

\* How a step changes the memories: p's becomes m, every other stays.
LEMMA OtherMemories ==
    ASSUME TInv, NEW p \in Processes, NEW m \in Memories,
           proc' = [proc EXCEPT ![p] = m]
    PROVE  /\ proc'[p] = m
           /\ \A q \in Processes : q # p => proc'[q] = proc[q]
           /\ Founding' \ {p} = Founding \ {p}
           /\ Activating' \ {p} = Activating \ {p}
           /\ p \in Activating' <=> p \in Cycles /\ m.pc = "loaded"
           /\ p \in Founding' <=> /\ p \in Sessions /\ m.pc = "loaded"
                                  /\ m.saw.active = NoConfig
  <1>1. /\ proc'[p] = m
        /\ \A q \in Processes : q # p => proc'[q] = proc[q]
    BY DEF TInv, TypeOK
  <1> QED BY <1>1, ProcessSets DEF Founding, Activating

\* A step that leaves the run alone, or that stages on an empty slot, keeps
\* the invariant when the memory it writes is right.
LEMMA QuietStep ==
    ASSUME TInv, SInv, NEW p \in Processes, NEW m \in Memories,
           proc' = [proc EXCEPT ![p] = m],
           StagedOn', run'.active = run.active,
           run'.pending = run.pending \/ run.pending = NoConfig,
           overtaken \ {p} \subseteq overtaken',
           m.pc = "loaded" => m.saw = run /\ UNCHANGED run,
           p \in Cycles /\ m.pc = "loaded" => run.pending # NoConfig
    PROVE  SInv'
  <1>0. StagedOn /\ StillPending /\ StillUnfounded
    BY DEF SInv
  <1>1. /\ proc'[p] = m
        /\ \A q \in Processes : q # p => proc'[q] = proc[q]
        /\ Founding' \ {p} = Founding \ {p}
        /\ Activating' \ {p} = Activating \ {p}
        /\ p \in Activating' => p \in Cycles /\ m.pc = "loaded"
        /\ p \in Founding' => m.pc = "loaded" /\ m.saw.active = NoConfig
    BY OtherMemories
  <1>2. StillPending'
    <2> SUFFICES ASSUME NEW k \in Activating'
                 PROVE  /\ proc'[k].saw.pending # NoConfig
                        /\ proc'[k].saw.pending # proc'[k].saw.active
                        /\ k \notin overtaken' => run'.pending = proc'[k].saw.pending
      BY DEF StillPending
    <2>1. CASE k = p
      BY <1>0, <1>1, <2>1 DEF StagedOn
    <2>2. CASE k # p
      <3>1. k \in Activating /\ k \in Processes
        BY <1>1, <2>2, ProcessSets DEF Activating
      <3> QED BY <1>0, <1>1, <2>2, <3>1 DEF StillPending
    <2> QED BY <2>1, <2>2
  <1>3. StillUnfounded'
    BY <1>0, <1>1 DEF StillUnfounded
  <1> QED BY <1>2, <1>3 DEF SInv

LEMMA NextSInv ==
    ASSUME TInv, SInv, [Next]_vars
    PROVE  SInv'
  <1>0. /\ StagedOn /\ StillPending /\ StillUnfounded /\ run \in Runs
        /\ Leads(run) /\ NoConfig \notin Configs
    BY ConfigAssumption DEF SInv, TInv, TypeOK, Leads
  <1>1. ASSUME NEW p \in Sessions, Load(p)
        PROVE  SInv'
    <2>1. PICK m \in Memories : proc' = [proc EXCEPT ![p] = m] /\ m.saw = run
      BY <1>1, LoadFacts
    <2>2. UNCHANGED <<run, base, overtaken>> /\ p \in Processes /\ p \notin Cycles
      BY <1>1, LoadFacts, ProcessSets
    <2>3. StagedOn'
      BY <1>0, <2>2 DEF StagedOn
    <2> QED BY <2>1, <2>2, <2>3, QuietStep
  <1>2. ASSUME NEW p \in Sessions, Decide(p)
        PROVE  SInv'
    <2>1. /\ proc' = [proc EXCEPT ![p] = Idle] /\ p \in Processes
          /\ overtaken' = overtaken \ {p}
      BY <1>2, DecideFacts, ProcessSets
    <2>2. CASE UNCHANGED <<run, base, lost>>
      <3>1. StagedOn'
        BY <1>0, <2>2 DEF StagedOn
      <3> QED BY <2>1, <2>2, <3>1, QuietStep, IdleType
    <2>3. CASE \E c \in Configs :
                  /\ c # run.active
                  /\ run.pending = NoConfig
                  /\ run' = [active |-> run.active, pending |-> c]
                  /\ base' = run.active
      <3>1. /\ StagedOn' /\ run'.active = run.active
            /\ run.pending = NoConfig
        BY <2>3 DEF StagedOn
      <3> QED BY <2>1, <3>1, QuietStep, IdleType
    <2> QED BY <1>2, <2>2, <2>3, DecideFacts
  <1>3. ASSUME NEW e \in Editors, Found(e)
        PROVE  SInv'
    <2>1. /\ proc' = [proc EXCEPT ![e] = Idle]
          /\ e \in Processes /\ e \in Sessions
          /\ overtaken' = (overtaken \cup Founding) \ {e}
      BY <1>3, FoundFacts, ProcessSets
    <2>2. PICK c \in Configs :
              /\ ~ Stored(c) /\ base' = c
              /\ run' = [active |-> c, pending |-> run.pending]
      BY <1>3, FoundFacts
    <2>3. StagedOn'
      BY <1>0, <2>2 DEF StagedOn, Leads
    <2>4. /\ \A q \in Processes : q # e => proc'[q] = proc[q]
          /\ Founding' \ {e} = Founding \ {e} /\ e \notin Founding'
          /\ Activating' \ {e} = Activating \ {e} /\ e \notin Activating'
      BY <2>1, OtherMemories, IdleType, ProcessSets
    <2>5. StillUnfounded'
      BY <2>1, <2>4 DEF StillUnfounded
    <2>6. StillPending'
      BY <1>0, <2>1, <2>2, <2>4, ProcessSets DEF StillPending, Activating
    <2> QED BY <2>3, <2>5, <2>6 DEF SInv
  <1>4. ASSUME NEW p \in Processes, Leave(p)
        PROVE  SInv'
    <2>1. /\ UNCHANGED <<run, base>> /\ overtaken' = overtaken \ {p}
          /\ proc' = [proc EXCEPT ![p] = Idle]
      BY <1>4, LeaveFacts
    <2>2. StagedOn'
      BY <1>0, <2>1 DEF StagedOn
    <2> QED BY <2>1, <2>2, QuietStep, IdleType
  <1>5. ASSUME NEW k \in Cycles, Start(k)
        PROVE  SInv'
    <2>1. PICK m \in Memories :
              /\ proc' = [proc EXCEPT ![k] = m]
              /\ m.pc = "loaded" => m.saw = run /\ run.pending # NoConfig
      BY <1>5, StartFacts
    <2>2. UNCHANGED <<run, base, overtaken>> /\ k \in Processes
      BY <1>5, StartFacts, ProcessSets
    <2>3. StagedOn'
      BY <1>0, <2>2 DEF StagedOn
    <2> QED BY <2>1, <2>2, <2>3, QuietStep
  <1>6. ASSUME NEW k \in Cycles, ActivatePending(k)
        PROVE  SInv'
    <2>1. PICK m \in Memories :
              proc' = [proc EXCEPT ![k] = m] /\ m.pc = "running"
      BY <1>6, ActivateFacts
    <2>2. /\ overtaken' = (overtaken \cup Activating \cup Founding) \ {k}
          /\ run'.pending = NoConfig /\ k \in Processes
      BY <1>6, ActivateFacts, ProcessSets
    <2>3. /\ \A q \in Processes : q # k => proc'[q] = proc[q]
          /\ Founding' \ {k} = Founding \ {k} /\ k \notin Founding'
          /\ Activating' \ {k} = Activating \ {k} /\ k \notin Activating'
      BY <2>1, <2>2, OtherMemories
    <2>4. StillUnfounded'
      BY <2>2, <2>3 DEF StillUnfounded
    <2>5. StillPending'
      BY <1>0, <2>2, <2>3, ProcessSets DEF StillPending, Activating
    <2>6. StagedOn'
      BY <2>2 DEF StagedOn
    <2> QED BY <2>4, <2>5, <2>6 DEF SInv
  <1>7. ASSUME NEW x \in Scripts, Withdraw(x) \/ ClearActive(x)
        PROVE  SInv'
    <2>1. PICK m \in Memories : proc' = [proc EXCEPT ![x] = m]
      BY <1>7, ScriptFacts
    <2>2. /\ \A q \in Processes : q # x => proc'[q] = proc[q]
          /\ Founding' \ {x} = Founding \ {x}
          /\ Activating' \ {x} = Activating \ {x}
          /\ x \notin Founding' /\ x \notin Activating'
          /\ x \notin Founding /\ x \notin Activating
      BY <2>1, OtherMemories, ProcessSets DEF Founding, Activating
    <2>3. CASE /\ run' = [active |-> run.active, pending |-> NoConfig]
               /\ overtaken' = overtaken \cup Activating
      <3>1. StillUnfounded'
        BY <1>0, <2>2, <2>3 DEF StillUnfounded
      <3>2. StillPending'
        BY <1>0, <2>2, <2>3, ProcessSets DEF StillPending, Activating
      <3>3. StagedOn'
        BY <2>3 DEF StagedOn
      <3> QED BY <3>1, <3>2, <3>3 DEF SInv
    <2>4. CASE /\ run' = [active |-> NoConfig, pending |-> run.pending]
               /\ overtaken' = overtaken \ {x}
               /\ base' = NoConfig
      <3>1. StillUnfounded'
        BY <2>4 DEF StillUnfounded
      <3>2. StillPending'
        BY <1>0, <2>2, <2>4, ProcessSets DEF StillPending, Activating
      <3>3. StagedOn'
        BY <2>4 DEF StagedOn
      <3> QED BY <3>1, <3>2, <3>3 DEF SInv
    <2> QED BY <1>7, <2>3, <2>4, ScriptFacts
  <1>8. CASE UNCHANGED vars
    BY <1>0, <1>8
       DEF vars, SInv, StagedOn, StillPending, StillUnfounded, Founding,
           Activating
  <1> QED BY <1>1, <1>2, <1>3, <1>4, <1>5, <1>6, <1>7, <1>8, NextCases

\* What a step is to everybody else.
LEMMA StepIsAtomic ==
    ASSUME TInv, SInv, [Next]_vars
    PROVE  \/ \E x \in Scripts : ScriptStep(x)
           \/ \E k \in overtaken \cap Cycles : ActivatePending(k)
           \/ \E e \in overtaken \cap Editors : Found(e)
           \/ Staged!Next
           \/ UNCHANGED run
  <1>1. ASSUME NEW p \in Sessions, Load(p) PROVE UNCHANGED run
    BY <1>1, LoadFacts
  <1>2. ASSUME NEW p \in Sessions, Decide(p)
        PROVE  Staged!Next \/ UNCHANGED run
    <2>1. CASE \E c \in Configs :
                  /\ c # run.active
                  /\ run.pending = NoConfig
                  /\ run' = [active |-> run.active, pending |-> c]
                  /\ base' = run.active
      BY <2>1 DEF Staged!Next, Staged!Stage
    <2> QED BY <1>2, <2>1, DecideFacts
  <1>3. ASSUME NEW e \in Editors, Found(e), e \notin overtaken
        PROVE  Staged!Next
    <2>1. PICK c \in Configs :
              base' = c /\ run' = [active |-> c, pending |-> run.pending]
      BY <1>3, FoundFacts
    <2>2. e \in Founding
      BY <1>3, FoundFacts, ProcessSets DEF Founding
    <2>3. run.active = NoConfig
      BY <1>3, <2>2 DEF SInv, StillUnfounded
    <2> QED BY <2>1, <2>3 DEF Staged!Next, Staged!Found
  <1>4. ASSUME NEW p \in Processes, Leave(p) PROVE UNCHANGED run
    BY <1>4, LeaveFacts
  <1>5. ASSUME NEW k \in Cycles, Start(k) PROVE UNCHANGED run
    BY <1>5, StartFacts
  <1>6. ASSUME NEW k \in Cycles, ActivatePending(k), k \notin overtaken
        PROVE  Staged!Next
    <2>1. k \in Activating
      BY <1>6, ActivateFacts DEF Activating
    <2>2. /\ run.pending = proc[k].saw.pending /\ run.pending # NoConfig
          /\ proc[k].saw.pending # proc[k].saw.active
          /\ base = run.active
      BY <1>6, <2>1 DEF SInv, StillPending, StagedOn
    <2>3. /\ run'.active = run.pending /\ run'.pending = NoConfig
          /\ UNCHANGED base
      BY <1>6, <2>2, ActivateFacts
    <2> QED BY <2>2, <2>3 DEF Staged!Next, Staged!Activate
  <1>7. ASSUME NEW x \in Scripts, Withdraw(x) \/ ClearActive(x)
        PROVE  ScriptStep(x)
    BY <1>7 DEF ScriptStep
  <1> QED
    BY <1>1, <1>2, <1>3, <1>4, <1>5, <1>6, <1>7, NextCases DEF vars

\* Loading, deciding and writing back are one step of StagedConfig, except for
\* the script's steps and for an activation or a founding that another
\* unconditional write overtook; for any number of sessions, runners of cycles,
\* scripts and configurations.
THEOREM AtomicSteps == Spec => AtomicUnlessOvertaken
  <1>1. TInv /\ SInv /\ [Next]_vars =>
            [\/ \E x \in Scripts : ScriptStep(x)
             \/ \E k \in overtaken \cap Cycles : ActivatePending(k)
             \/ \E e \in overtaken \cap Editors : Found(e)
             \/ Staged!Next
             \/ UNCHANGED run]_vars
    BY StepIsAtomic
  <1>2. TInv /\ SInv /\ [Next]_vars => TInv' /\ SInv'
    BY NextTInv, NextSInv
  <1> QED
    BY <1>1, <1>2, InitTInv, InitSInv, PTL DEF Spec, AtomicUnlessOvertaken
=============================================================================
