----------------------- MODULE EntryLifecycleProofs -----------------------
(***************************************************************************)
(* Proofs about EntryLifecycle, for any number of symbols, intents and     *)
(* faults.                                                                 *)
(***************************************************************************)
EXTENDS EntryLifecycle, FiniteSetTheorems, TLAPS

-----------------------------------------------------------------------------
(* Types                                                                   *)

\* From the reservation on the cycle has an intent.
WithIntent == {"authorise", "submit", "guard", "persist", "unwound",
               "unwinding", "protect", "project", "finalise"}

Working ==
    /\ cycle.pc # "idle" => cycle.symbol \in Symbols
    /\ cycle.pc \in WithIntent => cycle.intent \in Intents
    /\ cycle.pc = "persist" =>
           cycle.result \in {"not_attempted", "filled", "acknowledged",
                             "unread", "guarded", "over", "rejected"}

TInv == TypeOK /\ Working

LEMMA Finite ==
    /\ IsFiniteSet(Intents)
    /\ \A S \in SUBSET Intents : IsFiniteSet(S) /\ Cardinality(S) \in Nat
  <1>1. IsFiniteSet(Intents)
    BY EntryAssumption, FS_Interval DEF Intents
  <1> QED BY <1>1, FS_Subset, FS_CardinalityType

LEMMA Constants ==
    /\ Idle \in Memories /\ Idle.pc = "idle"
    /\ NoRow \in Row
    /\ MaxFaults \in Nat
    /\ NoSymbol \notin Symbols
  <1>1. Flat \in [Symbols -> SUBSET Intents]
    BY DEF Flat
  <1>2. Idle \in Memories /\ Idle.pc = "idle"
    BY <1>1 DEF Idle, Memories, Stages, Results
  <1>3. NoRow \in Row
    BY DEF NoRow, Row
  <1> QED BY <1>2, <1>3, EntryAssumption

LEMMA InitTInv ==
    ASSUME Init PROVE TInv
  <1>1. held \in [Symbols -> SUBSET Intents]
    BY DEF Init, Flat
  <1>2. faults \in 0 .. MaxFaults
    BY Constants DEF Init
  <1> QED
    BY <1>1, <1>2, Constants DEF Init, TInv, TypeOK, Working, WithIntent

LEMMA SubmissionRowType ==
    ASSUME NEW row \in Row,
           NEW r \in {"not_attempted", "filled", "acknowledged", "unread",
                      "guarded", "over", "rejected"}
    PROVE  SubmissionRow(row, r) \in Row
  <1>1. CASE r \in {"filled", "acknowledged", "unread"}
    BY <1>1 DEF SubmissionRow, Row, Pending
  <1>2. CASE r \in {"guarded", "over"}
    BY <1>2 DEF SubmissionRow, Row, Pending
  <1>3. CASE r = "rejected"
    BY <1>3 DEF SubmissionRow, Row, Terminal
  <1>4. CASE r = "not_attempted"
    BY <1>4 DEF SubmissionRow, Row, Terminal
  <1> QED BY <1>1, <1>2, <1>3, <1>4

LEMMA AdoptedRowsType ==
    ASSUME TypeOK, NEW i \in Intents, NEW s \in Symbols
    PROVE  AdoptedRows(i, s) \in [Intents -> Row]
  <1>0. /\ db \in [Intents -> Row] /\ Cardinality(cycle.snap[s]) \in Nat
        /\ \A j \in Intents : db[j] \in Row /\ db[j].quantity \in Nat
    BY Finite DEF TypeOK, Memories, Row
  <1>1. ASSUME NEW j \in Intents
        PROVE  AdoptedRows(i, s)[j] \in Row
    <2>1. CASE j = i
      <3>1. AdoptedRows(i, s)[j] =
               [db[i] EXCEPT
                   !.state = "FILLED", !.receipt = TRUE, !.fill = TRUE,
                   !.position = IF OpenPositions(s) = {} THEN "PROTECTED"
                                ELSE @,
                   !.quantity = IF OpenPositions(s) = {} THEN 1 ELSE @]
        BY <2>1 DEF AdoptedRows
      <3>2. CASE OpenPositions(s) = {}
        <4>1. AdoptedRows(i, s)[j] =
                 [db[i] EXCEPT !.state = "FILLED", !.receipt = TRUE,
                               !.fill = TRUE, !.position = "PROTECTED",
                               !.quantity = 1]
          BY <3>1, <3>2
        <4>2. \E q \in Nat : AdoptedRows(i, s)[j] =
                 [db[i] EXCEPT !.state = "FILLED", !.receipt = TRUE,
                               !.fill = TRUE, !.position = "PROTECTED",
                               !.quantity = q]
          BY <4>1
        <4> QED BY <1>0, <4>2 DEF Row, Terminal, OpenStates
      <3>3. CASE OpenPositions(s) # {}
        <4>1. AdoptedRows(i, s)[j] =
                 [db[i] EXCEPT !.state = "FILLED", !.receipt = TRUE,
                               !.fill = TRUE, !.position = db[i].position,
                               !.quantity = db[i].quantity]
          BY <3>1, <3>3
        <4> QED BY <1>0, <4>1 DEF Row, Terminal, OpenStates
      <3> QED BY <3>2, <3>3
    <2>2. CASE j # i /\ j \in OpenPositions(s) /\ ShouldProject(s)
      <3>1. AdoptedRows(i, s)[j] =
               [db[j] EXCEPT !.quantity = @ + 1, !.position = "PROTECTED"]
        BY <2>2 DEF AdoptedRows
      <3>2. db[j].quantity + 1 \in Nat
        BY <1>0
      <3> QED BY <1>0, <3>1, <3>2 DEF Row, OpenStates
    <2>3. CASE j # i /\ j \in OpenPositions(s) /\ ~ ShouldProject(s)
      <3>1. AdoptedRows(i, s)[j] =
               [db[j] EXCEPT !.quantity = Cardinality(cycle.snap[s])]
        BY <2>3 DEF AdoptedRows
      <3> QED BY <1>0, <3>1 DEF Row
    <2>4. CASE j # i /\ j \notin OpenPositions(s)
      BY <1>0, <2>4 DEF AdoptedRows
    <2> QED BY <2>1, <2>2, <2>3, <2>4
  <1> QED BY <1>1 DEF AdoptedRows

-----------------------------------------------------------------------------
(* Which steps change what                                                 *)

LEMMA DbSteps ==
    ASSUME [Next]_vars, db' # db
    PROVE  \/ \E i \in Intents : GapFlat(i) \/ GapAdopt(i) \/ ProjectExit(i)
                                     \/ ReserveIntent(i)
           \/ \E p, o, g \in SUBSET Intents : Recover(p, o, g)
           \/ PersistSubmission \/ ProjectUnwound \/ CloseUnwound
           \/ PersistEntry \/ Finalise
  BY DEF Next, Cycle, StartCycle, Crash, OrderExecutes, RecordGap,
         PositionCloses, SetControl, FetchSnapshot, SnapshotFails, GapSkip,
         GapFails, GapDone, Refetch, Reconcile, NoEntry, Authorise,
         NotAttempted, SubmitEntry, SubmitRests, SubmitFails, SubmitFenced,
         MarginGuard, Protect, vars, database

LEMMA OrderSteps ==
    ASSUME [Next]_vars, order' # order
    PROVE  \/ \E i \in Intents : OrderExecutes(i)
           \/ \E p, o, g \in SUBSET Intents : Recover(p, o, g)
           \/ SubmitRests
           \/ (SubmitEntry \/ SubmitFails \/ Crash) /\ Executed /\ At("submit")
  BY DEF Next, Cycle, StartCycle, RecordGap, PositionCloses, SetControl,
         FetchSnapshot, SnapshotFails, GapFlat, GapSkip, GapAdopt, GapFails,
         GapDone, Refetch, ProjectExit, Reconcile, ReserveIntent, NoEntry,
         Authorise, NotAttempted, SubmitEntry, SubmitFails, Crash,
         SubmitFenced, MarginGuard, PersistSubmission, ProjectUnwound,
         CloseUnwound, Protect, PersistEntry, Finalise, vars,
         exchange

LEMMA HeldSteps ==
    ASSUME [Next]_vars, held' # held
    PROVE  \/ \E i \in Intents : OrderExecutes(i)
           \/ \E s \in Symbols : held' = [held EXCEPT ![s] = {}]
           \/ (GapFails \/ MarginGuard \/ Protect)
              /\ held' = [held EXCEPT ![cycle.symbol] = {}]
           \/ (SubmitEntry \/ SubmitFails \/ Crash) /\ Executed /\ At("submit")
  BY DEF Next, Cycle, StartCycle, RecordGap, PositionCloses, SetControl,
         FetchSnapshot, SnapshotFails, GapFlat, GapSkip, GapAdopt, GapFails,
         GapDone, Refetch, ProjectExit, Reconcile, Recover, ReserveIntent,
         NoEntry, Authorise, NotAttempted, SubmitEntry, SubmitRests,
         SubmitFails, Crash, SubmitFenced, MarginGuard, PersistSubmission,
         ProjectUnwound, CloseUnwound, Protect, PersistEntry, Finalise, vars,
         exchange

LEMMA CycleSteps ==
    ASSUME [Next]_vars, cycle' # cycle, cycle' # Idle
    PROVE  \/ \E s \in Symbols : StartCycle(s)
           \/ FetchSnapshot \/ GapFails \/ GapDone \/ Refetch \/ Reconcile
           \/ \E i \in Intents : GapFlat(i) \/ GapSkip(i) \/ GapAdopt(i)
                                     \/ ProjectExit(i) \/ ReserveIntent(i)
           \/ \E p, o, g \in SUBSET Intents : Recover(p, o, g)
           \/ Authorise \/ NotAttempted \/ SubmitEntry \/ SubmitRests
           \/ SubmitFails \/ MarginGuard \/ PersistSubmission
           \/ ProjectUnwound \/ CloseUnwound \/ Protect \/ PersistEntry
  BY DEF Next, Cycle, RecordGap, PositionCloses, SetControl, OrderExecutes,
         SnapshotFails, NoEntry, Crash, SubmitFenced, Finalise, Abort, vars

-----------------------------------------------------------------------------
(* The type invariant                                                      *)

LEMMA NextRows ==
    ASSUME TInv, [Next]_vars
    PROVE  db' \in [Intents -> Row]
  <1>0. /\ TypeOK /\ db \in [Intents -> Row] /\ cycle \in Memories
        /\ cycle.pc # "idle" => cycle.symbol \in Symbols
    BY DEF TInv, TypeOK, Working
  <1>1. ASSUME NEW i \in Intents, GapFlat(i)
        PROVE  db' \in [Intents -> Row]
    <2> DEFINE st == IF db[i].state = "EXCHANGE_ACKNOWLEDGED"
                     THEN "CANCELLED" ELSE db[i].state
               new == [db[i] EXCEPT !.fill = TRUE, !.state = st]
    <2>1. db' = [db EXCEPT ![i] = new]
      BY <1>1 DEF GapFlat
    <2>2. st \in {"NONE"} \cup Pending \cup Terminal
      BY <1>0 DEF Row, Terminal
    <2> HIDE DEF st
    <2>3. new \in Row
      BY <1>0, <2>2 DEF Row
    <2> HIDE DEF new
    <2> QED BY <1>0, <2>1, <2>3
  <1>2. ASSUME NEW i \in Intents, GapAdopt(i)
        PROVE  db' \in [Intents -> Row]
    <2>1. cycle.symbol \in Symbols
      BY <1>0, <1>2 DEF GapAdopt, AtGap, At
    <2> QED BY <1>0, <1>2, <2>1, AdoptedRowsType DEF GapAdopt
  <1>3. ASSUME NEW i \in Intents, ProjectExit(i)
        PROVE  db' \in [Intents -> Row]
    BY <1>0, <1>3 DEF ProjectExit, Row
  <1>4. ASSUME NEW i \in Intents, ReserveIntent(i)
        PROVE  db' \in [Intents -> Row]
    <2>1. cycle.symbol \in Symbols
      BY <1>0, <1>4 DEF ReserveIntent, At
    <2>2. [db[i] EXCEPT !.state = "EXCHANGE_SUBMITTING",
                        !.symbol = cycle.symbol] \in Row
      BY <1>0, <2>1 DEF Row, Pending
    <2> QED BY <1>0, <1>4, <2>2 DEF ReserveIntent
  <1>5. ASSUME NEW p \in SUBSET Intents, NEW o \in SUBSET Intents,
               NEW g \in SUBSET Intents, Recover(p, o, g)
        PROVE  db' \in [Intents -> Row]
    <2>1. ASSUME NEW i \in Intents PROVE db'[i] \in Row
      <3>1. \E st \in {"CANCELLED", db[i].state},
               pos \in {"QUARANTINED", "PROTECTED", db[i].position} :
               db'[i] = [db[i] EXCEPT !.state = st, !.position = pos]
        BY <1>5 DEF Recover
      <3> QED BY <1>0, <3>1 DEF Row, Terminal, OpenStates
    <2> QED BY <1>5, <2>1 DEF Recover
  <1>6. CASE PersistSubmission
    <2>1. /\ cycle.intent \in Intents
          /\ SubmissionRow(db[cycle.intent], cycle.result) \in Row
      BY <1>0, <1>6, SubmissionRowType DEF PersistSubmission, At, TInv,
         Working, WithIntent
    <2> QED BY <1>0, <1>6, <2>1 DEF PersistSubmission
  <1>7. CASE ProjectUnwound
    <2>1. CASE \E q \in Nat, pos \in OpenStates :
                  db' = [db EXCEPT ![cycle.intent].state = "FILLED",
                                   ![cycle.intent].position = pos,
                                   ![cycle.intent].quantity = q]
      <3>1. PICK q \in Nat, pos \in OpenStates :
                  db' = [db EXCEPT ![cycle.intent].state = "FILLED",
                                   ![cycle.intent].position = pos,
                                   ![cycle.intent].quantity = q]
        BY <2>1
      <3>2. cycle.intent \in Intents
        BY <1>0, <1>7 DEF ProjectUnwound, At, TInv, Working, WithIntent
      <3> QED BY <1>0, <3>1, <3>2 DEF Row, Terminal
    <2> QED BY <1>0, <1>7, <2>1 DEF ProjectUnwound, OpenStates
  <1>11. CASE CloseUnwound
    <2>1. cycle.intent \in Intents
      BY <1>11 DEF CloseUnwound, At, TInv, Working, WithIntent
    <2> QED BY <1>0, <1>11, <2>1 DEF CloseUnwound, Row
  <1>8. CASE PersistEntry
    <2>1. CASE \E q \in Nat, pos \in OpenStates :
                  db' = [db EXCEPT ![cycle.intent] =
                       [@ EXCEPT !.state = "FILLED", !.receipt = TRUE,
                                 !.fill = TRUE, !.quantity = q,
                                 !.position = pos]]
      <3>1. PICK q \in Nat, pos \in OpenStates :
                  db' = [db EXCEPT ![cycle.intent] =
                       [@ EXCEPT !.state = "FILLED", !.receipt = TRUE,
                                 !.fill = TRUE, !.quantity = q,
                                 !.position = pos]]
        BY <2>1
      <3>2. cycle.intent \in Intents
        BY <1>0, <1>8 DEF PersistEntry, At, TInv, Working, WithIntent
      <3>3. [db[cycle.intent] EXCEPT !.state = "FILLED", !.receipt = TRUE,
                                 !.fill = TRUE, !.quantity = q,
                                 !.position = pos] \in Row
        BY <1>0, <3>2 DEF Row, Terminal
      <3> QED BY <1>0, <3>1, <3>2, <3>3
    <2> QED BY <1>0, <1>8, <2>1 DEF PersistEntry, OpenStates
  <1>9. CASE Finalise
    <2>1. PICK d \in {"OK", "other"} :
              db' = [db EXCEPT ![cycle.intent].decision = d]
      BY <1>9 DEF Finalise, DecisionReason
    <2>2. cycle.intent \in Intents
      BY <1>9 DEF Finalise, At, TInv, Working, WithIntent
    <2> QED BY <1>0, <2>1, <2>2 DEF Row
  <1>10. CASE db' = db
    BY <1>0, <1>10
  <1> QED
    BY <1>1, <1>2, <1>3, <1>4, <1>5, <1>6, <1>7, <1>8, <1>9, <1>10, <1>11,
       DbSteps

LEMMA NextExchange ==
    ASSUME TInv, [Next]_vars
    PROVE  /\ order' \in [Intents -> {"none", "open", "filled", "cancelled"}]
           /\ held' \in [Symbols -> SUBSET Intents]
  <1>0. /\ order \in [Intents -> {"none", "open", "filled", "cancelled"}]
        /\ held \in [Symbols -> SUBSET Intents]
    BY DEF TInv, TypeOK
  <1>1. At("submit") => cycle.intent \in Intents
    BY DEF TInv, Working, WithIntent, At
  <1>2. order' \in [Intents -> {"none", "open", "filled", "cancelled"}]
    <2>1. CASE \E p, o, g \in SUBSET Intents : Recover(p, o, g)
      BY <1>0, <2>1 DEF Recover
    <2>2. CASE \E i \in Intents : OrderExecutes(i)
      BY <1>0, <2>2 DEF OrderExecutes
    <2>3. CASE SubmitRests
      BY <1>0, <2>3 DEF SubmitRests
    <2>4. CASE Executed
      BY <1>0, <2>4 DEF Executed
    <2> QED BY <1>0, <2>1, <2>2, <2>3, <2>4, OrderSteps
  <1>3. held' \in [Symbols -> SUBSET Intents]
    <2>1. ASSUME NEW i \in Intents, OrderExecutes(i)
          PROVE  held' \in [Symbols -> SUBSET Intents]
      <3>1. CASE db[i].symbol \in Symbols
        BY <1>0, <2>1, <3>1 DEF OrderExecutes
      <3>2. CASE db[i].symbol \notin Symbols
        BY <1>0, <2>1, <3>2 DEF OrderExecutes
      <3> QED BY <3>1, <3>2
    <2>2. CASE Executed /\ At("submit")
      BY <1>0, <1>1, <2>2 DEF Executed
    <2>3. CASE \E s : held' = [held EXCEPT ![s] = {}]
      BY <1>0, <2>3
    <2> QED BY <1>0, <2>1, <2>2, <2>3, HeldSteps
  <1> QED BY <1>2, <1>3

LEMMA NextMemory ==
    ASSUME TInv, [Next]_vars
    PROVE  cycle' \in Memories /\ Working'
  <1>0. /\ TypeOK /\ Working /\ cycle \in Memories
        /\ held \in [Symbols -> SUBSET Intents] /\ enabled \in BOOLEAN
        /\ Resting \in SUBSET Intents
        /\ db \in [Intents -> Row]
    BY DEF TInv, TypeOK, Resting
  <1> USE DEF Stages
  <1>1. CASE cycle' = cycle
    BY <1>0, <1>1 DEF Working
  <1>2. CASE cycle' = Idle
    BY <1>2, Constants DEF Working, WithIntent
  <1>3. ASSUME NEW s \in Symbols, StartCycle(s)
        PROVE  cycle' \in Memories /\ Working'
    <2>1. cycle' = [Idle EXCEPT !.pc = "snapshot", !.symbol = s,
                                !.enabled = enabled]
      BY <1>3 DEF StartCycle
    <2> QED BY <1>0, <2>1, Constants DEF Memories, Working, WithIntent
  <1>4. CASE FetchSnapshot
    <2>1. GapCandidates(cycle.symbol) \in SUBSET Intents
      BY DEF GapCandidates
    <2> QED
      BY <1>0, <1>4, <2>1 DEF FetchSnapshot, At, Memories, Working, WithIntent
  <1>5. CASE GapFails \/ GapDone
    BY <1>0, <1>5 DEF GapFails, GapDone, At, Goto, Memories, Working,
       WithIntent
  <1>6. ASSUME NEW i \in Intents, GapFlat(i) \/ GapSkip(i) \/ GapAdopt(i)
        PROVE  cycle' \in Memories /\ Working'
    BY <1>0, <1>6 DEF GapFlat, GapSkip, GapAdopt, AtGap, At, Memories,
       Working, WithIntent
  <1>7. CASE Refetch \/ \E i \in Intents : ProjectExit(i)
    BY <1>0, <1>7 DEF Refetch, ProjectExit, At, Memories, Working, WithIntent
  <1>8. CASE Reconcile
    <2>1. {db[i].symbol : i \in RecoveryRequired \cup Mismatched \cup AllOpen}
              \in SUBSET (Symbols \cup {NoSymbol})
      <3>1. RecoveryRequired \cup Mismatched \cup AllOpen \subseteq Intents
        BY <1>0 DEF RecoveryRequired, Mismatched, AllOpen, Unprojected,
           Quarantined, Missing, Unprotected, Orphans, Memories
      <3> QED BY <1>0, <3>1 DEF Row
    <2>2. Unclaimable \in SUBSET (Symbols \cup {NoSymbol})
      BY DEF Unclaimable
    <2>3. PICK pc \in {"gate", "recover"}, r \in BOOLEAN,
               b \in SUBSET (Symbols \cup {NoSymbol}) :
             cycle' = [cycle EXCEPT !.pc = pc, !.recovery = r, !.blocked = b]
      BY <1>8, <2>1, <2>2 DEF Reconcile
    <2>4. cycle.pc = "exits"
      BY <1>8 DEF Reconcile, At
    <2> QED BY <1>0, <2>3, <2>4 DEF Memories, Working, WithIntent
  <1>9. CASE \E p, o, g \in SUBSET Intents : Recover(p, o, g)
    BY <1>0, <1>9 DEF Recover, At, Goto, Memories, Working, WithIntent
  <1>10. ASSUME NEW i \in Intents, ReserveIntent(i)
         PROVE  cycle' \in Memories /\ Working'
    BY <1>0, <1>10 DEF ReserveIntent, At, Memories, Working, WithIntent
  <1>11. CASE Authorise
    BY <1>0, <1>11 DEF Authorise, At, Memories, Results, Working, WithIntent
  <1>12. CASE NotAttempted \/ SubmitEntry \/ SubmitRests \/ SubmitFails
    BY <1>0, <1>12 DEF NotAttempted, SubmitEntry, SubmitRests, SubmitFails,
       Outcome, At, Memories, Results, Working, WithIntent
  <1>13. CASE MarginGuard
    BY <1>0, <1>13 DEF MarginGuard, Outcome, At, Memories, Results, Working,
       WithIntent
  <1>14. CASE PersistSubmission \/ ProjectUnwound \/ CloseUnwound
    <2>1. AfterSubmission \in {"protect", "unwound", "finalise"}
      BY DEF AfterSubmission
    <2> QED
      BY <1>0, <1>14, <2>1 DEF PersistSubmission, ProjectUnwound,
         CloseUnwound, Goto, At,
         Memories, Working, WithIntent
  <1>15. CASE Protect \/ PersistEntry
    BY <1>0, <1>15 DEF Protect, PersistEntry, Goto, At, Memories, Working,
       WithIntent
  <1> QED
    BY <1>1, <1>2, <1>3, <1>4, <1>5, <1>6, <1>7, <1>8, <1>9, <1>10, <1>11,
       <1>12, <1>13, <1>14, <1>15, CycleSteps

LEMMA NextTInv ==
    ASSUME TInv, [Next]_vars
    PROVE  TInv'
  <1>1. gaps' \in SUBSET Intents /\ enabled' \in BOOLEAN
    BY DEF TInv, TypeOK, Next, Cycle, StartCycle, Crash, OrderExecutes,
       RecordGap, PositionCloses, SetControl, FetchSnapshot, SnapshotFails,
       GapFlat, GapSkip, GapAdopt, GapFails, GapDone, Refetch, ProjectExit,
       Reconcile, Recover, ReserveIntent, NoEntry, Authorise, NotAttempted,
       SubmitEntry, SubmitRests, SubmitFails, SubmitFenced, MarginGuard,
       PersistSubmission, ProjectUnwound, CloseUnwound, Protect, PersistEntry,
       Finalise,
       vars, database
  <1>2. faults' \in 0 .. MaxFaults
    <2>0. faults \in 0 .. MaxFaults /\ MaxFaults \in Nat
      BY Constants DEF TInv, TypeOK
    <2>1. \A kind : Fault(kind) => faults' \in 0 .. MaxFaults
      BY <2>0 DEF Fault
    <2>2. faults' = faults => faults' \in 0 .. MaxFaults
      BY <2>0
    <2> QED
      BY <2>1, <2>2 DEF Next, Cycle, StartCycle, Crash, OrderExecutes,
         RecordGap, PositionCloses, SetControl, FetchSnapshot, SnapshotFails,
         GapFlat, GapSkip, GapAdopt, GapFails, GapDone, Refetch, ProjectExit,
         Reconcile, Recover, ReserveIntent, NoEntry, Authorise, NotAttempted,
         SubmitEntry, SubmitRests, SubmitFails, SubmitFenced, MarginGuard,
         PersistSubmission, ProjectUnwound, CloseUnwound, Protect, PersistEntry,
       Finalise,
         NoFault, vars
  <1> QED
    BY <1>1, <1>2, NextRows, NextExchange, NextMemory DEF TInv, TypeOK

\* The rows, the exchange and the memory of the cycle keep their types; that
\* every result has a row to write, and every entry under way its intent and
\* symbol, is part of it.
THEOREM TypeCorrect == Spec => []TypeOK
  <1>1. TInv => TypeOK
    BY DEF TInv
  <1> QED BY <1>1, InitTInv, NextTInv, PTL DEF Spec

-----------------------------------------------------------------------------
(* Evidence                                                                *)

\* A row that no entry has used yet.
Unused ==
    \A i \in Intents : db[i].state = "NONE" =>
        /\ db[i].position = "NONE" /\ ~ db[i].receipt
        /\ db[i].decision = "none" /\ order[i] = "none"

\* The decision of a rejected entry is never OK.
Decided == \A i \in Intents : db[i].decision = "OK" => db[i].state # "REJECTED"

\* The row of the entry under way is the one its stage leads to expect.
Current ==
    LET i == cycle.intent IN
    /\ cycle.pc \in WithIntent =>
           /\ db[i].symbol = cycle.symbol /\ db[i].decision = "none"
           /\ db[i].state # "NONE"
    /\ cycle.pc \in {"authorise", "submit", "guard", "persist"} =>
           /\ db[i].state = "EXCHANGE_SUBMITTING"
           /\ ~ db[i].receipt /\ db[i].position = "NONE"
    /\ cycle.pc \in {"authorise", "submit"} => order[i] = "none"
    /\ cycle.pc \in {"unwound", "protect", "project"} =>
           db[i].state \in Pending /\ db[i].position = "NONE"
    /\ cycle.pc = "unwinding" =>
           db[i].state = "FILLED" /\ db[i].position = "POSITION_PROJECTED"
    /\ \/ cycle.pc \in {"guard", "unwound", "protect", "project"}
       \/ cycle.pc = "persist" /\ cycle.result \in {"filled", "guarded"}
       => order[i] = "filled"
    /\ cycle.pc = "finalise" /\ db[i].state = "REJECTED" =>
           cycle.result = "rejected"

\* The decisions a repair looks at are still without a position.
GapRows ==
    cycle.pc = "gap" => \A i \in cycle.todo :
        /\ db[i].position = "NONE" /\ db[i].symbol = cycle.symbol
        /\ db[i].decision = "OK"

EInv == Unused /\ Decided /\ ProjectedOnEvidence /\ Current /\ GapRows

LEMMA InitEInv ==
    ASSUME Init PROVE EInv
  <1>1. \A i \in Intents : db[i] = NoRow /\ order[i] = "none"
    BY DEF Init
  <1>2. \A s \in Symbols : OpenPositions(s) = {}
    BY <1>1 DEF OpenPositions, NoRow, OpenStates
  <1> QED
    BY <1>1, <1>2, Constants DEF Init, EInv, Unused, Decided,
       ProjectedOnEvidence, Current, GapRows, WithIntent, NoRow

\* The rows an adoption writes.
LEMMA AdoptedRowsFacts ==
    ASSUME TInv, NEW i \in Intents, NEW s \in Symbols, NEW j \in Intents
    PROVE  LET new == AdoptedRows(i, s)[j] IN
           /\ new.symbol = db[j].symbol /\ new.decision = db[j].decision
           /\ j = i =>
                 /\ new.state = "FILLED" /\ new.receipt /\ new.fill
                 /\ OpenPositions(s) = {} => new.position = "PROTECTED"
                 /\ OpenPositions(s) # {} => new.position = db[i].position
           /\ j # i =>
                 /\ new.state = db[j].state /\ new.receipt = db[j].receipt
                 /\ new.fill = db[j].fill
                 /\ \/ new.position = db[j].position
                    \/ j \in OpenPositions(s) /\ new.position = "PROTECTED"
  <1>0. db \in [Intents -> Row] /\ db[i] \in Row /\ db[j] \in Row
    BY DEF TInv, TypeOK
  <1>1. CASE j = i
    <2>1. AdoptedRows(i, s)[j] =
             [db[i] EXCEPT
                 !.state = "FILLED", !.receipt = TRUE, !.fill = TRUE,
                 !.position = IF OpenPositions(s) = {} THEN "PROTECTED"
                              ELSE @,
                 !.quantity = IF OpenPositions(s) = {} THEN 1 ELSE @]
      BY <1>1 DEF AdoptedRows
    <2> QED BY <1>0, <1>1, <2>1 DEF Row
  <1>2. CASE j # i /\ j \in OpenPositions(s) /\ ShouldProject(s)
    <2>1. AdoptedRows(i, s)[j] =
             [db[j] EXCEPT !.quantity = @ + 1, !.position = "PROTECTED"]
      BY <1>2 DEF AdoptedRows
    <2> QED BY <1>0, <1>2, <2>1 DEF Row
  <1>3. CASE j # i /\ j \in OpenPositions(s) /\ ~ ShouldProject(s)
    <2>1. AdoptedRows(i, s)[j] =
             [db[j] EXCEPT !.quantity = Cardinality(cycle.snap[s])]
      BY <1>3 DEF AdoptedRows
    <2> QED BY <1>0, <1>3, <2>1 DEF Row
  <1>4. CASE j # i /\ j \notin OpenPositions(s)
    <2>1. AdoptedRows(i, s)[j] = db[j]
      BY <1>4 DEF AdoptedRows
    <2> QED BY <1>4, <2>1
  <1> QED BY <1>1, <1>2, <1>3, <1>4

\* The ways a row changes, each with what it leaves alone.
KeepsName(j) == db'[j].symbol = db[j].symbol /\ db'[j].decision = db[j].decision
KeepsReceipts(j) == db'[j].receipt = db[j].receipt /\ db'[j].fill = db[j].fill

FlatRow(j) ==
    /\ AtGap(j) /\ cycle.snap[cycle.symbol] = {}
    /\ cycle'.todo = cycle.todo \ {j}
    /\ KeepsName(j) /\ db'[j].position = db[j].position
    /\ db[j].receipt /\ db'[j].receipt /\ db'[j].fill
    /\ order[j] = "filled"
    /\ \/ db'[j].state = db[j].state
       \/ db[j].state = "EXCHANGE_ACKNOWLEDGED" /\ db'[j].state = "CANCELLED"

AdoptedRow(j) ==
    /\ AtGap(j) /\ cycle.snap[cycle.symbol] # {}
    /\ cycle'.todo = cycle.todo \ {j}
    /\ order[j] = "filled" /\ KeepsName(j)
    /\ db'[j].state = "FILLED" /\ db'[j].receipt /\ db'[j].fill
    /\ \/ db'[j].position = db[j].position
       \/ OpenPositions(cycle.symbol) = {} /\ db'[j].position = "PROTECTED"

GrownRow(j) ==
    /\ cycle.pc = "gap" /\ j \notin cycle.todo
    /\ KeepsName(j) /\ KeepsReceipts(j) /\ db'[j].state = db[j].state
    /\ db[j].position \in OpenStates /\ db'[j].position \in OpenStates

ExitedRow(j) ==
    /\ cycle.pc = "exits" /\ cycle'.pc = "exits"
    /\ db[j].position \in OpenStates \cup {"QUARANTINED"}
    /\ cycle.snap[db[j].symbol] = {} /\ db'[j].position = "CLOSED"
    /\ KeepsName(j) /\ KeepsReceipts(j) /\ db'[j].state = db[j].state

RecoveredRow(j) ==
    /\ cycle.pc = "recover" /\ cycle'.pc = "gate"
    /\ KeepsName(j) /\ KeepsReceipts(j)
    /\ \/ db'[j].state = db[j].state
       \/ db[j].state \in Pending /\ ~ db[j].receipt
          /\ db'[j].state = "CANCELLED"
    /\ \/ db'[j].position = db[j].position
       \/ db[j].position \in OpenStates /\ db'[j].position = "PROTECTED"
       \/ /\ db[j].position \in OpenStates /\ db'[j].position = "QUARANTINED"
          /\ cycle.snap[db[j].symbol] = {}

ReservedRow(j) ==
    /\ cycle.pc = "gate" /\ cycle'.pc = "authorise" /\ cycle'.intent = j
    /\ cycle'.symbol = cycle.symbol
    /\ db[j].state = "NONE" /\ db'[j].state = "EXCHANGE_SUBMITTING"
    /\ db'[j].symbol = cycle.symbol /\ db'[j].decision = db[j].decision
    /\ KeepsReceipts(j) /\ db'[j].position = db[j].position

SubmittedRow(j) ==
    /\ cycle.pc = "persist" /\ j = cycle.intent
    /\ cycle'.pc = AfterSubmission
    /\ db'[j] = SubmissionRow(db[j], cycle.result)

UnwoundRow(j) ==
    /\ cycle.pc = "unwinding" /\ j = cycle.intent /\ cycle'.pc = "finalise"
    /\ KeepsName(j) /\ KeepsReceipts(j)
    /\ db'[j].state = db[j].state /\ db'[j].position = "CLOSED"

EnteredRow(j) ==
    /\ j = cycle.intent
    /\ \/ cycle.pc = "project" /\ cycle'.pc = "finalise"
       \/ /\ cycle.pc = "unwound" /\ cycle'.pc = "unwinding"
          /\ db'[j].position = "POSITION_PROJECTED"
    /\ OpenPositions(cycle.symbol) = {} /\ KeepsName(j)
    /\ db'[j].state = "FILLED" /\ db'[j].receipt /\ db'[j].fill
    /\ db'[j].position \in OpenStates

FinalRow(j) ==
    /\ cycle.pc = "finalise" /\ j = cycle.intent /\ cycle'.pc = "idle"
    /\ db'[j].decision = DecisionReason
    /\ db'[j].symbol = db[j].symbol /\ KeepsReceipts(j)
    /\ db'[j].state = db[j].state /\ db'[j].position = db[j].position

RowStep(j) ==
    \/ FlatRow(j) \/ AdoptedRow(j) \/ GrownRow(j) \/ ExitedRow(j)
    \/ RecoveredRow(j) \/ ReservedRow(j) \/ SubmittedRow(j) \/ UnwoundRow(j)
    \/ EnteredRow(j) \/ FinalRow(j)

LEMMA RowSteps ==
    ASSUME TInv, GapRows, [Next]_vars, NEW j \in Intents, db'[j] # db[j]
    PROVE  RowStep(j)
  <1>0. /\ TypeOK /\ db \in [Intents -> Row] /\ db[j] \in Row
        /\ cycle \in Memories /\ cycle.todo \subseteq Intents
        /\ (cycle.pc # "idle" => cycle.symbol \in Symbols)
        /\ (cycle.pc \in WithIntent => cycle.intent \in Intents)
    BY DEF TInv, TypeOK, Working, Memories
  <1> USE DEF KeepsName, KeepsReceipts
  <1>1. ASSUME NEW i \in Intents, GapFlat(i)
        PROVE  RowStep(j)
    <2> DEFINE st == IF db[i].state = "EXCHANGE_ACKNOWLEDGED"
                     THEN "CANCELLED" ELSE db[i].state
               new == [db[i] EXCEPT !.fill = TRUE, !.state = st]
    <2>1. db' = [db EXCEPT ![i] = new]
      BY <1>1 DEF GapFlat
    <2>2. /\ new.fill /\ new.state = st /\ new.symbol = db[i].symbol
          /\ new.decision = db[i].decision /\ new.receipt = db[i].receipt
          /\ new.position = db[i].position
      BY <1>0 DEF Row
    <2>3. \/ st = db[i].state
          \/ db[i].state = "EXCHANGE_ACKNOWLEDGED" /\ st = "CANCELLED"
      OBVIOUS
    <2> HIDE DEF st, new
    <2>4. j = i /\ db'[j] = new
      BY <1>0, <2>1
    <2>5. cycle'.todo = cycle.todo \ {i}
      BY <1>0, <1>1 DEF GapFlat, Memories
    <2>6. FlatRow(j)
      BY <1>1, <2>2, <2>3, <2>4, <2>5 DEF GapFlat, FlatRow
    <2> QED BY <2>6 DEF RowStep
  <1>2. ASSUME NEW i \in Intents, GapAdopt(i)
        PROVE  RowStep(j)
    <2>0. /\ cycle.pc = "gap" /\ cycle.symbol \in Symbols /\ i \in cycle.todo
          /\ cycle.snap[cycle.symbol] # {} /\ order[i] = "filled"
          /\ cycle'.todo = cycle.todo \ {i} /\ AtGap(i)
      BY <1>0, <1>2 DEF GapAdopt, AtGap, At, Memories
    <2>1. db'[j] = AdoptedRows(i, cycle.symbol)[j]
      BY <1>2 DEF GapAdopt
    <2>2. CASE j = i
      <3>1. AdoptedRow(j)
        BY <2>0, <2>1, <2>2, AdoptedRowsFacts DEF AdoptedRow
      <3> QED BY <3>1 DEF RowStep
    <2>3. CASE j # i
      <3>1. j \in OpenPositions(cycle.symbol)
        BY <2>1, <2>3, <2>0 DEF AdoptedRows
      <3>2. db[j].position \in OpenStates
        BY <3>1 DEF OpenPositions
      <3>3. j \notin cycle.todo
        BY <2>0, <3>2 DEF GapRows, OpenStates
      <3>4. GrownRow(j)
        BY <2>0, <2>1, <2>3, <3>2, <3>3, AdoptedRowsFacts
           DEF GrownRow, OpenStates
      <3> QED BY <3>4 DEF RowStep
    <2> QED BY <2>2, <2>3
  <1>3. ASSUME NEW i \in Intents, ProjectExit(i)
        PROVE  RowStep(j)
    <2>1. j = i /\ db'[j] = [db[j] EXCEPT !.position = "CLOSED"]
      BY <1>0, <1>3 DEF ProjectExit
    <2>2. cycle.pc = "exits" /\ cycle'.pc = "exits"
      BY <1>0, <1>3 DEF ProjectExit, At, Memories
    <2>3. ExitedRow(j)
      BY <1>0, <1>3, <2>1, <2>2 DEF ProjectExit, ExitedRow, Row
    <2> QED BY <2>3 DEF RowStep
  <1>4. ASSUME NEW p \in SUBSET Intents, NEW o \in SUBSET Intents,
               NEW g \in SUBSET Intents, Recover(p, o, g)
        PROVE  RowStep(j)
    <2>1. PICK st, pos :
            /\ db'[j] = [db[j] EXCEPT !.state = st, !.position = pos]
            /\ st = IF j \in MarkedNotSubmitted THEN "CANCELLED"
                    ELSE db[j].state
            /\ pos = IF j \in g THEN "QUARANTINED"
                     ELSE IF j \in p THEN "PROTECTED" ELSE db[j].position
      BY <1>4 DEF Recover
    <2>2. cycle.pc = "recover" /\ cycle'.pc = "gate"
      BY <1>0, <1>4 DEF Recover, At, Goto, Memories
    <2>3. /\ j \in p => db[j].position \in OpenStates
          /\ j \in g => /\ db[j].position \in OpenStates
                        /\ cycle.snap[db[j].symbol] = {}
          /\ j \in MarkedNotSubmitted => db[j].state \in Pending
                                         /\ ~ db[j].receipt
      BY <1>4 DEF Recover, Unprotected, Missing, AllOpen, MarkedNotSubmitted
    <2>4. /\ db'[j].state = st /\ db'[j].position = pos
          /\ KeepsName(j) /\ KeepsReceipts(j)
      BY <1>0, <2>1 DEF Row
    <2>5. RecoveredRow(j)
      BY <2>1, <2>2, <2>3, <2>4 DEF RecoveredRow
    <2> QED BY <2>5 DEF RowStep
  <1>5. ASSUME NEW i \in Intents, ReserveIntent(i)
        PROVE  RowStep(j)
    <2>1. j = i /\ db'[j] = [db[j] EXCEPT !.state = "EXCHANGE_SUBMITTING",
                                          !.symbol = cycle.symbol]
      BY <1>0, <1>5 DEF ReserveIntent
    <2>2. /\ cycle.pc = "gate" /\ cycle'.pc = "authorise"
          /\ cycle'.intent = i /\ cycle'.symbol = cycle.symbol
      BY <1>0, <1>5 DEF ReserveIntent, At, Memories
    <2>3. ReservedRow(j)
      BY <1>0, <1>5, <2>1, <2>2 DEF ReserveIntent, ReservedRow, Row
    <2> QED BY <2>3 DEF RowStep
  <1>6. CASE PersistSubmission
    <2>1. cycle.pc = "persist" /\ cycle'.pc = AfterSubmission
      BY <1>0, <1>6 DEF PersistSubmission, At, Goto, Memories
    <2>2. db' = [db EXCEPT ![cycle.intent] = SubmissionRow(@, cycle.result)]
      BY <1>6 DEF PersistSubmission
    <2>3. SubmittedRow(j)
      BY <1>0, <2>1, <2>2 DEF SubmittedRow
    <2> QED BY <2>3 DEF RowStep
  <1>7. CASE ProjectUnwound
    <2>1. cycle.pc = "unwound" /\ cycle.intent \in Intents
      BY <1>0, <1>7 DEF ProjectUnwound, At, WithIntent
    <2>2. /\ db[cycle.intent].receipt /\ db[cycle.intent].fill
          /\ OpenPositions(cycle.symbol) = {}
          /\ db' = [db EXCEPT ![cycle.intent].state = "FILLED",
                              ![cycle.intent].position = "POSITION_PROJECTED",
                              ![cycle.intent].quantity = 1]
          /\ cycle' = [cycle EXCEPT !.pc = "unwinding"]
      BY <1>7 DEF ProjectUnwound, Goto
    <2>3. j = cycle.intent
      BY <1>0, <2>2
    <2>4. EnteredRow(j)
      BY <1>0, <2>1, <2>2, <2>3 DEF EnteredRow, OpenStates, Row, Memories
    <2> QED BY <2>4 DEF RowStep
  <1>10. CASE CloseUnwound
    <2>1. cycle.pc = "unwinding" /\ cycle.intent \in Intents
      BY <1>0, <1>10 DEF CloseUnwound, At, WithIntent
    <2>2. /\ db' = [db EXCEPT ![cycle.intent].position = "CLOSED"]
          /\ cycle' = [cycle EXCEPT !.pc = "finalise"]
      BY <1>10 DEF CloseUnwound, Goto
    <2>3. j = cycle.intent
      BY <1>0, <2>2
    <2>4. UnwoundRow(j)
      BY <1>0, <2>1, <2>2, <2>3 DEF UnwoundRow, Row, Memories
    <2> QED BY <2>4 DEF RowStep
  <1>8. CASE PersistEntry
    <2>1. cycle.pc = "project" /\ cycle.intent \in Intents
      BY <1>0, <1>8 DEF PersistEntry, At, WithIntent
    <2>2. PICK pos \in OpenStates :
          /\ OpenPositions(cycle.symbol) = {}
          /\ db' = [db EXCEPT ![cycle.intent] =
                       [@ EXCEPT !.state = "FILLED", !.receipt = TRUE,
                                 !.fill = TRUE, !.quantity = 1,
                                 !.position = pos]]
          /\ cycle' = [cycle EXCEPT !.pc = "finalise"]
      BY <1>8 DEF PersistEntry, Goto, OpenStates
    <2>3. j = cycle.intent
      BY <1>0, <2>2
    <2>4. EnteredRow(j)
      BY <1>0, <2>1, <2>2, <2>3 DEF EnteredRow, Row, Memories
    <2> QED BY <2>4 DEF RowStep
  <1>9. CASE Finalise
    <2>1. /\ cycle.pc = "finalise" /\ cycle'.pc = "idle"
          /\ db' = [db EXCEPT ![cycle.intent].decision = DecisionReason]
      BY <1>9, Constants DEF Finalise, At, Abort
    <2>2. j = cycle.intent
      BY <1>0, <2>1
    <2>3. FinalRow(j)
      BY <1>0, <2>1, <2>2 DEF FinalRow, Row
    <2> QED BY <2>3 DEF RowStep
  <1> QED
    BY <1>1, <1>2, <1>3, <1>4, <1>5, <1>6, <1>7, <1>8, <1>9, <1>10, DbSteps

\* The ways an order changes.
LEMMA OrderChanges ==
    ASSUME TInv, [Next]_vars, NEW j \in Intents, order'[j] # order[j]
    PROVE  \/ order[j] = "open" /\ order'[j] \in {"filled", "cancelled"}
           \/ /\ cycle.pc = "submit" /\ j = cycle.intent
              /\ order'[j] \in {"open", "filled"} /\ cycle'.pc # "submit"
  <1>0. /\ order \in [Intents -> {"none", "open", "filled", "cancelled"}]
        /\ cycle \in Memories
    BY DEF TInv, TypeOK
  <1>1. CASE \E i \in Intents : OrderExecutes(i)
    BY <1>0, <1>1 DEF OrderExecutes
  <1>2. CASE \E p, o, g \in SUBSET Intents : Recover(p, o, g)
    BY <1>0, <1>2 DEF Recover
  <1>3. CASE SubmitRests
    BY <1>0, <1>3 DEF SubmitRests, At, Outcome, Memories
  <1>4. CASE (SubmitEntry \/ SubmitFails) /\ Executed /\ At("submit")
    BY <1>0, <1>4 DEF SubmitEntry, SubmitFails, Executed, At, Outcome,
       Memories
  <1>5. CASE Crash /\ Executed /\ At("submit")
    BY <1>0, <1>5, Constants DEF Crash, Abort, Executed, At
  <1> QED BY <1>1, <1>2, <1>3, <1>4, <1>5, OrderSteps

LEMMA SubmissionRowFacts ==
    ASSUME NEW row \in Row,
           NEW r \in {"not_attempted", "filled", "acknowledged", "unread",
                      "guarded", "over", "rejected"}
    PROVE  LET new == SubmissionRow(row, r) IN
           /\ new.symbol = row.symbol /\ new.decision = row.decision
           /\ new.position = row.position
           /\ \/ /\ r \in {"filled", "acknowledged", "unread", "guarded", "over"}
                 /\ new.state = "EXCHANGE_ACKNOWLEDGED" /\ new.receipt
              \/ /\ r = "rejected" /\ new.state = "REJECTED"
                 /\ new.receipt = row.receipt /\ new.fill = row.fill
              \/ /\ r = "not_attempted" /\ new.state = "CANCELLED"
                 /\ new.receipt = row.receipt /\ new.fill = row.fill
  <1>1. CASE r \in {"filled", "acknowledged", "unread"}
    BY <1>1 DEF SubmissionRow, Row
  <1>2. CASE r \in {"guarded", "over"}
    BY <1>2 DEF SubmissionRow, Row
  <1>3. CASE r = "rejected"
    BY <1>3 DEF SubmissionRow, Row
  <1>4. CASE r = "not_attempted"
    BY <1>4 DEF SubmissionRow, Row
  <1> QED BY <1>1, <1>2, <1>3, <1>4

LEMMA SubmittedRowFacts ==
    ASSUME TInv, EInv, NEW j \in Intents, SubmittedRow(j)
    PROVE  /\ KeepsName(j) /\ db[j].state = "EXCHANGE_SUBMITTING"
           /\ db[j].position = "NONE" /\ db'[j].position = "NONE"
           /\ db[j].decision = "none" /\ ~ db[j].receipt
           /\ \/ db'[j].state = "EXCHANGE_ACKNOWLEDGED" /\ db'[j].receipt
              \/ /\ db'[j].state \in {"REJECTED", "CANCELLED"}
                 /\ cycle.result \in {"rejected", "not_attempted"}
                 /\ db'[j].state = "REJECTED" => cycle.result = "rejected"
                 /\ ~ db'[j].receipt
  <1>1. /\ db[j] \in Row
        /\ cycle.result \in {"not_attempted", "filled", "acknowledged",
                             "unread", "guarded", "over", "rejected"}
    BY DEF TInv, TypeOK, Working, SubmittedRow
  <1>2. /\ db[j].state = "EXCHANGE_SUBMITTING" /\ db[j].position = "NONE"
        /\ db[j].decision = "none" /\ ~ db[j].receipt
    BY DEF EInv, Current, SubmittedRow, WithIntent
  <1>3. db'[j] = SubmissionRow(db[j], cycle.result)
    BY DEF SubmittedRow
  <1> QED BY <1>1, <1>2, <1>3, SubmissionRowFacts DEF KeepsName

LEMMA NextUnused ==
    ASSUME TInv, EInv, [Next]_vars
    PROVE  Unused'
  <1> SUFFICES ASSUME NEW i \in Intents, db'[i].state = "NONE"
               PROVE  /\ db'[i].position = "NONE" /\ ~ db'[i].receipt
                      /\ db'[i].decision = "none" /\ order'[i] = "none"
    BY DEF Unused
  <1>1. \/ db'[i] = db[i]
        \/ RecoveredRow(i) /\ db[i].state = "NONE"
           /\ db'[i].position = db[i].position
    <2> SUFFICES ASSUME RowStep(i)
                 PROVE  RecoveredRow(i) /\ db[i].state = "NONE"
                        /\ db'[i].position = db[i].position
      BY RowSteps DEF EInv
    <2>1. ~ (FlatRow(i) \/ AdoptedRow(i) \/ GrownRow(i) \/ ExitedRow(i))
      BY DEF FlatRow, AdoptedRow, GrownRow, ExitedRow, EInv, Unused,
         OpenStates
    <2>2. ~ (ReservedRow(i) \/ UnwoundRow(i) \/ EnteredRow(i))
      BY DEF ReservedRow, UnwoundRow, EnteredRow, EInv, Current
    <2>3. ~ SubmittedRow(i)
      BY SubmittedRowFacts
    <2>4. ~ FinalRow(i)
      BY DEF FinalRow, EInv, Current, WithIntent
    <2>5. RecoveredRow(i)
      BY <2>1, <2>2, <2>3, <2>4 DEF RowStep
    <2> QED
      BY <2>5 DEF RecoveredRow, EInv, Unused, OpenStates
  <1>2. /\ db[i].state = "NONE" /\ db'[i].position = "NONE"
        /\ ~ db'[i].receipt /\ db'[i].decision = "none"
        /\ order[i] = "none"
    BY <1>1 DEF RecoveredRow, KeepsName, KeepsReceipts, EInv, Unused
  <1>3. order'[i] = "none"
    BY <1>2, OrderChanges DEF EInv, Current, WithIntent
  <1> QED BY <1>2, <1>3

LEMMA NextDecided ==
    ASSUME TInv, EInv, [Next]_vars
    PROVE  Decided'
  <1> SUFFICES ASSUME NEW i \in Intents, db'[i].decision = "OK",
                      db'[i].state = "REJECTED"
               PROVE  FALSE
    BY DEF Decided
  <1>1. db'[i] # db[i] /\ RowStep(i)
    BY RowSteps DEF EInv, Decided
  <1>2. ~ (FlatRow(i) \/ AdoptedRow(i) \/ GrownRow(i) \/ ExitedRow(i)
           \/ RecoveredRow(i))
    BY DEF FlatRow, AdoptedRow, GrownRow, ExitedRow, RecoveredRow, KeepsName,
       EInv, Decided
  <1>3. ~ (ReservedRow(i) \/ UnwoundRow(i) \/ EnteredRow(i))
    BY DEF ReservedRow, UnwoundRow, EnteredRow, EInv, Current
  <1>4. ~ SubmittedRow(i)
    BY SubmittedRowFacts DEF KeepsName
  <1>5. ~ FinalRow(i)
    BY DEF FinalRow, DecisionReason, EInv, Current
  <1> QED BY <1>1, <1>2, <1>3, <1>4, <1>5 DEF RowStep

\* Filled orders stay filled.
LEMMA FilledStays ==
    ASSUME TInv, EInv, [Next]_vars, NEW j \in Intents, order[j] = "filled"
    PROVE  order'[j] = "filled"
  BY OrderChanges DEF EInv, Current

LEMMA EvidenceStep ==
    ASSUME TInv, EInv, [Next]_vars, NEW i \in Intents,
           db'[i].position # "NONE"
    PROVE  order'[i] = "filled" /\ db'[i].receipt /\ db'[i].fill
  <1>1. CASE db'[i] = db[i]
    BY <1>1, FilledStays DEF EInv, ProjectedOnEvidence
  <1>2. CASE RowStep(i)
    <2>1. ~ (FlatRow(i) \/ ReservedRow(i))
      BY DEF FlatRow, AtGap, At, ReservedRow, EInv, GapRows, Unused
    <2>2. ~ SubmittedRow(i)
      BY SubmittedRowFacts
    <2>3. CASE AdoptedRow(i)
      BY <2>3, FilledStays DEF AdoptedRow
    <2>4. CASE GrownRow(i) \/ ExitedRow(i) \/ RecoveredRow(i) \/ FinalRow(i)
      <3>1. db[i].position # "NONE" /\ KeepsReceipts(i)
        BY <2>4 DEF GrownRow, ExitedRow, RecoveredRow, FinalRow, OpenStates
      <3> QED
        BY <3>1, FilledStays DEF KeepsReceipts, EInv, ProjectedOnEvidence
    <2>5. CASE UnwoundRow(i)
      <3>1. db[i].position # "NONE" /\ KeepsReceipts(i)
        BY <2>5 DEF UnwoundRow, EInv, Current
      <3> QED
        BY <3>1, FilledStays DEF KeepsReceipts, EInv, ProjectedOnEvidence
    <2>6. CASE EnteredRow(i)
      <3>1. order[i] = "filled"
        BY <2>6 DEF EnteredRow, EInv, Current
      <3> QED BY <2>6, <3>1, FilledStays DEF EnteredRow
    <2> QED BY <1>2, <2>1, <2>2, <2>3, <2>4, <2>5, <2>6 DEF RowStep
  <1> QED BY <1>1, <1>2, RowSteps DEF EInv

\* The cycle is about to project its own entry.
Entering(i) == cycle.pc \in {"project", "unwound"} /\ i = cycle.intent

\* A symbol gets a position only while it has none.
LEMMA OpenedStep ==
    ASSUME TInv, EInv, [Next]_vars, NEW s \in Symbols, NEW i \in Intents,
           db'[i].symbol = s, db'[i].position \in OpenStates
    PROVE  \/ i \in OpenPositions(s)
           \/ /\ OpenPositions(s) = {}
              /\ AtGap(i) \/ Entering(i)
  <1>1. CASE db'[i] = db[i]
    BY <1>1 DEF OpenPositions
  <1>2. CASE RowStep(i)
    <2>1. ~ (FlatRow(i) \/ ReservedRow(i))
      BY DEF FlatRow, AtGap, At, ReservedRow, EInv, GapRows, Unused,
         OpenStates
    <2>2. ~ SubmittedRow(i)
      BY SubmittedRowFacts DEF OpenStates
    <2>3. ~ (ExitedRow(i) \/ UnwoundRow(i))
      BY DEF ExitedRow, UnwoundRow, OpenStates
    <2>4. CASE GrownRow(i) \/ RecoveredRow(i) \/ FinalRow(i)
      <3>1. db[i].symbol = db'[i].symbol /\ db[i].position \in OpenStates
        BY <2>4 DEF GrownRow, RecoveredRow, FinalRow, KeepsName, OpenStates
      <3> QED BY <3>1 DEF OpenPositions
    <2>5. CASE AdoptedRow(i)
      <3>1. db[i].symbol = cycle.symbol /\ db[i].position = "NONE"
        BY <2>5 DEF AdoptedRow, AtGap, At, EInv, GapRows
      <3> QED BY <2>5, <3>1 DEF AdoptedRow, KeepsName, OpenStates
    <2>6. CASE EnteredRow(i)
      <3>1. db[i].symbol = cycle.symbol
        BY <2>6 DEF EnteredRow, EInv, Current, WithIntent
      <3> QED BY <2>6, <3>1 DEF EnteredRow, KeepsName, Entering
    <2> QED BY <1>2, <2>1, <2>2, <2>3, <2>4, <2>5, <2>6 DEF RowStep
  <1> QED BY <1>1, <1>2, RowSteps DEF EInv

LEMMA NextEvidence ==
    ASSUME TInv, EInv, [Next]_vars
    PROVE  ProjectedOnEvidence'
  <1>1. ASSUME NEW s \in Symbols, NEW i \in Intents, NEW j \in Intents,
               db'[i].symbol = s, db'[i].position \in OpenStates,
               db'[j].symbol = s, db'[j].position \in OpenStates
        PROVE  i = j
    <2>1. CASE i \in OpenPositions(s) /\ j \in OpenPositions(s)
      BY <2>1 DEF EInv, ProjectedOnEvidence
    <2>2. CASE OpenPositions(s) = {}
      <3>1. /\ AtGap(i) \/ Entering(i)
            /\ AtGap(j) \/ Entering(j)
        BY <1>1, <2>2, OpenedStep
      <3>2. i \in Int /\ j \in Int
        BY EntryAssumption DEF Intents
      <3>3. AtGap(i) /\ AtGap(j) => i <= j /\ j <= i
        BY DEF AtGap
      <3> QED BY <3>1, <3>2, <3>3 DEF AtGap, At, Entering
    <2> QED BY <1>1, <2>1, <2>2, OpenedStep
  <1>2. \A i \in Intents : db'[i].position # "NONE" =>
            order'[i] = "filled" /\ db'[i].receipt /\ db'[i].fill
    BY EvidenceStep
  <1> QED BY <1>1, <1>2 DEF ProjectedOnEvidence, OpenPositions

LEMMA NextGapRows ==
    ASSUME TInv, EInv, [Next]_vars
    PROVE  GapRows'
  <1> SUFFICES ASSUME cycle'.pc = "gap", NEW k \in cycle'.todo
               PROVE  /\ db'[k].position = "NONE"
                      /\ db'[k].symbol = cycle'.symbol
                      /\ db'[k].decision = "OK"
    BY DEF GapRows
  <1>0. cycle \in Memories /\ cycle' \in Memories /\ k \in Intents
    BY NextTInv DEF TInv, TypeOK, Memories
  <1>1. CASE FetchSnapshot
    <2>1. db' = db
      BY <1>1 DEF FetchSnapshot, database
    <2>2. cycle'.todo = GapCandidates(cycle.symbol)
          /\ cycle'.symbol = cycle.symbol
      BY <1>0, <1>1 DEF FetchSnapshot, Memories
    <2> QED BY <2>1, <2>2 DEF GapCandidates
  <1>2. CASE /\ cycle.pc = "gap" /\ cycle'.symbol = cycle.symbol
             /\ cycle'.todo \subseteq cycle.todo
    <2>1. db'[k] = db[k]
      <3>1. ~ RowStep(k)
        BY <1>2 DEF RowStep, FlatRow, AdoptedRow, GrownRow, ExitedRow,
           RecoveredRow, ReservedRow, SubmittedRow, UnwoundRow, EnteredRow,
           FinalRow
      <3> QED BY <1>0, <3>1, RowSteps DEF EInv
    <2> QED BY <1>2, <2>1 DEF EInv, GapRows
  <1>3. CASE cycle' = cycle
    BY <1>2, <1>3
  <1>4. CASE \E i \in Intents : GapFlat(i) \/ GapSkip(i) \/ GapAdopt(i)
    BY <1>0, <1>2, <1>4 DEF GapFlat, GapSkip, GapAdopt, AtGap, At, Memories
  <1>5. cycle' # Idle
    BY Constants
  <1>6. /\ ~ (GapFails \/ GapDone \/ Refetch \/ Reconcile)
        /\ \A s \in Symbols : ~ StartCycle(s)
        /\ \A i \in Intents : ~ (ProjectExit(i) \/ ReserveIntent(i))
        /\ \A p, o, g \in SUBSET Intents : ~ Recover(p, o, g)
    BY <1>0, Constants DEF GapFails, GapDone, Refetch, Reconcile, StartCycle,
       ProjectExit, ReserveIntent, Recover, Goto, At, Memories
  <1>7. ~ (Authorise \/ NotAttempted \/ SubmitEntry \/ SubmitRests
           \/ SubmitFails \/ MarginGuard \/ PersistSubmission
           \/ ProjectUnwound \/ CloseUnwound \/ Protect \/ PersistEntry)
    BY <1>0 DEF Authorise, NotAttempted, SubmitEntry, SubmitRests,
       SubmitFails, MarginGuard, PersistSubmission, ProjectUnwound,
       CloseUnwound, Protect,
       PersistEntry, AfterSubmission, Outcome, Goto, Memories
  <1>8. CASE cycle' # cycle
    BY <1>1, <1>4, <1>5, <1>6, <1>7, <1>8, CycleSteps
  <1> QED BY <1>3, <1>8

\* Between two steps of the worker its entry's row and order are its own.
LEMMA CurrentKept ==
    ASSUME TInv, EInv, [Next]_vars, cycle' = cycle
    PROVE  Current'
  <1>1. CASE cycle.pc \notin WithIntent
    BY <1>1 DEF Current, WithIntent
  <1>2. CASE cycle.pc \in WithIntent
    <2> DEFINE i == cycle.intent
    <2>1. i \in Intents
      BY <1>2 DEF TInv, Working
    <2>2. db'[i] = db[i]
      <3>1. ~ RowStep(i)
        BY <1>2 DEF RowStep, FlatRow, AdoptedRow, GrownRow, ExitedRow,
           RecoveredRow, ReservedRow, SubmittedRow, UnwoundRow, EnteredRow,
           FinalRow, AfterSubmission, AtGap, At, WithIntent
      <3> QED BY <2>1, <3>1, RowSteps DEF EInv
    <2>3. order'[i] = order[i] \/ order[i] = "open"
      BY <2>1, OrderChanges
    <2>4. Current /\ cycle'.intent = i
      BY DEF EInv
    <2> HIDE DEF i
    <2> QED BY <2>2, <2>3, <2>4 DEF Current, i
  <1> QED BY <1>1, <1>2

LEMMA CurrentReserved ==
    ASSUME TInv, EInv, [Next]_vars, NEW i \in Intents, ReserveIntent(i)
    PROVE  Current'
  <1>1. /\ cycle'.pc = "authorise" /\ cycle'.intent = i
        /\ cycle'.symbol = cycle.symbol /\ order' = order
        /\ db[i].state = "NONE" /\ db'[i].state = "EXCHANGE_SUBMITTING"
    BY DEF ReserveIntent, TInv, TypeOK, Memories, exchange, Row
  <1>2. db'[i] # db[i]
    BY <1>1
  <1>3. ReservedRow(i)
    <2>1. cycle.pc = "gate"
      BY DEF ReserveIntent, At
    <2> QED
      BY <1>2, <2>1, RowSteps DEF RowStep, FlatRow, AdoptedRow, GrownRow,
         ExitedRow, RecoveredRow, SubmittedRow, UnwoundRow, EnteredRow,
         FinalRow, AtGap, At, EInv
  <1> QED
    BY <1>1, <1>3 DEF ReservedRow, KeepsReceipts, EInv, Unused, Current,
       WithIntent

LEMMA CurrentSubmitted ==
    ASSUME TInv, EInv, [Next]_vars,
           Authorise \/ NotAttempted \/ SubmitEntry \/ SubmitRests
               \/ SubmitFails \/ MarginGuard \/ Protect
    PROVE  Current'
  <1> DEFINE i == cycle.intent
  <1>0. /\ cycle \in Memories /\ db' = db /\ Current
        /\ order \in [Intents -> {"none", "open", "filled", "cancelled"}]
    BY DEF TInv, TypeOK, EInv, Authorise, NotAttempted, SubmitEntry,
       SubmitRests, SubmitFails, MarginGuard, Protect, database
  <1>1. CASE Authorise
    <2>1. /\ cycle.pc = "authorise" /\ cycle'.pc \in {"submit", "finalise"}
          /\ cycle'.intent = i /\ cycle'.symbol = cycle.symbol
          /\ order' = order
      BY <1>0, <1>1 DEF Authorise, At, Memories, exchange
    <2> QED BY <1>0, <2>1 DEF Current, WithIntent
  <1>2. CASE NotAttempted
    <2>1. /\ cycle.pc = "submit" /\ cycle'.pc = "persist"
          /\ cycle'.result = "not_attempted"
          /\ cycle'.intent = i /\ cycle'.symbol = cycle.symbol
      BY <1>0, <1>2 DEF NotAttempted, At, Outcome, Memories
    <2> QED BY <1>0, <2>1 DEF Current, WithIntent
  <1>3. CASE SubmitEntry
    <2>1. /\ cycle.pc = "submit" /\ cycle'.pc \in {"persist", "guard"}
          /\ cycle'.intent = i /\ cycle'.symbol = cycle.symbol
      BY <1>0, <1>3 DEF SubmitEntry, At, Outcome, Memories
    <2>2. i \in Intents
      BY <2>1 DEF TInv, Working, WithIntent
    <2>3. order'[i] = "filled"
      BY <1>0, <1>3, <2>2 DEF SubmitEntry, Executed
    <2> QED BY <1>0, <2>1, <2>3 DEF Current, WithIntent
  <1>4. CASE SubmitRests \/ SubmitFails
    <2>1. /\ cycle.pc = "submit" /\ cycle'.pc = "persist"
          /\ cycle'.result \in {"acknowledged", "rejected"}
          /\ cycle'.intent = i /\ cycle'.symbol = cycle.symbol
      BY <1>0, <1>4 DEF SubmitRests, SubmitFails, At, Outcome, Memories
    <2> QED BY <1>0, <2>1 DEF Current, WithIntent
  <1>5. CASE MarginGuard
    <2>1. /\ cycle.pc = "guard" /\ cycle'.pc = "persist" /\ order' = order
          /\ cycle'.intent = i /\ cycle'.symbol = cycle.symbol
      BY <1>0, <1>5 DEF MarginGuard, At, Outcome, Memories
    <2> QED BY <1>0, <2>1 DEF Current, WithIntent
  <1>6. CASE Protect
    <2>1. /\ cycle.pc = "protect" /\ cycle'.pc = "project" /\ order' = order
          /\ cycle'.intent = i /\ cycle'.symbol = cycle.symbol
      BY <1>0, <1>6 DEF Protect, At, Goto, Memories
    <2> QED BY <1>0, <2>1 DEF Current, WithIntent
  <1> QED BY <1>1, <1>2, <1>3, <1>4, <1>5, <1>6

LEMMA CurrentPersisted ==
    ASSUME TInv, EInv, [Next]_vars,
           PersistSubmission \/ ProjectUnwound \/ CloseUnwound \/ PersistEntry
    PROVE  Current'
  <1> DEFINE i == cycle.intent
  <1>0. /\ cycle \in Memories /\ Current /\ order' = order
        /\ i \in Intents
    BY DEF TInv, TypeOK, EInv, PersistSubmission, ProjectUnwound,
       CloseUnwound, PersistEntry, exchange, Working, At, WithIntent
  <1>1. CASE PersistSubmission
    <2>1. /\ cycle.pc = "persist" /\ cycle'.pc = AfterSubmission
          /\ cycle'.intent = i /\ cycle'.symbol = cycle.symbol
          /\ cycle'.result = cycle.result
      BY <1>0, <1>1 DEF PersistSubmission, At, Goto, Memories
    <2>2. /\ AfterSubmission = "protect" => cycle.result = "filled"
          /\ AfterSubmission = "unwound" => cycle.result = "guarded"
          /\ AfterSubmission \in {"protect", "unwound", "finalise"}
      BY DEF AfterSubmission
    <2>3. db'[i] = db[i] \/ SubmittedRow(i)
      BY <1>0, <2>1, RowSteps DEF RowStep, FlatRow, AdoptedRow, GrownRow,
         ExitedRow, RecoveredRow, ReservedRow, UnwoundRow, EnteredRow,
         FinalRow, AtGap, At, EInv
    <2>4. /\ db'[i].symbol = cycle.symbol /\ db'[i].decision = "none"
          /\ db'[i].position = "NONE"
          /\ \/ db'[i].state \in Pending
             \/ /\ db'[i].state \in {"REJECTED", "CANCELLED"}
                /\ cycle.result \in {"rejected", "not_attempted"}
                /\ db'[i].state = "REJECTED" => cycle.result = "rejected"
      BY <1>0, <2>1, <2>3, SubmittedRowFacts
         DEF Current, WithIntent, KeepsName, Pending
    <2>5. cycle.result \in {"filled", "guarded"} => order[i] = "filled"
      BY <1>0, <2>1 DEF Current
    <2> HIDE DEF i
    <2> QED
      BY <1>0, <2>1, <2>2, <2>4, <2>5 DEF Current, WithIntent, Pending
  <1>2. CASE ProjectUnwound \/ CloseUnwound \/ PersistEntry
    <2>1. /\ cycle.pc \in {"unwound", "unwinding", "project"}
          /\ cycle'.pc \in {"unwinding", "finalise"}
          /\ cycle'.intent = i /\ cycle'.symbol = cycle.symbol
      BY <1>0, <1>2 DEF ProjectUnwound, CloseUnwound, PersistEntry, At,
         Goto, Memories
    <2>2. db'[i] = db[i] \/ UnwoundRow(i) \/ EnteredRow(i)
      BY <1>0, <2>1, RowSteps DEF RowStep, FlatRow, AdoptedRow, GrownRow,
         ExitedRow, RecoveredRow, ReservedRow, SubmittedRow,
         FinalRow, AtGap, At, EInv
    <2>3. /\ db'[i].symbol = cycle.symbol /\ db'[i].decision = "none"
          /\ db'[i].state \in Pending \cup {"FILLED"}
      BY <1>0, <2>1, <2>2
         DEF Current, WithIntent, UnwoundRow, EnteredRow, KeepsName
    <2>4. cycle'.pc = "unwinding" =>
              db'[i].state = "FILLED" /\ db'[i].position = "POSITION_PROJECTED"
      <3>1. cycle'.pc = "unwinding" => db'[i].state = "FILLED" /\
                db'[i] # db[i]
        BY <1>0, <1>2 DEF ProjectUnwound, CloseUnwound, PersistEntry, Goto,
           Memories, Current, At, Pending, TInv, TypeOK, Row
      <3> QED BY <2>1, <2>2, <3>1 DEF UnwoundRow, EnteredRow
    <2> QED BY <2>1, <2>3, <2>4 DEF Current, WithIntent, Pending
  <1> QED BY <1>1, <1>2

LEMMA NextCurrent ==
    ASSUME TInv, EInv, [Next]_vars
    PROVE  Current'
  <1>0. cycle \in Memories
    BY DEF TInv, TypeOK
  <1>1. CASE cycle'.pc \notin WithIntent
    BY <1>1 DEF Current, WithIntent
  <1>2. CASE cycle'.pc \in WithIntent /\ cycle' # cycle
    <2>1. cycle' # Idle
      BY <1>2, Constants DEF WithIntent
    <2>2. /\ ~ (FetchSnapshot \/ GapFails \/ GapDone \/ Refetch)
          /\ \A s \in Symbols : ~ StartCycle(s)
      <3>1. FetchSnapshot \/ GapFails \/ GapDone \/ Refetch =>
                cycle'.pc \in {"gap", "exits", "refetch"}
        BY <1>0 DEF FetchSnapshot, GapFails, GapDone, Refetch, Goto, Memories
      <3>2. \A s \in Symbols : StartCycle(s) => cycle'.pc = "snapshot"
        BY Constants DEF StartCycle, Memories
      <3> QED BY <1>2, <3>1, <3>2 DEF WithIntent
    <2>3. ~ Reconcile
      <3>1. Reconcile => cycle'.pc \in {"gate", "recover"}
        BY <1>0 DEF Reconcile, Memories
      <3> QED BY <1>2, <3>1 DEF WithIntent
    <2>4. \A i \in Intents : ~ (GapFlat(i) \/ GapSkip(i) \/ GapAdopt(i)
                                   \/ ProjectExit(i))
      <3>1. ASSUME NEW i \in Intents, GapFlat(i) \/ GapSkip(i)
                       \/ GapAdopt(i) \/ ProjectExit(i)
            PROVE  cycle'.pc = cycle.pc /\ cycle.pc \in {"gap", "exits"}
        BY <1>0, <3>1 DEF GapFlat, GapSkip, GapAdopt, AtGap, ProjectExit, At,
           Memories
      <3> QED BY <1>2, <3>1 DEF WithIntent
    <2>5. \A p, o, g \in SUBSET Intents : ~ Recover(p, o, g)
      BY <1>0, <1>2 DEF Recover, Goto, Memories, WithIntent
    <2> QED
      BY <1>2, <2>1, <2>2, <2>3, <2>4, <2>5, CycleSteps, CurrentReserved, CurrentSubmitted,
         CurrentPersisted
  <1> QED BY <1>1, <1>2, CurrentKept

LEMMA NextEInv ==
    ASSUME TInv, EInv, [Next]_vars
    PROVE  EInv'
  BY NextUnused, NextDecided, NextEvidence, NextCurrent, NextGapRows DEF EInv

LEMMA EvidenceHolds == Spec => [](TInv /\ EInv)
  BY InitTInv, InitEInv, NextTInv, NextEInv, PTL DEF Spec

\* Every position, adopted, grown, quarantined or closed ones included, rests
\* on a filled order and its two receipts, and no symbol ever has two open
\* ones, for any faults and any number of intents.
THEOREM PositionsRestOnEvidence == Spec => []ProjectedOnEvidence
  <1>1. EInv => ProjectedOnEvidence
    BY DEF EInv
  <1> QED BY <1>1, EvidenceHolds, PTL

\* A terminal intent state is only ever corrected to FILLED, on the fill of
\* an order the exchange did fill.
THEOREM TerminalIsCorrectedByFillOnly == Spec => TerminalCorrectedByFillOnly
  <1> DEFINE A == \A i \in Intents :
          db[i].state \in Terminal /\ db'[i].state # db[i].state =>
              /\ db[i].state = "CANCELLED" /\ db'[i].state = "FILLED"
              /\ db'[i].fill /\ order[i] = "filled"
  <1>1. ASSUME TInv, EInv, [Next]_vars PROVE A
    <2> SUFFICES ASSUME NEW i \in Intents, db[i].state \in Terminal,
                        db'[i].state # db[i].state
                 PROVE  /\ db[i].state = "CANCELLED"
                        /\ db'[i].state = "FILLED"
                        /\ db'[i].fill /\ order[i] = "filled"
      OBVIOUS
    <2>1. RowStep(i)
      BY <1>1, RowSteps DEF EInv
    <2>2. ~ (FlatRow(i) \/ GrownRow(i) \/ ExitedRow(i) \/ RecoveredRow(i)
             \/ ReservedRow(i) \/ FinalRow(i))
      BY DEF FlatRow, GrownRow, ExitedRow, RecoveredRow, ReservedRow,
         FinalRow, Terminal, Pending
    <2>3. ~ SubmittedRow(i)
      BY <1>1, SubmittedRowFacts DEF Terminal
    <2>4. ~ (UnwoundRow(i) \/ EnteredRow(i))
      BY <1>1 DEF UnwoundRow, EnteredRow, EInv, Current, Pending, Terminal
    <2>5. AdoptedRow(i)
      BY <2>1, <2>2, <2>3, <2>4 DEF RowStep
    <2>6. db[i].state # "REJECTED"
      BY <1>1, <2>5 DEF AdoptedRow, AtGap, At, EInv, GapRows, Decided
    <2> QED BY <2>5, <2>6 DEF AdoptedRow, Terminal
  <1>2. TInv /\ EInv /\ [Next]_vars => [A]_vars
    BY <1>1
  <1> HIDE DEF A
  <1>3. Spec => [][A]_vars
    BY <1>2, EvidenceHolds, PTL DEF Spec
  <1> QED BY <1>3 DEF TerminalCorrectedByFillOnly, A

-----------------------------------------------------------------------------
(* Exposure, where market orders execute at once                           *)

NoOpen == \A i \in Intents : order[i] # "open"

\* What the exchange holds was bought by the intents of the symbol.
Fills ==
    \A s \in Symbols : \A i \in held[s] :
        db[i].symbol = s /\ db[i].state # "NONE" /\ order[i] = "filled"

\* From the snapshot to the order the exchange holds no more than was seen.
Covered == {"gap", "refetch", "exits", "recover", "gate", "authorise",
            "submit"}
SnapCovers ==
    cycle.pc \in Covered => \A s \in Symbols : held[s] \subseteq cycle.snap[s]

\* A symbol that was not seen flat does not pass the gate.
GateFlat ==
    /\ cycle.pc \in {"recover", "gate"} /\ cycle.symbol \notin cycle.blocked =>
           cycle.snap[cycle.symbol] = {}
    /\ cycle.pc \in {"authorise", "submit"} => cycle.snap[cycle.symbol] = {}

\* A guarded entry has been closed.
UnwoundFlat ==
    \/ cycle.pc \in {"unwound", "unwinding"}
    \/ cycle.pc = "persist" /\ cycle.result = "guarded"
    => held[cycle.symbol] = {}

FInv ==
    /\ NoOpen /\ Fills /\ SnapCovers /\ GateFlat /\ UnwoundFlat
    /\ OneExposurePerSymbol /\ ReservedUnlessWrittenOff

LEMMA InitFInv ==
    ASSUME Init PROVE FInv
  <1>1. \A s \in Symbols : held[s] = {}
    BY DEF Init, Flat
  <1>2. \A i \in Intents : order[i] = "none"
    BY DEF Init
  <1>3. cycle.pc = "idle"
    BY Constants DEF Init
  <1> QED
    BY <1>1, <1>2, <1>3 DEF FInv, NoOpen, Fills, SnapCovers, Covered,
       GateFlat, UnwoundFlat, OneExposurePerSymbol, ReservedUnlessWrittenOff

LEMMA NextNoOpen ==
    ASSUME TInv, NoOpen, [Next]_vars, "resting" \notin Faults
    PROVE  NoOpen'
  <1> SUFFICES ASSUME NEW j \in Intents, order'[j] = "open" PROVE FALSE
    BY DEF NoOpen
  <1>0. order \in [Intents -> {"none", "open", "filled", "cancelled"}]
    BY DEF TInv, TypeOK
  <1>1. order' # order /\ order[j] # "open"
    BY DEF NoOpen
  <1>2. ~ SubmitRests
    BY DEF SubmitRests, Fault
  <1>3. ~ \E i \in Intents : OrderExecutes(i)
    BY DEF OrderExecutes, NoOpen
  <1>4. ~ \E p, o, g \in SUBSET Intents : Recover(p, o, g)
    BY <1>1 DEF Recover
  <1>5. ~ Executed
    BY <1>0, <1>1 DEF Executed
  <1> QED BY <1>1, <1>2, <1>3, <1>4, <1>5, OrderSteps

\* The ways a position changes.
LEMMA HeldChanges ==
    ASSUME TInv, NoOpen, [Next]_vars, NEW s \in Symbols,
           held'[s] # held[s]
    PROVE  \/ held'[s] = {}
           \/ /\ cycle.pc = "submit" /\ s = cycle.symbol
              /\ held'[s] = held[s] \cup {cycle.intent}
              /\ order'[cycle.intent] = "filled"
              /\ cycle'.pc \in {"persist", "guard", "idle"}
              /\ cycle'.pc = "persist" => cycle'.result # "guarded"
  <1>0. /\ held \in [Symbols -> SUBSET Intents] /\ cycle \in Memories
        /\ order \in [Intents -> {"none", "open", "filled", "cancelled"}]
    BY DEF TInv, TypeOK
  <1>1. ~ \E i \in Intents : OrderExecutes(i)
    BY DEF OrderExecutes, NoOpen
  <1>2. CASE \E t : held' = [held EXCEPT ![t] = {}]
    BY <1>0, <1>2
  <1>3. CASE (SubmitEntry \/ SubmitFails \/ Crash) /\ Executed /\ At("submit")
    <2>1. cycle.pc = "submit" /\ cycle.intent \in Intents
      BY <1>3 DEF At, TInv, Working, WithIntent
    <2>2. /\ s = cycle.symbol /\ held'[s] = held[s] \cup {cycle.intent}
          /\ order'[cycle.intent] = "filled"
      BY <1>0, <1>3, <2>1 DEF Executed
    <2>3. /\ cycle'.pc \in {"persist", "guard", "idle"}
          /\ cycle'.pc = "persist" => cycle'.result # "guarded"
      <3>1. CASE SubmitEntry \/ SubmitFails
        BY <1>0, <3>1 DEF SubmitEntry, SubmitFails, Outcome, Memories
      <3>2. CASE Crash
        BY <3>2, Constants DEF Crash, Abort
      <3> QED BY <1>3, <3>1, <3>2
    <2> QED BY <2>1, <2>2, <2>3
  <1> QED BY <1>1, <1>2, <1>3, HeldSteps

\* The snapshot a cycle goes on with is the one it had, or a new one.
LEMMA SnapStep ==
    ASSUME TInv, [Next]_vars, cycle'.pc \in Covered
    PROVE  \/ cycle'.snap = cycle.snap /\ cycle.pc \in Covered
           \/ cycle'.snap = held /\ held' = held
  <1>0. cycle \in Memories
    BY DEF TInv, TypeOK
  <1>1. CASE cycle' # cycle
    <2>1. cycle' # Idle
      BY Constants DEF Covered
    <2>2. CASE FetchSnapshot \/ Refetch \/ \E i \in Intents : ProjectExit(i)
      BY <1>0, <2>2 DEF FetchSnapshot, Refetch, ProjectExit, exchange,
         Memories
    <2>3. CASE GapFails \/ GapDone \/ Authorise
      BY <1>0, <2>3 DEF GapFails, GapDone, Authorise, At, Goto, Memories,
         Covered
    <2>4. CASE Reconcile
      BY <1>0, <2>4 DEF Reconcile, At, Memories, Covered
    <2>5. CASE \E i \in Intents : GapFlat(i) \/ GapSkip(i) \/ GapAdopt(i)
                                     \/ ReserveIntent(i)
      BY <1>0, <2>5 DEF GapFlat, GapSkip, GapAdopt, AtGap, ReserveIntent, At,
         Memories, Covered
    <2>6. CASE \E p, o, g \in SUBSET Intents : Recover(p, o, g)
      BY <1>0, <2>6 DEF Recover, At, Goto, Memories, Covered
    <2>7. \A s \in Symbols : ~ StartCycle(s)
      <3>1. \A s \in Symbols : StartCycle(s) => cycle'.pc = "snapshot"
        BY Constants DEF StartCycle, Memories
      <3> QED BY <3>1 DEF Covered
    <2>8. ~ (NotAttempted \/ SubmitEntry \/ SubmitRests \/ SubmitFails
             \/ MarginGuard \/ PersistSubmission \/ ProjectUnwound
             \/ CloseUnwound \/ Protect \/ PersistEntry)
      BY <1>0 DEF NotAttempted, SubmitEntry, SubmitRests, SubmitFails,
         MarginGuard, PersistSubmission, ProjectUnwound, CloseUnwound, Protect,
         PersistEntry, AfterSubmission, Outcome, Goto, Memories, Covered
    <2> QED
      BY <1>1, <2>1, <2>2, <2>3, <2>4, <2>5, <2>6, <2>7, <2>8, CycleSteps
  <1> QED BY <1>1

LEMMA NextSnapCovers ==
    ASSUME TInv, FInv, [Next]_vars
    PROVE  SnapCovers'
  <1> SUFFICES ASSUME cycle'.pc \in Covered, NEW s \in Symbols
               PROVE  held'[s] \subseteq cycle'.snap[s]
    BY DEF SnapCovers
  <1>1. held'[s] \subseteq held[s]
    BY HeldChanges DEF FInv, Covered
  <1> QED BY <1>1, SnapStep DEF FInv, SnapCovers

LEMMA NextGateFlat ==
    ASSUME TInv, FInv, [Next]_vars
    PROVE  GateFlat'
  <1>0. cycle \in Memories /\ Working /\ db \in [Intents -> Row]
    BY DEF TInv, TypeOK
  <1>1. CASE cycle' = cycle
    BY <1>1 DEF FInv, GateFlat
  <1>2. CASE cycle'.pc \notin {"recover", "gate", "authorise", "submit"}
    BY <1>2 DEF GateFlat
  <1>3. CASE Reconcile
    <2> DEFINE s == cycle.symbol
    <2>1. /\ s \in Symbols /\ cycle'.symbol = s /\ cycle'.snap = cycle.snap
          /\ cycle'.pc \in {"gate", "recover"}
      BY <1>0, <1>3 DEF Reconcile, At, Memories, Working
    <2>2. /\ Unclaimable \subseteq cycle'.blocked
          /\ \A i \in AllOpen : db[i].symbol \in cycle'.blocked
      BY <1>0, <1>3 DEF Reconcile, Memories
    <2>3. s \notin cycle'.blocked => cycle.snap[s] = {}
      BY <2>1, <2>2 DEF Unclaimable, OpenPositions, AllOpen
    <2> QED BY <2>1, <2>3 DEF GateFlat
  <1>4. CASE \E p, o, g \in SUBSET Intents : Recover(p, o, g)
    <2>1. /\ cycle.pc = "recover" /\ cycle'.pc = "gate"
          /\ cycle'.symbol = cycle.symbol /\ cycle'.snap = cycle.snap
          /\ cycle'.blocked = cycle.blocked
      BY <1>0, <1>4 DEF Recover, At, Goto, Memories
    <2> QED BY <2>1 DEF FInv, GateFlat
  <1>5. CASE \E i \in Intents : ReserveIntent(i)
    <2>1. /\ cycle.pc = "gate" /\ cycle'.pc = "authorise"
          /\ cycle'.symbol = cycle.symbol /\ cycle'.snap = cycle.snap
          /\ cycle.symbol \notin cycle.blocked
      BY <1>0, <1>5 DEF ReserveIntent, GateApproves, At, Memories
    <2> QED BY <2>1 DEF FInv, GateFlat
  <1>6. CASE Authorise
    <2>1. /\ cycle.pc = "authorise" /\ cycle'.pc \in {"submit", "finalise"}
          /\ cycle'.symbol = cycle.symbol /\ cycle'.snap = cycle.snap
      BY <1>0, <1>6 DEF Authorise, At, Memories
    <2> QED BY <2>1 DEF FInv, GateFlat
  <1>7. CASE /\ cycle' # cycle /\ ~ Reconcile /\ ~ Authorise
             /\ \A i \in Intents : ~ ReserveIntent(i)
             /\ \A p, o, g \in SUBSET Intents : ~ Recover(p, o, g)
    <2> SUFFICES ASSUME cycle' # Idle
                 PROVE  cycle'.pc \notin {"recover", "gate", "authorise",
                                          "submit"}
      BY <1>2, Constants
    <2>1. \A s \in Symbols : StartCycle(s) => cycle'.pc = "snapshot"
      BY Constants DEF StartCycle, Memories
    <2>2. FetchSnapshot \/ GapFails \/ GapDone \/ Refetch =>
              cycle'.pc \in {"gap", "exits", "refetch"}
      BY <1>0 DEF FetchSnapshot, GapFails, GapDone, Refetch, Goto, Memories
    <2>3. \A i \in Intents :
              GapFlat(i) \/ GapSkip(i) \/ GapAdopt(i) \/ ProjectExit(i) =>
                  cycle'.pc \in {"gap", "exits"}
      BY <1>0 DEF GapFlat, GapSkip, GapAdopt, AtGap, ProjectExit, At,
         Memories
    <2>4. NotAttempted \/ SubmitEntry \/ SubmitRests \/ SubmitFails
              \/ MarginGuard \/ PersistSubmission \/ ProjectUnwound
              \/ CloseUnwound \/ Protect \/ PersistEntry =>
              cycle'.pc \in {"persist", "guard", "protect", "unwound",
                             "unwinding", "finalise", "project"}
      BY <1>0 DEF NotAttempted, SubmitEntry, SubmitRests, SubmitFails,
         MarginGuard, PersistSubmission, ProjectUnwound, CloseUnwound, Protect,
         PersistEntry, AfterSubmission, Outcome, Goto, Memories
    <2> QED BY <1>7, <2>1, <2>2, <2>3, <2>4, CycleSteps
  <1> QED BY <1>1, <1>3, <1>4, <1>5, <1>6, <1>7

LEMMA NextFills ==
    ASSUME TInv, EInv, FInv, [Next]_vars
    PROVE  Fills'
  <1> SUFFICES ASSUME NEW s \in Symbols, NEW i \in held'[s]
               PROVE  /\ db'[i].symbol = s /\ db'[i].state # "NONE"
                      /\ order'[i] = "filled"
    BY DEF Fills
  <1>0. /\ i \in Intents /\ db[i] \in Row
        /\ held \in [Symbols -> SUBSET Intents]
    BY NextExchange DEF TInv, TypeOK
  <1>1. db[i].state # "NONE" =>
            db'[i].symbol = db[i].symbol /\ db'[i].state # "NONE"
    <2> SUFFICES ASSUME db[i].state # "NONE", RowStep(i)
                 PROVE  db'[i].symbol = db[i].symbol /\ db'[i].state # "NONE"
      BY <1>0, RowSteps DEF EInv
    <2>1. CASE SubmittedRow(i)
      BY <1>0, <2>1, SubmittedRowFacts DEF KeepsName
    <2>2. CASE ~ SubmittedRow(i)
      BY <2>2 DEF RowStep, FlatRow, AdoptedRow, GrownRow, ExitedRow,
         RecoveredRow, ReservedRow, UnwoundRow, EnteredRow, FinalRow,
         KeepsName
    <2> QED BY <2>1, <2>2
  <1>2. CASE i \in held[s]
    <2>1. db[i].symbol = s /\ db[i].state # "NONE" /\ order[i] = "filled"
      BY <1>2 DEF FInv, Fills
    <2> QED BY <1>0, <1>1, <2>1, FilledStays
  <1>3. CASE i \notin held[s]
    <2>1. /\ cycle.pc = "submit" /\ s = cycle.symbol /\ i = cycle.intent
          /\ order'[i] = "filled"
      BY <1>0, <1>3, HeldChanges DEF FInv
    <2>2. db[i].symbol = s /\ db[i].state # "NONE"
      BY <2>1 DEF EInv, Current, WithIntent
    <2> QED BY <1>1, <2>1, <2>2
  <1> QED BY <1>2, <1>3

LEMMA NextOneExposure ==
    ASSUME TInv, FInv, [Next]_vars
    PROVE  OneExposurePerSymbol'
  <1> SUFFICES ASSUME NEW s \in Symbols, NEW i \in held'[s], NEW j \in held'[s]
               PROVE  i = j
    BY DEF OneExposurePerSymbol
  <1>1. CASE held'[s] = held[s]
    BY <1>1 DEF FInv, OneExposurePerSymbol
  <1>2. CASE /\ cycle.pc = "submit" /\ s = cycle.symbol
             /\ held'[s] = held[s] \cup {cycle.intent}
    <2>1. held[s] = {}
      BY <1>2 DEF FInv, SnapCovers, Covered, GateFlat
    <2> QED BY <1>2, <2>1
  <1> QED BY <1>1, <1>2, HeldChanges DEF FInv

LEMMA NextUnwoundFlat ==
    ASSUME TInv, FInv, [Next]_vars
    PROVE  UnwoundFlat'
  <1> DEFINE Closed == \/ cycle.pc \in {"unwound", "unwinding"}
                       \/ cycle.pc = "persist" /\ cycle.result = "guarded"
  <1> SUFFICES ASSUME Closed' PROVE held'[cycle'.symbol] = {}
    BY DEF UnwoundFlat
  <1>0. /\ cycle \in Memories /\ cycle' \in Memories /\ Working'
        /\ held \in [Symbols -> SUBSET Intents]
    BY NextMemory DEF TInv, TypeOK
  <1>1. cycle'.symbol \in Symbols
    BY <1>0 DEF Working
  <1>2. CASE Closed /\ cycle'.symbol = cycle.symbol
    <2>1. held[cycle.symbol] = {}
      BY <1>2 DEF FInv, UnwoundFlat
    <2> QED BY <1>1, <1>2, <2>1, HeldChanges DEF FInv
  <1>3. CASE cycle' = cycle
    BY <1>2, <1>3
  <1>4. CASE MarginGuard
    <2>1. cycle'.symbol = cycle.symbol
      BY <1>0, <1>4 DEF MarginGuard, Outcome, Memories
    <2>2. held' = [held EXCEPT ![cycle.symbol] = {}]
      BY <1>0, <1>4 DEF MarginGuard, Outcome, Memories
    <2> QED BY <1>0, <1>1, <2>1, <2>2
  <1>5. CASE PersistSubmission
    <2>1. /\ cycle.pc = "persist" /\ cycle'.pc = AfterSubmission
          /\ cycle'.symbol = cycle.symbol
      BY <1>0, <1>5 DEF PersistSubmission, At, Goto, Memories
    <2>2. cycle.result = "guarded"
      BY <2>1 DEF AfterSubmission
    <2> QED BY <1>2, <2>1, <2>2
  <1>6. cycle' # Idle
    BY Constants
  <1>7. /\ ~ (FetchSnapshot \/ GapFails \/ GapDone \/ Refetch)
        /\ ~ Reconcile
        /\ \A s \in Symbols : ~ StartCycle(s)
        /\ \A i \in Intents : ~ (GapFlat(i) \/ GapSkip(i) \/ GapAdopt(i)
                                 \/ ProjectExit(i) \/ ReserveIntent(i))
        /\ \A p, o, g \in SUBSET Intents : ~ Recover(p, o, g)
    <2>1. \A s \in Symbols : StartCycle(s) => cycle'.pc = "snapshot"
      BY Constants DEF StartCycle, Memories
    <2>2. FetchSnapshot \/ GapFails \/ GapDone \/ Refetch =>
              cycle'.pc \in {"gap", "exits", "refetch"}
      BY <1>0 DEF FetchSnapshot, GapFails, GapDone, Refetch, Goto, Memories
    <2>3. \A i \in Intents :
              GapFlat(i) \/ GapSkip(i) \/ GapAdopt(i) \/ ProjectExit(i)
              \/ ReserveIntent(i) =>
                  cycle'.pc \in {"gap", "exits", "authorise"}
      BY <1>0 DEF GapFlat, GapSkip, GapAdopt, AtGap, ProjectExit,
         ReserveIntent, At, Memories
    <2>4. Reconcile => cycle'.pc \in {"gate", "recover"}
      BY <1>0 DEF Reconcile, Memories
    <2>5. \A p, o, g \in SUBSET Intents :
              Recover(p, o, g) => cycle'.pc = "gate"
      BY <1>0 DEF Recover, Goto, Memories
    <2> QED BY <2>1, <2>2, <2>3, <2>4, <2>5
  <1>8. ~ (Authorise \/ NotAttempted \/ SubmitEntry \/ SubmitRests
           \/ SubmitFails \/ CloseUnwound \/ Protect \/ PersistEntry)
    BY <1>0 DEF Authorise, NotAttempted, SubmitEntry, SubmitRests,
       SubmitFails, CloseUnwound, Protect, PersistEntry, Outcome, Goto,
       Memories
  <1>9. CASE ProjectUnwound
    <2>1. cycle.pc = "unwound" /\ cycle'.symbol = cycle.symbol
      BY <1>0, <1>9 DEF ProjectUnwound, At, Goto, Memories
    <2> QED BY <1>2, <2>1
  <1> HIDE DEF Closed
  <1> QED BY <1>3, <1>4, <1>5, <1>6, <1>7, <1>8, <1>9, CycleSteps

LEMMA NextReserved ==
    ASSUME TInv, EInv, FInv, [Next]_vars
    PROVE  ReservedUnlessWrittenOff'
  <1> DEFINE Seen(r) ==
          \/ r.position \in OpenStates
          \/ r.state \in Pending \cup {"FILLED"} /\ r.position = "NONE"
          \/ r.state \in {"REJECTED", "CANCELLED"} /\ ~ r.receipt
  <1>0. \A i \in Intents :
            /\ (i \in Committed \/ WrittenOff(i)) <=> Seen(db[i])
            /\ ((i \in Committed \/ WrittenOff(i)) <=> Seen(db[i]))'
    BY DEF Committed, AllOpen, ReservedByIntent, WrittenOff
  <1> SUFFICES ASSUME NEW s \in Symbols, NEW i \in held'[s]
               PROVE  Seen(db'[i])
    <2>1. \A t \in Symbols : held'[t] \subseteq Intents
      BY NextExchange
    <2> HIDE DEF Seen
    <2> QED BY <1>0, <2>1 DEF ReservedUnlessWrittenOff
  <1>1. i \in Intents
    BY NextExchange
  <1>2. CASE i \notin held[s]
    <2>1. cycle.pc = "submit" /\ i = cycle.intent
      BY <1>2, HeldChanges DEF FInv
    <2>2. db'[i] = db[i]
      <3>1. ~ RowStep(i)
        BY <2>1 DEF RowStep, FlatRow, AdoptedRow, GrownRow, ExitedRow,
           RecoveredRow, ReservedRow, SubmittedRow, UnwoundRow, EnteredRow,
           FinalRow, AtGap, At
      <3> QED BY <1>1, <3>1, RowSteps DEF EInv
    <2>3. db[i].state = "EXCHANGE_SUBMITTING" /\ db[i].position = "NONE"
      BY <2>1 DEF EInv, Current
    <2> QED BY <2>2, <2>3 DEF Pending
  <1>3. CASE i \in held[s]
    <2>1. /\ db[i].symbol = s /\ db[i].state # "NONE" /\ Seen(db[i])
          /\ held[s] # {}
      BY <1>0, <1>1, <1>3 DEF FInv, Fills, ReservedUnlessWrittenOff
    <2>2. cycle.pc \in Covered => cycle.snap[s] # {}
      BY <2>1 DEF FInv, SnapCovers
    <2>3. CASE db'[i] = db[i]
      BY <2>1, <2>3
    <2>4. CASE RowStep(i)
      <3>1. ~ FlatRow(i)
        BY <2>1, <2>2 DEF FlatRow, AtGap, At, EInv, GapRows, Covered
      <3>2. ~ ExitedRow(i)
        BY <2>1, <2>2 DEF ExitedRow, Covered
      <3>3. ~ ReservedRow(i)
        BY <2>1 DEF ReservedRow
      <3>4. ~ UnwoundRow(i)
        BY <2>1 DEF UnwoundRow, FInv, UnwoundFlat, EInv, Current, WithIntent
      <3>5. CASE AdoptedRow(i)
        <4>1. db[i].position = "NONE"
          BY <3>5 DEF AdoptedRow, AtGap, At, EInv, GapRows
        <4> QED BY <3>5, <4>1 DEF AdoptedRow, OpenStates
      <3>6. CASE GrownRow(i) \/ EnteredRow(i)
        BY <3>6 DEF GrownRow, EnteredRow
      <3>7. CASE SubmittedRow(i)
        BY <1>1, <3>7, SubmittedRowFacts DEF Pending
      <3>8. CASE FinalRow(i)
        BY <2>1, <3>8 DEF FinalRow, KeepsReceipts
      <3>9. CASE RecoveredRow(i)
        <4>1. cycle.snap[db[i].symbol] # {}
          BY <2>1, <2>2, <3>9 DEF RecoveredRow, Covered
        <4>2. CASE db[i].position \in OpenStates
          BY <3>9, <4>1, <4>2 DEF RecoveredRow, OpenStates
        <4>3. CASE db[i].position \notin OpenStates
          <5>1. db'[i].position = db[i].position /\ KeepsReceipts(i)
            BY <3>9, <4>3 DEF RecoveredRow
          <5>2. \/ db'[i].state = db[i].state
                \/ db'[i].state = "CANCELLED" /\ ~ db[i].receipt
            BY <3>9 DEF RecoveredRow
          <5> QED BY <2>1, <5>1, <5>2 DEF KeepsReceipts
        <4> QED BY <4>2, <4>3
      <3> HIDE DEF Seen
      <3> QED
        BY <2>4, <3>1, <3>2, <3>3, <3>4, <3>5, <3>6, <3>7, <3>8, <3>9
           DEF RowStep
    <2> QED BY <1>1, <2>3, <2>4, RowSteps DEF EInv
  <1> QED BY <1>2, <1>3

LEMMA ExposureHolds ==
    ASSUME "resting" \notin Faults
    PROVE  Spec => []FInv
  <1>1. ASSUME TInv, EInv, FInv, [Next]_vars PROVE FInv'
    <2>1. NoOpen'
      BY <1>1, NextNoOpen DEF FInv
    <2> QED
      BY <1>1, <2>1, NextFills, NextSnapCovers, NextGateFlat,
         NextUnwoundFlat, NextOneExposure, NextReserved DEF FInv
  <1> QED BY <1>1, InitFInv, EvidenceHolds, PTL DEF Spec

\* When a market order executes at once or not at all, no second entry is
\* executed on top of an exposure of its symbol: whatever answers are lost,
\* whatever intents are written off, whenever the worker dies.
THEOREM OneExposureHolds ==
    ASSUME "resting" \notin Faults
    PROVE  Spec => []OneExposurePerSymbol
  <1>1. FInv => OneExposurePerSymbol
    BY DEF FInv
  <1> QED BY <1>1, ExposureHolds, PTL

\* Under the same assumption whatever the exchange holds is committed risk,
\* unless its intent was written off before any receipt was saved.
THEOREM ReservationHolds ==
    ASSUME "resting" \notin Faults
    PROVE  Spec => []ReservedUnlessWrittenOff
  <1>1. FInv => ReservedUnlessWrittenOff
    BY DEF FInv
  <1> QED BY <1>1, ExposureHolds, PTL

-----------------------------------------------------------------------------
(* The enforced budget, where every answer is read and saved               *)

Answered == Faults \cap {"crash", "lost", "database", "resting"} = {}

\* Nothing is held without a receipt, except by the entry under way.
Receipted ==
    /\ \A s \in Symbols : \A i \in held[s] :
           db[i].receipt \/ (cycle.pc \in {"guard", "persist"}
                              /\ i = cycle.intent)
    /\ cycle.pc = "persist" /\ cycle.result \in {"rejected", "not_attempted"}
           => order[cycle.intent] = "none"

Exposed == {s \in Symbols : held[s] # {}}

\* An approved entry leaves room for itself.
Room ==
    /\ IsFiniteSet(Exposed) /\ Cardinality(Exposed) <= MaxRisk
    /\ cycle.pc \in {"authorise", "submit"} => Cardinality(Exposed) < MaxRisk

LEMMA InitBudget ==
    ASSUME Init PROVE Receipted /\ Room
  <1>1. \A s \in Symbols : held[s] = {}
    BY DEF Init, Flat
  <1>2. Exposed = {}
    BY <1>1 DEF Exposed
  <1>3. cycle.pc = "idle" /\ MaxRisk \in Nat
    BY Constants, EntryAssumption DEF Init
  <1> QED
    BY <1>1, <1>2, <1>3, FS_EmptySet DEF Receipted, Room

\* Without a crash, steps of the worker go on with the cycle or end it.
LEMMA NextReceipted ==
    ASSUME TInv, EInv, FInv, Receipted, [Next]_vars, Answered
    PROVE  Receipted'
  <1>0. /\ cycle \in Memories /\ cycle' \in Memories
        /\ held \in [Symbols -> SUBSET Intents]
        /\ held' \in [Symbols -> SUBSET Intents]
    BY NextExchange, NextMemory DEF TInv, TypeOK
  <1>1. ~ Crash
    BY DEF Crash, Fault, Answered
  <1>2. ASSUME NEW s \in Symbols, NEW i \in held'[s]
        PROVE  db'[i].receipt \/ (cycle'.pc \in {"guard", "persist"}
                                   /\ i = cycle'.intent)
    <2>0. i \in Intents
      BY <1>0
    <2>1. CASE i \notin held[s]
      <3>1. cycle.pc = "submit" /\ i = cycle.intent /\ held' # held
        BY <2>1, HeldChanges DEF FInv
      <3>2. SubmitEntry \/ SubmitFails
        <4>1. \A j \in Intents : ~ OrderExecutes(j)
          BY DEF OrderExecutes, FInv, NoOpen
        <4>2. ~ \E t : held' = [held EXCEPT ![t] = {}]
          BY <1>0, <2>1
        <4> QED BY <1>1, <3>1, <4>1, <4>2, HeldSteps
      <3>3. cycle'.pc \in {"guard", "persist"} /\ cycle'.intent = cycle.intent
        BY <1>0, <3>2 DEF SubmitEntry, SubmitFails, Outcome, Memories
      <3> QED BY <3>1, <3>3
    <2>2. CASE i \in held[s] /\ db[i].receipt
      <3>1. CASE RowStep(i)
        <4>1. ~ SubmittedRow(i)
          BY <2>0, <2>2, SubmittedRowFacts
        <4> QED
          BY <2>2, <3>1, <4>1 DEF RowStep, FlatRow, AdoptedRow, GrownRow,
             ExitedRow, RecoveredRow, ReservedRow, UnwoundRow, EnteredRow,
             FinalRow, KeepsReceipts
      <3> QED BY <2>0, <2>2, <3>1, RowSteps DEF EInv
    <2>3. CASE /\ i \in held[s] /\ cycle.pc \in {"guard", "persist"}
               /\ i = cycle.intent
      <3>1. order[i] = "filled"
        BY <2>3 DEF FInv, Fills
      <3>2. CASE cycle' = cycle
        BY <2>3, <3>2
      <3>3. CASE MarginGuard
        BY <1>0, <2>3, <3>3 DEF MarginGuard, Outcome, Memories
      <3>4. CASE PersistSubmission
        <4>1. /\ cycle.pc = "persist" /\ cycle'.pc = AfterSubmission
              /\ db' = [db EXCEPT ![i] = SubmissionRow(db[i], cycle.result)]
          BY <1>0, <2>3, <3>4 DEF PersistSubmission, At, Goto, Memories,
             Fault, Answered
        <4>2. /\ db'[i] = SubmissionRow(db[i], cycle.result)
              /\ db \in [Intents -> Row]
          BY <2>0, <4>1 DEF TInv, TypeOK
        <4>3. /\ db[i] \in Row
              /\ cycle.result \in {"filled", "acknowledged", "unread",
                                   "guarded", "over"}
          BY <2>0, <2>3, <3>1, <4>1, <4>2 DEF Receipted, TInv, Working
        <4> QED BY <4>2, <4>3, SubmissionRowFacts
      <3>5. cycle' = cycle \/ MarginGuard \/ PersistSubmission
        <4>1. cycle' # cycle /\ cycle' # Idle =>
                  MarginGuard \/ PersistSubmission
          BY <2>3, CycleSteps DEF StartCycle, FetchSnapshot, GapFails,
             GapDone, Refetch, Reconcile, GapFlat, GapSkip, GapAdopt, AtGap,
             ProjectExit, ReserveIntent, Recover, Authorise, NotAttempted,
             SubmitEntry, SubmitRests, SubmitFails, ProjectUnwound,
             CloseUnwound, Protect,
             PersistEntry, At
        <4>2. cycle' # Idle
          <5>1. cycle' # cycle => Cycle \/ \E t \in Symbols : StartCycle(t)
            BY <1>1 DEF Next, OrderExecutes, RecordGap, PositionCloses,
               SetControl, vars
          <5>2. cycle' # cycle => MarginGuard \/ PersistSubmission
            BY <2>3, <5>1 DEF Cycle, StartCycle, FetchSnapshot,
               SnapshotFails, GapFails, GapDone, Refetch, Reconcile, GapFlat,
               GapSkip, GapAdopt, AtGap, ProjectExit, ReserveIntent, Recover,
               NoEntry, Authorise, NotAttempted, SubmitEntry, SubmitRests,
               SubmitFails, SubmitFenced, ProjectUnwound,
               CloseUnwound, Protect,
               PersistEntry, Finalise, At
          <5>3. MarginGuard \/ PersistSubmission => cycle'.pc # "idle"
            BY <1>0 DEF MarginGuard, PersistSubmission, Outcome, Goto,
               AfterSubmission, Memories
          <5> QED BY <2>3, <5>2, <5>3, Constants
        <4> QED BY <4>1, <4>2
      <3> QED BY <3>2, <3>3, <3>4, <3>5
    <2> QED BY <2>1, <2>2, <2>3 DEF Receipted
  <1>3. ASSUME cycle'.pc = "persist",
               cycle'.result \in {"rejected", "not_attempted"}
        PROVE  order'[cycle'.intent] = "none"
    <2>1. cycle' # Idle
      BY <1>3, Constants
    <2>2. CASE cycle' = cycle
      <3>1. cycle.intent \in Intents /\ order[cycle.intent] = "none"
        BY <1>3, <2>2 DEF Receipted, TInv, Working, WithIntent
      <3> QED BY <1>3, <2>2, <3>1, OrderChanges
    <2>3. CASE NotAttempted \/ SubmitFails
      <3>1. /\ cycle.pc = "submit" /\ cycle'.intent = cycle.intent
            /\ order' = order
        BY <1>0, <2>3 DEF NotAttempted, SubmitFails, At, Outcome, Memories,
           exchange, Fault, Answered
      <3> QED BY <3>1 DEF EInv, Current
    <2>4. ~ (MarginGuard \/ SubmitEntry \/ SubmitRests)
      BY <1>0, <1>3 DEF MarginGuard, SubmitEntry, SubmitRests, Outcome,
         Memories
    <2>5. /\ ~ (FetchSnapshot \/ GapFails \/ GapDone \/ Refetch)
          /\ \A t \in Symbols : ~ StartCycle(t)
      <3>1. FetchSnapshot \/ GapFails \/ GapDone \/ Refetch =>
                cycle'.pc \in {"gap", "exits", "refetch"}
        BY <1>0 DEF FetchSnapshot, GapFails, GapDone, Refetch, Goto, Memories
      <3>2. \A t \in Symbols : StartCycle(t) => cycle'.pc = "snapshot"
        BY Constants DEF StartCycle, Memories
      <3> QED BY <1>3, <3>1, <3>2
    <2>6. /\ ~ Reconcile
          /\ \A j \in Intents : ~ (GapFlat(j) \/ GapSkip(j) \/ GapAdopt(j)
                                   \/ ProjectExit(j) \/ ReserveIntent(j))
          /\ \A p, o, g \in SUBSET Intents : ~ Recover(p, o, g)
      <3>1. Reconcile => cycle'.pc \in {"gate", "recover"}
        BY <1>0 DEF Reconcile, Memories
      <3>2. \A j \in Intents :
                GapFlat(j) \/ GapSkip(j) \/ GapAdopt(j) \/ ProjectExit(j)
                \/ ReserveIntent(j) =>
                    cycle'.pc \in {"gap", "exits", "authorise"}
        BY <1>0 DEF GapFlat, GapSkip, GapAdopt, AtGap, ProjectExit,
           ReserveIntent, At, Memories
      <3>3. \A p, o, g \in SUBSET Intents :
              Recover(p, o, g) => cycle'.pc = "gate"
        BY <1>0 DEF Recover, Goto, Memories
      <3> QED BY <1>3, <3>1, <3>2, <3>3
    <2>7. ~ (Authorise \/ PersistSubmission \/ ProjectUnwound
             \/ CloseUnwound \/ Protect
             \/ PersistEntry)
      BY <1>0, <1>3 DEF Authorise, PersistSubmission, ProjectUnwound,
         CloseUnwound, Protect, PersistEntry, AfterSubmission, Goto, Memories
    <2> QED BY <2>1, <2>2, <2>3, <2>4, <2>5, <2>6, <2>7, CycleSteps
  <1> QED BY <1>2, <1>3 DEF Receipted

\* Each exposed symbol has a committed intent of its own.
LEMMA ExposedCommitted ==
    ASSUME TInv, FInv, Receipted, cycle.pc \notin {"guard", "persist"}
    PROVE  /\ IsFiniteSet(Exposed)
           /\ Cardinality(Exposed) <= Cardinality(Committed)
  <1> DEFINE Named == {db[i].symbol : i \in Committed}
             f == [i \in Committed |-> db[i].symbol]
  <1>1. Committed \in SUBSET Intents
    BY DEF Committed, AllOpen, ReservedByIntent
  <1>2. IsFiniteSet(Committed) /\ Cardinality(Committed) \in Nat
    BY <1>1, Finite
  <1>3. f \in Surjection(Committed, Named)
    BY DEF Surjection
  <1>4. IsFiniteSet(Named) /\ Cardinality(Named) <= Cardinality(Committed)
    BY <1>2, <1>3, FS_Surjection
  <1>5. Exposed \subseteq Named
    <2> SUFFICES ASSUME NEW s \in Symbols, NEW i \in held[s]
                 PROVE  s \in Named
      BY DEF Exposed
    <2>1. db[i].symbol = s /\ db[i].receipt
      BY DEF FInv, Fills, Receipted
    <2>2. i \in Committed
      BY <2>1 DEF FInv, ReservedUnlessWrittenOff, WrittenOff
    <2> QED BY <2>1, <2>2
  <1> HIDE DEF Named
  <1>6. IsFiniteSet(Exposed) /\ Cardinality(Exposed) <= Cardinality(Named)
    BY <1>4, <1>5, FS_Subset
  <1>7. Cardinality(Exposed) \in Nat /\ Cardinality(Named) \in Nat
    BY <1>4, <1>6, FS_CardinalityType
  <1> QED BY <1>2, <1>4, <1>6, <1>7

LEMMA NextRoom ==
    ASSUME TInv, FInv, Receipted, Room, [Next]_vars, Enforced
    PROVE  Room'
  <1>0. /\ cycle \in Memories /\ MaxRisk \in Nat
        /\ IsFiniteSet(Exposed) /\ Cardinality(Exposed) \in Nat
        /\ Cardinality(Exposed) <= MaxRisk
    BY EntryAssumption, FS_CardinalityType DEF TInv, TypeOK, Room
  <1>1. CASE Exposed' \subseteq Exposed
    <2>1. /\ IsFiniteSet(Exposed') /\ Cardinality(Exposed') \in Nat
          /\ Cardinality(Exposed') <= Cardinality(Exposed)
      BY <1>0, <1>1, FS_Subset, FS_CardinalityType
    <2>2. CASE \/ cycle'.pc \notin {"authorise", "submit"}
               \/ cycle.pc \in {"authorise", "submit"}
      BY <1>0, <2>1, <2>2 DEF Room
    <2>3. CASE \E i \in Intents : ReserveIntent(i)
      <3>1. /\ cycle.pc = "gate" /\ Cardinality(Committed) < MaxRisk
        BY <2>3 DEF ReserveIntent, BudgetAllows, At
      <3>2. Cardinality(Committed) \in Nat
        BY Finite DEF Committed, AllOpen, ReservedByIntent
      <3>3. Cardinality(Exposed) < MaxRisk
        BY <1>0, <3>1, <3>2, ExposedCommitted
      <3> QED BY <1>0, <2>1, <3>3 DEF Room
    <2>4. CASE /\ cycle'.pc \in {"authorise", "submit"}
               /\ cycle.pc \notin {"authorise", "submit"}
      <3>1. cycle' # cycle /\ cycle' # Idle
        BY <2>4, Constants
      <3>2. ~ (NotAttempted \/ SubmitEntry \/ SubmitRests \/ SubmitFails
               \/ Authorise)
        BY <2>4 DEF NotAttempted, SubmitEntry, SubmitRests, SubmitFails,
           Authorise, At
      <3>3. ~ (MarginGuard \/ PersistSubmission \/ ProjectUnwound
               \/ CloseUnwound \/ Protect \/ PersistEntry)
        BY <1>0, <2>4 DEF MarginGuard, PersistSubmission, ProjectUnwound,
           CloseUnwound, Protect, PersistEntry, AfterSubmission, Outcome,
           Goto, Memories
      <3>4. /\ ~ (FetchSnapshot \/ GapFails \/ GapDone \/ Refetch)
            /\ \A t \in Symbols : ~ StartCycle(t)
        <4>1. FetchSnapshot \/ GapFails \/ GapDone \/ Refetch =>
                  cycle'.pc \in {"gap", "exits", "refetch"}
          BY <1>0 DEF FetchSnapshot, GapFails, GapDone, Refetch, Goto,
             Memories
        <4>2. \A t \in Symbols : StartCycle(t) => cycle'.pc = "snapshot"
          BY Constants DEF StartCycle, Memories
        <4> QED BY <2>4, <4>1, <4>2
      <3>5. /\ ~ Reconcile
            /\ \A j \in Intents : ~ (GapFlat(j) \/ GapSkip(j) \/ GapAdopt(j)
                                     \/ ProjectExit(j))
            /\ \A p, o, g \in SUBSET Intents : ~ Recover(p, o, g)
        <4>1. Reconcile => cycle'.pc \in {"gate", "recover"}
          BY <1>0 DEF Reconcile, Memories
        <4>2. \A j \in Intents :
                  GapFlat(j) \/ GapSkip(j) \/ GapAdopt(j) \/ ProjectExit(j) =>
                      cycle'.pc \in {"gap", "exits"}
          BY <1>0 DEF GapFlat, GapSkip, GapAdopt, AtGap, ProjectExit, At,
             Memories
        <4>3. \A p, o, g \in SUBSET Intents :
                  Recover(p, o, g) => cycle'.pc = "gate"
          BY <1>0 DEF Recover, Goto, Memories
        <4> QED BY <2>4, <4>1, <4>2, <4>3
      <3> QED BY <2>3, <3>1, <3>2, <3>3, <3>4, <3>5, CycleSteps
    <2> QED BY <2>2, <2>4
  <1>2. CASE ~ (Exposed' \subseteq Exposed)
    <2>1. PICK s \in Symbols : held'[s] # {} /\ held[s] = {}
      BY <1>2 DEF Exposed
    <2>2. /\ cycle.pc = "submit" /\ s = cycle.symbol
          /\ cycle'.pc \in {"persist", "guard", "idle"}
      BY <2>1, HeldChanges DEF FInv
    <2>3. Exposed' \subseteq Exposed \cup {s}
      <3> SUFFICES ASSUME NEW t \in Symbols, held'[t] # {}, held[t] = {}
                   PROVE  t = s
        BY DEF Exposed
      <3> QED BY <2>2, HeldChanges DEF FInv
    <2>4. /\ IsFiniteSet(Exposed \cup {s})
          /\ Cardinality(Exposed \cup {s}) <= Cardinality(Exposed) + 1
      BY <1>0, FS_AddElement
    <2>5. /\ IsFiniteSet(Exposed') /\ Cardinality(Exposed') \in Nat
          /\ Cardinality(Exposed \cup {s}) \in Nat
          /\ Cardinality(Exposed') <= Cardinality(Exposed \cup {s})
      BY <2>3, <2>4, FS_Subset, FS_CardinalityType
    <2>6. Cardinality(Exposed) < MaxRisk
      BY <2>2 DEF Room
    <2> QED BY <1>0, <2>2, <2>4, <2>5, <2>6 DEF Room
  <1> QED BY <1>1, <1>2

\* With an enforced budget, and the worker alive to read and save every
\* answer, the symbols exposed at the exchange never exceed the budget.
THEOREM ExposureStaysWithinBudget ==
    ASSUME Answered
    PROVE  Spec => []ExposureWithinBudget
  <1>1. "resting" \notin Faults
    BY DEF Answered
  <1>2. CASE Enforced
    <2>1. ASSUME TInv, EInv, FInv, Receipted, Room, [Next]_vars
          PROVE  Receipted' /\ Room'
      BY <1>2, <2>1, NextReceipted, NextRoom
    <2>2. Room => ExposureWithinBudget
      BY DEF Room, ExposureWithinBudget, Exposed
    <2>3. Spec => []FInv
      BY <1>1, ExposureHolds
    <2> QED BY <2>1, <2>2, <2>3, InitBudget, EvidenceHolds, PTL DEF Spec
  <1>3. CASE ~ Enforced
    <2>1. ExposureWithinBudget
      BY <1>3 DEF ExposureWithinBudget
    <2> QED BY <2>1, PTL
  <1> QED BY <1>2, <1>3
=============================================================================
