-------------------------- MODULE ManualSyncProofs --------------------------
(***************************************************************************)
(* Proofs about ManualSync, for any number of requests, members, artists   *)
(* and processes.                                                          *)
(***************************************************************************)
EXTENDS ManualSync, FiniteSetTheorems, WellFoundedInduction, TLAPS

LEMMA AheadIsCounted ==
  ASSUME ConstantsAssumption, NEW i \in Ids
  PROVE  Cardinality(Ahead(i)) \in Nat
<1>1. IsFiniteSet(Ids) /\ Ahead(i) \subseteq Ids
  BY FS_Interval DEF ConstantsAssumption, Ids, Ahead, Eligible
<1> QED BY <1>1, FS_Subset, FS_CardinalityType

\* A claim takes rows under way, and none of them from a process at work.
LEMMA ChosenAreOpen ==
  \A i \in Chosen : i \in Ids /\ status[i] \in Open
BY DEF Chosen, Eligible, Open

LEMMA InitInv == ASSUME ConstantsAssumption PROVE Init => IInv
<1> SUFFICES ASSUME Init PROVE IInv OBVIOUS
<1>1. TypeOK
  BY DEF Init, TypeOK, ConstantsAssumption, Ids, Open, Settled, Targets,
         NoPlaces, NoAsked
<1>2. OneOpenPerTarget
  BY DEF Init, OneOpenPerTarget, Open, ConstantsAssumption
<1>3. OwnedIsRunning /\ OwnedIsAsked
  BY DEF Init, OwnedIsRunning, OwnedIsAsked, ConstantsAssumption
<1>4. WorkedOnIsInBatch /\ SettledHasResult
  BY DEF Init, WorkedOnIsInBatch, SettledHasResult
<1> QED BY <1>1, <1>2, <1>3, <1>4 DEF IInv

-----------------------------------------------------------------------------
(* The updates that several actions share.                                 *)

LEMMA RemoveKeeps ==
  ASSUME ConstantsAssumption, IInv, NEW S \in SUBSET Ids, Remove(S),
         UNCHANGED taskVars, users' \subseteq users
  PROVE  IInv'
<1>1. TypeOK'
  BY DEF Remove, IInv, TypeOK, taskVars
<1>2. OneOpenPerTarget'
  BY DEF Remove, IInv, TypeOK, OneOpenPerTarget, Open
<1>3. OwnedIsRunning' /\ OwnedIsAsked'
  BY DEF Remove, IInv, TypeOK, OwnedIsRunning, OwnedIsAsked, taskVars, ConstantsAssumption
<1>4. WorkedOnIsInBatch' /\ SettledHasResult'
  BY DEF IInv, WorkedOnIsInBatch, SettledHasResult, taskVars, InBatch
<1> QED BY <1>1, <1>2, <1>3, <1>4 DEF IInv

LEMMA ClearKeepsRows ==
  ASSUME ConstantsAssumption, IInv, ClearExpiredRequests
  PROVE  /\ status' \in [Ids -> Open \cup Settled \cup {"absent"}]
         /\ by' \in [Ids -> Members \cup {None}]
         /\ target' \in [Ids -> Targets \cup {None}]
         /\ owner' \in [Ids -> Runners \cup {None}]
         /\ lease' \in [Ids -> 0..Lease]
         /\ OneOpenPerTarget' /\ OwnedIsRunning'
         /\ \A i \in Ids : owner'[i] \in {owner[i], None} /\ target'[i] = target[i]
<1>1. /\ status' \in [Ids -> Open \cup Settled \cup {"absent"}]
      /\ owner' \in [Ids -> Runners \cup {None}]
      /\ \A i \in Ids : status'[i] \in Open <=> status[i] \in Open
  BY DEF ClearExpiredRequests, Requeued, IInv, TypeOK, Open
<1>2. /\ by' \in [Ids -> Members \cup {None}]
      /\ target' \in [Ids -> Targets \cup {None}]
      /\ lease' \in [Ids -> 0..Lease]
  BY DEF ClearExpiredRequests, IInv, TypeOK
<1>3. \A i \in Ids : owner'[i] \in {owner[i], None} /\ target'[i] = target[i]
  BY DEF ClearExpiredRequests, IInv, TypeOK
<1>4. OneOpenPerTarget'
  BY <1>1, <1>3 DEF IInv, OneOpenPerTarget
<1>5. OwnedIsRunning'
  BY DEF ClearExpiredRequests, Requeued, IInv, TypeOK, OwnedIsRunning
<1> QED BY <1>1, <1>2, <1>3, <1>4, <1>5

\* A process that leaves its batch forgets it and touches no row.
LEMMA LeavingKeeps ==
  ASSUME ConstantsAssumption, IInv, NEW r \in Runners, LeaveBatch(r),
         UNCHANGED rowVars, users' = users, cancelled' \subseteq cancelled,
         NEW p \in {"idle", "down"}, phase' = [phase EXCEPT ![r] = p]
  PROVE  IInv'
<1>1. TypeOK'
  BY DEF LeaveBatch, NoPlaces, NoAsked, IInv, TypeOK, rowVars, ConstantsAssumption
<1>2. OneOpenPerTarget' /\ OwnedIsRunning'
  BY DEF IInv, OneOpenPerTarget, OwnedIsRunning, rowVars
<1>3. OwnedIsAsked'
  BY DEF LeaveBatch, NoPlaces, IInv, TypeOK, OwnedIsAsked, rowVars
<1>4. WorkedOnIsInBatch' /\ SettledHasResult'
  BY DEF LeaveBatch, IInv, TypeOK, WorkedOnIsInBatch, SettledHasResult, InBatch
<1> QED BY <1>1, <1>2, <1>3, <1>4 DEF IInv

\* The loop goes on: what is known about the rest of the batch stays true.
LEMMA GoingOnKeeps ==
  ASSUME ConstantsAssumption, IInv, NEW r \in Runners, phase[r] = "settling",
         NextRequest(r), UNCHANGED <<users, cancelled, age, target>>,
         \A i \in Ids : owner'[i] \in {owner[i], None}
  PROVE  /\ OwnedIsAsked' /\ WorkedOnIsInBatch' /\ SettledHasResult'
         /\ phase' \in [Runners -> {"down", "idle", "batch", "working", "settling"}]
         /\ place' \in [Runners -> [Ids -> Nat]]
         /\ asked' \in [Runners -> [Ids -> Targets \cup {None}]]
         /\ item' \in [Runners -> Ids \cup {None}]
         /\ result' \in [Runners -> Settled \cup {None}]
<1>1. item[r] \in Ids
  BY DEF IInv, WorkedOnIsInBatch, InBatch
<1>2. /\ phase' \in [Runners -> {"down", "idle", "batch", "working", "settling"}]
      /\ place' \in [Runners -> [Ids -> Nat]]
      /\ asked' \in [Runners -> [Ids -> Targets \cup {None}]]
      /\ item' \in [Runners -> Ids \cup {None}]
      /\ result' \in [Runners -> Settled \cup {None}]
  BY <1>1 DEF NextRequest, IInv, TypeOK
<1>3. OwnedIsAsked'
  <2> SUFFICES ASSUME NEW q \in Runners, NEW i \in Ids,
                      owner'[i] = q, place'[q][i] # 0
               PROVE  asked'[q][i] = target'[i]
    BY DEF OwnedIsAsked
  <2>1. owner[i] = q
    BY DEF ConstantsAssumption
  <2>2. place[q][i] = place'[q][i] /\ asked[q][i] = asked'[q][i]
    BY <1>1 DEF NextRequest, IInv, TypeOK
  <2> QED BY <2>1, <2>2 DEF IInv, OwnedIsAsked
<1>4. WorkedOnIsInBatch' /\ SettledHasResult'
  <2> SUFFICES ASSUME NEW q \in Runners, phase'[q] \in {"working", "settling"}
               PROVE  item'[q] \in InBatch(q)' /\ (phase'[q] = "settling" => result'[q] \in Settled)
    BY DEF WorkedOnIsInBatch, SettledHasResult
  <2>1. q # r /\ phase'[q] = phase[q]
    BY DEF NextRequest, IInv, TypeOK
  <2>2. item'[q] = item[q] /\ place'[q] = place[q] /\ result'[q] = result[q]
    BY <2>1 DEF NextRequest, IInv, TypeOK
  <2> QED BY <2>1, <2>2 DEF IInv, WorkedOnIsInBatch, SettledHasResult, InBatch
<1> QED BY <1>2, <1>3, <1>4

-----------------------------------------------------------------------------
(* The invariant, action by action.                                        *)

LEMMA CreateKeeps ==
  ASSUME ConstantsAssumption, IInv, NEW m \in Members, NEW t \in Targets,
         CreateManualSyncRequest(m, t)
  PROVE  IInv'
<1> USE DEF CreateManualSyncRequest
<1>1. PICK i \in Ids : /\ NextId(i)
                       /\ status' = [status EXCEPT ![i] = "queued"]
                       /\ by' = [by EXCEPT ![i] = m]
                       /\ target' = [target EXCEPT ![i] = t]
  OBVIOUS
<1>2. status[i] = "absent" /\ owner[i] = None
  <2>1. i \notin Rows
    BY <1>1 DEF NextId, Ids, ConstantsAssumption
  <2>2. status[i] = "absent"
    BY <2>1 DEF Rows
  <2> QED BY <2>2 DEF IInv, OwnedIsRunning
<1>3. TypeOK'
  BY <1>1 DEF IInv, TypeOK, taskVars, Open
<1>4. OneOpenPerTarget'
  BY <1>1 DEF IInv, TypeOK, OneOpenPerTarget, AlreadyOpen
<1>5. OwnedIsRunning' /\ OwnedIsAsked'
  BY <1>1, <1>2 DEF IInv, TypeOK, OwnedIsRunning, OwnedIsAsked, taskVars, ConstantsAssumption
<1>6. WorkedOnIsInBatch' /\ SettledHasResult'
  BY DEF IInv, WorkedOnIsInBatch, SettledHasResult, taskVars, InBatch
<1> QED BY <1>3, <1>4, <1>5, <1>6 DEF IInv

LEMMA ClaimKeeps ==
  ASSUME ConstantsAssumption, IInv, NEW r \in Runners, ClaimManualSyncRequests(r)
  PROVE  IInv'
<1> USE DEF ClaimManualSyncRequests
<1> DEFINE P == [i \in Ids |-> IF i \in Chosen THEN Cardinality(Ahead(i)) + 1 ELSE 0]
           A == [i \in Ids |-> IF i \in Chosen THEN target[i] ELSE None]
<1>1. P \in [Ids -> Nat] /\ A \in [Ids -> Targets \cup {None}]
  <2>1. \A i \in Ids : Cardinality(Ahead(i)) \in Nat
    BY AheadIsCounted
  <2> QED BY <2>1 DEF IInv, TypeOK
<1>2. place' = [place EXCEPT ![r] = P] /\ asked' = [asked EXCEPT ![r] = A]
  OBVIOUS
<1> HIDE DEF P, A
<1>3. TypeOK'
  BY <1>1, <1>2 DEF IInv, TypeOK, Open, ConstantsAssumption
<1>4. OneOpenPerTarget' /\ OwnedIsRunning'
  BY ChosenAreOpen DEF IInv, TypeOK, OneOpenPerTarget, OwnedIsRunning, Open
<1>5. OwnedIsAsked'
  <2> SUFFICES ASSUME NEW q \in Runners, NEW i \in Ids,
                      owner'[i] = q, place'[q][i] # 0
               PROVE  asked'[q][i] = target'[i]
    BY DEF OwnedIsAsked
  <2>1. CASE q = r
    <3>1. P[i] # 0
      BY <1>2, <2>1 DEF IInv, TypeOK
    <3>2. i \in Chosen
      BY <3>1 DEF P
    <3> QED BY <1>2, <2>1, <3>2 DEF A, IInv, TypeOK
  <2>2. CASE q # r
    <3>1. owner[i] = q
      BY <2>2 DEF IInv, TypeOK
    <3> QED BY <1>2, <2>2, <3>1 DEF IInv, TypeOK, OwnedIsAsked
  <2> QED BY <2>1, <2>2
<1>6. WorkedOnIsInBatch' /\ SettledHasResult'
  BY <1>2 DEF IInv, TypeOK, WorkedOnIsInBatch, SettledHasResult, InBatch
<1> QED BY <1>3, <1>4, <1>5, <1>6 DEF IInv

\* Steps of the loop that change neither rows nor what the batch knows.
LEMMA LoopKeeps ==
  ASSUME ConstantsAssumption, IInv, NEW r \in Runners,
         StartRequest(r) \/ SyncReturns(r)
  PROVE  IInv'
<1>1. UNCHANGED <<rowVars, users, cancelled, place, asked, age>>
  BY DEF StartRequest, SyncReturns
<1>2. CASE StartRequest(r)
  <2>1. PICK i \in Ids : IsNext(r, i) /\ item' = [item EXCEPT ![r] = i]
    BY <1>2 DEF StartRequest
  <2>2. TypeOK'
    BY <1>1, <1>2, <2>1 DEF StartRequest, IInv, TypeOK, rowVars
  <2>3. OneOpenPerTarget' /\ OwnedIsRunning' /\ OwnedIsAsked'
    BY <1>1 DEF IInv, OneOpenPerTarget, OwnedIsRunning, OwnedIsAsked, rowVars
  <2>4. WorkedOnIsInBatch' /\ SettledHasResult'
    BY <1>1, <1>2, <2>1 DEF StartRequest, IsNext, IInv, TypeOK, WorkedOnIsInBatch,
       SettledHasResult, InBatch
  <2> QED BY <2>2, <2>3, <2>4 DEF IInv
<1>3. CASE SyncReturns(r)
  <2>2. TypeOK'
    BY <1>1, <1>3 DEF SyncReturns, IInv, TypeOK, rowVars
  <2>3. OneOpenPerTarget' /\ OwnedIsRunning' /\ OwnedIsAsked'
    BY <1>1 DEF IInv, OneOpenPerTarget, OwnedIsRunning, OwnedIsAsked, rowVars
  <2>4. WorkedOnIsInBatch' /\ SettledHasResult'
    BY <1>1, <1>3 DEF SyncReturns, IInv, TypeOK, WorkedOnIsInBatch, SettledHasResult, InBatch
  <2> QED BY <2>2, <2>3, <2>4 DEF IInv
<1> QED BY <1>2, <1>3

LEMMA CompletionKeeps ==
  ASSUME ConstantsAssumption, IInv, NEW r \in Runners,
         CompleteManualSyncRequestOwned(r) \/ CompletionFails(r)
  PROVE  IInv'
<1> DEFINE i == item[r]
<1>1. /\ phase[r] = "settling" /\ NextRequest(r)
      /\ UNCHANGED <<users, cancelled, age>>
      /\ Settle(i, result[r]) \/ UNCHANGED rowVars
  BY DEF CompleteManualSyncRequestOwned, CompletionFails
<1>2. i \in Ids /\ result[r] \in Settled
  BY <1>1 DEF IInv, WorkedOnIsInBatch, SettledHasResult, InBatch
<1> HIDE DEF i
<1>3. /\ status' \in [Ids -> Open \cup Settled \cup {"absent"}]
      /\ by' = by /\ target' = target
      /\ owner' \in [Ids -> Runners \cup {None}]
      /\ lease' \in [Ids -> 0..Lease]
      /\ OneOpenPerTarget' /\ OwnedIsRunning'
      /\ \A j \in Ids : owner'[j] \in {owner[j], None}
  <2>1. CASE Settle(i, result[r])
    BY <1>2, <2>1 DEF Settle, IInv, TypeOK, OneOpenPerTarget, OwnedIsRunning,
       Open, Settled, ConstantsAssumption
  <2>2. CASE UNCHANGED rowVars
    BY <2>2 DEF rowVars, IInv, TypeOK, OneOpenPerTarget, OwnedIsRunning
  <2> QED BY <1>1, <2>1, <2>2
<1>4. /\ OwnedIsAsked' /\ WorkedOnIsInBatch' /\ SettledHasResult'
      /\ phase' \in [Runners -> {"down", "idle", "batch", "working", "settling"}]
      /\ place' \in [Runners -> [Ids -> Nat]]
      /\ asked' \in [Runners -> [Ids -> Targets \cup {None}]]
      /\ item' \in [Runners -> Ids \cup {None}]
      /\ result' \in [Runners -> Settled \cup {None}]
  BY <1>1, <1>3, GoingOnKeeps
<1>5. TypeOK'
  BY <1>1, <1>3, <1>4 DEF IInv, TypeOK
<1> QED BY <1>3, <1>4, <1>5 DEF IInv

LEMMA RecoveryKeeps ==
  ASSUME ConstantsAssumption, IInv,
         RecoverExpiredWork \/ \E r \in Runners : Run(r)
  PROVE  IInv'
<1>1. ClearExpiredRequests /\ UNCHANGED <<users, cancelled, place, asked, item, result, age>>
  BY DEF RecoverExpiredWork, Run, taskVars
<1>2. /\ phase' \in [Runners -> {"down", "idle", "batch", "working", "settling"}]
      /\ \A q \in Runners : phase'[q] \in {phase[q], "idle"}
  <2>1. phase \in [Runners -> {"down", "idle", "batch", "working", "settling"}]
    BY DEF IInv, TypeOK
  <2>2. phase' = phase \/ \E r \in Runners : phase' = [phase EXCEPT ![r] = "idle"]
    BY DEF RecoverExpiredWork, Run, taskVars
  <2> QED BY <2>1, <2>2
<1>3. TypeOK'
  BY <1>1, <1>2, ClearKeepsRows DEF IInv, TypeOK
<1>4. OneOpenPerTarget' /\ OwnedIsRunning'
  BY <1>1, ClearKeepsRows
<1>5. OwnedIsAsked'
  <2>1. \A j \in Ids : owner'[j] \in {owner[j], None} /\ target'[j] = target[j]
    BY <1>1, ClearKeepsRows
  <2> QED BY <1>1, <2>1 DEF IInv, OwnedIsAsked, ConstantsAssumption
<1>6. WorkedOnIsInBatch' /\ SettledHasResult'
  BY <1>1, <1>2 DEF IInv, WorkedOnIsInBatch, SettledHasResult, InBatch
<1> QED BY <1>3, <1>4, <1>5, <1>6 DEF IInv

LEMMA TimeKeeps ==
  ASSUME ConstantsAssumption, IInv,
         Tick \/ \E r \in Runners : Shutdown(r)
  PROVE  IInv'
<1>1. /\ UNCHANGED <<status, by, target, owner, users, phase, place, asked, item, result>>
      /\ cancelled' \subseteq Runners
  BY DEF Tick, Shutdown, rowVars, IInv, TypeOK
<1>2. lease' \in [Ids -> 0..Lease] /\ age' \in [Runners -> 0..LongestBatch]
  <2>1. CASE Tick
    BY <2>1 DEF Tick, IInv, TypeOK, ConstantsAssumption
  <2>2. CASE \E r \in Runners : Shutdown(r)
    BY <2>2 DEF Shutdown, rowVars, IInv, TypeOK
  <2> QED BY <2>1, <2>2
<1>3. TypeOK'
  BY <1>1, <1>2 DEF IInv, TypeOK
<1> QED BY <1>1, <1>3 DEF IInv, OneOpenPerTarget, OwnedIsRunning, OwnedIsAsked,
           WorkedOnIsInBatch, SettledHasResult, InBatch

LEMMA StepInv == ASSUME ConstantsAssumption PROVE IInv /\ [Next]_vars => IInv'
<1> SUFFICES ASSUME IInv, [Next]_vars PROVE IInv' OBVIOUS
<1>1. ASSUME NEW m \in Members, NEW t \in Targets, CreateManualSyncRequest(m, t)
      PROVE  IInv'
  BY <1>1, CreateKeeps
<1>2. ASSUME NEW m \in Members, DeleteUser(m) PROVE IInv'
  <2>1. {i \in Rows : by[i] = m} \in SUBSET Ids
    BY DEF Rows
  <2> QED BY <1>2, <2>1, RemoveKeeps DEF DeleteUser
<1>3. ASSUME PruneExpiredState PROVE IInv'
  <2>1. PICK S \in SUBSET {i \in Ids : status[i] \in Settled} : Remove(S)
    BY <1>3 DEF PruneExpiredState
  <2>2. S \in SUBSET Ids
    BY <2>1
  <2>3. UNCHANGED taskVars /\ users' \subseteq users
    BY <1>3 DEF PruneExpiredState
  <2> QED BY <2>1, <2>2, <2>3, RemoveKeeps
<1>4. ASSUME NEW r \in Runners, BatchEnds(r) \/ SyncInterrupted(r) PROVE IInv'
  <2>1. LeaveBatch(r) /\ UNCHANGED <<rowVars, users, cancelled>>
        /\ phase' = [phase EXCEPT ![r] = "idle"]
    BY <1>4 DEF BatchEnds, SyncInterrupted
  <2> QED BY <2>1, LeavingKeeps
<1>5. ASSUME NEW r \in Runners, Exit(r) \/ Crash(r) PROVE IInv'
  <2>1. LeaveBatch(r) /\ UNCHANGED <<rowVars, users>> /\ cancelled' \subseteq cancelled
        /\ phase' = [phase EXCEPT ![r] = "down"]
    BY <1>5 DEF Exit, Crash, Ends
  <2> QED BY <2>1, LeavingKeeps
<1>6. ASSUME NEW r \in Runners, ManualSyncTask(r) PROVE IInv'
  BY <1>4, <1>6, ClaimKeeps, LoopKeeps, CompletionKeeps DEF ManualSyncTask
<1>7. CASE UNCHANGED vars
  BY <1>7 DEF vars, rowVars, taskVars, IInv, TypeOK, OneOpenPerTarget, OwnedIsRunning,
     OwnedIsAsked, WorkedOnIsInBatch, SettledHasResult, InBatch
<1> QED BY <1>1, <1>2, <1>3, <1>5, <1>6, <1>7, RecoveryKeeps, TimeKeeps DEF Next

\* In every reachable state, whatever the instance, the invariant holds.
THEOREM SyncInvariance == ASSUME ConstantsAssumption PROVE Spec => []IInv
<1>1. Init => IInv
  BY InitInv
<1>2. IInv /\ [Next]_vars => IInv'
  BY StepInv
<1> QED BY <1>1, <1>2, PTL DEF Spec

\* Two requests under way never ask for the same target.
THEOREM OneRequestPerTarget == ASSUME ConstantsAssumption PROVE Spec => []OneOpenPerTarget
<1>1. IInv => OneOpenPerTarget
  BY DEF IInv
<1> QED BY <1>1, SyncInvariance, PTL

\* Type correctness.
THEOREM SyncTypeCorrect == ASSUME ConstantsAssumption PROVE Spec => []TypeOK
<1>1. IInv => TypeOK
  BY DEF IInv
<1> QED BY <1>1, SyncInvariance, PTL

-----------------------------------------------------------------------------
(* What a step may do to the status of a row.                              *)

\* Only the completion of a request its process still owns settles a row, and
\* no step but its removal touches a settled one.
LEMMA StatusMoves ==
  ASSUME ConstantsAssumption, IInv, Next, NEW i \in Ids
  PROVE  \/ status[i] \notin Settled /\ status'[i] \notin Settled
         \/ status'[i] \in {status[i], "absent"}
         \/ \E r \in Runners : /\ phase[r] = "settling" /\ item[r] = i
                               /\ owner[i] = r
<1>1. ASSUME NEW m \in Members, NEW t \in Targets, CreateManualSyncRequest(m, t)
      PROVE  \/ status[i] \notin Settled /\ status'[i] \notin Settled
             \/ status'[i] = status[i]
  <2>1. PICK k \in Ids : NextId(k) /\ status' = [status EXCEPT ![k] = "queued"]
    BY <1>1 DEF CreateManualSyncRequest
  <2>2. status[k] = "absent"
    BY <2>1 DEF NextId, Rows, Ids, ConstantsAssumption
  <2> QED BY <2>1, <2>2 DEF IInv, TypeOK, Settled
<1>2. ASSUME NEW S, Remove(S) PROVE status'[i] \in {status[i], "absent"}
  BY <1>2 DEF Remove, IInv, TypeOK
<1>3. ASSUME ClearExpiredRequests
      PROVE  \/ status[i] \notin Settled /\ status'[i] \notin Settled
             \/ status'[i] = status[i]
  BY <1>3 DEF ClearExpiredRequests, Requeued, IInv, TypeOK, Settled
<1>4. ASSUME NEW r \in Runners, ClaimManualSyncRequests(r)
      PROVE  \/ status[i] \notin Settled /\ status'[i] \notin Settled
             \/ status'[i] = status[i]
  BY <1>4, ChosenAreOpen DEF ClaimManualSyncRequests, IInv, TypeOK, Settled, Open
<1>5. ASSUME NEW r \in Runners, CompleteManualSyncRequestOwned(r)
      PROVE  \/ status'[i] = status[i]
             \/ phase[r] = "settling" /\ item[r] = i /\ owner[i] = r
  BY <1>5 DEF CompleteManualSyncRequestOwned, MayComplete, Settle, rowVars, IInv, TypeOK
<1>6. ASSUME NEW r \in Runners,
             \/ BatchEnds(r) \/ StartRequest(r) \/ SyncReturns(r) \/ SyncInterrupted(r)
             \/ CompletionFails(r) \/ Shutdown(r) \/ Exit(r) \/ Crash(r)
      PROVE  status'[i] = status[i]
  BY <1>6 DEF BatchEnds, StartRequest, SyncReturns, SyncInterrupted, CompletionFails,
     Shutdown, Exit, Crash, Ends, rowVars
<1>7. ASSUME Tick PROVE status'[i] = status[i]
  BY <1>7 DEF Tick
<1>8. ASSUME NEW r \in Runners, ManualSyncTask(r) \/ Run(r) \/ Shutdown(r) \/ Exit(r) \/ Crash(r)
      PROVE  \/ status[i] \notin Settled /\ status'[i] \notin Settled
             \/ status'[i] = status[i]
             \/ phase[r] = "settling" /\ item[r] = i /\ owner[i] = r
  BY <1>3, <1>4, <1>5, <1>6, <1>8 DEF ManualSyncTask, Run
<1>9. ASSUME NEW m \in Members, DeleteUser(m) PROVE status'[i] \in {status[i], "absent"}
  BY <1>2, <1>9 DEF DeleteUser
<1>10. ASSUME PruneExpiredState PROVE status'[i] \in {status[i], "absent"}
  BY <1>2, <1>10 DEF PruneExpiredState
<1>11. ASSUME RecoverExpiredWork
       PROVE  \/ status[i] \notin Settled /\ status'[i] \notin Settled
              \/ status'[i] = status[i]
  BY <1>3, <1>11 DEF RecoverExpiredWork
<1> QED BY <1>1, <1>7, <1>8, <1>9, <1>10, <1>11 DEF Next

\* A recorded result is never overwritten: the process that could still do it
\* no longer owns the row, because only running rows are owned.
THEOREM SettledOnce == ASSUME ConstantsAssumption PROVE Spec => SettlesOnce
<1>1. ASSUME IInv, [Next]_vars PROVE [KeepsSettled]_vars
  <2> SUFFICES ASSUME Next, NEW i \in Ids, status[i] \in Settled
               PROVE  status'[i] \in {status[i], "absent"}
    BY <1>1 DEF KeepsSettled
  <2>1. \A r \in Runners : owner[i] # r
    BY <1>1 DEF IInv, OwnedIsRunning, Settled, ConstantsAssumption
  <2> QED BY <1>1, <2>1, StatusMoves
<1> QED BY <1>1, SyncInvariance, PTL DEF Spec, SettlesOnce

\* A request is settled only by work on its own target, even when its number
\* was given to another request while a worker remembered it.
THEOREM ServedAsAsked == ASSUME ConstantsAssumption PROVE Spec => ServesWhatWasAsked
<1>1. ASSUME IInv, [Next]_vars PROVE [SettlesAsAsked]_vars
  <2> SUFFICES ASSUME Next, NEW i \in Ids, status[i] \in Open, status'[i] \in Settled
               PROVE  \E r \in Runners : item[r] = i /\ asked[r][i] = target[i]
    BY <1>1 DEF SettlesAsAsked
  <2>1. status'[i] \notin {status[i], "absent"}
    BY DEF Open, Settled
  <2>2. PICK r \in Runners : phase[r] = "settling" /\ item[r] = i /\ owner[i] = r
    BY <1>1, <2>1, StatusMoves
  <2>3. place[r][i] # 0
    BY <1>1, <2>2 DEF IInv, WorkedOnIsInBatch, InBatch
  <2> QED BY <1>1, <2>2, <2>3 DEF IInv, OwnedIsAsked
<1> QED BY <1>1, SyncInvariance, PTL DEF Spec, ServesWhatWasAsked

-----------------------------------------------------------------------------
(* A claim takes turns.                                                    *)

LEMMA LeastThereIs ==
  ASSUME NEW M, M \subseteq Nat, M # {}
  PROVE  \E i \in M : \A j \in M : i <= j
<1> DEFINE R == {p \in Nat \X Nat : p[1] < p[2]}
<1>1. IsWellFoundedOn(R, Nat)
  BY NatLessThanWellFounded DEF OpToRel
<1>2. PICK i \in M : \A j \in M : <<j, i>> \notin R
  <2> HIDE DEF R
  <2> QED BY <1>1, WFMin
<1>3. ASSUME NEW j \in M
      PROVE  i <= j
  <2>1. i \in Nat /\ j \in Nat /\ (j < i => <<j, i>> \in R)
    OBVIOUS
  <2> HIDE DEF R
  <2> QED BY <1>2, <2>1
<1> QED BY <1>3

LEMMA EligibleAreFew ==
  ASSUME ConstantsAssumption
  PROVE  /\ Eligible \subseteq Ids /\ Ids \subseteq Nat
         /\ \A S : S \subseteq Eligible => IsFiniteSet(S) /\ Cardinality(S) \in Nat
<1>1. IsFiniteSet(Ids) /\ Eligible \subseteq Ids /\ Ids \subseteq Nat
  BY FS_Interval DEF ConstantsAssumption, Ids, Eligible
<1>2. ASSUME NEW S, S \subseteq Eligible
      PROVE  IsFiniteSet(S) /\ Cardinality(S) \in Nat
  BY <1>1, <1>2, FS_Subset, FS_CardinalityType
<1> QED BY <1>1, <1>2

\* A request counts itself, and a later one of the same member counts both.
LEMMA RanksCount ==
  ASSUME ConstantsAssumption, NEW j \in Eligible
  PROVE  /\ OwnerRank(j) \in Nat /\ OwnerRank(j) >= 1
         /\ \A i \in Eligible : by[i] = by[j] /\ i < j => OwnerRank(j) >= 2
         /\ (\A i \in Eligible : by[i] = by[j] => j <= i) => OwnerRank(j) = 1
<1> DEFINE S == {i \in Eligible : by[i] = by[j] /\ i <= j}
<1>1. j \in Nat /\ IsFiniteSet(S) /\ OwnerRank(j) = Cardinality(S) /\ Cardinality(S) \in Nat
  BY EligibleAreFew DEF OwnerRank
<1>2. j \in S
  BY <1>1
<1>3. {j} \in SUBSET S /\ Cardinality({j}) = 1
  BY <1>2, FS_Singleton
<1>4. Cardinality(S) >= 1
  <2> HIDE DEF S
  <2>1. Cardinality({j}) <= Cardinality(S)
    BY <1>1, <1>3, FS_Subset
  <2> QED BY <1>1, <1>3, <2>1
<1>5. ASSUME NEW i \in Eligible, by[i] = by[j], i < j
      PROVE  Cardinality(S) >= 2
  <2>1. i \in Nat /\ i # j /\ i \in S
    BY <1>1, <1>5, EligibleAreFew
  <2>2. Cardinality({i, j}) = 2
    <3>1. {i, j} = {i} \cup {j} /\ j \notin {i}
      BY <2>1
    <3>2. Cardinality({i} \cup {j}) = Cardinality({i}) + 1
      BY <3>1, FS_Singleton, FS_AddElement
    <3> QED BY <3>1, <3>2, FS_Singleton
  <2>3. {i, j} \in SUBSET S
    BY <1>2, <2>1
  <2> HIDE DEF S
  <2>4. Cardinality({i, j}) <= Cardinality(S)
    BY <1>1, <2>3, FS_Subset
  <2> QED BY <1>1, <2>2, <2>4
<1>6. ASSUME \A i \in Eligible : by[i] = by[j] => j <= i
      PROVE  Cardinality(S) = 1
  <2>1. ASSUME NEW i \in S
        PROVE  i = j
    <3>1. i \in Nat /\ i <= j /\ j <= i
      BY <1>6, EligibleAreFew
    <3> QED BY <1>1, <3>1
  <2>2. S = {j}
    BY <1>2, <2>1
  <2> QED BY <2>2, FS_Singleton
<1> QED BY <1>1, <1>4, <1>5, <1>6

\* A member's first request comes before any second one, so that whatever is ahead
\* of it is ahead of those.
LEMMA FirstsGoFirst ==
  ASSUME ConstantsAssumption, NEW i \in Chosen, NEW j \in Chosen, by[i] = by[j], i # j, NEW k \in Eligible
  PROVE  \E c \in Chosen : by[c] = by[k]
<1>1. i \in Eligible /\ j \in Eligible /\ i \in Nat /\ j \in Nat
  BY EligibleAreFew DEF Chosen
<1>2. PICK l \in Chosen : l \in Eligible /\ OwnerRank(l) >= 2
  <2>1. CASE i < j
    BY <1>1, <2>1, RanksCount
  <2>2. CASE j < i
    BY <1>1, <2>2, RanksCount
  <2> QED BY <1>1, <2>1, <2>2
<1> DEFINE M == {e \in Eligible : by[e] = by[k]}
<1>3. PICK c \in M : \A e \in M : c <= e
  <2>1. M \subseteq Nat /\ M # {}
    BY EligibleAreFew
  <2> HIDE DEF M
  <2> QED BY <2>1, LeastThereIs
<1>4. c \in Eligible /\ by[c] = by[k] /\ OwnerRank(c) = 1
  BY <1>3, RanksCount
<1>5. Ahead(c) \subseteq Ahead(l)
  <2> SUFFICES ASSUME NEW e \in Eligible, Before(e, c)
               PROVE  Before(e, l)
    BY DEF Ahead
  <2>1. OwnerRank(e) \in Nat /\ OwnerRank(e) >= 1 /\ OwnerRank(l) \in Nat
    BY <1>2, RanksCount
  <2>2. OwnerRank(e) = 1
    BY <1>4, <2>1 DEF Before
  <2> QED BY <1>2, <2>1, <2>2 DEF Before
<1>6. /\ IsFiniteSet(Ahead(l)) /\ Cardinality(Ahead(l)) \in Nat /\ Cardinality(Ahead(c)) \in Nat
      /\ Cardinality(Ahead(c)) <= Cardinality(Ahead(l))
  <2>1. Ahead(l) \subseteq Eligible /\ Ahead(c) \subseteq Eligible
    BY DEF Ahead
  <2> QED BY <1>5, <2>1, EligibleAreFew, FS_Subset
<1>7. Cardinality(Ahead(l)) < BatchLimit /\ BatchLimit \in Nat
  BY DEF Chosen, ConstantsAssumption
<1>8. c \in Chosen
  BY <1>4, <1>6, <1>7 DEF Chosen
<1> QED BY <1>4, <1>8

\* No claim takes a second request of a member while another member who has one
\* waiting goes without, whatever the requests, members and size of the batch.
THEOREM FairClaims == ASSUME ConstantsAssumption PROVE Spec => ClaimsAreFair
<1>1. [Next]_vars =>
        [\A r \in Runners : ClaimManualSyncRequests(r) =>
           \A i, j \in Chosen : by[i] = by[j] /\ i # j =>
             \A k \in Eligible : \E c \in Chosen : by[c] = by[k]]_vars
  BY FirstsGoFirst
<1> QED BY <1>1, PTL DEF Spec, ClaimsAreFair
=============================================================================
