--------------------------- MODULE DeliveryProofs ---------------------------
(***************************************************************************)
(* Theorems about Delivery, for every number of rows, destinations and     *)
(* processes and every value of the delays. The inductive invariant is     *)
(* IInv; it is proved in two parts, what the database says (StoreInv) and  *)
(* what the delivery tasks know (TaskInv), one lemma per kind of           *)
(* transition and one case per action. The last section shows that the     *)
(* queues implement Outbox.                                                *)
(***************************************************************************)
EXTENDS Delivery, TLAPS

(* Facts about the helpers.                                                *)

\* A delay counted from the start of a batch is no longer than the delay.
LEMMA AfterBatchStartBound ==
  ASSUME TasksTypeOK, ConstantsAssumption, NEW r \in Runners, NEW t \in 0..Horizon
  PROVE  AfterBatchStart(r, t) \in 0..Horizon
BY DEF TasksTypeOK, ConstantsAssumption, AfterBatchStart

\* Time left only runs down.
LEMMA DecBound ==
  ASSUME NEW n \in Nat, NEW t \in 0..n
  PROVE  Dec(t) \in 0..n
BY DEF Dec

\* The pause a row is deferred to is a real one.
LEMMA DeferToBound ==
  ASSUME MembersTypeOK, ConstantsAssumption, NEW x \in Rows, Deferred(x)
  PROVE  DeferTo(x) \in 0..Horizon
BY DEF MembersTypeOK, ConstantsAssumption, Deferred, DeferTo, IsDigest

\* The history of accepted messages only grows.
LEMMA AcceptGrows ==
  ASSUME SendersTypeOK, NEW S \in SUBSET Rows, Accept(S)
  PROVE  /\ accepted' \in [Rows -> 0..AcceptCap]
         /\ \A x \in S : accepted'[x] > 0
         /\ \A x \in Rows : accepted[x] > 0 => accepted'[x] > 0
BY DEF SendersTypeOK, Accept, AcceptCap

-----------------------------------------------------------------------------
(* The invariant, split by the state it is about: the database, and the     *)
(* delivery tasks.                                                         *)
StoreInv ==
  /\ RowsTypeOK /\ HealthTypeOK /\ OwnedIsPending /\ AbsentIsFresh
  /\ RunsFanOutWhole /\ PausedHasNoRunnableWork /\ BlockedHasAReason
  /\ CircuitAgreesWithStreak /\ AttemptBudget /\ SentRunIsComplete
TaskInv ==
  /\ TasksTypeOK /\ SendersTypeOK /\ TriedWithinBudget /\ AcceptedWhenReported
  /\ BatchIsKnown

\* No transition turns a row back into one that was never inserted.
RowsStayKnown == \A x \in Rows : status[x] # "absent" => status'[x] # "absent"

\* A step that leaves the database alone keeps what is known of it.
LEMMA StoreStutters ==
  ASSUME StoreInv, UNCHANGED <<rowVars, healthVars, runStatus>>
  PROVE  StoreInv' /\ RowsStayKnown
<1>1. RowsTypeOK' /\ HealthTypeOK' /\ CircuitAgreesWithStreak' /\ OwnedIsPending'
  BY DEF StoreInv, RowsTypeOK, HealthTypeOK, CircuitAgreesWithStreak,
         OwnedIsPending, rowVars, healthVars
<1>2. /\ AbsentIsFresh' /\ RunsFanOutWhole' /\ PausedHasNoRunnableWork'
      /\ BlockedHasAReason' /\ AttemptBudget' /\ SentRunIsComplete'
      /\ RowsStayKnown
  BY DEF StoreInv, AbsentIsFresh, RunsFanOutWhole, PausedHasNoRunnableWork,
         BlockedHasAReason, AttemptBudget, SentRunIsComplete, RowsStayKnown,
         rowVars, healthVars
<1> QED BY <1>1, <1>2 DEF StoreInv

\* SettleRun reports a run sent only when all its rows were.
LEMMA SettleKeeps ==
  ASSUME RowsTypeOK, RunsFanOutWhole, SentRunIsComplete, NEW x \in Rows,
         status[x] \in Open, NEW s \in Statuses \ {"absent"},
         status' = [status EXCEPT ![x] = s], SettleRun(x, status')
  PROVE  SentRunIsComplete'
<1>1. \/ UNCHANGED runStatus
      \/ /\ IsDigest(x)
         /\ \A y \in Rows : GroupOf[y] = GroupOf[x] => status'[y] \notin Open
         /\ runStatus' = [runStatus EXCEPT ![GroupOf[x]] =
              IF \E y \in Rows : GroupOf[y] = GroupOf[x] /\ status'[y] = "failed"
              THEN "failed" ELSE "sent"]
  BY DEF SettleRun
<1> SUFFICES ASSUME NEW y \in Rows, IsDigest(y), runStatus'[GroupOf[y]] = "sent"
             PROVE  status'[y] \in {"sent", "gone"}
  BY DEF SentRunIsComplete
<1>2. CASE runStatus[GroupOf[y]] = "sent"
  <2>1. status[y] \in {"sent", "gone"} /\ y # x
    BY <1>2 DEF SentRunIsComplete, Open
  <2> QED BY <2>1 DEF RowsTypeOK
<1>3. CASE runStatus[GroupOf[y]] # "sent"
  <2>1. /\ GroupOf[y] = GroupOf[x]
        /\ \A z \in Rows : GroupOf[z] = GroupOf[x] =>
             status'[z] \notin Open \cup {"failed"}
    BY <1>1, <1>3 DEF RowsTypeOK, IsDigest
  <2>2. status'[y] # "absent"
    BY <2>1 DEF RowsTypeOK, RunsFanOutWhole, Open
  <2>3. status'[y] \in Statuses
    BY DEF RowsTypeOK
  <2> QED BY <2>1, <2>2, <2>3 DEF Statuses, Open
<1> QED BY <1>2, <1>3

\* An open row that becomes sent, alone or as the last of its digest run.
LEMMA BecomeSentKeeps ==
  ASSUME StoreInv, ConstantsAssumption, NEW x \in Rows, status[x] \in Open,
         BecomeSent(x), UNCHANGED healthVars
  PROVE  StoreInv' /\ RowsStayKnown
<1> USE DEF StoreInv, RowsTypeOK, Open
<1>1. /\ status' = [status EXCEPT ![x] = "sent"]
      /\ attempts' = [attempts EXCEPT ![x] = attempts[x] + 1]
      /\ Unclaim({x}) /\ SettleRun(x, status')
      /\ UNCHANGED <<wait, healthVars>>
  BY DEF BecomeSent
<1>2. owner' \in [Rows -> Runners \cup {None}] /\ lease' \in [Rows -> 0..Lease]
  BY <1>1, ConstantsAssumption DEF Unclaim, ConstantsAssumption
<1>3. attempts' \in [Rows -> 0..MaxAttempts]
  BY <1>1, ConstantsAssumption DEF AttemptBudget, ConstantsAssumption
<1>5. runStatus' \in [Runs -> {"none", "pending", "sent", "failed"}]
  BY <1>1 DEF SettleRun, IsDigest
<1>6. RowsTypeOK'
  BY <1>1, <1>2, <1>3, <1>5 DEF Statuses
<1>7. OwnedIsPending'
  BY <1>1 DEF OwnedIsPending, Unclaim
<1>8. HealthTypeOK' /\ CircuitAgreesWithStreak'
  BY <1>1 DEF HealthTypeOK, CircuitAgreesWithStreak, healthVars
<1>9. /\ PausedHasNoRunnableWork' /\ BlockedHasAReason' /\ AttemptBudget'
      /\ AbsentIsFresh' /\ RunsFanOutWhole' /\ RowsStayKnown
  BY <1>1 DEF PausedHasNoRunnableWork, BlockedHasAReason, AttemptBudget,
              AbsentIsFresh, RunsFanOutWhole, RowsStayKnown, healthVars
<1>10. SentRunIsComplete'
  BY <1>1, SettleKeeps DEF Statuses
<1> QED BY <1>6, <1>7, <1>8, <1>9, <1>10

\* A success closes no circuit and touches no row.
LEMMA RecordSuccessKeeps ==
  ASSUME StoreInv, ConstantsAssumption, NEW d \in Dests, RecordSuccess(d),
         UNCHANGED <<rowVars, runStatus>>
  PROVE  StoreInv' /\ RowsStayKnown
<1>1. CASE health[d] = "paused"
  BY <1>1, StoreStutters DEF RecordSuccess
<1>2. CASE health[d] # "paused"
  <2>1. /\ health' = [health EXCEPT ![d] = "healthy"]
        /\ streak' = [streak EXCEPT ![d] = 0]
        /\ cooldown' = [cooldown EXCEPT ![d] = 0]
    BY <1>2 DEF RecordSuccess
  <2>2. HealthTypeOK' /\ CircuitAgreesWithStreak'
    BY <2>1, ConstantsAssumption
    DEF StoreInv, HealthTypeOK, CircuitAgreesWithStreak, ConstantsAssumption
  <2>3. /\ RowsTypeOK' /\ OwnedIsPending' /\ AbsentIsFresh' /\ RunsFanOutWhole'
        /\ AttemptBudget' /\ SentRunIsComplete' /\ RowsStayKnown
    BY DEF StoreInv, RowsTypeOK, OwnedIsPending, AbsentIsFresh, RunsFanOutWhole,
           AttemptBudget, SentRunIsComplete, RowsStayKnown, rowVars
  <2>4. PausedHasNoRunnableWork' /\ BlockedHasAReason'
    BY <1>2, <2>1, ConstantsAssumption
    DEF StoreInv, HealthTypeOK, PausedHasNoRunnableWork, BlockedHasAReason,
        rowVars, ConstantsAssumption
  <2> QED BY <2>2, <2>3, <2>4 DEF StoreInv
<1> QED BY <1>1, <1>2

\* A failure pauses the destination only together with its runnable rows.
LEMMA RecordFailureKeeps ==
  ASSUME StoreInv, ConstantsAssumption, NEW d \in Dests, NEW t \in 0..Horizon,
         RecordFailure(d, t), UNCHANGED runStatus
  PROVE  StoreInv' /\ RowsStayKnown
<1> DEFINE stopped == {x \in Rows : /\ streak[d] + 1 >= PauseAt
                                    /\ DestOf[x] = d /\ status[x] = "pending"}
<1>1. /\ streak' = [streak EXCEPT ![d] = streak[d] + 1]
      /\ health' = [health EXCEPT ![d] =
                      IF streak[d] + 1 >= PauseAt THEN "paused" ELSE "degraded"]
      /\ cooldown' = [cooldown EXCEPT ![d] = t]
      /\ status' = [x \in Rows |-> IF x \in stopped THEN "blocked" ELSE status[x]]
      /\ owner' = [x \in Rows |-> IF x \in stopped THEN None ELSE owner[x]]
      /\ lease' = [x \in Rows |-> IF x \in stopped THEN 0 ELSE lease[x]]
      /\ UNCHANGED <<attempts, wait>>
  BY DEF RecordFailure, Runnable, Unclaim, StoreInv, HealthTypeOK
<1>2. RowsTypeOK'
  BY <1>1, ConstantsAssumption DEF StoreInv, RowsTypeOK, Statuses, ConstantsAssumption
<1>3. HealthTypeOK' /\ CircuitAgreesWithStreak'
  BY <1>1, ConstantsAssumption
  DEF StoreInv, HealthTypeOK, CircuitAgreesWithStreak, ConstantsAssumption
<1>4. /\ OwnedIsPending' /\ AbsentIsFresh' /\ RunsFanOutWhole' /\ AttemptBudget'
      /\ RowsStayKnown
  BY <1>1 DEF StoreInv, OwnedIsPending, AbsentIsFresh, RunsFanOutWhole,
              AttemptBudget, RowsStayKnown, Open
<1>5. SentRunIsComplete'
  BY <1>1 DEF StoreInv, SentRunIsComplete
<1>6. PausedHasNoRunnableWork'
  <2> SUFFICES ASSUME NEW x \in Rows, status'[x] = "pending"
               PROVE  health'[DestOf[x]] # "paused"
    BY DEF PausedHasNoRunnableWork
  <2>1. status[x] = "pending" /\ x \notin stopped
    BY <1>1
  <2>2. health[DestOf[x]] # "paused"
    BY <2>1 DEF StoreInv, PausedHasNoRunnableWork
  <2> QED BY <1>1, <2>1, <2>2, ConstantsAssumption
          DEF StoreInv, HealthTypeOK, ConstantsAssumption
<1>7. BlockedHasAReason'
  <2> SUFFICES ASSUME NEW x \in Rows \ Legacy, status'[x] = "blocked",
                      DestOf[x] \in Supported
               PROVE  health'[DestOf[x]] = "paused"
    BY DEF BlockedHasAReason
  <2>1. CASE x \in stopped
    BY <1>1, <2>1 DEF StoreInv, HealthTypeOK
  <2>2. CASE x \notin stopped
    <3>1. status[x] = "blocked" /\ health[DestOf[x]] = "paused"
      BY <1>1, <2>2 DEF StoreInv, BlockedHasAReason
    <3>2. DestOf[x] = d => streak[d] >= PauseAt
      BY <3>1 DEF StoreInv, CircuitAgreesWithStreak
    <3> QED BY <1>1, <3>1, <3>2, ConstantsAssumption
            DEF StoreInv, HealthTypeOK, ConstantsAssumption
  <2> QED BY <2>1, <2>2
<1> QED BY <1>2, <1>3, <1>4, <1>5, <1>6, <1>7 DEF StoreInv

\* A worker that moves on with its row, having been let by the provider.
LEMMA GoToKeeps ==
  ASSUME TaskInv, NEW r \in Runners, NEW x \in Rows,
         NEW stage \in Stages \ {"none"}, GoTo(r, x, stage),
         pc[r][x] # "none", RowsStayKnown,
         stage \in {"accepted", "marked", "lost", "finalize"} =>
           pc[r][x] \in {"accepted", "marked", "lost", "finalize"},
         UNCHANGED <<phase, age, sendVars>>
  PROVE  TaskInv'
<1>1. TasksTypeOK' /\ SendersTypeOK'
  BY DEF TaskInv, TasksTypeOK, SendersTypeOK, GoTo, sendVars
<1>2. TriedWithinBudget'
  BY DEF TaskInv, TriedWithinBudget, GoTo
<1>3. AcceptedWhenReported'
  BY DEF TaskInv, TasksTypeOK, AcceptedWhenReported, GoTo, sendVars
<1>4. BatchIsKnown'
  BY DEF TaskInv, TasksTypeOK, BatchIsKnown, RowsStayKnown, GoTo
<1> QED BY <1>1, <1>2, <1>3, <1>4 DEF TaskInv

\* A worker that is done with its row.
LEMMA LeaveKeeps ==
  ASSUME TaskInv, ConstantsAssumption, NEW r \in Runners, NEW x \in Rows,
         Leave(r, x), RowsStayKnown, UNCHANGED <<phase, age, sendVars>>
  PROVE  TaskInv'
<1>1. TasksTypeOK' /\ SendersTypeOK'
  BY ConstantsAssumption DEF TaskInv, TasksTypeOK, SendersTypeOK, Leave, sendVars,
     Stages, ConstantsAssumption
<1>2. TriedWithinBudget'
  BY ConstantsAssumption
  DEF TaskInv, TasksTypeOK, TriedWithinBudget, Leave, ConstantsAssumption
<1>3. AcceptedWhenReported'
  BY DEF TaskInv, TasksTypeOK, AcceptedWhenReported, Leave, sendVars
<1>4. BatchIsKnown'
  BY DEF TaskInv, TasksTypeOK, BatchIsKnown, RowsStayKnown, Leave
<1> QED BY <1>1, <1>2, <1>3, <1>4 DEF TaskInv

\* A step no delivery task takes part in.
LEMMA TasksStutter ==
  ASSUME TaskInv, RowsStayKnown, UNCHANGED <<phase, age, itemVars, sendVars>>
  PROVE  TaskInv'
<1>1. TasksTypeOK' /\ SendersTypeOK' /\ TriedWithinBudget' /\ AcceptedWhenReported'
  BY DEF TaskInv, TasksTypeOK, SendersTypeOK, TriedWithinBudget,
         AcceptedWhenReported, itemVars, sendVars
<1>2. BatchIsKnown'
  BY DEF TaskInv, BatchIsKnown, RowsStayKnown, itemVars
<1> QED BY <1>1, <1>2 DEF TaskInv

\* A step that changes no destination, follow or pause.
LEMMA MembersStutter ==
  ASSUME MembersTypeOK, UNCHANGED memberVars
  PROVE  MembersTypeOK'
BY DEF MembersTypeOK, memberVars

\* The attempt a worker is making is one its row had left.
LEMMA NextTryBound ==
  ASSUME TaskInv, ConstantsAssumption, NEW r \in Runners, NEW x \in Rows
  PROVE  tried[r][x] + 1 \in 1..MaxAttempts
BY ConstantsAssumption
DEF TaskInv, TasksTypeOK, TriedWithinBudget, ConstantsAssumption

\* A worker told to come back later, whatever the sender's limiter learnt.
LEMMA RateLimitedKeeps ==
  ASSUME TaskInv, ConstantsAssumption, NEW r \in Runners, NEW x \in Rows,
         NEW t \in 0..Horizon, RateLimited(r, x, t), pc[r][x] # "none",
         RowsStayKnown, UNCHANGED <<phase, age, accepted>>,
         UNCHANGED <<gate, window>> \/ SendersTypeOK'
  PROVE  TaskInv'
<1>1. AfterBatchStart(r, t) \in 0..Horizon
  BY AfterBatchStartBound DEF TaskInv
<1>2. /\ pc' = [pc EXCEPT ![r][x] = "limited"]
      /\ retryIn' = [retryIn EXCEPT ![r][x] = AfterBatchStart(r, t)]
      /\ UNCHANGED <<tried, recorded>>
  BY DEF RateLimited
<1>3. TasksTypeOK' /\ SendersTypeOK'
  BY <1>1, <1>2 DEF TaskInv, TasksTypeOK, SendersTypeOK, Stages
<1>4. TriedWithinBudget' /\ AcceptedWhenReported'
  BY <1>2 DEF TaskInv, TasksTypeOK, TriedWithinBudget, AcceptedWhenReported
<1>5. BatchIsKnown'
  BY <1>2 DEF TaskInv, TasksTypeOK, BatchIsKnown, RowsStayKnown
<1> QED BY <1>3, <1>4, <1>5 DEF TaskInv

\* A worker whose row the provider accepts.
LEMMA AnswerKeeps ==
  ASSUME TaskInv, NEW r \in Runners, NEW x \in Rows, Accept({x}),
         NEW stage \in Stages \ {"none"}, GoTo(r, x, stage), pc[r][x] # "none",
         RowsStayKnown, UNCHANGED <<phase, age, gate, window>>
  PROVE  TaskInv'
<1>1. /\ accepted' \in [Rows -> 0..AcceptCap]
      /\ accepted'[x] > 0
      /\ \A y \in Rows : accepted[y] > 0 => accepted'[y] > 0
  BY AcceptGrows DEF TaskInv
<1>2. TasksTypeOK' /\ SendersTypeOK'
  BY <1>1 DEF TaskInv, TasksTypeOK, SendersTypeOK, GoTo
<1>3. TriedWithinBudget'
  BY DEF TaskInv, TriedWithinBudget, GoTo
<1>4. AcceptedWhenReported'
  BY <1>1 DEF TaskInv, TasksTypeOK, AcceptedWhenReported, GoTo
<1>5. BatchIsKnown'
  BY DEF TaskInv, TasksTypeOK, BatchIsKnown, RowsStayKnown, GoTo
<1> QED BY <1>2, <1>3, <1>4, <1>5 DEF TaskInv

\* What MarkDeliveryFailedOwned does to the row it owns.
CountFailure(x, n, t) ==
  /\ status' = [status EXCEPT ![x] = RetryStatus(n)]
  /\ attempts' = [attempts EXCEPT ![x] = n]
  /\ wait' = [wait EXCEPT ![x] = t]
  /\ Unclaim({x})
  /\ SettleRun(x, status')

\* A failed attempt keeps the row open with an attempt left, or fails it.
LEMMA CountFailureKeeps ==
  ASSUME StoreInv, ConstantsAssumption, NEW x \in Rows, status[x] = "pending",
         NEW n \in 1..MaxAttempts, NEW t \in 0..Horizon,
         CountFailure(x, n, t), UNCHANGED healthVars
  PROVE  StoreInv' /\ RowsStayKnown
<1> USE DEF StoreInv, RowsTypeOK
<1> MaxAttempts \in Nat /\ Horizon \in Nat /\ Lease \in Nat
  BY ConstantsAssumption DEF ConstantsAssumption
<1>1. /\ status' = [status EXCEPT ![x] = RetryStatus(n)]
      /\ attempts' = [attempts EXCEPT ![x] = n]
      /\ wait' = [wait EXCEPT ![x] = t]
      /\ owner' = [y \in Rows |-> IF y \in {x} THEN None ELSE owner[y]]
      /\ lease' = [y \in Rows |-> IF y \in {x} THEN 0 ELSE lease[y]]
      /\ SettleRun(x, status') /\ UNCHANGED healthVars
  BY DEF CountFailure, Unclaim
<1>2. /\ RetryStatus(n) \in {"pending", "failed"}
      /\ RetryStatus(n) = "pending" => n < MaxAttempts
      /\ RetryStatus(n) = "failed" => n = MaxAttempts
  BY DEF RetryStatus
<1>3. runStatus' \in [Runs -> {"none", "pending", "sent", "failed"}]
  BY <1>1 DEF SettleRun, IsDigest
<1>4. RowsTypeOK'
  BY <1>1, <1>2, <1>3 DEF Statuses
<1>5. OwnedIsPending'
  BY <1>1 DEF OwnedIsPending
<1>6. HealthTypeOK' /\ CircuitAgreesWithStreak'
  BY <1>1 DEF HealthTypeOK, CircuitAgreesWithStreak, healthVars
<1>7. /\ AttemptBudget' /\ AbsentIsFresh' /\ RunsFanOutWhole' /\ RowsStayKnown
  BY <1>1, <1>2 DEF AttemptBudget, AbsentIsFresh, RunsFanOutWhole, RowsStayKnown,
                    Open
<1>8. PausedHasNoRunnableWork' /\ BlockedHasAReason'
  BY <1>1, <1>2 DEF PausedHasNoRunnableWork, BlockedHasAReason, healthVars
<1>9. SentRunIsComplete'
  BY <1>1, <1>2, SettleKeeps DEF Open, Statuses
<1> QED BY <1>4, <1>5, <1>6, <1>7, <1>8, <1>9

Parts == StoreInv /\ TaskInv /\ MembersTypeOK

\* The inductive invariant is the conjunction of its parts.
LEMMA IInvIsParts == IInv <=> Parts
BY DEF IInv, Parts, StoreInv, TaskInv, TypeOK

\* Each call of performDelivery keeps the invariant.
LEMMA DeliverRowKeeps ==
  ASSUME Parts, ConstantsAssumption, NEW r \in Runners, NEW x \in Rows,
         DeliverRow(r, x)
  PROVE  Parts'
<1> USE DEF Parts
<1> DestOf[x] \in Dests
  BY ConstantsAssumption DEF ConstantsAssumption
<1>1. CASE StartDeliveryAttempt(r, x)
  <2>1. UNCHANGED <<rowVars, healthVars, runStatus, memberVars>>
    BY <1>1 DEF StartDeliveryAttempt
  <2>2. /\ pc[r][x] = "queued" /\ pc' = [pc EXCEPT ![r][x] = "pacing"]
        /\ \/ recorded' = [recorded EXCEPT ![r] = recorded[r] \cup {x}]
           \/ UNCHANGED recorded
        /\ UNCHANGED <<phase, age, tried, retryIn, sendVars>>
    BY <1>1 DEF StartDeliveryAttempt
  <2>3. recorded' \in [Runners -> SUBSET Rows]
    <3>1. recorded \in [Runners -> SUBSET Rows] /\ recorded[r] \cup {x} \in SUBSET Rows
      BY DEF TaskInv, TasksTypeOK
    <3> QED BY <2>2, <3>1
  <2>4. TasksTypeOK' /\ SendersTypeOK'
    BY <2>2, <2>3 DEF TaskInv, TasksTypeOK, SendersTypeOK, Stages, sendVars
  <2>5. TriedWithinBudget' /\ AcceptedWhenReported'
    BY <2>2 DEF TaskInv, TasksTypeOK, TriedWithinBudget, AcceptedWhenReported,
                sendVars
  <2>6. BatchIsKnown'
    BY <2>1, <2>2 DEF TaskInv, TasksTypeOK, BatchIsKnown, rowVars
  <2> QED BY <2>1, <2>4, <2>5, <2>6, StoreStutters, MembersStutter DEF TaskInv
<1>2. CASE SkipDelivery(r, x)
  <2>1. /\ UNCHANGED <<rowVars, healthVars, runStatus, memberVars>>
        /\ Leave(r, x) /\ UNCHANGED <<phase, age, sendVars>>
    BY <1>2 DEF SkipDelivery
  <2> QED BY <2>1, LeaveKeeps, StoreStutters, MembersStutter
<1>3. CASE SendRequest(r, x)
  <2>1. /\ UNCHANGED <<rowVars, healthVars, runStatus, memberVars>>
        /\ pc[r][x] = "pacing" /\ GoTo(r, x, "sending")
        /\ UNCHANGED <<phase, age, sendVars>>
    BY <1>3 DEF SendRequest
  <2> QED BY <2>1, GoToKeeps, StoreStutters, MembersStutter DEF Stages
<1>4. CASE SuppressRequest(r, x)
  <2>1. /\ UNCHANGED <<rowVars, healthVars, runStatus, memberVars>>
        /\ pc[r][x] = "pacing" /\ RateLimited(r, x, gate[r][DestOf[x]])
        /\ UNCHANGED <<phase, age, sendVars>>
    BY <1>4 DEF SuppressRequest
  <2>2. gate[r][DestOf[x]] \in 0..Horizon
    BY DEF TaskInv, SendersTypeOK
  <2> QED BY <2>1, <2>2, RateLimitedKeeps, StoreStutters, MembersStutter
          DEF sendVars
<1>5. CASE SendAccepted(r, x)
  <2>1. /\ UNCHANGED <<rowVars, healthVars, runStatus, memberVars>>
        /\ pc[r][x] = "sending" /\ Accept({x}) /\ GoTo(r, x, "accepted")
        /\ UNCHANGED <<phase, age, gate, window>>
    BY <1>5 DEF SendAccepted
  <2> QED BY <2>1, AnswerKeeps, StoreStutters, MembersStutter DEF Stages
<1>6. CASE SendRejected(r, x)
  <2>1. /\ UNCHANGED <<rowVars, healthVars, runStatus, memberVars>>
        /\ pc[r][x] = "sending" /\ GoTo(r, x, "rejected")
        /\ UNCHANGED <<phase, age, sendVars>>
    BY <1>6 DEF SendRejected
  <2> QED BY <2>1, GoToKeeps, StoreStutters, MembersStutter DEF Stages
<1>7. CASE SendRateLimited(r, x)
  <2>1. /\ UNCHANGED <<rowVars, healthVars, runStatus, memberVars>>
        /\ pc[r][x] = "sending" /\ UNCHANGED <<phase, age, accepted>>
    BY <1>7 DEF SendRateLimited
  <2>2. CASE RateLimited(r, x, RateFallback) /\ UNCHANGED <<gate, window>>
    <3>1. RateFallback \in 0..Horizon
      BY ConstantsAssumption DEF ConstantsAssumption
    <3> QED BY <2>1, <2>2, <3>1, RateLimitedKeeps, StoreStutters, MembersStutter
            DEF sendVars
  <2>3. ASSUME NEW delay \in RateDelays, RateLimited(r, x, BoundedRetryAfter(delay)),
               gate' = [gate EXCEPT ![r][DestOf[x]] = LimiterCooldown(@, BoundedRetryAfter(delay))],
               window' = [window EXCEPT ![DestOf[x]] =
                            @ \cup {[left |-> delay, hour |-> LongestCooldown]}]
        PROVE  Parts'
    <3> DEFINE kept == BoundedRetryAfter(delay)
    <3>1. /\ delay \in Nat \ {0} /\ kept \in 0..Horizon
          /\ [left |-> delay, hour |-> LongestCooldown] \in [left : Nat \ {0}, hour : 0..LongestCooldown]
      BY ConstantsAssumption DEF ConstantsAssumption, BoundedRetryAfter
    <3> HIDE DEF kept
    <3>2. gate' \in [Runners -> [Dests -> 0..Horizon]]
      BY <2>3, <3>1 DEF TaskInv, SendersTypeOK, LimiterCooldown, kept
    <3>3. window' \in [Dests -> SUBSET [left : Nat \ {0}, hour : 0..LongestCooldown]]
      BY <2>3, <3>1 DEF TaskInv, SendersTypeOK
    <3>4. SendersTypeOK'
      BY <2>1, <3>2, <3>3 DEF TaskInv, SendersTypeOK
    <3> QED BY <2>1, <2>3, <3>1, <3>4, RateLimitedKeeps, StoreStutters, MembersStutter DEF kept
  <2> QED BY <1>7, <2>2, <2>3 DEF SendRateLimited
<1>8. CASE AbandonSend(r, x)
  <2>1. /\ UNCHANGED <<rowVars, healthVars, runStatus, memberVars>>
        /\ pc[r][x] \in {"pacing", "sending"} /\ GoTo(r, x, "rejected")
        /\ UNCHANGED <<phase, age, gate, window>>
        /\ UNCHANGED accepted \/ Accept({x})
    BY <1>8 DEF AbandonSend
  <2>2. CASE UNCHANGED accepted
    BY <2>1, <2>2, GoToKeeps, StoreStutters, MembersStutter DEF Stages, sendVars
  <2>3. CASE Accept({x})
    BY <2>1, <2>3, AnswerKeeps, StoreStutters, MembersStutter DEF Stages
  <2> QED BY <2>1, <2>2, <2>3
<1>9. CASE DeliveryPanics(r, x)
  <2>1. UNCHANGED <<rowVars, healthVars, runStatus, memberVars>>
    BY <1>9 DEF DeliveryPanics
  <2>2. /\ pc[r][x] = "pacing" /\ pc' = [pc EXCEPT ![r][x] = "rejected"]
        /\ recorded' = [recorded EXCEPT ![r] = recorded[r] \ {x}]
        /\ UNCHANGED <<phase, age, tried, retryIn, sendVars>>
    BY <1>9 DEF DeliveryPanics
  <2>3. recorded' \in [Runners -> SUBSET Rows]
    BY <2>2 DEF TaskInv, TasksTypeOK
  <2>4. TasksTypeOK' /\ SendersTypeOK'
    BY <2>2, <2>3 DEF TaskInv, TasksTypeOK, SendersTypeOK, Stages, sendVars
  <2>5. TriedWithinBudget' /\ AcceptedWhenReported'
    BY <2>2 DEF TaskInv, TasksTypeOK, TriedWithinBudget, AcceptedWhenReported,
                sendVars
  <2>6. BatchIsKnown'
    BY <2>1, <2>2 DEF TaskInv, TasksTypeOK, BatchIsKnown, rowVars
  <2> QED BY <2>1, <2>4, <2>5, <2>6, StoreStutters, MembersStutter DEF TaskInv
<1>10. CASE MarkDeliverySentOwned(r, x)
  <2>1. /\ pc[r][x] = "accepted"
        /\ UNCHANGED <<healthVars, memberVars, phase, age, sendVars>>
        /\ \/ GoTo(r, x, "marked") \/ GoTo(r, x, "lost") \/ Leave(r, x)
        /\ \/ owner[x] = r /\ BecomeSent(x)
           \/ UNCHANGED <<rowVars, runStatus>>
    BY <1>10 DEF MarkDeliverySentOwned
  <2>2. StoreInv' /\ RowsStayKnown
    <3>1. CASE owner[x] = r /\ BecomeSent(x)
      <4>1. status[x] \in Open
        BY <3>1, ConstantsAssumption
        DEF StoreInv, OwnedIsPending, Open, ConstantsAssumption
      <4> QED BY <2>1, <3>1, <4>1, BecomeSentKeeps
    <3>2. CASE UNCHANGED <<rowVars, runStatus>>
      BY <2>1, <3>2, StoreStutters
    <3> QED BY <2>1, <3>1, <3>2
  <2> QED BY <2>1, <2>2, GoToKeeps, LeaveKeeps, MembersStutter DEF Stages
<1>11. CASE FinishSentAttempt(r, x)
  <2>1. /\ pc[r][x] \in {"marked", "lost"}
        /\ UNCHANGED <<rowVars, runStatus, memberVars, phase, age, sendVars>>
        /\ GoTo(r, x, "finalize") \/ Leave(r, x)
        /\ RecordSuccess(DestOf[x]) \/ UNCHANGED healthVars
    BY <1>11 DEF FinishSentAttempt
  <2>2. StoreInv' /\ RowsStayKnown
    BY <2>1, RecordSuccessKeeps, StoreStutters
  <2> QED BY <2>1, <2>2, GoToKeeps, LeaveKeeps, MembersStutter DEF Stages
<1>12. CASE FinalizeDeliverySent(r, x)
  <2>1. /\ Leave(r, x)
        /\ UNCHANGED <<healthVars, memberVars, phase, age, sendVars>>
        /\ \/ status[x] \in Open /\ BecomeSent(x)
           \/ UNCHANGED <<rowVars, runStatus>>
    BY <1>12 DEF FinalizeDeliverySent
  <2>2. StoreInv' /\ RowsStayKnown
    BY <2>1, BecomeSentKeeps, StoreStutters
  <2> QED BY <2>1, <2>2, LeaveKeeps, MembersStutter
<1>13. CASE MarkDeliveryFailedOwned(r, x)
  <2>1. /\ pc[r][x] = "rejected" /\ GoTo(r, x, "counted")
        /\ UNCHANGED <<healthVars, memberVars, phase, age, sendVars>>
        /\ \/ /\ owner[x] = r
              /\ CountFailure(x, tried[r][x] + 1,
                              AfterBatchStart(r, Backoff[tried[r][x] + 1]))
           \/ UNCHANGED <<rowVars, runStatus>>
    BY <1>13 DEF MarkDeliveryFailedOwned, BecomeFailed, CountFailure
  <2>2. tried[r][x] + 1 \in 1..MaxAttempts
    BY ConstantsAssumption, NextTryBound
  <2>3. AfterBatchStart(r, Backoff[tried[r][x] + 1]) \in 0..Horizon
    <3>1. Backoff[tried[r][x] + 1] \in 0..Horizon
      BY <2>2, ConstantsAssumption DEF ConstantsAssumption
    <3> QED BY <3>1, AfterBatchStartBound DEF TaskInv
  <2>4. owner[x] = r => status[x] = "pending"
    BY ConstantsAssumption DEF StoreInv, OwnedIsPending, ConstantsAssumption
  <2>5. StoreInv' /\ RowsStayKnown
    BY <2>1, <2>2, <2>3, <2>4, CountFailureKeeps, StoreStutters
  <2> QED BY <2>1, <2>5, GoToKeeps, MembersStutter DEF Stages
<1>14. CASE FinishFailedAttempt(r, x)
  <2> DEFINE n == tried[r][x] + 1
             retry == IF n < MaxAttempts THEN AfterBatchStart(r, Backoff[n]) ELSE 0
  <2>1. /\ Leave(r, x)
        /\ UNCHANGED <<runStatus, memberVars, phase, age, sendVars>>
        /\ \/ RecordFailure(DestOf[x], retry)
           \/ UNCHANGED <<rowVars, healthVars>>
    BY <1>14 DEF FinishFailedAttempt
  <2>2. n \in 1..MaxAttempts
    BY ConstantsAssumption, NextTryBound
  <2>3. retry \in 0..Horizon
    <3>1. Backoff[n] \in 0..Horizon /\ 0 \in 0..Horizon
      BY <2>2, ConstantsAssumption DEF ConstantsAssumption
    <3> HIDE DEF n
    <3> QED BY <3>1, AfterBatchStartBound DEF TaskInv
  <2> HIDE DEF retry
  <2>4. StoreInv' /\ RowsStayKnown
    BY <2>1, <2>3, RecordFailureKeeps, StoreStutters
  <2> QED BY <2>1, <2>4, LeaveKeeps, MembersStutter
<1>15. CASE FinishDeliveryRateLimitedAttempt(r, x)
  <2>1. /\ pc[r][x] = "limited" /\ GoTo(r, x, "cooling")
        /\ UNCHANGED <<rowVars, runStatus, memberVars, phase, age, sendVars>>
        /\ \/ /\ health' = [health EXCEPT ![DestOf[x]] =
                              IF health[DestOf[x]] = "paused" THEN "paused" ELSE "degraded"]
              /\ cooldown' = [cooldown EXCEPT ![DestOf[x]] = retryIn[r][x]]
              /\ UNCHANGED streak
           \/ UNCHANGED healthVars
    BY <1>15 DEF FinishDeliveryRateLimitedAttempt, StoreInv, HealthTypeOK
  <2>2. HealthTypeOK' /\ CircuitAgreesWithStreak'
    <3>1. retryIn[r][x] \in 0..Horizon
      BY DEF TaskInv, TasksTypeOK
    <3>2. CASE UNCHANGED healthVars
      BY <3>2 DEF StoreInv, HealthTypeOK, CircuitAgreesWithStreak, healthVars
    <3>3. CASE ~UNCHANGED healthVars
      <4>1. HealthTypeOK'
        BY <2>1, <3>1, <3>3 DEF StoreInv, HealthTypeOK
      <4>2. CircuitAgreesWithStreak'
        BY <2>1, <3>3 DEF StoreInv, HealthTypeOK, CircuitAgreesWithStreak
      <4> QED BY <4>1, <4>2
    <3> QED BY <3>2, <3>3
  <2>3. PausedHasNoRunnableWork' /\ BlockedHasAReason'
    BY <2>1, ConstantsAssumption
    DEF StoreInv, HealthTypeOK, PausedHasNoRunnableWork, BlockedHasAReason,
        rowVars, healthVars, ConstantsAssumption
  <2>4. /\ RowsTypeOK' /\ OwnedIsPending' /\ AbsentIsFresh' /\ RunsFanOutWhole'
        /\ AttemptBudget' /\ SentRunIsComplete' /\ RowsStayKnown
    BY <2>1 DEF StoreInv, RowsTypeOK, OwnedIsPending, AbsentIsFresh,
                RunsFanOutWhole, AttemptBudget, SentRunIsComplete,
                RowsStayKnown, rowVars
  <2>5. StoreInv' /\ RowsStayKnown
    BY <2>2, <2>3, <2>4 DEF StoreInv
  <2> QED BY <2>1, <2>5, GoToKeeps, MembersStutter DEF Stages
<1>16. CASE MarkDeliveryRateLimitedOwned(r, x)
  <2>1. /\ Leave(r, x)
        /\ UNCHANGED <<healthVars, runStatus, memberVars, phase, age, sendVars>>
        /\ \/ /\ owner[x] = r
              /\ status' = [status EXCEPT ![x] = "pending"]
              /\ wait' = [wait EXCEPT ![x] = retryIn[r][x]]
              /\ Unclaim({x})
              /\ UNCHANGED attempts
           \/ UNCHANGED rowVars
    BY <1>16 DEF MarkDeliveryRateLimitedOwned
  <2>2. CASE UNCHANGED rowVars
    BY <2>1, <2>2, StoreStutters, LeaveKeeps, MembersStutter
  <2>3. CASE owner[x] = r /\ ~UNCHANGED rowVars
    <3>1. status[x] = "pending"
      BY <2>3, ConstantsAssumption DEF StoreInv, OwnedIsPending, ConstantsAssumption
    <3>2. UNCHANGED status
      BY <2>1, <2>3, <3>1 DEF StoreInv, RowsTypeOK
    <3>3. RowsTypeOK' /\ OwnedIsPending'
      <4>1. retryIn[r][x] \in 0..Horizon /\ 0 \in 0..Lease
        BY ConstantsAssumption DEF TaskInv, TasksTypeOK, ConstantsAssumption
      <4>2. wait' \in [Rows -> 0..Horizon] /\ UNCHANGED <<attempts, runStatus>>
        BY <2>1, <2>3, <4>1 DEF StoreInv, RowsTypeOK
      <4>3. /\ owner' = [y \in Rows |-> IF y \in {x} THEN None ELSE owner[y]]
            /\ lease' = [y \in Rows |-> IF y \in {x} THEN 0 ELSE lease[y]]
        BY <2>1, <2>3 DEF Unclaim
      <4> QED BY <3>2, <4>1, <4>2, <4>3 DEF StoreInv, RowsTypeOK, OwnedIsPending
    <3>4. /\ AbsentIsFresh' /\ RunsFanOutWhole' /\ PausedHasNoRunnableWork'
          /\ BlockedHasAReason' /\ AttemptBudget' /\ SentRunIsComplete'
          /\ HealthTypeOK' /\ CircuitAgreesWithStreak' /\ RowsStayKnown
      BY <2>1, <2>3, <3>2
      DEF StoreInv, AbsentIsFresh, RunsFanOutWhole, PausedHasNoRunnableWork,
          BlockedHasAReason, AttemptBudget, SentRunIsComplete, HealthTypeOK,
          CircuitAgreesWithStreak, RowsStayKnown, healthVars
    <3>5. StoreInv' /\ RowsStayKnown
      BY <3>3, <3>4 DEF StoreInv
    <3> QED BY <2>1, <3>5, LeaveKeeps, MembersStutter
  <2> QED BY <2>1, <2>2, <2>3
<1> QED BY <1>1, <1>2, <1>3, <1>4, <1>5, <1>6, <1>7, <1>8, <1>9, <1>10, <1>11,
           <1>12, <1>13, <1>14, <1>15, <1>16 DEF DeliverRow

\* Inserting the rows of an event or of a digest run.
LEMMA FanOutKeeps ==
  ASSUME StoreInv, MembersTypeOK, ConstantsAssumption, NEW g \in Events \cup Runs,
         FanOut(g), UNCHANGED <<attempts, owner, lease, healthVars>>,
         \/ UNCHANGED runStatus
         \/ g \in Runs /\ runStatus' = [runStatus EXCEPT ![g] = "pending"]
  PROVE  StoreInv' /\ RowsStayKnown
<1> DEFINE new == {x \in Rows : GroupOf[x] = g}
<1>1. /\ \A x \in new : status[x] = "absent"
      /\ status' = [x \in Rows |-> IF x \in new THEN InitialStatus(x) ELSE status[x]]
      /\ wait' = [x \in Rows |-> IF x \in new /\ Deferred(x) THEN DeferTo(x) ELSE wait[x]]
  BY DEF FanOut
<1>2. \A x \in Rows :
        /\ InitialStatus(x) \in {"gone", "blocked", "pending"}
        /\ InitialStatus(x) = "pending" => health[DestOf[x]] # "paused"
        /\ InitialStatus(x) = "blocked" =>
             DestOf[x] \notin Supported \/ health[DestOf[x]] = "paused"
  BY DEF InitialStatus
<1>3. \A x \in Rows : Deferred(x) => DeferTo(x) \in 0..Horizon
  BY DeferToBound
<1> HIDE DEF new
<1>4. RowsTypeOK'
  <2>1. status' \in [Rows -> Statuses]
    BY <1>1, <1>2 DEF StoreInv, RowsTypeOK, Statuses
  <2>2. wait' \in [Rows -> 0..Horizon]
    BY <1>1, <1>3 DEF StoreInv, RowsTypeOK
  <2>3. runStatus' \in [Runs -> {"none", "pending", "sent", "failed"}]
    BY DEF StoreInv, RowsTypeOK
  <2> QED BY <2>1, <2>2, <2>3 DEF StoreInv, RowsTypeOK
<1>5. /\ HealthTypeOK' /\ CircuitAgreesWithStreak' /\ OwnedIsPending'
      /\ AbsentIsFresh' /\ PausedHasNoRunnableWork' /\ BlockedHasAReason'
      /\ RowsStayKnown
  BY <1>1, <1>2 DEF StoreInv, HealthTypeOK, CircuitAgreesWithStreak,
     OwnedIsPending, AbsentIsFresh, PausedHasNoRunnableWork, BlockedHasAReason,
     RowsStayKnown, healthVars
<1>6. AttemptBudget'
  BY <1>1, <1>2, ConstantsAssumption
  DEF StoreInv, AbsentIsFresh, AttemptBudget, Open, ConstantsAssumption
<1>7. RunsFanOutWhole'
  BY <1>1, <1>2 DEF StoreInv, RunsFanOutWhole, new
<1>8. SentRunIsComplete'
  BY <1>1 DEF StoreInv, RowsTypeOK, SentRunIsComplete, IsDigest, new
<1> QED BY <1>4, <1>5, <1>6, <1>7, <1>8 DEF StoreInv

\* QueueEvent and QueueDigest keep the invariant.
LEMMA ProducersKeep ==
  ASSUME Parts, ConstantsAssumption,
         \/ \E e \in Events : QueueEvent(e)
         \/ \E g \in Runs : QueueDigest(g)
  PROVE  Parts'
<1> USE DEF Parts
<1>1. ASSUME NEW e \in Events, QueueEvent(e)
      PROVE  Parts'
  BY <1>1, FanOutKeeps, TasksStutter, MembersStutter DEF QueueEvent
<1>2. ASSUME NEW g \in Runs, QueueDigest(g)
      PROVE  Parts'
  BY <1>2, FanOutKeeps, TasksStutter, MembersStutter DEF QueueDigest
<1> QED BY <1>1, <1>2

\* Clearing claims of rows that keep their status.
LEMMA UnownedKeeps ==
  ASSUME StoreInv, ConstantsAssumption, NEW S \in SUBSET Rows,
         owner' = [x \in Rows |-> IF x \in S THEN None ELSE owner[x]],
         UNCHANGED <<status, attempts, wait, lease, healthVars, runStatus>>
  PROVE  StoreInv' /\ RowsStayKnown
<1>1. RowsTypeOK' /\ HealthTypeOK' /\ CircuitAgreesWithStreak' /\ OwnedIsPending'
  BY DEF StoreInv, RowsTypeOK, HealthTypeOK, CircuitAgreesWithStreak,
         OwnedIsPending, healthVars
<1>2. /\ AbsentIsFresh' /\ RunsFanOutWhole' /\ PausedHasNoRunnableWork'
      /\ BlockedHasAReason' /\ AttemptBudget' /\ SentRunIsComplete'
      /\ RowsStayKnown
  BY DEF StoreInv, AbsentIsFresh, RunsFanOutWhole, PausedHasNoRunnableWork,
         BlockedHasAReason, AttemptBudget, SentRunIsComplete, RowsStayKnown,
         healthVars
<1> QED BY <1>1, <1>2 DEF StoreInv

\* Claiming runnable rows and taking snapshots of them.
LEMMA TakeClaimsKeeps ==
  ASSUME Parts, ConstantsAssumption, NEW r \in Runners, NEW S \in SUBSET Rows,
         \A x \in S : status[x] = "pending", TakeClaims(r, S),
         phase' \in [Runners -> Phases],
         UNCHANGED <<status, attempts, wait, healthVars, runStatus, memberVars,
                     age, recorded, retryIn, sendVars>>
  PROVE  Parts'
<1> USE DEF Parts
<1>1. /\ owner' = [x \in Rows |-> IF x \in S THEN r ELSE owner[x]]
      /\ lease' = [x \in Rows |-> IF x \in S THEN Lease ELSE lease[x]]
      /\ pc' = [pc EXCEPT ![r] = [x \in Rows |-> IF x \in S THEN "queued" ELSE pc[r][x]]]
      /\ tried' = [tried EXCEPT ![r] =
                     [x \in Rows |-> IF x \in S THEN attempts[x] ELSE tried[r][x]]]
  BY DEF TakeClaims
<1>2. owner' \in [Rows -> Runners \cup {None}] /\ lease' \in [Rows -> 0..Lease]
  BY <1>1, ConstantsAssumption DEF StoreInv, RowsTypeOK, ConstantsAssumption
<1>3. RowsTypeOK'
  BY <1>2 DEF StoreInv, RowsTypeOK
<1>4. /\ OwnedIsPending' /\ AbsentIsFresh' /\ RunsFanOutWhole'
      /\ PausedHasNoRunnableWork' /\ BlockedHasAReason' /\ AttemptBudget'
      /\ SentRunIsComplete' /\ HealthTypeOK' /\ CircuitAgreesWithStreak'
  BY <1>1 DEF StoreInv, OwnedIsPending, AbsentIsFresh, RunsFanOutWhole,
     PausedHasNoRunnableWork, BlockedHasAReason, AttemptBudget,
     SentRunIsComplete, HealthTypeOK, CircuitAgreesWithStreak, healthVars
<1>5. TasksTypeOK' /\ SendersTypeOK'
  <2>1. pc' \in [Runners -> [Rows -> Stages]]
    BY <1>1 DEF TaskInv, TasksTypeOK, Stages
  <2>2. tried' \in [Runners -> [Rows -> 0..MaxAttempts]]
    BY <1>1 DEF TaskInv, TasksTypeOK, StoreInv, RowsTypeOK
  <2> QED BY <2>1, <2>2 DEF TaskInv, TasksTypeOK, SendersTypeOK, sendVars
<1>6. TriedWithinBudget'
  BY <1>1 DEF StoreInv, TaskInv, TasksTypeOK, TriedWithinBudget, AttemptBudget, Open
<1>7. AcceptedWhenReported' /\ BatchIsKnown'
  BY <1>1 DEF TaskInv, TasksTypeOK, AcceptedWhenReported, BatchIsKnown, sendVars
<1> QED BY <1>3, <1>4, <1>5, <1>6, <1>7, MembersStutter DEF StoreInv, TaskInv

\* The due readers hand out runnable rows only.
LEMMA ClaimableIsPending ==
  ASSUME NEW limit,
         NEW S \in Claimable(EligibleEvents, limit) \cup Claimable(EligibleDigests, limit)
  PROVE  S \in SUBSET Rows /\ \A x \in S : status[x] = "pending"
BY DEF Claimable, EligibleEvents, EligibleDigests, Eligible

\* A process that only changes its phase, its batch's age or forgets its batch.
LEMMA ProcessKeeps ==
  ASSUME Parts, ConstantsAssumption, NEW r \in Runners,
         phase' \in [Runners -> Phases], age' \in [Runners -> 0..Horizon],
         \/ UNCHANGED <<pc, tried>>
         \/ /\ pc' = [pc EXCEPT ![r] = [x \in Rows |-> "none"]]
            /\ tried' = [tried EXCEPT ![r] = [x \in Rows |-> 0]],
         UNCHANGED <<rowVars, healthVars, runStatus, memberVars, recorded,
                     retryIn, sendVars>>
  PROVE  Parts'
<1> USE DEF Parts
<1>1. CASE UNCHANGED <<pc, tried>>
  <2>1. TaskInv'
    BY <1>1 DEF TaskInv, TasksTypeOK, SendersTypeOK, TriedWithinBudget,
       AcceptedWhenReported, BatchIsKnown, rowVars, sendVars
  <2> QED BY <2>1, StoreStutters, MembersStutter
<1>2. CASE /\ pc' = [pc EXCEPT ![r] = [x \in Rows |-> "none"]]
           /\ tried' = [tried EXCEPT ![r] = [x \in Rows |-> 0]]
  <2>1. TasksTypeOK' /\ SendersTypeOK'
    BY <1>2, ConstantsAssumption
    DEF TaskInv, TasksTypeOK, SendersTypeOK, Stages, sendVars, ConstantsAssumption
  <2>2. TriedWithinBudget' /\ AcceptedWhenReported' /\ BatchIsKnown'
    BY <1>2, ConstantsAssumption
    DEF TaskInv, TasksTypeOK, TriedWithinBudget, AcceptedWhenReported,
        BatchIsKnown, rowVars, sendVars, ConstantsAssumption
  <2> QED BY <2>1, <2>2, StoreStutters, MembersStutter DEF TaskInv
<1> QED BY <1>1, <1>2

\* Each step of a delivery task keeps the invariant.
LEMMA DeliveryTaskKeeps ==
  ASSUME Parts, ConstantsAssumption, NEW r \in Runners, DeliveryTask(r)
  PROVE  Parts'
<1>0. phase \in [Runners -> Phases] /\ age \in [Runners -> 0..Horizon]
  BY DEF Parts, TaskInv, TasksTypeOK
<1>1. CASE ClaimDueDeliveries(r)
  <2>1. PICK S \in Claimable(EligibleEvents, BatchLimit - Reservation) : TakeClaims(r, S)
    BY <1>1 DEF ClaimDueDeliveries
  <2>2. phase' \in [Runners -> Phases]
    BY <1>0, <1>1 DEF ClaimDueDeliveries, Phases
  <2> QED BY <1>1, <2>1, <2>2, ClaimableIsPending, TakeClaimsKeeps
          DEF ClaimDueDeliveries
<1>2. CASE ClaimDueDigestDeliveries(r)
  <2>1. PICK S \in Claimable(EligibleDigests, DigestLimit(Cardinality(InBatch(r)))) :
               TakeClaims(r, S)
    BY <1>2 DEF ClaimDueDigestDeliveries
  <2>2. phase' \in [Runners -> Phases]
    BY <1>0, <1>2 DEF ClaimDueDigestDeliveries, Phases
  <2> QED BY <1>2, <2>1, <2>2, ClaimableIsPending, TakeClaimsKeeps
          DEF ClaimDueDigestDeliveries
<1>3. CASE DigestClaimFails(r)
  <2>1. phase' \in [Runners -> Phases]
    BY <1>0, <1>3 DEF DigestClaimFails, Phases
  <2> QED BY <1>0, <1>3, <2>1, ProcessKeeps DEF DigestClaimFails
<1>4. CASE BatchEnds(r)
  <2>1. phase' \in [Runners -> Phases] /\ age' \in [Runners -> 0..Horizon]
    BY <1>0, <1>4, ConstantsAssumption DEF BatchEnds, Phases, ConstantsAssumption
  <2> QED BY <1>4, <2>1, ProcessKeeps DEF BatchEnds, itemVars
<1>5. ASSUME NEW x \in Rows, DeliverRow(r, x)
      PROVE  Parts'
  BY <1>5, DeliverRowKeeps
<1> QED BY <1>1, <1>2, <1>3, <1>4, <1>5 DEF DeliveryTask

\* Removing rows, or making blocked ones runnable that nothing blocks.
LEMMA MoveRowsKeeps ==
  ASSUME StoreInv, ConstantsAssumption, NEW S \in SUBSET Rows,
         NEW to \in {"gone", "pending"},
         \A x \in S : status[x] # "absent",
         to = "pending" => \A x \in S : /\ status[x] = "blocked"
                                        /\ health[DestOf[x]] # "paused",
         status' = [x \in Rows |-> IF x \in S THEN to ELSE status[x]],
         Unclaim(S), UNCHANGED <<attempts, wait, healthVars, runStatus>>
  PROVE  StoreInv' /\ RowsStayKnown
<1>1. /\ owner' = [x \in Rows |-> IF x \in S THEN None ELSE owner[x]]
      /\ lease' = [x \in Rows |-> IF x \in S THEN 0 ELSE lease[x]]
  BY DEF Unclaim
<1>2. RowsTypeOK'
  BY <1>1, ConstantsAssumption DEF StoreInv, RowsTypeOK, Statuses, ConstantsAssumption
<1>3. /\ HealthTypeOK' /\ CircuitAgreesWithStreak' /\ OwnedIsPending'
      /\ AbsentIsFresh' /\ RunsFanOutWhole' /\ RowsStayKnown
  BY <1>1 DEF StoreInv, HealthTypeOK, CircuitAgreesWithStreak, OwnedIsPending,
     AbsentIsFresh, RunsFanOutWhole, RowsStayKnown, healthVars
<1>4. PausedHasNoRunnableWork' /\ BlockedHasAReason'
  BY DEF StoreInv, PausedHasNoRunnableWork, BlockedHasAReason, healthVars
<1>5. AttemptBudget' /\ SentRunIsComplete'
  BY DEF StoreInv, AttemptBudget, SentRunIsComplete, Open
<1> QED BY <1>2, <1>3, <1>4, <1>5 DEF StoreInv

\* The circuit is closed together with its rows.
LEMMA RetryKeeps ==
  ASSUME StoreInv, MembersTypeOK, ConstantsAssumption, NEW d \in Dests,
         RetryFailedDeliveries(d)
  PROVE  StoreInv' /\ RowsStayKnown
<1> DEFINE rows == {x \in Rows : DestOf[x] = d /\ status[x] \in {"failed", "blocked"}}
<1>1. /\ status' = [x \in Rows |-> IF x \notin rows THEN status[x]
                                   ELSE IF d \in Supported THEN "pending" ELSE "blocked"]
      /\ attempts' = [x \in Rows |-> IF x \in rows THEN 0 ELSE attempts[x]]
      /\ wait' = [x \in Rows |-> IF x \notin rows THEN wait[x]
                                 ELSE IF Deferred(x) THEN DeferTo(x) ELSE 0]
      /\ owner' = [x \in Rows |-> IF x \in rows THEN None ELSE owner[x]]
      /\ lease' = [x \in Rows |-> IF x \in rows THEN 0 ELSE lease[x]]
      /\ health' = [health EXCEPT ![d] = "healthy"]
      /\ streak' = [streak EXCEPT ![d] = 0]
      /\ cooldown' = [cooldown EXCEPT ![d] = 0]
      /\ UNCHANGED runStatus
  BY DEF RetryFailedDeliveries, Retryable, Unclaim
<1>2. \A x \in Rows : Deferred(x) => DeferTo(x) \in 0..Horizon
  BY DeferToBound
<1>3. 0 \in 0..Horizon /\ 0 \in 0..Lease /\ 0 \in 0..MaxAttempts
  BY ConstantsAssumption DEF ConstantsAssumption
<1>4. RowsTypeOK'
  <2>1. status' \in [Rows -> Statuses]
    BY <1>1 DEF StoreInv, RowsTypeOK, Statuses
  <2>2. wait' \in [Rows -> 0..Horizon]
    BY <1>1, <1>2, <1>3 DEF StoreInv, RowsTypeOK
  <2>3. /\ attempts' \in [Rows -> 0..MaxAttempts] /\ lease' \in [Rows -> 0..Lease]
        /\ owner' \in [Rows -> Runners \cup {None}]
    BY <1>1, <1>3 DEF StoreInv, RowsTypeOK
  <2> QED BY <1>1, <2>1, <2>2, <2>3 DEF StoreInv, RowsTypeOK
<1>5. HealthTypeOK' /\ CircuitAgreesWithStreak'
  BY <1>1, <1>3, ConstantsAssumption
  DEF StoreInv, HealthTypeOK, CircuitAgreesWithStreak, ConstantsAssumption
<1>6. OwnedIsPending' /\ AbsentIsFresh' /\ RunsFanOutWhole' /\ RowsStayKnown
  BY <1>1 DEF StoreInv, OwnedIsPending, AbsentIsFresh, RunsFanOutWhole, RowsStayKnown
<1>7. AttemptBudget' /\ SentRunIsComplete'
  BY <1>1, ConstantsAssumption
  DEF StoreInv, AttemptBudget, SentRunIsComplete, Open, ConstantsAssumption
<1>8. PausedHasNoRunnableWork' /\ BlockedHasAReason'
  BY <1>1, ConstantsAssumption
  DEF StoreInv, HealthTypeOK, PausedHasNoRunnableWork, BlockedHasAReason,
      ConstantsAssumption
<1> QED BY <1>4, <1>5, <1>6, <1>7, <1>8 DEF StoreInv

\* What members do keeps the invariant.
LEMMA MembersKeep ==
  ASSUME Parts, ConstantsAssumption, Members
  PROVE  Parts'
<1> USE DEF Parts
<1>1. ASSUME NEW d \in Dests, RetryFailedDeliveries(d)
      PROVE  Parts'
  <2>1. UNCHANGED <<memberVars, phase, age, itemVars, sendVars>>
    BY <1>1 DEF RetryFailedDeliveries, Retryable
  <2> QED BY <1>1, <2>1, RetryKeeps, TasksStutter, MembersStutter
<1>2. ASSUME NEW d \in Dests, DeleteDestination(d)
      PROVE  Parts'
  <2> DEFINE rows == {x \in Rows : DestOf[x] = d /\ status[x] # "absent"}
  <2>1. StoreInv' /\ RowsStayKnown
    BY <1>2, MoveRowsKeeps DEF DeleteDestination
  <2>2. TaskInv'
    BY <1>2, <2>1, TasksStutter DEF DeleteDestination
  <2>3. MembersTypeOK'
    BY <1>2 DEF DeleteDestination, MembersTypeOK
  <2> QED BY <2>1, <2>2, <2>3
<1>3. ASSUME NEW f \in Follows, NEW left \in PauseLengths \cup {0},
             PauseFollowNotificationRule(f, left)
      PROVE  Parts'
  <2>1. left \in 0..Horizon /\ 0 \in 0..Horizon
    BY ConstantsAssumption DEF ConstantsAssumption
  <2>2. \A x \in Rows : Realigned(x, left) \in 0..Horizon
    BY <2>1 DEF Realigned, StoreInv, RowsTypeOK
  <2>3. wait' \in [Rows -> 0..Horizon]
    BY <1>3, <2>2 DEF PauseFollowNotificationRule, StoreInv, RowsTypeOK
  <2>4. StoreInv' /\ RowsStayKnown
    BY <1>3, <2>3 DEF PauseFollowNotificationRule, StoreInv, RowsTypeOK,
       HealthTypeOK, CircuitAgreesWithStreak, OwnedIsPending, AbsentIsFresh,
       RunsFanOutWhole, PausedHasNoRunnableWork, BlockedHasAReason,
       AttemptBudget, SentRunIsComplete, RowsStayKnown, healthVars
  <2>5. TaskInv'
    BY <1>3, <2>4, TasksStutter DEF PauseFollowNotificationRule
  <2>6. MembersTypeOK'
    BY <1>3, <2>1 DEF PauseFollowNotificationRule, MembersTypeOK
  <2> QED BY <2>4, <2>5, <2>6
<1>4. ASSUME NEW f \in Follows, Unfollow(f)
      PROVE  Parts'
  <2>1. /\ Orphans(followed \ {f}) \in SUBSET Rows
        /\ \A x \in Orphans(followed \ {f}) : status[x] # "absent"
    BY DEF Orphans, Open
  <2>2. StoreInv' /\ RowsStayKnown
    BY <1>4, <2>1, MoveRowsKeeps DEF Unfollow, Cancel
  <2>3. TaskInv'
    BY <1>4, <2>2, TasksStutter DEF Unfollow
  <2>4. MembersTypeOK'
    BY <1>4, ConstantsAssumption DEF Unfollow, MembersTypeOK, ConstantsAssumption
  <2> QED BY <2>2, <2>3, <2>4
<1> QED BY <1>1, <1>2, <1>3, <1>4 DEF Members

\* The repairs of a maintenance run keep the invariant.
LEMMA MaintenanceKeeps ==
  ASSUME Parts, ConstantsAssumption, Maintenance
  PROVE  Parts'
<1> USE DEF Parts
<1>1. CASE RecoverExpiredWork
  <2> DEFINE S == {x \in Rows : Expired(x)}
  <2>1. owner' = [x \in Rows |-> IF x \in S THEN None ELSE owner[x]]
    BY <1>1 DEF RecoverExpiredWork, ClearExpiredClaims
  <2>2. S \in SUBSET Rows
    OBVIOUS
  <2>3. UNCHANGED <<status, attempts, wait, lease, healthVars, runStatus,
                    memberVars, phase, age, itemVars, sendVars>>
    BY <1>1 DEF RecoverExpiredWork
  <2> HIDE DEF S
  <2> QED BY <2>1, <2>2, <2>3, UnownedKeeps, TasksStutter, MembersStutter
<1>2. CASE ReleasePauseBlockedDeliveries
  <2> DEFINE S == {x \in Rows : /\ status[x] = "blocked" /\ ~IsDigest(x)
                                /\ DestOf[x] \in Supported
                                /\ health[DestOf[x]] # "paused" /\ ~Deferred(x)}
  <2>1. /\ status' = [x \in Rows |-> IF x \in S THEN "pending" ELSE status[x]]
        /\ Unclaim(S)
        /\ UNCHANGED <<attempts, wait, healthVars, runStatus, memberVars, phase,
                       age, itemVars, sendVars>>
    BY <1>2 DEF ReleasePauseBlockedDeliveries, PauseBlocked
  <2>2. /\ S \in SUBSET Rows
        /\ \A x \in S : status[x] = "blocked" /\ health[DestOf[x]] # "paused"
    OBVIOUS
  <2> HIDE DEF S
  <2> QED BY <2>1, <2>2, MoveRowsKeeps, TasksStutter, MembersStutter
<1>3. CASE CancelOrphanedDeliveries
  <2>1. /\ Orphans(followed) \in SUBSET Rows
        /\ \A x \in Orphans(followed) : status[x] # "absent"
    BY DEF Orphans, Open
  <2> QED BY <1>3, <2>1, MoveRowsKeeps, TasksStutter, MembersStutter
          DEF CancelOrphanedDeliveries, Cancel
<1> QED BY <1>1, <1>2, <1>3 DEF Maintenance

\* Starting a process clears the claims that expired while none ran.
LEMMA RunKeeps ==
  ASSUME Parts, ConstantsAssumption, NEW r \in Runners, Run(r)
  PROVE  Parts'
<1> DEFINE S == IF UNCHANGED owner THEN {} ELSE {x \in Rows : Expired(x)}
<1>1. /\ owner' = [x \in Rows |-> IF x \in S THEN None ELSE owner[x]]
      /\ S \in SUBSET Rows
  BY DEF Run, ClearExpiredClaims, Parts, StoreInv, RowsTypeOK
<1> HIDE DEF S
<1>2. UNCHANGED <<status, attempts, wait, lease, healthVars, runStatus,
                  memberVars, age, itemVars, sendVars>>
  BY DEF Run
<1>3. StoreInv' /\ RowsStayKnown
  BY <1>1, <1>2, UnownedKeeps DEF Parts
<1>4. phase' \in [Runners -> Phases]
  BY DEF Run, Parts, TaskInv, TasksTypeOK, Phases
<1>5. TaskInv'
  BY <1>2, <1>4 DEF Parts, TaskInv, TasksTypeOK, SendersTypeOK, BatchIsKnown,
     TriedWithinBudget, AcceptedWhenReported, itemVars, sendVars
<1> QED BY <1>2, <1>3, <1>5, MembersStutter DEF Parts

\* A process that dies forgets its batch and leaves the database alone.
LEMMA CrashKeeps ==
  ASSUME Parts, ConstantsAssumption, NEW r \in Runners, Crash(r)
  PROVE  Parts'
<1> USE DEF Parts
<1>1. /\ phase' = [phase EXCEPT ![r] = "dead"] /\ age' = [age EXCEPT ![r] = 0]
      /\ pc' = [pc EXCEPT ![r] = [x \in Rows |-> "none"]]
      /\ tried' = [tried EXCEPT ![r] = [x \in Rows |-> 0]]
      /\ recorded' = [recorded EXCEPT ![r] = {}]
      /\ retryIn' = [retryIn EXCEPT ![r] = [x \in Rows |-> 0]]
      /\ gate' = [gate EXCEPT ![r] = [d \in Dests |-> 0]]
      /\ UNCHANGED <<rowVars, healthVars, runStatus, memberVars, window>>
  BY DEF Crash
<1>2. /\ accepted' \in [Rows -> 0..AcceptCap]
      /\ \A x \in Rows : accepted[x] > 0 => accepted'[x] > 0
  <2>1. PICK S \in SUBSET {x \in Rows : pc[r][x] = "sending"} : Accept(S)
    BY DEF Crash
  <2> QED BY <2>1, AcceptGrows DEF TaskInv
<1>3. 0 \in 0..Horizon /\ 0 \in 0..MaxAttempts /\ 0 < MaxAttempts
  BY ConstantsAssumption DEF ConstantsAssumption
<1>4. TasksTypeOK'
  BY <1>1, <1>3 DEF TaskInv, TasksTypeOK, Phases, Stages
<1>5. SendersTypeOK'
  BY <1>1, <1>2, <1>3 DEF TaskInv, SendersTypeOK
<1>6. TriedWithinBudget' /\ BatchIsKnown'
  BY <1>1, <1>3 DEF TaskInv, TasksTypeOK, TriedWithinBudget, BatchIsKnown, rowVars
<1>7. AcceptedWhenReported'
  BY <1>1, <1>2 DEF TaskInv, TasksTypeOK, AcceptedWhenReported
<1> QED BY <1>1, <1>4, <1>5, <1>6, <1>7, StoreStutters, MembersStutter DEF TaskInv

\* A retry window grows shorter by a step of the clock.
LEMMA WanedIsTyped ==
  ASSUME ConstantsAssumption, NEW W \in SUBSET [left : Nat \ {0}, hour : 0..LongestCooldown]
  PROVE  Wane(W) \in SUBSET [left : Nat \ {0}, hour : 0..LongestCooldown]
<1>1. LongestCooldown \in Nat
  BY ConstantsAssumption DEF ConstantsAssumption
<1>2. ASSUME NEW w \in W, w.left > 1
      PROVE  [left |-> w.left - 1, hour |-> Dec(w.hour)] \in [left : Nat \ {0}, hour : 0..LongestCooldown]
  <2>1. w.left \in Nat \ {0} /\ w.hour \in 0..LongestCooldown
    BY <1>2
  <2>2. w.left - 1 \in Nat \ {0} /\ Dec(w.hour) \in 0..LongestCooldown
    BY <1>1, <1>2, <2>1 DEF Dec
  <2> QED BY <2>2
<1> QED BY <1>2 DEF Wane

\* Time passing keeps the invariant.
LEMMA TickKeeps ==
  ASSUME Parts, ConstantsAssumption, Tick
  PROVE  Parts'
<1> USE DEF Parts
<1>1. Horizon \in Nat /\ Lease \in Nat
  BY ConstantsAssumption DEF ConstantsAssumption
<1>2. RowsTypeOK'
  <2>1. wait' \in [Rows -> 0..Horizon] /\ lease' \in [Rows -> 0..Lease]
    BY <1>1, DecBound DEF Tick, StoreInv, RowsTypeOK
  <2> QED BY <2>1 DEF Tick, StoreInv, RowsTypeOK
<1>3. HealthTypeOK'
  BY <1>1, DecBound DEF Tick, StoreInv, HealthTypeOK
<1>4. /\ OwnedIsPending' /\ AbsentIsFresh' /\ RunsFanOutWhole'
      /\ PausedHasNoRunnableWork' /\ BlockedHasAReason' /\ AttemptBudget'
      /\ SentRunIsComplete' /\ CircuitAgreesWithStreak'
  BY DEF Tick, StoreInv, OwnedIsPending, AbsentIsFresh, RunsFanOutWhole,
     PausedHasNoRunnableWork, BlockedHasAReason, AttemptBudget,
     SentRunIsComplete, CircuitAgreesWithStreak
<1>5. MembersTypeOK'
  BY <1>1, DecBound DEF Tick, MembersTypeOK
<1>6. TasksTypeOK'
  <2>1. retryIn' \in [Runners -> [Rows -> 0..Horizon]]
    BY <1>1, DecBound DEF Tick, TaskInv, TasksTypeOK
  <2>2. age' \in [Runners -> 0..Horizon]
    BY <1>1 DEF Tick, TaskInv, TasksTypeOK
  <2> QED BY <2>1, <2>2 DEF Tick, TaskInv, TasksTypeOK
<1>7. SendersTypeOK'
  <2>1. gate' \in [Runners -> [Dests -> 0..Horizon]]
    BY <1>1, DecBound DEF Tick, TaskInv, SendersTypeOK
  <2>2. window' \in [Dests -> SUBSET [left : Nat \ {0}, hour : 0..LongestCooldown]]
    BY WanedIsTyped DEF Tick, TaskInv, SendersTypeOK
  <2> QED BY <2>1, <2>2 DEF Tick, TaskInv, SendersTypeOK
<1>8. TriedWithinBudget' /\ AcceptedWhenReported' /\ BatchIsKnown'
  BY DEF Tick, TaskInv, TriedWithinBudget, AcceptedWhenReported, BatchIsKnown
<1> QED BY <1>2, <1>3, <1>4, <1>5, <1>6, <1>7, <1>8 DEF StoreInv, TaskInv

-----------------------------------------------------------------------------
\* The initial state satisfies the invariant.
LEMMA InitInv == Init => IInv
<1> SUFFICES ASSUME Init PROVE IInv
  OBVIOUS
<1>1. 0 \in 0..Horizon /\ 0 \in 0..MaxAttempts /\ 0 < MaxAttempts /\ 0 \in 0..Lease
      /\ PauseAt > 0
  BY ConstantsAssumption DEF ConstantsAssumption
<1>2. RowsTypeOK /\ HealthTypeOK /\ MembersTypeOK
  BY <1>1 DEF Init, RowsTypeOK, HealthTypeOK, MembersTypeOK, Statuses
<1>3. TasksTypeOK
  BY <1>1 DEF Init, TasksTypeOK, Phases, Stages
<1>4. SendersTypeOK
  BY <1>1 DEF Init, SendersTypeOK, AcceptCap
<1>5. /\ OwnedIsPending /\ AbsentIsFresh /\ TriedWithinBudget
      /\ AcceptedWhenReported /\ BatchIsKnown /\ PausedHasNoRunnableWork
      /\ BlockedHasAReason
  BY <1>1 DEF Init, OwnedIsPending, AbsentIsFresh, TriedWithinBudget,
     AcceptedWhenReported, BatchIsKnown, PausedHasNoRunnableWork, BlockedHasAReason
<1>6. CircuitAgreesWithStreak /\ AttemptBudget /\ SentRunIsComplete
  BY <1>1, ConstantsAssumption
  DEF Init, CircuitAgreesWithStreak, AttemptBudget, SentRunIsComplete, Open,
      IsDigest, ConstantsAssumption
<1>7. RunsFanOutWhole
  BY ConstantsAssumption DEF Init, RunsFanOutWhole, IsDigest, ConstantsAssumption
<1> QED BY <1>2, <1>3, <1>4, <1>5, <1>6, <1>7 DEF IInv, TypeOK

\* Every step keeps it.
LEMMA NextInv == IInv /\ [Next]_vars => IInv'
<1> SUFFICES ASSUME Parts, [Next]_vars PROVE Parts'
  BY IInvIsParts, PTL
<1>1. CASE \/ \E e \in Events : QueueEvent(e)
           \/ \E g \in Runs : QueueDigest(g)
  BY <1>1, ConstantsAssumption, ProducersKeep
<1>2. ASSUME NEW r \in Runners, Run(r) \/ DeliveryTask(r) \/ Crash(r)
      PROVE  Parts'
  BY <1>2, ConstantsAssumption, RunKeeps, DeliveryTaskKeeps, CrashKeeps
<1>3. ASSUME NEW r \in Runners, Shutdown(r)
      PROVE  Parts'
  <2>1. phase' \in [Runners -> Phases] /\ age' \in [Runners -> 0..Horizon]
    BY <1>3 DEF Shutdown, Parts, TaskInv, TasksTypeOK, Phases
  <2> QED BY <1>3, <2>1, ConstantsAssumption, ProcessKeeps DEF Shutdown, itemVars
<1>4. CASE Maintenance \/ Members \/ Tick
  BY <1>4, ConstantsAssumption, MaintenanceKeeps, MembersKeep, TickKeeps
<1>5. CASE UNCHANGED vars
  BY <1>5, StoreStutters, TasksStutter, MembersStutter DEF Parts, vars
<1> QED BY <1>1, <1>2, <1>3, <1>4, <1>5 DEF Next

-----------------------------------------------------------------------------
(* The moves a row can make, once for all of Next.                         *)

RowStep(x) ==
  \/ status'[x] = status[x]
  \/ status[x] = "absent"
  \/ status[x] \in Open /\ status'[x] \in Open
  \/ status[x] \in Open /\ status'[x] = "sent" /\ accepted[x] > 0
  \/ status[x] \in Open /\ status'[x] = "failed" /\ attempts'[x] = MaxAttempts
  \/ status[x] = "failed" /\ status'[x] \in Open /\ attempts'[x] = 0
  \/ /\ status'[x] = "gone"
     /\ \/ DestOf[x] \notin dests'
        \/ ~IsDigest(x) /\ FollowOf[GroupOf[x]] \notin followed'

\* A worker moves rows only along RowStep.
LEMMA DeliverRowSteps ==
  ASSUME Parts, ConstantsAssumption, NEW r \in Runners, NEW y \in Rows,
         DeliverRow(r, y), NEW x \in Rows
  PROVE  RowStep(x)
<1> USE DEF Parts, StoreInv, RowsTypeOK
<1>0. owner[y] = r => status[y] = "pending"
  BY ConstantsAssumption DEF OwnedIsPending, ConstantsAssumption
<1>1. CASE UNCHANGED status
  BY <1>1 DEF RowStep
<1>2. CASE MarkDeliverySentOwned(r, y) \/ FinalizeDeliverySent(r, y)
  <2>1. accepted[y] > 0
    BY <1>2 DEF MarkDeliverySentOwned, FinalizeDeliverySent, TaskInv,
                AcceptedWhenReported
  <2>2. \/ UNCHANGED status
        \/ status[y] \in Open /\ status' = [status EXCEPT ![y] = "sent"]
    BY <1>0, <1>2 DEF MarkDeliverySentOwned, FinalizeDeliverySent, BecomeSent,
                      rowVars, Open
  <2> QED BY <2>1, <2>2 DEF RowStep
<1>3. CASE MarkDeliveryFailedOwned(r, y)
  <2>1. tried[r][y] + 1 \in 1..MaxAttempts
    BY ConstantsAssumption, NextTryBound
  <2>2. \/ UNCHANGED status
        \/ /\ status[y] = "pending"
           /\ status' = [status EXCEPT ![y] = RetryStatus(tried[r][y] + 1)]
           /\ attempts' = [attempts EXCEPT ![y] = tried[r][y] + 1]
    BY <1>0, <1>3 DEF MarkDeliveryFailedOwned, BecomeFailed, rowVars
  <2>3. /\ RetryStatus(tried[r][y] + 1) \in {"pending", "failed"}
        /\ RetryStatus(tried[r][y] + 1) = "failed" => tried[r][y] + 1 = MaxAttempts
    BY <2>1, ConstantsAssumption DEF RetryStatus, ConstantsAssumption
  <2> QED BY <2>2, <2>3 DEF RowStep, Open
<1>4. CASE FinishFailedAttempt(r, y)
  <2>1. \/ UNCHANGED status
        \/ \E S \in SUBSET {z \in Rows : status[z] = "pending"} :
             status' = [z \in Rows |-> IF z \in S THEN "blocked" ELSE status[z]]
    <3>1. CASE RecordFailure(DestOf[y],
                 IF tried[r][y] + 1 < MaxAttempts
                 THEN AfterBatchStart(r, Backoff[tried[r][y] + 1]) ELSE 0)
      <4> DEFINE S == {z \in Rows : /\ streak[DestOf[y]] + 1 >= PauseAt
                                    /\ DestOf[z] = DestOf[y] /\ status[z] = "pending"}
      <4>1. /\ S \in SUBSET {z \in Rows : status[z] = "pending"}
            /\ status' = [z \in Rows |-> IF z \in S THEN "blocked" ELSE status[z]]
        BY <3>1 DEF RecordFailure, Runnable
      <4> QED BY <4>1
    <3>2. CASE UNCHANGED rowVars
      BY <3>2 DEF rowVars
    <3> QED BY <1>4, <3>1, <3>2 DEF FinishFailedAttempt
  <2> QED BY <2>1 DEF RowStep, Open
<1>5. CASE MarkDeliveryRateLimitedOwned(r, y)
  <2>1. UNCHANGED status
    BY <1>0, <1>5 DEF MarkDeliveryRateLimitedOwned, rowVars
  <2> QED BY <2>1 DEF RowStep
<1>6. CASE \/ StartDeliveryAttempt(r, y) \/ SkipDelivery(r, y)
           \/ SendRequest(r, y) \/ SuppressRequest(r, y)
           \/ SendAccepted(r, y) \/ SendRejected(r, y) \/ SendRateLimited(r, y)
           \/ AbandonSend(r, y) \/ DeliveryPanics(r, y)
           \/ FinishSentAttempt(r, y) \/ FinishDeliveryRateLimitedAttempt(r, y)
  <2>1. UNCHANGED status
    BY <1>6 DEF StartDeliveryAttempt, SkipDelivery, SendRequest, SuppressRequest,
       SendAccepted, SendRejected, SendRateLimited, AbandonSend, DeliveryPanics,
       FinishSentAttempt, FinishDeliveryRateLimitedAttempt, rowVars
  <2> QED BY <2>1 DEF RowStep
<1> QED BY <1>2, <1>3, <1>4, <1>5, <1>6, DeliverRow(r, y) DEF DeliverRow

\* So does every other step.
LEMMA RowSteps ==
  ASSUME Parts, ConstantsAssumption, [Next]_vars, NEW x \in Rows
  PROVE  RowStep(x)
<1> USE DEF Parts, StoreInv, RowsTypeOK
<1>1. ASSUME NEW g \in Events \cup Runs, FanOut(g)
      PROVE  RowStep(x)
  BY <1>1 DEF FanOut, RowStep
<1>2. ASSUME NEW r \in Runners, NEW y \in Rows, DeliverRow(r, y)
      PROVE  RowStep(x)
  BY <1>2, ConstantsAssumption, DeliverRowSteps
<1>3. CASE UNCHANGED status
  BY <1>3 DEF RowStep
<1>4. ASSUME NEW d \in Dests, RetryFailedDeliveries(d)
      PROVE  RowStep(x)
  BY <1>4 DEF RetryFailedDeliveries, Retryable, RowStep, Open
<1>5. ASSUME NEW d \in Dests, DeleteDestination(d)
      PROVE  RowStep(x)
  BY <1>5 DEF DeleteDestination, RowStep
<1>6. ASSUME NEW f \in Follows, Unfollow(f)
      PROVE  RowStep(x)
  BY <1>6 DEF Unfollow, Cancel, Orphans, RowStep
<1>7. CASE CancelOrphanedDeliveries
  BY <1>7 DEF CancelOrphanedDeliveries, Cancel, Orphans, RowStep, memberVars
<1>8. CASE ReleasePauseBlockedDeliveries
  BY <1>8 DEF ReleasePauseBlockedDeliveries, PauseBlocked, RowStep, Open
<1>9. ASSUME NEW r \in Runners,
             \/ Run(r) \/ Shutdown(r) \/ Crash(r) \/ ClaimDueDeliveries(r)
             \/ ClaimDueDigestDeliveries(r) \/ DigestClaimFails(r) \/ BatchEnds(r)
      PROVE  UNCHANGED status
  BY <1>9 DEF Run, Shutdown, Crash, ClaimDueDeliveries, ClaimDueDigestDeliveries,
              DigestClaimFails, BatchEnds, rowVars
<1>10. ASSUME \/ Tick \/ RecoverExpiredWork \/ UNCHANGED vars
              \/ \E f \in Follows, left \in PauseLengths \cup {0} :
                   PauseFollowNotificationRule(f, left)
       PROVE  UNCHANGED status
  BY <1>10 DEF Tick, RecoverExpiredWork, vars, rowVars, PauseFollowNotificationRule
<1>11. ASSUME NEW r \in Runners, Run(r) \/ DeliveryTask(r) \/ Shutdown(r) \/ Crash(r)
       PROVE  RowStep(x)
  BY <1>2, <1>3, <1>9, <1>11 DEF DeliveryTask
<1>12. CASE \/ \E e \in Events : QueueEvent(e)
            \/ \E g \in Runs : QueueDigest(g)
  BY <1>1, <1>12 DEF QueueEvent, QueueDigest
<1>13. CASE Maintenance \/ Members \/ Tick
  BY <1>3, <1>4, <1>5, <1>6, <1>7, <1>8, <1>10, <1>13 DEF Maintenance, Members
<1> QED BY <1>3, <1>10, <1>11, <1>12, <1>13 DEF Next

-----------------------------------------------------------------------------
(* The theorems.                                                           *)

\* The inductive invariant holds throughout.
THEOREM Invariance == Spec => []IInv
<1>1. Init => IInv
  BY InitInv
<1>2. IInv /\ [Next]_vars => IInv'
  BY NextInv
<1> QED BY <1>1, <1>2, PTL DEF Spec

\* Every variable keeps its type, for every number of rows, destinations and
\* processes: in particular no attempt count ever leaves its budget.
THEOREM TypeCorrect == Spec => []TypeOK
<1>1. IInv => TypeOK
  BY DEF IInv
<1> QED BY <1>1, Invariance, PTL

\* However workers, members and other processes interleave, a paused
\* destination never has a runnable row.
THEOREM PausedIsStopped == Spec => []PausedHasNoRunnableWork
<1>1. IInv => PausedHasNoRunnableWork
  BY DEF IInv
<1> QED BY <1>1, Invariance, PTL

\* No row stays blocked without a paused or unsupported destination.
THEOREM BlockedIsExplained == Spec => []BlockedHasAReason
<1>1. IInv => BlockedHasAReason
  BY DEF IInv
<1> QED BY <1>1, Invariance, PTL

\* The circuit and its failure count never disagree.
THEOREM CircuitIsExact == Spec => []CircuitAgreesWithStreak
<1>1. IInv => CircuitAgreesWithStreak
  BY DEF IInv
<1> QED BY <1>1, Invariance, PTL

\* The retry budget is exact, whatever snapshots workers count from.
THEOREM BudgetIsExact == Spec => []AttemptBudget
<1>1. IInv => AttemptBudget
  BY DEF IInv
<1> QED BY <1>1, Invariance, PTL

\* A digest run reported sent has been sent to every destination it had.
THEOREM SentRunsAreComplete == Spec => []SentRunIsComplete
<1>1. IInv => SentRunIsComplete
  BY DEF IInv
<1> QED BY <1>1, Invariance, PTL

\* No queued row is lost.
THEOREM QueueLosesNothing == Spec => NothingLost
<1>1. IInv /\ [Next]_vars => [LosesNothing]_vars
  <2> SUFFICES ASSUME Parts, [Next]_vars PROVE LosesNothing
    BY IInvIsParts
  <2>1. ASSUME NEW x \in Rows PROVE RowStep(x)
    BY ConstantsAssumption, RowSteps
  <2> QED BY <2>1 DEF LosesNothing, RowStep, Open
<1> QED BY <1>1, Invariance, PTL DEF Spec, NothingLost

\* No stale report reopens a settled row.
THEOREM SettledIsFinal == Spec => SettledStaysSettled
<1>1. IInv /\ [Next]_vars => [KeepsSettled]_vars
  <2> SUFFICES ASSUME Parts, [Next]_vars PROVE KeepsSettled
    BY IInvIsParts
  <2>1. ASSUME NEW x \in Rows PROVE RowStep(x)
    BY ConstantsAssumption, RowSteps
  <2> QED BY <2>1 DEF KeepsSettled, RowStep, Open
<1> QED BY <1>1, Invariance, PTL DEF Spec, SettledStaysSettled

\* Only the owner's retry reopens a paused destination.
LEMMA OnlyRetryReopens ==
  ASSUME Parts, ConstantsAssumption, [Next]_vars, NEW d \in Dests,
         health[d] = "paused", health'[d] # "paused"
  PROVE  RetryFailedDeliveries(d)
<1>0. health \in [Dests -> {"healthy", "degraded", "paused"}] /\ streak \in [Dests -> Nat]
  BY DEF Parts, StoreInv, HealthTypeOK
<1>1. ~UNCHANGED healthVars
  BY DEF healthVars
<1>2. streak[d] >= PauseAt
  BY DEF Parts, StoreInv, CircuitAgreesWithStreak
<1>3. ASSUME NEW r \in Runners, NEW x \in Rows, DeliverRow(r, x)
      PROVE  FALSE
  <2>1. CASE FinishSentAttempt(r, x)
    BY <1>0, <1>1, <2>1 DEF FinishSentAttempt, RecordSuccess
  <2>2. CASE FinishFailedAttempt(r, x)
    <3>1. \/ UNCHANGED healthVars
          \/ health' = [health EXCEPT ![DestOf[x]] =
                          IF streak[DestOf[x]] + 1 >= PauseAt THEN "paused" ELSE "degraded"]
      BY <2>2 DEF FinishFailedAttempt, RecordFailure, Runnable
    <3> QED BY <1>0, <1>1, <1>2, <3>1, ConstantsAssumption DEF ConstantsAssumption
  <2>3. CASE FinishDeliveryRateLimitedAttempt(r, x)
    BY <1>0, <1>1, <2>3 DEF FinishDeliveryRateLimitedAttempt
  <2> QED BY <1>1, <1>3, <2>1, <2>2, <2>3 DEF DeliverRow, StartDeliveryAttempt,
     SkipDelivery, SendRequest, SuppressRequest, SendAccepted, SendRejected,
     SendRateLimited, AbandonSend, DeliveryPanics, MarkDeliverySentOwned,
     FinalizeDeliverySent, MarkDeliveryFailedOwned, MarkDeliveryRateLimitedOwned
<1>4. ASSUME NEW r \in Runners, Run(r) \/ DeliveryTask(r) \/ Shutdown(r) \/ Crash(r)
      PROVE  FALSE
  BY <1>1, <1>3, <1>4 DEF Run, DeliveryTask, Shutdown, Crash, ClaimDueDeliveries,
     ClaimDueDigestDeliveries, DigestClaimFails, BatchEnds
<1>5. ASSUME \/ \E e \in Events : QueueEvent(e)
             \/ \E g \in Runs : QueueDigest(g)
             \/ Maintenance \/ UNCHANGED vars
      PROVE  FALSE
  BY <1>1, <1>5 DEF QueueEvent, QueueDigest, Maintenance, RecoverExpiredWork,
     ReleasePauseBlockedDeliveries, CancelOrphanedDeliveries, vars
<1>6. CASE Tick
  BY <1>6 DEF Tick
<1>7. CASE Members
  <2>1. ASSUME NEW c \in Dests, RetryFailedDeliveries(c)
        PROVE  c = d
    BY <1>0, <2>1 DEF RetryFailedDeliveries, Retryable
  <2> QED BY <1>1, <1>7, <2>1 DEF Members, DeleteDestination,
     PauseFollowNotificationRule, Unfollow
<1> QED BY <1>4, <1>5, <1>6, <1>7 DEF Next

\* A pause ends only by the owner's retry, which releases all it stopped.
THEOREM PauseEndsWhole == Spec => PauseEndsWithItsRows
<1>1. IInv /\ [Next]_vars => [ReopensWithItsRows]_vars
  <2> SUFFICES ASSUME Parts, [Next]_vars, NEW d \in Dests,
                      health[d] = "paused", health'[d] # "paused"
               PROVE  /\ streak'[d] = 0 /\ cooldown'[d] = 0
                      /\ \A x \in Rows : DestOf[x] = d /\ d \in Supported =>
                           status'[x] \notin {"blocked", "failed"}
    BY IInvIsParts DEF ReopensWithItsRows
  <2>1. RetryFailedDeliveries(d)
    BY ConstantsAssumption, OnlyRetryReopens
  <2> QED BY <2>1 DEF RetryFailedDeliveries, Retryable, Parts, StoreInv, HealthTypeOK
<1> QED BY <1>1, Invariance, PTL DEF Spec, PauseEndsWithItsRows

-----------------------------------------------------------------------------
(* Refinement: every step of the queues is a step of Outbox, or none.       *)

\* A provider's acceptance is a hand-over.
LEMMA AcceptIsHandOver ==
  ASSUME Parts, NEW S \in SUBSET Rows, Accept(S),
         \A x \in S : status[x] # "absent", UNCHANGED status
  PROVE  Box!HandOver(S)
<1>1. BoxTaken' = BoxTaken \cup S
  <2>1. ASSUME NEW x \in Rows
        PROVE  accepted'[x] > 0 <=> x \in S \/ accepted[x] > 0
    <3>1. accepted[x] \in 0..2
      BY DEF AcceptCap, Parts, TaskInv, SendersTypeOK
    <3>2. accepted'[x] = IF x \in S /\ accepted[x] < 2 THEN accepted[x] + 1
                         ELSE accepted[x]
      BY DEF Accept, AcceptCap
    <3> QED BY <3>1, <3>2
  <2> QED BY <2>1 DEF BoxTaken
<1>2. \A x \in S : BoxState[x] # "absent"
  BY DEF BoxState
<1>3. UNCHANGED BoxState
  BY DEF BoxState
<1> QED BY <1>1, <1>2, <1>3 DEF Box!HandOver

\* Inserting rows is an enqueue.
LEMMA FanOutIsEnqueue ==
  ASSUME NEW g, FanOut(g), UNCHANGED accepted
  PROVE  \E S, dropped \in SUBSET Rows : Box!Enqueue(S, dropped)
<1> DEFINE new  == {x \in Rows : GroupOf[x] = g}
           gone == {x \in new : InitialStatus(x) = "gone"}
<1>1. /\ \A x \in new : status[x] = "absent"
      /\ \A x \in Rows : status'[x] = IF x \in new THEN InitialStatus(x) ELSE status[x]
      /\ \A x \in Rows : InitialStatus(x) \in {"gone", "blocked", "pending"}
  BY DEF FanOut, InitialStatus
<1>2. \A x \in (new \ gone) \cup gone : BoxState[x] = "absent"
  BY <1>1 DEF BoxState, Open
<1>3. BoxState' = [x \in Rows |-> IF x \in new \ gone THEN "open"
                                  ELSE IF x \in gone THEN "gone" ELSE BoxState[x]]
  BY <1>1 DEF BoxState, Open
<1>4. UNCHANGED BoxTaken
  BY DEF BoxTaken
<1>5. new \ gone \in SUBSET Rows /\ gone \in SUBSET Rows
  OBVIOUS
<1> HIDE DEF new, gone
<1> QED BY <1>2, <1>3, <1>4, <1>5 DEF Box!Enqueue

\* One row that becomes sent, or fails.
LEMMA SettlingIsConfirmOrGiveUp ==
  ASSUME Parts, NEW x \in Rows, status[x] \in Open, UNCHANGED accepted,
         \/ accepted[x] > 0 /\ status' = [status EXCEPT ![x] = "sent"]
         \/ status' = [status EXCEPT ![x] = "failed"]
  PROVE  Box!BoxNext
<1> status \in [Rows -> Statuses]
  BY DEF Parts, StoreInv, RowsTypeOK
<1>1. BoxState[x] = "open" /\ UNCHANGED BoxTaken
  BY DEF BoxState, BoxTaken
<1>2. CASE accepted[x] > 0 /\ status' = [status EXCEPT ![x] = "sent"]
  <2>1. BoxState' = [y \in Rows |-> IF y \in {x} THEN "sent" ELSE BoxState[y]]
    BY <1>2 DEF BoxState, Open
  <2>2. x \in BoxTaken
    BY <1>2 DEF BoxTaken
  <2>3. Box!Confirm(x)
    BY <1>1, <2>1, <2>2 DEF Box!Confirm, Box!Moved
  <2> QED BY <2>3 DEF Box!BoxNext
<1>3. CASE status' = [status EXCEPT ![x] = "failed"]
  <2>1. BoxState' = [y \in Rows |-> IF y \in {x} THEN "failed" ELSE BoxState[y]]
    BY <1>3 DEF BoxState, Open
  <2>2. Box!GiveUp(x)
    BY <1>1, <2>1 DEF Box!GiveUp, Box!Moved
  <2> QED BY <2>2 DEF Box!BoxNext
<1> QED BY <1>2, <1>3

\* A row that keeps its status, or stays open.
MovesWithinOpen(x) ==
  status'[x] = status[x] \/ (status[x] \in Open /\ status'[x] \in Open)

\* Rows that stay open, whatever stops or releases them, and their messages.
LEMMA OpenStutters ==
  ASSUME status \in [Rows -> Statuses], status' \in [Rows -> Statuses],
         \A x \in Rows : MovesWithinOpen(x),
         UNCHANGED accepted
  PROVE  UNCHANGED <<BoxState, BoxTaken>>
<1>1. \A x \in Rows : BoxState'[x] = BoxState[x]
  BY DEF BoxState, MovesWithinOpen
<1> QED BY <1>1 DEF BoxState, BoxTaken

\* Rows removed with their destination or their last follow.
LEMMA GoneIsRemove ==
  ASSUME NEW S \in SUBSET Rows, \A x \in S : status[x] \in Statuses \ {"absent"},
         status' = [x \in Rows |-> IF x \in S THEN "gone" ELSE status[x]],
         UNCHANGED accepted
  PROVE  Box!Remove(S)
<1>1. BoxState' = [x \in Rows |-> IF x \in S THEN "gone" ELSE BoxState[x]]
  BY DEF BoxState, Open
<1>2. \A x \in S : BoxState[x] \in {"open"} \cup Box!Settled
  BY DEF BoxState, Open, Statuses, Box!Settled
<1>3. UNCHANGED BoxTaken
  BY DEF BoxTaken
<1> QED BY <1>1, <1>2, <1>3 DEF Box!Remove, Box!Moved

\* A step of a worker.
LEMMA DeliverRowRefines ==
  ASSUME Parts, ConstantsAssumption, NEW r \in Runners, NEW x \in Rows,
         DeliverRow(r, x), Parts'
  PROVE  [Box!BoxNext]_<<BoxState, BoxTaken>>
<1>0. /\ status \in [Rows -> Statuses] /\ status' \in [Rows -> Statuses]
      /\ owner[x] = r => status[x] = "pending"
  BY ConstantsAssumption
  DEF Parts, StoreInv, RowsTypeOK, OwnedIsPending, ConstantsAssumption
<1>1. CASE UNCHANGED <<status, accepted>>
  BY <1>0, <1>1, OpenStutters DEF MovesWithinOpen
<1>2. ASSUME Accept({x}), UNCHANGED status, pc[r][x] = "sending"
      PROVE  Box!BoxNext
  <2>1. Box!HandOver({x})
    BY <1>2, AcceptIsHandOver DEF Parts, TaskInv, BatchIsKnown
  <2> QED BY <2>1 DEF Box!BoxNext
<1>3. CASE SendAccepted(r, x) \/ AbandonSend(r, x)
  BY <1>1, <1>2, <1>3 DEF SendAccepted, AbandonSend, rowVars
<1>4. CASE MarkDeliverySentOwned(r, x) \/ FinalizeDeliverySent(r, x)
  <2>1. accepted[x] > 0 /\ UNCHANGED accepted
    BY <1>4 DEF MarkDeliverySentOwned, FinalizeDeliverySent, Parts, TaskInv,
                AcceptedWhenReported, sendVars
  <2>2. \/ UNCHANGED status
        \/ status[x] \in Open /\ status' = [status EXCEPT ![x] = "sent"]
    BY <1>0, <1>4 DEF MarkDeliverySentOwned, FinalizeDeliverySent, BecomeSent,
                      rowVars, Open
  <2> QED BY <1>1, <2>1, <2>2, SettlingIsConfirmOrGiveUp
<1>5. CASE MarkDeliveryFailedOwned(r, x)
  <2>1. /\ UNCHANGED accepted
        /\ \/ UNCHANGED status
           \/ /\ status[x] = "pending"
              /\ status' = [status EXCEPT ![x] = RetryStatus(tried[r][x] + 1)]
    BY <1>0, <1>5 DEF MarkDeliveryFailedOwned, BecomeFailed, rowVars, sendVars
  <2>2. RetryStatus(tried[r][x] + 1) \in {"pending", "failed"}
    BY DEF RetryStatus
  <2>3. CASE UNCHANGED status
    BY <1>1, <2>1, <2>3
  <2>4. CASE status[x] = "pending" /\ status' = [status EXCEPT ![x] = "failed"]
    BY <2>1, <2>4, SettlingIsConfirmOrGiveUp DEF Open
  <2>5. CASE status[x] = "pending" /\ status' = [status EXCEPT ![x] = "pending"]
    BY <1>0, <2>1, <2>5, OpenStutters DEF MovesWithinOpen
  <2> QED BY <2>1, <2>2, <2>3, <2>4, <2>5
<1>6. CASE FinishFailedAttempt(r, x)
  <2>1. /\ UNCHANGED accepted
        /\ \A y \in Rows : \/ status'[y] = status[y]
                           \/ (status[y] = "pending" /\ status'[y] = "blocked")
    BY <1>6 DEF FinishFailedAttempt, RecordFailure, Runnable, rowVars, sendVars
  <2> QED BY <1>0, <2>1, OpenStutters DEF Open, MovesWithinOpen
<1>7. CASE MarkDeliveryRateLimitedOwned(r, x)
  <2>1. UNCHANGED <<status, accepted>>
    BY <1>0, <1>7 DEF MarkDeliveryRateLimitedOwned, rowVars, sendVars
  <2> QED BY <1>1, <2>1
<1>8. CASE \/ StartDeliveryAttempt(r, x) \/ SkipDelivery(r, x)
           \/ SendRequest(r, x) \/ SuppressRequest(r, x)
           \/ SendRejected(r, x) \/ SendRateLimited(r, x) \/ DeliveryPanics(r, x)
           \/ FinishSentAttempt(r, x) \/ FinishDeliveryRateLimitedAttempt(r, x)
  <2>1. UNCHANGED <<status, accepted>>
    BY <1>8 DEF StartDeliveryAttempt, SkipDelivery, SendRequest, SuppressRequest,
       SendRejected, SendRateLimited, DeliveryPanics, FinishSentAttempt,
       FinishDeliveryRateLimitedAttempt, rowVars, sendVars
  <2> QED BY <1>1, <2>1
<1> QED BY <1>3, <1>4, <1>5, <1>6, <1>7, <1>8 DEF DeliverRow

\* Every step.
LEMMA NextRefines ==
  ASSUME Parts, Parts', ConstantsAssumption, [Next]_vars
  PROVE  [Box!BoxNext]_<<BoxState, BoxTaken>>
<1>0. status \in [Rows -> Statuses] /\ status' \in [Rows -> Statuses]
  BY DEF Parts, StoreInv, RowsTypeOK
<1>1. CASE UNCHANGED <<status, accepted>>
  BY <1>0, <1>1, OpenStutters DEF MovesWithinOpen
<1>2. ASSUME NEW g, FanOut(g), UNCHANGED accepted
      PROVE  Box!BoxNext
  BY <1>2, FanOutIsEnqueue DEF Box!BoxNext
<1>3. ASSUME NEW r \in Runners, NEW x \in Rows, DeliverRow(r, x)
      PROVE  [Box!BoxNext]_<<BoxState, BoxTaken>>
  BY <1>3, ConstantsAssumption, DeliverRowRefines
<1>4. ASSUME NEW r \in Runners, Crash(r)
      PROVE  Box!BoxNext
  <2>1. PICK S \in SUBSET {x \in Rows : pc[r][x] = "sending"} : Accept(S)
    BY <1>4 DEF Crash
  <2>2. \A x \in S : status[x] # "absent"
    BY DEF Parts, TaskInv, BatchIsKnown
  <2>3. Box!HandOver(S)
    BY <1>4, <2>1, <2>2, AcceptIsHandOver DEF Crash, rowVars
  <2> QED BY <2>3 DEF Box!BoxNext
<1>5. ASSUME NEW S \in SUBSET Rows, \A x \in S : status[x] # "absent",
             status' = [x \in Rows |-> IF x \in S THEN "gone" ELSE status[x]],
             UNCHANGED accepted
      PROVE  Box!BoxNext
  <2>1. Box!Remove(S)
    BY <1>0, <1>5, GoneIsRemove
  <2> QED BY <2>1 DEF Box!BoxNext
<1>6. ASSUME NEW d \in Dests, DeleteDestination(d)
      PROVE  Box!BoxNext
  <2> DEFINE S == {x \in Rows : DestOf[x] = d /\ status[x] # "absent"}
  <2>1. /\ S \in SUBSET Rows /\ \A x \in S : status[x] # "absent"
        /\ status' = [x \in Rows |-> IF x \in S THEN "gone" ELSE status[x]]
        /\ UNCHANGED accepted
    BY <1>6 DEF DeleteDestination, sendVars
  <2> HIDE DEF S
  <2> QED BY <1>5, <2>1
<1>7. ASSUME NEW follows, Cancel(Orphans(follows)), UNCHANGED accepted
      PROVE  Box!BoxNext
  <2>1. /\ Orphans(follows) \in SUBSET Rows
        /\ \A x \in Orphans(follows) : status[x] # "absent"
    BY DEF Orphans, Open
  <2> QED BY <1>5, <1>7, <2>1 DEF Cancel
<1>8. ASSUME NEW d \in Dests, RetryFailedDeliveries(d)
      PROVE  Box!BoxNext
  <2> DEFINE S == {x \in Rows : DestOf[x] = d /\ status[x] = "failed"}
  <2>1. \A x \in Rows : status'[x] =
          IF DestOf[x] = d /\ status[x] \in {"failed", "blocked"}
          THEN IF d \in Supported THEN "pending" ELSE "blocked" ELSE status[x]
    BY <1>8 DEF RetryFailedDeliveries, Retryable
  <2>2. BoxState' = [x \in Rows |-> IF x \in S THEN "open" ELSE BoxState[x]]
    <3>1. \A x \in Rows : BoxState'[x] = IF x \in S THEN "open" ELSE BoxState[x]
      BY <2>1 DEF BoxState, Open
    <3> QED BY <3>1 DEF BoxState
  <2>3. /\ S \in SUBSET Rows /\ \A x \in S : BoxState[x] \in {"failed"}
        /\ UNCHANGED BoxTaken
    BY <1>8 DEF BoxState, BoxTaken, Open, RetryFailedDeliveries, Retryable, sendVars
  <2> HIDE DEF S
  <2>4. Box!Reopen(S)
    BY <2>2, <2>3 DEF Box!Reopen, Box!Moved
  <2> QED BY <2>3, <2>4 DEF Box!BoxNext
<1>9. CASE ReleasePauseBlockedDeliveries
  <2>1. /\ UNCHANGED accepted
        /\ \A x \in Rows : MovesWithinOpen(x)
    BY <1>9 DEF ReleasePauseBlockedDeliveries, PauseBlocked, MovesWithinOpen, Open, sendVars
  <2> QED BY <1>0, <2>1, OpenStutters DEF MovesWithinOpen
<1>10. ASSUME NEW r \in Runners,
              \/ Run(r) \/ Shutdown(r) \/ ClaimDueDeliveries(r)
              \/ ClaimDueDigestDeliveries(r) \/ DigestClaimFails(r) \/ BatchEnds(r)
       PROVE  UNCHANGED <<status, accepted>>
  BY <1>10 DEF Run, Shutdown, ClaimDueDeliveries, ClaimDueDigestDeliveries,
               DigestClaimFails, BatchEnds, rowVars, sendVars
<1>11. ASSUME \/ Tick \/ RecoverExpiredWork \/ UNCHANGED vars
              \/ \E f \in Follows, left \in PauseLengths \cup {0} :
                   PauseFollowNotificationRule(f, left)
       PROVE  UNCHANGED <<status, accepted>>
  BY <1>11 DEF Tick, RecoverExpiredWork, vars, rowVars, sendVars,
               PauseFollowNotificationRule
<1>12. ASSUME NEW r \in Runners, Run(r) \/ DeliveryTask(r) \/ Shutdown(r) \/ Crash(r)
       PROVE  [Box!BoxNext]_<<BoxState, BoxTaken>>
  BY <1>1, <1>3, <1>4, <1>10, <1>12 DEF DeliveryTask
<1>13. CASE \/ \E e \in Events : QueueEvent(e)
            \/ \E g \in Runs : QueueDigest(g)
  BY <1>2, <1>13 DEF QueueEvent, QueueDigest, sendVars
<1>14. CASE Maintenance
  BY <1>1, <1>7, <1>9, <1>11, <1>14 DEF Maintenance, CancelOrphanedDeliveries, sendVars
<1>15. CASE Members
  <2>1. ASSUME NEW f \in Follows, Unfollow(f)
        PROVE  Box!BoxNext
    BY <1>7, <2>1 DEF Unfollow, sendVars
  <2> QED BY <1>1, <1>6, <1>8, <1>11, <1>15, <2>1 DEF Members
<1> QED BY <1>1, <1>11, <1>12, <1>13, <1>14, <1>15 DEF Next

\* The queues of the program, with their claims, schedules, circuits and
\* processes, implement the abstract outbox.
THEOREM QueuesImplementOutbox == Spec => ImplementsOutbox
<1>1. Init => Box!BoxInit
  <2> SUFFICES ASSUME Init PROVE Box!BoxInit
    OBVIOUS
  <2>1. \A x \in Rows : BoxState[x] \in {"absent", "open"}
    BY DEF Init, BoxState, Open
  <2>2. BoxState \in [Rows -> {"absent", "open"}]
    BY <2>1 DEF BoxState
  <2>3. BoxTaken = {}
    BY DEF Init, BoxTaken
  <2> QED BY <2>2, <2>3 DEF Box!BoxInit
<1>2. IInv /\ IInv' /\ [Next]_vars => [Box!BoxNext]_<<BoxState, BoxTaken>>
  <2>1. IInv' <=> Parts'
    BY IInvIsParts, PTL
  <2> QED BY <2>1, IInvIsParts, ConstantsAssumption, NextRefines
<1> QED BY <1>1, <1>2, Invariance, PTL
        DEF Spec, ImplementsOutbox, Box!BoxSpec, Box!boxVars

-----------------------------------------------------------------------------
(* One process, and nothing of its work given up or lost.                  *)

\* What others may do to a row: take its claim, stop it, reopen what is not
\* settled, remove it.
MildlyMoved(x) ==
  /\ owner'[x] \in {owner[x], None}
  /\ status[x] \in Open \cup {"gone"} => status'[x] \in Open \cup {"gone"}
  /\ status[x] \in {"sent", "gone"} => status'[x] \in {"sent", "gone"}
  /\ DestOf[x] \notin dests' => status'[x] \in {"absent", "gone"}

\* The process that serves is the only one with a batch and the only owner.
LEMMA OnlyOneServes ==
  ASSUME OnceInv, ConstantsAssumption, NEW r \in Runners, phase[r] # "down", NEW x \in Rows
  PROVE  /\ \A q \in Runners : pc[q][x] # "none" => q = r
         /\ owner[x] \in Runners => owner[x] = r
<1>1. \A q \in Runners : phase[q] # "down" => q = r
  BY DEF OnceInv, OneProcess
<1>2. \A q \in Runners : pc[q][x] # "none" => phase[q] # "down"
  BY DEF OnceInv, BatchesAreApart
<1>3. owner[x] \in Runners => phase[owner[x]] # "down"
  BY ConstantsAssumption DEF OnceInv, OwnersServe, ConstantsAssumption
<1> QED BY <1>1, <1>2, <1>3

\* A step that starts no row and claims none.
LEMMA MildStepKeepsOnce ==
  ASSUME Parts, OnceInv, ConstantsAssumption, UNCHANGED <<phase, pc, accepted>>,
         \A x \in Rows : MildlyMoved(x)
  PROVE  OnceInv'
<1>1. OneProcess' /\ DeliveredOnce' /\ RemovedIsGone'
  BY DEF OnceInv, OneProcess, DeliveredOnce, RemovedIsGone, MildlyMoved
<1>2. BatchesAreApart'
  BY DEF OnceInv, BatchesAreApart, IsDigest
<1>3. OwnersServe'
  BY DEF OnceInv, OwnersServe, MildlyMoved
<1>4. WorkersSettle'
  BY DEF OnceInv, WorkersSettle, MildlyMoved
<1>5. AcceptedIsSettled'
  BY DEF OnceInv, AcceptedIsSettled, MildlyMoved
<1> QED BY <1>1, <1>2, <1>3, <1>4, <1>5 DEF OnceInv

\* One row of the batch goes on to a stage that fits what is known of the row.
GoesOn(r, x, to) ==
  /\ phase[r] = "sending" /\ phase' = phase /\ dests' = dests
  /\ pc' = [pc EXCEPT ![r][x] = to]
  /\ \A y \in Rows : y # x => MildlyMoved(y) /\ accepted'[y] = accepted[y]
FitsStage(x, to) ==
  /\ owner'[x] \in {owner[x], None}
  /\ to \notin {"none", "marked", "counted"} => status'[x] \in Open \cup {"gone"}
  /\ to \in {"lost", "finalize"} => owner'[x] = None
  /\ accepted'[x] > 0 => \/ status'[x] \in {"sent", "gone"}
                         \/ to \in {"accepted", "lost", "finalize"}
  /\ to \notin {"none", "accepted", "marked", "lost", "finalize"} => accepted'[x] = 0
  /\ accepted'[x] <= 1
  /\ DestOf[x] \notin dests => status'[x] \in {"absent", "gone"}

LEMMA RowStepKeepsOnce ==
  ASSUME Parts, OnceInv, ConstantsAssumption, NEW r \in Runners, NEW x \in Rows, NEW to \in Stages,
         GoesOn(r, x, to), FitsStage(x, to)
  PROVE  OnceInv'
<1> USE DEF GoesOn, FitsStage
<1>1. pc'[r][x] = to /\ \A q \in Runners, y \in Rows : q # r \/ y # x => pc'[q][y] = pc[q][y]
  BY DEF Parts, TaskInv, TasksTypeOK
<1>2. \A q \in Runners : q # r => pc'[q][x] = "none"
  BY <1>1, OnlyOneServes
<1>3. OneProcess' /\ DeliveredOnce' /\ RemovedIsGone'
  BY DEF OnceInv, OneProcess, DeliveredOnce, RemovedIsGone, MildlyMoved
<1>4. BatchesAreApart'
  BY <1>1, <1>2 DEF OnceInv, BatchesAreApart, IsDigest
<1>5. OwnersServe'
  BY DEF OnceInv, OwnersServe, MildlyMoved
<1>6. WorkersSettle'
  BY <1>1, <1>2 DEF OnceInv, WorkersSettle, MildlyMoved
<1>7. AcceptedIsSettled'
  <2>1. ASSUME NEW y \in Rows, y # x, accepted'[y] > 0
        PROVE  \/ status'[y] \in {"sent", "gone"}
               \/ \E q \in Runners : pc'[q][y] \in {"accepted", "lost", "finalize"}
    BY <1>1, <2>1 DEF OnceInv, AcceptedIsSettled, MildlyMoved
  <2>2. ASSUME NEW y \in Rows, y # x, NEW q \in Runners,
               pc'[q][y] \notin {"none", "accepted", "marked", "lost", "finalize"}
        PROVE  accepted'[y] = 0
    BY <1>1, <2>2 DEF OnceInv, AcceptedIsSettled
  <2> QED BY <1>1, <1>2, <2>1, <2>2 DEF AcceptedIsSettled
<1> QED BY <1>3, <1>4, <1>5, <1>6, <1>7 DEF OnceInv

\* What the invariant says of a row that is in the batch of a process.
LEMMA RowInBatch ==
  ASSUME Parts, OnceInv, ConstantsAssumption, NEW r \in Runners, NEW x \in Rows, pc[r][x] # "none"
  PROVE  /\ phase[r] \in {"claimed", "sending"} /\ (pc[r][x] # "queued" => phase[r] = "sending")
         /\ owner[x] \in {r, None} /\ status[x] # "absent" /\ accepted[x] \in 0 .. 1
         /\ DestOf[x] \notin dests => status[x] = "gone"
         /\ pc[r][x] \notin {"marked", "counted"} => status[x] \in Open \cup {"gone"}
         /\ pc[r][x] \in {"lost", "finalize"} => owner[x] = None
         /\ pc[r][x] = "marked" => accepted[x] = 0 \/ status[x] \in {"sent", "gone"}
         /\ pc[r][x] \notin {"accepted", "marked", "lost", "finalize"} => accepted[x] = 0
<1>1. phase[r] \in {"claimed", "sending"} /\ (pc[r][x] # "queued" => phase[r] = "sending")
  BY DEF OnceInv, BatchesAreApart
<1>2. owner[x] \in {r, None} /\ \A q \in Runners : pc[q][x] # "none" => q = r
  <2>1. phase[r] # "down"
    BY <1>1
  <2>2. owner[x] \in Runners \cup {None}
    BY DEF Parts, StoreInv, RowsTypeOK
  <2>3. /\ \A q \in Runners : pc[q][x] # "none" => q = r
        /\ owner[x] \in Runners => owner[x] = r
    BY <2>1, OnlyOneServes
  <2> QED BY <2>2, <2>3
<1>3. status[x] # "absent"
  BY DEF Parts, TaskInv, BatchIsKnown
<1>4. accepted[x] \in 0 .. 1
  BY DEF OnceInv, DeliveredOnce, Parts, TaskInv, SendersTypeOK, AcceptCap
<1>5. DestOf[x] \notin dests => status[x] = "gone"
  BY <1>3 DEF OnceInv, RemovedIsGone
<1>6. /\ pc[r][x] \notin {"marked", "counted"} => status[x] \in Open \cup {"gone"}
      /\ pc[r][x] \in {"lost", "finalize"} => owner[x] = None
  BY DEF OnceInv, WorkersSettle
<1>7. /\ pc[r][x] = "marked" => accepted[x] = 0 \/ status[x] \in {"sent", "gone"}
      /\ pc[r][x] \notin {"accepted", "marked", "lost", "finalize"} => accepted[x] = 0
  <2>1. accepted[x] > 0 => \/ status[x] \in {"sent", "gone"}
                           \/ \E q \in Runners : pc[q][x] \in {"accepted", "lost", "finalize"}
    BY DEF OnceInv, AcceptedIsSettled
  <2>2. pc[r][x] \notin {"none", "accepted", "marked", "lost", "finalize"} => accepted[x] = 0
    BY DEF OnceInv, AcceptedIsSettled
  <2>3. \A q \in Runners : pc[q][x] \in {"accepted", "lost", "finalize"} => q = r
    BY <1>2
  <2> QED BY <1>4, <2>1, <2>2, <2>3
<1> QED BY <1>1, <1>2, <1>3, <1>4, <1>5, <1>6, <1>7

\* A row nobody but its worker is told about.
LEMMA StillRow ==
  ASSUME OnceInv, NEW y \in Rows, owner'[y] = owner[y], status'[y] = status[y], dests' = dests
  PROVE  MildlyMoved(y)
BY DEF OnceInv, RemovedIsGone, MildlyMoved

\* Each call of performDelivery.
LEMMA DeliverRowKeepsOnce ==
  ASSUME Parts, OnceInv, ConstantsAssumption, Undisturbed, NEW r \in Runners, NEW x \in Rows,
         DeliverRow(r, x)
  PROVE  OnceInv'
<1> DestOf[x] \in Dests
  BY ConstantsAssumption DEF ConstantsAssumption
<1>1. ~StoreMayFail /\ "abandon" \notin Disturbances /\ phase[r] # "stopping"
  BY DEF Undisturbed, StoreMayFail, OnceInv, OneProcess
<1>2. pc[r][x] # "none"
  BY <1>1 DEF DeliverRow, StartDeliveryAttempt, SkipDelivery, SendRequest, SuppressRequest,
     SendAccepted, SendRejected, SendRateLimited, AbandonSend, DeliveryPanics,
     MarkDeliverySentOwned, FinishSentAttempt, FinalizeDeliverySent, MarkDeliveryFailedOwned,
     FinishFailedAttempt, FinishDeliveryRateLimitedAttempt, MarkDeliveryRateLimitedOwned
<1>3. /\ phase[r] \in {"claimed", "sending"} /\ (pc[r][x] # "queued" => phase[r] = "sending")
      /\ owner[x] \in {r, None} /\ status[x] # "absent" /\ accepted[x] \in 0 .. 1
      /\ DestOf[x] \notin dests => status[x] = "gone"
      /\ pc[r][x] \notin {"marked", "counted"} => status[x] \in Open \cup {"gone"}
      /\ pc[r][x] \in {"lost", "finalize"} => owner[x] = None
      /\ pc[r][x] = "marked" => accepted[x] = 0 \/ status[x] \in {"sent", "gone"}
      /\ pc[r][x] \notin {"accepted", "marked", "lost", "finalize"} => accepted[x] = 0
  BY <1>2, RowInBatch
<1>4. UNCHANGED <<phase, dests>> /\ None \notin Runners
  BY ConstantsAssumption
  DEF DeliverRow, StartDeliveryAttempt, SkipDelivery, SendRequest, SuppressRequest,
     SendAccepted, SendRejected, SendRateLimited, AbandonSend, DeliveryPanics,
     MarkDeliverySentOwned, FinishSentAttempt, FinalizeDeliverySent, MarkDeliveryFailedOwned,
     FinishFailedAttempt, FinishDeliveryRateLimitedAttempt, MarkDeliveryRateLimitedOwned,
     memberVars, ConstantsAssumption
<1>5. owner[x] # None => status[x] = "pending"
  BY DEF Parts, StoreInv, OwnedIsPending
\* A step of the row that leaves the queue and what was accepted alone.
<1>6. ASSUME NEW to \in Stages, pc' = [pc EXCEPT ![r][x] = to], phase[r] = "sending",
             UNCHANGED <<status, owner, accepted>>,
             to \notin {"none", "marked", "counted"} => status[x] \in Open \cup {"gone"},
             to \in {"lost", "finalize"} => owner[x] = None,
             accepted[x] > 0 => \/ status[x] \in {"sent", "gone"}
                               \/ to \in {"accepted", "lost", "finalize"},
             to \notin {"none", "accepted", "marked", "lost", "finalize"} => accepted[x] = 0
      PROVE  OnceInv'
  <2>1. \A y \in Rows : MildlyMoved(y)
    BY <1>4, <1>6, StillRow
  <2>2. DestOf[x] \notin dests => status'[x] \in {"absent", "gone"}
    BY <1>3, <1>6
  <2>8. GoesOn(r, x, to)
    BY <1>3, <1>4, <1>6, <2>1, <2>2 DEF GoesOn
  <2>9. FitsStage(x, to)
    BY <1>3, <1>4, <1>6, <2>1, <2>2 DEF FitsStage
  <2> QED BY <2>8, <2>9, <1>3, <1>4, <1>6, <2>1, <2>2, RowStepKeepsOnce
<1>7. CASE \/ StartDeliveryAttempt(r, x) \/ SendRequest(r, x) \/ SuppressRequest(r, x)
           \/ SendRejected(r, x) \/ SendRateLimited(r, x) \/ DeliveryPanics(r, x)
           \/ FinishDeliveryRateLimitedAttempt(r, x)
  <2>1. PICK to \in {"pacing", "sending", "limited", "rejected", "cooling"} :
          pc' = [pc EXCEPT ![r][x] = to]
    BY <1>7 DEF StartDeliveryAttempt, SendRequest, SuppressRequest, SendRejected, SendRateLimited,
       DeliveryPanics, FinishDeliveryRateLimitedAttempt, GoTo, RateLimited
  <2>2. /\ UNCHANGED <<status, owner, accepted>> /\ phase[r] = "sending"
        /\ pc[r][x] \in {"queued", "pacing", "sending", "limited"}
    BY <1>3, <1>7 DEF StartDeliveryAttempt, SendRequest, SuppressRequest, SendRejected,
       SendRateLimited, DeliveryPanics, FinishDeliveryRateLimitedAttempt, rowVars, sendVars
  <2>3. /\ accepted[x] = 0 /\ ~(accepted[x] > 0) /\ status[x] \in Open \cup {"gone"}
        /\ to \in Stages /\ to \notin {"lost", "finalize"}
    BY <1>3, <2>2 DEF Stages
  <2> QED BY <1>6, <2>1, <2>2, <2>3
<1>8. CASE SkipDelivery(r, x) \/ AbandonSend(r, x)
  BY <1>1, <1>8 DEF SkipDelivery, AbandonSend
<1>9. CASE SendAccepted(r, x)
  <2>1. /\ pc[r][x] = "sending" /\ pc' = [pc EXCEPT ![r][x] = "accepted"]
        /\ UNCHANGED <<status, owner>> /\ Accept({x})
    BY <1>9 DEF SendAccepted, GoTo, rowVars
  <2>2. accepted[x] = 0 /\ status[x] \in Open \cup {"gone"} /\ phase[r] = "sending"
    BY <1>3, <2>1
  <2>3. accepted'[x] = 1 /\ \A y \in Rows : y # x => accepted'[y] = accepted[y]
    BY <2>1, <2>2 DEF Accept, AcceptCap
  <2>4. \A y \in Rows : MildlyMoved(y)
    BY <1>4, <2>1, StillRow
  <2>5. "accepted" \in Stages
    BY DEF Stages
  <2>6. DestOf[x] \notin dests => status'[x] \in {"absent", "gone"}
    BY <1>3, <2>1
  <2>8. GoesOn(r, x, "accepted")
    BY <1>4, <2>1, <2>2, <2>3, <2>4, <2>5, <2>6 DEF GoesOn
  <2>9. FitsStage(x, "accepted")
    BY <1>4, <2>1, <2>2, <2>3, <2>4, <2>5, <2>6 DEF FitsStage
  <2> QED BY <2>8, <2>9, <1>4, <2>1, <2>2, <2>3, <2>4, <2>5, <2>6, RowStepKeepsOnce
<1>10. ASSUME BecomeSent(x), status[x] \in Open, NEW to \in {"marked", "none"},
              pc' = [pc EXCEPT ![r][x] = to], phase[r] = "sending", UNCHANGED accepted
       PROVE  OnceInv'
  <2>1. /\ status' = [status EXCEPT ![x] = "sent"]
        /\ \A y \in Rows : owner'[y] = IF y = x THEN None ELSE owner[y]
    BY <1>10 DEF BecomeSent, Unclaim
  <2>2. status'[x] = "sent" /\ \A y \in Rows : y # x => status'[y] = status[y]
    BY <2>1 DEF Parts, StoreInv, RowsTypeOK
  <2>3. \A y \in Rows : y # x => MildlyMoved(y)
    BY <1>4, <2>1, <2>2, StillRow
  <2>4. DestOf[x] \in dests
    BY <1>3, <1>10 DEF Open
  <2>5. to \in Stages
    BY DEF Stages
  <2>8. GoesOn(r, x, to)
    BY <1>3, <1>4, <1>10, <2>1, <2>2, <2>3, <2>4, <2>5 DEF GoesOn
  <2>9. FitsStage(x, to)
    BY <1>3, <1>4, <1>10, <2>1, <2>2, <2>3, <2>4, <2>5 DEF FitsStage
  <2> QED BY <2>8, <2>9, <1>3, <1>4, <1>10, <2>1, <2>2, <2>3, <2>4, <2>5, RowStepKeepsOnce
<1>11. CASE MarkDeliverySentOwned(r, x)
  <2>1. pc[r][x] = "accepted" /\ phase[r] = "sending" /\ UNCHANGED accepted
    BY <1>3, <1>11 DEF MarkDeliverySentOwned, sendVars
  <2>2. CASE owner[x] = r /\ BecomeSent(x) /\ GoTo(r, x, "marked")
    <3>1. status[x] \in Open
      BY <1>4, <1>5, <2>2 DEF Open
    <3> QED BY <1>10, <2>1, <2>2, <3>1 DEF GoTo
  <2>3. CASE owner[x] # r /\ GoTo(r, x, "lost") /\ UNCHANGED <<rowVars, runStatus>>
    <3>1. /\ owner[x] = None /\ UNCHANGED <<status, owner>>
          /\ pc' = [pc EXCEPT ![r][x] = "lost"] /\ "lost" \in Stages
          /\ status[x] \in Open \cup {"gone"}
      BY <1>3, <2>1, <2>3 DEF rowVars, GoTo, Stages
    <3> QED BY <1>6, <2>1, <3>1
  <2> QED BY <1>1, <1>11, <2>2, <2>3 DEF MarkDeliverySentOwned
<1>12. CASE FinishSentAttempt(r, x)
  <2>1. /\ pc[r][x] \in {"marked", "lost"} /\ phase[r] = "sending"
        /\ UNCHANGED <<status, owner, accepted>>
    BY <1>3, <1>12 DEF FinishSentAttempt, rowVars, sendVars
  <2>2. \/ pc[r][x] = "lost" /\ pc' = [pc EXCEPT ![r][x] = "finalize"]
        \/ /\ pc[r][x] = "marked" \/ DestOf[x] \notin dests
           /\ pc' = [pc EXCEPT ![r][x] = "none"]
    BY <1>1, <1>12, <2>1 DEF FinishSentAttempt, GoTo, Leave
  <2>3. "finalize" \in Stages /\ "none" \in Stages
    BY DEF Stages
  <2>4. CASE pc[r][x] = "lost" /\ pc' = [pc EXCEPT ![r][x] = "finalize"]
    BY <1>3, <1>6, <2>1, <2>3, <2>4
  <2>5. CASE /\ pc[r][x] = "marked" \/ DestOf[x] \notin dests
             /\ pc' = [pc EXCEPT ![r][x] = "none"]
    <3>1. accepted[x] > 0 => status[x] \in {"sent", "gone"}
      BY <1>3, <2>5
    <3> QED BY <1>6, <2>1, <2>3, <2>5, <3>1
  <2> QED BY <2>2, <2>4, <2>5
<1>13. CASE FinalizeDeliverySent(r, x)
  <2>1. /\ pc[r][x] = "finalize" /\ phase[r] = "sending" /\ UNCHANGED accepted
        /\ pc' = [pc EXCEPT ![r][x] = "none"] /\ owner[x] = None
    BY <1>3, <1>13 DEF FinalizeDeliverySent, Leave, sendVars
  <2>2. CASE status[x] \in Open /\ BecomeSent(x)
    BY <1>10, <2>1, <2>2
  <2>3. CASE status[x] \notin Open /\ UNCHANGED <<rowVars, runStatus>>
    <3>1. status[x] = "gone" /\ UNCHANGED <<status, owner>> /\ "none" \in Stages
      BY <1>3, <2>1, <2>3 DEF rowVars, Stages
    <3> QED BY <1>6, <2>1, <3>1
  <2> QED BY <1>1, <1>13, <2>1, <2>2, <2>3 DEF FinalizeDeliverySent
<1>14. CASE MarkDeliveryFailedOwned(r, x)
  <2>1. /\ pc[r][x] = "rejected" /\ phase[r] = "sending" /\ UNCHANGED accepted
        /\ pc' = [pc EXCEPT ![r][x] = "counted"] /\ accepted[x] = 0 /\ "counted" \in Stages
    BY <1>3, <1>14 DEF MarkDeliveryFailedOwned, GoTo, sendVars, Stages
  <2>2. CASE owner[x] = r /\ BecomeFailed(r, x)
    <3>1. /\ \A y \in Rows : y # x => status'[y] = status[y]
          /\ \A y \in Rows : owner'[y] = IF y = x THEN None ELSE owner[y]
      BY <2>2 DEF BecomeFailed, Unclaim, Parts, StoreInv, RowsTypeOK
    <3>2. \A y \in Rows : y # x => MildlyMoved(y)
      BY <1>4, <3>1, StillRow
    <3>3. DestOf[x] \in dests
      BY <1>3, <1>4, <1>5, <2>2
    <3>8. GoesOn(r, x, "counted")
      BY <1>4, <2>1, <3>1, <3>2, <3>3 DEF GoesOn
    <3>9. FitsStage(x, "counted")
      BY <1>4, <2>1, <3>1, <3>2, <3>3 DEF FitsStage
    <3> QED BY <3>8, <3>9, <1>4, <2>1, <3>1, <3>2, <3>3, RowStepKeepsOnce
  <2>3. CASE UNCHANGED <<rowVars, runStatus>>
    <3>1. UNCHANGED <<status, owner>> /\ ~(accepted[x] > 0)
      BY <2>1, <2>3 DEF rowVars
    <3> QED BY <1>6, <2>1, <3>1
  <2> QED BY <1>14, <2>2, <2>3 DEF MarkDeliveryFailedOwned
<1>15. CASE FinishFailedAttempt(r, x)
  <2>1. /\ pc[r][x] = "counted" /\ phase[r] = "sending" /\ UNCHANGED accepted
        /\ pc' = [pc EXCEPT ![r][x] = "none"] /\ accepted[x] = 0 /\ "none" \in Stages
    BY <1>3, <1>15 DEF FinishFailedAttempt, Leave, sendVars, Stages
  <2>2. \A y \in Rows :
          \/ status'[y] = status[y] /\ owner'[y] = owner[y]
          \/ (status[y] = "pending" /\ status'[y] = "blocked") /\ owner'[y] = None
    BY <1>15 DEF FinishFailedAttempt, RecordFailure, Runnable, Unclaim, rowVars
  <2>3. \A y \in Rows : MildlyMoved(y)
    BY <1>4, <2>2 DEF MildlyMoved, Open, OnceInv, RemovedIsGone
  <2>8. GoesOn(r, x, "none")
    BY <1>4, <2>1, <2>3 DEF GoesOn, MildlyMoved
  <2>9. FitsStage(x, "none")
    BY <1>4, <2>1, <2>3 DEF FitsStage, MildlyMoved
  <2> QED BY <2>8, <2>9, <1>4, <2>1, <2>3, RowStepKeepsOnce
<1>16. CASE MarkDeliveryRateLimitedOwned(r, x)
  <2>1. /\ pc[r][x] = "cooling" /\ phase[r] = "sending" /\ UNCHANGED accepted
        /\ pc' = [pc EXCEPT ![r][x] = "none"] /\ accepted[x] = 0 /\ "none" \in Stages
    BY <1>3, <1>16 DEF MarkDeliveryRateLimitedOwned, Leave, sendVars, Stages
  <2>2. \A y \in Rows :
          \/ status'[y] = status[y] /\ owner'[y] = owner[y]
          \/ y = x /\ owner[x] = r /\ status'[x] = "pending" /\ owner'[x] = None
    BY <1>16 DEF MarkDeliveryRateLimitedOwned, Unclaim, rowVars, Parts, StoreInv, RowsTypeOK
  <2>3. \A y \in Rows : MildlyMoved(y)
    BY <1>4, <1>5, <2>2 DEF MildlyMoved, Open, OnceInv, RemovedIsGone
  <2>8. GoesOn(r, x, "none")
    BY <1>4, <2>1, <2>3 DEF GoesOn, MildlyMoved
  <2>9. FitsStage(x, "none")
    BY <1>4, <2>1, <2>3 DEF FitsStage, MildlyMoved
  <2> QED BY <2>8, <2>9, <1>4, <2>1, <2>3, RowStepKeepsOnce
<1> QED BY <1>7, <1>8, <1>9, <1>11, <1>12, <1>13, <1>14, <1>15, <1>16 DEF DeliverRow

\* The two claims of a batch: what they take, nobody was told about.
LEMMA ClaimsKeepOnce ==
  ASSUME Parts, OnceInv, ConstantsAssumption, NEW r \in Runners, NEW S \in SUBSET Rows,
         NEW E \in {EligibleEvents, EligibleDigests}, S \subseteq E, TakeClaims(r, S),
         UNCHANGED <<status, dests, accepted>>,
         \/ E = EligibleEvents /\ phase[r] = "idle" /\ phase' = [phase EXCEPT ![r] = "claimed"]
         \/ E = EligibleDigests /\ phase[r] = "claimed" /\ phase' = [phase EXCEPT ![r] = "sending"]
  PROVE  OnceInv'
<1>1. /\ phase[r] # "down" /\ phase'[r] \in {"claimed", "sending"}
      /\ \A q \in Runners : q # r => phase'[q] = phase[q] /\ phase[q] = "down"
  BY DEF Parts, TaskInv, TasksTypeOK, OnceInv, OneProcess
<1>2. /\ \A x \in Rows : pc'[r][x] = IF x \in S THEN "queued" ELSE pc[r][x]
      /\ \A q \in Runners, x \in Rows : q # r => pc'[q][x] = pc[q][x]
      /\ \A x \in Rows : owner'[x] = IF x \in S THEN r ELSE owner[x]
  BY DEF TakeClaims, Parts, TaskInv, TasksTypeOK
<1>3. \A x \in S : status[x] = "pending"
  BY DEF EligibleEvents, EligibleDigests, Eligible
<1>4. \A q \in Runners, x \in Rows : q # r => pc[q][x] = "none"
  BY <1>1 DEF OnceInv, BatchesAreApart
<1>5. \A x \in Rows : pc[r][x] \in {"none", "queued"}
  BY DEF OnceInv, BatchesAreApart
<1>6. \A x \in S : accepted[x] = 0
  <2>1. \A x \in S : ~(accepted[x] > 0)
    BY <1>3, <1>4, <1>5 DEF OnceInv, AcceptedIsSettled
  <2> QED BY <2>1 DEF Parts, TaskInv, SendersTypeOK
<1>7. OneProcess'
  BY <1>1 DEF OneProcess, OnceInv
<1>8. BatchesAreApart'
  <2>1. CASE E = EligibleEvents /\ phase[r] = "idle" /\ phase' = [phase EXCEPT ![r] = "claimed"]
    <3>1. \A x \in Rows : pc[r][x] = "none"
      BY <2>1 DEF OnceInv, BatchesAreApart
    <3>2. \A x \in S : ~IsDigest(x)
      BY <2>1 DEF EligibleEvents
    <3>3. ASSUME NEW q \in Runners, NEW x \in Rows, pc'[q][x] # "none"
          PROVE  q = r /\ x \in S /\ pc'[q][x] = "queued"
      BY <1>2, <1>4, <3>1, <3>3
    <3> QED BY <1>1, <3>2, <3>3 DEF BatchesAreApart, IsDigest
  <2>2. CASE phase' = [phase EXCEPT ![r] = "sending"]
    <3>1. phase'[r] = "sending"
      BY <2>2 DEF Parts, TaskInv, TasksTypeOK
    <3> QED BY <1>2, <1>4, <3>1 DEF BatchesAreApart
  <2> QED BY <2>1, <2>2
<1>9. OwnersServe'
  <2>1. \A x \in Rows : owner[x] # None => owner[x] = r
    BY <1>1 DEF OnceInv, OwnersServe, Parts, StoreInv, RowsTypeOK
  <2> QED BY <1>1, <1>2, <2>1 DEF OwnersServe
<1>10. RemovedIsGone' /\ DeliveredOnce'
  BY DEF OnceInv, RemovedIsGone, DeliveredOnce
<1>11. WorkersSettle'
  BY <1>2, <1>3, <1>4, <1>5 DEF OnceInv, WorkersSettle, Open
<1>12. AcceptedIsSettled'
  BY <1>2, <1>4, <1>5, <1>6 DEF OnceInv, AcceptedIsSettled
<1> QED BY <1>7, <1>8, <1>9, <1>10, <1>11, <1>12 DEF OnceInv

LEMMA ProcessKeepsOnce ==
  ASSUME Parts, OnceInv, ConstantsAssumption, Undisturbed, NEW r \in Runners,
         Run(r) \/ Shutdown(r) \/ Crash(r) \/ DeliveryTask(r)
  PROVE  OnceInv'
<1>1. ~Shutdown(r) /\ ~Crash(r) /\ ~DigestClaimFails(r) /\ "overlap" \notin Disturbances
  BY DEF Undisturbed, Uninterrupted, Shutdown, Crash, DigestClaimFails
<1>2. CASE Run(r)
  <2>1. /\ phase[r] = "down" /\ phase' = [phase EXCEPT ![r] = "idle"]
        /\ UNCHANGED <<status, dests, pc, accepted>>
        /\ \A x \in Rows : owner'[x] \in {owner[x], None}
    BY <1>2 DEF Run, ClearExpiredClaims, memberVars, itemVars, sendVars
  <2>2. \A s \in Runners : phase[s] = "down"
    BY <1>1, <1>2 DEF Run, Up, OnceInv, OneProcess
  <2>3. \A s \in Runners : phase'[s] = IF s = r THEN "idle" ELSE "down"
    BY <2>1, <2>2 DEF Parts, TaskInv, TasksTypeOK
  <2>4. \A q \in Runners, x \in Rows : pc'[q][x] = "none"
    BY <2>1, <2>2 DEF OnceInv, BatchesAreApart
  <2>5. OneProcess' /\ BatchesAreApart' /\ WorkersSettle'
    BY <2>3, <2>4 DEF OneProcess, BatchesAreApart, WorkersSettle
  <2>6. \A x \in Rows : owner'[x] = None
    <3>1. \A x \in Rows : owner[x] # None => phase[owner[x]] # "down" /\ owner[x] \in Runners
      BY DEF OnceInv, OwnersServe, Parts, StoreInv, RowsTypeOK
    <3> QED BY <2>1, <2>2, <3>1
  <2>7. OwnersServe' /\ RemovedIsGone' /\ DeliveredOnce'
    BY <2>1, <2>6 DEF OnceInv, OwnersServe, RemovedIsGone, DeliveredOnce
  <2>8. AcceptedIsSettled'
    BY <2>1, <2>4 DEF OnceInv, AcceptedIsSettled
  <2> QED BY <2>5, <2>7, <2>8 DEF OnceInv
<1>3. CASE ClaimDueDeliveries(r)
  <2>1. PICK S \in Claimable(EligibleEvents, BatchLimit - Reservation) : TakeClaims(r, S)
    BY <1>3 DEF ClaimDueDeliveries
  <2>2. S \subseteq EligibleEvents /\ S \in SUBSET Rows
    BY DEF Claimable, EligibleEvents
  <2> QED BY <1>3, <2>1, <2>2, ClaimsKeepOnce DEF ClaimDueDeliveries, memberVars, sendVars
<1>4. CASE ClaimDueDigestDeliveries(r)
  <2>1. PICK S \in Claimable(EligibleDigests, DigestLimit(Cardinality(InBatch(r)))) :
          TakeClaims(r, S)
    BY <1>4 DEF ClaimDueDigestDeliveries
  <2>2. S \subseteq EligibleDigests /\ S \in SUBSET Rows
    BY DEF Claimable, EligibleDigests
  <2> QED BY <1>4, <2>1, <2>2, ClaimsKeepOnce DEF ClaimDueDigestDeliveries, memberVars, sendVars
<1>5. CASE BatchEnds(r)
  <2>1. /\ phase[r] = "sending" /\ phase' = [phase EXCEPT ![r] = "idle"]
        /\ \A x \in Rows : pc[r][x] = "none"
        /\ UNCHANGED <<status, owner, dests, pc, accepted>>
    BY <1>5 DEF BatchEnds, InBatch, OnceInv, OneProcess, rowVars, memberVars, itemVars, sendVars
  <2>2. phase'[r] = "idle" /\ \A s \in Runners : s # r => phase'[s] = phase[s]
    BY <2>1 DEF Parts, TaskInv, TasksTypeOK
  <2>3. OneProcess' /\ BatchesAreApart'
    BY <2>1, <2>2 DEF OnceInv, OneProcess, BatchesAreApart, IsDigest
  <2>4. OwnersServe'
    <3>1. \A x \in Rows : owner[x] # None => phase[owner[x]] # "down" /\ owner[x] \in Runners
      BY DEF OnceInv, OwnersServe, Parts, StoreInv, RowsTypeOK
    <3> QED BY <2>1, <2>2, <3>1 DEF OwnersServe
  <2>5. RemovedIsGone' /\ DeliveredOnce' /\ WorkersSettle' /\ AcceptedIsSettled'
    BY <2>1 DEF OnceInv, RemovedIsGone, DeliveredOnce, WorkersSettle, AcceptedIsSettled
  <2> QED BY <2>3, <2>4, <2>5 DEF OnceInv
<1> QED BY <1>1, <1>2, <1>3, <1>4, <1>5, DeliverRowKeepsOnce DEF DeliveryTask

\* Producers, members, maintenance and time.
LEMMA OthersKeepOnce ==
  ASSUME Parts, OnceInv, ConstantsAssumption,
         \/ \E e \in Events : QueueEvent(e)
         \/ \E g \in Runs : QueueDigest(g)
         \/ Maintenance \/ Members \/ Tick \/ UNCHANGED vars
  PROVE  OnceInv'
<1> USE DEF Open
<1>0. RemovedIsGone /\ RowsTypeOK /\ OwnedIsPending /\ dests \subseteq Dests
  BY DEF OnceInv, Parts, StoreInv, MembersTypeOK
<1>1. UNCHANGED <<phase, pc, accepted>>
  BY DEF QueueEvent, QueueDigest, Maintenance, RecoverExpiredWork, ReleasePauseBlockedDeliveries,
         CancelOrphanedDeliveries, Members, RetryFailedDeliveries, DeleteDestination,
         PauseFollowNotificationRule, Unfollow, Tick, vars, itemVars, sendVars
<1>2. ASSUME NEW g, FanOut(g), UNCHANGED <<owner, dests>>
      PROVE  \A x \in Rows : MildlyMoved(x)
  BY <1>0, <1>2 DEF FanOut, InitialStatus, MildlyMoved, RemovedIsGone
<1>3. ASSUME NEW d \in Dests, RetryFailedDeliveries(d)
      PROVE  \A x \in Rows : MildlyMoved(x)
  BY <1>0, <1>3 DEF RetryFailedDeliveries, Retryable, Unclaim, memberVars, MildlyMoved, RemovedIsGone
<1>4. ASSUME NEW d \in Dests, DeleteDestination(d)
      PROVE  \A x \in Rows : MildlyMoved(x)
  BY <1>0, <1>4 DEF DeleteDestination, Unclaim, MildlyMoved, RemovedIsGone
<1>5. ASSUME NEW S, Cancel(S), UNCHANGED dests
      PROVE  \A x \in Rows : MildlyMoved(x)
  BY <1>0, <1>5 DEF Cancel, Unclaim, MildlyMoved, RemovedIsGone
<1>6. ASSUME ReleasePauseBlockedDeliveries
      PROVE  \A x \in Rows : MildlyMoved(x)
  <2>1. /\ \A x \in Rows : status'[x] = IF x \in PauseBlocked THEN "pending" ELSE status[x]
        /\ \A x \in Rows : owner'[x] = IF x \in PauseBlocked THEN None ELSE owner[x]
        /\ dests' = dests
    BY <1>6 DEF ReleasePauseBlockedDeliveries, Unclaim, memberVars
  <2>2. \A x \in PauseBlocked : status[x] = "blocked"
    BY DEF PauseBlocked
  <2> HIDE DEF PauseBlocked
  <2>3. ASSUME NEW x \in Rows
        PROVE  MildlyMoved(x)
    <3>1. CASE x \in PauseBlocked
      BY <1>0, <2>1, <2>2, <3>1 DEF MildlyMoved, RemovedIsGone
    <3>2. CASE x \notin PauseBlocked
      BY <1>0, <2>1, <3>2 DEF MildlyMoved, RemovedIsGone
    <3> QED BY <3>1, <3>2
  <2> QED BY <2>3
<1>7. ASSUME ClearExpiredClaims \/ UNCHANGED owner, UNCHANGED <<status, dests>>
      PROVE  \A x \in Rows : MildlyMoved(x)
  BY <1>0, <1>7 DEF ClearExpiredClaims, MildlyMoved, RemovedIsGone
<1>8. \A x \in Rows : MildlyMoved(x)
  <2>1. CASE (\E e \in Events : QueueEvent(e)) \/ (\E g \in Runs : QueueDigest(g))
    BY <1>2, <2>1 DEF QueueEvent, QueueDigest, memberVars
  <2>2. CASE Maintenance
    BY <1>5, <1>6, <1>7, <2>2 DEF Maintenance, RecoverExpiredWork, CancelOrphanedDeliveries, memberVars
  <2>3. CASE Members
    BY <1>3, <1>4, <1>5, <1>7, <2>3 DEF Members, PauseFollowNotificationRule, Unfollow
  <2>4. CASE Tick \/ UNCHANGED vars
    BY <1>7, <2>4 DEF Tick, vars, rowVars, memberVars
  <2> QED BY <2>1, <2>2, <2>3, <2>4
<1> HIDE DEF Open
<1> QED BY <1>1, <1>8, MildStepKeepsOnce

\* While one process serves, is not cut short, and none of its sends or writes is
\* given up, no message reaches its member twice: a claim may lapse, the circuit
\* may take it away and a Retry reopen the row while the answer is under way.
THEOREM MessagesArriveOnce == ASSUME Undisturbed PROVE Spec => []DeliveredOnce
<1>1. Init => OnceInv
  <2> SUFFICES ASSUME Init PROVE OnceInv
    OBVIOUS
  <2>1. /\ \A x \in Rows : DestOf[x] \in dests /\ owner[x] = None /\ accepted[x] = 0
        /\ \A r \in Runners : phase[r] = "down" /\ \A x \in Rows : pc[r][x] = "none"
    BY ConstantsAssumption DEF Init, ConstantsAssumption
  <2> QED BY <2>1 DEF OnceInv, OneProcess, BatchesAreApart, OwnersServe, RemovedIsGone,
                      WorkersSettle, AcceptedIsSettled, DeliveredOnce
<1>2. IInv /\ OnceInv /\ [Next]_vars => OnceInv'
  BY ConstantsAssumption, IInvIsParts, ProcessKeepsOnce, OthersKeepOnce DEF Next
<1>3. OnceInv => DeliveredOnce
  BY DEF OnceInv
<1> QED BY <1>1, <1>2, <1>3, Invariance, PTL DEF Spec

-----------------------------------------------------------------------------
(* The limiter of the one process knows every window.                      *)

\* A row's step happens in a process that has a batch.
LEMMA RowIsInBatch ==
  ASSUME NEW r \in Runners, NEW x \in Rows, DeliverRow(r, x)
  PROVE  pc[r][x] # "none" /\ phase' = phase
BY DEF DeliverRow, StartDeliveryAttempt, SkipDelivery, SendRequest, SuppressRequest,
     SendAccepted, SendRejected, SendRateLimited, AbandonSend, DeliveryPanics,
     MarkDeliverySentOwned, FinishSentAttempt, FinalizeDeliverySent, MarkDeliveryFailedOwned,
     FinishFailedAttempt, FinishDeliveryRateLimitedAttempt, MarkDeliveryRateLimitedOwned

\* Where a row's step may lead, and that it concerns that row alone.
MovesTo(r, x, to) ==
  /\ pc' = [pc EXCEPT ![r][x] = to]
  /\ to = "sending" => SendRequest(r, x)
  /\ to = "limited" => SuppressRequest(r, x) \/ SendRateLimited(r, x)
  /\ to = "cooling" => pc[r][x] = "limited"

LEMMA RowMovesAlone ==
  ASSUME NEW r \in Runners, NEW x \in Rows, DeliverRow(r, x)
  PROVE  \E to \in Stages : MovesTo(r, x, to)
<1> USE DEF Stages, GoTo, Leave, RateLimited, MovesTo
<1>1. CASE \/ StartDeliveryAttempt(r, x) \/ SkipDelivery(r, x) \/ SendRequest(r, x)
           \/ SuppressRequest(r, x) \/ SendAccepted(r, x) \/ SendRejected(r, x)
           \/ SendRateLimited(r, x) \/ AbandonSend(r, x) \/ DeliveryPanics(r, x)
  BY <1>1 DEF StartDeliveryAttempt, SkipDelivery, SendRequest, SuppressRequest, SendAccepted,
     SendRejected, SendRateLimited, AbandonSend, DeliveryPanics
<1>2. CASE \/ MarkDeliverySentOwned(r, x) \/ FinishSentAttempt(r, x) \/ FinalizeDeliverySent(r, x)
           \/ MarkDeliveryFailedOwned(r, x) \/ FinishFailedAttempt(r, x)
           \/ FinishDeliveryRateLimitedAttempt(r, x) \/ MarkDeliveryRateLimitedOwned(r, x)
  BY <1>2 DEF MarkDeliverySentOwned, FinishSentAttempt, FinalizeDeliverySent,
     MarkDeliveryFailedOwned, FinishFailedAttempt, FinishDeliveryRateLimitedAttempt,
     MarkDeliveryRateLimitedOwned
<1> QED BY <1>1, <1>2 DEF DeliverRow

\* What a limiter that cools down for g knows of the windows asked for.
Covers(g, W) == \A w \in W : w.left <= g \/ w.hour <= g

\* A step that neither starts a process nor hears a provider.
LEMMA QuietStepKeepsWindow ==
  ASSUME WindowInv, phase' = phase, UNCHANGED <<gate, window>>,
         \A r \in Runners, x \in Rows : pc'[r][x] # "none" => pc[r][x] # "none"
  PROVE  WindowInv'
BY DEF WindowInv, OneProcess, WindowsAreKnown

\* A process that is up starts or ends a batch.
LEMMA PhaseKeepsWindow ==
  ASSUME Parts, WindowInv, NEW r \in Runners, phase[r] # "down",
         NEW to \in {"idle", "claimed", "sending"}, phase' = [phase EXCEPT ![r] = to],
         UNCHANGED <<gate, window>>,
         \A q \in Runners, x \in Rows : q # r => pc'[q][x] = pc[q][x]
  PROVE  WindowInv'
<1>1. \A q \in Runners : phase'[q] = IF q = r THEN to ELSE phase[q]
  BY DEF Parts, TaskInv, TasksTypeOK
<1>2. OneProcess'
  BY <1>1 DEF WindowInv, OneProcess
<1>3. WindowsAreKnown'
  BY <1>1 DEF WindowInv, WindowsAreKnown
<1> QED BY <1>2, <1>3 DEF WindowInv

LEMMA RowKeepsWindow ==
  ASSUME Parts, WindowInv, ConstantsAssumption, NEW r \in Runners, NEW x \in Rows, DeliverRow(r, x)
  PROVE  WindowInv'
<1>1. pc[r][x] # "none" /\ phase' = phase
  BY RowIsInBatch
<1>2. \A q \in Runners, y \in Rows : pc'[q][y] # "none" => pc[q][y] # "none"
  <2>1. PICK to \in Stages : MovesTo(r, x, to)
    BY RowMovesAlone
  <2>2. \A q \in Runners, y \in Rows : <<q, y>> # <<r, x>> => pc'[q][y] = pc[q][y]
    BY <2>1 DEF MovesTo, Parts, TaskInv, TasksTypeOK
  <2> QED BY <1>1, <2>2
<1>3. CASE UNCHANGED <<gate, window>>
  BY <1>1, <1>2, <1>3, QuietStepKeepsWindow
<1>4. CASE SendRateLimited(r, x) /\ ~UNCHANGED <<gate, window>>
  <2> DEFINE d == DestOf[x]
  <2>1. PICK delay \in RateDelays :
          /\ gate' = [gate EXCEPT ![r][d] = LimiterCooldown(gate[r][d], BoundedRetryAfter(delay))]
          /\ window' = [window EXCEPT ![d] =
                           window[d] \cup {[left |-> delay, hour |-> LongestCooldown]}]
    BY <1>4 DEF SendRateLimited
  <2>2. d \in Dests /\ delay \in Nat \ {0} /\ LongestCooldown \in Nat
    BY ConstantsAssumption DEF ConstantsAssumption
  <2> HIDE DEF d
  <2>3. phase[r] # "down" /\ \A q \in Runners : phase[q] # "down" => q = r
    BY <1>1 DEF WindowInv, OneProcess, WindowsAreKnown
  <2>4. /\ gate \in [Runners -> [Dests -> Nat]]
        /\ window \in [Dests -> SUBSET [left : Nat \ {0}, hour : Nat]]
        /\ \A e \in Dests : Covers(gate[r][e], window[e])
    BY <2>3, ConstantsAssumption
    DEF Parts, TaskInv, SendersTypeOK, WindowInv, WindowsAreKnown, ConstantsAssumption, Covers
  <2>5. /\ gate'[r][d] = LimiterCooldown(gate[r][d], BoundedRetryAfter(delay))
        /\ window'[d] = window[d] \cup {[left |-> delay, hour |-> LongestCooldown]}
        /\ \A e \in Dests : e # d => gate'[r][e] = gate[r][e] /\ window'[e] = window[e]
    BY <2>1, <2>2, <2>4
  <2>6. Covers(gate'[r][d], window'[d])
    <3>1. gate[r][d] \in Nat /\ gate[r][d] <= gate'[r][d] /\ gate'[r][d] \in Nat
          /\ (delay <= gate'[r][d] \/ LongestCooldown <= gate'[r][d])
      BY <2>2, <2>4, <2>5 DEF LimiterCooldown, BoundedRetryAfter
    <3>2. ASSUME NEW w \in window[d]
          PROVE  w.left <= gate'[r][d] \/ w.hour <= gate'[r][d]
      <4>1. w.left \in Nat \ {0} /\ w.hour \in Nat /\ (w.left <= gate[r][d] \/ w.hour <= gate[r][d])
        BY <2>2, <2>4 DEF Covers
      <4> QED BY <3>1, <4>1
    <3> QED BY <2>5, <3>1, <3>2 DEF Covers
  <2>7. \A e \in Dests : Covers(gate'[r][e], window'[e])
    BY <2>4, <2>5, <2>6
  <2> QED BY <1>1, <1>2, <2>3, <2>7 DEF WindowInv, OneProcess, WindowsAreKnown, Covers
<1>5. UNCHANGED <<gate, window>> \/ SendRateLimited(r, x)
  BY DEF DeliverRow, StartDeliveryAttempt, SkipDelivery, SendRequest, SuppressRequest,
     SendAccepted, SendRejected, AbandonSend, DeliveryPanics,
     MarkDeliverySentOwned, FinishSentAttempt, FinalizeDeliverySent, MarkDeliveryFailedOwned,
     FinishFailedAttempt, FinishDeliveryRateLimitedAttempt, MarkDeliveryRateLimitedOwned, sendVars
<1> QED BY <1>3, <1>4, <1>5

\* A limiter that knows the windows still knows them a step of the clock later.
LEMMA WanedIsCovered ==
  ASSUME NEW g \in Nat, NEW W \in SUBSET [left : Nat \ {0}, hour : Nat], Covers(g, W)
  PROVE  Covers(Dec(g), Wane(W))
<1> SUFFICES ASSUME NEW w \in W, w.left > 1
             PROVE  w.left - 1 <= Dec(g) \/ Dec(w.hour) <= Dec(g)
  BY DEF Covers, Wane
<1>1. w.left \in Nat \ {0} /\ w.hour \in Nat /\ (w.left <= g \/ w.hour <= g)
  BY DEF Covers
<1> QED BY <1>1 DEF Dec

LEMMA StepKeepsWindow ==
  ASSUME Parts, WindowInv, ConstantsAssumption, Uninterrupted, [Next]_vars
  PROVE  WindowInv'
<1>1. CASE \/ \E e \in Events : QueueEvent(e)
           \/ \E g \in Runs : QueueDigest(g)
           \/ Maintenance \/ Members \/ UNCHANGED vars
  <2>1. UNCHANGED <<phase, pc, gate, window>>
    BY <1>1 DEF QueueEvent, QueueDigest, Maintenance, RecoverExpiredWork,
       ReleasePauseBlockedDeliveries, CancelOrphanedDeliveries, Members, RetryFailedDeliveries,
       DeleteDestination, PauseFollowNotificationRule, Unfollow, vars, itemVars, sendVars
  <2> QED BY <2>1, QuietStepKeepsWindow
<1>2. CASE Tick
  <2>1. /\ UNCHANGED <<phase, pc>>
        /\ \A r \in Runners, d \in Dests : gate'[r][d] = Dec(gate[r][d])
        /\ \A d \in Dests : window'[d] = Wane(window[d])
    BY <1>2 DEF Tick
  <2>2. \A r \in Runners, d \in Dests :
          gate[r][d] \in Nat /\ window[d] \in SUBSET [left : Nat \ {0}, hour : Nat]
    BY ConstantsAssumption DEF Parts, TaskInv, SendersTypeOK, ConstantsAssumption
  <2>3. \A g \in Nat : \A W \in SUBSET [left : Nat \ {0}, hour : Nat] :
          Covers(g, W) => Covers(Dec(g), Wane(W))
    BY WanedIsCovered
  <2>4. Wane({}) = {}
    BY DEF Wane
  <2>5. OneProcess'
    BY <2>1 DEF WindowInv, OneProcess
  <2>6. \A r \in Runners, x \in Rows : pc'[r][x] # "none" => phase'[r] # "down"
    BY <2>1 DEF WindowInv, WindowsAreKnown
  <2>7. \A r \in Runners, d \in Dests : phase'[r] # "down" => Covers(gate'[r][d], window'[d])
    <3> SUFFICES ASSUME NEW r \in Runners, NEW d \in Dests, phase[r] # "down"
                 PROVE  Covers(Dec(gate[r][d]), Wane(window[d]))
      BY <2>1
    <3>1. Covers(gate[r][d], window[d])
      BY DEF WindowInv, WindowsAreKnown, Covers
    <3> QED BY <2>2, <2>3, <3>1
  <2>8. (\A r \in Runners : phase'[r] = "down") => \A d \in Dests : window'[d] = {}
    BY <2>1, <2>4 DEF WindowInv, WindowsAreKnown
  <2> QED BY <2>5, <2>6, <2>7, <2>8 DEF WindowInv, WindowsAreKnown, Covers
<1>3. ASSUME NEW r \in Runners, Run(r)
      PROVE  WindowInv'
  <2>1. /\ phase[r] = "down" /\ phase' = [phase EXCEPT ![r] = "idle"]
        /\ UNCHANGED <<pc, gate, window>>
    BY <1>3 DEF Run, itemVars, sendVars
  <2>2. \A s \in Runners : phase[s] = "down"
    BY <1>3 DEF Run, Up, WindowInv, OneProcess, Uninterrupted
  <2>3. \A d \in Dests : window'[d] = {}
    BY <2>1, <2>2 DEF WindowInv, WindowsAreKnown
  <2>4. \A s \in Runners : phase'[s] = IF s = r THEN "idle" ELSE "down"
    BY <2>1, <2>2 DEF Parts, TaskInv, TasksTypeOK
  <2>5. \A s \in Runners, x \in Rows : pc'[s][x] = "none"
    BY <2>1, <2>2 DEF WindowInv, WindowsAreKnown
  <2>6. \A s \in Runners, d \in Dests : gate'[s][d] >= 0
    BY <2>1, ConstantsAssumption DEF Parts, TaskInv, SendersTypeOK, ConstantsAssumption
  <2> QED BY <2>3, <2>4, <2>5, <2>6 DEF WindowInv, OneProcess, WindowsAreKnown
<1>4. ASSUME NEW r \in Runners, Shutdown(r) \/ Crash(r)
      PROVE  WindowInv'
  BY <1>4 DEF Shutdown, Crash, Uninterrupted
<1>5. ASSUME NEW r \in Runners, ClaimDueDeliveries(r) \/ ClaimDueDigestDeliveries(r)
                                 \/ DigestClaimFails(r) \/ BatchEnds(r)
      PROVE  WindowInv'
  <2>1. phase[r] # "down" /\ UNCHANGED <<gate, window>>
    BY <1>5 DEF ClaimDueDeliveries, ClaimDueDigestDeliveries, DigestClaimFails, BatchEnds, sendVars
  <2>2. phase[r] # "stopping"
    BY DEF WindowInv, OneProcess
  <2>3. PICK to \in {"idle", "claimed", "sending"} : phase' = [phase EXCEPT ![r] = to]
    BY <1>5, <2>2 DEF ClaimDueDeliveries, ClaimDueDigestDeliveries, DigestClaimFails, BatchEnds
  <2>4. \A q \in Runners, x \in Rows : q # r => pc'[q][x] = pc[q][x]
    BY <1>5 DEF ClaimDueDeliveries, ClaimDueDigestDeliveries, DigestClaimFails, BatchEnds, TakeClaims,
                itemVars, Parts, TaskInv, TasksTypeOK
  <2> QED BY <2>1, <2>3, <2>4, PhaseKeepsWindow
<1> QED BY <1>1, <1>2, <1>3, <1>4, <1>5, RowKeepsWindow DEF Next, DeliveryTask

\* A request leaves only through SendRequest, whose limiter let it go.
LEMMA RequestsAreLetGo ==
  ASSUME Parts, WindowInv, ConstantsAssumption, Uninterrupted, [Next]_vars,
         NEW r \in Runners, NEW x \in Rows, pc[r][x] = "pacing", pc'[r][x] = "sending"
  PROVE  FirstHoursAreOver(DestOf[x])
<1>1. ASSUME NEW q \in Runners, NEW y \in Rows, DeliverRow(q, y)
      PROVE  q = r /\ y = x /\ SendRequest(r, x)
  <2>1. PICK to \in Stages : MovesTo(q, y, to)
    BY <1>1, RowMovesAlone
  <2>2. \A p \in Runners, z \in Rows :
          pc'[p][z] = IF p = q /\ z = y THEN to ELSE pc[p][z]
    BY <2>1 DEF MovesTo, Parts, TaskInv, TasksTypeOK
  <2>3. q = r /\ y = x /\ to = "sending"
    BY <2>2
  <2> QED BY <2>1, <2>3 DEF MovesTo
<1>2. ASSUME NEW q \in Runners, NEW S, TakeClaims(q, S)
      PROVE  FALSE
  <2>1. \A p \in Runners, z \in Rows :
          pc'[p][z] = IF p = q /\ z \in S THEN "queued" ELSE pc[p][z]
    BY <1>2 DEF TakeClaims, Parts, TaskInv, TasksTypeOK
  <2> QED BY <2>1
<1>3. ASSUME NEW q \in Runners, DigestClaimFails(q) \/ Crash(q)
      PROVE  FALSE
  <2>1. \A p \in Runners, z \in Rows : pc'[p][z] = IF p = q THEN "none" ELSE pc[p][z]
    <3>1. pc' = [pc EXCEPT ![q] = [z \in Rows |-> "none"]]
      BY <1>3 DEF DigestClaimFails, Crash
    <3> QED BY <3>1 DEF Parts, TaskInv, TasksTypeOK
  <2> QED BY <2>1
<1>4. ASSUME NEW q \in Runners, Run(q) \/ Shutdown(q) \/ BatchEnds(q)
      PROVE  FALSE
  BY <1>4 DEF Run, Shutdown, BatchEnds, itemVars
<1>5. ASSUME \/ \E e \in Events : QueueEvent(e)
             \/ \E g \in Runs : QueueDigest(g)
             \/ Maintenance \/ Members \/ Tick \/ UNCHANGED vars
      PROVE  FALSE
  BY <1>5 DEF QueueEvent, QueueDigest, Maintenance, RecoverExpiredWork, Tick,
     ReleasePauseBlockedDeliveries, CancelOrphanedDeliveries, Members, RetryFailedDeliveries,
     DeleteDestination, PauseFollowNotificationRule, Unfollow, vars, itemVars
<1>6. ASSUME NEW q \in Runners, DeliveryTask(q)
      PROVE  SendRequest(r, x)
  <2>1. CASE ClaimDueDeliveries(q) \/ ClaimDueDigestDeliveries(q)
    BY <1>2, <2>1 DEF ClaimDueDeliveries, ClaimDueDigestDeliveries
  <2> QED BY <1>1, <1>3, <1>4, <1>6, <2>1 DEF DeliveryTask
<1>7. SendRequest(r, x)
  <2>1. CASE \E q \in Runners : Run(q) \/ DeliveryTask(q) \/ Shutdown(q) \/ Crash(q)
    BY <1>3, <1>4, <1>6, <2>1
  <2> QED BY <1>5, <2>1 DEF Next
<1>8. /\ gate[r][DestOf[x]] = 0
      /\ Covers(gate[r][DestOf[x]], window[DestOf[x]])
      /\ window[DestOf[x]] \in SUBSET [left : Nat \ {0}, hour : Nat]
  <2>1. DestOf[x] \in Dests /\ LongestCooldown \in Nat
    BY ConstantsAssumption DEF ConstantsAssumption
  <2>2. gate[r][DestOf[x]] = 0
    BY <1>7 DEF SendRequest
  <2>3. phase[r] # "down"
    BY DEF WindowInv, WindowsAreKnown
  <2>4. Covers(gate[r][DestOf[x]], window[DestOf[x]])
    BY <2>1, <2>3 DEF WindowInv, WindowsAreKnown, Covers
  <2>5. window \in [Dests -> SUBSET [left : Nat \ {0}, hour : 0..LongestCooldown]]
    BY DEF Parts, TaskInv, SendersTypeOK
  <2> QED BY <2>1, <2>2, <2>4, <2>5
<1>9. ASSUME NEW w \in window[DestOf[x]]
      PROVE  w.hour = 0
  <2>1. w.left \in Nat \ {0} /\ w.hour \in Nat /\ (w.left <= 0 \/ w.hour <= 0)
    BY <1>8 DEF Covers
  <2> QED BY <2>1
<1> QED BY <1>9 DEF FirstHoursAreOver

\* While its process lives, no request goes to a destination inside a window its
\* provider asked for, whichever of the workers was told so, unless the window is
\* longer than the longest cooldown and that cooldown has passed since it was asked
\* for. What the limiter keeps is the clamped window; what was asked is not clamped.
THEOREM WindowsAreHonoured == ASSUME Uninterrupted PROVE Spec => RetryWindowHonoured
<1>1. Init => WindowInv
  BY DEF Init, WindowInv, OneProcess, WindowsAreKnown
<1>2. IInv /\ WindowInv /\ [Next]_vars => WindowInv'
  BY ConstantsAssumption, IInvIsParts, StepKeepsWindow
<1>3. IInv /\ WindowInv /\ [Next]_vars =>
        [\A r \in Runners, x \in Rows :
           pc[r][x] = "pacing" /\ pc'[r][x] = "sending" =>
             FirstHoursAreOver(DestOf[x])]_vars
  BY ConstantsAssumption, IInvIsParts, RequestsAreLetGo
<1> QED BY <1>1, <1>2, <1>3, Invariance, PTL DEF Spec, RetryWindowHonoured

-----------------------------------------------------------------------------
(* An untried row waits out the pause.                                     *)

\* Where no provider limits its senders they never cool down.
NobodyCools == \A r \in Runners : /\ \A d \in Dests : gate[r][d] = 0
                                 /\ \A x \in Rows : pc[r][x] \notin {"limited", "cooling"}

\* What a step may do to a row: settle it, count an attempt, leave its due time,
\* or set one that respects the pause.
PutOff(x) == (Deferred(x))' => wait'[x] >= (DeferTo(x))'
WaitsOn(x) ==
  \/ status'[x] \notin Open
  \/ attempts'[x] # 0
  \/ status[x] \in Open /\ attempts[x] = 0 /\ wait'[x] = wait[x]
  \/ PutOff(x)

LEMMA PatienceLasts ==
  ASSUME PauseInv, \A x \in Rows : WaitsOn(x),
         \A x \in Rows : (Deferred(x))' => Deferred(x) /\ (DeferTo(x))' = DeferTo(x)
  PROVE  UntriedWaitsOutThePause'
BY DEF PauseInv, UntriedWaitsOutThePause, WaitsOn, PutOff

LEMMA StaysCool ==
  ASSUME Parts, NobodyCools, ConstantsAssumption, NeverLimited, [Next]_vars
  PROVE  NobodyCools'
<1>1. ASSUME NEW r \in Runners, NEW x \in Rows, DeliverRow(r, x)
      PROVE  NobodyCools'
  <2>1. PICK to \in Stages : MovesTo(r, x, to)
    BY <1>1, RowMovesAlone
  <2>2. ~SendRateLimited(r, x) /\ ~SuppressRequest(r, x)
    <3>1. gate[r][DestOf[x]] = 0
      BY ConstantsAssumption DEF NobodyCools, ConstantsAssumption
    <3> QED BY <3>1 DEF SendRateLimited, SuppressRequest, NeverLimited
  <2>3. to \notin {"limited", "cooling"}
    BY <2>1, <2>2 DEF MovesTo, NobodyCools
  <2>4. \A q \in Runners, y \in Rows :
          pc'[q][y] = IF q = r /\ y = x THEN to ELSE pc[q][y]
    BY <2>1 DEF MovesTo, Parts, TaskInv, TasksTypeOK
  <2>5. gate' = gate
    BY <1>1, <2>2
    DEF DeliverRow, StartDeliveryAttempt, SkipDelivery, SendRequest,
     SendAccepted, SendRejected, AbandonSend, DeliveryPanics,
     MarkDeliverySentOwned, FinishSentAttempt, FinalizeDeliverySent, MarkDeliveryFailedOwned,
     FinishFailedAttempt, FinishDeliveryRateLimitedAttempt, MarkDeliveryRateLimitedOwned, sendVars
  <2> QED BY <2>3, <2>4, <2>5 DEF NobodyCools
<1>2. ASSUME NEW r \in Runners, NEW S, TakeClaims(r, S), gate' = gate
      PROVE  NobodyCools'
  <2>1. \A q \in Runners, y \in Rows :
          pc'[q][y] = IF q = r /\ y \in S THEN "queued" ELSE pc[q][y]
    BY <1>2 DEF TakeClaims, Parts, TaskInv, TasksTypeOK
  <2> QED BY <1>2, <2>1 DEF NobodyCools
<1>3. ASSUME NEW r \in Runners, DigestClaimFails(r) \/ Crash(r)
      PROVE  NobodyCools'
  <2>1. pc' = [pc EXCEPT ![r] = [z \in Rows |-> "none"]]
    BY <1>3 DEF DigestClaimFails, Crash
  <2>2. \A q \in Runners, y \in Rows : pc'[q][y] = IF q = r THEN "none" ELSE pc[q][y]
    BY <2>1 DEF Parts, TaskInv, TasksTypeOK
  <2>3. gate' = gate \/ gate' = [gate EXCEPT ![r] = [d \in Dests |-> 0]]
    BY <1>3 DEF DigestClaimFails, Crash, sendVars
  <2>4. \A q \in Runners, d \in Dests : gate'[q][d] = 0
    BY <2>3 DEF NobodyCools, Parts, TaskInv, SendersTypeOK
  <2> QED BY <2>2, <2>4 DEF NobodyCools
<1>4. ASSUME UNCHANGED pc, gate' = gate \/ Tick
      PROVE  NobodyCools'
  <2>1. \A q \in Runners, d \in Dests : gate'[q][d] = 0
    BY <1>4 DEF NobodyCools, Tick, Dec
  <2> QED BY <1>4, <2>1 DEF NobodyCools
<1>5. ASSUME NEW r \in Runners, Run(r) \/ Shutdown(r) \/ BatchEnds(r)
      PROVE  UNCHANGED <<pc, gate>>
  BY <1>5 DEF Run, Shutdown, BatchEnds, itemVars, sendVars
<1>6. ASSUME \/ \E e \in Events : QueueEvent(e)
             \/ \E g \in Runs : QueueDigest(g)
             \/ Maintenance \/ Members \/ UNCHANGED vars
      PROVE  UNCHANGED <<pc, gate>>
  BY <1>6 DEF QueueEvent, QueueDigest, Maintenance, RecoverExpiredWork,
     ReleasePauseBlockedDeliveries, CancelOrphanedDeliveries, Members, RetryFailedDeliveries,
     DeleteDestination, PauseFollowNotificationRule, Unfollow, vars, itemVars, sendVars
<1>7. ASSUME NEW r \in Runners, DeliveryTask(r)
      PROVE  NobodyCools'
  <2>1. CASE ClaimDueDeliveries(r) \/ ClaimDueDigestDeliveries(r)
    BY <1>2, <2>1 DEF ClaimDueDeliveries, ClaimDueDigestDeliveries, sendVars
  <2> QED BY <1>1, <1>3, <1>4, <1>5, <1>7, <2>1 DEF DeliveryTask
<1>8. CASE Tick
  BY <1>4, <1>8 DEF Tick
<1>9. CASE \E r \in Runners : Run(r) \/ DeliveryTask(r) \/ Shutdown(r) \/ Crash(r)
  BY <1>3, <1>4, <1>5, <1>7, <1>9
<1> QED BY <1>4, <1>6, <1>8, <1>9 DEF Next

\* A worker's step counts an attempt, settles its row, or leaves the due times.
LEMMA RowWaitsOn ==
  ASSUME Parts, NobodyCools, ConstantsAssumption, NEW r \in Runners, NEW x \in Rows,
         DeliverRow(r, x), NEW y \in Rows
  PROVE  WaitsOn(y) \/ (status[y] \notin Open /\ status'[y] = status[y])
<1> USE DEF Open
<1>0. RowsTypeOK /\ tried \in [Runners -> [Rows -> 0..MaxAttempts]] /\ MaxAttempts \in Nat
  BY ConstantsAssumption DEF Parts, StoreInv, TaskInv, TasksTypeOK, ConstantsAssumption
<1>1. CASE UNCHANGED <<status, attempts, wait>>
  BY <1>1 DEF WaitsOn
<1>2. CASE BecomeSent(x)
  <2>1. /\ status' = [status EXCEPT ![x] = "sent"] /\ wait' = wait
        /\ attempts' = [attempts EXCEPT ![x] = @ + 1]
    BY <1>2 DEF BecomeSent
  <2>2. CASE y = x
    BY <1>0, <2>1, <2>2 DEF WaitsOn, RowsTypeOK
  <2>3. CASE y # x
    BY <1>0, <2>1, <2>3 DEF WaitsOn, RowsTypeOK
  <2> QED BY <2>2, <2>3
<1>3. CASE BecomeFailed(r, x)
  <2>1. attempts' = [attempts EXCEPT ![x] = tried[r][x] + 1]
        /\ wait' = [wait EXCEPT ![x] = AfterBatchStart(r, Backoff[tried[r][x] + 1])]
        /\ status' = [status EXCEPT ![x] = RetryStatus(tried[r][x] + 1)]
    BY <1>3 DEF BecomeFailed
  <2>2. tried[r][x] + 1 # 0
    BY <1>0
  <2>3. CASE y = x
    <3>1. attempts'[y] = tried[r][x] + 1
      BY <1>0, <2>1, <2>3 DEF RowsTypeOK
    <3> QED BY <2>2, <3>1 DEF WaitsOn
  <2>4. CASE y # x
    BY <1>0, <2>1, <2>4 DEF WaitsOn, RowsTypeOK
  <2> QED BY <2>3, <2>4
<1>4. ASSUME NEW d, NEW retry, RecordFailure(d, retry)
      PROVE  WaitsOn(y) \/ (status[y] \notin Open /\ status'[y] = status[y])
  <2>1. /\ UNCHANGED <<attempts, wait>>
        /\ status'[y] = status[y] \/ (status[y] = "pending" /\ status'[y] = "blocked")
    BY <1>4 DEF RecordFailure, Runnable
  <2> QED BY <2>1 DEF WaitsOn
<1>5. ~MarkDeliveryRateLimitedOwned(r, x)
  BY DEF NobodyCools, MarkDeliveryRateLimitedOwned
<1>6. CASE \/ StartDeliveryAttempt(r, x) \/ SkipDelivery(r, x) \/ SendRequest(r, x)
           \/ SuppressRequest(r, x) \/ SendAccepted(r, x) \/ SendRejected(r, x)
           \/ SendRateLimited(r, x) \/ AbandonSend(r, x) \/ DeliveryPanics(r, x)
           \/ FinishSentAttempt(r, x) \/ FinishDeliveryRateLimitedAttempt(r, x)
  <2>1. UNCHANGED <<status, attempts, wait>>
    BY <1>6 DEF StartDeliveryAttempt, SkipDelivery, SendRequest, SuppressRequest, SendAccepted,
       SendRejected, SendRateLimited, AbandonSend, DeliveryPanics, FinishSentAttempt,
       FinishDeliveryRateLimitedAttempt, rowVars
  <2> QED BY <1>1, <2>1
<1>7. CASE \/ MarkDeliverySentOwned(r, x) \/ FinalizeDeliverySent(r, x)
           \/ MarkDeliveryFailedOwned(r, x)
  <2>1. BecomeSent(x) \/ BecomeFailed(r, x) \/ UNCHANGED <<status, attempts, wait>>
    BY <1>7 DEF MarkDeliverySentOwned, FinalizeDeliverySent, MarkDeliveryFailedOwned, rowVars
  <2> QED BY <1>1, <1>2, <1>3, <2>1
<1>8. CASE FinishFailedAttempt(r, x)
  BY <1>1, <1>4, <1>8 DEF FinishFailedAttempt, rowVars
<1> QED BY <1>5, <1>6, <1>7, <1>8 DEF DeliverRow

LEMMA StepKeepsPatience ==
  ASSUME Parts, PauseInv, NobodyCools, ConstantsAssumption, [Next]_vars
  PROVE  UntriedWaitsOutThePause'
<1> USE DEF Open
<1>0. /\ RowsTypeOK /\ MembersTypeOK /\ AbsentIsFresh
      /\ \A x \in Rows : ~IsDigest(x) => FollowOf[GroupOf[x]] \in Follows
  BY ConstantsAssumption DEF Parts, StoreInv, ConstantsAssumption, IsDigest
<1>1. ASSUME UNCHANGED memberVars,
             \A x \in Rows : WaitsOn(x) \/ (status[x] \notin Open /\ status'[x] = status[x])
      PROVE  UntriedWaitsOutThePause'
  BY <1>1, PatienceLasts DEF WaitsOn, Deferred, DeferTo, memberVars
<1>2. ASSUME NEW g, FanOut(g), UNCHANGED <<attempts, memberVars>>
      PROVE  UntriedWaitsOutThePause'
  <2> DEFINE new == {x \in Rows : GroupOf[x] = g}
  <2>1. ASSUME NEW x \in Rows
        PROVE  WaitsOn(x) \/ (status[x] \notin Open /\ status'[x] = status[x])
    <3>1. CASE x \in new
      <4>1. wait'[x] = IF Deferred(x) THEN DeferTo(x) ELSE wait[x]
        BY <1>2, <3>1 DEF FanOut
      <4>2. (Deferred(x))' = Deferred(x) /\ (DeferTo(x))' = DeferTo(x)
        BY <1>2 DEF Deferred, DeferTo, memberVars
      <4>3. DeferTo(x) >= DeferTo(x) \/ ~Deferred(x)
        BY <1>0 DEF Deferred, DeferTo, MembersTypeOK
      <4>4. PutOff(x)
        BY <4>1, <4>2, <4>3 DEF PutOff
      <4> QED BY <4>4 DEF WaitsOn
    <3>2. CASE x \notin new
      BY <1>2, <3>2 DEF FanOut, WaitsOn
    <3> QED BY <3>1, <3>2
  <2> QED BY <1>1, <1>2, <2>1
<1>3. ASSUME NEW d \in Dests, RetryFailedDeliveries(d)
      PROVE  UntriedWaitsOutThePause'
  <2> DEFINE rows == Retryable(d)
  <2>1. ASSUME NEW x \in Rows
        PROVE  WaitsOn(x) \/ (status[x] \notin Open /\ status'[x] = status[x])
    <3>1. CASE x \in rows
      <4>1. wait'[x] = IF Deferred(x) THEN DeferTo(x) ELSE 0
        BY <1>3, <3>1 DEF RetryFailedDeliveries
      <4>2. (Deferred(x))' = Deferred(x) /\ (DeferTo(x))' = DeferTo(x)
        BY <1>3 DEF RetryFailedDeliveries, Deferred, DeferTo, memberVars
      <4>3. DeferTo(x) >= DeferTo(x) \/ ~Deferred(x)
        BY <1>0 DEF Deferred, DeferTo, MembersTypeOK
      <4>4. PutOff(x)
        BY <4>1, <4>2, <4>3 DEF PutOff
      <4> QED BY <4>4 DEF WaitsOn
    <3>2. CASE x \notin rows
      BY <1>3, <3>2 DEF RetryFailedDeliveries, WaitsOn
    <3> QED BY <3>1, <3>2
  <2> QED BY <1>1, <1>3, <2>1 DEF RetryFailedDeliveries
<1>4. ASSUME NEW S, \A x \in Rows : status'[x] = IF x \in S THEN "gone" ELSE status[x],
             UNCHANGED <<attempts, wait>>, followed' \subseteq followed,
             \A f \in followed' : pausedFor'[f] = pausedFor[f]
      PROVE  UntriedWaitsOutThePause'
  BY <1>4 DEF PauseInv, UntriedWaitsOutThePause, Deferred, DeferTo
<1>5. ASSUME NEW d \in Dests, DeleteDestination(d)
      PROVE  UntriedWaitsOutThePause'
  BY <1>4, <1>5 DEF DeleteDestination
<1>6. ASSUME NEW S, Cancel(S), UNCHANGED memberVars
      PROVE  UntriedWaitsOutThePause'
  BY <1>4, <1>6 DEF Cancel, memberVars
<1>7. ASSUME NEW f \in Follows, Unfollow(f)
      PROVE  UntriedWaitsOutThePause'
  <2>1. \A h \in followed \ {f} : pausedFor'[h] = pausedFor[h]
    BY <1>0, <1>7 DEF Unfollow, MembersTypeOK
  <2>2. followed' = followed \ {f}
    BY <1>7 DEF Unfollow
  <2> QED BY <1>4, <1>7, <2>1, <2>2 DEF Unfollow, Cancel
<1>8. ASSUME NEW f \in Follows, NEW left \in PauseLengths \cup {0},
             PauseFollowNotificationRule(f, left)
      PROVE  UntriedWaitsOutThePause'
  <2>1. left \in Nat
    BY ConstantsAssumption DEF ConstantsAssumption
  <2>2. SUFFICES ASSUME NEW x \in Rows \ Legacy, status'[x] \in Open, attempts'[x] = 0,
                        (Deferred(x))'
                 PROVE  wait'[x] >= (DeferTo(x))'
    BY DEF UntriedWaitsOutThePause
  <2>3. /\ status[x] \in Open /\ attempts[x] = 0 /\ followed' = followed /\ ~IsDigest(x)
        /\ pausedFor' = [pausedFor EXCEPT ![f] = left]
        /\ FollowOf[GroupOf[x]] \in Follows
    BY <1>0, <1>8, <2>2 DEF PauseFollowNotificationRule, Deferred, IsDigest
  <2>4. CASE FollowOf[GroupOf[x]] = f
    <3>1. (DeferTo(x))' = left /\ left > 0
      BY <1>0, <2>2, <2>3, <2>4 DEF DeferTo, Deferred, MembersTypeOK
    <3>2. wait'[x] = Realigned(x, left)
      BY <1>8, <2>3, <2>4 DEF PauseFollowNotificationRule
    <3> QED BY <2>1, <2>3, <3>1, <3>2 DEF Realigned
  <2>5. CASE FollowOf[GroupOf[x]] # f
    <3>1. (DeferTo(x))' = DeferTo(x) /\ Deferred(x)
      BY <1>0, <2>2, <2>3, <2>5 DEF DeferTo, Deferred, MembersTypeOK
    <3>2. wait'[x] = wait[x]
      BY <1>8, <2>5 DEF PauseFollowNotificationRule
    <3> QED BY <2>3, <3>1, <3>2 DEF PauseInv, UntriedWaitsOutThePause
  <2> QED BY <2>4, <2>5
<1>9. CASE Tick
  <2>1. SUFFICES ASSUME NEW x \in Rows \ Legacy, status'[x] \in Open, attempts'[x] = 0,
                        (Deferred(x))'
                 PROVE  wait'[x] >= (DeferTo(x))'
    BY DEF UntriedWaitsOutThePause
  <2>2. /\ FollowOf[GroupOf[x]] \in Follows /\ wait'[x] = Dec(wait[x])
        /\ pausedFor'[FollowOf[GroupOf[x]]] = Dec(pausedFor[FollowOf[GroupOf[x]]])
        /\ status[x] \in Open /\ attempts[x] = 0 /\ followed' = followed
    BY <1>0, <1>9, <2>1 DEF Tick, Deferred, IsDigest
  <2>3. wait[x] \in Nat /\ pausedFor[FollowOf[GroupOf[x]]] \in Nat
    BY <1>0, <2>2, ConstantsAssumption DEF RowsTypeOK, MembersTypeOK, ConstantsAssumption
  <2>4. Deferred(x)
    BY <2>1, <2>2, <2>3 DEF Deferred, Dec
  <2>5. wait[x] >= pausedFor[FollowOf[GroupOf[x]]]
    BY <2>2, <2>4 DEF PauseInv, UntriedWaitsOutThePause, DeferTo
  <2> QED BY <2>2, <2>3, <2>5 DEF DeferTo, Dec
<1>10. ASSUME UNCHANGED <<status, attempts, wait, memberVars>>
       PROVE  UntriedWaitsOutThePause'
  BY <1>1, <1>10 DEF WaitsOn
<1>11. ASSUME ReleasePauseBlockedDeliveries
       PROVE  UntriedWaitsOutThePause'
  <2>1. UNCHANGED <<attempts, wait, memberVars>>
    BY <1>11 DEF ReleasePauseBlockedDeliveries
  <2>2. ASSUME NEW x \in Rows
        PROVE  status'[x] = status[x] \/ (status[x] = "blocked" /\ status'[x] = "pending")
    BY <1>11 DEF ReleasePauseBlockedDeliveries, PauseBlocked
  <2> QED BY <1>1, <2>1, <2>2 DEF WaitsOn
<1>12. ASSUME NEW r \in Runners, NEW x \in Rows, DeliverRow(r, x)
       PROVE  UntriedWaitsOutThePause'
  <2>1. UNCHANGED memberVars
    BY <1>12 DEF DeliverRow, StartDeliveryAttempt, SkipDelivery, SendRequest, SuppressRequest,
     SendAccepted, SendRejected, SendRateLimited, AbandonSend, DeliveryPanics,
     MarkDeliverySentOwned, FinishSentAttempt, FinalizeDeliverySent, MarkDeliveryFailedOwned,
     FinishFailedAttempt, FinishDeliveryRateLimitedAttempt, MarkDeliveryRateLimitedOwned
  <2> QED BY <1>1, <1>12, <2>1, RowWaitsOn
<1>13. CASE \E r \in Runners : Run(r) \/ DeliveryTask(r) \/ Shutdown(r) \/ Crash(r)
  <2>1. PICK r \in Runners : Run(r) \/ DeliveryTask(r) \/ Shutdown(r) \/ Crash(r)
    BY <1>13
  <2>2. CASE \E x \in Rows : DeliverRow(r, x)
    BY <1>12, <2>2
  <2>3. CASE ~\E x \in Rows : DeliverRow(r, x)
    <3>1. UNCHANGED <<status, attempts, wait, memberVars>>
      BY <2>1, <2>3 DEF DeliveryTask, Run, Shutdown, Crash, ClaimDueDeliveries,
         ClaimDueDigestDeliveries, DigestClaimFails, BatchEnds, rowVars
    <3> QED BY <1>10, <3>1
  <2> QED BY <2>2, <2>3
<1>14. CASE (\E e \in Events : QueueEvent(e)) \/ (\E g \in Runs : QueueDigest(g))
  BY <1>2, <1>14 DEF QueueEvent, QueueDigest
<1>15. CASE Maintenance
  BY <1>6, <1>10, <1>11, <1>15 DEF Maintenance, RecoverExpiredWork, CancelOrphanedDeliveries
<1>16. CASE Members
  BY <1>3, <1>5, <1>7, <1>8, <1>16 DEF Members
<1>17. CASE UNCHANGED vars
  BY <1>10, <1>17 DEF vars, rowVars
<1> QED BY <1>9, <1>13, <1>14, <1>15, <1>16, <1>17 DEF Next

\* Where no provider limits its senders, a message nobody has tried to send waits
\* for the end of the pause of its follow, with any number of processes, crashes
\* and claims that lapse, whichever came first, the row or the pause.
THEOREM PausesAreWaitedOut == ASSUME NeverLimited PROVE Spec => []UntriedWaitsOutThePause
<1>1. Init => PauseInv
  BY ConstantsAssumption DEF Init, PauseInv, UntriedWaitsOutThePause, Deferred,
     ConstantsAssumption, IsDigest
<1>2. PauseInv <=> UntriedWaitsOutThePause /\ NobodyCools
  BY DEF PauseInv, NobodyCools
<1>3. (PauseInv <=> UntriedWaitsOutThePause /\ NobodyCools)'
  BY DEF PauseInv, NobodyCools
<1>4. IInv /\ PauseInv /\ [Next]_vars => PauseInv'
  BY <1>2, <1>3, ConstantsAssumption, IInvIsParts, StaysCool, StepKeepsPatience
<1> QED BY <1>1, <1>2, <1>4, Invariance, PTL DEF Spec
=============================================================================
