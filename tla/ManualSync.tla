----------------------------- MODULE ManualSync -----------------------------
(***************************************************************************)
(* "Sync now" requests (`manual_sync_requests`): a member or the           *)
(* administrator queues one, the runner's synchronization task claims a    *)
(* few with a lease and works through them, maintenance requeues those     *)
(* whose lease lapsed. internal/store/operations.go and                    *)
(* processManualSyncRequests of internal/jobs/jobs.go.                     *)
(*                                                                         *)
(* A store method is one atomic step. A lease is kept as the time left     *)
(* until it expires. A request's number is its primary key, which SQLite   *)
(* gives again once the row with the highest number is deleted.            *)
(***************************************************************************)
EXTENDS Integers, FiniteSets

CONSTANTS
  MaxRequests,    \* rows that exist at the same time
  Members,        \* users
  Artists,        \* artists a request may name
  Retry,          \* what a request of scope 'retry' asks for: all artists
  Runners,        \* processes; a restarted one has a fresh workerID, but only
                  \* a batch in memory relies on the old one, and it is lost
  None,           \* NULL
  MaxQueued, MaxQueuedPerMember, \* maxQueuedManualSyncRequests[PerUser]
  BatchLimit,     \* requests claimed at once
  Lease,          \* lease of one claim
  LongestBatch,   \* a batch is over after this long
  Legacy,         \* rows an earlier release left running, without a lease
  Unanswered,     \* artists whose provider never answers in time
  Disturbances    \* which moves of the environment this instance includes

Ids     == 1..MaxRequests
Targets == Artists \cup {Retry}

ASSUME ConstantsAssumption ==
  /\ MaxRequests \in Nat /\ MaxQueued \in Nat /\ MaxQueuedPerMember \in Nat
  /\ BatchLimit \in Nat \ {0} /\ Lease \in Nat \ {0} /\ LongestBatch \in Nat \ {0}
  /\ Retry \notin Artists /\ None \notin Targets /\ None \notin Runners
  /\ None \notin Members /\ Unanswered \subseteq Artists
  /\ Legacy \subseteq Ids
  /\ Disturbances \subseteq {"crash", "shutdown", "panic", "timeout",
                             "storeError", "overlap", "deleteUser"}

VARIABLES
  status,   \* status of a row; "absent" while there is none with the number
  by,       \* requested_by
  target,   \* artist_id, or Retry for scope 'retry'
  owner,    \* lease_owner
  lease,    \* time left until lease_expires_at
  users,    \* members who have an account
  phase,    \* where a process is in processManualSyncRequests
  cancelled, \* processes that received SIGTERM (ctx.Err() # nil)
  place,    \* place of a row in the process's batch, 0 when not in it
  asked,    \* target of the row when the batch claimed it
  item,     \* the request being worked on
  result,   \* what became of it
  age       \* time since the batch was claimed

rowVars  == <<status, by, target, owner, lease>>
taskVars == <<phase, cancelled, place, asked, item, result, age>>
vars     == <<rowVars, users, taskVars>>

Settled == {"completed", "failed"}
Open    == {"queued", "running"}

TypeOK ==
  /\ status \in [Ids -> Open \cup Settled \cup {"absent"}]
  /\ by \in [Ids -> Members \cup {None}]
  /\ target \in [Ids -> Targets \cup {None}]
  /\ owner \in [Ids -> Runners \cup {None}]
  /\ lease \in [Ids -> 0..Lease]
  /\ users \subseteq Members
  /\ phase \in [Runners -> {"down", "idle", "batch", "working", "settling"}]
  /\ cancelled \subseteq Runners
  /\ place \in [Runners -> [Ids -> Nat]]
  /\ asked \in [Runners -> [Ids -> Targets \cup {None}]]
  /\ item \in [Runners -> Ids \cup {None}]
  /\ result \in [Runners -> Settled \cup {None}]
  /\ age \in [Runners -> 0..LongestBatch]

NoPlaces == [i \in Ids |-> 0]
NoAsked  == [i \in Ids |-> None]
Rows     == {i \in Ids : status[i] # "absent"}

Init ==
  /\ status = [i \in Ids |-> IF i \in Legacy THEN "running" ELSE "absent"]
  /\ by \in [Ids -> Members \cup {None}]
  /\ \A i \in Ids : by[i] = None <=> i \notin Legacy
  /\ target \in [Ids -> Targets \cup {None}]
  /\ \A i \in Ids : target[i] = None <=> i \notin Legacy
  /\ \A i, j \in Legacy : target[i] = target[j] => i = j
  /\ owner = [i \in Ids |-> None]
  /\ lease \in [Ids -> 0..Lease] /\ \A i \in Ids \ Legacy : lease[i] = 0
  /\ users = Members
  /\ phase = [r \in Runners |-> "down"] /\ cancelled = {}
  /\ place = [r \in Runners |-> NoPlaces] /\ asked = [r \in Runners |-> NoAsked]
  /\ item = [r \in Runners |-> None] /\ result = [r \in Runners |-> None]
  /\ age = [r \in Runners |-> 0]

-----------------------------------------------------------------------------
(* Members.                                                                *)

QueuedBy(m) == {i \in Ids : status[i] = "queued" /\ by[i] = m}
AllQueued   == {i \in Ids : status[i] = "queued"}

\* A request for the target that is still under way stands for the new one.
\* Mutant: only the waiting ones are looked at.
AlreadyQueued(t) == \E i \in Ids : status[i] = "queued" /\ target[i] = t
AlreadyOpen(t)   == \E i \in Ids : status[i] \in Open /\ target[i] = t

\* The number SQLite gives a new row.
NextId(i) == /\ \A j \in Rows : j < i
             /\ i = 1 \/ i - 1 \in Rows

CreateManualSyncRequest(m, t) ==
  /\ m \in users
  /\ ~AlreadyOpen(t)
  /\ Cardinality(AllQueued) < MaxQueued
  /\ Cardinality(QueuedBy(m)) < MaxQueuedPerMember
  /\ \E i \in Ids :
       /\ NextId(i)
       /\ status' = [status EXCEPT ![i] = "queued"]
       /\ by' = [by EXCEPT ![i] = m]
       /\ target' = [target EXCEPT ![i] = t]
  /\ UNCHANGED <<owner, lease, users, taskVars>>

Remove(S) ==
  /\ status' = [i \in Ids |-> IF i \in S THEN "absent" ELSE status[i]]
  /\ by' = [i \in Ids |-> IF i \in S THEN None ELSE by[i]]
  /\ target' = [i \in Ids |-> IF i \in S THEN None ELSE target[i]]
  /\ owner' = [i \in Ids |-> IF i \in S THEN None ELSE owner[i]]
  /\ lease' = [i \in Ids |-> IF i \in S THEN 0 ELSE lease[i]]

\* Requests go with their member (ON DELETE CASCADE), worked on or not.
DeleteUser(m) ==
  /\ "deleteUser" \in Disturbances
  /\ m \in users
  /\ users' = users \ {m}
  /\ Remove({i \in Rows : by[i] = m})
  /\ UNCHANGED taskVars

-----------------------------------------------------------------------------
(* Maintenance.                                                            *)

\* Mutant: only rows with a lease are looked at.
RequeuedLeased(i) == status[i] = "running" /\ owner[i] # None /\ lease[i] = 0
\* Without an owner there is no lease: the row was started by an earlier
\* release, and its time runs from started_at.
Requeued(i) == status[i] = "running" /\ lease[i] = 0

ClearExpiredRequests ==
  /\ status' = [i \in Ids |-> IF Requeued(i) THEN "queued" ELSE status[i]]
  /\ owner' = [i \in Ids |-> IF Requeued(i) THEN None ELSE owner[i]]
  /\ UNCHANGED <<by, target, lease>>

RecoverExpiredWork ==
  /\ \E r \in Runners : phase[r] # "down"
  /\ \E i \in Ids : Requeued(i)
  /\ ClearExpiredRequests
  /\ UNCHANGED <<users, taskVars>>

\* Any settled rows old enough; how old is a setting.
PruneExpiredState ==
  /\ \E r \in Runners : phase[r] # "down"
  /\ \E S \in SUBSET {i \in Ids : status[i] \in Settled} : S # {} /\ Remove(S)
  /\ UNCHANGED <<users, taskVars>>

-----------------------------------------------------------------------------
(* The synchronization task.                                               *)

\* Waiting, or lost by its worker; rows without a lease are left to
\* RecoverExpiredWork.
Eligible == {i \in Ids : \/ status[i] = "queued"
                         \/ status[i] = "running" /\ owner[i] # None /\ lease[i] = 0}

\* ROW_NUMBER() OVER (PARTITION BY requested_by ORDER BY id)
OwnerRank(i) == Cardinality({j \in Eligible : by[j] = by[i] /\ j <= i})

\* Mutant: oldest request first, whoever asked.
BeforeById(i, j) == i < j
\* ORDER BY owner_rank, id
Before(i, j) == \/ OwnerRank(i) < OwnerRank(j)
                \/ OwnerRank(i) = OwnerRank(j) /\ i < j

Ahead(i) == {j \in Eligible : Before(j, i)}
Chosen   == {i \in Eligible : Cardinality(Ahead(i)) < BatchLimit}

ClaimManualSyncRequests(r) ==
  /\ phase[r] = "idle" /\ r \notin cancelled
  /\ Eligible # {}
  /\ status' = [i \in Ids |-> IF i \in Chosen THEN "running" ELSE status[i]]
  /\ owner' = [i \in Ids |-> IF i \in Chosen THEN r ELSE owner[i]]
  /\ lease' = [i \in Ids |-> IF i \in Chosen THEN Lease ELSE lease[i]]
  /\ place' = [place EXCEPT ![r] =
                 [i \in Ids |-> IF i \in Chosen THEN Cardinality(Ahead(i)) + 1 ELSE 0]]
  /\ asked' = [asked EXCEPT ![r] =
                 [i \in Ids |-> IF i \in Chosen THEN target[i] ELSE None]]
  /\ phase' = [phase EXCEPT ![r] = "batch"]
  /\ age' = [age EXCEPT ![r] = 0]
  /\ UNCHANGED <<by, target, users, cancelled, item, result>>

InBatch(r)    == {i \in Ids : place[r][i] # 0}
IsNext(r, i)  == i \in InBatch(r) /\ \A j \in InBatch(r) : place[r][i] <= place[r][j]

\* What is left of the batch keeps its lease.
LeaveBatch(r) ==
  /\ place' = [place EXCEPT ![r] = NoPlaces]
  /\ asked' = [asked EXCEPT ![r] = NoAsked]
  /\ item' = [item EXCEPT ![r] = None]
  /\ result' = [result EXCEPT ![r] = None]
  /\ age' = [age EXCEPT ![r] = 0]

\* The loop ends with the batch, or because the runner is shutting down.
BatchEnds(r) ==
  /\ phase[r] = "batch" /\ (InBatch(r) = {} \/ r \in cancelled)
  /\ phase' = [phase EXCEPT ![r] = "idle"]
  /\ LeaveBatch(r)
  /\ UNCHANGED <<rowVars, users, cancelled>>

StartRequest(r) ==
  /\ phase[r] = "batch" /\ r \notin cancelled
  /\ \E i \in Ids : IsNext(r, i) /\ item' = [item EXCEPT ![r] = i]
  /\ phase' = [phase EXCEPT ![r] = "working"]
  /\ UNCHANGED <<rowVars, users, cancelled, place, asked, result, age>>

\* The artists were synchronized, or an error other than a context's came back.
SyncReturns(r) ==
  /\ phase[r] = "working" /\ asked[r][item[r]] \notin Unanswered
  /\ \E s \in Settled : result' = [result EXCEPT ![r] = s]
  /\ phase' = [phase EXCEPT ![r] = "settling"]
  /\ UNCHANGED <<rowVars, users, cancelled, place, asked, item, age>>

\* A client's time-out satisfies errors.Is(err, context.DeadlineExceeded).
\* A request for all artists never reports that of one of them.
TimesOut(t) == t # Retry /\ (t \in Unanswered \/ "timeout" \in Disturbances)

\* Taken for a shutdown: the loop ends and the request keeps its lease. So it
\* does when the synchronization panics.
SyncInterrupted(r) ==
  /\ phase[r] = "working"
  /\ \/ r \in cancelled
     \/ TimesOut(asked[r][item[r]])
     \/ "panic" \in Disturbances
  /\ phase' = [phase EXCEPT ![r] = "idle"]
  /\ LeaveBatch(r)
  /\ UNCHANGED <<rowVars, users, cancelled>>

NextRequest(r) ==
  /\ phase' = [phase EXCEPT ![r] = "batch"]
  /\ place' = [place EXCEPT ![r][item[r]] = 0]
  /\ asked' = [asked EXCEPT ![r][item[r]] = None]
  /\ item' = [item EXCEPT ![r] = None]
  /\ result' = [result EXCEPT ![r] = None]

\* Mutant: the lease is not given up.
SettleKeepingLease(i, s) ==
  status' = [status EXCEPT ![i] = s] /\ UNCHANGED <<owner, lease, by, target>>
Settle(i, s) ==
  /\ status' = [status EXCEPT ![i] = s]
  /\ owner' = [owner EXCEPT ![i] = None]
  /\ lease' = [lease EXCEPT ![i] = 0]
  /\ UNCHANGED <<by, target>>

\* Mutant: the update looks for the number and a running row only.
MayCompleteRunning(r, i) == status[i] = "running"
\* Mutant: the update looks for the number only, as an empty owner does.
MayCompleteAny(r, i) == status[i] # "absent"
\* WHERE id=? AND lease_owner=?
MayComplete(r, i) == owner[i] = r

CompleteManualSyncRequestOwned(r) ==
  /\ phase[r] = "settling"
  /\ IF MayComplete(r, item[r]) THEN Settle(item[r], result[r]) ELSE UNCHANGED rowVars
  /\ NextRequest(r)
  /\ UNCHANGED <<users, cancelled, age>>

\* The write fails; it is logged and the loop goes on.
CompletionFails(r) ==
  /\ "storeError" \in Disturbances
  /\ phase[r] = "settling"
  /\ NextRequest(r)
  /\ UNCHANGED <<rowVars, users, cancelled, age>>

-----------------------------------------------------------------------------
(* Processes and time.                                                     *)

\* Run recovers what earlier processes left.
Run(r) ==
  /\ phase[r] = "down"
  /\ "overlap" \in Disturbances \/ \A q \in Runners : phase[q] = "down"
  /\ phase' = [phase EXCEPT ![r] = "idle"]
  /\ ClearExpiredRequests
  /\ UNCHANGED <<users, cancelled, place, asked, item, result, age>>

Shutdown(r) ==
  /\ "shutdown" \in Disturbances
  /\ phase[r] # "down" /\ r \notin cancelled
  /\ cancelled' = cancelled \cup {r}
  /\ UNCHANGED <<rowVars, users, phase, place, asked, item, result, age>>

Ends(r) ==
  /\ phase' = [phase EXCEPT ![r] = "down"]
  /\ cancelled' = cancelled \ {r}
  /\ LeaveBatch(r)
  /\ UNCHANGED <<rowVars, users>>

\* A stopping process ends when its task has returned, and at any time when
\* it crashes.
Exit(r)  == phase[r] = "idle" /\ r \in cancelled /\ Ends(r)
Crash(r) == "crash" \in Disturbances /\ phase[r] # "down" /\ Ends(r)

Busy(r) == phase[r] \in {"batch", "working", "settling"}

Tick ==
  /\ \A r \in Runners : Busy(r) => age[r] < LongestBatch
  /\ lease' = [i \in Ids |-> IF lease[i] > 0 THEN lease[i] - 1 ELSE 0]
  /\ age' = [r \in Runners |-> IF Busy(r) THEN age[r] + 1 ELSE age[r]]
  /\ UNCHANGED <<status, by, target, owner, users, phase, cancelled, place,
                 asked, item, result>>

ManualSyncTask(r) ==
  \/ ClaimManualSyncRequests(r) \/ BatchEnds(r) \/ StartRequest(r)
  \/ SyncReturns(r) \/ SyncInterrupted(r)
  \/ CompleteManualSyncRequestOwned(r) \/ CompletionFails(r)

Next ==
  \/ \E m \in Members : \/ \E t \in Targets : CreateManualSyncRequest(m, t)
                        \/ DeleteUser(m)
  \/ RecoverExpiredWork \/ PruneExpiredState
  \/ \E r \in Runners : \/ Run(r) \/ Shutdown(r) \/ Exit(r) \/ Crash(r)
                        \/ ManualSyncTask(r)
  \/ Tick

Spec == Init /\ [][Next]_vars

(* The task is launched every minute and by every new request, its steps are *)
(* bounded by time-outs, maintenance runs every hour, an ended process is    *)
(* restarted, and time passes.                                               *)
Fairness ==
  /\ SF_vars(Tick)
  /\ \A r \in Runners : WF_vars(Run(r)) /\ WF_vars(Exit(r)) /\ WF_vars(ManualSyncTask(r))
  /\ WF_vars(RecoverExpiredWork)

FairSpec == Spec /\ Fairness

-----------------------------------------------------------------------------
(* Safety.                                                                 *)

\* However members, the task, maintenance and restarts interleave, no target
\* has two requests under way: a recovered request goes back to the queue
\* while nobody could ask for its target again.
OneOpenPerTarget ==
  \A i, j \in Ids : status[i] \in Open /\ status[j] \in Open /\ target[i] = target[j]
                     => i = j

KeepsSettled == \A i \in Ids : status[i] \in Settled => status'[i] \in {status[i], "absent"}

\* "The owner token prevents two runner instances from completing the same
\* durable request": what one process recorded is never overwritten, however
\* late another one, whose lease lapsed, comes with its own result.
SettlesOnce == [][KeepsSettled]_vars

SettlesAsAsked ==
  \A i \in Ids : status[i] \in Open /\ status'[i] \in Settled
    => \E r \in Runners : item[r] = i /\ asked[r][i] = target[i]

\* A request is settled only by work on what it asks for, although the number
\* a worker remembers may meanwhile belong to another member's request.
ServesWhatWasAsked == [][SettlesAsAsked]_vars

\* "Interleaves claims across members": a claim takes a second request of one
\* member only if every member with an eligible request has one in the batch.
ClaimsAreFair ==
  [][\A r \in Runners : ClaimManualSyncRequests(r) =>
       \A i, j \in Chosen : by[i] = by[j] /\ i # j =>
         \A k \in Eligible : \E c \in Chosen : by[c] = by[k]]_vars

\* The inductive invariant: a leased row is being run; and while a process
\* holds the lease of a row of its batch, the row is the one it claimed.
OwnedIsRunning == \A i \in Ids : owner[i] # None => status[i] = "running"
OwnedIsAsked ==
  \A r \in Runners, i \in Ids :
    owner[i] = r /\ place[r][i] # 0 => asked[r][i] = target[i]
WorkedOnIsInBatch ==
  \A r \in Runners : phase[r] \in {"working", "settling"} => item[r] \in InBatch(r)
SettledHasResult ==
  \A r \in Runners : phase[r] = "settling" => result[r] \in Settled

IInv == /\ TypeOK /\ OneOpenPerTarget /\ OwnedIsRunning /\ OwnedIsAsked
        /\ WorkedOnIsInBatch /\ SettledHasResult

-----------------------------------------------------------------------------
(* Liveness, once some process stays up.                                   *)

StaysUp == \E r \in Runners : <>[](phase[r] # "down" /\ r \notin cancelled)

\* Whatever crashes, shutdowns and an upgrade left behind, every request ends
\* up settled or gone with its member.
EveryRequestSettles ==
  StaysUp => \A i \in Ids : status[i] \in Open ~> status[i] \notin Open

\* README: claims are interleaved across members "so one large manual refresh
\* cannot starve other users' requests". The code: a request whose provider
\* keeps timing out ends the loop each time, before those claimed after it.
OthersAreServed ==
  StaysUp => \A i \in Ids, m \in Members :
    status[i] \in Open /\ by[i] = m
      ~> \/ status[i] \notin Open
         \/ \E j \in Ids : by[j] = m /\ target[j] \in Unanswered
=============================================================================
