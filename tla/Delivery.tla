------------------------------ MODULE Delivery ------------------------------
(***************************************************************************)
(* The two durable delivery queues (`deliveries` for release events and    *)
(* `release_digest_deliveries` for digests), the destination circuit       *)
(* breaker (`destination_health`) and the runner's delivery task that      *)
(* drains them: internal/store/notifications.go and performDelivery,       *)
(* deliver and sendNotification of internal/jobs/jobs.go.                  *)
(*                                                                         *)
(* The store has one writer connection, so every store method is one       *)
(* atomic step; what interleaves is the sequence of store calls and the    *)
(* provider call of each row a worker is sending, the members' actions,    *)
(* maintenance, other processes and the passage of time.                   *)
(*                                                                         *)
(* Every stored timestamp is kept as the time LEFT until it (0: due, past  *)
(* or NULL), so nothing bounds the clock; Tick lets one unit pass.         *)
(***************************************************************************)
EXTENDS Integers, FiniteSets

CONSTANTS
  Rows,         \* queue rows; a deleted row is never used again
  Events, Runs, \* what a row delivers: a notification event or a digest run
  GroupOf,      \* the event or run of a row
  Dests, DestOf, \* destinations, and the destination of a row
  Supported,    \* destinations whose transport is still supported
  UserOf,       \* the owner of a destination
  Follows, FollowOf, \* follows, and the follow governing an event's schedule
  Runners,      \* processes; each one is started once (fresh workerID)
  None,         \* claim_owner IS NULL
  MaxAttempts,  \* deliveryMaxAttempts
  PauseAt,      \* consecutive failures that pause a destination
  Lease,        \* lease of one claim
  Backoff,      \* Backoff[n]: delay after the n-th failed attempt
  RateDelays,   \* retry windows a provider may ask for
  LongestCooldown, \* maxNotificationCooldown, the longest that is waited
  RateFallback, \* notificationRateLimitFallback, when it asks for none
  PauseLengths, \* lengths for which a member may pause a follow
  Horizon,      \* no delay is longer than this
  LongestBatch, \* a batch is over after this long: every send and every store
                \* call has a timeout, so the rows per worker bound it
  Workers,      \* maxDeliveryWorkers
  BatchLimit, Reservation, PerUser, \* deliveryBatch, digestReservation,
                                    \* maxDeliveryClaimsPerUser
  Legacy,       \* rows an earlier release left blocked
  Disturbances  \* which moves of the environment this instance includes

ASSUME ConstantsAssumption ==
  /\ Events \cap Runs = {}
  /\ GroupOf \in [Rows -> Events \cup Runs]
  /\ DestOf \in [Rows -> Dests]
  /\ Supported \subseteq Dests
  /\ FollowOf \in [Events -> Follows]
  /\ None \notin Runners
  /\ MaxAttempts \in Nat \ {0} /\ PauseAt \in Nat \ {0}
  /\ Lease \in Nat \ {0} /\ Horizon \in Nat /\ LongestBatch \in Nat \ {0}
  /\ Backoff \in [1..MaxAttempts -> 1..Horizon]
  /\ RateDelays \subseteq Nat \ {0} /\ PauseLengths \subseteq 1..Horizon
  /\ LongestCooldown \in 1..Horizon /\ RateFallback \in 1..LongestCooldown
  /\ Legacy \subseteq {x \in Rows : GroupOf[x] \in Events}
  /\ Disturbances \subseteq {"abandon", "panic", "storeError", "crash",
                             "rateLimit", "shutdown", "overlap", "retry",
                             "delete", "unfollow"}

VARIABLES
  status,    \* status of a row; "absent" before its insert, "gone" once deleted
  attempts,  \* failed attempts counted on the row (and the successful one)
  wait,      \* time left until next_attempt_at
  owner,     \* claim_owner
  lease,     \* time left until claim_expires_at
  health,    \* destination_health.status
  streak,    \* destination_health.consecutive_failures
  cooldown,  \* time left until destination_health.next_retry_at
  runStatus, \* release_digest_runs.status
  dests,     \* destinations that exist
  followed,  \* follows that exist
  pausedFor, \* time left until the follow's paused_until
  phase,     \* what the delivery task of a process is doing
  age,       \* time since the process's batch began (its `now`), up to Horizon
  pc,        \* where the process is with a row of its batch
  tried,     \* Attempts of the claimed snapshot
  recorded,  \* rows with a delivery_attempts row of this send (attemptID > 0)
  retryIn,   \* time left until the nextRetry computed for a rate limit
  gate,      \* process-local cooldown of the sender for a destination
  window,    \* history: the retry windows the provider asked for, what is left
             \* of each, and of LongestCooldown since it was asked for
  accepted   \* history: how often the provider accepted the row's message

rowVars    == <<status, attempts, wait, owner, lease>>
healthVars == <<health, streak, cooldown>>
memberVars == <<dests, followed, pausedFor>>
itemVars   == <<pc, tried, recorded, retryIn>>
sendVars   == <<gate, window, accepted>>
vars == <<rowVars, healthVars, runStatus, memberVars, phase, age, itemVars,
          sendVars>>

-----------------------------------------------------------------------------
Statuses == {"absent", "pending", "blocked", "sent", "failed", "gone"}
Open     == {"pending", "blocked"}
Phases   == {"down", "idle", "claimed", "sending", "stopping", "dead"}

\* Where performDelivery stands with a row: the call it makes next.
Stages == {"none",     \* the row is not in the process's batch
           "queued",   \* claimed, no worker has taken it: startAttempt
           "pacing",   \* sendNotification: waiting for the sender's limiter
           "sending",  \* the request to the provider is outstanding
           "accepted", \* send returned nil: markSent
           "marked",   \* row is sent: FinishDeliveryAttempt(success)
           "lost",     \* claim was gone: FinishDeliveryAttempt(success), then
           "finalize", \*   FinalizeDeliverySent
           "rejected", \* send failed: markFailed
           "counted",  \* row is counted: FinishDeliveryAttempt(failure)
           "limited",  \* rate limited: FinishDeliveryRateLimitedAttempt, then
           "cooling"}  \*   markRateLimited
InFlight == Stages \ {"none", "queued"}

AcceptCap == 2  \* the history tells none, once and more than once apart

RowsTypeOK ==
  /\ status    \in [Rows -> Statuses]
  /\ attempts  \in [Rows -> 0..MaxAttempts]
  /\ wait      \in [Rows -> 0..Horizon]
  /\ owner     \in [Rows -> Runners \cup {None}]
  /\ lease     \in [Rows -> 0..Lease]
  /\ runStatus \in [Runs -> {"none", "pending", "sent", "failed"}]
HealthTypeOK ==
  /\ health    \in [Dests -> {"healthy", "degraded", "paused"}]
  /\ streak    \in [Dests -> Nat]
  /\ cooldown  \in [Dests -> 0..Horizon]
MembersTypeOK ==
  /\ dests \subseteq Dests
  /\ followed \subseteq Follows
  /\ pausedFor \in [Follows -> 0..Horizon]
TasksTypeOK ==
  /\ phase     \in [Runners -> Phases]
  /\ age       \in [Runners -> 0..Horizon]
  /\ pc        \in [Runners -> [Rows -> Stages]]
  /\ tried     \in [Runners -> [Rows -> 0..MaxAttempts]]
  /\ recorded  \in [Runners -> SUBSET Rows]
  /\ retryIn   \in [Runners -> [Rows -> 0..Horizon]]
SendersTypeOK ==
  /\ gate      \in [Runners -> [Dests -> 0..Horizon]]
  /\ window    \in [Dests -> SUBSET [left : Nat \ {0}, hour : 0..LongestCooldown]]
  /\ accepted  \in [Rows -> 0..AcceptCap]
TypeOK == /\ RowsTypeOK /\ HealthTypeOK /\ MembersTypeOK
          /\ TasksTypeOK /\ SendersTypeOK

IsDigest(x) == GroupOf[x] \in Runs
Up(r)       == phase[r] \in {"idle", "claimed", "sending", "stopping"}
Dec(t)      == IF t > 0 THEN t - 1 ELSE 0
\* A delay counted from the start of r's batch, as time left from now.
AfterBatchStart(r, d) == IF d > age[r] THEN d - age[r] ELSE 0
\* A store call may fail (database locked past its budget, disk error).
StoreMayFail == "storeError" \in Disturbances

\* governingFollows: a paused follow defers the events it governs.
Deferred(x) == /\ ~IsDigest(x)
               /\ FollowOf[GroupOf[x]] \in followed
               /\ pausedFor[FollowOf[GroupOf[x]]] > 0
DeferTo(x)  == pausedFor[FollowOf[GroupOf[x]]]

Init ==
  /\ status = [x \in Rows |-> IF x \in Legacy THEN "blocked" ELSE "absent"]
  /\ attempts = [x \in Rows |-> 0]
  /\ wait = [x \in Rows |-> 0]
  /\ owner = [x \in Rows |-> None]
  /\ lease = [x \in Rows |-> 0]
  /\ health = [d \in Dests |-> "healthy"]
  /\ streak = [d \in Dests |-> 0]
  /\ cooldown = [d \in Dests |-> 0]
  /\ runStatus = [g \in Runs |-> "none"]
  /\ dests = Dests
  /\ followed = Follows
  /\ pausedFor = [f \in Follows |-> 0]
  /\ phase = [r \in Runners |-> "down"]
  /\ age = [r \in Runners |-> 0]
  /\ pc = [r \in Runners |-> [x \in Rows |-> "none"]]
  /\ tried = [r \in Runners |-> [x \in Rows |-> 0]]
  /\ recorded = [r \in Runners |-> {}]
  /\ retryIn = [r \in Runners |-> [x \in Rows |-> 0]]
  /\ gate = [r \in Runners |-> [d \in Dests |-> 0]]
  /\ window = [d \in Dests |-> {}]
  /\ accepted = [x \in Rows |-> 0]

-----------------------------------------------------------------------------
(* Producers: an event or a digest run fans out to its owner's destinations. *)

\* Mutant: a new row of a paused destination is runnable.
InitialStatusIgnoringPause(x) == IF DestOf[x] \notin dests THEN "gone"
                                 ELSE IF DestOf[x] \notin Supported THEN "blocked"
                                 ELSE "pending"

\* insertNotificationEventTxMode: one row per destination, blocked at once if
\* the destination cannot be sent to; a deferring follow sets the due time.
InitialStatus(x) == IF DestOf[x] \notin dests THEN "gone"
                    ELSE IF DestOf[x] \notin Supported \/ health[DestOf[x]] = "paused"
                    THEN "blocked" ELSE "pending"

FanOut(g) ==
  LET new == {x \in Rows : GroupOf[x] = g}
  IN /\ new # {}
     /\ \A x \in new : status[x] = "absent"
     /\ status' = [x \in Rows |-> IF x \in new THEN InitialStatus(x) ELSE status[x]]
     /\ wait' = [x \in Rows |-> IF x \in new /\ Deferred(x) THEN DeferTo(x) ELSE wait[x]]

QueueEvent(e) ==
  /\ FollowOf[e] \in followed
  /\ FanOut(e)
  /\ UNCHANGED <<attempts, owner, lease, healthVars, runStatus, memberVars,
                 phase, age, itemVars, sendVars>>

QueueDigest(g) ==
  /\ FanOut(g)
  /\ runStatus' = [runStatus EXCEPT ![g] = "pending"]
  /\ UNCHANGED <<attempts, owner, lease, healthVars, memberVars, phase, age,
                 itemVars, sendVars>>

-----------------------------------------------------------------------------
(* The delivery task of a process: deliver, claims, worker pool.           *)

\* RecoverExpiredWork: expired claims become unclaimed.
Expired(x) == status[x] = "pending" /\ owner[x] # None /\ lease[x] = 0
ClearExpiredClaims ==
  owner' = [x \in Rows |-> IF Expired(x) THEN None ELSE owner[x]]

\* Runner.Run: recovery comes before the first task is launched. The container
\* is restarted when its process ended, unless a second one shares the database.
Run(r) ==
  /\ phase[r] = "down"
  /\ "overlap" \in Disturbances \/ \A s \in Runners : ~Up(s)
  /\ phase' = [phase EXCEPT ![r] = "idle"]
  /\ ClearExpiredClaims \/ (StoreMayFail /\ UNCHANGED owner)
  /\ UNCHANGED <<status, attempts, wait, lease, healthVars, runStatus,
                 memberVars, age, itemVars, sendVars>>

\* The WHERE clause of both due readers.
Eligible(x) ==
  /\ status[x] = "pending" /\ wait[x] = 0
  /\ owner[x] = None \/ lease[x] = 0
  /\ DestOf[x] \in Supported
  /\ health[DestOf[x]] # "paused" /\ cooldown[DestOf[x]] = 0
EligibleEvents  == {x \in Rows : Eligible(x) /\ ~IsDigest(x)}
EligibleDigests == {x \in Rows : Eligible(x) /\ IsDigest(x)}

\* The batch limit, and the per-member cap when several members have work.
\* Which rows are taken first (the oldest due) is left open.
Fits(S, E, limit) ==
  LET of(u, X) == {x \in X : UserOf[DestOf[x]] = u}
      users    == {UserOf[DestOf[x]] : x \in E}
  IN /\ Cardinality(S) <= limit
     /\ Cardinality(users) > 1 => \A u \in users : Cardinality(of(u, S)) <= PerUser
Claimable(E, limit) ==
  {S \in SUBSET E : /\ Fits(S, E, limit)
                    /\ \A x \in E \ S : ~Fits(S \cup {x}, E, limit)}

TakeClaims(r, S) ==
  /\ owner' = [x \in Rows |-> IF x \in S THEN r ELSE owner[x]]
  /\ lease' = [x \in Rows |-> IF x \in S THEN Lease ELSE lease[x]]
  /\ pc' = [pc EXCEPT ![r] = [x \in Rows |-> IF x \in S THEN "queued" ELSE pc[r][x]]]
  /\ tried' = [tried EXCEPT ![r] =
                 [x \in Rows |-> IF x \in S THEN attempts[x] ELSE tried[r][x]]]

\* An empty poll changes nothing, so the batch begins when something is due.
ClaimDueDeliveries(r) ==
  /\ phase[r] = "idle"
  /\ EligibleEvents \cup EligibleDigests # {}
  /\ \E S \in Claimable(EligibleEvents, BatchLimit - Reservation) : TakeClaims(r, S)
  /\ phase' = [phase EXCEPT ![r] = "claimed"]
  /\ UNCHANGED <<status, attempts, wait, healthVars, runStatus, memberVars, age,
                 recorded, retryIn, sendVars>>

\* Mutant: a batch without events returns before the digests.
DigestLimitAfterEvents(taken) == IF taken = 0 THEN 0 ELSE BatchLimit - taken

\* What the normal queue left over goes to the digests, and never less than
\* their reservation.
DigestLimit(taken) == IF BatchLimit - taken < Reservation THEN Reservation
                      ELSE BatchLimit - taken
InBatch(r) == {x \in Rows : pc[r][x] # "none"}

ClaimDueDigestDeliveries(r) ==
  /\ phase[r] = "claimed"
  /\ \E S \in Claimable(EligibleDigests, DigestLimit(Cardinality(InBatch(r)))) :
       TakeClaims(r, S)
  /\ phase' = [phase EXCEPT ![r] = "sending"]
  /\ UNCHANGED <<status, attempts, wait, healthVars, runStatus, memberVars, age,
                 recorded, retryIn, sendVars>>

\* deliver returns on the error: the events it claimed stay claimed, unsent.
DigestClaimFails(r) ==
  /\ phase[r] = "claimed" /\ "storeError" \in Disturbances
  /\ phase' = [phase EXCEPT ![r] = "idle"]
  /\ pc' = [pc EXCEPT ![r] = [x \in Rows |-> "none"]]
  /\ tried' = [tried EXCEPT ![r] = [x \in Rows |-> 0]]
  /\ UNCHANGED <<rowVars, healthVars, runStatus, memberVars, age, recorded,
                 retryIn, sendVars>>

\* Mutant: the guard is kept, so the process never starts another batch.
BatchEndsGuarded(r) ==
  /\ phase[r] = "stopping" /\ InBatch(r) = {}
  /\ phase' = [phase EXCEPT ![r] = "dead"]
  /\ age' = [age EXCEPT ![r] = 0]
  /\ UNCHANGED <<rowVars, healthVars, runStatus, memberVars, itemVars, sendVars>>

\* The task's guard is released once every result has been collected.
BatchEnds(r) ==
  /\ phase[r] \in {"sending", "stopping"}
  /\ InBatch(r) = {}
  /\ phase' = [phase EXCEPT ![r] = IF phase[r] = "sending" THEN "idle" ELSE "dead"]
  /\ age' = [age EXCEPT ![r] = 0]
  /\ UNCHANGED <<rowVars, healthVars, runStatus, memberVars, itemVars, sendVars>>

-----------------------------------------------------------------------------
(* performDelivery, one row at a time.                                     *)

GoTo(r, x, stage) ==
  /\ pc' = [pc EXCEPT ![r][x] = stage]
  /\ UNCHANGED <<tried, recorded, retryIn>>
Leave(r, x) ==
  /\ pc' = [pc EXCEPT ![r][x] = "none"]
  /\ tried' = [tried EXCEPT ![r][x] = 0]
  /\ recorded' = [recorded EXCEPT ![r] = @ \ {x}]
  /\ retryIn' = [retryIn EXCEPT ![r][x] = 0]

\* A free worker takes the next row; events are fed before digests. The
\* attempt row may fail to be written: the send goes ahead without it.
StartDeliveryAttempt(r, x) ==
  /\ phase[r] = "sending" /\ pc[r][x] = "queued"
  /\ Cardinality({y \in Rows : pc[r][y] \in InFlight}) < Workers
  /\ IsDigest(x) => \A y \in InBatch(r) : pc[r][y] = "queued" => IsDigest(y)
  /\ pc' = [pc EXCEPT ![r][x] = "pacing"]
  /\ \/ DestOf[x] \in dests /\ recorded' = [recorded EXCEPT ![r] = @ \cup {x}]
     \/ (DestOf[x] \notin dests \/ StoreMayFail) /\ UNCHANGED recorded
  /\ UNCHANGED <<rowVars, healthVars, runStatus, memberVars, phase, age, tried,
                 retryIn, sendVars>>

\* After cancellation no more rows reach the workers; their claims lapse.
SkipDelivery(r, x) ==
  /\ phase[r] = "stopping" /\ pc[r][x] = "queued"
  /\ Leave(r, x)
  /\ UNCHANGED <<rowVars, healthVars, runStatus, memberVars, phase, age, sendVars>>

\* requestLimiter.wait lets the request through ...
SendRequest(r, x) ==
  /\ pc[r][x] = "pacing" /\ gate[r][DestOf[x]] = 0
  /\ GoTo(r, x, "sending")
  /\ UNCHANGED <<rowVars, healthVars, runStatus, memberVars, phase, age, sendVars>>

\* deliveryRateLimitRetryAt counts from the `now` of the batch.
RateLimited(r, x, delay) ==
  /\ pc' = [pc EXCEPT ![r][x] = "limited"]
  /\ retryIn' = [retryIn EXCEPT ![r][x] = AfterBatchStart(r, delay)]
  /\ UNCHANGED <<tried, recorded>>

\* ... or reports the cooldown it is still in, without a request.
SuppressRequest(r, x) ==
  /\ pc[r][x] = "pacing" /\ gate[r][DestOf[x]] > 0
  /\ RateLimited(r, x, gate[r][DestOf[x]])
  /\ UNCHANGED <<rowVars, healthVars, runStatus, memberVars, phase, age, sendVars>>

Accept(S) == accepted' = [x \in Rows |->
  IF x \in S /\ accepted[x] < AcceptCap THEN accepted[x] + 1 ELSE accepted[x]]

SendAccepted(r, x) ==
  /\ pc[r][x] = "sending"
  /\ Accept({x})
  /\ GoTo(r, x, "accepted")
  /\ UNCHANGED <<rowVars, healthVars, runStatus, memberVars, phase, age, gate, window>>

\* Mutant: the send's error is dropped.
SendErrorDropped(r, x) ==
  /\ pc[r][x] = "sending"
  /\ GoTo(r, x, "accepted")
  /\ UNCHANGED <<rowVars, healthVars, runStatus, memberVars, phase, age, sendVars>>

SendRejected(r, x) ==
  /\ pc[r][x] = "sending"
  /\ GoTo(r, x, "rejected")
  /\ UNCHANGED <<rowVars, healthVars, runStatus, memberVars, phase, age, sendVars>>

\* Mutant: the last answer decides, even a shorter window than before.
LimiterLatest(left, delay) == delay
\* requestLimiter.cooldown
LimiterCooldown(left, delay) == IF delay > left THEN delay ELSE left

\* boundedRetryAfter, parseRetryAfterHeader and deliveryRateLimitRetryAt: however
\* the window is put, no more than an hour of it is kept.
BoundedRetryAfter(delay) == IF delay > LongestCooldown THEN LongestCooldown ELSE delay

\* 429. With a retry window the sender's own limiter cools down too.
SendRateLimited(r, x) ==
  /\ pc[r][x] = "sending" /\ "rateLimit" \in Disturbances
  /\ \/ RateLimited(r, x, RateFallback) /\ UNCHANGED <<gate, window>>
     \/ \E delay \in RateDelays :
          /\ RateLimited(r, x, BoundedRetryAfter(delay))
          /\ gate' = [gate EXCEPT ![r][DestOf[x]] = LimiterCooldown(@, BoundedRetryAfter(delay))]
          /\ window' = [window EXCEPT ![DestOf[x]] =
                           @ \cup {[left |-> delay, hour |-> LongestCooldown]}]
  /\ UNCHANGED <<rowVars, healthVars, runStatus, memberVars, phase, age, accepted>>

\* sendNotification gives up (timeout, cancelled context) while the request is
\* out: it is an ordinary failure here, whatever the provider does with it.
AbandonSend(r, x) ==
  /\ pc[r][x] \in {"pacing", "sending"}
  /\ "abandon" \in Disturbances \/ phase[r] = "stopping"
  /\ \/ UNCHANGED accepted
     \/ pc[r][x] = "sending" /\ Accept({x})
  /\ GoTo(r, x, "rejected")
  /\ UNCHANGED <<rowVars, healthVars, runStatus, memberVars, phase, age, gate, window>>

\* recordDeliveryPanic only counts the row: destination health is not told.
DeliveryPanics(r, x) ==
  /\ pc[r][x] = "pacing" /\ "panic" \in Disturbances
  /\ pc' = [pc EXCEPT ![r][x] = "rejected"]
  /\ recorded' = [recorded EXCEPT ![r] = @ \ {x}]
  /\ UNCHANGED <<rowVars, healthVars, runStatus, memberVars, phase, age, tried,
                 retryIn, sendVars>>

\* Mutant: blocked rows do not keep a run open.
SettleRunWhenClosed(x, st) ==
  LET members == {y \in Rows : GroupOf[y] = GroupOf[x]}
  IN runStatus' = IF IsDigest(x) /\ \A y \in members : st[y] \notin Open
                  THEN [runStatus EXCEPT ![GroupOf[x]] = "sent"]
                  ELSE runStatus

\* A digest run gets its outcome when its last open row settles.
SettleRun(x, st) ==
  LET members == {y \in Rows : GroupOf[y] = GroupOf[x]}
  IN runStatus' = IF IsDigest(x) /\ \A y \in members : st[y] \notin Open
                  THEN [runStatus EXCEPT ![GroupOf[x]] =
                          IF \E y \in members : st[y] = "failed" THEN "failed" ELSE "sent"]
                  ELSE runStatus

Unclaim(S) ==
  /\ owner' = [x \in Rows |-> IF x \in S THEN None ELSE owner[x]]
  /\ lease' = [x \in Rows |-> IF x \in S THEN 0 ELSE lease[x]]

\* The UPDATE both sent transitions make.
BecomeSent(x) ==
  /\ status' = [status EXCEPT ![x] = "sent"]
  /\ attempts' = [attempts EXCEPT ![x] = @ + 1]
  /\ Unclaim({x})
  /\ SettleRun(x, status')
  /\ UNCHANGED wait

\* MarkDeliverySentOwned and its digest counterpart: WHERE claim_owner=owner.
\* If the write fails the row keeps its claim and will be sent again.
MarkDeliverySentOwned(r, x) ==
  /\ pc[r][x] = "accepted"
  /\ \/ owner[x] = r /\ BecomeSent(x) /\ GoTo(r, x, "marked")
     \/ owner[x] # r /\ GoTo(r, x, "lost") /\ UNCHANGED <<rowVars, runStatus>>
     \/ StoreMayFail /\ Leave(r, x) /\ UNCHANGED <<rowVars, runStatus>>
  /\ UNCHANGED <<healthVars, memberVars, phase, age, sendVars>>

\* The finishing call finds its attempt row and its destination's health.
Audited(r, x) == x \in recorded[r] /\ DestOf[x] \in dests

\* Mutants: a late success closes the circuit, or only resets its count.
SuccessCloses(d) ==
  /\ health' = [health EXCEPT ![d] = "healthy"]
  /\ streak' = [streak EXCEPT ![d] = 0]
  /\ cooldown' = [cooldown EXCEPT ![d] = 0]
SuccessResetsCount(d) ==
  /\ health' = [health EXCEPT ![d] = IF @ = "paused" THEN @ ELSE "healthy"]
  /\ streak' = [streak EXCEPT ![d] = 0]
  /\ cooldown' = [cooldown EXCEPT ![d] = 0]

\* FinishDeliveryAttempt(success): a paused destination stays paused.
RecordSuccess(d) ==
  IF health[d] = "paused" THEN UNCHANGED healthVars
  ELSE /\ health' = [health EXCEPT ![d] = "healthy"]
       /\ streak' = [streak EXCEPT ![d] = 0]
       /\ cooldown' = [cooldown EXCEPT ![d] = 0]

FinishSentAttempt(r, x) ==
  /\ pc[r][x] \in {"marked", "lost"}
  /\ \/ /\ Audited(r, x)
        /\ RecordSuccess(DestOf[x])
        /\ IF pc[r][x] = "lost" THEN GoTo(r, x, "finalize") ELSE Leave(r, x)
     \/ /\ x \in recorded[r] /\ (StoreMayFail \/ DestOf[x] \notin dests)
        /\ UNCHANGED healthVars
        /\ Leave(r, x)
     \/ /\ x \notin recorded[r]
        /\ UNCHANGED healthVars
        /\ IF pc[r][x] = "lost" THEN GoTo(r, x, "finalize") ELSE Leave(r, x)
  /\ UNCHANGED <<rowVars, runStatus, memberVars, phase, age, sendVars>>

\* Mutant: a row that was stopped meanwhile is not finalized.
FinalizePendingOnly(r, x) ==
  /\ pc[r][x] = "finalize"
  /\ \/ status[x] = "pending" /\ owner[x] = None /\ BecomeSent(x)
     \/ /\ status[x] # "pending" \/ owner[x] # None \/ StoreMayFail
        /\ UNCHANGED <<rowVars, runStatus>>
  /\ Leave(r, x)
  /\ UNCHANGED <<healthVars, memberVars, phase, age, sendVars>>

\* FinalizeDeliverySent: only an open row nobody has claimed since.
FinalizeDeliverySent(r, x) ==
  /\ pc[r][x] = "finalize"
  /\ \/ status[x] \in Open /\ owner[x] = None /\ BecomeSent(x)
     \/ /\ status[x] \notin Open \/ owner[x] # None \/ StoreMayFail
        /\ UNCHANGED <<rowVars, runStatus>>
  /\ Leave(r, x)
  /\ UNCHANGED <<healthVars, memberVars, phase, age, sendVars>>

\* Mutants: one attempt too many, one too few.
OneAttemptMore(n)  == IF n <= MaxAttempts THEN "pending" ELSE "failed"
OneAttemptFewer(n) == IF n + 1 < MaxAttempts THEN "pending" ELSE "failed"

\* DeliveryRetrySchedule for the n-th failed attempt.
RetryStatus(n) == IF n < MaxAttempts THEN "pending" ELSE "failed"

\* Mutant: the last delay is used for ever and the row never given up.
NeverGivenUp(r, x) ==
  LET n == tried[r][x] + 1 IN
  /\ attempts' = [attempts EXCEPT ![x] = n]
  /\ wait' = [wait EXCEPT ![x] =
                 AfterBatchStart(r, Backoff[IF n < MaxAttempts THEN n ELSE MaxAttempts])]
  /\ Unclaim({x})
  /\ UNCHANGED <<status, runStatus>>

\* The UPDATE both failed transitions make, from the worker's snapshot.
BecomeFailed(r, x) ==
  LET n == tried[r][x] + 1 IN
  /\ status' = [status EXCEPT ![x] = RetryStatus(n)]
  /\ attempts' = [attempts EXCEPT ![x] = n]
  /\ wait' = [wait EXCEPT ![x] = AfterBatchStart(r, Backoff[n])]
  /\ Unclaim({x})
  /\ SettleRun(x, status')

\* Mutant: a worker whose claim is gone counts its failure all the same.
FailedWithoutClaim(r, x) ==
  /\ pc[r][x] = "rejected"
  /\ BecomeFailed(r, x)
  /\ GoTo(r, x, "counted")
  /\ UNCHANGED <<healthVars, memberVars, phase, age, sendVars>>

\* MarkDeliveryFailedOwned and its digest counterpart.
MarkDeliveryFailedOwned(r, x) ==
  /\ pc[r][x] = "rejected"
  /\ \/ owner[x] = r /\ BecomeFailed(r, x)
     \/ /\ owner[x] # r \/ StoreMayFail
        /\ UNCHANGED <<rowVars, runStatus>>
  /\ GoTo(r, x, "counted")
  /\ UNCHANGED <<healthVars, memberVars, phase, age, sendVars>>

\* Mutant: rows with a worker are left alone by the pause.
RunnableUnclaimed(d) == {x \in Rows : /\ DestOf[x] = d /\ status[x] = "pending"
                                      /\ owner[x] = None}

Runnable(d) == {x \in Rows : DestOf[x] = d /\ status[x] = "pending"}

\* FinishDeliveryAttempt(failure): the failure that reaches PauseAt pauses the
\* destination and blocks all its runnable rows, whoever has claimed them.
RecordFailure(d, retry) ==
  /\ streak' = [streak EXCEPT ![d] = @ + 1]
  /\ health' = [health EXCEPT ![d] = IF streak[d] + 1 >= PauseAt THEN "paused" ELSE "degraded"]
  /\ cooldown' = [cooldown EXCEPT ![d] = retry]
  /\ LET stopped == IF streak[d] + 1 >= PauseAt THEN Runnable(d) ELSE {}
     IN /\ status' = [x \in Rows |-> IF x \in stopped THEN "blocked" ELSE status[x]]
        /\ Unclaim(stopped)
  /\ UNCHANGED <<attempts, wait>>

\* nextRetry is the row's own schedule, or nil when there is no next attempt.
FinishFailedAttempt(r, x) ==
  LET n == tried[r][x] + 1
      retry == IF n < MaxAttempts THEN AfterBatchStart(r, Backoff[n]) ELSE 0
  IN
  /\ pc[r][x] = "counted"
  /\ \/ Audited(r, x) /\ RecordFailure(DestOf[x], retry)
     \/ /\ Audited(r, x) => StoreMayFail
        /\ UNCHANGED <<rowVars, healthVars>>
  /\ Leave(r, x)
  /\ UNCHANGED <<runStatus, memberVars, phase, age, sendVars>>

\* FinishDeliveryRateLimitedAttempt: the cooldown is stored first ...
FinishDeliveryRateLimitedAttempt(r, x) ==
  LET d == DestOf[x] IN
  /\ pc[r][x] = "limited"
  /\ \/ /\ Audited(r, x)
        /\ health' = [health EXCEPT ![d] = IF @ = "paused" THEN @ ELSE "degraded"]
        /\ cooldown' = [cooldown EXCEPT ![d] = retryIn[r][x]]
        /\ UNCHANGED streak
     \/ /\ Audited(r, x) => StoreMayFail
        /\ UNCHANGED healthVars
  /\ GoTo(r, x, "cooling")
  /\ UNCHANGED <<rowVars, runStatus, memberVars, phase, age, sendVars>>

\* ... and only then is the row released, its attempt not counted.
MarkDeliveryRateLimitedOwned(r, x) ==
  /\ pc[r][x] = "cooling"
  /\ \/ /\ owner[x] = r
        /\ status' = [status EXCEPT ![x] = "pending"]
        /\ wait' = [wait EXCEPT ![x] = retryIn[r][x]]
        /\ Unclaim({x})
        /\ UNCHANGED attempts
     \/ /\ owner[x] # r \/ StoreMayFail
        /\ UNCHANGED rowVars
  /\ Leave(r, x)
  /\ UNCHANGED <<healthVars, runStatus, memberVars, phase, age, sendVars>>

-----------------------------------------------------------------------------
(* What members do.                                                        *)

\* The rows `now` finds without a live claim.
Unclaimed(x) == owner[x] = None \/ lease[x] = 0

\* Mutants: Retry leaves the blocked rows, or takes the sent ones too.
RetryableFailed(d)  == {x \in Rows : DestOf[x] = d /\ status[x] = "failed"}
RetryableSettled(d) == {x \in Rows : /\ DestOf[x] = d
                                     /\ status[x] \in {"failed", "blocked", "sent"}}

Retryable(d) == {x \in Rows : DestOf[x] = d /\ status[x] \in {"failed", "blocked"}}

\* The destination circuit is reset together with its failed and blocked rows;
\* a deliberate pause keeps deferring them.
RetryFailedDeliveries(d) ==
  LET rows == Retryable(d) IN
  /\ "retry" \in Disturbances /\ d \in dests
  /\ status' = [x \in Rows |-> IF x \notin rows THEN status[x]
                               ELSE IF d \in Supported THEN "pending" ELSE "blocked"]
  /\ attempts' = [x \in Rows |-> IF x \in rows THEN 0 ELSE attempts[x]]
  /\ wait' = [x \in Rows |-> IF x \notin rows THEN wait[x]
                             ELSE IF Deferred(x) THEN DeferTo(x) ELSE 0]
  /\ Unclaim(rows)
  /\ health' = [health EXCEPT ![d] = "healthy"]
  /\ streak' = [streak EXCEPT ![d] = 0]
  /\ cooldown' = [cooldown EXCEPT ![d] = 0]
  /\ UNCHANGED <<runStatus, memberVars, phase, age, itemVars, sendVars>>

\* Its rows and its health go with it (ON DELETE CASCADE).
DeleteDestination(d) ==
  LET rows == {x \in Rows : DestOf[x] = d /\ status[x] # "absent"} IN
  /\ "delete" \in Disturbances /\ d \in dests
  /\ dests' = dests \ {d}
  /\ status' = [x \in Rows |-> IF x \in rows THEN "gone" ELSE status[x]]
  /\ Unclaim(rows)
  /\ UNCHANGED <<attempts, wait, healthVars, runStatus, followed, pausedFor,
                 phase, age, itemVars, sendVars>>

\* Mutant: rows that are already due are not deferred.
RealignedUnlessDue(x, left) ==
  IF left > 0 THEN IF wait[x] > 0 /\ wait[x] < left THEN left ELSE wait[x]
  ELSE IF attempts[x] = 0 THEN 0 ELSE wait[x]

\* realignQueuedDeliveriesTx, with `left` the new pause of the governing follow.
Realigned(x, left) ==
  IF left > 0 THEN IF attempts[x] = 0 \/ wait[x] < left THEN left ELSE wait[x]
  ELSE IF attempts[x] = 0 THEN 0 ELSE wait[x]

\* PauseFollowNotificationRule: pause, extend, or resume (left = 0).
PauseFollowNotificationRule(f, left) ==
  /\ f \in followed
  /\ pausedFor' = [pausedFor EXCEPT ![f] = left]
  /\ wait' = [x \in Rows |->
       IF /\ status[x] \in Open /\ ~IsDigest(x)
          /\ FollowOf[GroupOf[x]] = f
       THEN Realigned(x, left) ELSE wait[x]]
  /\ UNCHANGED <<status, attempts, owner, lease, healthVars, runStatus, dests,
                 followed, phase, age, itemVars, sendVars>>

\* Open rows of events none of whose follows remain, unless being sent.
Orphans(follows) ==
  {x \in Rows : /\ status[x] \in Open /\ ~IsDigest(x) /\ Unclaimed(x)
                /\ FollowOf[GroupOf[x]] \notin follows}
Cancel(rows) ==
  /\ status' = [x \in Rows |-> IF x \in rows THEN "gone" ELSE status[x]]
  /\ Unclaim(rows)
  /\ UNCHANGED <<attempts, wait>>

Unfollow(f) ==
  /\ "unfollow" \in Disturbances /\ f \in followed
  /\ followed' = followed \ {f}
  /\ pausedFor' = [pausedFor EXCEPT ![f] = 0]
  /\ Cancel(Orphans(followed \ {f}))
  /\ UNCHANGED <<healthVars, runStatus, dests, phase, age, itemVars, sendVars>>

-----------------------------------------------------------------------------
(* runMaintenance: each store call is a transaction of its own.            *)

RecoverExpiredWork ==
  /\ \E r \in Runners : Up(r)
  /\ ClearExpiredClaims
  /\ UNCHANGED <<status, attempts, wait, lease, healthVars, runStatus, memberVars,
                 phase, age, itemVars, sendVars>>

\* Mutant: only destinations that have failed since are looked at.
PauseBlockedDegraded == {x \in Rows : /\ status[x] = "blocked" /\ ~IsDigest(x)
                                      /\ DestOf[x] \in Supported
                                      /\ health[DestOf[x]] = "degraded" /\ ~Deferred(x)}

\* Rows an earlier release left blocked after their destination recovered.
\* There is no digest counterpart.
PauseBlocked == {x \in Rows : /\ status[x] = "blocked" /\ ~IsDigest(x)
                              /\ DestOf[x] \in Supported
                              /\ health[DestOf[x]] # "paused" /\ ~Deferred(x)}

ReleasePauseBlockedDeliveries ==
  /\ \E r \in Runners : Up(r)
  /\ status' = [x \in Rows |-> IF x \in PauseBlocked THEN "pending" ELSE status[x]]
  /\ Unclaim(PauseBlocked)
  /\ UNCHANGED <<attempts, wait, healthVars, runStatus, memberVars, phase, age,
                 itemVars, sendVars>>

CancelOrphanedDeliveries ==
  /\ \E r \in Runners : Up(r)
  /\ Cancel(Orphans(followed))
  /\ UNCHANGED <<healthVars, runStatus, memberVars, phase, age, itemVars, sendVars>>

-----------------------------------------------------------------------------
(* Processes and time.                                                     *)

\* SIGTERM: no new batch, no more rows to the workers, started rows finish.
Shutdown(r) ==
  /\ "shutdown" \in Disturbances /\ phase[r] \in {"idle", "claimed", "sending"}
  /\ phase' = [phase EXCEPT ![r] = "stopping"]
  /\ UNCHANGED <<rowVars, healthVars, runStatus, memberVars, age, itemVars, sendVars>>

\* The process dies; the provider may still accept what was on the wire.
Crash(r) ==
  /\ "crash" \in Disturbances /\ Up(r)
  /\ phase' = [phase EXCEPT ![r] = "dead"]
  /\ age' = [age EXCEPT ![r] = 0]
  /\ \E S \in SUBSET {x \in Rows : pc[r][x] = "sending"} : Accept(S)
  /\ pc' = [pc EXCEPT ![r] = [x \in Rows |-> "none"]]
  /\ tried' = [tried EXCEPT ![r] = [x \in Rows |-> 0]]
  /\ recorded' = [recorded EXCEPT ![r] = {}]
  /\ retryIn' = [retryIn EXCEPT ![r] = [x \in Rows |-> 0]]
  /\ gate' = [gate EXCEPT ![r] = [d \in Dests |-> 0]]
  /\ UNCHANGED <<rowVars, healthVars, runStatus, memberVars, window>>

\* A window that is over is forgotten.
Wane(W) == {[left |-> w.left - 1, hour |-> Dec(w.hour)] : w \in {v \in W : v.left > 1}}

\* One unit of time. The two claims of a batch share one `now`: no unit passes
\* between them.
Tick ==
  /\ \A r \in Runners : phase[r] # "claimed" /\ age[r] < LongestBatch
  /\ wait' = [x \in Rows |-> Dec(wait[x])]
  /\ lease' = [x \in Rows |-> Dec(lease[x])]
  /\ cooldown' = [d \in Dests |-> Dec(cooldown[d])]
  /\ pausedFor' = [f \in Follows |-> Dec(pausedFor[f])]
  /\ age' = [r \in Runners |->
       IF phase[r] \in {"sending", "stopping"} /\ age[r] < Horizon THEN age[r] + 1 ELSE age[r]]
  /\ retryIn' = [r \in Runners |-> [x \in Rows |-> Dec(retryIn[r][x])]]
  /\ gate' = [r \in Runners |-> [d \in Dests |-> Dec(gate[r][d])]]
  /\ window' = [d \in Dests |-> Wane(window[d])]
  /\ UNCHANGED <<status, attempts, owner, health, streak, runStatus, dests,
                 followed, phase, pc, tried, recorded, accepted>>

DeliverRow(r, x) ==
  \/ StartDeliveryAttempt(r, x) \/ SkipDelivery(r, x)
  \/ SendRequest(r, x) \/ SuppressRequest(r, x)
  \/ SendAccepted(r, x) \/ SendRejected(r, x) \/ SendRateLimited(r, x)
  \/ AbandonSend(r, x) \/ DeliveryPanics(r, x)
  \/ MarkDeliverySentOwned(r, x) \/ FinishSentAttempt(r, x)
  \/ FinalizeDeliverySent(r, x)
  \/ MarkDeliveryFailedOwned(r, x) \/ FinishFailedAttempt(r, x)
  \/ FinishDeliveryRateLimitedAttempt(r, x) \/ MarkDeliveryRateLimitedOwned(r, x)

DeliveryTask(r) ==
  \/ ClaimDueDeliveries(r) \/ ClaimDueDigestDeliveries(r) \/ DigestClaimFails(r)
  \/ BatchEnds(r)
  \/ \E x \in Rows : DeliverRow(r, x)

Maintenance ==
  RecoverExpiredWork \/ ReleasePauseBlockedDeliveries \/ CancelOrphanedDeliveries

Members ==
  \/ \E d \in Dests : RetryFailedDeliveries(d) \/ DeleteDestination(d)
  \/ \E f \in Follows : \/ \E left \in PauseLengths \cup {0} :
                             PauseFollowNotificationRule(f, left)
                        \/ Unfollow(f)

Next ==
  \/ \E e \in Events : QueueEvent(e)
  \/ \E g \in Runs : QueueDigest(g)
  \/ \E r \in Runners : Run(r) \/ DeliveryTask(r) \/ Shutdown(r) \/ Crash(r)
  \/ Maintenance \/ Members \/ Tick

Spec == Init /\ [][Next]_vars

(* A delivery batch is started every few seconds and each of its steps is     *)
(* bounded by a timeout, maintenance runs every hour, the container restarts  *)
(* a process that ended, and time passes: those actions are fair. What        *)
(* members, producers and failures do is not.                                 *)
Fairness ==
  /\ SF_vars(Tick)
  /\ \A r \in Runners : WF_vars(Run(r)) /\ WF_vars(DeliveryTask(r))
  /\ WF_vars(RecoverExpiredWork)
  /\ WF_vars(ReleasePauseBlockedDeliveries)
  /\ WF_vars(CancelOrphanedDeliveries)

FairSpec == Spec /\ Fairness

-----------------------------------------------------------------------------
(* Safety.                                                                 *)

\* A paused destination has no runnable row, in either queue, however sends in
\* flight, retries, inserts and the pausing failure interleave: a row left
\* pending would be invisible to Retry and to the due readers alike.
PausedHasNoRunnableWork ==
  \A x \in Rows : status[x] = "pending" => health[DestOf[x]] # "paused"

\* A blocked row has a reason its owner can see and act on: without one nothing
\* would ever move a digest row again (maintenance releases event rows only).
BlockedHasAReason ==
  \A x \in Rows \ Legacy : status[x] = "blocked" =>
    DestOf[x] \notin Supported \/ health[DestOf[x]] = "paused"

\* The circuit is open exactly while the failure count says so: a success or a
\* rate limit that finishes late neither closes it nor resets its count.
CircuitAgreesWithStreak ==
  \A d \in Dests : health[d] = "paused" <=> streak[d] >= PauseAt

\* The retry budget is exact: an open row has an attempt left and a failed row
\* has used them all, also when a worker counts a snapshot it took long ago.
AttemptBudget ==
  \A x \in Rows : /\ status[x] \in Open => attempts[x] < MaxAttempts
                  /\ status[x] = "failed" => attempts[x] = MaxAttempts

\* A digest run is reported sent only when every row of it was: the run's
\* outcome is written with the last row's, across two kinds of transition.
SentRunIsComplete ==
  \A x \in Rows : IsDigest(x) /\ runStatus[GroupOf[x]] = "sent" =>
    status[x] \in {"sent", "gone"}

\* A message that was never tried waits for the end of the pause of its follow,
\* whichever came first, the pause or the row; a live claim was there before.
UntriedWaitsOutThePause ==
  \A x \in Rows \ Legacy :
    /\ status[x] \in Open /\ attempts[x] = 0
    /\ Deferred(x)
    => wait[x] >= DeferTo(x)

\* While no send is abandoned, no store write fails and no process dies, a
\* member gets a message once, even if its claim was taken away meanwhile.
DeliveredOnce == \A x \in Rows : accepted[x] <= 1

-----------------------------------------------------------------------------
(* The inductive invariant: what the safety properties above rest on.      *)

\* Only a runnable row is claimed: whatever stops a row takes its claim away.
OwnedIsPending == \A x \in Rows : owner[x] # None => status[x] = "pending"

\* A row not yet inserted has all its attempts ahead of it.
AbsentIsFresh == \A x \in Rows : status[x] = "absent" => attempts[x] = 0

\* A worker's snapshot was taken of a row with an attempt left.
TriedWithinBudget == \A r \in Runners, x \in Rows : tried[r][x] < MaxAttempts

\* A worker reports success only for what the provider accepted.
AcceptedWhenReported == \A r \in Runners, x \in Rows :
  pc[r][x] \in {"accepted", "marked", "lost", "finalize"} => accepted[x] > 0

\* Batches hold rows of the queue, even if they were deleted since.
BatchIsKnown == \A r \in Runners, x \in Rows :
  pc[r][x] # "none" => status[x] # "absent"

\* All rows of a digest run are inserted at once.
RunsFanOutWhole == \A x, y \in Rows :
  IsDigest(x) /\ GroupOf[x] = GroupOf[y] /\ status[x] = "absent"
    => status[y] = "absent"

IInv ==
  /\ TypeOK /\ OwnedIsPending /\ AbsentIsFresh /\ TriedWithinBudget
  /\ AcceptedWhenReported /\ BatchIsKnown /\ RunsFanOutWhole
  /\ PausedHasNoRunnableWork /\ BlockedHasAReason /\ CircuitAgreesWithStreak
  /\ AttemptBudget /\ SentRunIsComplete

-----------------------------------------------------------------------------
(* What the properties of a milder environment rest on.                    *)

\* One process, which stays up; and nothing it does is given up or lost.
Uninterrupted == Disturbances \cap {"crash", "shutdown", "overlap"} = {}
Undisturbed   == Uninterrupted /\ Disturbances \cap {"abandon", "storeError"} = {}

OneProcess == \A r, s \in Runners :
  /\ phase[r] \in {"down", "idle", "claimed", "sending"}
  /\ phase[r] # "down" /\ phase[s] # "down" => r = s

\* Its limiters know of every window what is left of its first hour.
WindowsAreKnown ==
  /\ \A r \in Runners, x \in Rows : pc[r][x] # "none" => phase[r] # "down"
  /\ \A r \in Runners, d \in Dests : phase[r] # "down" =>
       \A w \in window[d] : w.left <= gate[r][d] \/ w.hour <= gate[r][d]
  /\ (\A r \in Runners : phase[r] = "down") => \A d \in Dests : window[d] = {}

\* A batch is over before the next one begins; digests are claimed after events.
BatchesAreApart == \A r \in Runners, x \in Rows : pc[r][x] # "none" =>
  /\ phase[r] \in {"claimed", "sending"}
  /\ phase[r] = "claimed" => pc[r][x] = "queued" /\ ~IsDigest(x)

OwnersServe == \A x \in Rows : owner[x] # None => phase[owner[x]] # "down"
RemovedIsGone == \A x \in Rows : DestOf[x] \notin dests => status[x] \in {"absent", "gone"}

\* Nobody settles a row under its worker, and a claim that was lost stays lost.
WorkersSettle == \A r \in Runners, x \in Rows :
  /\ pc[r][x] \notin {"none", "marked", "counted"} => status[x] \in Open \cup {"gone"}
  /\ pc[r][x] \in {"lost", "finalize"} => owner[x] = None

\* A message that was accepted is settled, or its worker is about to settle it.
AcceptedIsSettled == \A x \in Rows :
  /\ accepted[x] > 0 => \/ status[x] \in {"sent", "gone"}
                        \/ \E r \in Runners : pc[r][x] \in {"accepted", "lost", "finalize"}
  /\ \A r \in Runners :
       pc[r][x] \notin {"none", "accepted", "marked", "lost", "finalize"} => accepted[x] = 0

OnceInv ==
  /\ OneProcess /\ BatchesAreApart /\ OwnersServe /\ RemovedIsGone
  /\ WorkersSettle /\ AcceptedIsSettled /\ DeliveredOnce
WindowInv == OneProcess /\ WindowsAreKnown

\* Without rate limits nothing but its own failure gives a row a new due time.
NeverLimited == "rateLimit" \notin Disturbances
PauseInv ==
  /\ UntriedWaitsOutThePause
  /\ \A r \in Runners : /\ \A d \in Dests : gate[r][d] = 0
                        /\ \A x \in Rows : pc[r][x] \notin {"limited", "cooling"}

-----------------------------------------------------------------------------
(* What comments and documents of the repository say and the code does not *)
(* keep.                                                                   *)

\* "Pausing a follow defers its notifications to the moment the pause expires":
\* a row no process holds is not due before that.
DeferredWorkWaits ==
  \A x \in Rows \ Legacy : status[x] = "pending" /\ owner[x] = None /\ Deferred(x) =>
    wait[x] >= DeferTo(x)

-----------------------------------------------------------------------------
(* What a step may never do.                                               *)

\* An open row leaves the queue only because a provider accepted it, because
\* it used up its attempts, or because its destination or follow was removed.
LosesNothing ==
  \A x \in Rows : status[x] \in Open /\ status'[x] \notin Open =>
    \/ status'[x] = "sent" /\ accepted[x] > 0
    \/ status'[x] = "failed" /\ attempts'[x] = MaxAttempts
    \/ /\ status'[x] = "gone"
       /\ \/ DestOf[x] \notin dests'
          \/ ~IsDigest(x) /\ FollowOf[GroupOf[x]] \notin followed'
NothingLost == [][LosesNothing]_vars

\* A settled row stays settled, whatever stale workers still report: a sent row
\* for good, a failed one until its owner retries it with a fresh budget.
KeepsSettled ==
  \A x \in Rows :
    /\ status[x] = "sent" => status'[x] \in {"sent", "gone"}
    /\ status[x] = "failed" => \/ status'[x] \in {"failed", "gone"}
                               \/ status'[x] \in Open /\ attempts'[x] = 0
SettledStaysSettled == [][KeepsSettled]_vars

\* A pause ends only together with everything it stopped: no late success, rate
\* limit or insert reopens a destination and strands its blocked rows.
ReopensWithItsRows ==
  \A d \in Dests : health[d] = "paused" /\ health'[d] # "paused" =>
    /\ streak'[d] = 0 /\ cooldown'[d] = 0
    /\ \A x \in Rows : DestOf[x] = d /\ d \in Supported =>
         status'[x] \notin {"blocked", "failed"}
PauseEndsWithItsRows == [][ReopensWithItsRows]_vars

\* While its process lives, no request goes to a destination inside a window its
\* provider asked for, whichever worker was told so and although the stored times
\* are counted from the start of a batch: unless the window is longer than an hour
\* and that hour has passed.
FirstHoursAreOver(d) == \A w \in window[d] : w.hour = 0
RetryWindowHonoured ==
  [][\A r \in Runners, x \in Rows :
       pc[r][x] = "pacing" /\ pc'[r][x] = "sending" => FirstHoursAreOver(DestOf[x])]_vars

BoxState == [x \in Rows |-> IF status[x] \in Open THEN "open" ELSE status[x]]
BoxTaken == {x \in Rows : accepted[x] > 0}
Box == INSTANCE Outbox WITH Messages <- Rows, state <- BoxState, taken <- BoxTaken

\* The detailed queues implement the abstract outbox: at-least-once, nothing
\* confirmed that was not taken, nothing confirmed queued again.
ImplementsOutbox == Box!BoxSpec

-----------------------------------------------------------------------------
(* Liveness.                                                               *)

Alive == \E r \in Runners : phase[r] \in {"down", "idle", "claimed", "sending"}

\* Queued work gets out of the runnable queue (sent, given up, stopped by the
\* circuit or removed) unless its member keeps it paused or every process ends:
\* no retry, cooldown, or claim of a dead process holds it for ever.
QueuedWorkSettles ==
  \A x \in Rows : status[x] = "pending" ~> status[x] # "pending" \/ Deferred(x) \/ ~Alive

\* The digest queue is not starved by a member's saturated event queue.
QueuedDigestIsTaken ==
  \A x \in {y \in Rows : IsDigest(y)} : status[x] = "pending" ~>
    owner[x] # None \/ status[x] # "pending" \/ ~Alive

\* Work an earlier release left blocked gets home without its owner's help.
LegacyWorkIsReleased ==
  \A x \in Legacy : status[x] = "blocked" ~>
    \/ status[x] # "blocked"
    \/ DestOf[x] \notin Supported \/ health[DestOf[x]] = "paused"
    \/ Deferred(x) \/ ~Alive

\* The queues move on, whatever holds a row back: its claim, a pause, a busy
\* member or the release that stopped it.
QueuesMoveOn == QueuedWorkSettles /\ QueuedDigestIsTaken /\ LegacyWorkIsReleased
=============================================================================
