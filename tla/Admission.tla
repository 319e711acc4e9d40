----------------------------- MODULE Admission -----------------------------
(***************************************************************************)
(* How an alert about one release reaches the queue: the follows of a      *)
(* member and which of them governs, pauses and the realignment of queued  *)
(* rows, the Release Trust Guard that holds alerts while provider evidence *)
(* conflicts, and the members' decisions on held alerts. In                *)
(* internal/store: release_helpers.go (admission), governing_follow.go,    *)
(* follow_notification_rules.go, notification_holds.go, evidence.go,       *)
(* truth.go, artists.go.                                                   *)
(*                                                                         *)
(* A store method is one atomic step. What happens to a queued row is left *)
(* to Delivery: here it is sent or fails in one step. A stored time is     *)
(* kept as the time left until it.                                         *)
(***************************************************************************)
EXTENDS Integers, FiniteSets

CONSTANTS
  Members,      \* users, each with one destination older than the release
  Artists,      \* artists credited on the release, 1 is the canonical one
  Kinds,        \* event types: "announcement", "release_day"
  Preferences,  \* account preferences a member may choose:
                \* [types : BOOLEAN, moments : SUBSET Kinds, holds : BOOLEAN]
  Filters,      \* sets of kinds a follow's content filters may let through
  Modes,        \* delivery modes a follow may have
  PauseLengths, \* how long a follow may be paused for
  Backoff,      \* delay after a failed attempt
  Horizon,      \* bound of the delays
  Editors,      \* members who change follows and preferences in this instance;
                \* the others have the guard on
  None          \* not a kind

ASSUME ConstantsAssumption ==
  /\ Artists \subseteq Nat /\ Editors \subseteq Members
  /\ Kinds \subseteq {"announcement", "release_day"}
  /\ Preferences \subseteq [types : BOOLEAN, moments : SUBSET Kinds, holds : BOOLEAN]
  /\ Preferences # {} /\ Filters \subseteq SUBSET Kinds
  /\ Modes \subseteq {"inherit", "immediate", "digest", "off"}
  /\ Horizon \in Nat /\ PauseLengths \subseteq 1..Horizon /\ Backoff \in 1..Horizon
  /\ None \notin Kinds

VARIABLES
  follows,   \* artists of the release a member follows
  rule,      \* follow_notification_rules: mode, kinds its filters let through,
             \* time left of the pause
  prefs,     \* notification_preferences of a member
  blocking,  \* whether an evidence issue of the release that is a warning or
             \* critical is open
  alert,     \* a member's alert of a kind, as rows of four tables:
             \*   event: notification_events has it; queue: its delivery, "none"
             \*   while there is none; due, tried: of the delivery; hold: its
             \*   notification_holds row, "none" while there is none
  received   \* history: alerts sent, counted up to two

ruleVars == <<follows, rule, prefs>>
vars     == <<ruleVars, blocking, alert, received>>

Rules  == [mode : {"inherit", "immediate", "digest", "off"}, kinds : SUBSET Kinds,
           left : 0..Horizon]
Alerts == [event : BOOLEAN, queue : {"none", "pending", "sent"}, due : 0..Horizon,
           tried : BOOLEAN, hold : {"none", "held", "discarded", "released"}]

TypeOK ==
  /\ follows \in [Members -> SUBSET Artists]
  /\ rule \in [Members -> [Artists -> Rules]]
  /\ prefs \in [Members -> [types : BOOLEAN, moments : SUBSET Kinds, holds : BOOLEAN]]
  /\ blocking \in BOOLEAN
  /\ alert \in [Members -> [Kinds -> Alerts]]
  /\ received \in [Members -> [Kinds -> 0..2]]

Default  == [mode |-> "inherit", kinds |-> Kinds, left |-> 0]
NoAlert  == [event |-> FALSE, queue |-> "none", due |-> 0, tried |-> FALSE, hold |-> "none"]

Init ==
  /\ \E a \in Artists : follows \in [Members -> {{}, {a}}]
  /\ rule = [m \in Members |-> [a \in Artists |-> Default]]
  /\ prefs \in {f \in [Members -> Preferences] : \A m \in Members \ Editors : f[m].holds}
  /\ blocking = FALSE
  /\ alert = [m \in Members |-> [k \in Kinds |-> NoAlert]]
  /\ received = [m \in Members |-> [k \in Kinds |-> 0]]

-----------------------------------------------------------------------------
(* Which follow governs.                                                   *)

\* A follow that inherits answers to the account's moments as well.
Eligible(m, k) ==
  IF ~prefs[m].types THEN {}
  ELSE {a \in follows[m] : /\ k \in rule[m][a].kinds
                           /\ rule[m][a].mode = "inherit" => k \in prefs[m].moments}

\* The configured mode ranks, not what a pause makes of it.
Rank(r) == CASE r.mode \in {"inherit", "immediate"} -> 3
             [] r.mode = "digest" -> 2
             [] r.mode = "off" -> 1

\* Candidates come canonical artist first; equal ranks keep the first.
Beats(r, s, a, b) ==
  \/ Rank(r) > Rank(s)
  \/ Rank(r) = Rank(s) /\ a <= b

Governs(m, k, a) ==
  a \in Eligible(m, k)
    /\ \A b \in Eligible(m, k) : Beats(rule[m][a], rule[m][b], a, b)
Governed(m, k) == Eligible(m, k) # {}
Governing(m, k) == rule[m][CHOOSE a \in Artists : Governs(m, k, a)]

Deferred(r)  == r.left > 0 /\ r.mode \in {"inherit", "immediate"}
Immediate(r) == r.left = 0 /\ r.mode \in {"inherit", "immediate"}
\* The alert reaches its member through some channel.
Reaches(r)   == Deferred(r) \/ (r.left = 0 /\ r.mode # "off")

-----------------------------------------------------------------------------
(* Admission.                                                              *)

\* Mutant: a delivery that was sent does not stand in the way.
QueueAgain(s, due) ==
  IF s.queue # "pending" THEN [s EXCEPT !.event = TRUE, !.queue = "pending", !.due = due]
  ELSE s
\* Event and delivery are inserted once; an event there already may still get
\* its delivery.
Queue(s, due) ==
  IF s.queue = "none" THEN [s EXCEPT !.event = TRUE, !.queue = "pending", !.due = due]
  ELSE s

\* holdConflictingNotificationTx
Hold(s, conflict) ==
  IF s.event \/ s.hold = "discarded" THEN s
  ELSE IF conflict THEN [s EXCEPT !.hold = "held"]
  ELSE Queue(s, 0)
Withheld(s, conflict) == ~s.event /\ (s.hold = "discarded" \/ conflict)

\* Mutant: only a follow that is not paused is gated.
GatedUnpaused(m, r, approved) == prefs[m].holds /\ Immediate(r) /\ ~approved
Gated(m, r, approved) ==
  prefs[m].holds /\ (Immediate(r) \/ Deferred(r)) /\ ~approved

\* enqueueEventTxModeOptions: what becomes of the alert s of member m, and
\* whether it was admitted. `approved` bypasses the conflict gate only.
Admit(m, k, s, approved, conflict) ==
  LET r == Governing(m, k) IN
  IF ~Governed(m, k) THEN s
  ELSE IF Gated(m, r, approved) THEN Hold(s, conflict)
  ELSE IF Immediate(r) \/ Deferred(r) THEN Queue(s, r.left)
  ELSE [s EXCEPT !.event = TRUE]
Admitted(m, k, s, approved, conflict) ==
  LET r == Governing(m, k) IN
  /\ Governed(m, k)
  /\ IF Gated(m, r, approved) THEN ~Withheld(s, conflict) ELSE Reaches(r)

\* drainNotificationHoldsTxMode, for one held alert.
Drain(m, k, s, approved, conflict) ==
  LET t == Admit(m, k, s, approved, conflict) IN
  IF s.hold # "held" \/ follows[m] = {} THEN s
  ELSE IF Admitted(m, k, s, approved, conflict) THEN [t EXCEPT !.hold = "released"]
  ELSE t
DrainResolved(m, k, s, conflict) ==
  IF conflict THEN s ELSE Drain(m, k, s, FALSE, conflict)

-----------------------------------------------------------------------------
(* Synchronization and the release-day queue.                              *)

\* ApplyReleaseBatches for artist a: evidence is evaluated, the alerts it no
\* longer blocks are drained, then the artist's followers get their event,
\* if the release is news to them.
ApplyReleaseBatches(a) ==
  \E found \in BOOLEAN, news \in [Members -> Kinds \cup {None}] :
    /\ \A m \in Members : news[m] # None => a \in follows[m]
    /\ blocking' = found
    /\ alert' = [m \in Members |-> [k \in Kinds |->
         LET s == DrainResolved(m, k, alert[m][k], found) IN
         IF news[m] = k THEN Admit(m, k, s, FALSE, found) ELSE s]]
    /\ UNCHANGED <<ruleVars, received>>

\* EnqueueEvent for one of the candidates read before: rules are read again.
QueueDueReleaseDays(m) ==
  /\ "release_day" \in Kinds
  /\ alert' = [alert EXCEPT ![m]["release_day"] =
                 Admit(m, "release_day", @, FALSE, blocking)]
  /\ UNCHANGED <<ruleVars, blocking, received>>

-----------------------------------------------------------------------------
(* Decisions on held alerts.                                               *)

Sees(m) == follows[m] # {}

NotifyAnyway(m, k) ==
  LET s == alert[m][k]
      t == Admit(m, k, s, TRUE, blocking)
  IN
  /\ Sees(m) /\ s.hold = "held"
  /\ alert' = [alert EXCEPT ![m][k] =
       IF Admitted(m, k, s, TRUE, blocking) THEN [t EXCEPT !.hold = "released"] ELSE t]
  /\ UNCHANGED <<ruleVars, blocking, received>>

DiscardHold(m, k) ==
  /\ Sees(m) /\ alert[m][k].hold = "held"
  /\ alert' = [alert EXCEPT ![m][k].hold = "discarded"]
  /\ UNCHANGED <<ruleVars, blocking, received>>

\* A restored alert goes through admission again at once.
RestoreHold(m, k) ==
  LET restored == [alert[m] EXCEPT ![k].hold = "held"] IN
  /\ Sees(m) /\ alert[m][k].hold = "discarded"
  /\ alert' = [alert EXCEPT ![m] =
       [j \in Kinds |-> DrainResolved(m, j, restored[j], blocking)]]
  /\ UNCHANGED <<ruleVars, blocking, received>>

\* Mutant: discarded alerts are not looked for.
Unannounced(box) == \A k \in Kinds : ~box[k].event
\* An earlier alert of any kind, or a discarded one, wins over an approval.
Unsettled(box) == \A k \in Kinds : ~box[k].event /\ box[k].hold # "discarded"

\* ensureApprovedReleaseNotificationTx: an approval makes the alert that is
\* missing. Which kind depends on the date; an incomplete one makes none.
EnsureApproved(m, box, overruled) ==
  IF ~Unsettled(box) \/ (blocking /\ ~overruled) THEN {box}
  ELSE {box} \cup {[box EXCEPT ![k] = Admit(m, k, @, TRUE, blocking)] : k \in Kinds}

\* Mutant: what a member confirms is drained for the household.
AnyOwner(m, n) == TRUE
\* drainResolvedNotificationHoldsForUserTx is the owner-scoped variant.
OwnerScoped(m, n) == m = n

\* SetEvidenceIssueState, "confirmed"; the issue may be one that blocks nothing.
ConfirmEvidence(m) ==
  LET drained == [n \in Members |-> [k \in Kinds |->
        IF OwnerScoped(m, n) THEN DrainResolved(n, k, alert[n][k], blocking) ELSE alert[n][k]]]
  IN
  /\ Sees(m)
  /\ \E box \in EnsureApproved(m, drained[m], FALSE) :
       alert' = [drained EXCEPT ![m] = box]
  /\ UNCHANGED <<ruleVars, blocking, received>>

\* A truth decision releases the member's held alerts even while the evidence
\* conflicts. The decision row itself, which admission does not read, and whose
\* it is (a household has one; only its author and admins may change it) are left
\* out: any member may decide here.
SetReleaseTruthDecision(m) ==
  LET drained == [n \in Members |-> [k \in Kinds |->
        IF OwnerScoped(m, n) THEN Drain(n, k, alert[n][k], TRUE, blocking) ELSE alert[n][k]]]
  IN
  /\ Sees(m)
  /\ \E box \in EnsureApproved(m, drained[m], TRUE) :
       alert' = [drained EXCEPT ![m] = box]
  /\ UNCHANGED <<ruleVars, blocking, received>>

-----------------------------------------------------------------------------
(* Follows, rules and preferences.                                         *)

\* Mutant: a pause that grew is not looked at.
RealignedEarlier(s, r) ==
  IF Deferred(r) THEN IF s.due > r.left THEN [s EXCEPT !.due = r.left] ELSE s
  ELSE IF s.tried THEN s ELSE [s EXCEPT !.due = 0]
\* One queued delivery, now governed by r.
Realigned(s, r) ==
  IF Deferred(r)
  THEN IF s.tried /\ s.due > r.left THEN s ELSE [s EXCEPT !.due = r.left]
  ELSE IF s.tried THEN s ELSE [s EXCEPT !.due = 0]

\* realignQueuedDeliveriesTx, after the rules have changed. A delivery nothing
\* governs any more is left where it is.
RealignQueuedDeliveries(m, box) ==
  alert' = [alert EXCEPT ![m] = [k \in Kinds |->
    IF box[k].queue = "pending" /\ Governed(m, k)'
    THEN Realigned(box[k], Governing(m, k)') ELSE box[k]]]

\* One complete policy for some follows. The pause in it was read before, and
\* may have changed since.
UpdateFollowNotificationRules(m, S, r) ==
  /\ S # {} /\ S \subseteq follows[m]
  /\ rule' = [rule EXCEPT ![m] = [a \in Artists |-> IF a \in S THEN r ELSE rule[m][a]]]
  /\ UNCHANGED <<follows, prefs, blocking, received>>
  /\ RealignQueuedDeliveries(m, alert[m])

SetFollowNotificationDeliveryMode(m, S, mode) ==
  /\ S # {} /\ S \subseteq follows[m]
  /\ rule' = [rule EXCEPT ![m] = [a \in Artists |->
       IF a \in S THEN [rule[m][a] EXCEPT !.mode = mode] ELSE rule[m][a]]]
  /\ UNCHANGED <<follows, prefs, blocking, received>>
  /\ RealignQueuedDeliveries(m, alert[m])

\* Pause, extend, or resume (left = 0).
PauseFollowNotificationRule(m, a, left) ==
  /\ a \in follows[m]
  /\ rule' = [rule EXCEPT ![m][a].left = left]
  /\ UNCHANGED <<follows, prefs, blocking, received>>
  /\ RealignQueuedDeliveries(m, alert[m])

\* A follow that is there already keeps its rule, and the queue is realigned.
Follow(m, a) ==
  /\ follows' = [follows EXCEPT ![m] = @ \cup {a}]
  /\ UNCHANGED <<rule, prefs, blocking, received>>
  /\ RealignQueuedDeliveries(m, alert[m])

\* The delivery of a release its member no longer follows; the event stays.
Cancelled(s) ==
  IF s.queue = "pending" THEN [s EXCEPT !.queue = "none", !.due = 0, !.tried = FALSE] ELSE s

Unfollow(m, a) ==
  LET box == IF follows[m] = {a} THEN [k \in Kinds |-> Cancelled(alert[m][k])] ELSE alert[m]
  IN
  /\ a \in follows[m]
  /\ follows' = [follows EXCEPT ![m] = @ \ {a}]
  /\ rule' = [rule EXCEPT ![m][a] = Default]
  /\ UNCHANGED <<prefs, blocking, received>>
  /\ RealignQueuedDeliveries(m, box)

\* A resolved or imported artist is followed; the queue is not realigned.
CompleteArtistResolution(m, a) ==
  /\ follows' = [follows EXCEPT ![m] = @ \cup {a}]
  /\ UNCHANGED <<rule, prefs, blocking, alert, received>>

\* Neither is it here.
UpdateNotificationPreferences(m, p) ==
  /\ prefs' = [prefs EXCEPT ![m] = p]
  /\ UNCHANGED <<follows, rule, blocking, alert, received>>

-----------------------------------------------------------------------------
(* Delivery and time.                                                      *)

Due(m, k) == alert[m][k].queue = "pending" /\ alert[m][k].due = 0

DeliverySent(m, k) ==
  /\ Due(m, k)
  /\ alert' = [alert EXCEPT ![m][k].queue = "sent"]
  /\ received' = [received EXCEPT ![m][k] = IF @ < 2 THEN @ + 1 ELSE @]
  /\ UNCHANGED <<ruleVars, blocking>>

DeliveryFailed(m, k) ==
  /\ Due(m, k)
  /\ alert' = [alert EXCEPT ![m][k] = [@ EXCEPT !.tried = TRUE, !.due = Backoff]]
  /\ UNCHANGED <<ruleVars, blocking, received>>

Dec(n) == IF n > 0 THEN n - 1 ELSE 0

Tick ==
  /\ \/ \E m \in Members, a \in Artists : rule[m][a].left > 0
     \/ \E m \in Members, k \in Kinds : alert[m][k].due > 0
  /\ rule' = [m \in Members |-> [a \in Artists |-> [rule[m][a] EXCEPT !.left = Dec(@)]]]
  /\ alert' = [m \in Members |-> [k \in Kinds |-> [alert[m][k] EXCEPT !.due = Dec(@)]]]
  /\ UNCHANGED <<follows, prefs, blocking, received>>

Policies == [mode : Modes, kinds : Filters, left : {0} \cup PauseLengths]

FollowChanges(m) ==
  \/ \E S \in (SUBSET Artists) \ {{}} :
       \/ \E r \in Policies : UpdateFollowNotificationRules(m, S, r)
       \/ \E mode \in Modes : SetFollowNotificationDeliveryMode(m, S, mode)
  \/ \E a \in Artists :
       \/ \E left \in {0} \cup PauseLengths : PauseFollowNotificationRule(m, a, left)
       \/ Follow(m, a) \/ Unfollow(m, a)

Decisions(m) ==
  \/ \E k \in Kinds : NotifyAnyway(m, k) \/ DiscardHold(m, k) \/ RestoreHold(m, k)
  \/ ConfirmEvidence(m) \/ SetReleaseTruthDecision(m)

Next ==
  \/ \E a \in Artists : ApplyReleaseBatches(a)
  \/ \E m \in Members :
       \/ QueueDueReleaseDays(m) \/ Decisions(m)
       \/ \E k \in Kinds : DeliverySent(m, k) \/ DeliveryFailed(m, k)
  \/ \E m \in Editors :
       \/ FollowChanges(m)
       \/ \E a \in Artists : CompleteArtistResolution(m, a)
       \/ \E p \in Preferences : UpdateNotificationPreferences(m, p)
  \/ Tick

Spec == Init /\ [][Next]_vars

-----------------------------------------------------------------------------
(* What a step may never do.                                               *)

Enqueued(m, k) == alert[m][k].queue = "none" /\ alert'[m][k].queue = "pending"

\* The Trust Guard: while evidence conflicts, nothing of a member who wants such
\* alerts held enters the queue unless that member approves it in that step,
\* also when the follow is paused, changes, or is governed by another one.
GuardHolds ==
  [][\A m \in Members, k \in Kinds :
       Enqueued(m, k) /\ prefs[m].holds /\ blocking' =>
         NotifyAnyway(m, k) \/ SetReleaseTruthDecision(m)]_vars

\* One member's review never moves another member's alert.
DecisionsArePrivate ==
  [][\A m, n \in Members :
       m # n /\ alert'[n] # alert[n] => ~Decisions(m)]_vars

\* "A member's explicit discard is terminal until they restore the hold": while
\* the guard is on, no later pass, approval or rule change queues the alert.
DiscardIsKept ==
  [][\A m \in Members, k \in Kinds :
       alert[m][k].hold = "discarded" /\ prefs[m].holds /\ Enqueued(m, k) =>
         RestoreHold(m, k)]_vars

\* What a household decided stands: a guard holds what it guards, a member's
\* decision is their own, and what was discarded does not come back.
DecisionsStand == []TypeOK /\ GuardHolds /\ DecisionsArePrivate /\ DiscardIsKept

\* The schedule the governing follow asks for: a message never tried is due at
\* the end of its pause, or now; one that failed may wait longer.
OnSchedule(m, k) ==
  LET s == alert[m][k] IN
  s.queue = "pending" /\ Governed(m, k) =>
    /\ Deferred(Governing(m, k)) => s.due >= Governing(m, k).left
    /\ ~s.tried => s.due <= (IF Deferred(Governing(m, k)) THEN Governing(m, k).left ELSE 0)

\* Whatever a member changes about a follow or its rule leaves every queued
\* delivery on the schedule of the follow that governs it now, which need not
\* be the changed one: a pause may hand it over, an unfollow give it back.
ChangesRealign ==
  [][\A m \in Members :
       rule'[m] # rule[m] \/ follows'[m] # follows[m] =>
         \/ \A k \in Kinds : OnSchedule(m, k)'
         \/ Tick \/ \E a \in Artists : CompleteArtistResolution(m, a)]_vars

\* However a member unfollows, follows again, restores and approves, an alert
\* is handed out once.
AlertedOnce == \A m \in Members, k \in Kinds : received[m][k] <= 1

\* The inductive invariant behind it: the delivery of an alert that was handed
\* out is kept as sent for good.
SentIsKept ==
  \A m \in Members, k \in Kinds :
    received[m][k] = (IF alert[m][k].queue = "sent" THEN 1 ELSE 0)
AdmissionIInv == TypeOK /\ SentIsKept

-----------------------------------------------------------------------------
(* What the README says and the code does not keep.                        *)

\* "Pausing a follow defers its notifications to the moment the pause expires":
\* what enters the queue under a paused follow is not due before the pause ends.
PausedIsDeferred ==
  [][\A m \in Members, k \in Kinds :
       Enqueued(m, k) /\ Deferred(Governing(m, k)) =>
         alert'[m][k].due >= Governing(m, k).left]_vars
=============================================================================
