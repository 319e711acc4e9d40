--------------------------- MODULE AdmissionProofs ---------------------------
(***************************************************************************)
(* Proofs about Admission, for any members, artists, kinds of alerts,      *)
(* policies and lengths of pauses.                                         *)
(***************************************************************************)
EXTENDS Admission, WellFoundedInduction, TLAPS

LEMMA LeastElement ==
  ASSUME NEW S, NEW Less, IsWellFoundedOn(Less, Nat), S \subseteq Nat, S # {}
  PROVE  \E a \in S : \A b \in S : ~(<<b, a>> \in Less)
BY WFMin, Zenon

USE ConstantsAssumption DEF ConstantsAssumption

-----------------------------------------------------------------------------
(* Which follow governs.                                                   *)

\* Of the follows that answer to an alert one comes first.
LEMMA LeastArtist ==
  ASSUME NEW S, S \subseteq Artists, S # {}
  PROVE  \E a \in S : \A b \in S : a <= b
<1>1. S \subseteq Nat
  OBVIOUS
<1> DEFINE Less == {ss \in Nat \X Nat : ss[1] < ss[2]}
<1>0. IsWellFoundedOn(Less, Nat)
  BY NatLessThanWellFounded DEF OpToRel
<1> HIDE DEF Less
<1>2. PICK a \in S : \A b \in S : ~ (<<b, a>> \in Less)
  BY <1>0, <1>1, LeastElement
<1>3. ASSUME NEW b \in S
      PROVE  a <= b
  <2>1. a \in Nat /\ b \in Nat
    BY <1>1
  <2>2. ~(b < a)
    BY <1>2, <2>1 DEF Less
  <2> QED BY <2>1, <2>2
<1> QED BY <1>3

LEMMA RankIsOrdinal ==
  \A r \in Rules : Rank(r) \in 1 .. 3
BY DEF Rules, Rank

RulesTyped ==
  /\ follows \in [Members -> SUBSET Artists] /\ rule \in [Members -> [Artists -> Rules]]
  /\ prefs \in [Members -> [types : BOOLEAN, moments : SUBSET Kinds, holds : BOOLEAN]]

\* Whenever any follow answers to an alert, one of them governs.
EveryAlertHasItsFollow ==
  \A m \in Members, k \in Kinds :
    Governed(m, k) => \E a \in Artists : Governs(m, k, a)

LEMMA SomeFollowGoverns == RulesTyped => EveryAlertHasItsFollow
<1> SUFFICES ASSUME RulesTyped, NEW m \in Members, NEW k \in Kinds, Governed(m, k)
             PROVE  \E a \in Artists : Governs(m, k, a)
  BY DEF EveryAlertHasItsFollow
<1> DEFINE E == Eligible(m, k)
           Ranked(n) == {a \in E : Rank(rule[m][a]) = n}
<1>1. E # {} /\ E \subseteq Artists
  BY DEF Governed, Eligible, RulesTyped
<1>2. rule[m] \in [Artists -> Rules]
  BY DEF RulesTyped
<1>3. \A a \in E : Rank(rule[m][a]) \in 1 .. 3
  BY <1>1, <1>2, RankIsOrdinal
<1>4. PICK n \in 1 .. 3 : Ranked(n) # {} /\ \A b \in E : Rank(rule[m][b]) <= n
  <2>1. CASE Ranked(3) # {}
    BY <2>1, <1>3
  <2>2. CASE Ranked(3) = {} /\ Ranked(2) # {}
    <3>1. \A b \in E : Rank(rule[m][b]) # 3
      BY <2>2
    <3>2. \A b \in E : Rank(rule[m][b]) <= 2
      BY <3>1, <1>3
    <3> QED BY <3>2, <2>2
  <2>3. CASE Ranked(3) = {} /\ Ranked(2) = {}
    <3>1. \A b \in E : Rank(rule[m][b]) # 3 /\ Rank(rule[m][b]) # 2
      BY <2>3
    <3>2. \A b \in E : Rank(rule[m][b]) = 1
      BY <3>1, <1>3
    <3>3. Ranked(1) # {}
      BY <3>2, <1>1
    <3> QED BY <3>2, <3>3
  <2> QED BY <2>1, <2>2, <2>3
<1>5. Ranked(n) \subseteq Artists
  BY <1>1
<1> HIDE DEF E
<1>6. PICK a \in Ranked(n) : \A b \in Ranked(n) : a <= b
  BY <1>4, <1>5, LeastArtist
<1>7. \A b \in E : Beats(rule[m][a], rule[m][b], a, b)
  BY <1>3, <1>4, <1>6 DEF Beats
<1> QED BY <1>1, <1>6, <1>7 DEF Governs, E

\* What governs is a rule.
GovernedByARule ==
  \A m \in Members, k \in Kinds : Governed(m, k) => Governing(m, k) \in Rules

LEMMA GoverningIsARule == RulesTyped => GovernedByARule
<1> SUFFICES ASSUME RulesTyped, NEW m \in Members, NEW k \in Kinds, Governed(m, k)
             PROVE  Governing(m, k) \in Rules
  BY DEF GovernedByARule
<1>1. (CHOOSE a \in Artists : Governs(m, k, a)) \in Artists
  BY SomeFollowGoverns DEF EveryAlertHasItsFollow
<1>2. rule[m] \in [Artists -> Rules]
  BY DEF RulesTyped
<1> QED BY <1>1, <1>2 DEF Governing

LEMMA GoverningIsARuleAfter == RulesTyped' => GovernedByARule'
BY GoverningIsARule, PTL

-----------------------------------------------------------------------------
(* What admission makes of an alert.                                       *)

LEMMA QueueTurns ==
  ASSUME NEW s \in Alerts, NEW due \in 0 .. Horizon
  PROVE  /\ Queue(s, due) \in Alerts
         /\ (Queue(s, due).queue = "sent" <=> s.queue = "sent")
         /\ s.queue # "none" => Queue(s, due).queue = s.queue
<1> DEFINE t == [s EXCEPT !.event = TRUE, !.queue = "pending", !.due = due]
<1>1. t \in Alerts /\ t.queue = "pending"
  BY DEF Alerts
<1> HIDE DEF t
<1>2. Queue(s, due) = IF s.queue = "none" THEN t ELSE s
  BY DEF Queue, t
<1> QED BY <1>1, <1>2

LEMMA HoldTurns ==
  ASSUME NEW s \in Alerts, NEW conflict \in BOOLEAN
  PROVE  /\ Hold(s, conflict) \in Alerts
         /\ (Hold(s, conflict).queue = "sent" <=> s.queue = "sent")
         /\ conflict \/ s.hold = "discarded" => Hold(s, conflict).queue = s.queue
<1> DEFINE t == [s EXCEPT !.hold = "held"]
<1>1. t \in Alerts /\ t.queue = s.queue
  BY DEF Alerts
<1> HIDE DEF t
<1>2. Hold(s, conflict) = IF s.event \/ s.hold = "discarded" THEN s
                          ELSE IF conflict THEN t ELSE Queue(s, 0)
  BY DEF Hold, t
<1>3. 0 \in 0 .. Horizon
  OBVIOUS
<1> QED BY <1>1, <1>2, <1>3, QueueTurns

\* An alert stays an alert, and what was sent stays sent; while the guard is on,
\* a conflict or the member's discard keeps it out of the queue.
LEMMA AdmitTurns ==
  ASSUME RulesTyped, NEW m \in Members, NEW k \in Kinds, NEW s \in Alerts,
         NEW approved \in BOOLEAN, NEW conflict \in BOOLEAN
  PROVE  /\ Admit(m, k, s, approved, conflict) \in Alerts
         /\ (Admit(m, k, s, approved, conflict).queue = "sent" <=> s.queue = "sent")
         /\ prefs[m].holds /\ ~approved /\ (conflict \/ s.hold = "discarded") =>
              Admit(m, k, s, approved, conflict).queue = s.queue
<1>1. CASE ~Governed(m, k)
  BY <1>1 DEF Admit
<1>2. CASE Governed(m, k)
  <2> DEFINE r == Governing(m, k)
             t == [s EXCEPT !.event = TRUE]
  <2>1. r \in Rules
    BY <1>2, GoverningIsARule DEF GovernedByARule
  <2>2. r.left \in 0 .. Horizon
    BY <2>1 DEF Rules
  <2>3. t \in Alerts /\ t.queue = s.queue
    BY DEF Alerts
  <2> HIDE DEF r, t
  <2>4. Admit(m, k, s, approved, conflict) =
          IF Gated(m, r, approved) THEN Hold(s, conflict)
          ELSE IF Immediate(r) \/ Deferred(r) THEN Queue(s, r.left) ELSE t
    BY <1>2 DEF Admit, r, t
  <2>5. ~Gated(m, r, approved) /\ (Immediate(r) \/ Deferred(r)) => ~prefs[m].holds \/ approved
    BY DEF Gated
  <2>6. CASE Gated(m, r, approved)
    BY <2>4, <2>6, HoldTurns
  <2>7. CASE ~Gated(m, r, approved) /\ (Immediate(r) \/ Deferred(r))
    <3> DEFINE u == Queue(s, r.left)
    <3>1. u \in Alerts /\ (u.queue = "sent" <=> s.queue = "sent")
      BY <2>2, QueueTurns
    <3>2. Admit(m, k, s, approved, conflict) = u
      BY <2>4, <2>7
    <3>3. ~prefs[m].holds \/ approved
      BY <2>5, <2>7
    <3> HIDE DEF u
    <3> QED BY <3>1, <3>2, <3>3, Zenon
  <2>8. CASE ~Gated(m, r, approved) /\ ~(Immediate(r) \/ Deferred(r))
    BY <2>3, <2>4, <2>8
  <2> QED BY <2>6, <2>7, <2>8
<1> QED BY <1>1, <1>2

LEMMA ReleasedTurns ==
  ASSUME NEW t \in Alerts
  PROVE  [t EXCEPT !.hold = "released"] \in Alerts /\ [t EXCEPT !.hold = "released"].queue = t.queue
BY DEF Alerts

LEMMA DrainTurns ==
  ASSUME RulesTyped, NEW m \in Members, NEW k \in Kinds, NEW s \in Alerts,
         NEW approved \in BOOLEAN, NEW conflict \in BOOLEAN
  PROVE  /\ Drain(m, k, s, approved, conflict) \in Alerts
         /\ (Drain(m, k, s, approved, conflict).queue = "sent" <=> s.queue = "sent")
         /\ s.hold # "held" => Drain(m, k, s, approved, conflict) = s
<1> DEFINE t == Admit(m, k, s, approved, conflict)
<1>1. t \in Alerts /\ (t.queue = "sent" <=> s.queue = "sent")
  BY AdmitTurns
<1> HIDE DEF t
<1>2. s.hold # "held" => Drain(m, k, s, approved, conflict) = s
  BY DEF Drain
<1>3. Drain(m, k, s, approved, conflict) =
        IF s.hold # "held" \/ follows[m] = {} THEN s
        ELSE IF Admitted(m, k, s, approved, conflict) THEN [t EXCEPT !.hold = "released"] ELSE t
  BY DEF Drain, t
<1> QED BY <1>1, <1>2, <1>3, ReleasedTurns

LEMMA DrainResolvedTurns ==
  ASSUME RulesTyped, NEW m \in Members, NEW k \in Kinds, NEW s \in Alerts, NEW conflict \in BOOLEAN
  PROVE  /\ DrainResolved(m, k, s, conflict) \in Alerts
         /\ (DrainResolved(m, k, s, conflict).queue = "sent" <=> s.queue = "sent")
         /\ conflict \/ s.hold # "held" => DrainResolved(m, k, s, conflict) = s
<1> DEFINE approved == FALSE
<1>0. approved \in BOOLEAN
  OBVIOUS
<1>1. DrainResolved(m, k, s, conflict) = IF conflict THEN s ELSE Drain(m, k, s, approved, conflict)
  BY DEF DrainResolved
<1> HIDE DEF approved
<1>2. /\ Drain(m, k, s, approved, conflict) \in Alerts
      /\ Drain(m, k, s, approved, conflict).queue = "sent" <=> s.queue = "sent"
      /\ s.hold # "held" => Drain(m, k, s, approved, conflict) = s
  BY <1>0, DrainTurns
<1>3. CASE conflict
  BY <1>1, <1>3
<1>4. CASE ~conflict
  <2>1. DrainResolved(m, k, s, conflict) = Drain(m, k, s, approved, conflict)
    BY <1>1, <1>4
  <2> QED BY <1>2, <1>4, <2>1
<1> QED BY <1>3, <1>4

LEMMA RealignedTurns ==
  ASSUME NEW s \in Alerts, NEW r \in Rules
  PROVE  /\ Realigned(s, r) \in Alerts /\ Realigned(s, r).queue = s.queue
         /\ Deferred(r) => Realigned(s, r).due >= r.left
         /\ ~Realigned(s, r).tried =>
              Realigned(s, r).due <= (IF Deferred(r) THEN r.left ELSE 0)
<1>1. ASSUME NEW due \in 0 .. Horizon
      PROVE  /\ [s EXCEPT !.due = due] \in Alerts /\ [s EXCEPT !.due = due].queue = s.queue
             /\ [s EXCEPT !.due = due].due = due /\ [s EXCEPT !.due = due].tried = s.tried
  BY DEF Alerts
<1>2. r.left \in 0 .. Horizon /\ 0 \in 0 .. Horizon /\ s.due \in 0 .. Horizon
  BY DEF Rules, Alerts
<1> QED BY <1>1, <1>2 DEF Realigned

LEMMA EnsureTurns ==
  ASSUME RulesTyped, blocking \in BOOLEAN, NEW m \in Members, NEW box \in [Kinds -> Alerts],
         NEW overruled \in BOOLEAN, NEW b \in EnsureApproved(m, box, overruled)
  PROVE  /\ b \in [Kinds -> Alerts]
         /\ \A k \in Kinds : b[k].queue = "sent" <=> box[k].queue = "sent"
         /\ ~Unsettled(box) \/ (blocking /\ ~overruled) => b = box
<1>1. CASE b = box
  BY <1>1
<1>2. CASE b # box
  <2>1. ~(~Unsettled(box) \/ (blocking /\ ~overruled))
    BY <1>2 DEF EnsureApproved
  <2>2. PICK k \in Kinds : b = [box EXCEPT ![k] = Admit(m, k, box[k], TRUE, blocking)]
    BY <1>2 DEF EnsureApproved
  <2> DEFINE approved == TRUE
             t == Admit(m, k, box[k], approved, blocking)
  <2>3. approved \in BOOLEAN
    OBVIOUS
  <2>4. b = [box EXCEPT ![k] = t]
    BY <2>2
  <2> HIDE DEF approved
  <2>5. t \in Alerts /\ (t.queue = "sent" <=> box[k].queue = "sent")
    BY <2>3, AdmitTurns
  <2> QED BY <2>1, <2>4, <2>5
<1> QED BY <1>1, <1>2

-----------------------------------------------------------------------------
(* What a step makes of the alerts.                                        *)

AlertsTyped == alert \in [Members -> [Kinds -> Alerts]]

\* What was sent stays sent, and nothing is sent.
AlertsTurn ==
  /\ AlertsTyped'
  /\ \A m \in Members, k \in Kinds : alert'[m][k].queue = "sent" <=> alert[m][k].queue = "sent"

GuardKept ==
  \A m \in Members, k \in Kinds : prefs[m].holds /\ blocking' => ~Enqueued(m, k)
DiscardKept ==
  \A m \in Members, k \in Kinds :
    prefs[m].holds /\ alert[m][k].hold = "discarded" => ~Enqueued(m, k)

LEMMA BatchesTurn ==
  ASSUME TypeOK, NEW a \in Artists, ApplyReleaseBatches(a)
  PROVE  AlertsTurn /\ GuardKept /\ DiscardKept
<1>1. PICK found \in BOOLEAN, news \in [Members -> Kinds \cup {None}] :
        /\ \A m \in Members : news[m] # None => a \in follows[m]
        /\ blocking' = found
        /\ alert' = [m \in Members |-> [k \in Kinds |->
             LET s == DrainResolved(m, k, alert[m][k], found) IN
             IF news[m] = k THEN Admit(m, k, s, FALSE, found) ELSE s]]
        /\ UNCHANGED <<ruleVars, received>>
  BY Zenon DEF ApplyReleaseBatches
<1>2. ASSUME NEW m \in Members, NEW k \in Kinds
      PROVE  /\ alert'[m][k] \in Alerts
             /\ alert'[m][k].queue = "sent" <=> alert[m][k].queue = "sent"
             /\ prefs[m].holds /\ (found \/ alert[m][k].hold = "discarded") =>
                  alert'[m][k].queue = alert[m][k].queue
  <2> DEFINE s == DrainResolved(m, k, alert[m][k], found)
             approved == FALSE
             t == Admit(m, k, s, approved, found)
  <2>1. alert[m][k] \in Alerts /\ RulesTyped /\ approved \in BOOLEAN
    BY DEF TypeOK, RulesTyped
  <2>2. alert'[m][k] = IF news[m] = k THEN t ELSE s
    BY <1>1
  <2>0. ~approved
    OBVIOUS
  <2> HIDE DEF approved
  <2>3. /\ s \in Alerts /\ (s.queue = "sent" <=> alert[m][k].queue = "sent")
        /\ found \/ alert[m][k].hold # "held" => s = alert[m][k]
    BY <2>1, DrainResolvedTurns
  <2> HIDE DEF s
  <2>4. /\ t \in Alerts /\ (t.queue = "sent" <=> s.queue = "sent")
        /\ prefs[m].holds /\ ~approved /\ (found \/ s.hold = "discarded") => t.queue = s.queue
    BY <2>1, <2>3, AdmitTurns
  <2> HIDE DEF t
  <2> QED BY <2>0, <2>2, <2>3, <2>4
<1>3. AlertsTyped'
  BY <1>1, <1>2 DEF AlertsTyped
<1>4. AlertsTurn
  BY <1>2, <1>3 DEF AlertsTurn
<1>5. blocking' = found
  BY <1>1
<1>6. GuardKept
  BY <1>2, <1>5 DEF GuardKept, Enqueued
<1>7. DiscardKept
  BY <1>2 DEF DiscardKept, Enqueued
<1> QED BY <1>4, <1>6, <1>7

\* One alert is admitted and may be released.
LEMMA OneAlertTurns ==
  ASSUME TypeOK, NEW m \in Members, NEW k \in Kinds, NEW t \in Alerts,
         t.queue = "sent" <=> alert[m][k].queue = "sent",
         alert' = [alert EXCEPT ![m][k] = t]
  PROVE  AlertsTurn
BY DEF TypeOK, AlertsTurn, AlertsTyped

LEMMA ReleaseDayTurns ==
  ASSUME TypeOK, NEW m \in Members, QueueDueReleaseDays(m)
  PROVE  AlertsTurn /\ GuardKept /\ DiscardKept
<1> DEFINE k == "release_day"
           approved == FALSE
           s == alert[m][k]
           t == Admit(m, k, s, approved, blocking)
<1>1. k \in Kinds /\ approved \in BOOLEAN /\ ~approved
  BY DEF QueueDueReleaseDays
<1>2. s \in Alerts /\ RulesTyped /\ blocking \in BOOLEAN
  BY <1>1 DEF TypeOK, RulesTyped
<1>3. alert' = [alert EXCEPT ![m][k] = t] /\ blocking' = blocking
  BY DEF QueueDueReleaseDays
<1>0. s = alert[m][k]
  OBVIOUS
<1> HIDE DEF k, approved, s
<1>4. /\ t \in Alerts /\ (t.queue = "sent" <=> s.queue = "sent")
      /\ prefs[m].holds /\ ~approved /\ (blocking \/ s.hold = "discarded") => t.queue = s.queue
  BY <1>1, <1>2, AdmitTurns
<1> HIDE DEF t
<1>5. AlertsTurn
  BY <1>0, <1>1, <1>3, <1>4, OneAlertTurns
<1>6. \A n \in Members, j \in Kinds :
        alert'[n][j] = IF n = m /\ j = k THEN t ELSE alert[n][j]
  BY <1>1, <1>3 DEF TypeOK
<1> QED BY <1>0, <1>1, <1>3, <1>4, <1>5, <1>6 DEF GuardKept, DiscardKept, Enqueued

\* Nobody else's alerts move.
OnlyMine(m) == \A n \in Members : n # m => alert'[n] = alert[n]

LEMMA NotifyTurns ==
  ASSUME TypeOK, NEW m \in Members, NEW k \in Kinds, NotifyAnyway(m, k)
  PROVE  /\ AlertsTurn /\ OnlyMine(m) /\ DiscardKept
         /\ \A j \in Kinds : j # k => ~Enqueued(m, j)
<1> DEFINE approved == TRUE
           s == alert[m][k]
           t == Admit(m, k, s, approved, blocking)
           u == IF Admitted(m, k, s, TRUE, blocking) THEN [t EXCEPT !.hold = "released"] ELSE t
<1>1. approved \in BOOLEAN
  OBVIOUS
<1>2. s \in Alerts /\ RulesTyped /\ blocking \in BOOLEAN
  BY DEF TypeOK, RulesTyped
<1>3. alert' = [alert EXCEPT ![m][k] = u] /\ s = alert[m][k] /\ s.hold = "held"
  BY DEF NotifyAnyway
<1> DEFINE admitted == Admitted(m, k, s, TRUE, blocking)
<1>4. u = IF admitted THEN [t EXCEPT !.hold = "released"] ELSE t
  OBVIOUS
<1> HIDE DEF approved, s, admitted, u
<1>5. t \in Alerts /\ (t.queue = "sent" <=> s.queue = "sent")
  BY <1>1, <1>2, AdmitTurns
<1> HIDE DEF t
<1>6. u \in Alerts /\ (u.queue = "sent" <=> s.queue = "sent")
  BY <1>4, <1>5, ReleasedTurns
<1>7. AlertsTurn
  BY <1>3, <1>6, OneAlertTurns
<1>8. \A n \in Members : n # m => alert'[n] = alert[n]
  BY <1>3 DEF TypeOK
<1>9. \A j \in Kinds : j # k => alert'[m][j] = alert[m][j]
  BY <1>3 DEF TypeOK
<1> QED BY <1>3, <1>7, <1>8, <1>9 DEF OnlyMine, DiscardKept, Enqueued

LEMMA DiscardTurns ==
  ASSUME TypeOK, NEW m \in Members, NEW k \in Kinds, DiscardHold(m, k)
  PROVE  AlertsTurn /\ GuardKept /\ DiscardKept /\ OnlyMine(m)
<1> DEFINE t == [alert[m][k] EXCEPT !.hold = "discarded"]
<1>1. alert[m][k] \in Alerts
  BY DEF TypeOK
<1>2. t \in Alerts /\ t.queue = alert[m][k].queue
  BY <1>1 DEF Alerts
<1>3. alert' = [alert EXCEPT ![m][k] = t]
  BY DEF DiscardHold
<1> HIDE DEF t
<1>4. AlertsTurn
  BY <1>2, <1>3, OneAlertTurns
<1>5. \A n \in Members, j \in Kinds : alert'[n][j].queue = alert[n][j].queue
  BY <1>2, <1>3 DEF TypeOK
<1>6. OnlyMine(m)
  BY <1>3 DEF OnlyMine, TypeOK
<1> QED BY <1>4, <1>5, <1>6 DEF GuardKept, DiscardKept, Enqueued

\* The alerts of one member are replaced by a box of alerts.
LEMMA MyAlertsTurn ==
  ASSUME TypeOK, NEW m \in Members, NEW box \in [Kinds -> Alerts],
         \A k \in Kinds : box[k].queue = "sent" <=> alert[m][k].queue = "sent",
         alert' = [alert EXCEPT ![m] = box]
  PROVE  AlertsTurn /\ OnlyMine(m) /\ alert'[m] = box
<1>1. AlertsTyped' /\ OnlyMine(m) /\ alert'[m] = box
  BY DEF TypeOK, AlertsTyped, OnlyMine
<1> QED BY <1>1 DEF AlertsTurn, OnlyMine

LEMMA RestoreTurns ==
  ASSUME TypeOK, NEW m \in Members, NEW k \in Kinds, RestoreHold(m, k)
  PROVE  /\ AlertsTurn /\ GuardKept /\ OnlyMine(m)
         /\ \A j \in Kinds : alert[m][j].hold = "discarded" /\ Enqueued(m, j) => j = k
<1> DEFINE restored == [alert[m] EXCEPT ![k].hold = "held"]
           box == [j \in Kinds |-> DrainResolved(m, j, restored[j], blocking)]
<1>1. RulesTyped /\ alert[m] \in [Kinds -> Alerts] /\ blocking \in BOOLEAN
  BY DEF TypeOK, RulesTyped
<1>2. alert' = [alert EXCEPT ![m] = box] /\ blocking' = blocking
  BY DEF RestoreHold
<1>3. ASSUME NEW j \in Kinds
      PROVE  /\ restored[j] \in Alerts /\ restored[j].queue = alert[m][j].queue
             /\ j # k => restored[j] = alert[m][j]
  <2>1. [alert[m][k] EXCEPT !.hold = "held"] \in Alerts
        /\ [alert[m][k] EXCEPT !.hold = "held"].queue = alert[m][k].queue
    BY <1>1 DEF Alerts
  <2> QED BY <1>1, <2>1
<1> HIDE DEF restored
<1>4. ASSUME NEW j \in Kinds
      PROVE  /\ box[j] \in Alerts /\ (box[j].queue = "sent" <=> alert[m][j].queue = "sent")
             /\ blocking => box[j].queue = alert[m][j].queue
             /\ j # k /\ alert[m][j].hold = "discarded" => box[j].queue = alert[m][j].queue
  <2> DEFINE s == restored[j]
             t == DrainResolved(m, j, s, blocking)
  <2>1. /\ s \in Alerts /\ s.queue = alert[m][j].queue
        /\ j # k => s = alert[m][j]
    BY <1>3
  <2>2. box[j] = t
    OBVIOUS
  <2> HIDE DEF s, box
  <2>0. s \in Alerts
    BY <2>1
  <2>4. t \in Alerts /\ (t.queue = "sent" <=> s.queue = "sent")
    BY <1>1, <2>0, DrainResolvedTurns
  <2>5. blocking => t = s
    BY <1>1, <2>0, DrainResolvedTurns
  <2>6. s.hold # "held" => t = s
    BY DEF DrainResolved, Drain
  <2>3. /\ t \in Alerts /\ (t.queue = "sent" <=> s.queue = "sent")
        /\ blocking \/ s.hold # "held" => t = s
    BY <2>4, <2>5, <2>6
  <2> HIDE DEF t
  <2> QED BY <2>1, <2>2, <2>3
<1>5. box \in [Kinds -> Alerts]
  BY <1>4
<1> HIDE DEF box
<1>0. \A j \in Kinds : box[j].queue = "sent" <=> alert[m][j].queue = "sent"
  BY <1>4
<1>6. AlertsTurn /\ OnlyMine(m) /\ alert'[m] = box
  BY <1>0, <1>2, <1>5, MyAlertsTurn
<1>7. \A j \in Kinds : alert[m][j].hold = "discarded" /\ Enqueued(m, j) => j = k
  BY <1>4, <1>6 DEF Enqueued
<1>8. GuardKept
  BY <1>2, <1>4, <1>6 DEF GuardKept, OnlyMine, Enqueued
<1> QED BY <1>6, <1>7, <1>8

LEMMA SameBox ==
  ASSUME NEW b \in [Kinds -> Alerts], NEW c \in [Kinds -> Alerts], \A k \in Kinds : b[k] = c[k]
  PROVE  b = c
<1>1. b = [k \in Kinds |-> b[k]] /\ c = [k \in Kinds |-> c[k]]
  OBVIOUS
<1>2. [k \in Kinds |-> b[k]] = [k \in Kinds |-> c[k]]
  OBVIOUS
<1> QED BY <1>1, <1>2

\* A review settles the member's own held alerts, and may make one that is missing.
LEMMA ReviewTurns ==
  ASSUME TypeOK, NEW m \in Members, NEW drained \in [Members -> [Kinds -> Alerts]],
         NEW overruled \in BOOLEAN, NEW box \in EnsureApproved(m, drained[m], overruled),
         \A n \in Members : n # m => drained[n] = alert[n],
         \A k \in Kinds : drained[m][k].queue = "sent" <=> alert[m][k].queue = "sent",
         \A k \in Kinds : alert[m][k].hold = "discarded" => drained[m][k] = alert[m][k],
         alert' = [drained EXCEPT ![m] = box]
  PROVE  /\ AlertsTurn /\ DiscardKept /\ OnlyMine(m)
         /\ blocking /\ ~overruled => alert'[m] = drained[m]
<1>1. /\ RulesTyped /\ blocking \in BOOLEAN /\ drained[m] \in [Kinds -> Alerts]
  BY DEF TypeOK, RulesTyped
<1>2. /\ box \in [Kinds -> Alerts]
      /\ \A k \in Kinds : box[k].queue = "sent" <=> drained[m][k].queue = "sent"
      /\ ~Unsettled(drained[m]) \/ (blocking /\ ~overruled) => box = drained[m]
  BY <1>1, EnsureTurns
<1>3. alert'[m] = box /\ AlertsTyped' /\ OnlyMine(m)
  BY <1>2 DEF AlertsTyped, OnlyMine
<1>4. AlertsTurn
  BY <1>2, <1>3 DEF AlertsTurn, OnlyMine
<1>5. ASSUME NEW n \in Members, NEW k \in Kinds, alert[n][k].hold = "discarded"
      PROVE  ~Enqueued(n, k)
  <2>1. CASE n # m
    BY <1>3, <2>1 DEF OnlyMine, Enqueued
  <2>2. CASE n = m
    <3>1. drained[m][k] = alert[m][k] /\ ~Unsettled(drained[m])
      BY <1>5, <2>2 DEF Unsettled
    <3>2. alert'[m][k] = alert[m][k]
      BY <1>2, <1>3, <3>1
    <3> QED BY <2>2, <3>2 DEF Enqueued
  <2> QED BY <2>1, <2>2
<1>6. DiscardKept
  BY <1>5 DEF DiscardKept
<1> QED BY <1>2, <1>3, <1>4, <1>6

LEMMA ConfirmTurns ==
  ASSUME TypeOK, NEW m \in Members, ConfirmEvidence(m)
  PROVE  AlertsTurn /\ GuardKept /\ DiscardKept /\ OnlyMine(m)
<1> DEFINE drained == [n \in Members |-> [k \in Kinds |->
             IF OwnerScoped(m, n) THEN DrainResolved(n, k, alert[n][k], blocking)
             ELSE alert[n][k]]]
           overruled == FALSE
<1>1. RulesTyped /\ blocking \in BOOLEAN /\ overruled \in BOOLEAN /\ ~overruled
  BY DEF TypeOK, RulesTyped
<1>2. PICK box \in EnsureApproved(m, drained[m], overruled) : alert' = [drained EXCEPT ![m] = box]
  BY Zenon DEF ConfirmEvidence
<1>3. blocking' = blocking
  BY DEF ConfirmEvidence
<1> HIDE DEF overruled
<1>4. ASSUME NEW n \in Members, NEW k \in Kinds
      PROVE  /\ drained[n][k] \in Alerts
             /\ drained[n][k].queue = "sent" <=> alert[n][k].queue = "sent"
             /\ blocking \/ n # m \/ alert[n][k].hold = "discarded" => drained[n][k] = alert[n][k]
  <2> DEFINE s == alert[n][k]
             t == DrainResolved(n, k, s, blocking)
  <2>1. s \in Alerts
    BY DEF TypeOK
  <2>2. drained[n][k] = IF n = m THEN t ELSE s
    BY DEF OwnerScoped
  <2> HIDE DEF drained, s
  <2>3. t \in Alerts /\ (t.queue = "sent" <=> s.queue = "sent")
    BY <1>1, <2>1, DrainResolvedTurns
  <2>4. blocking => t = s
    BY <1>1, <2>1, DrainResolvedTurns
  <2>5. s.hold # "held" => t = s
    BY DEF DrainResolved, Drain
  <2> HIDE DEF t
  <2> USE DEF s
  <2> QED BY <2>1, <2>2, <2>3, <2>4, <2>5
<1>5. drained \in [Members -> [Kinds -> Alerts]]
  BY <1>4
<1> HIDE DEF drained
<1>7. \A n \in Members : n # m => drained[n] = alert[n]
  <2> SUFFICES ASSUME NEW n \in Members, n # m
               PROVE  drained[n] = alert[n]
    OBVIOUS
  <2>1. alert[n] \in [Kinds -> Alerts] /\ drained[n] \in [Kinds -> Alerts]
    BY <1>5 DEF TypeOK
  <2>2. \A k \in Kinds : drained[n][k] = alert[n][k]
    BY <1>4
  <2> QED BY <2>1, <2>2, SameBox
<1>8. /\ \A k \in Kinds : drained[m][k].queue = "sent" <=> alert[m][k].queue = "sent"
      /\ \A k \in Kinds : alert[m][k].hold = "discarded" => drained[m][k] = alert[m][k]
  BY <1>4
<1>9. /\ AlertsTurn /\ DiscardKept /\ OnlyMine(m)
      /\ blocking /\ ~overruled => alert'[m] = drained[m]
  BY <1>1, <1>2, <1>5, <1>7, <1>8, ReviewTurns
<1>10. GuardKept
  BY <1>1, <1>3, <1>4, <1>9 DEF GuardKept, Enqueued, OnlyMine
<1> QED BY <1>9, <1>10

LEMMA DecisionTurns ==
  ASSUME TypeOK, NEW m \in Members, SetReleaseTruthDecision(m)
  PROVE  AlertsTurn /\ DiscardKept /\ OnlyMine(m)
<1> DEFINE approved == TRUE
           drained == [n \in Members |-> [k \in Kinds |->
             IF OwnerScoped(m, n) THEN Drain(n, k, alert[n][k], approved, blocking)
             ELSE alert[n][k]]]
<1>1. RulesTyped /\ blocking \in BOOLEAN /\ approved \in BOOLEAN
  BY DEF TypeOK, RulesTyped
<1>2. PICK box \in EnsureApproved(m, drained[m], approved) : alert' = [drained EXCEPT ![m] = box]
  BY Zenon DEF SetReleaseTruthDecision
<1> HIDE DEF approved
<1>4. ASSUME NEW n \in Members, NEW k \in Kinds
      PROVE  /\ drained[n][k] \in Alerts
             /\ drained[n][k].queue = "sent" <=> alert[n][k].queue = "sent"
             /\ n # m \/ alert[n][k].hold = "discarded" => drained[n][k] = alert[n][k]
  <2> DEFINE s == alert[n][k]
             t == Drain(n, k, s, approved, blocking)
  <2>1. s \in Alerts
    BY DEF TypeOK
  <2>2. drained[n][k] = IF n = m THEN t ELSE s
    BY DEF OwnerScoped
  <2> HIDE DEF drained, s
  <2>3. t \in Alerts /\ (t.queue = "sent" <=> s.queue = "sent")
    BY <1>1, <2>1, DrainTurns
  <2>5. s.hold # "held" => t = s
    BY DEF Drain
  <2> HIDE DEF t
  <2> USE DEF s
  <2> QED BY <2>1, <2>2, <2>3, <2>5
<1>5. drained \in [Members -> [Kinds -> Alerts]]
  BY <1>4
<1> HIDE DEF drained
<1>7. \A n \in Members : n # m => drained[n] = alert[n]
  <2> SUFFICES ASSUME NEW n \in Members, n # m
               PROVE  drained[n] = alert[n]
    OBVIOUS
  <2>1. alert[n] \in [Kinds -> Alerts] /\ drained[n] \in [Kinds -> Alerts]
    BY <1>5 DEF TypeOK
  <2>2. \A k \in Kinds : drained[n][k] = alert[n][k]
    BY <1>4
  <2> QED BY <2>1, <2>2, SameBox
<1>8. /\ \A k \in Kinds : drained[m][k].queue = "sent" <=> alert[m][k].queue = "sent"
      /\ \A k \in Kinds : alert[m][k].hold = "discarded" => drained[m][k] = alert[m][k]
  BY <1>4
<1>9. /\ AlertsTurn /\ DiscardKept /\ OnlyMine(m)
      /\ blocking /\ ~approved => alert'[m] = drained[m]
  BY <1>1, <1>2, <1>5, <1>7, <1>8, ReviewTurns
<1> QED BY <1>9

-----------------------------------------------------------------------------
(* Follows, rules, deliveries and time.                                    *)

\* The queue is realigned: nothing enters it, and what is in it is on schedule.
LEMMA RealignTurns ==
  ASSUME TypeOK, RulesTyped', NEW m \in Members, NEW box \in [Kinds -> Alerts],
         RealignQueuedDeliveries(m, box)
  PROVE  /\ AlertsTyped' /\ OnlyMine(m)
         /\ \A k \in Kinds : alert'[m][k].queue = box[k].queue
         /\ \A k \in Kinds : OnSchedule(m, k)'
<1>1. GovernedByARule'
  BY GoverningIsARule, PTL
<1>2. alert' = [alert EXCEPT ![m] = [k \in Kinds |->
        IF box[k].queue = "pending" /\ Governed(m, k)'
        THEN Realigned(box[k], Governing(m, k)') ELSE box[k]]]
  BY DEF RealignQueuedDeliveries
<1>3. ASSUME NEW k \in Kinds
      PROVE  /\ alert'[m][k] \in Alerts /\ alert'[m][k].queue = box[k].queue
             /\ OnSchedule(m, k)'
  <2> DEFINE r == Governing(m, k)'
             s == box[k]
  <2>1. alert'[m][k] = IF s.queue = "pending" /\ Governed(m, k)' THEN Realigned(s, r) ELSE s
    BY <1>2 DEF TypeOK
  <2>2. s \in Alerts
    OBVIOUS
  <2>3. CASE ~(s.queue = "pending" /\ Governed(m, k)')
    BY <2>1, <2>2, <2>3 DEF OnSchedule
  <2>4. CASE s.queue = "pending" /\ Governed(m, k)'
    <3>1. r \in Rules
      BY <1>1, <2>4 DEF GovernedByARule
    <3>2. alert'[m][k] = Realigned(s, r)
      BY <2>1, <2>4
    <3>3. OnSchedule(m, k)' <=>
            (alert'[m][k].queue = "pending" /\ Governed(m, k)' =>
               /\ Deferred(r) => alert'[m][k].due >= r.left
               /\ ~alert'[m][k].tried => alert'[m][k].due <= (IF Deferred(r) THEN r.left ELSE 0))
      BY DEF OnSchedule, Deferred
    <3> HIDE DEF r, s
    <3>4. /\ Realigned(s, r) \in Alerts /\ Realigned(s, r).queue = s.queue
          /\ Deferred(r) => Realigned(s, r).due >= r.left
          /\ ~Realigned(s, r).tried =>
               Realigned(s, r).due <= (IF Deferred(r) THEN r.left ELSE 0)
      BY <2>2, <3>1, RealignedTurns
    <3>5. OnSchedule(m, k)'
      BY <3>2, <3>3, <3>4
    <3>6. s = box[k]
      BY DEF s
    <3> QED BY <3>2, <3>4, <3>5, <3>6
  <2> QED BY <2>3, <2>4
<1>4. alert'[m] = [k \in Kinds |-> alert'[m][k]]
  BY <1>2 DEF TypeOK
<1>5. alert'[m] \in [Kinds -> Alerts]
  BY <1>3, <1>4
<1>6. AlertsTyped' /\ OnlyMine(m)
  BY <1>2, <1>5 DEF TypeOK, AlertsTyped, OnlyMine
<1> QED BY <1>3, <1>6

\* Nobody else's follows or rules move.
OnlyMyFollows(m) ==
  \A n \in Members : n # m => rule'[n] = rule[n] /\ follows'[n] = follows[n]

LEMMA RulesMove ==
  ASSUME TypeOK, NEW m \in Members, NEW rules \in [Artists -> Rules], NEW S \in SUBSET Artists,
         rule' = [rule EXCEPT ![m] = rules], follows' = [follows EXCEPT ![m] = S], prefs' = prefs
  PROVE  RulesTyped' /\ OnlyMyFollows(m)
BY DEF TypeOK, RulesTyped, OnlyMyFollows

LEMMA PoliciesAreRules == Policies \subseteq Rules
<1> SUFFICES ASSUME NEW r \in Policies
             PROVE  r \in Rules
  OBVIOUS
<1>1. r = [mode |-> r.mode, kinds |-> r.kinds, left |-> r.left]
      /\ r.mode \in Modes /\ r.kinds \in Filters /\ r.left \in {0} \cup PauseLengths
  BY DEF Policies
<1>2. r.left \in 0 .. Horizon
  BY <1>1
<1> QED BY <1>1, <1>2 DEF Rules

\* Every change of a member's follows ends with a realigned queue.
LEMMA FollowsChange ==
  ASSUME TypeOK, NEW m \in Members, FollowChanges(m)
  PROVE  \E box \in [Kinds -> Alerts] :
           /\ RulesTyped' /\ OnlyMyFollows(m) /\ RealignQueuedDeliveries(m, box)
           /\ \A k \in Kinds : \/ box[k].queue = alert[m][k].queue
                               \/ alert[m][k].queue = "pending" /\ box[k].queue = "none"
           /\ blocking' = blocking /\ received' = received
<1>1. /\ rule[m] \in [Artists -> Rules] /\ follows[m] \in SUBSET Artists
      /\ alert[m] \in [Kinds -> Alerts]
  BY DEF TypeOK
<1>2. ASSUME NEW rules \in [Artists -> Rules], NEW S \in SUBSET Artists,
             rule' = [rule EXCEPT ![m] = rules], follows' = [follows EXCEPT ![m] = S],
             prefs' = prefs
      PROVE  RulesTyped' /\ OnlyMyFollows(m)
  BY <1>2, RulesMove
<1>3. follows' = follows => follows' = [follows EXCEPT ![m] = follows[m]]
  BY DEF TypeOK
<1>4. rule' = rule => rule' = [rule EXCEPT ![m] = rule[m]]
  BY DEF TypeOK
<1>5. ASSUME NEW T \in SUBSET Artists, NEW r \in Policies, UpdateFollowNotificationRules(m, T, r)
      PROVE  RulesTyped' /\ OnlyMyFollows(m)
  <2> DEFINE rules == [a \in Artists |-> IF a \in T THEN r ELSE rule[m][a]]
  <2>1. rules \in [Artists -> Rules]
    BY <1>1, PoliciesAreRules
  <2>2. rule' = [rule EXCEPT ![m] = rules] /\ follows' = follows /\ prefs' = prefs
    BY <1>5 DEF UpdateFollowNotificationRules
  <2> QED BY <1>1, <1>2, <1>3, <2>1, <2>2
<1>6. ASSUME NEW T \in SUBSET Artists, NEW mode \in Modes,
             SetFollowNotificationDeliveryMode(m, T, mode)
      PROVE  RulesTyped' /\ OnlyMyFollows(m)
  <2> DEFINE rules == [a \in Artists |->
                IF a \in T THEN [rule[m][a] EXCEPT !.mode = mode] ELSE rule[m][a]]
  <2>0. \A r \in Rules : [r EXCEPT !.mode = mode] \in Rules
    BY DEF Rules
  <2>1. rules \in [Artists -> Rules]
    BY <1>1, <2>0
  <2>2. rule' = [rule EXCEPT ![m] = rules] /\ follows' = follows /\ prefs' = prefs
    BY <1>6 DEF SetFollowNotificationDeliveryMode
  <2> QED BY <1>1, <1>2, <1>3, <2>1, <2>2
<1>7. ASSUME NEW a \in Artists, NEW left \in {0} \cup PauseLengths,
             PauseFollowNotificationRule(m, a, left)
      PROVE  RulesTyped' /\ OnlyMyFollows(m)
  <2> DEFINE r == [rule[m][a] EXCEPT !.left = left]
             rules == [rule[m] EXCEPT ![a] = r]
  <2>0. r \in Rules
    BY <1>1 DEF Rules
  <2> HIDE DEF r
  <2>1. rules \in [Artists -> Rules]
    BY <1>1, <2>0
  <2>2. rule' = [rule EXCEPT ![m] = rules] /\ follows' = follows /\ prefs' = prefs
    BY <1>7 DEF PauseFollowNotificationRule, r
  <2> QED BY <1>1, <1>2, <1>3, <2>1, <2>2
<1>8. ASSUME NEW a \in Artists, Follow(m, a)
      PROVE  RulesTyped' /\ OnlyMyFollows(m)
  <2> DEFINE S == follows[m] \cup {a}
  <2>1. rule' = rule /\ follows' = [follows EXCEPT ![m] = S] /\ prefs' = prefs
    BY <1>8 DEF Follow
  <2>2. S \in SUBSET Artists
    BY <1>1
  <2> HIDE DEF S
  <2> QED BY <1>1, <1>2, <1>4, <2>1, <2>2
<1>9. ASSUME NEW a \in Artists, Unfollow(m, a)
      PROVE  RulesTyped' /\ OnlyMyFollows(m)
  <2> DEFINE rules == [rule[m] EXCEPT ![a] = Default]
             S == follows[m] \ {a}
  <2>1. follows' = [follows EXCEPT ![m] = S] /\ prefs' = prefs
        /\ rule' = [rule EXCEPT ![m] = rules]
    BY <1>9 DEF Unfollow
  <2>2. S \in SUBSET Artists /\ Default \in Rules
    BY <1>1 DEF Default, Rules
  <2>3. rules \in [Artists -> Rules]
    BY <1>1, <2>2
  <2> HIDE DEF S, rules
  <2> QED BY <1>2, <2>1, <2>2, <2>3
<1>10. ASSUME NEW a \in Artists, Unfollow(m, a)
       PROVE  \E box \in [Kinds -> Alerts] :
                /\ RealignQueuedDeliveries(m, box)
                /\ \A k \in Kinds : \/ box[k].queue = alert[m][k].queue
                                    \/ alert[m][k].queue = "pending" /\ box[k].queue = "none"
  <2> DEFINE box == [k \in Kinds |-> Cancelled(alert[m][k])]
  <2>1. ASSUME NEW s \in Alerts
        PROVE  /\ Cancelled(s) \in Alerts
               /\ \/ Cancelled(s).queue = s.queue
                  \/ s.queue = "pending" /\ Cancelled(s).queue = "none"
    <3> DEFINE t == [s EXCEPT !.queue = "none", !.due = 0, !.tried = FALSE]
    <3>0. 0 \in 0 .. Horizon /\ FALSE \in BOOLEAN
      OBVIOUS
    <3>1. t \in Alerts
      BY <3>0 DEF Alerts
    <3>2. t.queue = "none"
      BY DEF Alerts
    <3>3. Cancelled(s) = IF s.queue = "pending" THEN t ELSE s
      BY DEF Cancelled
    <3> HIDE DEF t
    <3> QED BY <3>1, <3>2, <3>3
  <2>2. /\ box \in [Kinds -> Alerts]
        /\ \A k \in Kinds : \/ box[k].queue = alert[m][k].queue
                            \/ alert[m][k].queue = "pending" /\ box[k].queue = "none"
    BY <1>1, <2>1
  <2>3. \/ RealignQueuedDeliveries(m, box)
        \/ RealignQueuedDeliveries(m, alert[m])
    BY <1>10 DEF Unfollow
  <2> HIDE DEF box
  <2> QED BY <1>1, <2>2, <2>3
<1>11. ASSUME RealignQueuedDeliveries(m, alert[m])
       PROVE  \E box \in [Kinds -> Alerts] :
                /\ RealignQueuedDeliveries(m, box)
                /\ \A k \in Kinds : box[k].queue = alert[m][k].queue
  BY <1>1, <1>11
<1>12. blocking' = blocking /\ received' = received
  BY DEF FollowChanges, UpdateFollowNotificationRules, SetFollowNotificationDeliveryMode,
         PauseFollowNotificationRule, Follow, Unfollow
<1>13. RulesTyped' /\ OnlyMyFollows(m)
  BY <1>5, <1>6, <1>7, <1>8, <1>9 DEF FollowChanges
<1>14. (\E a \in Artists : Unfollow(m, a)) \/ RealignQueuedDeliveries(m, alert[m])
  BY DEF FollowChanges, UpdateFollowNotificationRules, SetFollowNotificationDeliveryMode,
         PauseFollowNotificationRule, Follow
<1> QED BY <1>10, <1>11, <1>12, <1>13, <1>14

LEMMA FollowsTurn ==
  ASSUME TypeOK, NEW m \in Members, FollowChanges(m)
  PROVE  /\ AlertsTurn /\ GuardKept /\ DiscardKept /\ OnlyMyFollows(m) /\ RulesTyped'
         /\ \A k \in Kinds : OnSchedule(m, k)'
         /\ blocking' = blocking /\ received' = received
<1>1. PICK box \in [Kinds -> Alerts] :
        /\ RulesTyped' /\ OnlyMyFollows(m) /\ RealignQueuedDeliveries(m, box)
        /\ \A k \in Kinds : \/ box[k].queue = alert[m][k].queue
                            \/ alert[m][k].queue = "pending" /\ box[k].queue = "none"
        /\ blocking' = blocking /\ received' = received
  BY FollowsChange
<1>2. /\ AlertsTyped' /\ OnlyMine(m)
      /\ \A k \in Kinds : alert'[m][k].queue = box[k].queue
      /\ \A k \in Kinds : OnSchedule(m, k)'
  BY <1>1, RealignTurns
<1>3. \A n \in Members, k \in Kinds :
        \/ alert'[n][k].queue = alert[n][k].queue
        \/ alert[n][k].queue = "pending" /\ alert'[n][k].queue = "none"
  BY <1>1, <1>2 DEF OnlyMine
<1>4. AlertsTurn
  BY <1>2, <1>3 DEF AlertsTurn
<1>5. GuardKept /\ DiscardKept
  BY <1>3 DEF GuardKept, DiscardKept, Enqueued
<1> QED BY <1>1, <1>2, <1>4, <1>5

LEMMA FailureTurns ==
  ASSUME TypeOK, NEW m \in Members, NEW k \in Kinds, DeliveryFailed(m, k)
  PROVE  AlertsTurn /\ GuardKept /\ DiscardKept
<1> DEFINE t == [alert[m][k] EXCEPT !.tried = TRUE, !.due = Backoff]
<1>1. alert[m][k] \in Alerts /\ Backoff \in 0 .. Horizon
  BY DEF TypeOK
<1>2. t \in Alerts /\ t.queue = alert[m][k].queue
  BY <1>1 DEF Alerts
<1>3. alert' = [alert EXCEPT ![m][k] = t]
  BY DEF DeliveryFailed, TypeOK
<1> HIDE DEF t
<1>4. AlertsTurn
  BY <1>2, <1>3, OneAlertTurns
<1>5. \A n \in Members, j \in Kinds : alert'[n][j].queue = alert[n][j].queue
  BY <1>2, <1>3 DEF TypeOK
<1> QED BY <1>4, <1>5 DEF GuardKept, DiscardKept, Enqueued

LEMMA TickTurns ==
  ASSUME TypeOK, Tick
  PROVE  AlertsTurn /\ GuardKept /\ DiscardKept /\ RulesTyped' /\ received' = received
         /\ blocking' = blocking
<1>1. \A n \in 0 .. Horizon : Dec(n) \in 0 .. Horizon
  BY DEF Dec
<1>2. ASSUME NEW m \in Members, NEW k \in Kinds
      PROVE  alert'[m][k] \in Alerts /\ alert'[m][k].queue = alert[m][k].queue
  <2> DEFINE s == alert[m][k]
  <2>1. alert'[m][k] = [s EXCEPT !.due = Dec(s.due)]
    BY DEF Tick
  <2>2. s \in Alerts
    BY DEF TypeOK
  <2> HIDE DEF s
  <2>3. s.due \in 0 .. Horizon
    BY <2>2 DEF Alerts
  <2>4. [s EXCEPT !.due = Dec(s.due)] \in Alerts /\ [s EXCEPT !.due = Dec(s.due)].queue = s.queue
    BY <1>1, <2>2, <2>3 DEF Alerts
  <2> USE DEF s
  <2> QED BY <2>1, <2>4
<1>3. AlertsTyped'
  BY <1>2 DEF AlertsTyped, Tick
<1>4. ASSUME NEW m \in Members, NEW a \in Artists
      PROVE  [rule[m][a] EXCEPT !.left = Dec(@)] \in Rules
  <2>1. rule[m][a] \in Rules
    BY DEF TypeOK
  <2>2. rule[m][a].left \in 0 .. Horizon
    BY <2>1 DEF Rules
  <2> QED BY <1>1, <2>1, <2>2 DEF Rules
<1>5. RulesTyped'
  BY <1>4 DEF RulesTyped, TypeOK, Tick
<1> QED BY <1>2, <1>3, <1>5 DEF AlertsTurn, GuardKept, DiscardKept, Enqueued, Tick

-----------------------------------------------------------------------------
(* The invariant.                                                          *)

LEMMA TurnsKeep ==
  ASSUME AdmissionIInv, AlertsTurn, RulesTyped', blocking' \in BOOLEAN, received' = received
  PROVE  AdmissionIInv'
BY DEF AdmissionIInv, TypeOK, SentIsKept, AlertsTurn, AlertsTyped, RulesTyped

LEMMA InitialAdmission == Init => AdmissionIInv
<1> SUFFICES ASSUME Init
             PROVE  AdmissionIInv
  OBVIOUS
<1>1. follows \in [Members -> SUBSET Artists]
  <2>1. PICK a \in Artists : follows \in [Members -> {{}, {a}}]
    BY DEF Init
  <2>2. {{}, {a}} \subseteq SUBSET Artists
    OBVIOUS
  <2> QED BY <2>1, <2>2
<1>2. Default \in Rules /\ NoAlert \in Alerts /\ NoAlert.queue # "sent"
  BY DEF Default, Rules, NoAlert, Alerts
<1>3. rule \in [Members -> [Artists -> Rules]] /\ alert \in [Members -> [Kinds -> Alerts]]
  BY <1>2 DEF Init
<1>4. prefs \in [Members -> [types : BOOLEAN, moments : SUBSET Kinds, holds : BOOLEAN]]
  BY DEF Init
<1>5. blocking \in BOOLEAN /\ received \in [Members -> [Kinds -> 0 .. 2]]
  <2>1. blocking = FALSE /\ received = [m \in Members |-> [k \in Kinds |-> 0]]
    BY DEF Init
  <2>2. blocking \in BOOLEAN
    BY <2>1
  <2>3. [k \in Kinds |-> 0] \in [Kinds -> 0 .. 2]
    OBVIOUS
  <2> QED BY <2>1, <2>2, <2>3
<1>6. SentIsKept
  BY <1>2 DEF Init, SentIsKept
<1> QED BY <1>1, <1>3, <1>4, <1>5, <1>6 DEF AdmissionIInv, TypeOK

LEMMA SentStep ==
  ASSUME AdmissionIInv, NEW m \in Members, NEW k \in Kinds, DeliverySent(m, k)
  PROVE  AdmissionIInv' /\ GuardKept /\ DiscardKept
<1> DEFINE t == [alert[m][k] EXCEPT !.queue = "sent"]
<1>1. alert[m][k] \in Alerts
  BY DEF AdmissionIInv, TypeOK
<1>2. t \in Alerts /\ t.queue = "sent"
  BY <1>1 DEF Alerts
<1>3. alert' = [alert EXCEPT ![m][k] = t] /\ alert[m][k].queue = "pending"
  BY DEF DeliverySent, Due
<1> HIDE DEF t
<1>4. received[m][k] = 0
  BY <1>3 DEF AdmissionIInv, SentIsKept
<1>5. received' = [received EXCEPT ![m][k] = 1]
  BY <1>4 DEF DeliverySent, AdmissionIInv, TypeOK
<1>6. TypeOK'
  <2>1. alert' \in [Members -> [Kinds -> Alerts]]
    BY <1>2, <1>3 DEF AdmissionIInv, TypeOK
  <2>2. received' \in [Members -> [Kinds -> 0 .. 2]]
    BY <1>5 DEF AdmissionIInv, TypeOK
  <2>3. UNCHANGED <<follows, rule, prefs, blocking>>
    BY DEF DeliverySent, ruleVars
  <2> QED BY <2>1, <2>2, <2>3 DEF AdmissionIInv, TypeOK
<1>7. SentIsKept'
  BY <1>2, <1>3, <1>5 DEF AdmissionIInv, TypeOK, SentIsKept
<1>8. \A n \in Members, j \in Kinds : alert'[n][j].queue = alert[n][j].queue \/ alert'[n][j].queue = "sent"
  BY <1>2, <1>3 DEF AdmissionIInv, TypeOK
<1> QED BY <1>6, <1>7, <1>8 DEF AdmissionIInv, GuardKept, DiscardKept, Enqueued

\* Every step: the guard holds but for the member's own approval, a discard but
\* for its restoration, a review stays with its member, a change of a follow
\* realigns the queue.
StepIsSound ==
  /\ \A m \in Members, k \in Kinds :
       Enqueued(m, k) /\ prefs[m].holds /\ blocking' =>
         NotifyAnyway(m, k) \/ SetReleaseTruthDecision(m)
  /\ \A m \in Members, k \in Kinds :
       alert[m][k].hold = "discarded" /\ prefs[m].holds /\ Enqueued(m, k) => RestoreHold(m, k)
  /\ \A m \in Members :
       rule'[m] # rule[m] \/ follows'[m] # follows[m] =>
         \/ \A k \in Kinds : OnSchedule(m, k)'
         \/ Tick \/ \E a \in Artists : CompleteArtistResolution(m, a)

LEMMA KeptIsSound ==
  ASSUME GuardKept, DiscardKept, ruleVars' = ruleVars
  PROVE  StepIsSound
BY DEF GuardKept, DiscardKept, StepIsSound, ruleVars

LEMMA DecisionsTurn ==
  ASSUME TypeOK, NEW m \in Members, Decisions(m)
  PROVE  /\ AlertsTurn /\ OnlyMine(m) /\ StepIsSound
         /\ ruleVars' = ruleVars /\ blocking' = blocking /\ received' = received
<1>1. ruleVars' = ruleVars /\ blocking' = blocking /\ received' = received
  BY DEF Decisions, NotifyAnyway, DiscardHold, RestoreHold, ConfirmEvidence,
         SetReleaseTruthDecision
<1>2. ASSUME NEW k \in Kinds, NotifyAnyway(m, k)
      PROVE  AlertsTurn /\ OnlyMine(m) /\ StepIsSound
  <2>1. /\ AlertsTurn /\ OnlyMine(m) /\ DiscardKept
        /\ \A j \in Kinds : j # k => ~Enqueued(m, j)
    BY <1>2, NotifyTurns
  <2>2. \A n \in Members, j \in Kinds : Enqueued(n, j) => n = m /\ j = k
    BY <2>1 DEF OnlyMine, Enqueued
  <2> QED BY <1>1, <1>2, <2>1, <2>2 DEF StepIsSound, DiscardKept, ruleVars
<1>3. ASSUME NEW k \in Kinds, DiscardHold(m, k)
      PROVE  AlertsTurn /\ OnlyMine(m) /\ StepIsSound
  BY <1>1, <1>3, DiscardTurns, KeptIsSound
<1>4. ASSUME NEW k \in Kinds, RestoreHold(m, k)
      PROVE  AlertsTurn /\ OnlyMine(m) /\ StepIsSound
  <2>1. /\ AlertsTurn /\ GuardKept /\ OnlyMine(m)
        /\ \A j \in Kinds : alert[m][j].hold = "discarded" /\ Enqueued(m, j) => j = k
    BY <1>4, RestoreTurns
  <2>2. \A n \in Members, j \in Kinds :
          alert[n][j].hold = "discarded" /\ Enqueued(n, j) => n = m /\ j = k
    BY <2>1 DEF OnlyMine, Enqueued
  <2> QED BY <1>1, <1>4, <2>1, <2>2 DEF StepIsSound, GuardKept, ruleVars
<1>5. CASE ConfirmEvidence(m)
  BY <1>1, <1>5, ConfirmTurns, KeptIsSound
<1>6. CASE SetReleaseTruthDecision(m)
  <2>1. AlertsTurn /\ DiscardKept /\ OnlyMine(m)
    BY <1>6, DecisionTurns
  <2>2. \A n \in Members, j \in Kinds : Enqueued(n, j) => n = m
    BY <2>1 DEF OnlyMine, Enqueued
  <2> QED BY <1>1, <1>6, <2>1, <2>2 DEF StepIsSound, DiscardKept, ruleVars
<1> QED BY <1>1, <1>2, <1>3, <1>4, <1>5, <1>6 DEF Decisions

LEMMA AdmissionStep ==
  ASSUME AdmissionIInv, Next
  PROVE  AdmissionIInv' /\ StepIsSound
<1> USE DEF AdmissionIInv
<1>1. RulesTyped
  BY DEF TypeOK, RulesTyped
<1>2. ruleVars' = ruleVars => RulesTyped'
  BY <1>1 DEF RulesTyped, ruleVars
<1>3. blocking \in BOOLEAN /\ TypeOK
  BY DEF TypeOK
<1>4. ASSUME NEW a \in Artists, ApplyReleaseBatches(a)
      PROVE  AdmissionIInv' /\ StepIsSound
  <2>1. blocking' \in BOOLEAN /\ ruleVars' = ruleVars /\ received' = received
    BY <1>4 DEF ApplyReleaseBatches
  <2>2. AlertsTurn /\ GuardKept /\ DiscardKept
    BY <1>4, BatchesTurn
  <2> QED BY <1>2, <2>1, <2>2, TurnsKeep, KeptIsSound
<1>5. ASSUME NEW m \in Members, QueueDueReleaseDays(m)
      PROVE  AdmissionIInv' /\ StepIsSound
  <2>1. blocking' = blocking /\ ruleVars' = ruleVars /\ received' = received
    BY <1>5 DEF QueueDueReleaseDays
  <2>2. AlertsTurn /\ GuardKept /\ DiscardKept
    BY <1>5, ReleaseDayTurns
  <2> QED BY <1>2, <1>3, <2>1, <2>2, TurnsKeep, KeptIsSound
<1>6. ASSUME NEW m \in Members, Decisions(m)
      PROVE  AdmissionIInv' /\ StepIsSound
  BY <1>2, <1>3, <1>6, DecisionsTurn, TurnsKeep
<1>7. ASSUME NEW m \in Members, NEW k \in Kinds, DeliverySent(m, k)
      PROVE  AdmissionIInv' /\ StepIsSound
  <2>1. ruleVars' = ruleVars
    BY <1>7 DEF DeliverySent
  <2> QED BY <1>7, <2>1, SentStep, KeptIsSound
<1>8. ASSUME NEW m \in Members, NEW k \in Kinds, DeliveryFailed(m, k)
      PROVE  AdmissionIInv' /\ StepIsSound
  <2>1. blocking' = blocking /\ ruleVars' = ruleVars /\ received' = received
    BY <1>8 DEF DeliveryFailed
  <2> QED BY <1>2, <1>3, <1>8, <2>1, FailureTurns, TurnsKeep, KeptIsSound
<1>9. ASSUME NEW m \in Members, FollowChanges(m)
      PROVE  AdmissionIInv' /\ StepIsSound
  <2>1. /\ AlertsTurn /\ GuardKept /\ DiscardKept /\ OnlyMyFollows(m) /\ RulesTyped'
        /\ \A k \in Kinds : OnSchedule(m, k)'
        /\ blocking' = blocking /\ received' = received
    BY <1>9, FollowsTurn
  <2>2. AdmissionIInv'
    BY <1>3, <2>1, TurnsKeep
  <2> QED BY <2>1, <2>2 DEF StepIsSound, GuardKept, DiscardKept, OnlyMyFollows
<1>10. ASSUME NEW m \in Members, NEW a \in Artists, CompleteArtistResolution(m, a)
       PROVE  AdmissionIInv' /\ StepIsSound
  <2>1. UNCHANGED <<rule, prefs, blocking, alert, received>>
        /\ follows' = [follows EXCEPT ![m] = follows[m] \cup {a}]
    BY <1>10 DEF CompleteArtistResolution
  <2>2. TypeOK'
    BY <2>1 DEF TypeOK
  <2>3. SentIsKept'
    BY <2>1 DEF SentIsKept
  <2>4. \A n \in Members : n # m => rule'[n] = rule[n] /\ follows'[n] = follows[n]
    BY <2>1 DEF TypeOK
  <2>5. \A n \in Members, k \in Kinds : ~Enqueued(n, k)
    BY <2>1 DEF Enqueued
  <2> QED BY <1>10, <2>2, <2>3, <2>4, <2>5 DEF StepIsSound
<1>11. ASSUME NEW m \in Members, NEW p \in Preferences, UpdateNotificationPreferences(m, p)
       PROVE  AdmissionIInv' /\ StepIsSound
  <2>1. UNCHANGED <<follows, rule, blocking, alert, received>>
        /\ prefs' = [prefs EXCEPT ![m] = p]
    BY <1>11 DEF UpdateNotificationPreferences
  <2>2. TypeOK'
    BY <2>1 DEF TypeOK
  <2>3. SentIsKept'
    BY <2>1 DEF SentIsKept
  <2>5. \A n \in Members, k \in Kinds : ~Enqueued(n, k)
    BY <2>1 DEF Enqueued
  <2> QED BY <2>1, <2>2, <2>3, <2>5 DEF StepIsSound
<1>12. CASE Tick
  <2>1. /\ AlertsTurn /\ GuardKept /\ DiscardKept /\ RulesTyped' /\ received' = received
        /\ blocking' = blocking
    BY <1>12, TickTurns
  <2>2. AdmissionIInv'
    BY <1>3, <2>1, TurnsKeep
  <2> QED BY <1>12, <2>1, <2>2 DEF StepIsSound, GuardKept, DiscardKept
<1>13. Editors \subseteq Members
  OBVIOUS
<1> QED
  BY <1>4, <1>5, <1>6, <1>7, <1>8, <1>9, <1>10, <1>11, <1>12, <1>13 DEF Next

LEMMA AdmissionStutter ==
  ASSUME AdmissionIInv, UNCHANGED vars
  PROVE  AdmissionIInv' /\ StepIsSound
<1>1. UNCHANGED <<follows, rule, prefs, blocking, alert, received>>
  BY DEF vars, ruleVars
<1>2. AdmissionIInv'
  BY <1>1 DEF AdmissionIInv, TypeOK, SentIsKept
<1>3. \A n \in Members, k \in Kinds : ~Enqueued(n, k)
  BY <1>1 DEF Enqueued
<1> QED BY <1>1, <1>2, <1>3 DEF StepIsSound

-----------------------------------------------------------------------------
(* Theorems.                                                               *)

\* Rows, rules and delays stay what the tables hold, and the delivery of an
\* alert that was handed out is kept as sent.
THEOREM AdmissionInvariance == Spec => []AdmissionIInv
<1>1. Init => AdmissionIInv
  BY InitialAdmission
<1>2. AdmissionIInv /\ [Next]_vars => AdmissionIInv'
  BY AdmissionStep, AdmissionStutter
<1> QED BY <1>1, <1>2, PTL DEF Spec

\* Through every unfollow and follow, restoration, review and synchronization
\* a member gets an alert once: enqueueEventTxModeOptions inserts its delivery
\* only when there is none.
THEOREM AlertsAreSingle == Spec => []AlertedOnce
<1>1. ASSUME AdmissionIInv
      PROVE  AlertedOnce
  <2>1. ASSUME NEW m \in Members, NEW k \in Kinds
        PROVE  received[m][k] = 1 \/ received[m][k] = 0
    BY <1>1 DEF AdmissionIInv, SentIsKept
  <2> QED BY <2>1 DEF AlertedOnce
<1> QED BY <1>1, AdmissionInvariance, PTL

\* The Trust Guard holds what evidence conflicts about until its member approves
\* it, nobody's review moves another member's alert, and what a member discarded
\* stays out of the queue until they restore it.
THEOREM GuardedDecisions == Spec => DecisionsStand
<1>1. AdmissionIInv /\ [Next]_vars =>
        [\A m \in Members, k \in Kinds :
           Enqueued(m, k) /\ prefs[m].holds /\ blocking' =>
             NotifyAnyway(m, k) \/ SetReleaseTruthDecision(m)]_vars
  BY AdmissionStep DEF StepIsSound
<1>2. AdmissionIInv /\ [Next]_vars =>
        [\A m \in Members, k \in Kinds :
           alert[m][k].hold = "discarded" /\ prefs[m].holds /\ Enqueued(m, k) =>
             RestoreHold(m, k)]_vars
  BY AdmissionStep DEF StepIsSound
<1>3. AdmissionIInv =>
        (\A m, n \in Members : m # n /\ alert'[n] # alert[n] => ~Decisions(m))
  BY DecisionsTurn DEF AdmissionIInv, OnlyMine
<1>4. AdmissionIInv /\ [Next]_vars =>
        [\A m, n \in Members : m # n /\ alert'[n] # alert[n] => ~Decisions(m)]_vars
  BY <1>3
<1>5. AdmissionIInv => TypeOK
  BY DEF AdmissionIInv
<1> QED
  BY <1>1, <1>2, <1>4, <1>5, AdmissionInvariance, PTL
  DEF Spec, DecisionsStand, GuardHolds, DecisionsArePrivate, DiscardIsKept

\* Whichever follow a change hands an alert to, realignQueuedDeliveriesTx leaves
\* every queued delivery on the schedule of the follow that governs it then.
THEOREM RealignedChanges == Spec => ChangesRealign
<1>1. AdmissionIInv /\ [Next]_vars =>
        [\A m \in Members :
           rule'[m] # rule[m] \/ follows'[m] # follows[m] =>
             \/ \A k \in Kinds : OnSchedule(m, k)'
             \/ Tick \/ \E a \in Artists : CompleteArtistResolution(m, a)]_vars
  BY AdmissionStep DEF StepIsSound
<1> QED BY <1>1, AdmissionInvariance, PTL DEF Spec, ChangesRealign
=============================================================================
