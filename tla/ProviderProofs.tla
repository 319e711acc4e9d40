--------------------------- MODULE ProviderProofs ---------------------------
(***************************************************************************)
(* Proofs about the two sides of a request to a provider: ArtistSync, for  *)
(* any artists, identities, configured providers, intervals, cooldowns and *)
(* limits, and ProviderClient, for any callers, lookups, windows and sizes *)
(* of the caches.                                                          *)
(***************************************************************************)
EXTENDS ArtistSync, ProviderClient, FiniteSetTheorems, TLAPS

-----------------------------------------------------------------------------
(* Delays.                                                                 *)

LEMMA PowersOfTwo ==
  ASSUME NEW n \in Nat
  PROVE  2 ^ n \in Nat /\ 2 ^ n > 0
<1>1. IsFiniteSet(1 .. n) /\ Cardinality(1 .. n) = n
  BY FS_Interval
<1>2. IsFiniteSet(SUBSET (1 .. n)) /\ Cardinality(SUBSET (1 .. n)) = 2 ^ n
  BY <1>1, FS_SUBSET
<1>3. Cardinality(SUBSET (1 .. n)) \in Nat
  BY <1>2, FS_CardinalityType
<1>4. Cardinality(SUBSET (1 .. n)) # 0
  BY <1>2, FS_EmptySet
<1> HIDE DEF Cardinality
<1> QED BY <1>2, <1>3, <1>4

\* No delay is longer than MaxTime.
LEMMA LongestTime ==
  /\ MaxTime \in Nat
  /\ {Interval, SpotifyInterval, MaxBackoff, RetryDelay} \cup CooldownLengths \subseteq 1 .. MaxTime
<1> DEFINE S == {Interval, SpotifyInterval, MaxBackoff} \cup CooldownLengths
<1>1. PICK longest \in CooldownLengths : \A d \in CooldownLengths : d <= longest
  BY SyncAssumption DEF SyncAssumption
<1>2. S \subseteq Nat \ {0}
  BY SyncAssumption DEF SyncAssumption
<1>3. \E x \in S : \A y \in S : x >= y
  <2>1. \E x \in {Interval, SpotifyInterval, MaxBackoff, longest} :
          \A y \in {Interval, SpotifyInterval, MaxBackoff, longest} : x >= y
    BY <1>1, <1>2
  <2>2. PICK x \in {Interval, SpotifyInterval, MaxBackoff, longest} :
          \A y \in {Interval, SpotifyInterval, MaxBackoff, longest} : x >= y
    BY <2>1
  <2>3. \A y \in S : x >= y
    BY <1>1, <1>2, <2>2
  <2> QED BY <2>2, <2>3
<1>4. MaxTime \in S /\ \A y \in S : MaxTime >= y
  BY <1>3 DEF MaxTime, Max
<1>5. RetryDelay \in Nat \ {0} /\ RetryDelay <= Interval
  BY SyncAssumption DEF SyncAssumption
<1> QED BY <1>2, <1>4, <1>5

LEMMA MusicBrainzBacksOff ==
  ASSUME streak \in 0 .. StreakCap
  PROVE  MusicBrainzDelay \in 1 .. MaxTime
<1>1. streak \in Nat
  BY SyncAssumption DEF SyncAssumption
<1>2. 2 ^ streak \in Nat /\ 2 ^ streak > 0
  BY <1>1, PowersOfTwo
<1>3. MaxTime \in Nat /\ Interval \in 1 .. MaxTime
  BY LongestTime
<1> QED BY <1>2, <1>3 DEF MusicBrainzDelay, Least

LEMMA SpotifyStretches ==
  ASSUME NEW n \in Nat
  PROVE  AdaptiveDelay(n) \in 1 .. MaxTime
<1>1. 2 ^ n \in Nat /\ 2 ^ n > 0
  BY PowersOfTwo
<1>2. MaxTime \in Nat /\ SpotifyInterval \in 1 .. MaxTime /\ MaxBackoff \in 1 .. MaxTime
  BY LongestTime
<1>3. \A k \in Nat : k > 0 => SpotifyInterval * k \in Nat /\ SpotifyInterval * k > 0
  BY <1>2
<1>4. SpotifyInterval * 2 ^ n \in Nat /\ SpotifyInterval * 2 ^ n > 0
  BY <1>1, <1>3
<1> QED BY <1>2, <1>4 DEF AdaptiveDelay, Least, Most

-----------------------------------------------------------------------------
(* What a step does to a provider's state.                                 *)

\* The least a provider is left alone for.
LEMMA WishIsLoaded ==
  ASSUME ProvidersTyped, WishesAreKept, NEW p \in Providers
  PROVE  Wish(p) <= Loaded(p) /\ Loaded(p) \in 0 .. MaxTime /\ Wish(p) \in 0 .. MaxTime
<1>1. told[p] \in [left : 0 .. MaxTime, minded : 0 .. MaxTime, stored : BOOLEAN]
  BY DEF ProvidersTyped
<1>2. Wish(p) \in 0 .. MaxTime
  BY <1>1, LongestTime DEF Wish, Least
<1>3. Wish(p) > 0 =>
        /\ cooldown[p].loaded => cooldown[p].left >= Wish(p)
        /\ told[p].stored => health[p] >= Wish(p)
        /\ cooldown[p].loaded \/ told[p].stored
  BY DEF WishesAreKept
<1>4. health[p] \in 0 .. MaxTime /\ cooldown[p] \in [left : 0 .. MaxTime, loaded : BOOLEAN]
  BY DEF ProvidersTyped
<1> QED BY <1>2, <1>3, <1>4, LongestTime DEF Loaded

\* A request answered or not made, as the actions combine it.
Hears(p) == \/ Succeeds(p) \/ NotAsked(p)
            \/ FailsPlainly(p) /\ Loaded(p) = 0
            \/ \E kept, d, minded \in 1 .. MaxTime :
                 CoolsDown(p, kept, d, minded) /\ Least(d, minded) <= kept
            \/ \E d \in 1 .. MaxTime : LimitedLate(p, d)

ProvidersKept(p) ==
  /\ ProvidersTyped' /\ WishesAreKept'
  /\ \A q \in Providers \ {p} : cooldown'[q] = cooldown[q]

LEMMA SuccessIsHeard ==
  ASSUME ProvidersTyped, WishesAreKept, NEW p \in Providers, Succeeds(p)
  PROVE  ProvidersKept(p)
<1> USE LongestTime
<1>0. StreakCap \in Nat
  BY SyncAssumption DEF SyncAssumption
<1>1. /\ \A q \in Providers : cooldown'[q] = IF q = p THEN [left |-> 0, loaded |-> TRUE] ELSE cooldown[q]
      /\ \A q \in Providers : health'[q] = IF q = p THEN 0 ELSE health[q]
      /\ \A q \in Providers : told'[q] = IF q = p THEN NeverTold ELSE told[q]
  BY DEF Succeeds, ProvidersTyped
<1>2. ProvidersTyped'
  BY <1>0 DEF Succeeds, ProvidersTyped, NeverTold
<1>3. \A q \in Providers : Wish(q)' = IF q = p THEN 0 ELSE Wish(q)
  BY <1>1 DEF Wish, Least, NeverTold
<1>4. WishesAreKept'
  BY <1>1, <1>3 DEF WishesAreKept
<1> QED BY <1>1, <1>2, <1>4 DEF ProvidersKept

\* A wish that is not minded holds nobody back.
LEMMA LateWishIsHeard ==
  ASSUME ProvidersTyped, WishesAreKept, NEW p \in Providers, NEW d \in 1 .. MaxTime, LimitedLate(p, d)
  PROVE  ProvidersKept(p)
<1> USE LongestTime
<1>1. /\ \A q \in Providers : cooldown'[q] = IF q = p THEN [left |-> 0, loaded |-> TRUE] ELSE cooldown[q]
      /\ \A q \in Providers : health'[q] = IF q = p THEN 0 ELSE health[q]
      /\ \A q \in Providers :
           told'[q] = IF q = p THEN [left |-> d, minded |-> 0, stored |-> FALSE] ELSE told[q]
  BY DEF LimitedLate, ProvidersTyped
<1>2. ProvidersTyped'
  BY DEF LimitedLate, ProvidersTyped
<1>3. \A q \in Providers : Wish(q)' = IF q = p THEN 0 ELSE Wish(q)
  BY <1>1 DEF Wish, Least
<1>4. WishesAreKept'
  BY <1>1, <1>3 DEF WishesAreKept
<1> QED BY <1>1, <1>2, <1>4 DEF ProvidersKept

LEMMA LoadingIsHeard ==
  ASSUME ProvidersTyped, WishesAreKept, NEW p \in Providers,
         NotAsked(p) \/ (FailsPlainly(p) /\ Loaded(p) = 0)
  PROVE  ProvidersKept(p) /\ cooldown'[p].left = Loaded(p)
<1> USE LongestTime
<1>0. Wish(p) <= Loaded(p) /\ Loaded(p) \in 0 .. MaxTime /\ Wish(p) \in 0 .. MaxTime
  BY WishIsLoaded
<1>1. /\ \A q \in Providers : cooldown'[q] = IF q = p THEN [left |-> Loaded(p), loaded |-> TRUE]
                                             ELSE cooldown[q]
      /\ told' = told /\ streak' = streak
      /\ health' = health \/ (health' = [health EXCEPT ![p] = 0] /\ Loaded(p) = 0)
  BY DEF NotAsked, FailsPlainly, Load, ProvidersTyped
<1>2. ProvidersTyped'
  <2>1. cooldown' = [cooldown EXCEPT ![p] = [left |-> Loaded(p), loaded |-> TRUE]]
    BY DEF NotAsked, FailsPlainly, Load
  <2>2. cooldown' \in [Providers -> [left : 0 .. MaxTime, loaded : BOOLEAN]]
    BY <1>0, <2>1 DEF ProvidersTyped
  <2>3. health' \in [Providers -> 0 .. MaxTime]
    BY <1>1 DEF ProvidersTyped
  <2> QED BY <1>1, <2>2, <2>3 DEF ProvidersTyped
<1>3. \A q \in Providers : /\ (health'[q] = health[q] \/ (q = p /\ Wish(p) = 0))
                             /\ Wish(q)' = Wish(q)
  BY <1>0, <1>1 DEF ProvidersTyped, Wish
<1>4. WishesAreKept'
  BY <1>0, <1>1, <1>3 DEF WishesAreKept
<1> QED BY <1>1, <1>2, <1>4 DEF ProvidersKept

LEMMA WishIsHeard ==
  ASSUME ProvidersTyped, WishesAreKept, NEW p \in Providers, NEW kept \in 1 .. MaxTime,
         NEW d \in 1 .. MaxTime, NEW minded \in 1 .. MaxTime,
         CoolsDown(p, kept, d, minded), Least(d, minded) <= kept
  PROVE  ProvidersKept(p) /\ cooldown'[p].left > 0
<1> USE LongestTime
<1>0. Loaded(p) \in 0 .. MaxTime /\ StreakCap \in Nat
  BY WishIsLoaded, SyncAssumption DEF SyncAssumption
<1> DEFINE left == IF p = "musicbrainz" THEN kept ELSE Most(Loaded(p), kept)
<1>1. left \in 1 .. MaxTime /\ left >= kept
  BY <1>0 DEF Most
<1>2. /\ cooldown' = [cooldown EXCEPT ![p] = [left |-> left, loaded |-> TRUE]]
      /\ \/ /\ health' = [health EXCEPT ![p] = kept]
            /\ told' = [told EXCEPT ![p] = [left |-> d, minded |-> minded, stored |-> TRUE]]
         \/ /\ health' = health
            /\ told' = [told EXCEPT ![p] = [left |-> d, minded |-> minded, stored |-> FALSE]]
      /\ streak' = IF p = "musicbrainz" THEN Least(streak + 1, StreakCap) ELSE streak
  BY DEF CoolsDown
<1> HIDE DEF left
<1>3. ProvidersTyped'
  <2>1. streak' \in 0 .. StreakCap
    BY <1>0, <1>2 DEF ProvidersTyped, Least
  <2>2. cooldown' \in [Providers -> [left : 0 .. MaxTime, loaded : BOOLEAN]]
    BY <1>1, <1>2 DEF ProvidersTyped
  <2>3. health' \in [Providers -> 0 .. MaxTime]
    BY <1>2 DEF ProvidersTyped
  <2>4. told' \in [Providers -> [left : 0 .. MaxTime, minded : 0 .. MaxTime, stored : BOOLEAN]]
    <3>1. PICK stored \in BOOLEAN :
            told' = [told EXCEPT ![p] = [left |-> d, minded |-> minded, stored |-> stored]]
      BY <1>2
    <3>2. [left |-> d, minded |-> minded, stored |-> stored]
            \in [left : 0 .. MaxTime, minded : 0 .. MaxTime, stored : BOOLEAN]
      OBVIOUS
    <3> QED BY <3>1, <3>2 DEF ProvidersTyped
  <2> QED BY <2>1, <2>2, <2>3, <2>4 DEF ProvidersTyped
<1>4. \A q \in Providers : cooldown'[q] = IF q = p THEN [left |-> left, loaded |-> TRUE] ELSE cooldown[q]
  BY <1>2 DEF ProvidersTyped
<1>5. WishesAreKept'
  <2>1. SUFFICES ASSUME NEW q \in Providers, Wish(q)' > 0
                 PROVE  /\ cooldown'[q].loaded => cooldown'[q].left >= Wish(q)'
                        /\ told'[q].stored => health'[q] >= Wish(q)'
                        /\ cooldown'[q].loaded \/ told'[q].stored
    BY DEF WishesAreKept
  <2>2. CASE q = p
    <3>1. /\ told'[p].left = d /\ told'[p].minded = minded
          /\ told'[p].stored => health'[p] = kept
      BY <1>2 DEF ProvidersTyped
    <3>2. Wish(p)' = Least(d, minded) /\ Least(d, minded) \in Nat
      BY <3>1 DEF Wish, Least
    <3> QED BY <1>1, <1>4, <2>2, <3>1, <3>2
  <2>3. CASE q # p
    <3>1. told'[q] = told[q] /\ health'[q] = health[q] /\ Wish(q)' = Wish(q)
      BY <1>2, <2>3 DEF ProvidersTyped, Wish
    <3> QED BY <1>4, <2>1, <2>3, <3>1 DEF WishesAreKept
  <2> QED BY <2>2, <2>3
<1> QED BY <1>1, <1>3, <1>4, <1>5 DEF ProvidersKept

LEMMA HearingKeepsProviders ==
  ASSUME ProvidersTyped, WishesAreKept, NEW p \in Providers, Hears(p)
  PROVE  ProvidersKept(p)
BY SuccessIsHeard, LoadingIsHeard, WishIsHeard, LateWishIsHeard DEF Hears

\* MusicBrainz is minded for as long as its failures say.
LEMMA FailureIsHeard ==
  ASSUME NEW d \in 1 .. MaxTime, MusicBrainzCoolsDown(d)
  PROVE  Hears("musicbrainz")
<1>1. Least(d, d) <= d
  BY LongestTime DEF Least
<1> QED BY <1>1 DEF MusicBrainzCoolsDown, Hears
-----------------------------------------------------------------------------
(* The visit.                                                              *)

LEMMA VisitIsOn ==
  ASSUME VisitsTyped, visit.at # "none"
  PROVE  visit \in Visits /\ visit # NoVisit
BY DEF VisitsTyped, NoVisit

LEMMA VisitGoes ==
  ASSUME visit \in Visits,
         NEW to \in {"identity", "genres", "spotify", "itunes", "musicbrainz", "persist"}, Goes(to)
  PROVE  /\ visit' \in Visits /\ visit'.at = to
         /\ visit'.artist = visit.artist /\ visit'.forced = visit.forced
         /\ visit'.spotify = visit.spotify /\ visit'.retry = visit.retry
BY DEF Visits, Goes

LEMMA SpotifyIsHeard ==
  ASSUME visit \in Visits, NEW result, NEW d \in 0 .. MaxTime,
         visit' = [visit EXCEPT !.at = "itunes", !.spotify = result, !.retry = d],
         result \in {"none", "deferred", "suppressed", "failed", "capped", "limited"} \cup SpotifyAnswers
  PROVE  /\ visit' \in Visits /\ visit'.at = "itunes"
         /\ visit'.artist = visit.artist /\ visit'.forced = visit.forced
         /\ visit'.spotify = result /\ visit'.retry = d
BY DEF Visits

LEMMA ITunesIsHeard ==
  ASSUME visit \in Visits, NEW result, ITunesSaid(result),
         result \in {"none", "suppressed", "found", "empty", "truncated", "failed"}
  PROVE  /\ visit' \in Visits /\ visit'.at = "musicbrainz"
         /\ visit'.artist = visit.artist /\ visit'.forced = visit.forced
         /\ visit'.spotify = visit.spotify /\ visit'.retry = visit.retry
BY DEF Visits, ITunesSaid

LEMMA MusicBrainzIsHeard ==
  ASSUME visit \in Visits, NEW result \in {"none", "suppressed", "found", "empty", "failed"},
         NEW d \in 0 .. MaxTime, MBAnswer(result, d)
  PROVE  /\ visit' \in Visits /\ visit'.at = "persist"
         /\ visit'.artist = visit.artist /\ visit'.forced = visit.forced
         /\ visit'.spotify = visit.spotify /\ visit'.retry = visit.retry
BY DEF Visits, MBAnswer

\* What a visit knows of Spotify it keeps while it asks the other providers.
LEMMA AccountIsKept ==
  ASSUME SpotifyIsAccountedFor, visit \in Visits, visit # NoVisit, visit' \in Visits,
         visit'.artist = visit.artist, visit'.forced = visit.forced, visit'.spotify = visit.spotify,
         visit'.retry = visit.retry,
         visit'.at \in {"identity", "genres", "spotify"}
           => visit.at \in {"identity", "genres", "spotify"},
         spotNext' = spotNext,
         visit.spotify \in {"limited", "suppressed"} => cooldown'["spotify"] = cooldown["spotify"]
  PROVE  SpotifyIsAccountedFor'
<1>1. WasDue' <=> WasDue
  BY DEF WasDue
<1>2. visit.at \in {"identity", "genres", "spotify"} => visit.spotify = "none"
  BY DEF SpotifyIsAccountedFor
<1>3. visit.spotify = "deferred" => ~WasDue
  BY DEF SpotifyIsAccountedFor
<1>4. /\ visit.spotify \in {"limited", "suppressed"} => cooldown["spotify"].left > 0
      /\ visit.spotify = "limited" => visit.retry > 0
  BY DEF SpotifyIsAccountedFor
<1> QED BY <1>1, <1>2, <1>3, <1>4 DEF SpotifyIsAccountedFor

LEMMA NobodyToAccountFor ==
  ASSUME visit' = NoVisit
  PROVE  SpotifyIsAccountedFor'
BY DEF SpotifyIsAccountedFor

-----------------------------------------------------------------------------
(* Schedules and identities.                                               *)

\* An artist that waits for both of its times is out of the due queue.
Waits(a) == next'[a] > 0 /\ (a \in OnSpotify => spotNext'[a] > 0)

LEMMA WaitingIsNotDue ==
  ASSUME SchedulesTyped', NEW a \in Artists, Waits(a)
  PROVE  ~(IsDue(a))'
<1>1. next'[a] \in Int /\ spotNext'[a] \in Int
  BY LongestTime, SyncAssumption DEF SchedulesTyped, SyncAssumption, Unset
<1> QED BY <1>1 DEF IsDue, SpotifyDue, Waits

LEMMA IdentityIsDeferred ==
  ASSUME SchedulesTyped, IdentitiesTyped, NEW a \in Artists, NEW attempts \in 0 .. MaxAttempts,
         NEW st \in {"pending", "unresolvable"}, NEW d \in 1 .. MaxTime,
         DeferIdentity(a, st, attempts, d)
  PROVE  /\ SchedulesTyped' /\ Waits(a)
         /\ identity' = [identity EXCEPT ![a] = [status |-> st, attempts |-> attempts]]
         /\ identity' \in [Artists -> [status : {"verified", "pending", "unresolvable"},
                                       attempts : 0 .. MaxAttempts]]
<1>0. MaxTime \in Nat /\ Late \in Nat /\ Unset \in Int /\ Unset < 0
  BY LongestTime, SyncAssumption DEF SyncAssumption, Unset
<1>1. next' = [next EXCEPT ![a] = d] /\ unchanged' = unchanged
  BY DEF DeferIdentity
<1>2. PICK t \in Unset .. MaxTime : /\ spotNext' = [spotNext EXCEPT ![a] = t]
                                    /\ a \in OnSpotify => t > 0
  <2>1. Most(spotNext[a], d) \in 1 .. MaxTime /\ spotNext[a] \in Unset .. MaxTime
    BY <1>0 DEF SchedulesTyped, Most
  <2>2. Most(spotNext[a], d) \in Unset .. MaxTime
    BY <1>0, <2>1
  <2>3. CASE a \in OnSpotify
    <3>1. spotNext' = [spotNext EXCEPT ![a] = Most(spotNext[a], d)]
      BY <2>3 DEF DeferIdentity
    <3> DEFINE t == Most(spotNext[a], d)
    <3>2. t \in Unset .. MaxTime /\ t > 0 /\ spotNext' = [spotNext EXCEPT ![a] = t]
      BY <2>1, <2>2, <3>1
    <3> HIDE DEF t
    <3> QED BY <3>2
  <2>4. CASE a \notin OnSpotify
    <3>1. spotNext' = [spotNext EXCEPT ![a] = spotNext[a]]
      BY <2>4 DEF DeferIdentity
    <3> QED BY <2>1, <2>4, <3>1
  <2> QED BY <2>3, <2>4
<1>3. SchedulesTyped'
  <2>1. d \in -Late .. MaxTime
    BY <1>0
  <2> QED BY <1>1, <1>2, <2>1 DEF SchedulesTyped
<1>4. Waits(a)
  BY <1>0, <1>1, <1>2 DEF SchedulesTyped, Waits
<1>5. identity' = [identity EXCEPT ![a] = [status |-> st, attempts |-> attempts]]
  BY DEF DeferIdentity
<1>6. [status |-> st, attempts |-> attempts]
        \in [status : {"verified", "pending", "unresolvable"}, attempts : 0 .. MaxAttempts]
  OBVIOUS
<1> QED BY <1>3, <1>4, <1>5, <1>6 DEF IdentitiesTyped

\* A refusal counts on both sides; an outage on neither.
LEMMA RefusalsStayCounted ==
  ASSUME IdentitiesTyped, RefusalsAreCounted, NEW a \in Artists, NEW n \in 0 .. MaxAttempts,
         NEW more \in Nat,
         NEW st \in {"pending", "unresolvable", "verified"},
         identity' = [identity EXCEPT ![a] = [status |-> st, attempts |-> n]],
         definitive' = [definitive EXCEPT ![a] = more],
         n <= more, st = "pending" => n < MaxAttempts, st = "unresolvable" => n = MaxAttempts,
         st = "verified" => n = 0
  PROVE  IdentitiesTyped' /\ RefusalsAreCounted'
<1>1. [status |-> st, attempts |-> n]
        \in [status : {"verified", "pending", "unresolvable"}, attempts : 0 .. MaxAttempts]
  OBVIOUS
<1>2. IdentitiesTyped'
  BY <1>1 DEF IdentitiesTyped
<1>3. \A b \in Artists :
        /\ identity'[b] = IF b = a THEN [status |-> st, attempts |-> n] ELSE identity[b]
        /\ definitive'[b] = IF b = a THEN more ELSE definitive[b]
  BY DEF IdentitiesTyped
<1> QED BY <1>2, <1>3 DEF RefusalsAreCounted
-----------------------------------------------------------------------------
(* A visit's steps.                                                        *)

Parts ==
  /\ SchedulesTyped /\ IdentitiesTyped /\ ProvidersTyped /\ VisitsTyped
  /\ RefusalsAreCounted /\ WishesAreKept /\ SpotifyIsAccountedFor

\* A step ends the visit, its artist waiting for both of its times, or goes on.
Moved == visit' = NoVisit => Waits(visit.artist)

LEMMA ScheduleIsSet ==
  ASSUME SchedulesTyped, visit \in Visits, NEW d \in 1 .. MaxTime, SetNormal(d),
         \/ KeepSpotify /\ (visit.artist \in OnSpotify => spotNext[visit.artist] > 0)
         \/ \E e \in 1 .. MaxTime, n \in 0 .. StretchCap :
              SetSpotify(e) /\ unchanged' = [unchanged EXCEPT ![visit.artist] = n]
         \/ \E e \in 1 .. MaxTime : SetSpotify(e) /\ UNCHANGED unchanged
  PROVE  SchedulesTyped' /\ Waits(visit.artist)
<1>0. MaxTime \in Nat /\ Late \in Nat /\ Unset \in Int /\ Unset < 0 /\ visit.artist \in Artists
  BY LongestTime, SyncAssumption DEF SyncAssumption, Unset, Visits
<1>1. next' = [next EXCEPT ![visit.artist] = d] /\ d \in -Late .. MaxTime /\ d > 0
  BY <1>0 DEF SetNormal
<1>2. CASE KeepSpotify /\ (visit.artist \in OnSpotify => spotNext[visit.artist] > 0)
  <2>1. UNCHANGED <<spotNext, unchanged>>
    BY <1>2 DEF KeepSpotify
  <2> QED BY <1>0, <1>1, <1>2, <2>1 DEF SchedulesTyped, Waits
<1>3. ASSUME NEW e \in 1 .. MaxTime, SetSpotify(e),
             \/ UNCHANGED unchanged
             \/ \E n \in 0 .. StretchCap : unchanged' = [unchanged EXCEPT ![visit.artist] = n]
      PROVE  SchedulesTyped' /\ Waits(visit.artist)
  <2>1. spotNext' = [spotNext EXCEPT ![visit.artist] = e] /\ e \in Unset .. MaxTime /\ e > 0
    BY <1>0, <1>3 DEF SetSpotify
  <2>2. unchanged' \in [Artists -> 0 .. StretchCap]
    BY <1>0, <1>3 DEF SchedulesTyped
  <2>3. SchedulesTyped'
    BY <1>0, <1>1, <2>1, <2>2 DEF SchedulesTyped
  <2> QED BY <1>0, <1>1, <2>1, <2>3 DEF SchedulesTyped, Waits
<1> QED BY <1>2, <1>3

\* The steps that verify an identity.
LEMMA IdentityStepMoves ==
  ASSUME Parts, VerifiedAlready \/ IdentityWaits \/ IdentityVerified \/ IdentityTransient
                \/ IdentityRefused
  PROVE  Parts' /\ Moved
<1>1. visit \in Visits /\ visit # NoVisit /\ visit.at = "identity" /\ visit.artist \in Artists
  <2>1. visit.at = "identity"
    BY DEF VerifiedAlready, IdentityWaits, IdentityVerified, IdentityTransient, IdentityRefused,
           AskIdentity
  <2> QED BY <2>1, VisitIsOn DEF Parts, Visits
<1>2. "musicbrainz" \in Providers /\ "musicbrainz" # "spotify" /\ NoVisit \notin Visits
      /\ MaxAttempts \in Nat \ {0}
  BY SyncAssumption DEF SyncAssumption, Providers, NoVisit, Visits
<1> DEFINE a == visit.artist
<1>3. identity[a].attempts \in 0 .. MaxAttempts /\ definitive[a] \in Nat
      /\ identity[a].attempts <= definitive[a]
      /\ (identity[a].status = "pending" => identity[a].attempts < MaxAttempts)
  BY <1>1 DEF Parts, IdentitiesTyped, RefusalsAreCounted
<1>4. CASE VerifiedAlready
  <2>1. Goes("genres") /\ UNCHANGED <<next, spotNext, unchanged, identity, health, cooldown, streak,
                                      told, batch, budget, definitive>>
    BY <1>4 DEF VerifiedAlready, artistState, schedules, providerState
  <2>2. /\ visit' \in Visits /\ visit'.at = "genres" /\ visit'.artist = visit.artist
        /\ visit'.forced = visit.forced /\ visit'.spotify = visit.spotify
        /\ visit'.retry = visit.retry
    BY <1>1, <2>1, VisitGoes
  <2>3. SpotifyIsAccountedFor'
    BY <1>1, <2>1, <2>2, AccountIsKept DEF Parts
  <2>4. VisitsTyped'
    BY <2>1, <2>2 DEF Parts, VisitsTyped
  <2>5. ProvidersTyped' /\ WishesAreKept' /\ SchedulesTyped' /\ IdentitiesTyped' /\ RefusalsAreCounted'
    BY <2>1 DEF Parts, ProvidersTyped, WishesAreKept, Wish, SchedulesTyped, IdentitiesTyped, RefusalsAreCounted
  <2> QED BY <1>2, <2>2, <2>3, <2>4, <2>5 DEF Parts, Moved
<1>5. ASSUME NEW n \in 0 .. MaxAttempts, NEW st \in {"pending", "unresolvable"},
             NEW d \in 1 .. MaxTime, DeferIdentity(a, st, n, d), Ends, Hears("musicbrainz"),
             UNCHANGED <<batch, budget>>, NEW more \in Nat,
             definitive' = [definitive EXCEPT ![a] = more], n <= more,
             st = "pending" => n < MaxAttempts, st = "unresolvable" => n = MaxAttempts
      PROVE  Parts' /\ Moved
  <2>0. st # "verified"
    OBVIOUS
  <2>1. SchedulesTyped' /\ Waits(a) /\ identity' = [identity EXCEPT ![a] = [status |-> st, attempts |-> n]]
    BY <1>1, <1>5, IdentityIsDeferred DEF Parts
  <2>2. IdentitiesTyped' /\ RefusalsAreCounted'
    BY <1>1, <1>5, <2>0, <2>1, RefusalsStayCounted DEF Parts
  <2>3. ProvidersTyped' /\ WishesAreKept'
    BY <1>2, <1>5, HearingKeepsProviders DEF Parts, ProvidersKept
  <2>4. VisitsTyped' /\ SpotifyIsAccountedFor'
    BY <1>5, NobodyToAccountFor DEF Parts, VisitsTyped, Ends
  <2> QED BY <2>1, <2>2, <2>3, <2>4 DEF Parts, Moved
<1>6. CASE IdentityWaits
  <2>1. Loaded("musicbrainz") \in 1 .. MaxTime
    BY <1>2, <1>6, WishIsLoaded, LongestTime DEF IdentityWaits, Parts
  <2>2. definitive' = [definitive EXCEPT ![a] = definitive[a]]
    BY <1>6 DEF IdentityWaits, Parts, IdentitiesTyped
  <2>3. Hears("musicbrainz")
    BY <1>6 DEF IdentityWaits, Hears
  <2> QED BY <1>3, <1>5, <1>6, <2>1, <2>2, <2>3 DEF IdentityWaits
<1>7. CASE IdentityTransient
  <2>1. MusicBrainzDelay \in 1 .. MaxTime
    BY MusicBrainzBacksOff DEF Parts, ProvidersTyped
  <2>2. definitive' = [definitive EXCEPT ![a] = definitive[a]]
    BY <1>7 DEF IdentityTransient, Parts, IdentitiesTyped
  <2>3. Hears("musicbrainz")
    BY <1>7, <2>1, FailureIsHeard DEF IdentityTransient
  <2> QED BY <1>3, <1>5, <1>7, <2>1, <2>2, <2>3 DEF IdentityTransient, AskIdentity
<1>8. CASE IdentityRefused
  <2> DEFINE n  == identity[a].attempts + 1
             st == IF n >= MaxAttempts THEN "unresolvable" ELSE "pending"
  <2>1. IdentityDelay \in 1 .. MaxTime
    BY LongestTime DEF IdentityDelay
  <2>2. Hears("musicbrainz")
    BY <1>8 DEF IdentityRefused, Hears
  <2>3. /\ n \in 0 .. MaxAttempts /\ n <= definitive[a] + 1 /\ definitive[a] + 1 \in Nat
        /\ st \in {"pending", "unresolvable"} /\ (st = "pending" => n < MaxAttempts)
        /\ (st = "unresolvable" => n = MaxAttempts)
    BY <1>2, <1>3, <1>8 DEF IdentityRefused, AskIdentity
  <2>4. /\ DeferIdentity(a, st, n, IdentityDelay) /\ Ends /\ UNCHANGED <<batch, budget>>
        /\ definitive' = [definitive EXCEPT ![a] = definitive[a] + 1]
    BY <1>8 DEF IdentityRefused
  <2> HIDE DEF n, st
  <2> QED BY <1>5, <2>1, <2>2, <2>3, <2>4
<1>9. CASE IdentityVerified
  <2>1. /\ identity' = [identity EXCEPT ![a] = [status |-> "verified", attempts |-> 0]]
        /\ definitive' = [definitive EXCEPT ![a] = 0]
        /\ Succeeds("musicbrainz") /\ Goes("genres")
        /\ UNCHANGED <<next, spotNext, unchanged, batch, budget>>
    BY <1>9 DEF IdentityVerified, schedules
  <2>2. IdentitiesTyped' /\ RefusalsAreCounted'
    <3> DEFINE n == 0
               st == "verified"
    <3>1. /\ n \in 0 .. MaxAttempts /\ n \in Nat /\ n <= n /\ st \in {"pending", "unresolvable", "verified"}
          /\ (st = "pending" => n < MaxAttempts) /\ (st = "unresolvable" => n = MaxAttempts)
          /\ (st = "verified" => n = 0)
      BY <1>2
    <3>2. /\ identity' = [identity EXCEPT ![a] = [status |-> st, attempts |-> n]]
          /\ definitive' = [definitive EXCEPT ![a] = n]
      BY <2>1
    <3> HIDE DEF n, st
    <3> QED BY <1>1, <3>1, <3>2, RefusalsStayCounted DEF Parts
  <2>3. ProvidersTyped' /\ WishesAreKept' /\ cooldown'["spotify"] = cooldown["spotify"]
    BY <1>2, <2>1, SuccessIsHeard DEF Parts, ProvidersKept, Providers
  <2>4. /\ visit' \in Visits /\ visit'.at = "genres" /\ visit'.artist = visit.artist
        /\ visit'.forced = visit.forced /\ visit'.spotify = visit.spotify
        /\ visit'.retry = visit.retry
    BY <1>1, <2>1, VisitGoes
  <2>5. SpotifyIsAccountedFor'
    BY <1>1, <2>1, <2>3, <2>4, AccountIsKept DEF Parts
  <2>6. VisitsTyped' /\ SchedulesTyped'
    BY <2>1, <2>4 DEF Parts, VisitsTyped, SchedulesTyped
  <2> QED BY <1>2, <2>2, <2>3, <2>4, <2>5, <2>6 DEF Parts, Moved
<1> QED BY <1>4, <1>6, <1>7, <1>8, <1>9
\* The steps that ask the catalogs, each under the provider it asks.
LEMMA AskingMoves ==
  ASSUME Parts, visit \in Visits, visit # NoVisit, visit' \in Visits,
         visit'.artist = visit.artist, visit'.forced = visit.forced, SpotifyIsAccountedFor',
         NEW p \in Providers, Hears(p) \/ UNCHANGED providerState,
         UNCHANGED <<schedules, identity, batch, budget, definitive>>
  PROVE  Parts' /\ Moved
<1>1. NoVisit \notin Visits
  BY DEF NoVisit, Visits
<1>2. ProvidersTyped' /\ WishesAreKept'
  <2>1. CASE Hears(p)
    BY <2>1, HearingKeepsProviders DEF Parts, ProvidersKept
  <2>2. CASE UNCHANGED providerState
    BY <2>2 DEF providerState, Parts, ProvidersTyped, WishesAreKept, Wish
  <2> QED BY <2>1, <2>2
<1>3. VisitsTyped' /\ SchedulesTyped' /\ IdentitiesTyped' /\ RefusalsAreCounted'
  BY DEF schedules, Parts, VisitsTyped, SchedulesTyped, IdentitiesTyped, RefusalsAreCounted
<1> QED BY <1>1, <1>2, <1>3 DEF Parts, Moved

LEMMA BackfillMoves ==
  ASSUME Parts, BackfillGenres
  PROVE  Parts' /\ Moved
<1>1. visit \in Visits /\ visit # NoVisit /\ visit.at = "genres" /\ "musicbrainz" \in Providers
  <2>1. visit.at = "genres"
    BY DEF BackfillGenres
  <2> QED BY <2>1, VisitIsOn DEF Parts, Providers
<1>2. /\ Goes("spotify") /\ UNCHANGED providerState /\ cooldown' = cooldown /\ spotNext' = spotNext
      /\ UNCHANGED <<schedules, identity, batch, budget, definitive>>
  BY DEF BackfillGenres, artistState, schedules, providerState
<1>3. /\ visit' \in Visits /\ visit'.at = "spotify" /\ visit'.artist = visit.artist
      /\ visit'.forced = visit.forced /\ visit'.spotify = visit.spotify
      /\ visit'.retry = visit.retry
  BY <1>1, <1>2, VisitGoes
<1>4. SpotifyIsAccountedFor'
  BY <1>1, <1>2, <1>3, AccountIsKept DEF Parts
<1> QED BY <1>1, <1>2, <1>3, <1>4, AskingMoves

\* What Spotify asks for is a delay, clamped or not.
LEMMA RetryIsADelay ==
  ASSUME NEW d \in 1 .. MaxTime, NEW quota \in BOOLEAN, NEW interval \in 1 .. MaxTime
  PROVE  /\ SyncRetryDelay(d, quota, interval) \in 1 .. MaxTime
         /\ Least(d, IF quota THEN d ELSE interval) <= SyncRetryDelay(d, quota, interval)
BY LongestTime DEF SyncRetryDelay, Least, Most

LEMMA SpotifyStepMoves ==
  ASSUME Parts, SpotifySkipped \/ ObserveSpotify
  PROVE  Parts' /\ Moved
<1>0. SpotifyIsAccountedFor /\ ProvidersTyped /\ WishesAreKept /\ SchedulesTyped
  BY DEF Parts
<1>1. visit \in Visits /\ visit # NoVisit /\ visit.artist \in Artists /\ "spotify" \in Providers
      /\ MaxTime \in Nat
  <2>1. visit.at = "spotify"
    BY DEF SpotifySkipped, ObserveSpotify, AtProvider
  <2> QED BY <2>1, VisitIsOn, LongestTime DEF Parts, Visits, Providers
<1>2. UNCHANGED <<schedules, identity, batch, budget, definitive>>
  BY DEF SpotifySkipped, ObserveSpotify, artistState
<1>3. CASE SpotifySkipped
  <2>1. PICK result \in {"none", "deferred"} :
          /\ visit' = [visit EXCEPT !.at = "itunes", !.spotify = result]
          /\ result = "deferred" => ~WasDue
    BY <1>3 DEF SpotifySkipped
  <2>0. /\ visit.retry \in 0 .. MaxTime
        /\ visit' = [visit EXCEPT !.at = "itunes", !.spotify = result, !.retry = visit.retry]
    BY <1>1, <2>1 DEF Visits
  <2>2. /\ visit' \in Visits /\ visit'.at = "itunes" /\ visit'.artist = visit.artist
        /\ visit'.forced = visit.forced /\ visit'.spotify = result
    BY <1>1, <2>0, <2>1, SpotifyIsHeard
  <2>3. WasDue' <=> WasDue
    BY <1>2, <2>2 DEF WasDue, schedules
  <2>4. SpotifyIsAccountedFor'
    BY <2>1, <2>2, <2>3 DEF SpotifyIsAccountedFor
  <2>5. UNCHANGED providerState
    BY <1>3 DEF SpotifySkipped
  <2> QED BY <1>1, <1>2, <2>2, <2>4, <2>5, AskingMoves
<1>4. ASSUME NEW result \in {"suppressed", "failed", "capped", "limited"} \cup SpotifyAnswers,
             NEW d \in 0 .. MaxTime, Hears("spotify"),
             visit' = [visit EXCEPT !.at = "itunes", !.spotify = result, !.retry = d],
             result \in {"limited", "suppressed"} => cooldown'["spotify"].left > 0,
             result = "limited" => d > 0
      PROVE  Parts' /\ Moved
  <2>1. /\ visit' \in Visits /\ visit'.at = "itunes" /\ visit'.artist = visit.artist
        /\ visit'.forced = visit.forced /\ visit'.spotify = result /\ result # "deferred"
        /\ visit'.retry = d
    BY <1>1, <1>4, SpotifyIsHeard DEF SpotifyAnswers
  <2>2. SpotifyIsAccountedFor'
    BY <1>4, <2>1 DEF SpotifyIsAccountedFor
  <2> QED BY <1>1, <1>2, <1>4, <2>1, <2>2, AskingMoves
<1>5. ASSUME NEW result \in {"suppressed", "failed", "capped"} \cup SpotifyAnswers,
             SpotifySaid(result), Hears("spotify"),
             result = "suppressed" => cooldown'["spotify"].left > 0
      PROVE  Parts' /\ Moved
  <2>1. visit.retry \in 0 .. MaxTime /\ result # "limited"
    BY <1>1 DEF Visits, SpotifyAnswers
  <2>2. visit' = [visit EXCEPT !.at = "itunes", !.spotify = result, !.retry = visit.retry]
    BY <1>1, <1>5 DEF SpotifySaid, Visits
  <2> DEFINE d == visit.retry
  <2>3. /\ d \in 0 .. MaxTime /\ result \in {"suppressed", "failed", "capped", "limited"} \cup SpotifyAnswers
        /\ visit' = [visit EXCEPT !.at = "itunes", !.spotify = result, !.retry = d]
    BY <1>5, <2>1, <2>2
  <2> HIDE DEF d
  <2> QED BY <1>4, <1>5, <2>1, <2>3
<1>6. CASE ObserveSpotify
  <2>1. CASE Loaded("spotify") > 0
    <3>1. NotAsked("spotify") /\ SpotifySaid("suppressed")
      BY <1>6, <2>1 DEF ObserveSpotify
    <3>2. cooldown'["spotify"].left > 0
      BY <1>0, <1>1, <2>1, <3>1, LoadingIsHeard
    <3> QED BY <1>5, <3>1, <3>2 DEF Hears
  <2>2. CASE ~(Loaded("spotify") > 0)
    <3>1. Loaded("spotify") = 0
      BY <1>0, <1>1, <2>2, WishIsLoaded
    <3>2. \/ \E r \in SpotifyAnswers : Succeeds("spotify") /\ SpotifySaid(r)
          \/ \E r \in {"failed", "capped"} : FailsPlainly("spotify") /\ SpotifySaid(r)
          \/ \E d \in CooldownLengths, quota \in BOOLEAN :
               /\ SpotifyCoolsDown(d, quota)
               /\ visit' = [visit EXCEPT !.at = "itunes", !.spotify = "limited",
                                          !.retry = SyncRetryDelay(d, quota, Interval)]
      BY <1>6, <2>2 DEF ObserveSpotify
    <3>3. ASSUME NEW r \in SpotifyAnswers \cup {"failed", "capped"}, SpotifySaid(r), Hears("spotify")
          PROVE  Parts' /\ Moved
      BY <1>5, <3>3 DEF SpotifyAnswers
    <3>4. ASSUME NEW d \in CooldownLengths, NEW quota \in BOOLEAN, SpotifyCoolsDown(d, quota),
                 visit' = [visit EXCEPT !.at = "itunes", !.spotify = "limited",
                                         !.retry = SyncRetryDelay(d, quota, Interval)]
          PROVE  Parts' /\ Moved
      <4> DEFINE kept   == SyncRetryDelay(d, quota, SpotifyInterval)
                 minded == IF quota THEN d ELSE SpotifyInterval
                 retry  == SyncRetryDelay(d, quota, Interval)
      <4>1. /\ d \in 1 .. MaxTime /\ Interval \in 1 .. MaxTime /\ SpotifyInterval \in 1 .. MaxTime
            /\ minded \in 1 .. MaxTime
        BY LongestTime
      <4>2. kept \in 1 .. MaxTime /\ retry \in 1 .. MaxTime /\ Least(d, minded) <= kept
        BY <4>1, RetryIsADelay
      <4>3. CoolsDown("spotify", kept, d, minded)
        BY <3>4 DEF SpotifyCoolsDown
      <4>4. visit' = [visit EXCEPT !.at = "itunes", !.spotify = "limited", !.retry = retry]
        BY <3>4
      <4> HIDE DEF kept, minded, retry
      <4>5. cooldown'["spotify"].left > 0 /\ Hears("spotify")
        BY <1>0, <1>1, <4>1, <4>2, <4>3, WishIsHeard DEF Hears
      <4>6. retry \in 0 .. MaxTime /\ retry > 0
        BY <1>1, <4>2
      <4> QED BY <1>4, <4>4, <4>5, <4>6
    <3> QED BY <3>1, <3>2, <3>3, <3>4 DEF Hears
  <2> QED BY <2>1, <2>2
<1> QED BY <1>3, <1>6

LEMMA ITunesStepMoves ==
  ASSUME Parts, ITunesStandby \/ ObserveITunes
  PROVE  Parts' /\ Moved
<1>0. SpotifyIsAccountedFor /\ ProvidersTyped /\ WishesAreKept
  BY DEF Parts
<1>1. visit \in Visits /\ visit # NoVisit /\ visit.at = "itunes" /\ {"itunes", "spotify"} \subseteq Providers
  <2>1. visit.at = "itunes"
    BY DEF ITunesStandby, ObserveITunes, AtProvider
  <2> QED BY <2>1, VisitIsOn DEF Parts, Providers
<1>2. UNCHANGED <<schedules, identity, batch, budget, definitive>>
  BY DEF ITunesStandby, ObserveITunes, artistState
<1>3. CASE ITunesStandby
  <2>1. Goes("musicbrainz") /\ UNCHANGED providerState /\ cooldown' = cooldown /\ spotNext' = spotNext
    BY <1>2, <1>3 DEF ITunesStandby, providerState, schedules
  <2>2. /\ visit' \in Visits /\ visit'.at = "musicbrainz" /\ visit'.artist = visit.artist
        /\ visit'.forced = visit.forced /\ visit'.spotify = visit.spotify
        /\ visit'.retry = visit.retry
    BY <1>1, <2>1, VisitGoes
  <2>3. SpotifyIsAccountedFor'
    BY <1>0, <1>1, <2>1, <2>2, AccountIsKept
  <2> QED BY <1>1, <1>2, <2>1, <2>2, <2>3, AskingMoves
<1>4. ASSUME NEW result \in {"suppressed", "found", "empty", "truncated", "failed"},
             ITunesSaid(result), Hears("itunes")
      PROVE  Parts' /\ Moved
  <2>1. /\ visit' \in Visits /\ visit'.at = "musicbrainz" /\ visit'.artist = visit.artist
        /\ visit'.forced = visit.forced /\ visit'.spotify = visit.spotify
        /\ visit'.retry = visit.retry
    BY <1>1, <1>4, ITunesIsHeard
  <2>2. cooldown'["spotify"] = cooldown["spotify"] /\ spotNext' = spotNext
    BY <1>0, <1>1, <1>2, <1>4, HearingKeepsProviders DEF ProvidersKept, schedules
  <2>3. SpotifyIsAccountedFor'
    BY <1>0, <1>1, <2>1, <2>2, AccountIsKept
  <2> QED BY <1>1, <1>2, <1>4, <2>1, <2>3, AskingMoves
<1>5. CASE ObserveITunes
  <2>1. CASE Loaded("itunes") > 0
    BY <1>4, <1>5, <2>1 DEF ObserveITunes, Hears
  <2>2. CASE ~(Loaded("itunes") > 0)
    <3>1. Loaded("itunes") = 0
      BY <1>0, <1>1, <2>2, WishIsLoaded, LongestTime
    <3>2. \/ \E r \in {"found", "empty", "truncated"} : Succeeds("itunes") /\ ITunesSaid(r)
          \/ FailsPlainly("itunes") /\ \E r \in {"empty", "failed"} : ITunesSaid(r)
          \/ \E d \in CooldownLengths :
               \/ CoolsDown("itunes", d, d, d) /\ ITunesSaid("failed")
               \/ LimitedLate("itunes", d) /\ \E r \in {"found", "empty", "truncated"} : ITunesSaid(r)
      BY <1>5, <2>2 DEF ObserveITunes
    <3>3. \A d \in CooldownLengths : d \in 1 .. MaxTime /\ Least(d, d) <= d
      BY LongestTime DEF Least
    <3> QED BY <1>4, <3>1, <3>2, <3>3 DEF Hears
  <2> QED BY <2>1, <2>2
<1> QED BY <1>3, <1>5

LEMMA MusicBrainzStepMoves ==
  ASSUME Parts, MusicBrainzStandby \/ ObserveMusicBrainz
  PROVE  Parts' /\ Moved
<1>0. SpotifyIsAccountedFor /\ ProvidersTyped /\ WishesAreKept
  BY DEF Parts
<1>1. /\ visit \in Visits /\ visit # NoVisit /\ visit.at = "musicbrainz"
      /\ {"musicbrainz", "spotify"} \subseteq Providers
  <2>1. visit.at = "musicbrainz"
    BY DEF MusicBrainzStandby, ObserveMusicBrainz, AtProvider
  <2> QED BY <2>1, VisitIsOn DEF Parts, Providers
<1>2. UNCHANGED <<schedules, identity, batch, budget, definitive>>
  BY DEF MusicBrainzStandby, ObserveMusicBrainz, artistState
<1>3. CASE MusicBrainzStandby
  <2>1. Goes("persist") /\ UNCHANGED providerState /\ cooldown' = cooldown /\ spotNext' = spotNext
    BY <1>2, <1>3 DEF MusicBrainzStandby, providerState, schedules
  <2>2. /\ visit' \in Visits /\ visit'.at = "persist" /\ visit'.artist = visit.artist
        /\ visit'.forced = visit.forced /\ visit'.spotify = visit.spotify
        /\ visit'.retry = visit.retry
    BY <1>1, <2>1, VisitGoes
  <2>3. SpotifyIsAccountedFor'
    BY <1>0, <1>1, <2>1, <2>2, AccountIsKept
  <2> QED BY <1>1, <1>2, <2>1, <2>2, <2>3, AskingMoves
<1>4. ASSUME NEW result \in {"suppressed", "found", "empty", "failed"}, NEW d \in 0 .. MaxTime,
             MBAnswer(result, d), Hears("musicbrainz")
      PROVE  Parts' /\ Moved
  <2>1. /\ visit' \in Visits /\ visit'.at = "persist" /\ visit'.artist = visit.artist
        /\ visit'.forced = visit.forced /\ visit'.spotify = visit.spotify
        /\ visit'.retry = visit.retry
    BY <1>1, <1>4, MusicBrainzIsHeard
  <2>2. cooldown'["spotify"] = cooldown["spotify"] /\ spotNext' = spotNext
    BY <1>0, <1>1, <1>2, <1>4, HearingKeepsProviders DEF ProvidersKept, schedules
  <2>3. SpotifyIsAccountedFor'
    BY <1>0, <1>1, <2>1, <2>2, AccountIsKept
  <2> QED BY <1>1, <1>2, <1>4, <2>1, <2>3, AskingMoves
<1>5. CASE ObserveMusicBrainz
  <2>0. Loaded("musicbrainz") \in 0 .. MaxTime /\ 0 \in 0 .. MaxTime
    BY <1>0, <1>1, WishIsLoaded, LongestTime
  <2>1. CASE Loaded("musicbrainz") > 0
    BY <1>4, <1>5, <2>0, <2>1 DEF ObserveMusicBrainz, Hears
  <2>2. CASE ~(Loaded("musicbrainz") > 0)
    <3>1. \/ \E r \in {"found", "empty"} : Succeeds("musicbrainz") /\ MBAnswer(r, 0)
          \/ \E r \in {"found", "failed"} :
               MusicBrainzCoolsDown(MusicBrainzDelay) /\ MBAnswer(r, MusicBrainzDelay)
      BY <1>5, <2>2 DEF ObserveMusicBrainz
    <3>2. MusicBrainzDelay \in 1 .. MaxTime /\ MusicBrainzDelay \in 0 .. MaxTime
      BY <1>0, MusicBrainzBacksOff, LongestTime DEF ProvidersTyped
    <3> QED BY <1>4, <2>0, <3>1, <3>2, FailureIsHeard DEF Hears
  <2> QED BY <2>1, <2>2
<1> QED BY <1>3, <1>5
-----------------------------------------------------------------------------
(* The steps that end a visit.                                             *)

LEMMA EndingMoves ==
  ASSUME Parts, visit \in Visits, visit # NoVisit, Ends, SchedulesTyped', Waits(visit.artist),
         UNCHANGED <<identity, providerState, batch, definitive>>, budget' \in 0 .. Budget
  PROVE  Parts' /\ Moved
<1>1. SpotifyIsAccountedFor'
  BY NobodyToAccountFor DEF Ends
<1>2. ProvidersTyped' /\ WishesAreKept' /\ IdentitiesTyped' /\ RefusalsAreCounted'
  BY DEF Parts, providerState, ProvidersTyped, WishesAreKept, Wish, IdentitiesTyped, RefusalsAreCounted
<1>3. VisitsTyped'
  BY DEF Parts, VisitsTyped, Ends
<1> QED BY <1>1, <1>2, <1>3 DEF Parts, Moved

\* The delay of a Spotify check that brought nothing lies ahead.
LEMMA SpotifyRetryIsAhead ==
  ASSUME ProvidersTyped, SpotifyIsAccountedFor, visit # NoVisit
  PROVE  /\ SpotifyRetry \in 1 .. MaxTime
         /\ visit \in Visits /\ visit.spotify = "limited" => visit.retry \in 1 .. MaxTime
<1>0. visit \in Visits /\ visit.spotify = "limited" => visit.retry \in 1 .. MaxTime
  BY LongestTime DEF SpotifyIsAccountedFor, Visits
<1>1. visit.spotify \in {"limited", "suppressed"} => cooldown["spotify"].left \in 1 .. MaxTime
  <2>1. cooldown["spotify"].left \in 0 .. MaxTime
    BY DEF ProvidersTyped, Providers
  <2>2. visit.spotify \in {"limited", "suppressed"} => cooldown["spotify"].left > 0
    BY DEF SpotifyIsAccountedFor
  <2> QED BY <2>1, <2>2, LongestTime
<1>2. SpotifyInterval \in 1 .. MaxTime /\ RetryDelay \in 1 .. MaxTime
  BY LongestTime
<1>3. CASE visit.spotify \in {"limited", "suppressed"}
  <2>1. SpotifyRetry = cooldown["spotify"].left
    BY <1>3 DEF SpotifyRetry
  <2> QED BY <1>0, <1>1, <1>3, <2>1
<1>4. CASE visit.spotify \notin {"limited", "suppressed"}
  <2>1. SpotifyRetry = SpotifyInterval \/ SpotifyRetry = RetryDelay
    BY <1>4 DEF SpotifyRetry
  <2> QED BY <1>0, <1>2, <1>4, <2>1
<1> QED BY <1>3, <1>4

\* A visit that was not due at Spotify leaves an artist that waits for Spotify.
LEMMA NotDueWaits ==
  ASSUME SchedulesTyped, visit \in Visits, ~WasDue, visit.artist \in OnSpotify
  PROVE  spotNext[visit.artist] > 0
<1>0. MaxTime \in Nat /\ Unset \in Int
  BY LongestTime, SyncAssumption DEF Unset, SyncAssumption
<1>1. spotNext[visit.artist] \in Int
  <2>1. visit.artist \in Artists
    BY DEF Visits
  <2>2. spotNext[visit.artist] \in Unset .. MaxTime
    BY <2>1 DEF SchedulesTyped
  <2> QED BY <1>0, <2>2
<1> QED BY <1>1 DEF WasDue

LEMMA PersistStepMoves ==
  ASSUME Parts, PersistDeferred \/ PersistEmpty \/ PersistReleases \/ PersistFails
  PROVE  Parts' /\ Moved
<1>0. /\ SpotifyIsAccountedFor /\ ProvidersTyped /\ SchedulesTyped /\ VisitsTyped
      /\ Interval \in 1 .. MaxTime /\ RetryDelay \in 1 .. MaxTime /\ SpotifyInterval \in 1 .. MaxTime
      /\ MaxTime \in Nat
  BY LongestTime DEF Parts
<1>1. visit \in Visits /\ visit # NoVisit /\ visit.artist \in Artists
  <2>1. visit.at = "persist"
    BY DEF PersistDeferred, PersistEmpty, PersistReleases, PersistFails, AtPersist
  <2> QED BY <2>1, VisitIsOn DEF Parts, Visits
<1>2. Ends /\ UNCHANGED <<identity, providerState, batch, definitive>>
  BY DEF PersistDeferred, PersistEmpty, PersistReleases, PersistFails
<1>3. budget' \in 0 .. Budget
  <2>1. budget' = budget \/ (budget > 0 /\ budget' = budget - 1)
    BY DEF PersistDeferred, PersistEmpty, PersistReleases, PersistFails, Disturb
  <2> QED BY <1>0, <2>1, SyncAssumption DEF VisitsTyped, SyncAssumption
<1>4. ASSUME NEW d \in 1 .. MaxTime, SetNormal(d), KeepSpotify, ~WasDue
      PROVE  SchedulesTyped' /\ Waits(visit.artist)
  BY <1>0, <1>1, <1>4, NotDueWaits, ScheduleIsSet
<1>5. ASSUME NEW d \in 1 .. MaxTime, SetNormal(d), SetSpotify(SpotifyRetry), UNCHANGED unchanged
      PROVE  SchedulesTyped' /\ Waits(visit.artist)
  BY <1>0, <1>1, <1>5, SpotifyRetryIsAhead, ScheduleIsSet
<1>6. SchedulesTyped' /\ Waits(visit.artist)
  <2>1. CASE PersistDeferred
    <3>1. ~WasDue /\ SetNormal(Interval) /\ KeepSpotify
      BY <1>0, <1>1, <2>1 DEF PersistDeferred, SpotifyIsAccountedFor
    <3> QED BY <1>0, <1>4, <3>1
  <2>2. CASE PersistEmpty
    <3> DEFINE d == IF ~ProviderErrors /\ Healthy THEN Interval
                    ELSE IF visit.spotify = "limited" THEN visit.retry ELSE RetryDelay
    <3>1. SetNormal(d)
      BY <2>2 DEF PersistEmpty
    <3>2. d \in 1 .. MaxTime
      BY <1>0, <1>1, SpotifyRetryIsAhead
    <3>3. IF WasDue THEN SetSpotify(SpotifyRetry) /\ UNCHANGED unchanged ELSE KeepSpotify
      BY <2>2 DEF PersistEmpty
    <3> HIDE DEF d
    <3> QED BY <1>4, <1>5, <3>1, <3>2, <3>3
  <2>3. CASE PersistReleases
    <3> DEFINE d == IF visit.itunes = "truncated" /\ visit.mbDelay > 0 THEN visit.mbDelay ELSE Interval
    <3>1. SetNormal(d)
      BY <2>3 DEF PersistReleases
    <3>2. d \in 1 .. MaxTime
      <4>1. visit.mbDelay \in 0 .. MaxTime
        BY <1>1 DEF Visits
      <4> QED BY <1>0, <4>1
    <3> HIDE DEF d
    <3>3. CASE ~WasDue
      BY <1>4, <2>3, <3>1, <3>2, <3>3 DEF PersistReleases
    <3>4. CASE WasDue /\ ~Delivered(visit.spotify)
      BY <1>5, <2>3, <3>1, <3>2, <3>4 DEF PersistReleases
    <3>5. CASE WasDue /\ Delivered(visit.spotify)
      <4> DEFINE n == IF visit.spotify = "changed" THEN 0 ELSE Least(unchanged[visit.artist] + 1, StretchCap)
      <4>1. SpotifyChecked
        BY <2>3, <3>5 DEF PersistReleases
      <4>2. n \in 0 .. StretchCap /\ n \in Nat
        <5>1. StretchCap \in Nat
          BY SyncAssumption DEF SyncAssumption
        <5>2. unchanged[visit.artist] \in 0 .. StretchCap
          BY <1>0, <1>1 DEF SchedulesTyped
        <5> QED BY <5>1, <5>2 DEF Least
      <4>3. unchanged' = [unchanged EXCEPT ![visit.artist] = n]
        BY <4>1 DEF SpotifyChecked
      <4>4. SetSpotify(SpotifyInterval) \/ SetSpotify(AdaptiveDelay(n))
        BY <4>1 DEF SpotifyChecked
      <4> HIDE DEF n
      <4>5. AdaptiveDelay(n) \in 1 .. MaxTime
        BY <4>2, SpotifyStretches
      <4> QED BY <1>0, <1>1, <3>1, <3>2, <4>2, <4>3, <4>4, <4>5, ScheduleIsSet
    <3> QED BY <3>3, <3>4, <3>5
  <2>4. CASE PersistFails
    <3> DEFINE e == IF spotNext[visit.artist] <= 0 THEN RetryDelay ELSE spotNext[visit.artist]
    <3>1. SetNormal(RetryDelay) /\ SetSpotify(e) /\ UNCHANGED unchanged
      BY <2>4 DEF PersistFails
    <3>2. e \in 1 .. MaxTime
      <4>1. Unset \in Int
        BY SyncAssumption DEF Unset, SyncAssumption
      <4>2. spotNext[visit.artist] \in Unset .. MaxTime
        BY <1>0, <1>1 DEF SchedulesTyped
      <4> QED BY <1>0, <4>1, <4>2
    <3> HIDE DEF e
    <3> QED BY <1>0, <1>1, <3>1, <3>2, ScheduleIsSet
  <2> QED BY <2>1, <2>2, <2>3, <2>4
<1> QED BY <1>1, <1>2, <1>3, <1>6, EndingMoves

\* Every step of a visit keeps the invariant; one that ends the visit leaves the
\* artist waiting.
LEMMA VisitStepMoves ==
  ASSUME Parts, VisitStep
  PROVE  Parts' /\ Moved
BY IdentityStepMoves, BackfillMoves, SpotifyStepMoves, ITunesStepMoves, MusicBrainzStepMoves, PersistStepMoves
DEF VisitStep

-----------------------------------------------------------------------------
(* The other steps.                                                        *)

LEMMA Budgeted ==
  ASSUME VisitsTyped, Disturb
  PROVE  budget' \in 0 .. Budget
BY SyncAssumption DEF VisitsTyped, Disturb, SyncAssumption

\* A visit that begins has asked nobody.
LEMMA BeginningAccounts ==
  ASSUME NEW a \in Artists, NEW forced \in BOOLEAN, Begin(a, forced)
  PROVE  visit' \in Visits /\ SpotifyIsAccountedFor'
<1>1. MaxTime \in Nat
  BY LongestTime
<1>2. visit' \in Visits
  BY <1>1 DEF Begin, Visits
<1>3. visit'.spotify = "none"
  BY DEF Begin
<1> QED BY <1>2, <1>3 DEF SpotifyIsAccountedFor

LEMMA TakeBatchKeeps == ASSUME Parts, TakeBatch PROVE Parts'
<1>1. ASSUME NEW due, due = {a \in Artists : IsDue(a)},
             NEW n, n = Least(BatchLimit, Cardinality(due)), batch' \in [1 .. n -> due]
      PROVE  batch' \in Seq(Artists) /\ Len(batch') <= BatchLimit
  <2>1. IsFiniteSet(due)
    BY <1>1, FS_Subset, SyncAssumption DEF SyncAssumption
  <2>2. Cardinality(due) \in Nat /\ BatchLimit \in Nat
    BY <2>1, FS_CardinalityType, SyncAssumption DEF SyncAssumption
  <2>3. n \in Nat /\ n <= BatchLimit
    BY <1>1, <2>2 DEF Least
  <2>4. batch' \in [1 .. n -> Artists]
    BY <1>1
  <2> QED BY <2>3, <2>4
<1>2. batch' \in Seq(Artists) /\ Len(batch') <= BatchLimit
  BY <1>1 DEF TakeBatch, ArtistsDue
<1>3. UNCHANGED <<next, spotNext, unchanged, identity, health, cooldown, streak, told, visit, budget, definitive>>
  BY DEF TakeBatch, artistState, schedules, providerState
<1>4. VisitsTyped'
  BY <1>2, <1>3 DEF Parts, VisitsTyped
<1>5. SpotifyIsAccountedFor'
  BY <1>3 DEF Parts, SpotifyIsAccountedFor, WasDue
<1> QED BY <1>3, <1>4, <1>5 DEF Parts, SchedulesTyped, IdentitiesTyped, ProvidersTyped,
        RefusalsAreCounted, WishesAreKept, Wish

LEMMA VisitNextKeeps == ASSUME Parts, VisitNext PROVE Parts'
<1>1. UNCHANGED <<next, spotNext, unchanged, identity, health, cooldown, streak, told, budget, definitive>>
  BY DEF VisitNext, artistState, schedules, providerState
<1>2. /\ visit = NoVisit /\ batch \in Seq(Artists) /\ batch # <<>> /\ batch' = Tail(batch)
      /\ Len(batch) <= BatchLimit /\ BatchLimit \in Nat
  BY SyncAssumption DEF VisitNext, Parts, VisitsTyped, SyncAssumption
<1>3. Head(batch) \in Artists /\ batch' \in Seq(Artists) /\ Len(batch') <= BatchLimit
  BY <1>2
<1>4. VisitsTyped' /\ SpotifyIsAccountedFor'
  <2>1. CASE Begin(Head(batch), FALSE)
    BY <1>1, <1>3, <2>1, BeginningAccounts DEF Parts, VisitsTyped
  <2>2. CASE UNCHANGED visit
    BY <1>1, <1>2, <1>3, <2>2, NobodyToAccountFor DEF Parts, VisitsTyped
  <2> QED BY <2>1, <2>2 DEF VisitNext
<1> QED BY <1>1, <1>4 DEF Parts, SchedulesTyped, IdentitiesTyped, ProvidersTyped,
        RefusalsAreCounted, WishesAreKept, Wish

LEMMA SyncArtistNowKeeps == ASSUME Parts, NEW a \in Artists, SyncArtistNow(a) PROVE Parts'
<1>0. MaxTime \in Nat /\ Late \in Nat /\ Unset \in Int /\ Unset < 0 /\ MaxAttempts \in Nat \ {0}
  BY LongestTime, SyncAssumption DEF SyncAssumption, Unset
<1>1. /\ next' = [next EXCEPT ![a] = 0] /\ unchanged' = unchanged
      /\ spotNext' = [spotNext EXCEPT ![a] = IF a \in OnSpotify THEN 0 ELSE spotNext[a]]
      /\ UNCHANGED <<health, cooldown, streak, told, batch>>
  BY DEF SyncArtistNow, providerState
<1>2. SchedulesTyped'
  BY <1>0, <1>1 DEF Parts, SchedulesTyped
<1>3. visit' \in Visits /\ SpotifyIsAccountedFor' /\ budget' \in 0 .. Budget
  BY BeginningAccounts, Budgeted DEF SyncArtistNow, Parts
<1>4. IdentitiesTyped' /\ RefusalsAreCounted'
  <2> DEFINE st == IF identity[a].status = "verified" THEN "verified" ELSE "pending"
             n  == 0
  <2>0. identity[a] \in [status : {"verified", "pending", "unresolvable"}, attempts : 0 .. MaxAttempts]
    BY DEF Parts, IdentitiesTyped
  <2>1. /\ st \in {"pending", "unresolvable", "verified"} /\ n \in 0 .. MaxAttempts /\ n \in Nat /\ n <= n
        /\ (st = "pending" => n < MaxAttempts) /\ (st = "unresolvable" => n = MaxAttempts)
        /\ (st = "verified" => n = 0)
    BY <1>0
  <2>2. identity' = [identity EXCEPT ![a] = [status |-> st, attempts |-> n]]
    <3>1. CASE identity[a].status = "verified"
      <4>1. identity[a] = [status |-> "verified", attempts |-> 0]
        BY <2>0, <3>1 DEF Parts, RefusalsAreCounted
      <4>2. identity' = [identity EXCEPT ![a] = identity[a]]
        BY <3>1 DEF SyncArtistNow
      <4> QED BY <3>1, <4>1, <4>2
    <3>2. CASE identity[a].status # "verified"
      BY <3>2 DEF SyncArtistNow
    <3> QED BY <3>1, <3>2
  <2>3. definitive' = [definitive EXCEPT ![a] = n]
    BY DEF SyncArtistNow
  <2> HIDE DEF n, st
  <2> QED BY <2>1, <2>2, <2>3, RefusalsStayCounted DEF Parts
<1>5. ProvidersTyped' /\ WishesAreKept'
  BY <1>1 DEF Parts, ProvidersTyped, WishesAreKept, Wish
<1>6. VisitsTyped'
  BY <1>1, <1>3 DEF Parts, VisitsTyped
<1> QED BY <1>2, <1>3, <1>4, <1>5, <1>6 DEF Parts

LEMMA MarkAllKeeps == ASSUME Parts, MarkAllArtistsDue PROVE Parts'
<1>0. MaxTime \in Nat /\ Late \in Nat /\ Unset \in Int /\ Unset < 0
  BY LongestTime, SyncAssumption DEF SyncAssumption, Unset
<1>1. /\ next' = [a \in Artists |-> 0] /\ visit = NoVisit /\ visit' = visit
      /\ spotNext' = [a \in Artists |-> IF a \in OnSpotify THEN 0 ELSE spotNext[a]]
      /\ UNCHANGED <<unchanged, identity, health, cooldown, streak, told, batch, definitive>>
  BY DEF MarkAllArtistsDue, providerState
<1>2. SchedulesTyped'
  BY <1>0, <1>1 DEF Parts, SchedulesTyped
<1>3. VisitsTyped' /\ SpotifyIsAccountedFor'
  BY <1>1, Budgeted, NobodyToAccountFor DEF Parts, VisitsTyped, MarkAllArtistsDue
<1> QED BY <1>1, <1>2, <1>3 DEF Parts, IdentitiesTyped, ProvidersTyped, RefusalsAreCounted, WishesAreKept, Wish

LEMMA VisitLostKeeps == ASSUME Parts, VisitLost PROVE Parts'
<1>1. UNCHANGED <<next, spotNext, unchanged, identity, health, cooldown, streak, told, batch, definitive>>
      /\ visit' = NoVisit /\ budget' \in 0 .. Budget
  BY Budgeted DEF VisitLost, artistState, schedules, providerState, Ends, Parts
<1> QED BY <1>1, NobodyToAccountFor DEF Parts, VisitsTyped, SchedulesTyped, IdentitiesTyped,
        ProvidersTyped, RefusalsAreCounted, WishesAreKept, Wish

LEMMA IdentityTimesOutKeeps == ASSUME Parts, IdentityTimesOut PROVE Parts'
<1>1. /\ UNCHANGED <<next, spotNext, unchanged, identity, batch, budget, definitive>>
      /\ visit' = NoVisit /\ Hears("musicbrainz") /\ "musicbrainz" \in Providers
  BY DEF IdentityTimesOut, artistState, schedules, Ends, Hears, Providers
<1>2. ProvidersTyped' /\ WishesAreKept'
  BY <1>1, HearingKeepsProviders DEF Parts, ProvidersKept
<1> QED BY <1>1, <1>2, NobodyToAccountFor DEF Parts, VisitsTyped, SchedulesTyped, IdentitiesTyped,
        RefusalsAreCounted

LEMMA SyncRestartKeeps == ASSUME Parts, SyncRestart PROVE Parts'
<1>0. MaxTime \in Nat /\ StreakCap \in Nat
  BY LongestTime, SyncAssumption DEF SyncAssumption
<1>1. /\ UNCHANGED <<next, spotNext, unchanged, identity, health, definitive>>
      /\ visit' = NoVisit /\ batch' = <<>> /\ budget' \in 0 .. Budget /\ streak' = 0
      /\ cooldown' = [p \in Providers |-> NotLoaded]
      /\ told' = [p \in Providers |-> IF told[p].stored THEN told[p] ELSE NeverTold]
  BY Budgeted DEF SyncRestart, schedules, Parts
<1>2. ProvidersTyped'
  BY <1>0, <1>1 DEF Parts, ProvidersTyped, NotLoaded, NeverTold
<1>3. WishesAreKept'
  <2>1. \A p \in Providers :
          IF told[p].stored THEN told'[p] = told[p] /\ Wish(p)' = Wish(p) ELSE Wish(p)' = 0
    BY <1>0, <1>1 DEF Wish, Least, NeverTold
  <2> QED BY <1>1, <2>1 DEF Parts, WishesAreKept, NotLoaded
<1>4. VisitsTyped'
  BY <1>1, SyncAssumption DEF Parts, VisitsTyped, SyncAssumption
<1>5. SpotifyIsAccountedFor'
  BY <1>1, NobodyToAccountFor
<1> QED BY <1>1, <1>2, <1>3, <1>4, <1>5 DEF Parts, SchedulesTyped, IdentitiesTyped, RefusalsAreCounted

LEMMA SyncTickKeeps == ASSUME Parts, SyncTick PROVE Parts'
<1>0. MaxTime \in Nat /\ Late \in Nat /\ Unset \in Int /\ Unset = -Late - 1
  BY LongestTime, SyncAssumption DEF SyncAssumption, Unset
<1>1. /\ UNCHANGED <<unchanged, identity, streak, batch, visit, budget, definitive>> /\ visit = NoVisit
      /\ next' = [a \in Artists |-> Sink(next[a])]
      /\ spotNext' = [a \in Artists |-> Sink(spotNext[a])]
      /\ health' = [p \in Providers |-> Wane(health[p])]
      /\ cooldown' = [p \in Providers |-> [cooldown[p] EXCEPT !.left = Wane(cooldown[p].left)]]
      /\ told' = [p \in Providers |-> IF told[p].left <= 1 THEN NeverTold
                                      ELSE [told[p] EXCEPT !.left = told[p].left - 1,
                                                           !.minded = Wane(told[p].minded)]]
  BY DEF SyncTick
<1>2. \A t \in -Late .. MaxTime : Sink(t) \in -Late .. MaxTime
  BY <1>0 DEF Sink, Most
<1>3. \A t \in Unset .. MaxTime : Sink(t) \in Unset .. MaxTime
  BY <1>0 DEF Sink, Most
<1>4. SchedulesTyped'
  BY <1>1, <1>2, <1>3 DEF Parts, SchedulesTyped
<1>5. \A t \in 0 .. MaxTime : Wane(t) \in 0 .. MaxTime /\ \A u \in 0 .. MaxTime : t >= u /\ u > 1 => Wane(t) >= u - 1
  BY <1>0 DEF Wane, Most
<1>6. ProvidersTyped'
  <2>1. health' \in [Providers -> 0 .. MaxTime]
    BY <1>1, <1>5 DEF Parts, ProvidersTyped
  <2>2. cooldown' \in [Providers -> [left : 0 .. MaxTime, loaded : BOOLEAN]]
    BY <1>1, <1>5 DEF Parts, ProvidersTyped
  <2>3. ASSUME NEW p \in Providers
        PROVE  (IF told[p].left <= 1 THEN NeverTold
                ELSE [told[p] EXCEPT !.left = told[p].left - 1, !.minded = Wane(told[p].minded)])
                 \in [left : 0 .. MaxTime, minded : 0 .. MaxTime, stored : BOOLEAN]
    <3>1. told[p] \in [left : 0 .. MaxTime, minded : 0 .. MaxTime, stored : BOOLEAN]
      BY DEF Parts, ProvidersTyped
    <3>2. CASE told[p].left <= 1
      BY <1>0, <3>2 DEF NeverTold
    <3>3. CASE ~(told[p].left <= 1)
      <4>1. told[p].left - 1 \in 0 .. MaxTime /\ Wane(told[p].minded) \in 0 .. MaxTime
        BY <1>0, <1>5, <3>1, <3>3
      <4> QED BY <3>1, <3>3, <4>1
    <3> QED BY <3>2, <3>3
  <2>4. told' \in [Providers -> [left : 0 .. MaxTime, minded : 0 .. MaxTime, stored : BOOLEAN]]
    BY <1>1, <2>3
  <2> QED BY <1>1, <2>1, <2>2, <2>4 DEF Parts, ProvidersTyped
<1>7. WishesAreKept'
  <2>1. SUFFICES ASSUME NEW p \in Providers, Wish(p)' > 0
                 PROVE  /\ cooldown'[p].loaded => cooldown'[p].left >= Wish(p)'
                        /\ told'[p].stored => health'[p] >= Wish(p)'
                        /\ cooldown'[p].loaded \/ told'[p].stored
    BY DEF WishesAreKept
  <2>2. /\ health[p] \in 0 .. MaxTime
        /\ cooldown[p] \in [left : 0 .. MaxTime, loaded : BOOLEAN]
        /\ told[p] \in [left : 0 .. MaxTime, minded : 0 .. MaxTime, stored : BOOLEAN]
    BY DEF Parts, ProvidersTyped
  <2>3. /\ told'[p].left = told[p].left - 1 /\ told'[p].minded = Wane(told[p].minded)
        /\ told'[p].stored = told[p].stored
    <3>1. told'[p] = IF told[p].left <= 1 THEN NeverTold
                     ELSE [told[p] EXCEPT !.left = told[p].left - 1, !.minded = Wane(told[p].minded)]
      BY <1>1
    <3>2. ~(told[p].left <= 1)
      BY <2>1, <3>1 DEF NeverTold, Wish, Least
    <3>3. told'[p] = [told[p] EXCEPT !.left = told[p].left - 1, !.minded = Wane(told[p].minded)]
      BY <3>1, <3>2
    <3> QED BY <2>2, <3>3
  <2>4. /\ cooldown'[p].left = Wane(cooldown[p].left) /\ cooldown'[p].loaded = cooldown[p].loaded
        /\ health'[p] = Wane(health[p])
    BY <1>1, <2>2
  <2>5. Wish(p) \in 0 .. MaxTime /\ Wish(p) > 1 /\ Wish(p)' = Wish(p) - 1
    BY <1>0, <2>1, <2>2, <2>3 DEF Wish, Least, Wane, Most
  <2>6. /\ cooldown[p].loaded => cooldown[p].left >= Wish(p)
        /\ told[p].stored => health[p] >= Wish(p)
        /\ cooldown[p].loaded \/ told[p].stored
    BY <1>0, <2>5 DEF Parts, WishesAreKept
  <2> QED BY <1>5, <2>2, <2>3, <2>4, <2>5, <2>6
<1>8. VisitsTyped' /\ SpotifyIsAccountedFor'
  BY <1>1, NobodyToAccountFor DEF Parts, VisitsTyped
<1> QED BY <1>1, <1>4, <1>6, <1>7, <1>8 DEF Parts, IdentitiesTyped, RefusalsAreCounted

LEMMA StepKeepsParts ==
  ASSUME Parts, [SyncNext]_syncVars
  PROVE  Parts'
<1>1. CASE UNCHANGED syncVars
  BY <1>1 DEF syncVars, Parts, SchedulesTyped, IdentitiesTyped, ProvidersTyped, VisitsTyped,
     RefusalsAreCounted, WishesAreKept, Wish, SpotifyIsAccountedFor, WasDue
<1> QED BY <1>1, TakeBatchKeeps, VisitNextKeeps, SyncArtistNowKeeps, MarkAllKeeps, VisitLostKeeps, IdentityTimesOutKeeps,
        SyncRestartKeeps, SyncTickKeeps, VisitStepMoves DEF SyncNext

LEMMA SyncIInvIsParts == SyncIInv <=> Parts
BY DEF SyncIInv, Parts

LEMMA InitHasParts == SyncInit => Parts
<1> SUFFICES ASSUME SyncInit PROVE Parts
  OBVIOUS
<1>0. /\ MaxTime \in Nat /\ Late \in Nat /\ Unset \in Int /\ Unset < 0 /\ MaxAttempts \in Nat \ {0}
      /\ Interval \in 1 .. MaxTime /\ SpotifyInterval \in 1 .. MaxTime
      /\ StreakCap \in Nat /\ StretchCap \in Nat /\ BatchLimit \in Nat /\ Budget \in Nat
  BY LongestTime, SyncAssumption DEF SyncAssumption, Unset
<1>1. SchedulesTyped
  <2>1. next \in [Artists -> {0, Interval}] /\ spotNext \in [Artists -> {Unset, SpotifyInterval}]
    BY DEF SyncInit
  <2>2. {0, Interval} \subseteq -Late .. MaxTime /\ {Unset, SpotifyInterval} \subseteq Unset .. MaxTime
    BY <1>0
  <2> QED BY <1>0, <2>1, <2>2 DEF SyncInit, SchedulesTyped
<1>2. IdentitiesTyped /\ RefusalsAreCounted
  BY <1>0 DEF SyncInit, IdentitiesTyped, RefusalsAreCounted
<1>3. ProvidersTyped /\ WishesAreKept
  BY <1>0 DEF SyncInit, ProvidersTyped, WishesAreKept, Wish, Least, NotLoaded, NeverTold
<1>4. VisitsTyped /\ SpotifyIsAccountedFor
  BY <1>0 DEF SyncInit, VisitsTyped, SpotifyIsAccountedFor
<1> QED BY <1>1, <1>2, <1>3, <1>4 DEF Parts

-----------------------------------------------------------------------------
(* Theorems.  Liveness is no part of them: fairness is left out of the     *)
(* specification they are about.                                           *)

SyncSpec == SyncInit /\ [][SyncNext]_syncVars

\* What a process knows of its providers covers what they asked for as far as the
\* schedule minds it (a Spotify wish for an interval, an iTunes wish of the credit
\* requests not at all), and agrees with the visit in progress; the refusals of
\* identities are counted.  Whatever the providers answer, also to the request for
\* genres that no cooldown holds back.
THEOREM SyncInvariance == SyncSpec => []SyncIInv
<1>1. SyncInit => Parts
  BY InitHasParts
<1>2. Parts /\ [SyncNext]_syncVars => Parts'
  BY StepKeepsParts
<1>3. Parts <=> SyncIInv
  BY SyncIInvIsParts
<1> QED BY <1>1, <1>2, <1>3, PTL DEF SyncSpec

LEMMA IInvGivesReason == SyncIInv => GivenUpForGoodReason
<1> SUFFICES ASSUME SyncIInv PROVE GivenUpForGoodReason
  OBVIOUS
<1>0. MaxAttempts \in Nat
  BY SyncAssumption DEF SyncAssumption
<1>1. SyncTypeOK
  <2>1. visit.artist \in Artists \cup {0}
    BY DEF SyncIInv, VisitsTyped, Visits, NoVisit
  <2> QED BY <2>1 DEF SyncIInv, SyncTypeOK, SchedulesTyped, IdentitiesTyped, ProvidersTyped, VisitsTyped
<1>2. \A a \in Artists : identity[a].status = "unresolvable" => definitive[a] >= MaxAttempts
  BY <1>0 DEF SyncIInv, RefusalsAreCounted, IdentitiesTyped
<1> QED BY <1>1, <1>2 DEF GivenUpForGoodReason

\* However many requests, restarts, outages and cooldowns lie between them, an
\* identity is given up only after enough definitive refusals since it was last
\* asked for.
THEOREM RefusalsGiveUp == SyncSpec => []GivenUpForGoodReason
BY SyncInvariance, IInvGivesReason, PTL

\* No request for releases or for an identity goes to a provider while a wish of its
\* that the schedule minds has not run out, nor does the first one after a restart.
\* The requests for genres and for credits are not among them.
THEOREM CooldownsHold == SyncSpec => CooldownIsHonoured
<1>1. SyncIInv /\ [SyncNext]_syncVars =>
        [\A p \in Providers : Wish(p) > 0 => ~Asks(p)]_syncVars
  <2> SUFFICES ASSUME SyncIInv, NEW p \in Providers, Wish(p) > 0
               PROVE  ~Asks(p)
    OBVIOUS
  <2>1. Loaded(p) > 0
    <3>1. Wish(p) <= Loaded(p) /\ Loaded(p) \in 0 .. MaxTime /\ Wish(p) \in 0 .. MaxTime
      BY WishIsLoaded DEF SyncIInv
    <3> QED BY <3>1, LongestTime
  <2>2. ASSUME p = "spotify", ObserveSpotify
        PROVE  visit'.spotify = "suppressed"
    <3>1. SpotifySaid("suppressed") /\ visit.at = "spotify"
      BY <2>1, <2>2 DEF ObserveSpotify, AtProvider
    <3>2. visit \in Visits
      BY <3>1, VisitIsOn DEF SyncIInv
    <3> QED BY <3>1, <3>2 DEF SpotifySaid, Visits
  <2>3. ASSUME p = "itunes", ObserveITunes
        PROVE  visit'.itunes = "suppressed"
    <3>1. ITunesSaid("suppressed") /\ visit.at = "itunes"
      BY <2>1, <2>3 DEF ObserveITunes, AtProvider
    <3>2. visit \in Visits
      BY <3>1, VisitIsOn DEF SyncIInv
    <3> QED BY <3>1, <3>2 DEF ITunesSaid, Visits
  <2>4. ASSUME p = "musicbrainz", ObserveMusicBrainz
        PROVE  visit'.musicbrainz = "suppressed"
    <3>1. MBAnswer("suppressed", Loaded("musicbrainz")) /\ visit.at = "musicbrainz"
      BY <2>1, <2>4 DEF ObserveMusicBrainz, AtProvider
    <3>2. visit \in Visits
      BY <3>1, VisitIsOn DEF SyncIInv
    <3> QED BY <3>1, <3>2 DEF MBAnswer, Visits
  <2>5. ~(p = "musicbrainz" /\ AskIdentity)
    BY <2>1 DEF AskIdentity
  <2> QED BY <2>2, <2>3, <2>4, <2>5 DEF Asks
<1> QED BY <1>1, SyncInvariance, PTL DEF SyncSpec, CooldownIsHonoured

\* A visit that gets to its end takes its artist out of the due queue, whatever
\* the providers answered and the store refused; one whose identity check runs out
\* of time gets to none.
THEOREM VisitsMoveOn == SyncSpec => VisitMovesOn
<1>1. SyncIInv /\ [SyncNext]_syncVars =>
        [\A a \in Artists :
           visit.artist = a /\ visit' = NoVisit /\ VisitStep => ~IsDue(a)']_syncVars
  <2> SUFFICES ASSUME SyncIInv, NEW a \in Artists, visit.artist = a, visit' = NoVisit, VisitStep
               PROVE  ~(IsDue(a))'
    OBVIOUS
  <2>1. Parts
    BY SyncIInvIsParts
  <2>2. Parts' /\ Moved
    BY <2>1, VisitStepMoves
  <2>3. SchedulesTyped' /\ Waits(a)
    BY <2>2 DEF Parts, Moved
  <2> QED BY <2>3, WaitingIsNotDue
<1> QED BY <1>1, SyncInvariance, PTL DEF SyncSpec, VisitMovesOn

-----------------------------------------------------------------------------
(* ProviderClient.                                                         *)

USE ClientAssumption DEF ClientAssumption

-----------------------------------------------------------------------------
(* Caches.                                                                 *)

Bounded(C) ==
  /\ IsFiniteSet(DOMAIN C)
  /\ \A op \in AllOps : Cardinality(OfKind(C, op)) <= MaxEntries

LEMMA KindsAreFinite ==
  ASSUME NEW C, IsFiniteSet(DOMAIN C), NEW op
  PROVE  IsFiniteSet(OfKind(C, op)) /\ Cardinality(OfKind(C, op)) \in Nat
<1>1. OfKind(C, op) \subseteq DOMAIN C
  BY DEF OfKind
<1> QED BY <1>1, FS_Subset, FS_CardinalityType

LEMMA OneMore ==
  ASSUME NEW S, IsFiniteSet(S), NEW x
  PROVE  IsFiniteSet(S \cup {x}) /\ Cardinality(S \cup {x}) \in Nat
         /\ Cardinality(S \cup {x}) <= Cardinality(S) + 1
<1>1. /\ IsFiniteSet(S \cup {x})
      /\ Cardinality(S \cup {x}) = IF x \in S THEN Cardinality(S) ELSE Cardinality(S) + 1
  BY FS_AddElement
<1>2. Cardinality(S) \in Nat
  BY FS_CardinalityType
<1> QED BY <1>1, <1>2

LEMMA OneFewer ==
  ASSUME NEW S, IsFiniteSet(S), NEW x
  PROVE  IsFiniteSet(S \ {x})
         /\ Cardinality(S \ {x}) = IF x \in S THEN Cardinality(S) - 1 ELSE Cardinality(S)
BY FS_RemoveElement

LEMMA WithoutIsBounded ==
  ASSUME NEW C, Bounded(C), NEW f
  PROVE  Bounded(Without(C, f))
<1>1. DOMAIN Without(C, f) = DOMAIN C \ {f}
  BY DEF Without
<1>2. IsFiniteSet(DOMAIN C \ {f})
  BY OneFewer DEF Bounded
<1>3. ASSUME NEW op \in AllOps
      PROVE  Cardinality(OfKind(Without(C, f), op)) <= MaxEntries
  <2>1. OfKind(Without(C, f), op) \subseteq OfKind(C, op)
    BY <1>1 DEF OfKind
  <2>2. IsFiniteSet(OfKind(C, op)) /\ Cardinality(OfKind(C, op)) \in Nat
        /\ Cardinality(OfKind(C, op)) <= MaxEntries
    BY KindsAreFinite DEF Bounded
  <2>3. /\ Cardinality(OfKind(Without(C, f), op)) <= Cardinality(OfKind(C, op))
        /\ IsFiniteSet(OfKind(Without(C, f), op))
    BY <2>1, <2>2, FS_Subset
  <2>4. Cardinality(OfKind(Without(C, f), op)) \in Nat
    BY <2>3, FS_CardinalityType
  <2> QED BY <2>2, <2>3, <2>4
<1> QED BY <1>1, <1>2, <1>3 DEF Bounded

\* A new answer leaves its cache within its size, whatever it pushes out.
LEMMA CachedIsBounded ==
  ASSUME NEW C, Bounded(C), NEW op \in AllOps, NEW k, NEW empty,
         NEW D \in Cached(C, <<op, k>>, empty)
  PROVE  Bounded(D)
<1> DEFINE f == <<op, k>>
           new == With(C, f, empty)
<1>1. DOMAIN new = DOMAIN C \cup {f} /\ f[1] = op
  BY DEF With
<1>2. IsFiniteSet(DOMAIN new)
  <2>1. IsFiniteSet(DOMAIN C)
    BY DEF Bounded
  <2>2. IsFiniteSet(DOMAIN C \cup {f})
    BY <2>1, OneMore
  <2> QED BY <1>1, <2>2
<1>3. \A o \in AllOps : o # op => OfKind(new, o) = OfKind(C, o)
  BY <1>1 DEF OfKind
<1>4. OfKind(new, op) = OfKind(C, op) \cup {f}
  BY <1>1 DEF OfKind
<1>5. CASE Cardinality(OfKind(new, op)) <= MaxEntries
  <2>1. D = new
    BY <1>1, <1>5 DEF Cached
  <2> QED BY <1>2, <1>3, <1>5, <2>1 DEF Bounded
<1>6. CASE ~(Cardinality(OfKind(new, op)) <= MaxEntries)
  <2>1. PICK e \in OfKind(new, op) : D = Without(new, e)
    BY <1>1, <1>6 DEF Cached
  <2> HIDE DEF new, f
  <2>2. IsFiniteSet(OfKind(C, op)) /\ Cardinality(OfKind(C, op)) \in Nat
        /\ Cardinality(OfKind(C, op)) <= MaxEntries
    BY KindsAreFinite DEF Bounded
  <2>3. Cardinality(OfKind(new, op)) <= Cardinality(OfKind(C, op)) + 1
        /\ Cardinality(OfKind(new, op)) \in Nat /\ IsFiniteSet(OfKind(new, op))
    <3> DEFINE S == OfKind(C, op)
    <3>1. IsFiniteSet(S) /\ Cardinality(S) \in Nat
      BY <2>2
    <3> HIDE DEF S
    <3>2. /\ IsFiniteSet(S \cup {f}) /\ Cardinality(S \cup {f}) \in Nat
          /\ Cardinality(S \cup {f}) <= Cardinality(S) + 1
      BY ONLY <3>1, OneMore
    <3> QED BY <1>4, <3>2 DEF S
  <2>4. DOMAIN D = DOMAIN new \ {e}
    BY <2>1 DEF Without
  <2>5. OfKind(D, op) = OfKind(new, op) \ {e}
    BY <2>4 DEF OfKind
  <2>6. Cardinality(OfKind(D, op)) = Cardinality(OfKind(new, op)) - 1
    BY <2>1, <2>3, <2>5, OneFewer
  <2>7. Cardinality(OfKind(D, op)) <= MaxEntries
    BY <2>2, <2>3, <2>6
  <2>8. \A o \in AllOps : o # op => OfKind(D, o) = OfKind(C, o)
    <3>1. e[1] = op
      BY <2>1 DEF OfKind
    <3> QED BY <1>3, <2>4, <3>1 DEF OfKind
  <2>9. IsFiniteSet(DOMAIN D)
    BY <1>2, <2>4, OneFewer
  <2> QED BY <2>7, <2>8, <2>9 DEF Bounded
<1> QED BY <1>5, <1>6

LEMMA StoresAreBounded ==
  ASSUME Bounded(cache), NEW op \in AllOps, NEW k, NEW result, NEW D \in Stores(op, k, result)
  PROVE  Bounded(D)
<1>1. "artist" \in AllOps
  BY DEF AllOps, Operations
<1>2. CASE D \in {cache}
  BY <1>2
<1>3. CASE D \in SpotifyStores(op, k, result)
  <2>1. CASE op = "search" /\ result = "found"
    <3>1. PICK C \in Cached(cache, <<op, k>>, FALSE) : D \in Cached(C, <<"artist", k>>, FALSE)
      BY <1>3, <2>1 DEF SpotifyStores
    <3>2. Bounded(C)
      BY <3>1, CachedIsBounded
    <3> QED BY <1>1, <3>1, <3>2, CachedIsBounded
  <2>2. CASE ~(op = "search" /\ result = "found")
    BY <1>3, <2>2, CachedIsBounded DEF SpotifyStores
  <2> QED BY <2>1, <2>2
<1>4. CASE D \in ITunesStores(op, k, result)
  BY <1>4, CachedIsBounded DEF ITunesStores
<1> QED BY <1>2, <1>3, <1>4 DEF Stores
-----------------------------------------------------------------------------
(* The invariant by parts: the calls, the window, the caches.              *)

Call == [at : Steps, op : AllOps \cup {"none"}, key : LookupKeys \cup {NoKey},
         live : BOOLEAN, tries : 0 .. 3, given : Results, result : Results]

Fine(d) ==
  /\ caller[d].at # "idle" => caller[d].op \in AllOps /\ caller[d].key \in LookupKeys
  /\ Leads(d) /\ IsCoalesced(caller[d].op) => flight[FlightOf(d)] = d
  /\ caller[d].at # "answered" => caller[d].result = "none"
  /\ caller[d].given # "none" => caller[d].at \in {"joined", "answered"}
  /\ caller[d].result = "canceled" => ~caller[d].live
  /\ caller[d].given # "none" => caller[d].result # "timeout"
  /\ client = "spotify" => caller[d].tries <= 2
  /\ ~Spaced /\ Holds(d) => mutex = d

Table ==
  /\ client \in Services /\ caller \in [Callers -> Call] /\ calls \in [Callers -> 0 .. Calls]
  /\ flight \in [AllOps \X LookupKeys -> Callers \cup {Nobody}]
  /\ mutex \in Callers \cup {Nobody}
  /\ \A d \in Callers : Fine(d)

Window ==
  /\ block \in [left : Nat, quota : BOOLEAN]
  /\ gap \in 0 .. 1 /\ asked \in [left : Nat, patience : Nat]
  /\ WindowIsKnown

ClientParts == Table /\ Window /\ CachesAreBounded

\* What a client keeps of a refusal covers what was asked for, or as much of it
\* as it minds.
LEMMA KeptWindow ==
  ASSUME NEW answer \in Refusals, NEW quota \in BOOLEAN, NEW attempt \in 0 .. 2, NEW kept,
         \/ client = "itunes" /\ kept = ITunesRetryAfter(answer)
         \/ client = "spotify" /\ kept = SpotifyRetryAfter(answer, quota, attempt)
  PROVE  /\ kept \in Nat /\ AskedBy(answer) \in [left : Nat, patience : Nat]
         /\ AskedBy(answer).left <= kept \/ AskedBy(answer).patience <= kept
<1>1. /\ answer.window \in Nat /\ {LongestWindow, DefaultWindow, QuotaWindow} \subseteq Nat
      /\ answer.form \in {"seconds", "date", "none"} /\ (answer.form = "none" => answer.window = 0)
  BY DEF Refusals
<1>2. RetryBackoff[attempt] \in Nat
  <2>1. RetryBackoff[attempt] \in 1 .. Inline
    OBVIOUS
  <2> QED BY <2>1
<1>3. AskedBy(answer) \in [left : Nat, patience : Nat]
  BY <1>1 DEF AskedBy
<1>4. CASE client = "itunes" /\ kept = ITunesRetryAfter(answer)
  <2>1. /\ AskedBy(answer).left = answer.window /\ AskedBy(answer).patience = LongestWindow
    BY <1>4 DEF AskedBy
  <2> QED BY <1>1, <1>3, <1>4, <2>1 DEF ITunesRetryAfter
<1>5. CASE client = "spotify" /\ kept = SpotifyRetryAfter(answer, quota, attempt)
  <2>1. /\ AskedBy(answer).left = answer.window
        /\ answer.form # "seconds" => AskedBy(answer).patience = 0
    BY <1>5 DEF AskedBy
  <2> QED BY <1>1, <1>2, <1>3, <1>5, <2>1 DEF SpotifyRetryAfter
<1> QED BY <1>4, <1>5

LEMMA OperationsAre ==
  {"search", "artist", "releases", "credits", "lookup", "popularity"} \subseteq AllOps
<1>1. Operations["spotify"] \subseteq AllOps /\ Operations["itunes"] \subseteq AllOps
      /\ Operations["musicbrainz"] \subseteq AllOps /\ Operations["listenbrainz"] \subseteq AllOps
  BY DEF AllOps, Operations
<1> QED BY <1>1 DEF Operations

LEMMA CallerIsACall ==
  ASSUME Table, NEW c \in Callers
  PROVE  /\ caller[c] \in Call
         /\ caller[c].at \in Steps /\ caller[c].op \in AllOps \cup {"none"}
         /\ caller[c].key \in LookupKeys \cup {NoKey} /\ caller[c].live \in BOOLEAN
         /\ caller[c].tries \in 0 .. 3 /\ caller[c].given \in Results
         /\ caller[c].result \in Results
         /\ caller[c].at # "idle" => FlightOf(c) \in AllOps \X LookupKeys
<1>1. caller[c] \in Call
  BY DEF Table
<1>2. caller[c].at # "idle" => caller[c].op \in AllOps /\ caller[c].key \in LookupKeys
  BY DEF Table, Fine
<1> QED BY <1>1, <1>2 DEF Call, FlightOf

\* The others' calls are as they were when one caller takes or leaves what is free
\* or its own.
LEMMA OthersStay ==
  ASSUME Table, NEW c \in Callers, NEW d \in Callers, d # c, client' = client,
         caller'[d] = caller[d], mutex' = mutex \/ mutex \in {Nobody, c},
         \A g \in AllOps \X LookupKeys : flight'[g] = flight[g] \/ flight[g] \in {Nobody, c}
  PROVE  Fine(d)'
<1>1. Fine(d)
  BY DEF Table
<1>2. FlightOf(d)' = FlightOf(d) /\ (Leads(d)' <=> Leads(d)) /\ (Holds(d)' <=> Holds(d))
      /\ (Spaced' <=> Spaced) /\ (IsCoalesced(caller[d].op)' <=> IsCoalesced(caller[d].op))
  BY DEF FlightOf, Leads, Holds, Spaced, IsCoalesced
<1>3. Leads(d) /\ IsCoalesced(caller[d].op) => flight'[FlightOf(d)] = d
  <2>1. Leads(d) => FlightOf(d) \in AllOps \X LookupKeys
    BY CallerIsACall DEF Leads
  <2>2. Leads(d) /\ IsCoalesced(caller[d].op) => flight[FlightOf(d)] = d
    BY <1>1 DEF Fine
  <2> QED BY <2>1, <2>2
<1>4. ~Spaced /\ Holds(d) => mutex' = d
  BY <1>1 DEF Fine
<1>5. client' = client /\ caller'[d] = caller[d]
  OBVIOUS
<1> QED BY <1>1, <1>2, <1>3, <1>4, <1>5 DEF Fine

\* A step of one caller that takes or leaves what is free or its own.
LEMMA OneMoves ==
  ASSUME Table, NEW c \in Callers, NEW r \in Call, client' = client,
         caller' = [caller EXCEPT ![c] = r], calls' \in [Callers -> 0 .. Calls],
         mutex' \in Callers \cup {Nobody}, mutex' = mutex \/ mutex \in {Nobody, c},
         flight' \in [AllOps \X LookupKeys -> Callers \cup {Nobody}],
         \A g \in AllOps \X LookupKeys : flight'[g] = flight[g] \/ flight[g] \in {Nobody, c},
         Fine(c)'
  PROVE  Table'
<1>1. caller' \in [Callers -> Call] /\ \A d \in Callers : d # c => caller'[d] = caller[d]
  BY DEF Table
<1>2. \A d \in Callers : Fine(d)'
  BY <1>1, OthersStay
<1>3. client' \in Services
  BY DEF Table
<1> QED BY <1>1, <1>2, <1>3 DEF Table

Working == {"leading", "ready", "pausing", "pacing", "sending", "backoff"}

\* A leader that goes on keeps its place in the table of calls in flight.
LEMMA LeaderMoves ==
  ASSUME Table, NEW c \in Callers, caller[c].at \in Working, NEW to \in Working, NEW n \in 0 .. 3,
         client = "spotify" => n <= 2,
         caller' = [caller EXCEPT ![c] = [@ EXCEPT !.at = to, !.tries = n]],
         client' = client, calls' = calls, flight' = flight,
         mutex' \in Callers \cup {Nobody}, mutex' = mutex \/ mutex \in {Nobody, c},
         ~Spaced /\ to \in {"ready", "pausing", "pacing", "sending"} => mutex' = c
  PROVE  Table'
<1> DEFINE r == [caller[c] EXCEPT !.at = to, !.tries = n]
<1>1. caller[c] \in Call /\ Fine(c)
  BY DEF Table
<1>2. to \in Steps /\ to \notin {"idle", "answered", "missed", "joined"}
  BY DEF Working, Steps
<1>3. /\ r \in Call /\ r.at = to /\ r.tries = n /\ r.op = caller[c].op
      /\ r.key = caller[c].key /\ r.live = caller[c].live /\ r.given = caller[c].given
      /\ r.result = caller[c].result
  BY <1>1, <1>2 DEF Call
<1>4. caller' = [caller EXCEPT ![c] = r]
  OBVIOUS
<1> HIDE DEF r
<1>5. caller'[c] = r
  BY <1>4 DEF Table
<1>6. caller[c].result = "none" /\ caller[c].given = "none" /\ Leads(c)
  BY <1>1 DEF Fine, Working, Leads, Steps
<1>7. FlightOf(c)' = FlightOf(c) /\ (IsCoalesced(caller[c].op)' <=> IsCoalesced(caller[c].op))
      /\ (Spaced' <=> Spaced)
  BY <1>3, <1>5 DEF FlightOf, IsCoalesced, Spaced
<1>8. Fine(c)'
  <2>1. caller'[c].op \in AllOps /\ caller'[c].key \in LookupKeys
    BY <1>1, <1>3, <1>5 DEF Fine, Working
  <2>2. IsCoalesced(caller[c].op)' => flight'[FlightOf(c)'] = c
    BY <1>1, <1>6, <1>7 DEF Fine
  <2>3. (~Spaced)' /\ Holds(c)' => mutex' = c
    BY <1>3, <1>5, <1>7 DEF Holds
  <2>4. (client = "spotify")' => caller'[c].tries <= 2
    BY <1>3, <1>5
  <2>5. caller'[c].result = "none" /\ caller'[c].given = "none" /\ caller'[c].at # "idle"
    BY <1>2, <1>3, <1>5, <1>6
  <2> QED BY <2>1, <2>2, <2>3, <2>4, <2>5 DEF Fine
<1>9. calls' \in [Callers -> 0 .. Calls]
      /\ flight' \in [AllOps \X LookupKeys -> Callers \cup {Nobody}]
  BY DEF Table
<1> QED BY <1>3, <1>4, <1>8, <1>9, OneMoves

LEMMA LeaderProceeds ==
  ASSUME Table, NEW c \in Callers, caller[c].at \in Working, NEW to \in Working, Proceeds(c, to),
         client' = client, calls' = calls, flight' = flight,
         mutex' \in Callers \cup {Nobody}, mutex' = mutex \/ mutex \in {Nobody, c},
         ~Spaced /\ to \in {"ready", "pausing", "pacing", "sending"} => mutex' = c
  PROVE  /\ Table'
         /\ caller'[c].at = to /\ \A d \in Callers : d # c => caller'[d] = caller[d]
<1> DEFINE n == caller[c].tries
<1>1. n \in 0 .. 3 /\ caller[c] \in Call /\ (client = "spotify" => n <= 2)
  BY DEF Table, Call, Fine
<1>2. [caller[c] EXCEPT !.at = to] = [caller[c] EXCEPT !.at = to, !.tries = n]
  BY <1>1 DEF Call
<1>3. caller' = [caller EXCEPT ![c] = [@ EXCEPT !.at = to, !.tries = n]]
  BY <1>2 DEF Proceeds, Table
<1>4. caller'[c].at = to /\ \A d \in Callers : d # c => caller'[d] = caller[d]
  BY <1>1 DEF Proceeds, Table, Call
<1> HIDE DEF n
<1> QED BY <1>1, <1>3, <1>4, LeaderMoves

LEMMA LeaderRetries ==
  ASSUME Table, NEW c \in Callers, caller[c].at \in Working, NEW to \in Working, Retries(c, to),
         caller[c].tries < 3, client = "spotify" => caller[c].tries < 2,
         client' = client, calls' = calls, flight' = flight, mutex' = mutex,
         ~Spaced /\ to \in {"ready", "pausing", "pacing", "sending"} => mutex' = c
  PROVE  /\ Table'
         /\ caller'[c].at = to /\ \A d \in Callers : d # c => caller'[d] = caller[d]
<1> DEFINE n == caller[c].tries + 1
<1>1. caller[c].tries \in 0 .. 3 /\ caller[c] \in Call
  BY CallerIsACall
<1>2. n \in 0 .. 3 /\ (client = "spotify" => n <= 2)
  BY <1>1
<1>3. caller' = [caller EXCEPT ![c] = [@ EXCEPT !.at = to, !.tries = n]]
  BY DEF Retries
<1>4. caller'[c].at = to /\ \A d \in Callers : d # c => caller'[d] = caller[d]
  BY <1>1 DEF Retries, Table, Call
<1>5. mutex' \in Callers \cup {Nobody}
  BY DEF Table
<1> HIDE DEF n
<1> QED BY <1>2, <1>3, <1>4, <1>5, LeaderMoves

\* A leader that is done gives its followers the result, its place and the mutex
\* to whoever comes next.
LEMMA LeaderFinishes ==
  ASSUME Table, NEW c \in Callers, caller[c].at \in Working, NEW result \in Results,
         Finish(c, result), result = "canceled" => ~caller[c].live, client' = client, calls' = calls
  PROVE  /\ Table'
         /\ caller'[c].at = "answered" /\ caller'[c].result = result
         /\ \A d \in Callers : d # c => caller'[d].at = caller[d].at
<1>1. caller[c] \in Call /\ Fine(c)
  BY DEF Table
<1>2. /\ caller' \in [Callers -> Call]
      /\ caller'[c] = [caller[c] EXCEPT !.at = "answered", !.result = result]
  <2>1. [caller[c] EXCEPT !.at = "answered", !.result = result] \in Call
    BY <1>1 DEF Call, Steps
  <2>2. \A d \in Callers : caller[d] \in Call /\ [caller[d] EXCEPT !.given = result] \in Call
    BY DEF Table, Call
  <2> QED BY <2>1, <2>2 DEF Finish
<1>3. /\ caller'[c].at = "answered" /\ caller'[c].result = result
      /\ caller'[c].op = caller[c].op /\ caller'[c].key = caller[c].key
      /\ caller'[c].live = caller[c].live /\ caller'[c].tries = caller[c].tries
      /\ caller'[c].given = caller[c].given
  BY <1>1, <1>2 DEF Call
<1>4. Fine(c)'
  <2>1. caller[c].given = "none" /\ caller[c].op \in AllOps /\ caller[c].key \in LookupKeys
    BY <1>1 DEF Fine, Working
  <2>2. client = "spotify" => caller[c].tries <= 2
    BY <1>1 DEF Fine
  <2>3. ~Leads(c)' /\ ~Holds(c)'
    BY <1>3 DEF Leads, Holds
  <2> QED BY <1>3, <2>1, <2>2, <2>3 DEF Fine
<1>5. FlightOf(c) \in AllOps \X LookupKeys
  BY CallerIsACall DEF Working
<1>6. /\ flight' \in [AllOps \X LookupKeys -> Callers \cup {Nobody}]
      /\ \A g \in AllOps \X LookupKeys : flight'[g] = flight[g] \/ flight[g] \in {Nobody, c}
  BY <1>5 DEF Finish, Table
<1>7. mutex' \in Callers \cup {Nobody} /\ (mutex' = mutex \/ mutex \in {Nobody, c})
  BY DEF Finish, Frees, Table
<1>8. ASSUME NEW d \in Callers, d # c
      PROVE  Fine(d)' /\ caller'[d].at = caller[d].at
  <2>1. CASE caller'[d] = caller[d]
    BY <1>6, <1>7, <1>8, <2>1, OthersStay
  <2>2. CASE caller[d].at = "joined" /\ caller'[d] = [caller[d] EXCEPT !.given = result]
    <3>1. caller[d] \in Call /\ Fine(d)
      BY DEF Table
    <3>2. /\ caller'[d].at = "joined" /\ caller'[d].result = caller[d].result
          /\ caller'[d].op = caller[d].op /\ caller'[d].key = caller[d].key
          /\ caller'[d].tries = caller[d].tries
      BY <2>2, <3>1 DEF Call
    <3>3. caller[d].result = "none" /\ caller[d].op \in AllOps /\ caller[d].key \in LookupKeys
          /\ (client = "spotify" => caller[d].tries <= 2)
      BY <2>2, <3>1 DEF Fine
    <3>4. ~Leads(d)' /\ ~Holds(d)'
      BY <3>2 DEF Leads, Holds
    <3>5. Fine(d)'
      BY <3>2, <3>3, <3>4 DEF Fine
    <3> QED BY <2>2, <3>2, <3>5
  <2> QED BY <1>8, <2>1, <2>2 DEF Finish
<1>9. client' \in Services /\ calls' \in [Callers -> 0 .. Calls]
  BY DEF Table
<1> QED BY <1>2, <1>3, <1>4, <1>6, <1>7, <1>8, <1>9 DEF Table
-----------------------------------------------------------------------------
(* The window of Spotify and iTunes.                                       *)

\* Nothing comes to wait for its turn, and the provider asks for nothing new.
LEMMA WindowStays ==
  ASSUME Window, client' = client, block' = block, gap' \in 0 .. 1, asked' \in {asked, Unasked},
         \A d \in Callers : caller'[d].at = "pacing" /\ ~Spaced =>
                            caller[d].at = "pacing" \/ block.left = 0
  PROVE  Window'
<1>1. block.left \in Nat /\ asked' \in [left : Nat, patience : Nat]
      /\ (asked' = asked \/ asked'.left = 0)
  BY DEF Window, Unasked
<1>2. WindowIsKnown'
  BY <1>1 DEF Window, WindowIsKnown, Spaced
<1> QED BY <1>1, <1>2 DEF Window

\* A refusal is heard by the caller that holds the mutex: nobody else waits for
\* its turn then.
LEMMA WindowGrows ==
  ASSUME Table, Window, NEW c \in Callers, caller[c].at = "sending", ~Spaced,
         NEW kept \in Nat, NEW quota \in BOOLEAN, block' = [left |-> kept, quota |-> quota],
         NEW wish \in [left : Nat, patience : Nat], asked' = wish,
         wish.left <= kept \/ wish.patience <= kept, gap' = 1, client' = client, caller'[c].at # "pacing",
         \A d \in Callers : d # c => caller'[d].at = caller[d].at
  PROVE  Window'
<1>1. \A d \in Callers : d # c => caller[d].at # "pacing"
  BY DEF Table, Fine, Holds
<1>2. WindowIsKnown'
  BY <1>1 DEF WindowIsKnown
<1> QED BY <1>2 DEF Window

LEMMA WindowPasses ==
  ASSUME Window, ClientTick
  PROVE  Window'
<1>1. /\ block.left \in Nat /\ asked.left \in Nat /\ asked.patience \in Nat
      /\ block \in [left : Nat, quota : BOOLEAN]
  BY DEF Window
<1>2. /\ block' = [block EXCEPT !.left = Less(block.left)]
      /\ asked' = IF asked.left <= 1 THEN Unasked
                  ELSE [left |-> asked.left - 1, patience |-> Less(asked.patience)]
      /\ gap' = 0 /\ caller' = caller /\ client' = client
  BY DEF ClientTick
<1>3. block' \in [left : Nat, quota : BOOLEAN] /\ block'.left = Less(block.left)
      /\ asked' \in [left : Nat, patience : Nat]
  BY <1>1, <1>2 DEF Less, Unasked
<1>4. ASSUME asked.left <= block.left \/ asked.patience <= block.left
      PROVE  asked'.left <= block'.left \/ asked'.patience <= block'.left
  <2>1. CASE asked.left <= 1
    BY <1>1, <1>2, <1>3, <2>1 DEF Less, Unasked
  <2>2. CASE asked.left > 1
    <3>1. asked'.left = asked.left - 1 /\ asked'.patience = Less(asked.patience)
      BY <1>1, <1>2, <2>2
    <3> QED BY <1>1, <1>3, <1>4, <2>2, <3>1 DEF Less
  <2> QED BY <1>1, <2>1, <2>2
<1>5. WindowIsKnown'
  <2>1. block.left = 0 => block'.left = 0
    BY <1>3 DEF Less
  <2> QED BY <1>2, <1>4, <2>1 DEF Window, WindowIsKnown, Spaced
<1> QED BY <1>2, <1>3, <1>5 DEF Window

-----------------------------------------------------------------------------
(* Every step preserves the parts.                                         *)

\* What a step may not do, and what it leaves the window to.
QuietStep ==
  \A d \in Callers : caller'[d].at = "sending" /\ caller[d].at # "sending" /\ ~Spaced => WindowIsOver
Unheard == block' = block /\ gap' \in 0 .. 1 /\ asked' \in {asked, Unasked}

\* A caller that ends its call, with the provider's answer or without.
LEMMA EndingStep ==
  ASSUME ClientParts, NEW c \in Callers, caller[c].at \in Working, NEW result \in Results,
         Finish(c, result), result = "canceled" => ~caller[c].live, UNCHANGED <<client, calls>>
  PROVE  /\ Table' /\ CachesAreBounded' /\ (Unheard => Window')
         /\ caller'[c].at = "answered" /\ caller'[c].result = result
         /\ \A d \in Callers : d # c => caller'[d].at = caller[d].at
<1>1. /\ Table' /\ caller'[c].at = "answered" /\ caller'[c].result = result
      /\ \A d \in Callers : d # c => caller'[d].at = caller[d].at
  BY LeaderFinishes DEF ClientParts
<1>2. CachesAreBounded'
  <2>1. caller[c].op \in AllOps
    BY DEF ClientParts, Table, Fine, Working
  <2>2. cache' \in Stores(caller[c].op, caller[c].key, result)
    BY DEF Finish
  <2>3. Bounded(cache)
    BY DEF ClientParts, CachesAreBounded, Bounded
  <2>4. Bounded(cache')
    BY <2>1, <2>2, <2>3, StoresAreBounded
  <2> QED BY <2>4 DEF Bounded, CachesAreBounded, OfKind
<1>3. Unheard => Window'
  <2>1. \A d \in Callers : caller'[d].at = "pacing" => caller[d].at = "pacing"
    BY <1>1
  <2> QED BY <2>1, WindowStays DEF Unheard, ClientParts
<1> QED BY <1>1, <1>2, <1>3

\* A caller that goes on and does not come to wait for its turn unless the window
\* is over.
LEMMA GoingStep ==
  ASSUME ClientParts, NEW c \in Callers, NEW to \in Working, Table', cache' = cache,
         client' = client, Unheard, caller'[c].at = to, to = "pacing" => block.left = 0,
         \A d \in Callers : d # c => caller'[d] = caller[d]
  PROVE  ClientParts'
<1>1. CachesAreBounded'
  BY DEF ClientParts, CachesAreBounded, OfKind
<1>2. Window'
  BY WindowStays DEF Unheard, ClientParts
<1> QED BY <1>1, <1>2 DEF ClientParts

LEMMA CoalescedWhile ==
  ASSUME client' = client, NEW c, caller'[c].op = caller[c].op, caller'[c].key = caller[c].key
  PROVE  FlightOf(c)' = FlightOf(c) /\ (IsCoalesced(caller[c].op)' <=> IsCoalesced(caller[c].op))
BY DEF FlightOf, IsCoalesced

\* A step of a caller that does not lead a call.
LEMMA AsideStep ==
  ASSUME ClientParts, NEW c \in Callers, NEW r \in Call, caller' = [caller EXCEPT ![c] = r],
         r.at \notin Working, r.at # "idle" => r.op \in AllOps /\ r.key \in LookupKeys,
         r.at # "answered" => r.result = "none",
         r.given # "none" => r.at \in {"joined", "answered"} /\ r.result # "timeout",
         r.result = "canceled" => ~r.live, r.tries <= 2 \/ client # "spotify",
         calls' \in [Callers -> 0 .. Calls], UNCHANGED <<client, flight, mutex, block, gap, asked>>
  PROVE  Table' /\ Window'
<1>1. caller'[c] = r /\ \A d \in Callers : d # c => caller'[d] = caller[d]
  BY DEF ClientParts, Table
<1>2. r.at \in Steps
  BY DEF Call
<1>3. ~Leads(c)' /\ ~Holds(c)'
  BY <1>1, <1>2 DEF Leads, Holds, Working, Steps
<1>4. Fine(c)'
  BY <1>1, <1>3 DEF Fine
<1>5. Table'
  <2>1. /\ Table /\ mutex' \in Callers \cup {Nobody} /\ mutex' = mutex
        /\ flight' \in [AllOps \X LookupKeys -> Callers \cup {Nobody}]
        /\ \A g \in AllOps \X LookupKeys : flight'[g] = flight[g]
    BY DEF ClientParts, Table
  <2> QED BY <1>4, <2>1, OneMoves
<1>6. Window'
  BY <1>1, WindowStays DEF ClientParts, Working, Window
<1> QED BY <1>5, <1>6

LEMMA IdleIsACall ==
  /\ IdleCaller \in Call /\ IdleCaller.at = "idle" /\ IdleCaller.live = TRUE
  /\ IdleCaller.tries = 0 /\ IdleCaller.given = "none" /\ IdleCaller.result = "none"
BY DEF IdleCaller, Call, Steps, Results

LEMMA BeginCallStep ==
  ASSUME ClientParts, NEW c \in Callers, NEW k \in LookupKeys, NEW op \in AllOps, BeginCall(c, op, k)
  PROVE  ClientParts' /\ QuietStep
<1> DEFINE f == <<op, k>>
           hit == f \in DOMAIN cache /\ ~Expired(cache[f])
           step == IF hit THEN "answered" ELSE IF IsCoalesced(op) THEN "missed" ELSE "leading"
           given == IF hit THEN "cached" ELSE "none"
           r == [IdleCaller EXCEPT !.op = op, !.key = k, !.at = step, !.result = given]
<1>1. caller' = [caller EXCEPT ![c] = r] /\ cache' = IF hit THEN cache ELSE Without(cache, f)
  BY DEF BeginCall
<1>2. /\ step \in Steps /\ given \in Results
      /\ step \notin {"idle", "joined", "sending", "pacing", "ready", "pausing"}
      /\ (step # "answered" => given = "none") /\ given \notin {"canceled", "timeout"}
      /\ (step \in Working => ~IsCoalesced(op)) /\ step \in {"answered", "missed", "leading"}
  BY DEF Steps, Results, Good, Working
<1> HIDE DEF step, given
<1>3. /\ r \in Call /\ r.at = step /\ r.op = op /\ r.key = k /\ r.live = TRUE /\ r.tries = 0
      /\ r.given = "none" /\ r.result = given
  <2>1. r.live = IdleCaller.live /\ r.tries = IdleCaller.tries /\ r.given = IdleCaller.given
        /\ r.at = step /\ r.op = op /\ r.key = k /\ r.result = given /\ r \in Call
    BY <1>2, IdleIsACall DEF Call
  <2> QED BY <2>1, IdleIsACall
<1> HIDE DEF r
<1>4. CachesAreBounded'
  <2>1. Bounded(cache)
    BY DEF ClientParts, CachesAreBounded, Bounded
  <2>2. Bounded(cache')
    BY <1>1, <2>1, WithoutIsBounded
  <2> QED BY <2>2 DEF Bounded, CachesAreBounded, OfKind
<1>5. Table /\ Window
  BY DEF ClientParts
<1>6. caller'[c] = r /\ \A d \in Callers : d # c => caller'[d] = caller[d]
  BY <1>1, <1>5 DEF Table
<1>7. Table'
  <2>1. Fine(c)'
    <3>1. ~Holds(c)' /\ (Leads(c)' => ~IsCoalesced(op))
      BY <1>2, <1>3, <1>6 DEF Holds, Leads, Working, Steps
    <3>2. IsCoalesced(op)' <=> IsCoalesced(op)
      BY DEF IsCoalesced, BeginCall
    <3>3. IsCoalesced(caller[c].op)' <=> IsCoalesced(op)
      BY <1>3, <1>6, <3>2 DEF IsCoalesced
    <3> QED BY <1>2, <1>3, <1>6, <3>1, <3>3 DEF Fine
  <2>2. /\ calls' \in [Callers -> 0 .. Calls] /\ client' = client /\ mutex' = mutex
        /\ flight' = flight
    BY <1>5 DEF BeginCall, Table
  <2>3. /\ mutex' \in Callers \cup {Nobody}
        /\ flight' \in [AllOps \X LookupKeys -> Callers \cup {Nobody}]
        /\ \A g \in AllOps \X LookupKeys : flight'[g] = flight[g]
    BY <1>5, <2>2 DEF Table
  <2> QED BY <1>1, <1>3, <1>5, <2>1, <2>2, <2>3, OneMoves
<1>8. Window'
  BY <1>2, <1>3, <1>5, <1>6, WindowStays DEF BeginCall, Window
<1> QED BY <1>2, <1>3, <1>4, <1>6, <1>7, <1>8 DEF ClientParts, QuietStep

LEMMA JoinStep ==
  ASSUME ClientParts, NEW c \in Callers, JoinCall(c)
  PROVE  ClientParts' /\ QuietStep
<1>1. caller[c] \in Call /\ Fine(c) /\ FlightOf(c) \in AllOps \X LookupKeys
      /\ caller[c].at = "missed" /\ Table
  BY CallerIsACall DEF ClientParts, Table, JoinCall
<1>2. CachesAreBounded'
  BY DEF ClientParts, CachesAreBounded, OfKind, JoinCall
<1>3. ASSUME NEW to \in {"leading", "joined"}, Proceeds(c, to)
      PROVE  /\ [caller[c] EXCEPT !.at = to] \in Call
             /\ caller' = [caller EXCEPT ![c] = [caller[c] EXCEPT !.at = to]]
             /\ caller'[c].at = to /\ caller'[c].op = caller[c].op /\ caller'[c].key = caller[c].key
             /\ caller'[c].result = "none" /\ caller'[c].given = "none"
             /\ (client = "spotify" => caller'[c].tries <= 2)
             /\ caller[c].op \in AllOps /\ caller[c].key \in LookupKeys
             /\ \A d \in Callers : d # c => caller'[d] = caller[d]
  <2>1. to \in Steps
    BY DEF Steps
  <2>2. caller[c].result = "none" /\ caller[c].given = "none"
        /\ (client = "spotify" => caller[c].tries <= 2)
        /\ caller[c].op \in AllOps /\ caller[c].key \in LookupKeys
    BY <1>1 DEF Fine
  <2> QED BY <1>1, <1>3, <2>1, <2>2 DEF Proceeds, Table, Call
<1>4. PICK to \in {"leading", "joined"} :
        /\ Proceeds(c, to) /\ (to = "joined" => flight' = flight)
        /\ to = "leading" => flight[FlightOf(c)] = Nobody /\ flight' = [flight EXCEPT ![FlightOf(c)] = c]
  BY DEF JoinCall
<1> DEFINE r == [caller[c] EXCEPT !.at = to]
<1>5. r \in Call /\ caller' = [caller EXCEPT ![c] = r]
  BY <1>3, <1>4
<1>6. /\ flight' \in [AllOps \X LookupKeys -> Callers \cup {Nobody}]
      /\ \A g \in AllOps \X LookupKeys : flight'[g] = flight[g] \/ flight[g] \in {Nobody, c}
      /\ to = "leading" => flight'[FlightOf(c)] = c
  BY <1>1, <1>4 DEF Table
<1>7. Fine(c)'
  <2>1. FlightOf(c)' = FlightOf(c)
    BY <1>3, <1>4 DEF FlightOf
  <2>2. ~Holds(c)' /\ (Leads(c)' => to = "leading")
    BY <1>3, <1>4 DEF Holds, Leads
  <2> QED BY <1>3, <1>4, <1>6, <2>1, <2>2 DEF Fine, JoinCall
<1>8. /\ client' = client /\ calls' \in [Callers -> 0 .. Calls]
      /\ mutex' \in Callers \cup {Nobody} /\ mutex' = mutex
  BY <1>1 DEF JoinCall, Table
<1> HIDE DEF r
<1>9. Table'
  BY <1>1, <1>5, <1>6, <1>7, <1>8, OneMoves
<1>10. Window'
  BY <1>3, <1>4, WindowStays DEF JoinCall, ClientParts, Window
<1> QED BY <1>2, <1>3, <1>4, <1>9, <1>10 DEF ClientParts, QuietStep

\* A follower's result is its own: what it was given, or that it left.
LEMMA FollowerStep ==
  ASSUME ClientParts, NEW c \in Callers, FollowerAnswered(c) \/ FollowerLeaves(c)
  PROVE  ClientParts' /\ QuietStep
<1>1. PICK result \in Results :
        /\ caller' = [caller EXCEPT ![c] = [@ EXCEPT !.at = "answered", !.result = result]]
        /\ result # "timeout" /\ (result = "canceled" => ~caller[c].live)
  <2>1. CASE FollowerAnswered(c)
    <3> DEFINE result == CoalescedRequestError(caller[c].given, caller[c].live)
    <3>1. caller[c].given \in Results
      BY CallerIsACall DEF ClientParts
    <3>2. result \in Results /\ result # "timeout" /\ (result = "canceled" => ~caller[c].live)
      BY <3>1 DEF CoalescedRequestError, Results, Good
    <3> QED BY <2>1, <3>2 DEF FollowerAnswered
  <2>2. CASE FollowerLeaves(c)
    <3>1. "canceled" \in Results
      BY DEF Results
    <3> QED BY <2>2, <3>1 DEF FollowerLeaves
  <2> QED BY <2>1, <2>2
<1> DEFINE r == [caller[c] EXCEPT !.at = "answered", !.result = result]
<1>2. caller' = [caller EXCEPT ![c] = r]
  BY <1>1
<1>3. caller[c] \in Call /\ Fine(c) /\ caller[c].at = "joined"
  BY DEF ClientParts, Table, FollowerAnswered, FollowerLeaves
<1>4. /\ r \in Call /\ r.at = "answered" /\ r.op = caller[c].op /\ r.key = caller[c].key
      /\ r.live = caller[c].live /\ r.tries = caller[c].tries /\ r.result = result
  BY <1>3 DEF Call, Steps
<1>5. caller[c].op \in AllOps /\ caller[c].key \in LookupKeys
      /\ (client = "spotify" => caller[c].tries <= 2) /\ caller[c].tries \in 0 .. 3
  BY <1>3 DEF Fine, Call
<1>6. /\ UNCHANGED <<client, calls, flight, mutex, block, gap, asked, cache>>
      /\ calls' \in [Callers -> 0 .. Calls]
  BY DEF FollowerAnswered, FollowerLeaves, ClientParts, Table
<1> HIDE DEF r
<1>7. r.at \notin Working
  BY <1>4 DEF Working
<1>8. Table' /\ Window'
  BY <1>1, <1>2, <1>4, <1>5, <1>6, <1>7, AsideStep
<1>9. CachesAreBounded'
  BY <1>6 DEF ClientParts, CachesAreBounded, OfKind
<1>10. QuietStep
  BY <1>2, <1>4 DEF QuietStep, ClientParts, Table
<1> QED BY <1>8, <1>9, <1>10 DEF ClientParts

LEMMA ReturnStep ==
  ASSUME ClientParts, NEW c \in Callers, Return(c)
  PROVE  ClientParts' /\ QuietStep
<1>1. /\ UNCHANGED <<client, calls, flight, mutex, block, gap, asked, cache>>
      /\ calls' \in [Callers -> 0 .. Calls] /\ caller' = [caller EXCEPT ![c] = IdleCaller]
  BY DEF Return, ClientParts, Table
<1>2. Table' /\ Window'
  <2>1. /\ IdleCaller \in Call /\ IdleCaller.at \notin Working /\ IdleCaller.at = "idle"
        /\ IdleCaller.result = "none" /\ IdleCaller.given = "none" /\ IdleCaller.tries <= 2
        /\ IdleCaller.result # "canceled"
    BY IdleIsACall DEF Working
  <2>2. caller' = [caller EXCEPT ![c] = IdleCaller] /\ calls' \in [Callers -> 0 .. Calls]
        /\ UNCHANGED <<client, flight, mutex, block, gap, asked>>
    BY <1>1
  <2> HIDE DEF Call
  <2> QED BY <2>1, <2>2, AsideStep
<1>3. CachesAreBounded'
  BY <1>1 DEF ClientParts, CachesAreBounded, OfKind
<1>4. QuietStep
  BY <1>1, IdleIsACall DEF QuietStep, ClientParts, Table
<1> QED BY <1>2, <1>3, <1>4 DEF ClientParts

LEMMA CancelStep ==
  ASSUME ClientParts, NEW c \in Callers, Cancel(c)
  PROVE  ClientParts' /\ QuietStep
<1> DEFINE r == [caller[c] EXCEPT !.live = FALSE]
<1>1. caller[c] \in Call /\ Fine(c) /\ Table
  BY DEF ClientParts, Table
<1>2. caller' = [caller EXCEPT ![c] = r]
  BY DEF Cancel
<1>3. /\ r \in Call /\ r.at = caller[c].at /\ r.op = caller[c].op /\ r.key = caller[c].key
      /\ r.live = FALSE /\ r.tries = caller[c].tries /\ r.given = caller[c].given
      /\ r.result = caller[c].result
  BY <1>1 DEF Call
<1> HIDE DEF r
<1>4. caller'[c] = r /\ \A d \in Callers : d # c => caller'[d] = caller[d]
  BY <1>1, <1>2 DEF Table
<1>5. UNCHANGED <<client, calls, flight, mutex, block, gap, asked, cache>>
  BY DEF Cancel
<1>6. Fine(c)'
  <2>1. FlightOf(c)' = FlightOf(c) /\ (Leads(c)' <=> Leads(c)) /\ (Holds(c)' <=> Holds(c))
        /\ (Spaced' <=> Spaced) /\ (IsCoalesced(caller[c].op)' <=> IsCoalesced(caller[c].op))
    BY <1>3, <1>4, <1>5 DEF FlightOf, Leads, Holds, Spaced, IsCoalesced
  <2> QED BY <1>1, <1>3, <1>4, <1>5, <2>1 DEF Fine
<1>7. Table'
  <2>1. /\ calls' \in [Callers -> 0 .. Calls] /\ mutex' \in Callers \cup {Nobody}
        /\ flight' \in [AllOps \X LookupKeys -> Callers \cup {Nobody}]
        /\ \A g \in AllOps \X LookupKeys : flight'[g] = flight[g]
    BY <1>1, <1>5 DEF Table
  <2> QED BY <1>1, <1>2, <1>3, <1>5, <1>6, <2>1, OneMoves
<1>8. Window'
  BY <1>3, <1>4, <1>5, WindowStays DEF ClientParts, Window
<1>9. CachesAreBounded'
  BY <1>5 DEF ClientParts, CachesAreBounded, OfKind
<1>10. QuietStep
  BY <1>3, <1>4 DEF QuietStep
<1> QED BY <1>7, <1>8, <1>9, <1>10 DEF ClientParts

LEMMA LeaderEnds ==
  ASSUME ClientParts, NEW c \in Callers, caller[c].at \in Working, NEW result \in Results,
         Finish(c, result), result = "canceled" => ~caller[c].live, UNCHANGED <<client, calls>>,
         Unheard
  PROVE  ClientParts' /\ QuietStep
<1>1. /\ Table' /\ CachesAreBounded' /\ Window' /\ caller'[c].at = "answered"
      /\ \A d \in Callers : d # c => caller'[d].at = caller[d].at
  BY EndingStep
<1>2. QuietStep
  BY <1>1 DEF QuietStep
<1> QED BY <1>1, <1>2 DEF ClientParts

LEMMA LeaderGoesOn ==
  ASSUME ClientParts, NEW c \in Callers, caller[c].at \in Working, NEW to \in Working,
         Proceeds(c, to), UNCHANGED <<client, calls, flight, cache>>, Unheard,
         mutex' \in Callers \cup {Nobody}, mutex' = mutex \/ mutex \in {Nobody, c},
         ~Spaced /\ to \in {"ready", "pausing", "pacing", "sending"} => mutex' = c,
         to = "pacing" => block.left = 0, to = "sending" => WindowIsOver \/ Spaced
  PROVE  ClientParts' /\ QuietStep
<1>1. /\ Table' /\ caller'[c].at = to
      /\ \A d \in Callers : d # c => caller'[d] = caller[d]
  BY LeaderProceeds DEF ClientParts
<1>2. QuietStep
  BY <1>1 DEF QuietStep
<1>3. ClientParts'
  BY <1>1, GoingStep
<1> QED BY <1>2, <1>3

LEMMA AbortStep ==
  ASSUME ClientParts, NEW c \in Callers, Abort(c)
  PROVE  ClientParts' /\ QuietStep
<1>1. caller[c].at \in Working /\ "canceled" \in Results /\ Unheard
  BY DEF Abort, Working, Results, Unheard, ClientParts, Window
<1> QED BY <1>1, LeaderEnds DEF Abort

LEMMA AcquireStep ==
  ASSUME ClientParts, NEW c \in Callers, Acquire(c)
  PROVE  ClientParts' /\ QuietStep
<1>1. caller[c].at \in Working /\ "ready" \in Working /\ Unheard
  BY DEF Acquire, Working, Unheard, ClientParts, Window
<1> QED BY <1>1, LeaderGoesOn DEF Acquire

\* Who holds the mutex of Spotify or iTunes.
LEMMA HolderHolds ==
  ASSUME ClientParts, NEW c \in Callers, Holds(c), client \in {"spotify", "itunes"}
  PROVE  /\ ~Spaced /\ mutex = c /\ caller[c].at \in Working
         /\ asked.left <= block.left \/ asked.patience <= block.left
         /\ block.left \in Nat /\ asked \in [left : Nat, patience : Nat]
         /\ caller[c].at = "pacing" => block.left = 0 /\ WindowIsOver
<1>1. ~Spaced /\ Fine(c) /\ Window
  BY DEF ClientParts, Table, Spaced
<1>3. mutex = c /\ caller[c].at \in Working
  BY <1>1 DEF Fine, Holds, Working
<1>4. block.left \in Nat /\ asked \in [left : Nat, patience : Nat]
  BY <1>1 DEF Window
<1> QED BY <1>1, <1>3, <1>4 DEF Window, WindowIsKnown, WindowIsOver

LEMMA ReadyStep ==
  ASSUME ClientParts, NEW c \in Callers, SpotifyReady(c) \/ ITunesReady(c)
  PROVE  ClientParts' /\ QuietStep
<1>1. Holds(c) /\ client \in {"spotify", "itunes"}
  BY DEF SpotifyReady, ITunesReady, Holds
<1>2. ~Spaced /\ mutex = c /\ caller[c].at \in Working /\ block.left \in Nat
  BY <1>1, HolderHolds
<1>3. Unheard /\ UNCHANGED <<client, calls>>
  BY DEF SpotifyReady, ITunesReady, Unheard, ClientParts, Window
<1>4. CASE Finish(c, "blocked")
  <2>1. "blocked" \in Results
    BY DEF Results
  <2> QED BY <1>2, <1>3, <1>4, <2>1, LeaderEnds
<1>5. CASE \E to \in {"pausing", "pacing"} :
             /\ Proceeds(c, to) /\ UNCHANGED <<flight, mutex, cache>>
             /\ to = "pacing" => block.left = 0
  <2>1. PICK to \in {"pausing", "pacing"} :
             /\ Proceeds(c, to) /\ UNCHANGED <<flight, mutex, cache>>
             /\ to = "pacing" => block.left = 0
    BY <1>5
  <2>2. to \in Working /\ to # "sending"
    BY DEF Working
  <2>3. mutex' \in Callers \cup {Nobody} /\ mutex' = c
    BY <1>2, <2>1
  <2> QED BY <1>2, <1>3, <2>1, <2>2, <2>3, LeaderGoesOn
<1> QED BY <1>2, <1>4, <1>5 DEF SpotifyReady, ITunesReady

LEMMA SpotifyPausedStep ==
  ASSUME ClientParts, NEW c \in Callers, SpotifyPaused(c)
  PROVE  ClientParts' /\ QuietStep
<1>1. Holds(c) /\ client \in {"spotify", "itunes"}
  BY DEF SpotifyPaused, Holds
<1>2. ~Spaced /\ mutex = c /\ caller[c].at \in Working /\ block.left \in Nat
      /\ (asked.left <= block.left \/ asked.patience <= block.left)
  BY <1>1, HolderHolds
<1>3. /\ "pacing" \in Working /\ mutex' = mutex /\ mutex' \in Callers \cup {Nobody}
      /\ UNCHANGED <<client, calls, flight>> /\ Proceeds(c, "pacing")
  BY <1>2 DEF SpotifyPaused, Working
<1>4. /\ Table' /\ caller'[c].at = "pacing" /\ \A d \in Callers : d # c => caller'[d] = caller[d]
  BY <1>2, <1>3, LeaderProceeds DEF ClientParts
<1>5. Window'
  <2>1. /\ block' = [left |-> 0, quota |-> FALSE] /\ UNCHANGED <<asked, gap>>
        /\ asked.left <= 0 \/ asked.patience <= 0
    BY <1>2 DEF SpotifyPaused, Unblocked
  <2>2. WindowIsKnown'
    BY <2>1 DEF WindowIsKnown
  <2> QED BY <2>1, <2>2 DEF Window, ClientParts
<1>6. CachesAreBounded'
  BY DEF SpotifyPaused, ClientParts, CachesAreBounded, OfKind
<1> QED BY <1>4, <1>5, <1>6 DEF ClientParts, QuietStep

LEMMA PacedStep ==
  ASSUME ClientParts, NEW c \in Callers, AccessToken(c) \/ ITunesPaced(c)
  PROVE  ClientParts' /\ QuietStep
<1>1. Holds(c) /\ client \in {"spotify", "itunes"} /\ caller[c].at = "pacing"
  BY DEF AccessToken, ITunesPaced, Holds
<1>2. ~Spaced /\ mutex = c /\ caller[c].at \in Working /\ WindowIsOver
  BY <1>1, HolderHolds
<1>3. Unheard /\ UNCHANGED <<client, calls>>
  BY DEF AccessToken, ITunesPaced, Unheard, ClientParts, Window
<1>4. CASE Finish(c, "error")
  <2>1. "error" \in Results
    BY DEF Results
  <2> QED BY <1>2, <1>3, <1>4, <2>1, LeaderEnds
<1>5. CASE Proceeds(c, "sending") /\ UNCHANGED <<flight, mutex, cache>>
  <2>1. "sending" \in Working /\ mutex' \in Callers \cup {Nobody} /\ mutex' = c
    BY <1>2, <1>5 DEF Working
  <2> QED BY <1>2, <1>3, <1>5, <2>1, LeaderGoesOn
<1> QED BY <1>4, <1>5 DEF AccessToken, ITunesPaced

LEMMA AnsweredStep ==
  ASSUME ClientParts, NEW c \in Callers, SpotifyAnswered(c) \/ ITunesAnswered(c)
  PROVE  ClientParts' /\ QuietStep
<1>1. caller[c].at \in Working /\ gap' = 1
  BY DEF SpotifyAnswered, ITunesAnswered, Working
<1>2. PICK r \in Answers \cup {"error", "timeout", "truncated"} :
        /\ Finish(c, r) /\ asked' \in {asked, Unasked} /\ UNCHANGED <<client, calls, block>>
  BY DEF SpotifyAnswered, ITunesAnswered, SingleAttempt
<1>3. r \in Results /\ r # "canceled"
  BY DEF Answers, Results, Good
<1>4. Unheard
  BY <1>1, <1>2 DEF Unheard
<1> QED BY <1>1, <1>2, <1>3, <1>4, LeaderEnds

LEMMA RateLimitedStep ==
  ASSUME ClientParts, NEW c \in Callers, SpotifyRateLimited(c) \/ ITunesRateLimited(c)
  PROVE  ClientParts' /\ QuietStep
<1>1. /\ caller[c].at = "sending" /\ client \in {"spotify", "itunes"} /\ Holds(c)
      /\ gap' = 1 /\ UNCHANGED <<client, calls>>
  BY DEF SpotifyRateLimited, ITunesRateLimited, Holds
<1>2. ~Spaced /\ mutex = c /\ caller[c].at \in Working /\ caller[c].tries \in 0 .. 3
      /\ (client = "spotify" => caller[c].tries <= 2)
  <2>1. Fine(c) /\ Table
    BY DEF ClientParts, Table
  <2>2. caller[c].tries \in 0 .. 3
    BY <2>1, CallerIsACall
  <2> QED BY <1>1, <2>1, <2>2, HolderHolds DEF Fine
<1>3. PICK kept \in Nat, quota \in BOOLEAN, wish \in [left : Nat, patience : Nat] :
        /\ block' = [left |-> kept, quota |-> quota] /\ asked' = wish
        /\ wish.left <= kept \/ wish.patience <= kept
        /\ \/ Finish(c, "limited")
           \/ \E to \in {"ready", "pausing"} :
                 /\ Retries(c, to) /\ UNCHANGED <<flight, mutex, cache>>
                 /\ client = "spotify" => caller[c].tries # 2
                 /\ client = "itunes" => caller[c].tries = 0
  <2>1. CASE SpotifyRateLimited(c)
    <3>1. PICK answer \in Refusals, quota \in BOOLEAN :
            LET kept == SpotifyRetryAfter(answer, quota, caller[c].tries)
            IN  /\ block' = [left |-> kept, quota |-> quota] /\ asked' = AskedBy(answer)
                /\ \/ Finish(c, "limited")
                   \/ /\ Retries(c, "ready") /\ UNCHANGED <<flight, mutex, cache>>
                      /\ caller[c].tries # 2
      BY <2>1 DEF SpotifyRateLimited
    <3>2. client = "spotify" /\ caller[c].tries \in 0 .. 2
      BY <1>2, <2>1 DEF SpotifyRateLimited
    <3> DEFINE kept == SpotifyRetryAfter(answer, quota, caller[c].tries)
    <3>3. /\ kept \in Nat /\ AskedBy(answer) \in [left : Nat, patience : Nat]
          /\ AskedBy(answer).left <= kept \/ AskedBy(answer).patience <= kept
      BY <3>2, KeptWindow
    <3> QED BY <3>1, <3>2, <3>3
  <2>2. CASE ITunesRateLimited(c)
    <3>1. PICK answer \in Refusals :
            LET kept == ITunesRetryAfter(answer)
            IN  /\ block' = [left |-> kept, quota |-> FALSE] /\ asked' = AskedBy(answer)
                /\ \/ Finish(c, "limited")
                   \/ /\ Retries(c, "pausing") /\ UNCHANGED <<flight, mutex, cache>>
                      /\ caller[c].tries = 0
      BY <2>2 DEF ITunesRateLimited
    <3>2. client = "itunes" /\ 0 \in 0 .. 2
      BY <2>2 DEF ITunesRateLimited
    <3> DEFINE kept == ITunesRetryAfter(answer)
    <3>3. /\ kept \in Nat /\ AskedBy(answer) \in [left : Nat, patience : Nat]
          /\ AskedBy(answer).left <= kept \/ AskedBy(answer).patience <= kept
      BY <3>2, KeptWindow
    <3> QED BY <3>1, <3>2, <3>3
  <2> QED BY <2>1, <2>2
<1>4. CASE Finish(c, "limited")
  <2>1. "limited" \in Results
    BY DEF Results
  <2>2. /\ Table' /\ CachesAreBounded' /\ caller'[c].at = "answered"
        /\ \A d \in Callers : d # c => caller'[d].at = caller[d].at
    BY <1>1, <1>2, <1>4, <2>1, EndingStep
  <2>3. Window'
    BY <1>1, <1>2, <1>3, <2>2, WindowGrows DEF ClientParts
  <2> QED BY <2>2, <2>3 DEF ClientParts, QuietStep
<1>5. CASE \E to \in {"ready", "pausing"} :
             /\ Retries(c, to) /\ UNCHANGED <<flight, mutex, cache>>
             /\ client = "spotify" => caller[c].tries # 2
             /\ client = "itunes" => caller[c].tries = 0
  <2>1. PICK to \in {"ready", "pausing"} :
             /\ Retries(c, to) /\ UNCHANGED <<flight, mutex, cache>>
             /\ client = "spotify" => caller[c].tries # 2
             /\ client = "itunes" => caller[c].tries = 0
    BY <1>5
  <2>2. to \in Working /\ caller[c].tries < 3 /\ (client = "spotify" => caller[c].tries < 2)
    BY <1>1, <1>2, <2>1 DEF Working
  <2>3. /\ Table' /\ caller'[c].at = to
        /\ \A d \in Callers : d # c => caller'[d] = caller[d]
    BY <1>1, <1>2, <2>1, <2>2, LeaderRetries DEF ClientParts
  <2>4. Window'
    BY <1>1, <1>2, <1>3, <2>3, WindowGrows DEF ClientParts
  <2>5. CachesAreBounded'
    BY <2>1 DEF ClientParts, CachesAreBounded, OfKind
  <2> QED BY <2>3, <2>4, <2>5 DEF ClientParts, QuietStep
<1> QED BY <1>3, <1>4, <1>5

LEMMA ITunesPausedStep ==
  ASSUME ClientParts, NEW c \in Callers, ITunesPaused(c)
  PROVE  ClientParts' /\ QuietStep
<1>1. Holds(c) /\ client \in {"spotify", "itunes"}
  BY DEF ITunesPaused, Holds
<1>2. ~Spaced /\ mutex = c /\ caller[c].at \in Working
  BY <1>1, HolderHolds
<1>3. /\ "ready" \in Working /\ mutex' = mutex /\ mutex' \in Callers \cup {Nobody} /\ Unheard
  BY <1>2 DEF ITunesPaused, Working, Unheard, ClientParts, Window
<1> QED BY <1>2, <1>3, LeaderGoesOn DEF ITunesPaused

LEMMA SpacedStep ==
  ASSUME ClientParts, NEW c \in Callers,
         \/ SpacedWait(c) \/ SpacedCancelled(c) \/ SpacedAnswered(c)
         \/ MusicBrainzTransient(c) \/ ListenBrainzTransient(c) \/ WaitForRetry(c)
  PROVE  ClientParts' /\ QuietStep
<1>1. /\ caller[c].at \in Working /\ UNCHANGED <<client, calls>> /\ Spaced
      /\ client # "spotify" /\ Unheard
  BY DEF SpacedWait, SpacedCancelled, SpacedAnswered, MusicBrainzTransient, ListenBrainzTransient,
         WaitForRetry, Working, Spaced, Unheard, ClientParts, Window
<1>2. CASE \E r \in {"found", "error", "canceled"} : Finish(c, r) /\ (r = "canceled" => ~caller[c].live)
  <2>1. PICK r \in {"found", "error", "canceled"} : Finish(c, r) /\ (r = "canceled" => ~caller[c].live)
    BY <1>2
  <2>2. r \in Results
    BY DEF Results, Good
  <2> QED BY <1>1, <2>1, <2>2, LeaderEnds
<1>3. CASE /\ caller[c].tries # 3 /\ Retries(c, "backoff") /\ UNCHANGED <<flight, mutex, cache>>
  <2>1. caller[c].tries < 3
    <3>1. caller[c].tries \in 0 .. 3
      BY CallerIsACall DEF ClientParts
    <3> QED BY <1>3, <3>1
  <2>2. "backoff" \in Working
    BY DEF Working
  <2>3. /\ Table' /\ caller'[c].at = "backoff"
        /\ \A d \in Callers : d # c => caller'[d] = caller[d]
    BY <1>1, <1>3, <2>1, <2>2, LeaderRetries DEF ClientParts
  <2>4. ClientParts'
    BY <1>1, <1>3, <2>2, <2>3, GoingStep
  <2> QED BY <2>3, <2>4 DEF QuietStep
<1>4. CASE SpacedWait(c)
  <2>1. /\ "sending" \in Working /\ mutex' \in Callers \cup {Nobody}
        /\ (mutex' = mutex \/ mutex \in {Nobody, c})
    BY <1>4 DEF SpacedWait, Frees, Working, ClientParts, Table
  <2> QED BY <1>1, <1>4, <2>1, LeaderGoesOn DEF SpacedWait
<1>5. CASE WaitForRetry(c)
  <2>1. "leading" \in Working /\ mutex' = mutex /\ mutex' \in Callers \cup {Nobody}
    BY <1>5 DEF WaitForRetry, Working, ClientParts, Table
  <2> QED BY <1>1, <1>5, <2>1, LeaderGoesOn DEF WaitForRetry
<1> QED BY <1>2, <1>3, <1>4, <1>5 DEF SpacedCancelled, SpacedAnswered, MusicBrainzTransient,
           ListenBrainzTransient

LEMMA TickStep ==
  ASSUME ClientParts, ClientTick
  PROVE  ClientParts' /\ QuietStep
<1>1. Window'
  BY WindowPasses DEF ClientParts
<1>2. Table'
  <2>1. UNCHANGED <<client, caller, calls, flight, mutex>> /\ Table
    BY DEF ClientTick, ClientParts
  <2>2. \A d \in Callers : Fine(d)'
    BY <2>1 DEF Table, Fine, Leads, Holds, FlightOf, IsCoalesced, Spaced
  <2> QED BY <2>1, <2>2 DEF Table
<1>3. CachesAreBounded'
  BY DEF ClientTick, ClientParts, CachesAreBounded, OfKind
<1> QED BY <1>1, <1>2, <1>3 DEF ClientParts, QuietStep, ClientTick

LEMMA AskForStep ==
  ASSUME ClientParts, NEW c \in Callers, NEW k \in LookupKeys, AskFor(c, k)
  PROVE  ClientParts' /\ QuietStep
<1>1. PICK op \in {"search", "artist", "releases", "credits", "lookup", "popularity"} :
        BeginCall(c, op, k)
  BY DEF AskFor, SpotifySearchArtists, SpotifyArtist, SpotifyArtistReleases, ITunesSearchArtists,
         ITunesArtist, ITunesArtistReleases, ITunesCollectionCredits, MusicBrainzLookup, Popularity
<1>2. op \in AllOps
  BY OperationsAre
<1> QED BY <1>1, <1>2, BeginCallStep

LEMMA ClientStep ==
  ASSUME ClientParts, ClientNext
  PROVE  ClientParts' /\ QuietStep
<1>1. ASSUME NEW c \in Callers, CallStep(c)
      PROVE  ClientParts' /\ QuietStep
  BY <1>1, JoinStep, FollowerStep, ReturnStep, AbortStep, ReadyStep, SpotifyPausedStep, PacedStep,
     AnsweredStep, RateLimitedStep, ITunesPausedStep, SpacedStep DEF CallStep
<1> QED BY <1>1, AcquireStep, CancelStep, AskForStep, TickStep DEF ClientNext

LEMMA ClientStutter ==
  ASSUME ClientParts, UNCHANGED clientVars
  PROVE  ClientParts'
<1>1. Table'
  <2>1. Table /\ UNCHANGED <<client, caller, calls, flight, mutex>>
    BY DEF ClientParts, clientVars
  <2>2. \A d \in Callers : Fine(d)'
    BY <2>1 DEF Table, Fine, Leads, Holds, FlightOf, IsCoalesced, Spaced
  <2> QED BY <2>1, <2>2 DEF Table
<1>2. Window' /\ CachesAreBounded'
  BY DEF clientVars, ClientParts, Window, WindowIsKnown, Spaced, CachesAreBounded, OfKind
<1> QED BY <1>1, <1>2 DEF ClientParts

LEMMA InitialParts ==
  ASSUME ClientInit
  PROVE  ClientParts
<1>1. Table
  <2>1. \A d \in Callers : Fine(d)
    BY IdleIsACall DEF ClientInit, Fine, Leads, Holds, Steps
  <2>2. 0 <= Calls /\ Calls \in Nat
    OBVIOUS
  <2> QED BY <2>1, <2>2, IdleIsACall DEF ClientInit, Table
<1>2. Window
  <2>1. \A w \in Windows : w \in Nat
    OBVIOUS
  <2>2. block = Unblocked \/ block \in [left : Windows, quota : {client = "spotify"}]
    BY DEF ClientInit, RestoreCooldown
  <2>3. block \in [left : Nat, quota : BOOLEAN]
    <3>1. (client = "spotify") \in BOOLEAN
      OBVIOUS
    <3>2. Unblocked \in [left : Nat, quota : BOOLEAN]
      BY <2>1 DEF Unblocked
    <3> QED BY <2>1, <2>2, <3>1, <3>2
  <2>4. asked = [left |-> block.left, patience |-> block.left] /\ gap = 0
    BY DEF ClientInit, RestoreCooldown
  <2>5. \A d \in Callers : caller[d].at # "pacing"
    BY IdleIsACall DEF ClientInit
  <2>6. asked \in [left : Nat, patience : Nat] /\ asked.left <= block.left
    BY <2>3, <2>4
  <2> QED BY <2>3, <2>4, <2>5, <2>6 DEF Window, WindowIsKnown
<1>3. CachesAreBounded
  <2>1. DOMAIN cache = {}
    BY DEF ClientInit
  <2>2. \A op \in AllOps : OfKind(cache, op) = {}
    BY <2>1 DEF OfKind
  <2>3. MaxEntries \in Nat /\ Cardinality({}) = 0
    BY FS_EmptySet
  <2>4. IsFiniteSet({})
    BY FS_EmptySet
  <2>5. IsFiniteSet(DOMAIN cache)
    BY <2>1, <2>4
  <2>6. \A op \in AllOps : Cardinality(OfKind(cache, op)) <= MaxEntries
    BY <2>2, <2>3
  <2> QED BY <2>5, <2>6 DEF CachesAreBounded
<1> QED BY <1>1, <1>2, <1>3 DEF ClientParts

\* The answers of one operation are as many as the keys they are cached for.
LEMMA KeysAreEntries ==
  ASSUME CachesAreBounded, NEW op \in AllOps
  PROVE  Cardinality({k \in LookupKeys : <<op, k>> \in DOMAIN cache}) <= MaxEntries
<1> DEFINE keys == {k \in LookupKeys : <<op, k>> \in DOMAIN cache}
           entry == [k \in keys |-> <<op, k>>]
<1>1. IsFiniteSet(OfKind(cache, op)) /\ Cardinality(OfKind(cache, op)) \in Nat
  BY KindsAreFinite DEF CachesAreBounded
<1>2. \A k \in keys : <<op, k>> \in OfKind(cache, op)
  BY DEF OfKind
<1>3. entry \in [keys -> OfKind(cache, op)]
  BY <1>2
<1>4. IsInjective(entry)
  BY DEF IsInjective
<1>5. entry \in Injection(keys, OfKind(cache, op))
  BY <1>3, <1>4 DEF Injection
<1> HIDE DEF keys, entry
<1>6. IsFiniteSet(keys) /\ Cardinality(keys) <= Cardinality(OfKind(cache, op))
  BY <1>1, <1>5, FS_Injection
<1>7. Cardinality(keys) \in Nat
  BY <1>6, FS_CardinalityType
<1>8. Cardinality(keys) <= MaxEntries
  BY <1>1, <1>6, <1>7 DEF CachesAreBounded
<1> QED BY <1>8 DEF keys

LEMMA PartsMakeInvariant ==
  ASSUME ClientParts
  PROVE  ClientIInv
<1>1. Table /\ Window /\ CachesAreBounded /\ \A c \in Callers : Fine(c)
  BY DEF ClientParts, Table
<1>2. ClientTypeOK
  <2>1. caller \in [Callers -> [at : Steps, op : AllOps \cup {"none"},
                      key : LookupKeys \cup {NoKey}, live : BOOLEAN, tries : 0 .. 3,
                      given : Results, result : Results]]
    BY <1>1 DEF Table, Call
  <2> QED BY <1>1, <2>1, KeysAreEntries DEF Table, Window, ClientTypeOK
<1>3. LeadersAreInFlight
  BY <1>1 DEF Fine, LeadersAreInFlight
<1>4. OneRequestPerKey
  <2>1. ASSUME NEW c \in Callers, NEW d \in Callers, c # d, IsCoalesced(caller[c].op),
               FlightOf(c) = FlightOf(d), Leads(c), Leads(d)
        PROVE  FALSE
    <3>1. caller[c].op = caller[d].op
      BY <2>1 DEF FlightOf
    <3>2. flight[FlightOf(c)] = c /\ flight[FlightOf(d)] = d
      BY <1>3, <2>1, <3>1 DEF LeadersAreInFlight
    <3> QED BY <2>1, <3>2
  <2> QED BY <2>1 DEF OneRequestPerKey, Leads
<1>5. OwnFateOnly /\ CallsAreKeyed /\ ResultsComeLast /\ TriesAreCounted /\ GateIsHeld
  BY <1>1 DEF Fine, OwnFateOnly, CallsAreKeyed, ResultsComeLast, TriesAreCounted, GateIsHeld
<1> QED BY <1>1, <1>2, <1>3, <1>4, <1>5 DEF ClientIInv, CallersAreIndependent, Window

-----------------------------------------------------------------------------
(* Theorems.                                                               *)

\* The invariant of a client: a coalesced call has one leader, Spotify's and
\* iTunes' requests one holder of the mutex, the window they know covers what the
\* provider's last answer asked for (of iTunes' up to six hours since, of Spotify's
\* not a date), and no cache outgrows its size.
THEOREM ClientInvariance == ClientSpec => []ClientIInv
<1>1. ClientInit => ClientParts
  BY InitialParts
<1>2. ClientParts /\ [ClientNext]_clientVars => ClientParts'
  BY ClientStep, ClientStutter
<1>3. ClientParts => ClientIInv
  BY PartsMakeInvariant
<1> QED BY <1>1, <1>2, <1>3, PTL DEF ClientSpec

\* Callers that share a request share its answer and nothing else: never two
\* requests for one thing at the gate, and nobody hears of another's cancellation
\* or deadline.
THEOREM IndependentCallers == ClientSpec => []CallersAreIndependent
<1>1. ClientIInv => CallersAreIndependent
  BY DEF ClientIInv
<1> QED BY <1>1, ClientInvariance, PTL

\* No request of Spotify or iTunes leaves inside the window its provider asked for
\* or the one restored at the start, whoever was told and whoever follows: unless
\* Spotify put it as a date, or iTunes six hours ago.
THEOREM QuietWindow == ClientSpec => WindowIsQuiet
<1>1. ClientInit => ClientParts
  BY InitialParts
<1>2. ClientParts /\ [ClientNext]_clientVars => ClientParts'
  BY ClientStep, ClientStutter
<1>3. ClientParts /\ [ClientNext]_clientVars =>
        [\A c \in Callers :
           caller'[c].at = "sending" /\ caller[c].at # "sending" /\ ~Spaced => WindowIsOver]_clientVars
  BY ClientStep DEF QuietStep
<1> QED BY <1>1, <1>2, <1>3, PTL DEF ClientSpec, WindowIsQuiet
=============================================================================
