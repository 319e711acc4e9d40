----------------------------- MODULE ArtistSync -----------------------------
(***************************************************************************)
(* The catalog synchronization of internal/jobs: which artists are due,    *)
(* the verification of an imported identity, the backfill of genres, the   *)
(* observation of Spotify, iTunes and MusicBrainz in that order, the       *)
(* cooldowns the process keeps and persists, and the schedules a visit     *)
(* leaves behind.                                                          *)
(*                                                                         *)
(* One process: syncMu lets one visit run at a time.  A visit goes step by *)
(* step, one provider request per step, so that the process may stop       *)
(* between any two.  All times are relative to now and in ticks of about   *)
(* the retry delay.  The clock does not advance during a visit.            *)
(***************************************************************************)
EXTENDS Integers, Sequences, FiniteSets, FiniteSetsExt

CONSTANTS
  Artists,           \* numbers, in the order of their ids
  OnSpotify,         \* the artists with a Spotify identity
  Imported,          \* the artists whose identity an import left to verify
  Configured,        \* "spotify" and "itunes", or some of them
  BatchLimit,        \* 25 in the code
  RetryDelay,        \* the shorter of 15 minutes and the interval
  Interval,          \* the normal cadence
  SpotifyInterval,   \* the Spotify cadence
  MaxBackoff,        \* seven days: the longest adaptive Spotify delay
  StretchCap,        \* 3: unchanged checks after which that delay stops growing
  CooldownLengths,   \* what a provider may ask for
  MaxAttempts,       \* 5: definitive identity failures before giving up
  StreakCap,         \* 7: failures after which MusicBrainz's delay stops growing
  Budget,            \* store errors, restarts and explicit requests
  Late               \* ticks a due artist may wait for the cadence

ASSUME SyncAssumption ==
  /\ Artists \subseteq Nat /\ OnSpotify \subseteq Artists /\ Imported \subseteq Artists
  /\ Configured \subseteq {"spotify", "itunes"}
  /\ {BatchLimit, RetryDelay, Interval, SpotifyInterval, MaxBackoff, MaxAttempts, Late}
       \subseteq Nat \ {0}
  /\ {StretchCap, StreakCap} \subseteq Nat
  /\ CooldownLengths \subseteq Nat \ {0} /\ Budget \in Nat
  /\ \E longest \in CooldownLengths : \A d \in CooldownLengths : d <= longest
  /\ RetryDelay <= Interval /\ IsFiniteSet(Artists)

VARIABLES
  next,       \* artists.next_check_at
  spotNext,   \* artists.spotify_next_check_at
  unchanged,  \* artists.spotify_unchanged_checks
  identity,   \* artist_identity_status
  health,     \* provider_health: the persisted retry time and its flag
  cooldown,   \* the process's copy of it, loaded on first use
  streak,     \* consecutive MusicBrainz failures of the process
  batch,      \* artists of the running cadence still to visit
  visit,      \* the visit in progress
  budget,     \* what is left of Budget
  told,       \* history: how long a provider asked to be left alone, how long the
              \* schedule minds it at the most, and whether that is stored
  definitive  \* definitive identity failures since the last reset

syncVars == <<next, spotNext, unchanged, identity, health, cooldown, streak, batch,
              visit, budget, told, definitive>>
schedules == <<next, spotNext, unchanged>>
artistState == <<schedules, identity, definitive>>
providerState == <<health, cooldown, streak, told>>

Providers == {"spotify", "itunes", "musicbrainz"}
Unset == -Late - 1
NoVisit == [artist |-> 0, at |-> "none"]
MaxTime == Max({Interval, SpotifyInterval, MaxBackoff} \cup CooldownLengths)

SyncTypeOK ==
  /\ next \in [Artists -> -Late .. MaxTime]
  /\ spotNext \in [Artists -> Unset .. MaxTime]
  /\ unchanged \in [Artists -> 0 .. StretchCap]
  /\ \A a \in Artists : /\ identity[a].status \in {"verified", "pending", "unresolvable"}
                        /\ identity[a].attempts \in 0 .. MaxAttempts
  /\ \A p \in Providers : /\ health[p] \in 0 .. MaxTime
                          /\ cooldown[p].left \in 0 .. MaxTime
                          /\ {told[p].left, told[p].minded} \subseteq 0 .. MaxTime
  /\ streak \in 0 .. StreakCap
  /\ Len(batch) <= BatchLimit
  /\ visit.artist \in Artists \cup {0}
  /\ budget \in 0 .. Budget

NotLoaded == [left |-> 0, loaded |-> FALSE]
NeverTold == [left |-> 0, minded |-> 0, stored |-> FALSE]

SyncInit ==
  /\ next \in [Artists -> {0, Interval}]
  /\ spotNext \in {f \in [Artists -> {Unset, SpotifyInterval}] :
                     \A a \in Artists \ OnSpotify : f[a] = Unset}
  /\ unchanged = [a \in Artists |-> 0]
  /\ identity = [a \in Artists |->
                   [status |-> IF a \in Imported THEN "pending" ELSE "verified", attempts |-> 0]]
  /\ health = [p \in Providers |-> 0]
  /\ cooldown = [p \in Providers |-> NotLoaded]
  /\ streak = 0 /\ batch = <<>> /\ visit = NoVisit /\ budget = Budget
  /\ told = [p \in Providers |-> NeverTold]
  /\ definitive = [a \in Artists |-> 0]

Least(a, b) == IF a < b THEN a ELSE b
Most(a, b) == IF a < b THEN b ELSE a

-----------------------------------------------------------------------------
(* The due queue.                                                          *)

SpotifyDue(a) == a \in OnSpotify /\ spotNext[a] <= 0
Admitted(a) == identity[a].status # "unresolvable"
IsDue(a) == Admitted(a) /\ (next[a] <= 0 \/ SpotifyDue(a))

\* ArtistsDue orders by the earlier of the two times; a Spotify time that was
\* never set does not count.
DueKey(a) ==
  IF a \notin OnSpotify \/ spotNext[a] = Unset THEN next[a] ELSE Least(next[a], spotNext[a])

Before(a, b) == DueKey(a) < DueKey(b) \/ (DueKey(a) = DueKey(b) /\ a < b)

\* The first of the due artists, in that order.
ArtistsDue ==
  LET due == {a \in Artists : IsDue(a)}
      n   == Least(BatchLimit, Cardinality(due))
  IN  {b \in [1 .. n -> due] :
         /\ \A i, j \in 1 .. n : i < j => Before(b[i], b[j])
         /\ \A a \in due : (\E i \in 1 .. n : b[i] = a) \/ \A i \in 1 .. n : Before(b[i], a)}

\* syncArtists takes a batch when the cadence runs and no visit does.
TakeBatch ==
  /\ visit = NoVisit /\ batch = <<>> /\ \E a \in Artists : IsDue(a)
  /\ batch' \in ArtistsDue
  /\ UNCHANGED <<artistState, providerState, visit, budget>>

-----------------------------------------------------------------------------
(* A visit.                                                                *)

Disturb == budget > 0 /\ budget' = budget - 1

Begin(a, forced) ==
  visit' = [artist |-> a, at |-> "identity", forced |-> forced,
            spotify |-> "none", itunes |-> "none", musicbrainz |-> "none",
            retry |-> 0, mbDelay |-> 0]

\* syncOne of the next artist; one that became unresolvable meanwhile is left.
VisitNext ==
  /\ visit = NoVisit /\ batch # <<>>
  /\ batch' = Tail(batch)
  /\ IF Admitted(Head(batch)) THEN Begin(Head(batch), FALSE) ELSE UNCHANGED visit
  /\ UNCHANGED <<artistState, providerState, budget>>

\* SyncArtistNow and a manual request: the identity gets a fresh budget, both
\* schedules are due and the Spotify watermark does not defer the check.
SyncArtistNow(a) ==
  /\ visit = NoVisit /\ Disturb
  /\ identity' = [identity EXCEPT ![a] =
       IF @.status = "verified" THEN @ ELSE [status |-> "pending", attempts |-> 0]]
  /\ definitive' = [definitive EXCEPT ![a] = 0]
  /\ next' = [next EXCEPT ![a] = 0]
  /\ spotNext' = [spotNext EXCEPT ![a] = IF a \in OnSpotify THEN 0 ELSE @]
  /\ Begin(a, TRUE)
  /\ UNCHANGED <<unchanged, providerState, batch>>

\* MarkAllArtistsDue, and a new follow, bring artists due while nothing else
\* changes.
MarkAllArtistsDue ==
  /\ visit = NoVisit /\ Disturb
  /\ next' = [a \in Artists |-> 0]
  /\ spotNext' = [a \in Artists |-> IF a \in OnSpotify THEN 0 ELSE spotNext[a]]
  /\ UNCHANGED <<unchanged, identity, providerState, batch, visit, definitive>>

Ends == visit' = NoVisit
Goes(to) == visit' = [visit EXCEPT !.at = to]

LoadedFresh(p) == cooldown[p].left

\* The cooldown a step acts on: the process's copy, read from the store first
\* if it has none.
Loaded(p) == IF cooldown[p].loaded THEN cooldown[p].left ELSE health[p]
Load(p) == [cooldown EXCEPT ![p] = [left |-> Loaded(p), loaded |-> TRUE]]

\* A provider answers well: its cooldown ends, in the process and in the store.
Succeeds(p) ==
  /\ cooldown' = [cooldown EXCEPT ![p] = [left |-> 0, loaded |-> TRUE]]
  /\ health' = [health EXCEPT ![p] = 0]
  /\ told' = [told EXCEPT ![p] = NeverTold]
  /\ streak' = IF p = "musicbrainz" THEN 0 ELSE streak

\* A provider asked to be left alone for d, and is for `kept`; of what it asked the
\* schedule minds no more than `minded`.  The write of its health may be lost; the
\* process keeps its copy.  The copy of Spotify and iTunes never moves back.
CoolsDown(p, kept, d, minded) ==
  /\ cooldown' = [cooldown EXCEPT ![p] =
       [left |-> IF p = "musicbrainz" THEN kept ELSE Most(Loaded(p), kept), loaded |-> TRUE]]
  /\ \E stored \in BOOLEAN :
       /\ IF stored THEN health' = [health EXCEPT ![p] = kept] ELSE budget > 0 /\ UNCHANGED health
       /\ told' = [told EXCEPT ![p] = [left |-> d, minded |-> minded, stored |-> stored]]
  /\ streak' = IF p = "musicbrainz" THEN Least(streak + 1, StreakCap) ELSE streak

\* syncRetryDelay: a used up quota is waited for at least an interval, any other
\* wish at most one.
SyncRetryDelay(d, quota, interval) == IF quota THEN Most(d, interval) ELSE Least(d, interval)

SpotifyCoolsDown(d, quota) ==
  CoolsDown("spotify", SyncRetryDelay(d, quota, SpotifyInterval), d,
            IF quota THEN d ELSE SpotifyInterval)
MusicBrainzCoolsDown(d) == CoolsDown("musicbrainz", d, d, d)

\* iTunes answers well and asks to be left alone by the request after it: that wish
\* is the client's alone, the schedule forgets all of them.
LimitedLate(p, d) ==
  /\ cooldown' = [cooldown EXCEPT ![p] = [left |-> 0, loaded |-> TRUE]]
  /\ health' = [health EXCEPT ![p] = 0]
  /\ told' = [told EXCEPT ![p] = [left |-> d, minded |-> 0, stored |-> FALSE]]
  /\ UNCHANGED streak

\* A failure without a retry time of Spotify or iTunes: health forgets its own.
FailsPlainly(p) ==
  /\ cooldown' = Load(p)
  /\ health' = [health EXCEPT ![p] = 0]
  /\ UNCHANGED <<streak, told>>

\* A minute, doubled with every failure in a row, at most the interval.
MusicBrainzDelay == Least(2 ^ streak, Interval)

NotAsked(p) == cooldown' = Load(p) /\ UNCHANGED <<health, streak, told>>

\* ScheduleArtistIdentityFailure advances both schedules.
DeferIdentity(a, status, attempts, d) ==
  /\ identity' = [identity EXCEPT ![a] = [status |-> status, attempts |-> attempts]]
  /\ next' = [next EXCEPT ![a] = d]
  /\ spotNext' = [spotNext EXCEPT ![a] = IF a \in OnSpotify THEN Most(@, d) ELSE @]
  /\ UNCHANGED unchanged

IdentityDelay == RetryDelay

VerifiedAlready ==
  /\ visit.at = "identity" /\ identity[visit.artist].status # "pending"
  /\ Goes("genres")
  /\ UNCHANGED <<artistState, providerState, batch, budget>>

IdentityWaits ==
  LET a == visit.artist IN
  /\ visit.at = "identity" /\ identity[a].status = "pending" /\ Loaded("musicbrainz") > 0
  /\ DeferIdentity(a, "pending", identity[a].attempts, Loaded("musicbrainz"))
  /\ NotAsked("musicbrainz") /\ Ends
  /\ UNCHANGED <<batch, budget, definitive>>

AskIdentity ==
  /\ visit.at = "identity" /\ identity[visit.artist].status = "pending"
  /\ Loaded("musicbrainz") = 0

IdentityVerified ==
  /\ AskIdentity
  /\ identity' = [identity EXCEPT ![visit.artist] = [status |-> "verified", attempts |-> 0]]
  /\ Succeeds("musicbrainz") /\ Goes("genres")
  /\ definitive' = [definitive EXCEPT ![visit.artist] = 0]
  /\ UNCHANGED <<schedules, batch, budget>>

IdentityTransientCounted ==
  LET a == visit.artist IN
  /\ AskIdentity
  /\ MusicBrainzCoolsDown(MusicBrainzDelay)
  /\ DeferIdentity(a, IF identity[a].attempts + 1 >= MaxAttempts THEN "unresolvable" ELSE "pending",
                   identity[a].attempts + 1, MusicBrainzDelay)
  /\ Ends
  /\ UNCHANGED <<batch, budget, definitive>>

IdentityTransient ==
  LET a == visit.artist IN
  /\ AskIdentity
  /\ MusicBrainzCoolsDown(MusicBrainzDelay)
  /\ DeferIdentity(a, "pending", identity[a].attempts, MusicBrainzDelay)
  /\ Ends
  /\ UNCHANGED <<batch, budget, definitive>>

\* MusicBrainz does not know the artist, or answers with another one.
IdentityRefused ==
  LET a == visit.artist
      attempts == identity[a].attempts + 1
  IN
  /\ AskIdentity
  /\ DeferIdentity(a, IF attempts >= MaxAttempts THEN "unresolvable" ELSE "pending",
                   attempts, IdentityDelay)
  /\ definitive' = [definitive EXCEPT ![a] = @ + 1]
  /\ NotAsked("musicbrainz") /\ Ends
  /\ UNCHANGED <<batch, budget>>

\* A request that runs out of time, or is cancelled, ends the visit before anything
\* is scheduled: the artist stays due, however often.
IdentityTimesOut ==
  /\ AskIdentity
  /\ NotAsked("musicbrainz") /\ Ends
  /\ UNCHANGED <<artistState, batch, budget>>

\* An artist without genres, unless it had none a week ago already, costs one more
\* request to MusicBrainz, which looks at no cooldown and starts none.  Which artist
\* that is, and what comes back, moves nothing else.
BackfillGenres ==
  /\ visit.at = "genres"
  /\ Goes("spotify")
  /\ UNCHANGED <<artistState, providerState, batch, budget>>

\* Spotify is asked when its own schedule is due, or the visit is explicit.
WasDue == visit.artist \in OnSpotify /\ (visit.forced \/ spotNext[visit.artist] <= 0)

SpotifySkipped ==
  /\ visit.at = "spotify" /\ (~WasDue \/ "spotify" \notin Configured)
  \* A known release makes Spotify the primary source, which defers the visit.
  /\ \E known \in BOOLEAN :
       visit' = [visit EXCEPT !.at = "itunes",
                   !.spotify = IF known /\ visit.artist \in OnSpotify /\ "spotify" \in Configured
                               THEN "deferred" ELSE "none"]
  /\ UNCHANGED <<artistState, providerState, batch, budget>>

AtProvider(p) == visit.at = p /\ p \in Configured \cup {"musicbrainz"}
SpotifySaid(result) == visit' = [visit EXCEPT !.at = "itunes", !.spotify = result]
ITunesSaid(result) == visit' = [visit EXCEPT !.at = "musicbrainz", !.itunes = result]

SpotifyAnswers == {"changed", "unchanged", "empty"}

ObserveSpotify ==
  /\ AtProvider("spotify") /\ WasDue
  /\ IF Loaded("spotify") > 0
       THEN NotAsked("spotify") /\ SpotifySaid("suppressed")
       ELSE \/ \E r \in SpotifyAnswers : Succeeds("spotify") /\ SpotifySaid(r)
            \/ \E r \in {"failed", "capped"} :
                 FailsPlainly("spotify") /\ SpotifySaid(r)
            \/ \E d \in CooldownLengths, quota \in BOOLEAN :
                 /\ SpotifyCoolsDown(d, quota)
                 /\ visit' = [visit EXCEPT !.at = "itunes", !.spotify = "limited",
                                            !.retry = SyncRetryDelay(d, quota, Interval)]
  /\ UNCHANGED <<artistState, batch, budget>>

Delivered(answer) == answer \in {"changed", "unchanged", "found"}
MayFallBack == ~Delivered(visit.spotify) /\ visit.spotify # "deferred"

ITunesStandby ==
  /\ visit.at = "itunes" /\ ("itunes" \notin Configured \/ ~MayFallBack)
  /\ Goes("musicbrainz")
  /\ UNCHANGED <<artistState, providerState, batch, budget>>

\* A truncated catalogue is used and counts as incomplete; an artist iTunes does
\* not know, or could mistake, is a healthy answer without releases.  The credits
\* are read by further requests, whose failure leaves the answer a good one.
ObserveITunes ==
  /\ AtProvider("itunes") /\ MayFallBack
  /\ IF Loaded("itunes") > 0
       THEN NotAsked("itunes") /\ ITunesSaid("suppressed")
       ELSE \/ \E r \in {"found", "empty", "truncated"} :
                 Succeeds("itunes") /\ ITunesSaid(r)
            \/ FailsPlainly("itunes") /\ \E r \in {"empty", "failed"} : ITunesSaid(r)
            \/ \E d \in CooldownLengths :
                 \/ CoolsDown("itunes", d, d, d) /\ ITunesSaid("failed")
                 \/ /\ LimitedLate("itunes", d)
                    /\ \E r \in {"found", "empty", "truncated"} : ITunesSaid(r)
  /\ UNCHANGED <<artistState, batch, budget>>

MusicBrainzStandby ==
  /\ visit.at = "musicbrainz" /\ (~MayFallBack \/ Delivered(visit.itunes))
  /\ Goes("persist")
  /\ UNCHANGED <<artistState, providerState, batch, budget>>

MBAnswer(result, delay) ==
  visit' = [visit EXCEPT !.at = "persist", !.musicbrainz = result, !.mbDelay = delay]

\* The credit lookup is a second request; its failure keeps the releases and
\* starts the cooldown.
ObserveMusicBrainz ==
  /\ AtProvider("musicbrainz") /\ MayFallBack /\ ~Delivered(visit.itunes)
  /\ IF Loaded("musicbrainz") > 0
       THEN NotAsked("musicbrainz") /\ MBAnswer("suppressed", Loaded("musicbrainz"))
       ELSE \/ \E r \in {"found", "empty"} : Succeeds("musicbrainz") /\ MBAnswer(r, 0)
            \/ \E r \in {"found", "failed"} :
                 MusicBrainzCoolsDown(MusicBrainzDelay) /\ MBAnswer(r, MusicBrainzDelay)
  /\ UNCHANGED <<artistState, batch, budget>>

-----------------------------------------------------------------------------
(* What a visit leaves behind.                                             *)

HasBatches == Delivered(visit.spotify) \/ visit.itunes \in {"found", "truncated"}
              \/ visit.musicbrainz = "found"
ProviderErrors == visit.spotify \in {"failed", "capped", "limited"}
                  \/ visit.itunes = "failed"
                  \/ (visit.musicbrainz \in {"found", "failed"} /\ visit.mbDelay > 0)
Healthy == visit.spotify = "empty" \/ visit.itunes = "empty"

SpotifyRetryStored ==
  IF visit.spotify \in {"limited", "suppressed"} THEN health["spotify"]
  ELSE IF visit.spotify = "capped" \/ "spotify" \notin Configured THEN SpotifyInterval
  ELSE RetryDelay

\* The delay of a Spotify check that brought nothing: the rate limit or the
\* provider's cooldown, the cadence when there is nobody to ask or the catalogue
\* is too large, the short retry otherwise.
SpotifyRetry ==
  IF visit.spotify \in {"limited", "suppressed"} THEN cooldown["spotify"].left
  ELSE IF visit.spotify = "capped" \/ "spotify" \notin Configured THEN SpotifyInterval
  ELSE RetryDelay

\* Doubled with every unchanged check, up to StretchCap times; back to the cadence
\* when something changed or a release is upcoming.
AdaptiveDelay(n) == Least(SpotifyInterval * 2 ^ n, Most(MaxBackoff, SpotifyInterval))

SetNormal(d) == next' = [next EXCEPT ![visit.artist] = d]
SetSpotify(d) == spotNext' = [spotNext EXCEPT ![visit.artist] = d]
KeepSpotify == UNCHANGED <<spotNext, unchanged>>

\* MarkSpotifyCheckedAdaptive.
SpotifyChecked ==
  LET n == IF visit.spotify = "changed" THEN 0 ELSE Least(unchanged[visit.artist] + 1, StretchCap) IN
  /\ unchanged' = [unchanged EXCEPT ![visit.artist] = n]
  /\ \E upcoming \in BOOLEAN :
       SetSpotify(IF n = 0 \/ upcoming THEN SpotifyInterval ELSE AdaptiveDelay(n))

AtPersist == visit.at = "persist"

\* The visit was not due at Spotify, whose catalog is known: bookkeeping only.
PersistDeferred ==
  /\ AtPersist /\ visit.spotify = "deferred"
  /\ SetNormal(Interval) /\ KeepSpotify
  /\ Ends /\ UNCHANGED <<identity, providerState, batch, budget, definitive>>

\* No provider had a release.
PersistEmpty ==
  /\ AtPersist /\ visit.spotify # "deferred" /\ ~HasBatches
  /\ SetNormal(IF ~ProviderErrors /\ Healthy THEN Interval
               ELSE IF visit.spotify = "limited" THEN visit.retry ELSE RetryDelay)
  /\ IF WasDue THEN SetSpotify(SpotifyRetry) /\ UNCHANGED unchanged ELSE KeepSpotify
  /\ Ends /\ UNCHANGED <<identity, providerState, batch, budget, definitive>>

\* Releases are stored; a truncated iTunes catalogue comes back for MusicBrainz.
PersistReleases ==
  /\ AtPersist /\ visit.spotify # "deferred" /\ HasBatches
  /\ SetNormal(IF visit.itunes = "truncated" /\ visit.mbDelay > 0 THEN visit.mbDelay ELSE Interval)
  /\ IF ~WasDue THEN KeepSpotify
     ELSE IF Delivered(visit.spotify) THEN SpotifyChecked
     ELSE SetSpotify(SpotifyRetry) /\ UNCHANGED unchanged
  /\ Ends /\ UNCHANGED <<identity, providerState, batch, budget, definitive>>

\* The releases cannot be stored: both schedules move to the short retry, a
\* Spotify time in the future stays.
PersistFails ==
  /\ AtPersist /\ Disturb
  /\ SetNormal(RetryDelay)
  /\ SetSpotify(IF spotNext[visit.artist] <= 0 THEN RetryDelay ELSE spotNext[visit.artist])
  /\ Ends /\ UNCHANGED <<unchanged, identity, providerState, batch, definitive>>

\* A read or write of the store that fails, or a cadence that is cancelled, ends
\* the visit before anything is scheduled.
VisitLost ==
  /\ visit # NoVisit /\ Disturb
  /\ Ends /\ UNCHANGED <<artistState, providerState, batch>>

\* The process stops and starts again: its copies are gone, the rest is stored.
SyncRestart ==
  /\ Disturb
  /\ cooldown' = [p \in Providers |-> NotLoaded] /\ streak' = 0
  /\ batch' = <<>> /\ visit' = NoVisit
  /\ told' = [p \in Providers |-> IF told[p].stored THEN told[p] ELSE NeverTold]
  /\ UNCHANGED <<schedules, identity, health, definitive>>

Sink(t) == IF t = Unset THEN Unset ELSE Most(t - 1, -Late)
Wane(t) == Most(t - 1, 0)

\* The cadence comes round every minute: it keeps up with what is due, up to
\* Late ticks.
SyncTick ==
  /\ visit = NoVisit /\ \A a \in Artists : IsDue(a) => DueKey(a) > -Late
  /\ next' = [a \in Artists |-> Sink(next[a])]
  /\ spotNext' = [a \in Artists |-> Sink(spotNext[a])]
  /\ health' = [p \in Providers |-> Wane(health[p])]
  /\ cooldown' = [p \in Providers |-> [cooldown[p] EXCEPT !.left = Wane(@)]]
  /\ told' = [p \in Providers |-> IF told[p].left <= 1 THEN NeverTold
                                  ELSE [told[p] EXCEPT !.left = @ - 1, !.minded = Wane(@)]]
  /\ UNCHANGED <<unchanged, identity, streak, batch, visit, budget, definitive>>

-----------------------------------------------------------------------------
VisitStep ==
  \/ VerifiedAlready \/ IdentityWaits \/ IdentityVerified \/ IdentityTransient
  \/ IdentityRefused \/ BackfillGenres \/ SpotifySkipped \/ ObserveSpotify
  \/ ITunesStandby \/ ObserveITunes \/ MusicBrainzStandby \/ ObserveMusicBrainz
  \/ PersistDeferred \/ PersistEmpty \/ PersistReleases \/ PersistFails

SyncNext ==
  \/ TakeBatch \/ VisitNext \/ MarkAllArtistsDue
  \/ \E a \in Artists : SyncArtistNow(a)
  \/ VisitStep \/ IdentityTimesOut \/ VisitLost \/ SyncRestart \/ SyncTick

\* The cadence comes round and a visit that is not lost makes progress.
SyncProceeds == TakeBatch \/ VisitNext \/ VisitStep \/ IdentityTimesOut

SyncFairness == WF_syncVars(SyncProceeds) /\ WF_syncVars(SyncTick)

-----------------------------------------------------------------------------
(* Properties.                                                             *)

\* A visit that gets to its end, whatever the providers answered and the store
\* refused, leaves the artist out of the due queue.  One whose identity check runs
\* out of time does not get there.
VisitMovesOn ==
  [][\A a \in Artists :
       visit.artist = a /\ visit' = NoVisit /\ VisitStep => ~IsDue(a)']_syncVars

\* Requests for releases, and for an identity, that the schedule sends: none goes to
\* a provider that asked the schedule to be left alone and has answered nothing
\* better since, also after a restart.  A wish of Spotify's is minded for an
\* interval at the most; what iTunes asks while credits are read is not minded
\* here, and the genres are asked for whatever MusicBrainz wants.
Asks(p) ==
  \/ p = "spotify" /\ ObserveSpotify /\ visit'.spotify # "suppressed"
  \/ p = "itunes" /\ ObserveITunes /\ visit'.itunes # "suppressed"
  \/ p = "musicbrainz" /\ ObserveMusicBrainz /\ visit'.musicbrainz # "suppressed"
  \/ p = "musicbrainz" /\ AskIdentity /\ (VisitStep \/ IdentityTimesOut)

Wish(p) == Least(told[p].left, told[p].minded)
CooldownIsHonoured == [][\A p \in Providers : Wish(p) > 0 => ~Asks(p)]_syncVars

\* An identity is given up only after as many definitive refusals since it was
\* last asked for: outages and cooldowns do not count.
GivenUpForGoodReason ==
  SyncTypeOK /\ \A a \in Artists : identity[a].status = "unresolvable" => definitive[a] >= MaxAttempts

-----------------------------------------------------------------------------
(* What the safety properties rest on.                                     *)

Visits ==
  [artist : Artists, at : {"identity", "genres", "spotify", "itunes", "musicbrainz", "persist"},
   forced : BOOLEAN,
   spotify : {"none", "deferred", "suppressed", "failed", "capped", "limited"} \cup SpotifyAnswers,
   itunes : {"none", "suppressed", "found", "empty", "truncated", "failed"},
   musicbrainz : {"none", "suppressed", "found", "empty", "failed"},
   retry : 0 .. MaxTime, mbDelay : 0 .. MaxTime]

SchedulesTyped ==
  /\ next \in [Artists -> -Late .. MaxTime] /\ spotNext \in [Artists -> Unset .. MaxTime]
  /\ unchanged \in [Artists -> 0 .. StretchCap]
IdentitiesTyped ==
  /\ identity \in [Artists -> [status : {"verified", "pending", "unresolvable"},
                               attempts : 0 .. MaxAttempts]]
  /\ definitive \in [Artists -> Nat]
ProvidersTyped ==
  /\ health \in [Providers -> 0 .. MaxTime]
  /\ cooldown \in [Providers -> [left : 0 .. MaxTime, loaded : BOOLEAN]]
  /\ told \in [Providers -> [left : 0 .. MaxTime, minded : 0 .. MaxTime, stored : BOOLEAN]]
  /\ streak \in 0 .. StreakCap
VisitsTyped ==
  /\ batch \in Seq(Artists) /\ Len(batch) <= BatchLimit
  /\ visit \in Visits \cup {NoVisit} /\ budget \in 0 .. Budget

\* Only definitive refusals are counted, and the last of them gives up.
RefusalsAreCounted ==
  \A a \in Artists :
    /\ identity[a].attempts <= definitive[a]
    /\ identity[a].status = "verified" => identity[a].attempts = 0
    /\ identity[a].status = "pending" => identity[a].attempts < MaxAttempts
    /\ identity[a].status = "unresolvable" => identity[a].attempts = MaxAttempts

\* What a provider asked for, as far as it is minded, is in the process's copy, and
\* in the store as long as the process has none.
WishesAreKept ==
  \A p \in Providers : Wish(p) > 0 =>
    /\ cooldown[p].loaded => cooldown[p].left >= Wish(p)
    /\ told[p].stored => health[p] >= Wish(p)
    /\ cooldown[p].loaded \/ told[p].stored

\* A visit knows why it did not hear Spotify.
SpotifyIsAccountedFor ==
  visit # NoVisit =>
    /\ visit.at \in {"identity", "genres", "spotify"} => visit.spotify = "none"
    /\ visit.spotify = "deferred" => ~WasDue
    /\ visit.spotify \in {"limited", "suppressed"} => cooldown["spotify"].left > 0
    /\ visit.spotify = "limited" => visit.retry > 0

SyncIInv ==
  /\ SchedulesTyped /\ IdentitiesTyped /\ ProvidersTyped /\ VisitsTyped
  /\ RefusalsAreCounted /\ WishesAreKept /\ SpotifyIsAccountedFor

-----------------------------------------------------------------------------
(* Liveness.                                                               *)

\* Every due artist is visited: no artist, however its providers fail or the store
\* refuses, keeps the others from the head of the queue for ever.  Only artists
\* whose identity checks run out of time again and again do, once they are as many
\* as a batch.
DueArtistsAreVisited ==
  []<><<IdentityTimesOut>>_syncVars
    \/ \A a \in Artists : IsDue(a) ~> (visit.artist = a \/ ~IsDue(a))

\* The due queue moves: each visit takes its artist out of it, and so every due
\* artist has its turn.
DueQueueMoves == VisitMovesOn /\ DueArtistsAreVisited
=============================================================================
