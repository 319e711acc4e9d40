----------------------------- MODULE Resolution -----------------------------
(***************************************************************************)
(* Following an artist found on Spotify or iTunes (`artist_resolutions`):  *)
(* the request waits until the synchronization task has looked its profile *)
(* up on MusicBrainz, which ends it with a follow, puts it off, or leaves  *)
(* its member a choice.  internal/store/artists.go,                        *)
(* provider_identities.go, internal/web/artists.go and internal/jobs.      *)
(*                                                                         *)
(* A pass works on copies of the rows it read when it began, and a page    *)
(* chooses with the copy it read before; a store method is one step.  One  *)
(* process looks requests up, under syncMu.  The visit that a new follow    *)
(* makes due belongs to ArtistSync, taking a follow back to Admission.     *)
(***************************************************************************)
EXTENDS Integers, FiniteSets, Sequences

CONSTANTS
  Askers,       \* members
  Profiles,     \* artists on Spotify and iTunes
  OnITunes,     \* those on iTunes
  Canonical,    \* artists on MusicBrainz
  Numbers,      \* primary keys
  Nothing,      \* NULL
  MaxActive,    \* maxArtistResolutionsPerUser
  BatchPerUser, \* maxArtistResolutionBatchPerUser
  BatchSize,    \* requests of one pass
  Delays,       \* artistResolutionRetryDelay
  MaxRequested  \* bound: requests made in a behaviour

ASSUME ResolutionAssumption ==
  /\ OnITunes \subseteq Profiles /\ Nothing \notin Profiles \cup Canonical
  /\ IsFiniteSet(Numbers) /\ Numbers = 1 .. Cardinality(Numbers)
  /\ MaxActive \in Nat /\ BatchPerUser \in Nat \ {0} /\ BatchSize \in Nat \ {0}
  /\ MaxRequested \in Nat /\ Delays \in Seq(Nat) /\ Delays # <<>>
  /\ \A n \in DOMAIN Delays : Delays[n] <= Delays[Len(Delays)]

VARIABLES
  requests,  \* number -> row: member, profile, options (MusicBrainz candidates,
             \* none while pending), attempts, wait until next_attempt_at
  requested, \* requests made so far
  pass,      \* rows the running pass has yet to look up
  choosing,  \* member -> the row and the option a page is about to follow
  artist,    \* MusicBrainz artist -> row, Nothing when there is none
  following  \* follows

resolutionVars == <<requests, requested, pass, choosing, artist, following>>

IsRequest(i) == requests[i] # Nothing
Of(m) == {i \in Numbers : IsRequest(i) /\ requests[i].member = m}
InReview(r) == r # Nothing /\ r.options # {}
Copies == pass \cup {choosing[m].row : m \in {n \in Askers : choosing[n] # Nothing}}

ResolutionTypeOK ==
  /\ requested \in 0 .. MaxRequested
  /\ \A i \in Numbers : IsRequest(i) =>
       /\ requests[i].member \in Askers /\ requests[i].profile \in Profiles
       /\ requests[i].options \subseteq Canonical
       /\ requests[i].attempts \in 0 .. Len(Delays) - 1 /\ requests[i].wait \in 0 .. Delays[Len(Delays)]
  /\ \A r \in Copies : r.number \in Numbers
  /\ Cardinality(pass) <= BatchSize
  /\ \A a \in Canonical : artist[a] # Nothing =>
       /\ artist[a].spotify \in (Profiles \ OnITunes) \cup {Nothing}
       /\ artist[a].itunes \in OnITunes \cup {Nothing}
  /\ following \subseteq Askers \X {a \in Canonical : artist[a] # Nothing}

ResolutionInit ==
  /\ requests = [i \in Numbers |-> Nothing] /\ requested = 0 /\ pass = {}
  /\ choosing = [m \in Askers |-> Nothing]
  /\ artist = [a \in Canonical |-> Nothing] /\ following = {}

-----------------------------------------------------------------------------
(* Asking for an artist.                                                   *)

\* SQLite gives a new row the number after the highest.
Taken == {j \in Numbers : IsRequest(j)}
NextNumber(i) == i - 1 \in Taken \cup {0} /\ \A j \in Taken : j < i

\* A request that exists already stands for the new one.
CreateArtistResolution(m, p) ==
  /\ \A i \in Of(m) : requests[i].profile # p
  /\ Cardinality(Of(m)) < MaxActive
  /\ requested < MaxRequested /\ requested' = requested + 1
  /\ \E i \in Numbers : NextNumber(i) /\
       requests' = [requests EXCEPT ![i] = [number |-> i, member |-> m, profile |-> p,
         options |-> {}, attempts |-> 0, wait |-> 0]]
  /\ UNCHANGED <<pass, choosing, artist, following>>

CancelArtistResolution(m, i) ==
  /\ i \in Of(m)
  /\ requests' = [requests EXCEPT ![i] = Nothing]
  /\ UNCHANGED <<requested, pass, choosing, artist, following>>

-----------------------------------------------------------------------------
(* Artists.                                                                *)

\* What is known of an artist afterwards when a source gives it `profile` on
\* Spotify: the identity it has stays, with the link that belongs to it.
UpsertedReplacing(old, profile) ==
  [spotify |-> IF profile = Nothing THEN old.spotify ELSE profile,
   link |-> IF profile = Nothing THEN old.link ELSE profile, itunes |-> old.itunes]
NewArtist == [spotify |-> Nothing, link |-> Nothing, itunes |-> Nothing]
Upserted(old, profile) ==
  IF old.spotify = Nothing /\ profile # Nothing
  THEN [old EXCEPT !.spotify = profile, !.link = profile] ELSE old
Stored(a) == IF artist[a] = Nothing THEN NewArtist ELSE artist[a]

\* An iTunes profile belongs to one artist.
ClaimedByAnother(a, p) == \E b \in Canonical \ {a} : artist[b] # Nothing /\ artist[b].itunes = p

\* A MusicBrainz artist is followed as such, in two transactions; Spotify's
\* first artist of the same name comes along.
UpsertArtist(a, p) ==
  /\ artist' = [artist EXCEPT ![a] = Upserted(Stored(a), p)]
  /\ UNCHANGED <<requests, requested, pass, choosing, following>>

FollowArtist(m, a) ==
  /\ artist[a] # Nothing /\ <<m, a>> \notin following
  /\ following' = following \cup {<<m, a>>}
  /\ UNCHANGED <<requests, requested, pass, choosing, artist>>

\* A synchronization finds the artist on iTunes by its name.
SaveArtistProviderIdentity(a, p) ==
  /\ artist[a] # Nothing /\ artist[a].itunes = Nothing /\ ~ClaimedByAnother(a, p)
  /\ artist' = [artist EXCEPT ![a] = [@ EXCEPT !.itunes = p]]
  /\ UNCHANGED <<requests, requested, pass, choosing, following>>

-----------------------------------------------------------------------------
(* Ending a request.                                                       *)

\* The row is found by number and member.
StillThere(row) == IsRequest(row.number) /\ requests[row.number].member = row.member

RowGone(row) == requests' = [requests EXCEPT ![row.number] = Nothing]

\* Everything or nothing: a profile that another artist has fails the follow
\* and keeps the request.  Mutant: the row goes first, on its own.
Followed(row, a) ==
  /\ following' = following \cup {<<row.member, a>>}
  /\ artist' = [artist EXCEPT ![a] =
       IF row.profile \in OnITunes THEN [Stored(a) EXCEPT !.itunes = row.profile]
       ELSE Upserted(Stored(a), row.profile)]
Unfit(row, a) == ~StillThere(row) \/ (row.profile \in OnITunes /\ ClaimedByAnother(a, row.profile))
CompletedApart(row, a) ==
  IF Unfit(row, a)
  THEN (IF StillThere(row) THEN RowGone(row) ELSE UNCHANGED requests) /\ UNCHANGED <<artist, following>>
  ELSE RowGone(row) /\ Followed(row, a)
CompleteResolution(row, a) ==
  IF Unfit(row, a) THEN UNCHANGED <<requests, artist, following>>
  ELSE RowGone(row) /\ Followed(row, a)

\* The page reads the request, then follows the option chosen on it.
BeginSelection(m, i, a) ==
  /\ choosing[m] = Nothing /\ i \in Of(m) /\ a \in requests[i].options
  /\ choosing' = [choosing EXCEPT ![m] = [row |-> requests[i], option |-> a]]
  /\ UNCHANGED <<requests, requested, pass, artist, following>>

QueueSelectedArtistResolution(m) ==
  /\ choosing[m] # Nothing /\ choosing' = [choosing EXCEPT ![m] = Nothing]
  /\ CompleteResolution(choosing[m].row, choosing[m].option)
  /\ UNCHANGED <<requested, pass>>

-----------------------------------------------------------------------------
(* The background.                                                         *)

\* Mutant: requests under review as well, whose next_attempt_at is NULL.
DueAny == {requests[i] : i \in {j \in Taken : requests[j].wait = 0}}
DueRows == {r \in DueAny : ~InReview(r)}
MinOf(a, b) == IF a < b THEN a ELSE b

\* A share for each member, and no more than a batch.
DueArtistResolutions ==
  LET share(S, m) == {r \in S : r.member = m}
      shares == {S \in SUBSET DueRows : \A m \in Askers :
                   Cardinality(share(S, m)) = MinOf(BatchPerUser, Cardinality(share(DueRows, m)))}
  IN {S \in SUBSET DueRows : \E T \in shares :
        S \subseteq T /\ Cardinality(S) = MinOf(BatchSize, Cardinality(T))}

ResolveArtistResolutions ==
  /\ pass = {} /\ pass' \in DueArtistResolutions \ {{}}
  /\ UNCHANGED <<requests, requested, choosing, artist, following>>

\* The provider failed or knows nothing yet.  Attempts count up to the last delay.
RetryArtistResolution(row) ==
  IF StillThere(row)
  THEN requests' = [requests EXCEPT ![row.number] =
         [@ EXCEPT !.options = {}, !.wait = Delays[row.attempts + 1],
                   !.attempts = MinOf(row.attempts + 1, Len(Delays) - 1)]]
  ELSE UNCHANGED requests

MarkArtistResolutionReview(row, options) ==
  IF StillThere(row)
  THEN requests' = [requests EXCEPT ![row.number] = [@ EXCEPT !.options = options, !.wait = 0]]
  ELSE UNCHANGED requests

\* MusicBrainz names one artist for the profile, or several, or a search for the
\* name finds some that the member may choose from.
ResolveArtistResolution(row) ==
  /\ row \in pass /\ pass' = pass \ {row}
  /\ \/ RetryArtistResolution(row) /\ UNCHANGED <<artist, following>>
     \/ \E options \in SUBSET Canonical \ {{}} :
          MarkArtistResolutionReview(row, options) /\ UNCHANGED <<artist, following>>
     \/ \E a \in Canonical : CompleteResolution(row, a)
  /\ UNCHANGED <<requested, choosing>>

\* The process ends: what it has in memory goes.
Interrupted ==
  /\ pass # {} \/ \E m \in Askers : choosing[m] # Nothing
  /\ pass' = {} /\ choosing' = [m \in Askers |-> Nothing]
  /\ UNCHANGED <<requests, requested, artist, following>>

ResolutionTick ==
  /\ \E i \in Numbers : IsRequest(i) /\ requests[i].wait > 0
  /\ requests' = [i \in Numbers |-> IF IsRequest(i) /\ requests[i].wait > 0
                                    THEN [requests[i] EXCEPT !.wait = requests[i].wait - 1]
                                    ELSE requests[i]]
  /\ UNCHANGED <<requested, pass, choosing, artist, following>>

ResolutionNext ==
  \/ \E m \in Askers, p \in Profiles : CreateArtistResolution(m, p)
  \/ \E m \in Askers, i \in Numbers : CancelArtistResolution(m, i)
  \/ \E a \in Canonical, p \in (Profiles \ OnITunes) \cup {Nothing} : UpsertArtist(a, p)
  \/ \E m \in Askers, a \in Canonical : FollowArtist(m, a)
  \/ \E a \in Canonical, p \in OnITunes : SaveArtistProviderIdentity(a, p)
  \/ \E m \in Askers, i \in Numbers, a \in Canonical : BeginSelection(m, i, a)
  \/ \E m \in Askers : QueueSelectedArtistResolution(m)
  \/ ResolveArtistResolutions
  \/ \E row \in pass : ResolveArtistResolution(row)
  \/ Interrupted
  \/ ResolutionTick

-----------------------------------------------------------------------------
(* Properties.                                                             *)

\* A request ends only because its member cancels it, or with a follow of that
\* member: an error on the way leaves it where it was.
NothingAskedIsLost ==
  [][(pass' # pass \/ choosing' # choosing) =>
       \A i \in Numbers : IsRequest(i) /\ requests'[i] = Nothing =>
         \E a \in Canonical : <<requests[i].member, a>> \in following']_resolutionVars

\* What a member was asked to choose from stays until the member chooses or
\* cancels: a pass that began earlier does not take the choice back.
ReviewIsTheMembers ==
  [][\A i \in Numbers : InReview(requests[i]) /\ pass' # pass /\ choosing' = choosing =>
       requests'[i] = requests[i]]_resolutionVars

\* "A stored Spotify identity is never replaced", whoever follows the artist from
\* wherever; its link belongs to it, and an iTunes profile has one artist.
IdentitiesAreKept ==
  /\ [][\A a \in Canonical : artist[a] # Nothing /\ artist[a].spotify # Nothing =>
          artist'[a].spotify = artist[a].spotify]_resolutionVars
  /\ [](\A a \in Canonical : artist[a] # Nothing =>
          /\ artist[a].link = artist[a].spotify
          /\ artist[a].itunes # Nothing => ~ClaimedByAnother(a, artist[a].itunes))

ResolutionsAreSound == []ResolutionTypeOK /\ NothingAskedIsLost /\ ReviewIsTheMembers /\ IdentitiesAreKept

-----------------------------------------------------------------------------
(* Why they hold: the inductive invariant of the proofs.                   *)

ResolutionSpec == ResolutionInit /\ [][ResolutionNext]_resolutionVars

OnSpotifyOnly == Profiles \ OnITunes
LongestDelay == Delays[Len(Delays)]
RequestRows ==
  [number : Numbers, member : Askers, profile : Profiles, options : SUBSET Canonical,
   attempts : 0 .. Len(Delays) - 1, wait : 0 .. LongestDelay]
ArtistRows ==
  [spotify : OnSpotifyOnly \cup {Nothing}, link : OnSpotifyOnly \cup {Nothing},
   itunes : OnITunes \cup {Nothing}]

ASSUME NothingIsNoRow == Nothing \notin RequestRows /\ Nothing \notin ArtistRows

ResolutionTyped ==
  /\ requests \in [Numbers -> RequestRows \cup {Nothing}]
  /\ \A i \in Numbers : IsRequest(i) => requests[i].number = i
  /\ requested \in 0 .. MaxRequested
  /\ pass \subseteq RequestRows /\ IsFiniteSet(pass) /\ Cardinality(pass) <= BatchSize
  /\ choosing \in [Askers -> [row : RequestRows, option : Canonical] \cup {Nothing}]
  /\ artist \in [Canonical -> ArtistRows \cup {Nothing}]
  /\ following \subseteq Askers \X {a \in Canonical : artist[a] # Nothing}

\* A pass has one copy of a number, and while it has it nobody else puts the row
\* under that number up for review: what was asked anew under it has not been
\* looked up.
PassIsAhead ==
  /\ \A r, q \in pass : r.number = q.number => r = q
  /\ \A r \in pass : ~InReview(requests[r.number])

IdentitiesAgree ==
  \A a \in Canonical : artist[a] # Nothing =>
    /\ artist[a].link = artist[a].spotify
    /\ artist[a].itunes # Nothing => ~ClaimedByAnother(a, artist[a].itunes)

ResolutionIInv == ResolutionTyped /\ PassIsAhead /\ IdentitiesAgree
=============================================================================
