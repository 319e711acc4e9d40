---------------------------- MODULE CatalogReader ----------------------------
(***************************************************************************)
(* What the catalog clients make of a provider's answers: walking the      *)
(* pages of a catalogue, telling a whole catalogue from a part of one,     *)
(* recognizing an artist by name, crediting guests, and the normalization  *)
(* of internal/catalog before a batch is stored.                           *)
(*                                                                         *)
(* A behaviour is one observation of one artist at one provider, over a    *)
(* catalogue chosen at the start; it makes one request per step, and any   *)
(* request may fail.  Identifiers are numbers, dates are numbers, and a    *)
(* row keeps what decides whether, and how, it becomes a release.          *)
(***************************************************************************)
EXTENDS Integers, Sequences, FiniteSets, SequencesExt

CONSTANTS
  PageSize,        \* 10 for Spotify, 100 for MusicBrainz
  MaxPages,        \* 100
  CollectionLimit, \* 200: what one iTunes lookup returns at most
  Unknown,         \* a date the provider left out
  Catalogues       \* the catalogues observed in this instance

Dates == Nat \cup {Unknown}

\* What a provider may have.  A stream or a list of release groups announces a
\* total, which may be more than it hands out but not less.
SpotifyStreams == [rows : Seq([id : Nat, group : STRING, eligible : BOOLEAN]), total : Nat]
GroupLists == [rows : Seq([id : Nat, date : Dates]), total : Nat]
OfSpotify == [provider : {"spotify"}, own : SpotifyStreams, guests : SpotifyStreams]
OfITunes ==
  [provider : {"itunes"}, known : Nat, found : Seq([id : Nat, exact : BOOLEAN]),
   rows : Seq([kind : STRING, owner : STRING, id : Nat, whole : BOOLEAN]),
   tracks : Seq([id : Nat, collection : Nat, credited : BOOLEAN])]
OfMusicBrainz ==
  [provider : {"musicbrainz"}, own : GroupLists,
   recordings : Seq([id : Nat, credited : BOOLEAN, on : Seq([group : Nat, date : Dates])])]

ASSUME ReaderAssumption ==
  /\ {PageSize, MaxPages, CollectionLimit} \subseteq Nat \ {0}
  /\ Unknown \notin Nat
  /\ \A c \in Catalogues :
       /\ c \in OfSpotify \/ c \in OfITunes \/ c \in OfMusicBrainz
       /\ c.provider # "itunes" => Len(c.own.rows) <= c.own.total
       /\ c.provider = "spotify" => Len(c.guests.rows) <= c.guests.total

VARIABLES
  source,   \* the catalogue at the provider
  reading   \* the observation: where it is, the next page, what it has read

readerVars == <<source, reading>>

Start == [at |-> IF source.provider = "itunes" THEN "resolve" ELSE "primary",
          page |-> 0, releases |-> << >>, guests |-> << >>, answer |-> "none"]

ReaderInit == source \in Catalogues /\ reading = Start

Minimum(a, b) == IF a < b THEN a ELSE b
Page(rows, n) == SubSeq(rows, n * PageSize + 1, Minimum((n + 1) * PageSize, Len(rows)))

Ask(at) == reading.at = at /\ UNCHANGED source
Read(changes) == reading' = changes
Fail(why) == reading' = [reading EXCEPT !.at = "done", !.releases = << >>, !.answer = why]
RequestFails == reading.at # "done" /\ UNCHANGED source /\ Fail("failed")

\* The position of a release in a sequence of them, 0 if it is not there.
Position(releases, id) ==
  IF \E i \in DOMAIN releases : releases[i].id = id
    THEN CHOOSE i \in DOMAIN releases : releases[i].id = id ELSE 0

\* mergeReleaseCredits.
MergeCredits(existing, incoming) == existing \cup incoming

-----------------------------------------------------------------------------
(* Spotify: a stream of the artist's own releases, then one of appearances.*)

SpotifyReleaseFirstRole(releases, row, featuredOnly) ==
  LET role == IF featuredOnly \/ row.group = "appears_on" THEN "featured" ELSE "primary"
      new  == [id |-> row.id, role |-> role, credits |-> {<<row.id, role>>}]
      at   == Position(releases, row.id)
  IN  IF ~row.eligible THEN releases
      ELSE IF at = 0 THEN Append(releases, new)
      ELSE [releases EXCEPT ![at].credits = MergeCredits(@, new.credits)]

\* A release that is in both streams is kept once; its own role wins.
AppendSpotifyRelease(releases, row, featuredOnly) ==
  LET role == IF featuredOnly \/ row.group = "appears_on" THEN "featured" ELSE "primary"
      new  == [id |-> row.id, role |-> role, credits |-> {<<row.id, role>>}]
      at   == Position(releases, row.id)
  IN  IF ~row.eligible THEN releases
      ELSE IF at = 0 THEN Append(releases, new)
      ELSE [releases EXCEPT ![at].credits = MergeCredits(@, new.credits),
                            ![at].role = IF role = "primary" THEN role ELSE @]

AppendSpotifyPage(releases, rows, featuredOnly) ==
  FoldLeft(LAMBDA done, row : AppendSpotifyRelease(done, row, featuredOnly), releases, rows)

\* A catalogue announces a total, which may be more than it hands out.  After a
\* page it is complete, goes on, or has used up the pages.
AfterPage(c, n) ==
  LET items == Page(c.rows, n) IN
  IF c.total > MaxPages * PageSize THEN "limit"
  ELSE IF items = << >> \/ n * PageSize + Len(items) >= c.total THEN "complete"
  ELSE IF n + 1 = MaxPages THEN "limit" ELSE "more"

FetchPrimaryPage ==
  /\ Ask("primary") /\ source.provider = "spotify"
  /\ LET after == AfterPage(source.own, reading.page)
         more  == AppendSpotifyPage(reading.releases, Page(source.own.rows, reading.page), FALSE)
     IN  IF after = "limit" THEN Fail("limit")
         ELSE IF after = "complete"
           THEN Read([reading EXCEPT !.at = "guests", !.page = 0, !.releases = more])
         ELSE Read([reading EXCEPT !.page = @ + 1, !.releases = more])

MergeAppearance(done, guest) ==
  LET at == Position(done, guest.id) IN
  IF at = 0 THEN Append(done, guest)
  ELSE [done EXCEPT ![at].credits = MergeCredits(@, guest.credits)]

MergeAppearances(releases, guests) == FoldLeft(MergeAppearance, releases, guests)

\* Too many appearances cost the appearances, not the artist's own releases.
FetchGuestPagesThere ==
  /\ Ask("guests") /\ source.provider = "spotify"
  /\ LET after == AfterPage(source.guests, reading.page)
         more  == AppendSpotifyPage(reading.guests, Page(source.guests.rows, reading.page), TRUE)
     IN  IF after # "more"
           THEN Read([reading EXCEPT !.at = "normalize",
                        !.releases = MergeAppearances(@, more)])
         ELSE Read([reading EXCEPT !.page = @ + 1, !.guests = more])

FetchGuestPage ==
  /\ Ask("guests") /\ source.provider = "spotify"
  /\ LET after == AfterPage(source.guests, reading.page)
         more  == AppendSpotifyPage(reading.guests, Page(source.guests.rows, reading.page), TRUE)
     IN  IF after = "limit"
           THEN Read([reading EXCEPT !.at = "normalize"])
         ELSE IF after = "complete"
           THEN Read([reading EXCEPT !.at = "normalize",
                        !.releases = MergeAppearances(@, more)])
         ELSE Read([reading EXCEPT !.page = @ + 1, !.guests = more])

-----------------------------------------------------------------------------
(* iTunes: an identity by exact name, one lookup, one search for credits.  *)

Exact == {source.found[i].id : i \in {j \in DOMAIN source.found : source.found[j].exact}}

\* A stored identity is used as it is; otherwise the name has to name one artist.
ResolveFirstMatch ==
  /\ Ask("resolve")
  /\ IF source.known = 0 /\ Exact = {} THEN Fail("not_found")
     ELSE Read([reading EXCEPT !.at = "lookup"])

ResolveExactArtist ==
  /\ Ask("resolve")
  /\ IF source.known # 0 THEN Read([reading EXCEPT !.at = "lookup"])
     ELSE IF Exact = {} THEN Fail("not_found")
     ELSE IF Cardinality(Exact) > 1 THEN Fail("ambiguous")
     ELSE Read([reading EXCEPT !.at = "lookup"])

\* Collections that are whole albums of the artist asked for, once each.
Usable(row) == row.kind = "collection" /\ row.owner \in {"self", ""} /\ row.whole

KeepCollection(done, row) ==
  IF Usable(row) /\ Position(done, row.id) = 0
    THEN Append(done, [id |-> row.id, role |-> "", credits |-> {}]) ELSE done

KeepCollections(rows) == FoldLeft(KeepCollection, << >>, rows)

\* The looked-up row of another artist means that the identity is wrong; a full
\* page means that the catalogue is only a part of what there is.
ArtistReleasesByID ==
  /\ Ask("lookup")
  /\ IF \E i \in DOMAIN source.rows : source.rows[i].kind = "artist" /\ source.rows[i].owner = "other"
       THEN Fail("ambiguous")
       ELSE Read([reading EXCEPT !.at = "credits", !.releases = KeepCollections(source.rows),
                    !.answer = IF Len(SelectSeq(source.rows, LAMBDA row : row.kind = "collection"))
                                    >= CollectionLimit THEN "partial" ELSE @])

\* One release per credited track, the known one if the collection is known.
CreditTrack(known, done, track) ==
  IF ~track.credited \/ (\E i \in DOMAIN done : done[i].id = track.collection
                                                  /\ <<track.id, "guest">> \in done[i].credits)
    THEN done
    ELSE LET at  == Position(known, track.collection)
             old == IF at = 0 THEN {} ELSE known[at].credits
         IN  Append(done, [id |-> track.collection, role |-> "featured",
                           credits |-> old \cup {<<track.id, "guest">>}])

ITunesCredits(known, tracks) ==
  FoldLeft(LAMBDA done, track : CreditTrack(known, done, track), << >>, tracks)

\* A credit search that fails leaves the releases as they are.
ITunesArtistReleaseCredits ==
  /\ Ask("credits") /\ source.provider = "itunes"
  /\ \/ Read([reading EXCEPT !.at = "normalize",
                !.releases = @ \o ITunesCredits(reading.releases, source.tracks)])
     \/ Read([reading EXCEPT !.at = "normalize"])

-----------------------------------------------------------------------------
(* MusicBrainz: release groups page by page, then one page of recordings.  *)

\* The offset advances by the page size, whatever a page returned.
FetchGroupPage ==
  /\ Ask("primary") /\ source.provider = "musicbrainz"
  /\ LET rows == Page(source.own.rows, reading.page)
         more == reading.releases \o
                 [i \in DOMAIN rows |-> [id |-> rows[i].id, role |-> "", credits |-> {}, date |-> rows[i].date]]
     IN  IF reading.page = MaxPages THEN Fail("limit")
         ELSE IF (reading.page + 1) * PageSize >= source.own.total \/ rows = << >>
           THEN Read([reading EXCEPT !.at = "credits", !.releases = more])
         ELSE Read([reading EXCEPT !.page = @ + 1, !.releases = more])

\* The earliest date a recording shows for a group.
DatesOf(recording, group) ==
  {recording.on[i].date : i \in {j \in DOMAIN recording.on : recording.on[j].group = group}} \ {Unknown}
Earliest(dates) == IF dates = {} THEN Unknown ELSE CHOOSE d \in dates : \A e \in dates : d <= e

AddGroup(done, on) == IF Contains(done, on.group) THEN done ELSE Append(done, on.group)
GroupsOf(recording) == FoldLeft(AddGroup, << >>, recording.on)

\* A known group keeps its date; another one without a date is left out.
CreditGroup(known, recording, done, group) ==
  LET at   == Position(known, group)
      date == IF at = 0 THEN Earliest(DatesOf(recording, group)) ELSE known[at].date
      old  == IF at = 0 THEN {} ELSE known[at].credits
  IN  IF at = 0 /\ date = Unknown THEN done
      ELSE Append(done, [id |-> group, role |-> "featured", date |-> date,
                         credits |-> old \cup {<<recording.id, "guest">>}])

CreditGroups(known, recording, done) ==
  FoldLeft(LAMBDA sofar, group : CreditGroup(known, recording, sofar, group), done, GroupsOf(recording))

CreditRecording(known, done, recording) ==
  IF recording.credited THEN CreditGroups(known, recording, done) ELSE done

MusicBrainzCredits(known, recordings) ==
  FoldLeft(LAMBDA done, recording : CreditRecording(known, done, recording), << >>, recordings)

MusicBrainzArtistReleaseCredits ==
  /\ Ask("credits") /\ source.provider = "musicbrainz"
  /\ \/ Read([reading EXCEPT !.at = "normalize",
                !.releases = @ \o MusicBrainzCredits(reading.releases, source.recordings)])
     \/ Read([reading EXCEPT !.at = "normalize"])

-----------------------------------------------------------------------------
(* AlbumEPNormalizer: one release per identifier, every credit kept; a row *)
(* that is the artist's own replaces one that credits a guest.             *)

NormalizeLast(releases) ==
  FoldLeft(LAMBDA done, release :
             LET at == Position(done, release.id) IN
             IF at = 0 THEN Append(done, release)
             ELSE [done EXCEPT ![at] = release],
           << >>, releases)

NormalizeOne(done, release) ==
  LET at      == Position(done, release.id)
      credits == MergeCredits(done[at].credits, release.credits)
  IN  IF at = 0 THEN Append(done, release)
      ELSE IF done[at].role = "featured" /\ release.role # "featured"
        THEN [done EXCEPT ![at] = [release EXCEPT !.credits = credits]]
        ELSE [done EXCEPT ![at].credits = credits]

Normalize(releases) == FoldLeft(NormalizeOne, << >>, releases)

NormalizeBatch ==
  /\ Ask("normalize")
  /\ Read([reading EXCEPT !.at = "done", !.releases = Normalize(@),
             !.answer = IF @ = "none" THEN "whole" ELSE @])

ReaderNext ==
  \/ RequestFails
  \/ FetchPrimaryPage \/ FetchGuestPage
  \/ ResolveExactArtist \/ ArtistReleasesByID \/ ITunesArtistReleaseCredits
  \/ FetchGroupPage \/ MusicBrainzArtistReleaseCredits
  \/ NormalizeBatch

ReaderSpec == ReaderInit /\ [][ReaderNext]_readerVars

-----------------------------------------------------------------------------
(* Properties, of an observation that has ended.                           *)

Observed == reading.at = "done"
Delivered == Observed /\ reading.answer \in {"whole", "partial"}
ReleaseIds == {reading.releases[i].id : i \in DOMAIN reading.releases}
Rows(c) == {c.rows[i] : i \in DOMAIN c.rows}
EligibleRows(c) == {row.id : row \in {r \in Rows(c) : r.eligible}}

\* A catalogue is delivered whole or not at all, whatever page fails or is one
\* too many: of appearances there may be none, never some.
WholeOrRefused ==
  /\ Observed /\ ~Delivered => reading.releases = << >>
  /\ Delivered /\ source.provider = "spotify" =>
       ReleaseIds \in {EligibleRows(source.own), EligibleRows(source.own) \cup EligibleRows(source.guests)}
  /\ Delivered /\ source.provider = "musicbrainz" => {row.id : row \in Rows(source.own)} \subseteq ReleaseIds

\* What is the artist's own: at Spotify what some row of the first stream shows
\* as such, elsewhere what the release lookup returned.
OwnIds ==
  IF source.provider = "spotify"
    THEN {row.id : row \in {r \in Rows(source.own) : r.eligible /\ r.group # "appears_on"}}
  ELSE IF source.provider = "musicbrainz" THEN {row.id : row \in Rows(source.own)}
  ELSE {source.rows[i].id : i \in {j \in DOMAIN source.rows : Usable(source.rows[j])}}

\* A release is delivered once, and as the artist's own exactly if it is,
\* whatever the order in which its rows were read.
OwnReleasesOutrankGuests ==
  Delivered =>
    /\ Cardinality(ReleaseIds) = Len(reading.releases)
    /\ \A i \in DOMAIN reading.releases :
         (reading.releases[i].role = "featured") = (reading.releases[i].id \notin OwnIds)

\* What the streams of Spotify, the tracks of iTunes and the recordings of
\* MusicBrainz say of a release with this identifier.
StreamCredits(id) ==
  {<<id, IF row.group = "appears_on" THEN "featured" ELSE "primary">> :
     row \in {r \in Rows(source.own) : r.eligible /\ r.id = id}}
TrackCredits(id) ==
  {<<source.tracks[i].id, "guest">> :
     i \in {j \in DOMAIN source.tracks : source.tracks[j].credited /\ source.tracks[j].collection = id}}
RecordingCredits(id) ==
  {<<source.recordings[i].id, "guest">> :
     i \in {j \in DOMAIN source.recordings :
             /\ source.recordings[j].credited /\ Contains(GroupsOf(source.recordings[j]), id)
             /\ id \in OwnIds \/ DatesOf(source.recordings[j], id) # {}}}

\* Whatever rows a release was read from, in whatever order, it is delivered
\* with every credit they show; of credited tracks or recordings, whose search
\* may fail on its own, with all of them or none.
CreditsAreKept ==
  Delivered =>
    \/ \A i \in DOMAIN reading.releases :
         LET release == reading.releases[i] IN
         IF source.provider = "spotify" THEN StreamCredits(release.id) \subseteq release.credits
         ELSE IF source.provider = "itunes" THEN release.credits = TrackCredits(release.id)
         ELSE release.credits = RecordingCredits(release.id)
    \/ /\ source.provider # "spotify"
       /\ \A i \in DOMAIN reading.releases : reading.releases[i].credits = {}

\* A name that several artists share, or an identity that belongs to another
\* artist, delivers nothing.
NoForeignDiscography ==
  Delivered /\ source.provider = "itunes" =>
    /\ source.known # 0 \/ Cardinality(Exact) = 1
    /\ ~ \E i \in DOMAIN source.rows : source.rows[i].kind = "artist" /\ source.rows[i].owner = "other"

\* What an observation delivers is faithful to the provider's catalogue: the
\* right artist's, whole, each release once in its right role with its credits.
ObservationIsFaithful ==
  /\ WholeOrRefused /\ NoForeignDiscography
  /\ OwnReleasesOutrankGuests /\ CreditsAreKept

\* The date of a release group is the earliest of its releases that the search
\* returned.
CreditDateIsEarliest ==
  Delivered /\ source.provider = "musicbrainz" =>
    \A i \in DOMAIN reading.releases :
      reading.releases[i].role = "featured" =>
        reading.releases[i].date =
          Earliest(UNION {DatesOf(source.recordings[j], reading.releases[i].id) :
                            j \in {k \in DOMAIN source.recordings : source.recordings[k].credited}})

-----------------------------------------------------------------------------
(* Why they hold: the inductive invariant of CatalogProofs, about what has  *)
(* been read when an observation is at each of its stages.                  *)

Released == [id : Nat, role : {"", "primary", "featured"},
             credits : SUBSET (Nat \X {"primary", "featured", "guest"})]
DatedReleased == [id : Nat, role : {"", "primary", "featured"}, date : Dates,
                  credits : SUBSET (Nat \X {"primary", "featured", "guest"})]
ReleaseRecords == Released \cup DatedReleased

IdsOf(releases) == {releases[i].id : i \in DOMAIN releases}
Once(releases) == \A i, j \in DOMAIN releases : releases[i].id = releases[j].id => i = j
CreditsIn(releases, id) == UNION {releases[i].credits : i \in {j \in DOMAIN releases : releases[j].id = id}}
FeaturedIn(releases, id) == \A i \in DOMAIN releases : releases[i].id = id => releases[i].role = "featured"
Bare(releases) == \A i \in DOMAIN releases : releases[i].role = "" /\ releases[i].credits = {}

\* The rows of the pages before this one.
ReadRows(c) == {c.rows[j] : j \in {i \in DOMAIN c.rows : i <= reading.page * PageSize}}

\* What some rows of a stream of Spotify, in whatever order, have made: a release
\* for each id, the artist's own if one row says so, with the credit of every row.
RoleIn(row, featuredOnly) == IF featuredOnly \/ row.group = "appears_on" THEN "featured" ELSE "primary"
ReadAs(releases, R, featuredOnly) ==
  /\ Once(releases)
  /\ \A i \in DOMAIN releases :
       /\ releases[i].role \in {"primary", "featured"}
       /\ \E row \in R : /\ row.eligible /\ row.id = releases[i].id
                         /\ releases[i].role = "primary" => RoleIn(row, featuredOnly) = "primary"
  /\ \A row \in R : row.eligible =>
       \E i \in DOMAIN releases :
         /\ releases[i].id = row.id /\ <<row.id, RoleIn(row, featuredOnly)>> \in releases[i].credits
         /\ RoleIn(row, featuredOnly) = "primary" => releases[i].role = "primary"

IsAt(stages) == reading.at \in stages

StreamsAreRead ==
  /\ IsAt({"primary", "guests", "normalize", "done"}) /\ reading.answer # "partial"
  /\ IsAt({"primary"}) => reading.guests = << >> /\ ReadAs(reading.releases, ReadRows(source.own), FALSE)
  /\ IsAt({"guests"}) => /\ ReadAs(reading.releases, Rows(source.own), FALSE)
                       /\ ReadAs(reading.guests, ReadRows(source.guests), TRUE)
LookupIsRead ==
  /\ IsAt({"resolve", "lookup", "credits", "normalize", "done"})
  /\ IsAt({"lookup", "credits", "normalize"}) => source.known # 0 \/ Cardinality(Exact) = 1
  /\ IsAt({"credits", "normalize"}) =>
       ~ \E i \in DOMAIN source.rows : source.rows[i].kind = "artist" /\ source.rows[i].owner = "other"
  /\ IsAt({"credits"}) => IdsOf(reading.releases) = OwnIds /\ Bare(reading.releases)
GroupsAreRead ==
  /\ IsAt({"primary", "credits", "normalize", "done"}) /\ reading.answer # "partial"
  /\ IsAt({"primary", "credits"}) => reading.releases \in Seq(DatedReleased) /\ Bare(reading.releases)
  /\ IsAt({"primary"}) => IdsOf(reading.releases) = {row.id : row \in ReadRows(source.own)}
  /\ IsAt({"credits"}) => IdsOf(reading.releases) = OwnIds

\* What is normalized has every id, shows which are the artist's own, and all
\* credits or none.
BatchIsFaithful ==
  /\ source.provider = "spotify" =>
       IdsOf(reading.releases) \in {EligibleRows(source.own), EligibleRows(source.own) \cup EligibleRows(source.guests)}
  /\ source.provider = "musicbrainz" => OwnIds \subseteq IdsOf(reading.releases)
  /\ \A id \in IdsOf(reading.releases) : FeaturedIn(reading.releases, id) <=> id \notin OwnIds
  /\ \/ \A id \in IdsOf(reading.releases) :
          LET credits == CreditsIn(reading.releases, id) IN
          IF source.provider = "spotify" THEN StreamCredits(id) \subseteq credits
          ELSE IF source.provider = "itunes" THEN credits = TrackCredits(id)
          ELSE credits = RecordingCredits(id)
     \/ source.provider # "spotify" /\ \A i \in DOMAIN reading.releases : reading.releases[i].credits = {}

ReaderIInv ==
  /\ source \in Catalogues
  /\ reading \in [at : {"resolve", "lookup", "primary", "guests", "credits", "normalize", "done"}, page : Nat,
                  releases : Seq(ReleaseRecords), guests : Seq(ReleaseRecords),
                  answer : {"none", "whole", "partial", "failed", "limit", "not_found", "ambiguous"}]
  /\ reading.at # "done" => reading.answer \in {"none", "partial"}
  /\ source.provider = "spotify" => StreamsAreRead
  /\ source.provider = "itunes" => LookupIsRead
  /\ source.provider = "musicbrainz" => GroupsAreRead
  /\ IsAt({"normalize"}) => BatchIsFaithful
  /\ ObservationIsFaithful
=============================================================================
