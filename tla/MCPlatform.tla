----------------------------- MODULE MCPlatform -----------------------------
(***************************************************************************)
(* Small instances of components that share at most the database file: a   *)
(* behaviour is about one of them, chosen at the start, and leaves the     *)
(* others as they begin.                                                   *)
(***************************************************************************)
EXTENDS Admission, Accounts, CatalogReader, ProviderClient, ReleaseMerge, Digest, Migrations, Artwork,
        Imports, Resolution, TLC

CONSTANTS m1, m2, r1, r2, e1, e2, l1

VARIABLE part

-----------------------------------------------------------------------------
(* Admission: account preferences with the guard on, or on and off.        *)

Guarded == {[types |-> TRUE, moments |-> Kinds, holds |-> TRUE]}
OnOff   == Guarded \cup {[types |-> TRUE, moments |-> Kinds, holds |-> FALSE]}

\* One member who changes everything beside one who does not follow, or two
\* followers whose rules stay as they are.
Alone    == follows[m2] = {}
Together == \A m \in Members : follows[m] = {1}

(* Accounts: an empty household, or an administrator signed in, beside a   *)
(* member who is or with an invitation that is open.                       *)
Person(role, e) == [role |-> role, email |-> e, era |-> 0]
Household ==
  /\ \/ /\ users = [u \in Ids |-> IF u = 1 THEN Person("admin", e1) ELSE NoUser]
        /\ links = [l \in Links |-> NewLink("invite", e2, 0)] /\ budget = Budget
     \/ /\ users = [u \in Ids |-> IF u = 1 THEN Person("admin", e1) ELSE Person("member", e2)]
        /\ links = [l \in Links |-> NoLink] /\ budget = Budget - 1
  /\ sessions = {[user |-> u, era |-> 0, issued |-> 0] : u \in {v \in Ids : users[v] # NoUser}}
  /\ feed = [u \in Ids |-> NoFeed]
  /\ attempts = [k \in Keys |-> NoAttempts] /\ request = [c \in Clients |-> NoRequest]
  /\ era = 0 /\ born = [l \in Links |-> 0]
  /\ strikes = [k \in Clients \X Emails |-> 0]

-----------------------------------------------------------------------------
(* CatalogReader: what a provider may have, every catalogue of few rows and *)
(* some that fill their pages.                                             *)

NoDate == 0 - 1

Album(i, group, eligible) == [id |-> i, group |-> group, eligible |-> eligible]
OwnAlbums   == {Album(1, "album", TRUE), Album(1, "appears_on", TRUE),
                Album(2, "album", TRUE), Album(2, "album", FALSE)}
GuestAlbums == {Album(1, "appears_on", TRUE), Album(3, "appears_on", TRUE)}

Listing(items, missing) == [rows |-> items, total |-> Len(items) + missing]
Full(R) == {Listing([i \in 1 .. k[1] |-> [r EXCEPT !.id = i]], k[2]) :
              r \in {s \in R : s.id = 1}, k \in {<<1, 1>>, <<3, 1>>, <<5, 0>>}}
Listings(R, n) == {Listing(items, 0) : items \in BoundedSeq(R, n)} \cup Full(R)
SpotifyCatalogues ==
  {[provider |-> "spotify", own |-> o, guests |-> g] :
     o \in Listings(OwnAlbums, 3), g \in Listings(GuestAlbums, 2)}

Row(kind, owner, i, whole) == [kind |-> kind, owner |-> owner, id |-> i, whole |-> whole]
ITunesRows == {Row("artist", "self", 0, FALSE), Row("artist", "other", 0, FALSE),
               Row("collection", "self", 1, TRUE), Row("collection", "other", 2, TRUE),
               Row("collection", "", 3, TRUE), Row("collection", "self", 4, FALSE)}
Name(i, exact) == [id |-> i, exact |-> exact]
Found == {<< >>, <<Name(1, TRUE)>>, <<Name(1, TRUE), Name(2, TRUE)>>,
          <<Name(1, FALSE), Name(2, TRUE)>>, <<Name(2, TRUE), Name(2, TRUE)>>}
Track(i, c, credited) == [id |-> i, collection |-> c, credited |-> credited]
Tracks == BoundedSeq({Track(1, 1, TRUE), Track(2, 1, TRUE), Track(2, 5, TRUE), Track(3, 6, FALSE)}, 2)
ITunesCatalogue(known, found, items, tracks) ==
  [provider |-> "itunes", known |-> known, found |-> found, rows |-> items, tracks |-> tracks]
ITunesCatalogues ==
  {ITunesCatalogue(k, f, r, << >>) : k \in {0, 1}, f \in Found, r \in BoundedSeq(ITunesRows, 2)}
  \cup {ITunesCatalogue(1, << >>, r, t) : r \in BoundedSeq(ITunesRows, 2), t \in Tracks}

Groups(n, missing) == Listing([i \in 1 .. n |-> [id |-> i, date |-> 2]], missing)
Recording(i, credited, on) == [id |-> i, credited |-> credited, on |-> on]
On == BoundedSeq({[group |-> 1, date |-> 1], [group |-> 7, date |-> 1],
                  [group |-> 7, date |-> 2], [group |-> 7, date |-> NoDate]}, 2)
MusicBrainzCatalogue(own, recordings) ==
  [provider |-> "musicbrainz", own |-> own, recordings |-> recordings]
MusicBrainzCatalogues ==
  {MusicBrainzCatalogue(Groups(n, x), << >>) : n \in 0 .. 5, x \in 0 .. 1}
  \cup {MusicBrainzCatalogue(Groups(n, 0), <<Recording(1, TRUE, o), Recording(2, b, p)>>) :
          n \in 0 .. 1, b \in BOOLEAN, o \in On, p \in On}

AllCatalogues == SpotifyCatalogues \cup ITunesCatalogues \cup MusicBrainzCatalogues

-----------------------------------------------------------------------------
(* ProviderClient: everything under one key, and a second artist whose      *)
(* popularity is asked for.                                                *)

ShortBackoff == [attempt \in 0 .. 2 |-> 1]
AllLookups == (AllOps \X {"k1"}) \cup {<<"popularity", "k2">>}

-----------------------------------------------------------------------------
(* ReleaseMerge: alike records of three providers, in full and of a month.  *)

Shows(p, i, title, type, day, precision, role, guests) ==
  [provider |-> p, id |-> i, title |-> title, type |-> type, day |-> day,
   precision |-> precision, role |-> role, guests |-> guests]
ShownRecords ==
  {Shows("spotify", 1, "a", "album", 0, 3, "primary", {}),
   Shows("spotify", 1, "a (deluxe)", "album", 2, 3, "primary", {}),
   Shows("spotify", 2, "a", "ep", 1, 3, "featured", {}),
   Shows("itunes", 1, "a", "ep", 4, 3, "primary", {}),
   Shows("itunes", 2, "b", "album", 0, 3, "featured", {1}),
   Shows("musicbrainz", 1, "a", "album", 0, 3, "primary", {}),
   Shows("musicbrainz", 1, "a", "album", 0, 2, "primary", {}),
   Shows("musicbrainz", 2, "a (deluxe)", "album", 2, 3, "primary", {})}
NormalTitles == [t \in {"a", "a (deluxe)", "b"} |-> IF t = "b" THEN "b" ELSE "a"]

(* Digest: a member who crosses the Atlantic.  A part of the day is two     *)
(* hours, and the digest is due at 22:00.                                   *)
ZoneOffsets == [z \in Zones |-> IF z = "new_york" THEN 0 - 3 ELSE 0]

(* Migrations: a release that adds two.                                    *)
ReleaseVersions == [old |-> 2, new |-> 4]

(* Imports: a new artist, a row that is refused and a known artist; a retry *)
(* of Resolution comes a tick later.                                       *)
UploadedFile == <<"new", "invalid", "known">>
RetryDelays  == <<1>>
\* Nobody asks for the profile "s2", which other sources may give an artist.
AskedFor(queue) == \A i \in Numbers : queue[i] # Nothing => queue[i].profile # "s2"

-----------------------------------------------------------------------------
Is(p) == part = p /\ UNCHANGED part

PlatformVars ==
  <<part, vars, accountVars, readerVars, clientVars, mergeVars,
    digestVars, migrationVars, artworkVars, importVars, resolutionVars>>

PlatformInit ==
  /\ part \in {"admission", "reviews", "accounts", "reader", "client", "merge", "digest",
              "migrations", "artwork", "imports", "resolution"}
  /\ Init /\ (IF part = "admission" THEN Alone ELSE Together)
     /\ (part \in {"admission", "reviews"} \/ \A m \in Members : prefs[m].holds)
  /\ AccountsInit \/ (part = "accounts" /\ Household)
  /\ IF part = "reader" THEN ReaderInit
     ELSE source = MusicBrainzCatalogue(Groups(0, 0), << >>) /\ reading = Start
  /\ ClientInit /\ (part # "client" => client = "musicbrainz")
  /\ MergeInit /\ (part # "merge" => follow.spotify)
  /\ DigestInit /\ (part # "digest" => zone = "berlin" /\ \A d \in Mailboxes : mailboxes[d] = NoMailbox)
  /\ MigrationsInit
  /\ ArtworkInit /\ (part # "artwork" => OnDisk = {})
  /\ ImportsInit /\ ResolutionInit

PlatformNext ==
  \/ /\ Is("admission") /\ Next
     /\ UNCHANGED <<accountVars, readerVars, clientVars, mergeVars, digestVars, migrationVars, artworkVars, importVars, resolutionVars>>
  \/ /\ Is("reviews") /\ Next /\ UNCHANGED ruleVars
     /\ UNCHANGED <<accountVars, readerVars, clientVars, mergeVars, digestVars, migrationVars, artworkVars, importVars, resolutionVars>>
  \/ /\ Is("accounts") /\ AccountsNext
     /\ UNCHANGED <<vars, readerVars, clientVars, mergeVars, digestVars, migrationVars, artworkVars, importVars, resolutionVars>>
  \/ /\ Is("reader") /\ ReaderNext
     /\ UNCHANGED <<vars, accountVars, clientVars, mergeVars, digestVars, migrationVars, artworkVars, importVars, resolutionVars>>
  \/ /\ Is("client") /\ ClientNext
     /\ UNCHANGED <<vars, accountVars, readerVars, mergeVars, digestVars, migrationVars, artworkVars, importVars, resolutionVars>>
  \/ /\ Is("merge") /\ MergeNext
     /\ UNCHANGED <<vars, accountVars, readerVars, clientVars, digestVars, migrationVars, artworkVars, importVars, resolutionVars>>
  \/ /\ Is("digest") /\ DigestNext
     /\ UNCHANGED <<vars, accountVars, readerVars, clientVars, mergeVars, migrationVars, artworkVars, importVars, resolutionVars>>
  \/ /\ Is("migrations") /\ MigrationsNext
     /\ UNCHANGED <<vars, accountVars, readerVars, clientVars, mergeVars, digestVars, artworkVars, importVars, resolutionVars>>
  \/ /\ Is("artwork") /\ ArtworkNext
     /\ UNCHANGED <<vars, accountVars, readerVars, clientVars, mergeVars, digestVars, migrationVars, importVars, resolutionVars>>
  \/ /\ Is("imports") /\ ImportsNext
     /\ UNCHANGED <<vars, accountVars, readerVars, clientVars, mergeVars, digestVars, migrationVars, artworkVars, resolutionVars>>
  \/ /\ Is("resolution") /\ ResolutionNext /\ AskedFor(requests')
     /\ UNCHANGED <<vars, accountVars, readerVars, clientVars, mergeVars, digestVars, migrationVars, artworkVars, importVars>>

PlatformSpec == PlatformInit /\ [][PlatformNext]_PlatformVars
=============================================================================
