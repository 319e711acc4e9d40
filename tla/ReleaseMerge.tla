---------------------------- MODULE ReleaseMerge ----------------------------
(***************************************************************************)
(* How a synchronization stores what the providers show of an artist: the  *)
(* release row each record belongs to, the evidence and the conflicts it   *)
(* leaves, and what a follower is told.  One step is one transaction of    *)
(* ApplyReleaseBatches.                                                    *)
(*                                                                         *)
(* A record is what one provider shows of one release, under an id that is  *)
(* a number.  Dates are days, or the first day of a month at precision 2;   *)
(* Normal gives a title the form in which titles are compared.  One artist, *)
(* one follower.                                                           *)
(***************************************************************************)
EXTENDS Integers, Sequences, FiniteSets, SequencesExt

CONSTANTS
  Shown,      \* [provider, id, title, type, day, precision, role, guests]
  Normal,     \* the normalized form of each title, "" for a blank one
  Month,      \* the days of a month
  Tolerance,  \* 3 days: how far two full dates of one release may differ
  NewsDays,   \* 7 days: how old a release may be and still be news
  MaxSyncs,   \* how many synchronizations there are
  MaxRecords, \* how many records one of them brings
  MaxDay      \* the last day

Providers == {"musicbrainz", "spotify", "itunes"}
Precisions == {0, 2, 3}
Roles == {"primary", "featured"}
Titles == {r.title : r \in Shown}
Types == {r.type : r \in Shown}

ASSUME MergeAssumption ==
  /\ {Month, Tolerance, NewsDays, MaxSyncs, MaxRecords, MaxDay} \subseteq Nat \ {0}
  /\ Shown \subseteq [provider : Providers, id : Nat \ {0}, title : Titles, type : Types, day : Nat,
                     precision : Precisions, role : Roles, guests : SUBSET Nat]
  /\ \A r \in Shown : r.precision = 2 => r.day % Month = 0

VARIABLES
  rows,      \* release_groups: a row is named by its position
  evidence,  \* provider_observations and release_provider_evidence
  credits,   \* release_credits
  issues,    \* open release_evidence_issues: row and type
  follow,    \* the follower's baselines
  events,    \* notification_events: row and type
  today, checked, syncs

mergeVars == <<rows, evidence, credits, issues, follow, events, today, checked, syncs>>

\* The artist was not checked yet.
Never == 0 - 1

MergeInit ==
  /\ rows = << >> /\ evidence = {} /\ credits = {} /\ issues = {} /\ events = {}
  /\ follow \in {[all |-> FALSE, spotify |-> FALSE], [all |-> TRUE, spotify |-> FALSE],
                 [all |-> TRUE, spotify |-> TRUE]}
  /\ today = 0 /\ checked = Never /\ syncs = 0

Later(a, b) == IF a > b THEN a ELSE b
Apart(a, b) == IF a > b THEN a - b ELSE b - a

-----------------------------------------------------------------------------
(* Which row a record belongs to.                                          *)

Claimed(row) == row.mbid # 0

\* Mutant: full dates may be a day further apart.
SameReleaseADayMore(row, r) ==
  /\ Normal[row.title] # "" /\ Normal[row.title] = Normal[r.title]
  /\ row.precision = r.precision
  /\ IF r.precision = 3 THEN Apart(row.day, r.day) <= Tolerance + 1 ELSE row.day = r.day

\* releaseIdentityMatches: the same normalized title and precision, the same
\* date or, of two full dates, one within the tolerance.
SameRelease(row, r) ==
  /\ Normal[row.title] # "" /\ Normal[row.title] = Normal[r.title]
  /\ row.precision = r.precision
  /\ IF r.precision = 3 THEN Apart(row.day, r.day) <= Tolerance ELSE row.day = r.day

\* matchingReleaseIDTx: the one row that matches in its type too, else the one
\* that matches in all but the type, which may be derived; none if several do.
MatchingAnyRow(stored, r) ==
  LET same    == {i \in DOMAIN stored : r.precision # 0 /\ SameRelease(stored[i], r)}
      exact   == {i \in same : stored[i].type = r.type}
      derived == same \ exact
  IN  IF Cardinality(exact) = 1 THEN exact
      ELSE IF exact = {} /\ Cardinality(derived) = 1 THEN derived ELSE {}

\* A row that MusicBrainz has claimed is not offered to another of its groups.
MatchingRelease(stored, r) ==
  LET same    == {i \in DOMAIN stored : /\ r.precision # 0 /\ SameRelease(stored[i], r)
                                        /\ r.provider = "musicbrainz" => ~Claimed(stored[i])}
      exact   == {i \in same : stored[i].type = r.type}
      derived == same \ exact
  IN  IF Cardinality(exact) = 1 THEN exact
      ELSE IF exact = {} /\ Cardinality(derived) = 1 THEN derived ELSE {}

\* By the provider's id, as observed or as stored, and then by likeness.
KnownRow(db, r) ==
  IF r.provider = "musicbrainz" THEN {i \in DOMAIN db.rows : db.rows[i].mbid = r.id}
  ELSE LET seen == {e.row : e \in {x \in db.evidence : x.of.provider = r.provider /\ x.of.id = r.id}}
       IN  IF seen # {} THEN seen ELSE {i \in DOMAIN db.rows : db.rows[i][r.provider] = r.id}

RowOf(db, r) ==
  LET known == KnownRow(db, r) IN IF known # {} THEN known ELSE MatchingRelease(db.rows, r)

-----------------------------------------------------------------------------
(* What a record writes.                                                   *)

\* The role of the artist's own release stays.
RoleOf(old, r) == IF "primary" \in {old, r.role} THEN "primary" ELSE "featured"

NewRow(r) ==
  [mbid    |-> IF r.provider = "musicbrainz" THEN r.id ELSE 0,
   spotify |-> IF r.provider = "spotify" THEN r.id ELSE 0,
   itunes  |-> IF r.provider = "itunes" THEN r.id ELSE 0,
   source  |-> r.provider, title |-> r.title, type |-> r.type,
   day |-> r.day, precision |-> r.precision, role |-> r.role]

\* The date of a record counts if it is at least as precise.
Rewritten(row, r) ==
  [row EXCEPT !.title = r.title, !.type = r.type,
              !.day = IF r.precision >= row.precision THEN r.day ELSE @,
              !.precision = Later(@, r.precision)]

\* MusicBrainz always rewrites the row, and claims one it has matched.
MusicBrainzRow(row, r) ==
  [Rewritten(row, r) EXCEPT
     !.mbid = r.id, !.role = RoleOf(@, r),
     !.source = IF row.spotify = 0 /\ row.itunes = 0 THEN "musicbrainz" ELSE "both"]

\* Spotify and iTunes rewrite their own row, and a shared one MusicBrainz has
\* not claimed; whatever they match, they leave their first id on it.
ProviderRowUnclaimed(row, r) ==
  LET own == row.source \in {r.provider, "both"} IN
  [(IF own THEN Rewritten(row, r) ELSE row) EXCEPT
     ![r.provider] = IF @ = 0 THEN r.id ELSE @,
     !.role = RoleOf(@, r),
     !.source = IF @ \in {r.provider, "both"} THEN @ ELSE "both"]

ProviderRow(row, r) ==
  LET own == row.source = r.provider \/ (row.source = "both" /\ ~Claimed(row)) IN
  [(IF own THEN Rewritten(row, r) ELSE row) EXCEPT
     ![r.provider] = IF @ = 0 THEN r.id ELSE @,
     !.role = RoleOf(@, r),
     !.source = IF @ \in {r.provider, "both"} THEN @ ELSE "both"]

UpdatedRow(row, r) ==
  IF r.provider = "musicbrainz" THEN MusicBrainzRow(row, r) ELSE ProviderRow(row, r)

Observe(db, r, i) ==
  {e \in db.evidence : ~(e.of.provider = r.provider /\ e.of.id = r.id)}
    \cup {[of |-> r, row |-> i, at |-> syncs]}

\* The credits a record shows: its guests, or its own role.
CreditsOf(r, i) ==
  LET shown == IF r.guests = {} THEN {<<r.id, r.role>>} ELSE {<<g, "guest">> : g \in r.guests}
  IN  {<<i, r.provider, c[1], c[2]>> : c \in shown}

\* One candidate per provider and row; an own release is not hidden by an
\* appearance, and new is new whichever record showed it.
NotedLatest(saved, item) ==
  LET same == {k \in DOMAIN saved : saved[k].provider = item.provider /\ saved[k].row = item.row} IN
  IF same = {} THEN Append(saved, item)
  ELSE LET k == CHOOSE x \in same : TRUE IN
       IF saved[k].role = "primary" /\ item.role = "featured" THEN saved ELSE [saved EXCEPT ![k] = item]

Noted(saved, item) ==
  LET same == {k \in DOMAIN saved : saved[k].provider = item.provider /\ saved[k].row = item.row} IN
  IF same = {} THEN Append(saved, item)
  ELSE LET k   == CHOOSE x \in same : TRUE
           new == saved[k].new \/ item.new
       IN  [saved EXCEPT ![k] = IF @.role = "primary" /\ item.role = "featured"
                                  THEN [@ EXCEPT !.new = new] ELSE [item EXCEPT !.new = new]]

\* What is stored when a transaction begins, and that it has no candidate yet.
Database == [rows |-> rows, evidence |-> evidence, credits |-> credits, saved |-> << >>]

Save(db, r) ==
  LET found == RowOf(db, r)
      i     == IF found = {} THEN Len(db.rows) + 1 ELSE CHOOSE x \in found : TRUE
      row   == IF found = {} THEN NewRow(r) ELSE UpdatedRow(db.rows[i], r)
      added == CreditsOf(r, i) \ db.credits
  IN  [rows     |-> IF found = {} THEN Append(db.rows, row) ELSE [db.rows EXCEPT ![i] = row],
       evidence |-> Observe(db, r, i),
       credits  |-> db.credits \cup added,
       saved    |-> Noted(db.saved,
                      [provider |-> r.provider, row |-> i, role |-> r.role,
                       new |-> found = {} \/ \E c \in added : c[4] # "primary",
                       day |-> row.day, precision |-> row.precision])]

-----------------------------------------------------------------------------
(* Conflicts between what the providers say.                               *)

\* The latest record of each provider about a row, the first of several.
Latest(seen, i) ==
  {e.of : e \in {x \in seen : x.row = i /\ \A y \in seen :
                   y.row = i /\ y.of.provider = x.of.provider =>
                     y.at < x.at \/ (y.at = x.at /\ x.of.id <= y.of.id)}}

DatesAgree(a, b) ==
  \/ 0 \in {a.precision, b.precision}
  \/ /\ {a.precision, b.precision} = {3} /\ Apart(a.day, b.day) <= Tolerance
  \/ /\ 2 \in {a.precision, b.precision} /\ a.day \div Month = b.day \div Month

Conflicts(seen, i) ==
  LET said == Latest(seen, i)
      titles == {Normal[r.title] : r \in said} \ {""}
  IN  IF Cardinality({r.provider : r \in said}) < 2 THEN {}
      ELSE {<<i, t>> : t \in
             {u \in {"date", "title", "type", "missing"} :
                \/ u = "date" /\ \E a \in said, b \in said : a.provider # b.provider /\ ~DatesAgree(a, b)
                \/ u = "title" /\ Cardinality(titles) > 1
                \/ u = "type" /\ Cardinality({r.type : r \in said}) > 1
                \/ u = "missing" /\ \A r \in said : r.provider # "musicbrainz"}}

-----------------------------------------------------------------------------
(* What the follower is told.                                              *)

\* The first release to come, or else the last one there was.
Initial(saved) ==
  LET dated    == {k \in DOMAIN saved : saved[k].precision # 0}
      upcoming == {k \in dated : saved[k].day > today}
      best     == IF upcoming # {} THEN {k \in upcoming : \A j \in upcoming : saved[k].day <= saved[j].day}
                  ELSE {k \in dated : \A j \in dated : saved[k].day >= saved[j].day}
  IN  {<<saved[k].row, IF saved[k].precision = 3 /\ saved[k].day = today
                         THEN "release_day" ELSE "announcement">> : k \in best}

\* A release is news for a week, and since the last check if that is longer ago.
Cutoff == IF checked # Never /\ checked < today - NewsDays THEN checked ELSE today - NewsDays

Announced(saved) ==
  {<<saved[k].row, "announcement">> : k \in
     {j \in DOMAIN saved : /\ saved[j].provider = "spotify" => follow.spotify
                           /\ saved[j].new /\ saved[j].precision = 3 /\ saved[j].day >= Cutoff}}

\* A follower without a baseline hears of one release, others of what is new.
Told(saved) ==
  IF follow.all THEN {Announced(saved)}
  ELSE IF Initial(saved) = {} THEN {{}} ELSE {{e} : e \in Initial(saved)}

\* One batch per provider; the order of the batches is that of the records.
ApplyBatches(records) ==
  LET done == FoldLeft(Save, Database, records)
  IN  /\ syncs < MaxSyncs /\ syncs' = syncs + 1
      /\ rows' = done.rows /\ evidence' = done.evidence /\ credits' = done.credits
      /\ issues' = UNION {Conflicts(done.evidence, i) : i \in DOMAIN done.rows}
      /\ \E told \in Told(done.saved) : events' = events \cup told
      /\ follow' = [all |-> TRUE,
                    spotify |-> follow.spotify \/ \E k \in DOMAIN records : records[k].provider = "spotify"]
      /\ checked' = today /\ UNCHANGED today

MergeTick ==
  /\ today < MaxDay /\ today' = today + NewsDays
  /\ UNCHANGED <<rows, evidence, credits, issues, follow, events, checked, syncs>>

\* What one observation may bring: records of one provider, none twice, or a
\* truncated catalogue of iTunes followed by MusicBrainz.
Batches ==
  {b \in BoundedSeq(Shown, MaxRecords) :
     /\ b # << >>
     /\ \A j, k \in DOMAIN b : j < k =>
          \/ b[j].provider = b[k].provider /\ b[j].id # b[k].id
          \/ b[j].provider = "itunes" /\ b[k].provider = "musicbrainz"}

MergeNext == MergeTick \/ \E b \in Batches : ApplyBatches(b)

MergeSpec == MergeInit /\ [][MergeNext]_mergeVars

-----------------------------------------------------------------------------
(* Properties.                                                             *)

GroupRecords(i) == {e.of : e \in {x \in evidence : x.row = i /\ x.of.provider = "musicbrainz"}}

\* A row is at most one release group of MusicBrainz, however alike two groups
\* are and whichever provider showed them first; and it then reads as MusicBrainz
\* has it, whatever Spotify and iTunes say later.
CanonicalRows ==
  \A i \in DOMAIN rows :
    /\ Cardinality({r.id : r \in GroupRecords(i)}) <= 1
    /\ \A r \in GroupRecords(i) : rows[i].mbid = r.id /\ rows[i].title = r.title /\ rows[i].type = r.type

Synchronizes == syncs' # syncs
Fresh == {e.of : e \in {x \in evidence' : x.at = syncs}}

\* What a provider calls one release stays one row: no later record, by whatever
\* likeness, moves an id to another row.
IdentitiesStay ==
  \A e \in evidence, f \in evidence' :
    e.of.provider = f.of.provider /\ e.of.id = f.of.id => e.row = f.row

\* A row that appears, recent and fully dated, is announced to a follower with
\* baselines, although its records may come several at a time.
NewIsAnnounced ==
  follow.all /\ follow.spotify =>
    \A i \in DOMAIN rows' \ DOMAIN rows :
      (\A f \in {x \in evidence' : x.row = i} : f.of.precision = 3 /\ f.of.day >= Cutoff) =>
        <<i, "announcement">> \in events'

\* Showing again what was shown before is no news.
OldIsNoNews ==
  follow.all /\ Fresh \subseteq {e.of : e \in evidence} => events' = events

\* A record that joins the row of another provider, because the two are alike,
\* raises no conflict of dates with it: as long as the row has the date which that
\* provider last gave it, and nothing else joins the row at the same time.
Joining(i) == {e.of : e \in {x \in evidence' : x.row = i /\ x.at = syncs}}
ShownOnlyBy(p, i) == \A e \in evidence : e.row = i => e.of.provider = p
MergesAgree ==
  \A i \in DOMAIN rows : \A a \in Latest(evidence, i), b \in Joining(i) :
    ShownOnlyBy(a.provider, i) /\ Joining(i) = {b} /\ b.provider # a.provider =>
      (rows[i].day = a.day /\ rows[i].precision = a.precision => <<i, "date">> \notin issues')

\* What a synchronization does with the identity of releases and with news, and
\* what the rows are afterwards.
SyncsAreSound ==
  /\ []CanonicalRows
  /\ [][Synchronizes => IdentitiesStay /\ NewIsAnnounced /\ OldIsNoNews /\ MergesAgree]_mergeVars

-----------------------------------------------------------------------------
(* Why they hold: the inductive invariant of CatalogProofs, about what is   *)
(* stored before and after each record of a synchronization.               *)

RowStates ==
  [mbid : Nat, spotify : Nat, itunes : Nat, source : Providers \cup {"both"}, title : Titles,
   type : Types, day : Nat, precision : Precisions, role : Roles]
Candidates ==
  [provider : Providers, row : Nat, role : Roles, new : BOOLEAN, day : Nat, precision : Precisions]
Databases ==
  [rows : Seq(RowStates), evidence : SUBSET [of : Shown, row : Nat, at : Nat],
   credits : SUBSET (Nat \X Providers \X Nat \X (Roles \cup {"guest"})), saved : Seq(Candidates)]

\* What is observed is observed once, of a row there is; of candidates too.
EvidenceIsOne(db) ==
  /\ \A e \in db.evidence : e.row \in DOMAIN db.rows /\ e.at <= syncs
  /\ \A e, f \in db.evidence : e.of.provider = f.of.provider /\ e.of.id = f.of.id => e = f
  /\ \A k \in DOMAIN db.saved : db.saved[k].row \in DOMAIN db.rows

\* A claimed row reads as the one release group that claims it, and a mark of
\* Spotify or iTunes on a row was put there by a record of theirs.
ClaimsAreShown(db) ==
  /\ \A e \in db.evidence : e.of.provider = "musicbrainz" =>
       /\ db.rows[e.row].mbid = e.of.id
       /\ db.rows[e.row].title = e.of.title /\ db.rows[e.row].type = e.of.type
  /\ \A i \in DOMAIN db.rows : Claimed(db.rows[i]) =>
       /\ db.rows[i].source \in {"musicbrainz", "both"}
       /\ \E e \in db.evidence : e.row = i /\ e.of.provider = "musicbrainz"
  /\ \A i, j \in DOMAIN db.rows : Claimed(db.rows[i]) /\ db.rows[i].mbid = db.rows[j].mbid => i = j
MarksAreShown(db) ==
  \A i \in DOMAIN db.rows, p \in {"spotify", "itunes"} :
    db.rows[i][p] # 0 => \E e \in db.evidence : e.row = i /\ e.of.provider = p

\* Every credit a record shows is kept.
CreditsAreStored(db) == \A e \in db.evidence : CreditsOf(e.of, e.row) \subseteq db.credits

Coherent(db) ==
  /\ db \in Databases /\ EvidenceIsOne(db) /\ ClaimsAreShown(db) /\ MarksAreShown(db)
  /\ CreditsAreStored(db)

MergeIInv ==
  /\ Coherent(Database) /\ \A e \in evidence : e.at < syncs
  /\ today \in Nat /\ checked \in Nat \cup {Never} /\ syncs \in 0 .. MaxSyncs
  /\ follow \in [all : BOOLEAN, spotify : BOOLEAN]
=============================================================================
