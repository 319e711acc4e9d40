---------------------------- MODULE StorageProofs ----------------------------
(***************************************************************************)
(* Proofs about what the program keeps on disk: Migrations, for any number *)
(* of processes, releases and migrations, any retention of at least one    *)
(* copy, and any number of starts; and Artwork, for any number of pages,   *)
(* covers, fetches and slots, and any limits of the circuit and the files. *)
(***************************************************************************)
EXTENDS Migrations, Artwork, FiniteSetTheorems, TLAPS

-----------------------------------------------------------------------------
(* Schema migrations.                                                      *)

USE MigrationsAssumption

LEMMA NewestIsHighest ==
  /\ Newest \in Nat
  /\ \A r \in DOMAIN Releases : Releases[r] <= Newest
<1> DEFINE Highest == {Releases[r] : r \in DOMAIN Releases}
<1>1. \E n \in Highest : \A r \in DOMAIN Releases : Releases[r] <= n
  OBVIOUS
<1>2. Newest \in Highest /\ \A r \in DOMAIN Releases : Releases[r] <= Newest
  BY <1>1 DEF Newest
<1> QED BY <1>2

LEMMA ReleaseVersionsAreVersions ==
  \A r \in DOMAIN Releases : Upto(Releases[r]) \subseteq Versions
BY NewestIsHighest DEF Upto, Versions

\* A file that only reserves its name holds no release's schema.
LEMMA NothingIsIncomplete == {} \notin Complete /\ \A S \in Complete : 1 \in S
BY DEF Complete, Upto

LEMMA InitMigrations == MigrationsInit => MigrationsIInv
<1> SUFFICES ASSUME MigrationsInit PROVE MigrationsIInv OBVIOUS
<1>1. MigrationsTypeOK
  BY NewestIsHighest DEF MigrationsInit, MigrationsTypeOK, Versions, Upto, At, Down
<1>2. MigrationsRunOnce
  BY NewestIsHighest DEF MigrationsInit, MigrationsRunOnce, Versions, Upto
<1>3. StartsAgree
  BY DEF MigrationsInit, StartsAgree, Live, At, Down
<1>4. CopiedBeforeChanged
  BY NothingIsIncomplete DEF MigrationsInit, CopiedBeforeChanged, Owes, Live, At, Down
<1> QED BY <1>1, <1>2, <1>3, <1>4 DEF MigrationsIInv

-----------------------------------------------------------------------------
(* One lemma per action.                                                   *)

LEMMA MigrateKeeps ==
  ASSUME MigrationsIInv, NEW p \in Openers, NEW release \in DOMAIN Releases, Migrate(p, release)
  PROVE  MigrationsIInv'
<1> DEFINE pending == Upto(Releases[release]) \ recorded
           record == [stage |-> IF recorded # {} /\ pending # {} THEN "copying" ELSE "migrating",
                      release |-> release, pending |-> pending, at |-> 0, copy |-> {}]
<1> USE DEF MigrationsIInv
<1>1. UNCHANGED <<recorded, bodies, snapshots, copies>> /\ started' \in 0 .. MaxStarts
  BY DEF Migrate, MigrationsTypeOK
<1>2. MigrationsRunOnce'
  BY <1>1 DEF MigrationsRunOnce
<1>3. CASE UNCHANGED start
  BY <1>1, <1>2, <1>3 DEF MigrationsTypeOK, StartsAgree, CopiedBeforeChanged, At, Live, Owes, Target, Undoable
<1>4. CASE start' = [start EXCEPT ![p] = record] /\ ~SchemaAhead(release)
  <2>1. record \in StartRecords /\ pending \subseteq Versions
    BY ReleaseVersionsAreVersions DEF StartRecords
  <2>2. start' \in [Openers -> StartRecords \cup {Down}] /\ start'[p] = record
        /\ \A q \in Openers \ {p} : start'[q] = start[q]
    BY <1>4, <2>1 DEF StartsAgree
  <2>3. MigrationsTypeOK'
    BY <1>1, <2>1, <2>2 DEF MigrationsTypeOK, At
  <2>4. \A q \in Openers : Live(q) => start[q].release = release
    BY DEF Migrate, NoOtherRelease, Live
  <2>5. \A q \in Openers : Live(q)' => start'[q].release = release
    BY <2>2, <2>4 DEF Live, At
  <2>6. recorded \subseteq Upto(Releases[release])
    BY <1>4, NewestIsHighest DEF SchemaAhead, Upto, MigrationsTypeOK, Versions
  <2>7. StartsAgree'
    BY <1>1, <2>2, <2>5, <2>6 DEF StartsAgree, Live, At, Target
  <2>8. CopiedBeforeChanged'
    BY <1>1, <2>2 DEF CopiedBeforeChanged, Owes, Live, At, Undoable
  <2> QED BY <1>2, <2>3, <2>7, <2>8
<1> QED BY <1>3, <1>4 DEF Migrate

\* The updates that the other actions share: a start that goes on with another
\* stage of its own record, and one that ends.
LEMMA GoesOn ==
  ASSUME MigrationsIInv, NEW p \in Openers, NEW stage \in {"reserved", "migrating", "pruning", "serving"},
         Live(p), Goes(p, stage)
  PROVE  /\ start' \in [Openers -> StartRecords \cup {Down}]
         /\ \A q \in Openers \ {p} : start'[q] = start[q]
         /\ start[p] \in StartRecords /\ start'[p] \in StartRecords
         /\ start'[p].stage = stage
         /\ start'[p].release = start[p].release /\ start'[p].pending = start[p].pending
         /\ start'[p].at = start[p].at /\ start'[p].copy = start[p].copy
<1>1. start \in [Openers -> StartRecords \cup {Down}] /\ start[p] \in StartRecords
  BY DEF MigrationsIInv, StartsAgree, Live, At, Down
<1> QED BY <1>1 DEF Goes, StartRecords

LEMMA StopKeeps ==
  ASSUME MigrationsIInv, NEW p \in Openers, Fails(p),
         UNCHANGED <<recorded, bodies, snapshots, started, copies>>
  PROVE  MigrationsIInv'
<1> USE DEF MigrationsIInv
<1>1. /\ start' \in [Openers -> StartRecords \cup {Down}] /\ start'[p] = Down
      /\ \A q \in Openers \ {p} : start'[q] = start[q]
  BY DEF Fails, StartsAgree
<1>2. MigrationsTypeOK' /\ MigrationsRunOnce'
  BY <1>1 DEF MigrationsTypeOK, MigrationsRunOnce, At, Down
<1>3. StartsAgree'
  BY <1>1 DEF StartsAgree, Live, At, Target, Down
<1>4. CopiedBeforeChanged'
  BY <1>1 DEF CopiedBeforeChanged, Owes, Live, At, Undoable, Down
<1> QED BY <1>2, <1>3, <1>4

-----------------------------------------------------------------------------
(* The actions.                                                            *)

LEMMA CopiedIsRecord ==
  ASSUME NEW r \in StartRecords, NEW S \in SUBSET Versions, NEW n \in Nat
  PROVE  [r EXCEPT !.stage = "copied", !.copy = S, !.at = n] \in StartRecords
BY DEF StartRecords

LEMMA CopyDatabaseKeeps ==
  ASSUME MigrationsIInv, NEW p \in Openers, CopyDatabase(p)
  PROVE  MigrationsIInv'
<1> USE DEF MigrationsIInv
<1>1. start \in [Openers -> StartRecords \cup {Down}] /\ start[p] \in StartRecords
      /\ recorded \subseteq Versions /\ copies \in Nat
  BY DEF CopyDatabase, StartsAgree, MigrationsTypeOK, At, Down
<1>2. /\ start' \in [Openers -> StartRecords \cup {Down}]
      /\ \A q \in Openers \ {p} : start'[q] = start[q]
      /\ start'[p] \in StartRecords /\ start'[p].stage = "copied"
      /\ start'[p].release = start[p].release /\ start'[p].pending = start[p].pending
      /\ start'[p].at = copies + 1 /\ start'[p].copy = recorded
  <2> DEFINE copied == [start[p] EXCEPT !.stage = "copied", !.copy = recorded, !.at = copies + 1]
  <2>1. start' = [start EXCEPT ![p] = copied]
    BY DEF CopyDatabase
  <2>a. copies + 1 \in Nat
    BY <1>1
  <2>2. copied \in StartRecords
    BY <1>1, <2>a, CopiedIsRecord
  <2>3. /\ copied.stage = "copied" /\ copied.at = copies + 1 /\ copied.copy = recorded
        /\ copied.release = start[p].release /\ copied.pending = start[p].pending
    BY <1>1 DEF StartRecords
  <2> HIDE DEF copied
  <2> QED BY <1>1, <2>1, <2>2, <2>3
<1>3. UNCHANGED <<recorded, bodies, snapshots, started>> /\ copies' = copies + 1
  BY DEF CopyDatabase
<1>4. MigrationsTypeOK' /\ MigrationsRunOnce'
  BY <1>1, <1>2, <1>3 DEF MigrationsTypeOK, MigrationsRunOnce, StartRecords, At
<1>5. StartsAgree'
  BY <1>1, <1>2, <1>3 DEF StartsAgree, StartRecords, CopyDatabase, Live, At, Target
<1>6. CopiedBeforeChanged'
  BY <1>1, <1>2, <1>3 DEF CopiedBeforeChanged, CopyDatabase, StartRecords, Owes, Live, At, Undoable
<1> QED BY <1>4, <1>5, <1>6

LEMMA ReserveNameKeeps ==
  ASSUME MigrationsIInv, NEW p \in Openers, ReserveName(p)
  PROVE  MigrationsIInv'
<1> USE DEF MigrationsIInv
<1>1. Live(p) /\ At(p, "copied") /\ Goes(p, "reserved")
  BY DEF ReserveName, Live, At
<1>2. /\ UNCHANGED <<recorded, bodies, started, copies>>
      /\ snapshots' = snapshots \cup {[holds |-> {}, at |-> start[p].at]}
  BY DEF ReserveName
<1>3. start[p].at \in 1 .. copies
  BY <1>1 DEF StartsAgree
<1>4. MigrationsTypeOK' /\ MigrationsRunOnce'
  BY <1>1, <1>2, <1>3, GoesOn DEF MigrationsTypeOK, MigrationsRunOnce, StartRecords, At
<1>5. StartsAgree'
  BY <1>1, <1>2, <1>3, GoesOn DEF StartsAgree, Live, At, Target
<1>6. CopiedBeforeChanged'
  BY <1>1, <1>2, GoesOn DEF CopiedBeforeChanged, Owes, Live, At, Undoable
<1> QED BY <1>4, <1>5, <1>6

LEMMA PublishSnapshotKeeps ==
  ASSUME MigrationsIInv, NEW p \in Openers, PublishSnapshot(p)
  PROVE  MigrationsIInv'
<1> USE DEF MigrationsIInv
<1> DEFINE empty == [holds |-> {}, at |-> start[p].at]
           copy == [holds |-> start[p].copy, at |-> start[p].at]
<1>1. Live(p) /\ At(p, "reserved") /\ Goes(p, "migrating")
  BY DEF PublishSnapshot, Live, At
<1>2. /\ UNCHANGED <<recorded, bodies, started, copies>>
      /\ snapshots' = (snapshots \ {empty}) \cup {copy}
  BY DEF PublishSnapshot, Published
<1>3. start[p].at \in 1 .. copies /\ start[p].copy \subseteq Versions
  BY <1>1, GoesOn DEF StartsAgree, StartRecords
<1>4. MigrationsTypeOK' /\ MigrationsRunOnce'
  BY <1>1, <1>2, <1>3, GoesOn DEF MigrationsTypeOK, MigrationsRunOnce, StartRecords, At
<1>5. StartsAgree'
  BY <1>1, <1>2, <1>3, GoesOn DEF StartsAgree, Live, At, Target
<1>6. (Undoable \/ copy.holds \in Complete) => Undoable'
  <2>1. copy.holds \in Complete => Undoable'
    BY <1>2 DEF Undoable
  <2>2. ASSUME NEW s \in snapshots, s.holds \in Complete PROVE s \in snapshots'
    BY <1>2, <2>2, NothingIsIncomplete
  <2> QED BY <2>1, <2>2 DEF Undoable
<1>7. CopiedBeforeChanged'
  BY <1>1, <1>2, <1>6, GoesOn DEF CopiedBeforeChanged, Owes, Live, At
<1> QED BY <1>4, <1>5, <1>7

LEMMA ApplyMigrationKeeps ==
  ASSUME MigrationsIInv, NEW p \in Openers, NEW v \in Versions, ApplyMigration(p, v)
  PROVE  MigrationsIInv'
<1> USE DEF MigrationsIInv
<1>1. CASE v \in recorded
  BY <1>1, StopKeeps DEF ApplyMigration
<1>2. CASE v \notin recorded
  <2>1. /\ recorded' = recorded \cup {v} /\ bodies' = [bodies EXCEPT ![v] = bodies[v] + 1]
        /\ UNCHANGED <<snapshots, started, copies>>
        /\ start' = [start EXCEPT ![p].pending = start[p].pending \ {v}]
        /\ At(p, "migrating") /\ v \in start[p].pending /\ Live(p)
    BY <1>2 DEF ApplyMigration, NextMigration, Live, At
  <2>2. start \in [Openers -> StartRecords \cup {Down}] /\ start[p] \in StartRecords
    BY <2>1 DEF StartsAgree, At, Down
  <2>3. /\ start' \in [Openers -> StartRecords \cup {Down}]
        /\ \A q \in Openers \ {p} : start'[q] = start[q]
        /\ start'[p] \in StartRecords /\ start'[p].stage = start[p].stage
        /\ start'[p].release = start[p].release /\ start'[p].pending = start[p].pending \ {v}
        /\ start'[p].at = start[p].at /\ start'[p].copy = start[p].copy
    BY <2>1, <2>2 DEF StartRecords
  <2>4. bodies[v] = 0 /\ bodies' \in [Versions -> 0 .. 1]
    BY <1>2, <2>1 DEF MigrationsRunOnce, MigrationsTypeOK
  <2>5. MigrationsTypeOK'
    BY <2>1, <2>3, <2>4 DEF MigrationsTypeOK, StartRecords, At
  <2>6. MigrationsRunOnce'
    BY <2>1, <2>4 DEF MigrationsRunOnce, MigrationsTypeOK
  <2>7. v \in Target(p)
    BY <2>1 DEF StartsAgree
  <2>8. \A q \in Openers : Live(q) => v \in Target(q)
    BY <2>1, <2>7 DEF StartsAgree, Target
  <2>9. StartsAgree'
    BY <2>1, <2>3, <2>8 DEF StartsAgree, Live, At, Target
  <2>10. Upto(Installed) \in Complete => Undoable
    BY <1>2, <2>1 DEF CopiedBeforeChanged, Owes
  <2>11. CopiedBeforeChanged'
    BY <2>1, <2>10 DEF CopiedBeforeChanged, Undoable
  <2> QED BY <2>5, <2>6, <2>9, <2>11
<1> QED BY <1>1, <1>2

LEMMA VerifySchemaKeeps ==
  ASSUME MigrationsIInv, NEW p \in Openers, VerifySchema(p)
  PROVE  MigrationsIInv'
<1> USE DEF MigrationsIInv
<1>1. CASE Fails(p)
  BY <1>1, StopKeeps DEF VerifySchema
<1>2. CASE Goes(p, "pruning")
  <2>1. Live(p) /\ start[p].pending = {} /\ UNCHANGED <<recorded, bodies, snapshots, started, copies>>
    BY DEF VerifySchema, Live, At
  <2>2. MigrationsTypeOK' /\ MigrationsRunOnce'
    BY <1>2, <2>1, GoesOn DEF MigrationsTypeOK, MigrationsRunOnce, StartRecords, At
  <2>3. StartsAgree'
    BY <1>2, <2>1, GoesOn DEF StartsAgree, Live, At, Target
  <2>4. CopiedBeforeChanged'
    BY <1>2, <2>1, GoesOn DEF CopiedBeforeChanged, Owes, Live, At, Undoable
  <2> QED BY <2>2, <2>3, <2>4
<1> QED BY <1>1, <1>2 DEF VerifySchema

\* Who prunes has applied everything of its release, so nobody beside it has
\* anything to apply and the database is whole: no copy is needed any more.
LEMMA PruneMigrationSnapshotsKeeps ==
  ASSUME MigrationsIInv, NEW p \in Openers, PruneMigrationSnapshots(p)
  PROVE  MigrationsIInv'
<1> USE DEF MigrationsIInv
<1>1. Live(p) /\ At(p, "pruning") /\ UNCHANGED <<recorded, bodies, started, copies>>
  BY DEF PruneMigrationSnapshots, Live, At
<1>2. snapshots' \subseteq snapshots
  BY DEF PruneMigrationSnapshots, Kept
<1>3. start[p].pending = {} /\ recorded = Target(p)
  BY <1>1 DEF StartsAgree
<1>4. start[p] \in StartRecords /\ recorded \in Complete
  BY <1>1, <1>3 DEF StartsAgree, StartRecords, Live, At, Down, Target, Complete
<1>5. \A q \in Openers : ~Owes(q)
  BY <1>1, <1>3 DEF StartsAgree, Owes, Target
<1>6. CASE Goes(p, "serving")
  <2>1. MigrationsTypeOK' /\ MigrationsRunOnce'
    BY <1>1, <1>2, <1>6, GoesOn DEF MigrationsTypeOK, MigrationsRunOnce, StartRecords, At
  <2>2. StartsAgree'
    BY <1>1, <1>6, GoesOn DEF StartsAgree, Live, At, Target
  <2>3. CopiedBeforeChanged'
    BY <1>1, <1>4, <1>5, <1>6, GoesOn DEF CopiedBeforeChanged, Owes, Live, At
  <2> QED BY <2>1, <2>2, <2>3
<1>7. CASE Fails(p)
  <2>1. /\ start' \in [Openers -> StartRecords \cup {Down}] /\ start'[p] = Down
        /\ \A q \in Openers \ {p} : start'[q] = start[q]
    BY <1>7 DEF Fails, StartsAgree
  <2>2. MigrationsTypeOK' /\ MigrationsRunOnce'
    BY <1>1, <1>2, <2>1 DEF MigrationsTypeOK, MigrationsRunOnce, At, Down
  <2>3. StartsAgree'
    BY <1>1, <2>1 DEF StartsAgree, Live, At, Target, Down
  <2>4. CopiedBeforeChanged'
    BY <1>1, <1>4, <1>5, <2>1 DEF CopiedBeforeChanged, Owes, Live, At, Down
  <2> QED BY <2>2, <2>3, <2>4
<1> QED BY <1>6, <1>7 DEF PruneMigrationSnapshots

-----------------------------------------------------------------------------
(* The theorems.                                                           *)

LEMMA NextMigrations == MigrationsIInv /\ [MigrationsNext]_migrationVars => MigrationsIInv'
<1> SUFFICES ASSUME MigrationsIInv, [MigrationsNext]_migrationVars PROVE MigrationsIInv'
  OBVIOUS
<1>1. CASE MigrationsNext
  <2>1. PICK p \in Openers :
          \/ \E release \in DOMAIN Releases : Migrate(p, release)
          \/ CopyDatabase(p) \/ ReserveName(p) \/ PublishSnapshot(p)
          \/ \E v \in Versions : ApplyMigration(p, v)
          \/ VerifySchema(p) \/ PruneMigrationSnapshots(p) \/ StartEnds(p)
    BY <1>1 DEF MigrationsNext
  <2>2. CASE StartEnds(p)
    BY <2>2, StopKeeps DEF StartEnds
  <2> QED BY <2>1, <2>2, MigrateKeeps, CopyDatabaseKeeps, ReserveNameKeeps, PublishSnapshotKeeps,
             ApplyMigrationKeeps, VerifySchemaKeeps, PruneMigrationSnapshotsKeeps
<1>2. CASE UNCHANGED migrationVars
  BY <1>2 DEF migrationVars, MigrationsIInv, MigrationsTypeOK, MigrationsRunOnce, StartsAgree,
     CopiedBeforeChanged, Undoable, Owes, Live, At, Target
<1> QED BY <1>1, <1>2

\* What is known of the database and the starts in every state.
THEOREM MigrationsInvariance == MigrationsSpec => []MigrationsIInv
BY InitMigrations, NextMigrations, PTL DEF MigrationsSpec

\* However often and wherever an upgrade stops, also with several starts at a
\* time, a copy that some release can serve is there as long as the database
\* is not, and no migration takes effect twice or without its record.
THEOREM UpgradesAreSafe == MigrationsSpec => []UpgradesAreSound
<1>1. MigrationsIInv => UpgradesAreSound
  BY DEF MigrationsIInv, UpgradesAreSound, CopiedBeforeChanged, UpgradeCanBeUndone
<1> QED BY <1>1, MigrationsInvariance, PTL

HIDE MigrationsAssumption

-----------------------------------------------------------------------------
(* The artwork cache.                                                      *)

USE ArtworkAssumption DEF ArtworkAssumption

-----------------------------------------------------------------------------
(* The invariant in the parts that actions disturb.                        *)

FilesTyped ==
  file \in [Files -> {"fresh", "stale", "none"}] /\ listed \subseteq Files \X {"fresh", "stale"}
CircuitTyped == failures \in 0 .. OpensAt /\ openFor \in 0 .. LongestOpen
SlotsHeld == Cardinality(Requesting) <= FetchSlots
Sharing ==
  /\ page \in [Pages -> PageStates] /\ fetch \in [Fetches -> FetchStates]
  /\ inflight \in [ReleaseGroups -> Fetches \cup {0}]
  /\ OneFetchEach /\ StayersAreServed /\ InflightIsExact

LEMMA Parts ==
  ArtworkIInv <=> FilesTyped /\ CircuitTyped /\ SlotsHeld /\ gets \in 0 .. MaxGets /\ Sharing
<1>1. ASSUME Sharing
      PROVE  /\ \A p \in Pages : page[p].stage \in {"away", "given"} \/ page[p].cover \in ReleaseGroups
             /\ \A x \in Fetches : Running(x) => fetch[x].stage \in {"begun", "queued", "requesting"}
  <2>1. ASSUME NEW p \in Pages
        PROVE  page[p].stage \in {"away", "given"} \/ page[p].cover \in ReleaseGroups
    <3>1. page[p] \in PageStates
      BY <1>1 DEF Sharing
    <3> QED BY <3>1 DEF PageStates, Away
  <2>2. ASSUME NEW x \in Fetches, Running(x)
        PROVE  fetch[x].stage \in {"begun", "queued", "requesting"}
    <3>1. fetch[x] \in FetchStates /\ fetch[x].stage # "unused"
      BY <1>1, <2>2 DEF Sharing, Running
    <3> QED BY <3>1 DEF FetchStates, Unused
  <2> QED BY <2>1, <2>2
<1> QED BY <1>1 DEF ArtworkIInv, CoversAreShared, ArtworkTypeOK, FilesTyped, CircuitTyped, SlotsHeld, Sharing

LEMMA PartsAfter ==
  (FilesTyped /\ CircuitTyped /\ SlotsHeld /\ gets \in 0 .. MaxGets /\ Sharing)' => ArtworkIInv'
<1>1. FilesTyped /\ CircuitTyped /\ SlotsHeld /\ gets \in 0 .. MaxGets /\ Sharing => ArtworkIInv
  BY Parts
<1> QED BY <1>1, PTL

LEMMA FilesOfCover == \A c \in ReleaseGroups : Image(c) \in Files /\ Missing(c) \in Files
BY DEF Image, Missing, Files

\* A fetch that is not idle is a whole record.
LEMMA RunningIsWhole ==
  ASSUME Sharing, NEW x \in Fetches, fetch[x].stage \in {"begun", "queued", "requesting"}
  PROVE  Running(x) /\ fetch[x].cover \in ReleaseGroups /\ fetch[x].picture \in BOOLEAN
         /\ fetch[x] \in [stage : {"begun", "queued", "requesting"}, cover : ReleaseGroups,
                          by : Pages, picture : BOOLEAN]
BY DEF Sharing, FetchStates, Running, Unused

-----------------------------------------------------------------------------
(* Slots.                                                                  *)

LEMMA SlotsAreCounted ==
  IsFiniteSet(Requesting) /\ Cardinality(Requesting) \in Nat
<1>1. Requesting \subseteq Fetches
  BY DEF Requesting
<1> QED BY <1>1, FS_Subset, FS_CardinalityType

LEMMA OneMore ==
  ASSUME NEW S, IsFiniteSet(S), NEW x
  PROVE  Cardinality(S \cup {x}) \in Nat /\ Cardinality(S \cup {x}) <= Cardinality(S) + 1
<1>1. /\ IsFiniteSet(S \cup {x})
      /\ Cardinality(S \cup {x}) = IF x \in S THEN Cardinality(S) ELSE Cardinality(S) + 1
  BY FS_AddElement
<1>2. Cardinality(S) \in Nat
  BY FS_CardinalityType
<1> QED BY <1>1, <1>2

LEMMA FewerSlots == ASSUME SlotsHeld, Requesting' \subseteq Requesting PROVE SlotsHeld'
<1>1. Cardinality(Requesting') <= Cardinality(Requesting) /\ Cardinality(Requesting') \in Nat
  BY SlotsAreCounted, FS_Subset, FS_CardinalityType
<1> QED BY <1>1, SlotsAreCounted DEF SlotsHeld

LEMMA InitArtwork == ArtworkInit => ArtworkIInv
<1> SUFFICES ASSUME ArtworkInit PROVE ArtworkIInv OBVIOUS
<1>1. Requesting = {}
  BY DEF ArtworkInit, Requesting, Unused
<1>2. SlotsHeld
  BY <1>1, FS_EmptySet DEF SlotsHeld
<1>3. FilesTyped /\ CircuitTyped /\ gets \in 0 .. MaxGets
  BY DEF ArtworkInit, FilesTyped, CircuitTyped
<1>4. Sharing
  BY DEF ArtworkInit, Sharing, PageStates, FetchStates, OneFetchEach, StayersAreServed,
     InflightIsExact, Running, Away, Unused
<1> QED BY <1>2, <1>3, <1>4, Parts

-----------------------------------------------------------------------------
(* What the actions do to pages and fetches.                               *)

\* A page that is answered, or goes on to the lock, waits for nothing.
LEMMA PageMoves ==
  ASSUME Sharing, NEW p \in Pages, NEW s \in PageStates, s.stage # "waiting",
         s.stage = "given" /\ ~s.left => s.given # "left",
         page' = [page EXCEPT ![p] = s], UNCHANGED <<fetch, inflight>>
  PROVE  Sharing'
<1>1. page' \in [Pages -> PageStates]
  BY DEF Sharing
<1>2. OneFetchEach'
  BY DEF Sharing, OneFetchEach, Running
<1>3. StayersAreServed'
  BY DEF Sharing, StayersAreServed
<1> QED BY <1>1, <1>2, <1>3 DEF Sharing, InflightIsExact, Running

LEMMA FetchMoves ==
  ASSUME Sharing, NEW x \in Fetches, Running(x), fetch' \in [Fetches -> FetchStates],
         \A y \in Fetches \ {x} : fetch'[y] = fetch[y],
         Running(x)', fetch'[x].cover = fetch[x].cover, UNCHANGED <<page, inflight>>
  PROVE  Sharing'
<1>1. \A y \in Fetches : (Running(y)' <=> Running(y)) /\ fetch'[y].cover = fetch[y].cover
  BY DEF Running
<1>2. \A p \in Pages : page[p].stage = "waiting" => page[p].fetch \in Fetches
  <2> SUFFICES ASSUME NEW p \in Pages, page[p].stage = "waiting" PROVE page[p].fetch \in Fetches
    OBVIOUS
  <2>1. page[p] \in PageStates
    BY DEF Sharing
  <2> QED BY <2>1 DEF PageStates, Away
<1>3. OneFetchEach'
  BY <1>1, <1>2 DEF Sharing, OneFetchEach
<1>4. InflightIsExact'
  <2>1. ASSUME NEW c \in ReleaseGroups, inflight[c] # 0
        PROVE  inflight[c] \in Fetches /\ Running(inflight[c]) /\ fetch[inflight[c]].cover = c
    BY <2>1 DEF Sharing, InflightIsExact
  <2>2. ASSUME NEW y \in Fetches, Running(y) PROVE inflight[fetch[y].cover] = y
    BY <2>2 DEF Sharing, InflightIsExact
  <2> QED BY <1>1, <2>1, <2>2 DEF InflightIsExact, Running
<1> QED BY <1>3, <1>4 DEF Sharing, StayersAreServed

LEMMA FetchEnds ==
  ASSUME Sharing, NEW x \in Fetches, Running(x),
         NEW result \in {"picture", "placeholder", "late"}, Ends(x, result)
  PROVE  Sharing' /\ Requesting' \subseteq Requesting
<1>1. /\ fetch' \in [Fetches -> FetchStates] /\ fetch'[x].stage = "unused"
      /\ \A y \in Fetches \ {x} : fetch'[y] = fetch[y]
  BY DEF Ends, Sharing, FetchStates, Unused
<1>2. /\ inflight' \in [ReleaseGroups -> Fetches \cup {0}]
      /\ \A c \in ReleaseGroups : inflight'[c] = IF inflight[c] = x THEN 0 ELSE inflight[c]
  BY DEF Ends, Sharing
<1>3. Given(FALSE, result) \in PageStates
  BY DEF Given, PageStates
<1>4. /\ page' \in [Pages -> PageStates]
      /\ \A p \in Pages : page'[p] = IF page[p].stage = "waiting" /\ page[p].fetch = x
                                    THEN Given(FALSE, result) ELSE page[p]
  BY <1>3 DEF Ends, Sharing
<1>5. OneFetchEach'
  <2>1. ASSUME NEW y \in Fetches, NEW z \in Fetches, Running(y)', Running(z)', fetch'[y].cover = fetch'[z].cover
        PROVE  y = z
    BY <1>1, <2>1 DEF Running, Sharing, OneFetchEach
  <2>2. ASSUME NEW p \in Pages, page'[p].stage = "waiting"
        PROVE  fetch'[page'[p].fetch].stage # "unused" /\ fetch'[page'[p].fetch].cover = page'[p].cover
    <3>1. page'[p] = page[p] /\ page[p].fetch # x
      BY <1>4, <2>2 DEF Given
    <3>2. page[p] \in PageStates
      BY DEF Sharing
    <3>3. page[p].fetch \in Fetches
      BY <2>2, <3>1, <3>2 DEF PageStates, Away
    <3>4. Running(page[p].fetch) /\ fetch[page[p].fetch].cover = page[p].cover
      BY <2>2, <3>1 DEF Sharing, OneFetchEach
    <3>5. fetch'[page[p].fetch] = fetch[page[p].fetch]
      BY <1>1, <3>1, <3>3
    <3> QED BY <3>1, <3>4, <3>5 DEF Running
  <2> QED BY <2>1, <2>2 DEF OneFetchEach, Running
<1>6. StayersAreServed'
  BY <1>4 DEF Sharing, StayersAreServed, Given
<1>7. InflightIsExact'
  <2>1. ASSUME NEW c \in ReleaseGroups, inflight'[c] # 0
        PROVE  fetch'[inflight'[c]].stage # "unused" /\ fetch'[inflight'[c]].cover = c
    <3>1. inflight'[c] = inflight[c] /\ inflight[c] \in Fetches \ {x}
      BY <1>2, <2>1 DEF Sharing
    <3>2. Running(inflight[c]) /\ fetch[inflight[c]].cover = c
      BY <2>1, <3>1 DEF Sharing, InflightIsExact
    <3> QED BY <1>1, <3>1, <3>2 DEF Running
  <2>2. ASSUME NEW y \in Fetches, fetch'[y].stage # "unused"
        PROVE  inflight'[fetch'[y].cover] = y
    <3>1. y # x /\ fetch'[y] = fetch[y] /\ fetch[y].cover \in ReleaseGroups
      BY <1>1, <2>2 DEF Sharing, FetchStates, Unused
    <3> QED BY <1>2, <2>2, <3>1 DEF Sharing, InflightIsExact, Running
  <2> QED BY <2>1, <2>2 DEF InflightIsExact, Running
<1>8. Requesting' \subseteq Requesting
  BY <1>1 DEF Requesting
<1> QED BY <1>1, <1>2, <1>4, <1>5, <1>6, <1>7, <1>8 DEF Sharing

-----------------------------------------------------------------------------
(* The actions.                                                            *)

LEMMA GetCachedKeeps ==
  ASSUME ArtworkIInv, NEW p \in Pages, NEW c \in ReleaseGroups, GetCached(p, c)
  PROVE  ArtworkIInv'
<1> DEFINE answer == IF file[Image(c)] = "fresh" THEN Given(FALSE, "picture")
                     ELSE IF file[Missing(c)] = "fresh" THEN Given(FALSE, "placeholder")
                     ELSE [stage |-> "missed", cover |-> c]
<1>1. answer \in PageStates /\ answer.stage # "waiting"
      /\ (answer.stage = "given" /\ ~answer.left => answer.given # "left")
  BY DEF Given, PageStates
<1>2. page' = [page EXCEPT ![p] = answer] /\ UNCHANGED <<file, fetch, inflight, circuit, listed>>
  BY DEF GetCached
<1>3. Sharing'
  <2> HIDE DEF answer
  <2> QED BY <1>1, <1>2, PageMoves, Parts
<1>4. gets' \in 0 .. MaxGets
  BY Parts DEF GetCached
<1>5. Requesting' = Requesting
  BY <1>2 DEF Requesting
<1> QED BY <1>2, <1>3, <1>4, <1>5, Parts, PartsAfter, FewerSlots DEF FilesTyped, CircuitTyped, circuit

LEMMA LeaveKeeps ==
  ASSUME ArtworkIInv, NEW p \in Pages, Leave(p)
  PROVE  ArtworkIInv'
<1>1. Given(TRUE, "left") \in PageStates /\ Given(TRUE, "left").stage = "given" /\ Given(TRUE, "left").left
  BY DEF Given, PageStates
<1>2. page' = [page EXCEPT ![p] = Given(TRUE, "left")]
      /\ UNCHANGED <<file, gets, fetch, inflight, circuit, listed>>
  BY DEF Leave
<1>3. Sharing'
  BY <1>1, <1>2, PageMoves, Parts
<1>4. Requesting' = Requesting
  BY <1>2 DEF Requesting
<1> QED BY <1>2, <1>3, <1>4, Parts, PartsAfter, FewerSlots DEF FilesTyped, CircuitTyped, circuit

\* The page looks for a call in flight and enters its own under one lock.
LEMMA GetKeeps ==
  ASSUME ArtworkIInv, NEW p \in Pages, NEW x \in Fetches, Get(p, x)
  PROVE  ArtworkIInv'
<1> DEFINE c == page[p].cover
           waiting == [stage |-> "waiting", cover |-> c, fetch |-> x]
<1>1. Sharing
  BY Parts
<1>2. c \in ReleaseGroups
  <2>1. page[p] \in PageStates /\ page[p].stage = "missed"
    BY <1>1 DEF Sharing, Get
  <2> QED BY <2>1 DEF PageStates, Away
<1>3. page' = [page EXCEPT ![p] = waiting] /\ UNCHANGED <<file, gets, circuit, listed>>
  BY DEF Get, Waits
<1>4. page' \in [Pages -> PageStates] /\ page'[p] = waiting /\ \A q \in Pages \ {p} : page'[q] = page[q]
  BY <1>1, <1>2, <1>3 DEF Sharing, PageStates
<1>5. StayersAreServed'
  BY <1>1, <1>4 DEF Sharing, StayersAreServed
<1>6. CASE inflight[c] # 0
  <2>1. x = inflight[c] /\ UNCHANGED <<fetch, inflight>>
    BY <1>6 DEF Get
  <2>2. Running(x) /\ fetch[x].cover = c
    BY <1>1, <1>2, <1>6, <2>1 DEF Sharing, InflightIsExact
  <2>3. OneFetchEach'
    BY <1>1, <1>4, <2>1, <2>2 DEF Sharing, OneFetchEach, Running
  <2>4. InflightIsExact'
    BY <1>1, <2>1 DEF Sharing, InflightIsExact, Running
  <2>5. Requesting' = Requesting
    BY <2>1 DEF Requesting
  <2>6. Sharing'
    BY <1>1, <1>4, <1>5, <2>1, <2>3, <2>4 DEF Sharing
  <2> QED BY <1>3, <2>5, <2>6, Parts, PartsAfter, FewerSlots DEF FilesTyped, CircuitTyped, circuit
<1>7. CASE inflight[c] = 0
  <2> DEFINE begun == [stage |-> "begun", cover |-> c, by |-> p, picture |-> FALSE]
  <2>1. /\ ~Running(x) /\ fetch' = [fetch EXCEPT ![x] = begun]
        /\ inflight' = [inflight EXCEPT ![c] = x]
    BY <1>7 DEF Get, Begin
  <2>2. /\ fetch' \in [Fetches -> FetchStates] /\ fetch'[x] = begun
        /\ \A y \in Fetches \ {x} : fetch'[y] = fetch[y]
    BY <1>1, <1>2, <2>1 DEF Sharing, FetchStates
  <2>3. /\ inflight' \in [ReleaseGroups -> Fetches \cup {0}] /\ inflight'[c] = x
        /\ \A d \in ReleaseGroups \ {c} : inflight'[d] = inflight[d]
    BY <1>1, <1>2, <2>1 DEF Sharing
  <2>4. ASSUME NEW y \in Fetches, fetch'[y].stage # "unused", y # x
        PROVE  Running(y) /\ fetch'[y] = fetch[y] /\ fetch[y].cover # c
    BY <1>1, <1>2, <1>7, <2>2, <2>4 DEF Sharing, InflightIsExact, Running
  <2>5. ASSUME NEW q \in Pages, page'[q].stage = "waiting"
        PROVE  /\ fetch'[page'[q].fetch].stage # "unused"
               /\ fetch'[page'[q].fetch].cover = page'[q].cover
    <3>1. CASE q = p
      BY <1>4, <2>2, <3>1
    <3>2. CASE q # p
      <4>1. page'[q] = page[q] /\ page[q] \in PageStates
        BY <1>1, <1>4, <3>2 DEF Sharing
      <4>2. page[q].fetch \in Fetches
        BY <2>5, <4>1 DEF PageStates, Away
      <4>3. Running(page[q].fetch) /\ fetch[page[q].fetch].cover = page[q].cover
        BY <1>1, <2>5, <4>1 DEF Sharing, OneFetchEach
      <4>4. fetch'[page[q].fetch] = fetch[page[q].fetch]
        BY <2>1, <2>2, <4>2, <4>3
      <4> QED BY <4>1, <4>3, <4>4 DEF Running
    <3> QED BY <3>1, <3>2
  <2>6. OneFetchEach'
    <3>1. ASSUME NEW y \in Fetches, NEW z \in Fetches, fetch'[y].stage # "unused",
                 fetch'[z].stage # "unused", fetch'[y].cover = fetch'[z].cover
          PROVE  y = z
      BY <1>1, <2>2, <2>4, <3>1 DEF Sharing, OneFetchEach
    <3> QED BY <2>5, <3>1 DEF OneFetchEach, Running
  <2>7. InflightIsExact'
    <3>1. ASSUME NEW d \in ReleaseGroups, inflight'[d] # 0
          PROVE  fetch'[inflight'[d]].stage # "unused" /\ fetch'[inflight'[d]].cover = d
      <4>1. CASE d = c
        BY <2>2, <2>3, <4>1
      <4>2. CASE d # c
        <5>1. inflight'[d] = inflight[d] /\ inflight[d] \in Fetches
          BY <1>1, <2>3, <3>1, <4>2 DEF Sharing
        <5>2. Running(inflight[d]) /\ fetch[inflight[d]].cover = d
          BY <1>1, <3>1, <5>1 DEF Sharing, InflightIsExact
        <5> QED BY <2>1, <2>2, <5>1, <5>2 DEF Running
      <4> QED BY <4>1, <4>2
    <3>2. ASSUME NEW y \in Fetches, fetch'[y].stage # "unused"
          PROVE  inflight'[fetch'[y].cover] = y
      <4>1. CASE y = x
        BY <2>2, <2>3, <4>1
      <4>2. CASE y # x
        <5>1. Running(y) /\ fetch'[y] = fetch[y] /\ fetch[y].cover # c
          BY <2>4, <3>2, <4>2
        <5>2. fetch[y].cover \in ReleaseGroups
          <6>1. fetch[y] \in FetchStates
            BY <1>1 DEF Sharing
          <6>2. fetch[y] # Unused
            BY <5>1 DEF Running, Unused
          <6> QED BY <6>1, <6>2 DEF FetchStates
        <5> QED BY <1>1, <2>3, <5>1, <5>2 DEF Sharing, InflightIsExact
      <4> QED BY <4>1, <4>2
    <3> QED BY <3>1, <3>2 DEF InflightIsExact, Running
  <2>8. Requesting' \subseteq Requesting
    <3>1. fetch'[x].stage = "begun"
      BY <2>2
    <3> QED BY <2>2, <3>1 DEF Requesting
  <2>9. Sharing'
    BY <1>4, <1>5, <2>2, <2>3, <2>6, <2>7 DEF Sharing
  <2> QED BY <1>3, <2>8, <2>9, Parts, PartsAfter, FewerSlots DEF FilesTyped, CircuitTyped, circuit
<1> QED BY <1>6, <1>7

\* A fetch that goes on to the next place changes nothing that is shared.
LEMMA StageKeeps ==
  ASSUME Sharing, NEW x \in Fetches, fetch[x].stage \in {"begun", "queued"},
         NEW stage \in {"queued", "requesting"}, NEW picture \in BOOLEAN,
         fetch' = [fetch EXCEPT ![x].stage = stage, ![x].picture = picture],
         UNCHANGED <<page, inflight>>
  PROVE  /\ Sharing' /\ fetch'[x].stage = stage
         /\ \A y \in Fetches \ {x} : fetch'[y] = fetch[y]
<1> DEFINE next == [fetch[x] EXCEPT !.stage = stage, !.picture = picture]
<1>1. Running(x) /\ fetch[x] \in [stage : {"begun", "queued", "requesting"}, cover : ReleaseGroups,
                                   by : Pages, picture : BOOLEAN]
  BY RunningIsWhole
<1>2. /\ next \in [stage : {"begun", "queued", "requesting"}, cover : ReleaseGroups,
                    by : Pages, picture : BOOLEAN]
      /\ next.stage = stage /\ next.cover = fetch[x].cover
  BY <1>1
<1>3. fetch' = [fetch EXCEPT ![x] = next]
  BY DEF Sharing
<1>4. fetch' \in [Fetches -> FetchStates] /\ fetch'[x] = next
      /\ \A y \in Fetches \ {x} : fetch'[y] = fetch[y]
  <2>1. next \in FetchStates
    BY <1>2 DEF FetchStates
  <2>2. fetch \in [Fetches -> FetchStates]
    BY DEF Sharing
  <2> HIDE DEF next
  <2> QED BY <1>3, <2>1, <2>2
<1>5. Running(x)' /\ fetch'[x].cover = fetch[x].cover
  <2> HIDE DEF next
  <2> QED BY <1>2, <1>4 DEF Running
<1> HIDE DEF next
<1> QED BY <1>1, <1>2, <1>4, <1>5, FetchMoves

LEMMA RefreshKeeps ==
  ASSUME ArtworkIInv, NEW x \in Fetches, Refresh(x)
  PROVE  ArtworkIInv'
<1> DEFINE picture == file[Image(fetch[x].cover)] # "none"
<1>1. Sharing /\ Running(x) /\ UNCHANGED <<file, gets, circuit, listed>>
  BY Parts, RunningIsWhole DEF Refresh
<1>2. CASE openFor > 0
  <2>1. PICK result \in {"picture", "placeholder", "late"} : Ends(x, result)
    BY <1>2 DEF Refresh
  <2>2. Sharing' /\ Requesting' \subseteq Requesting
    BY <1>1, <2>1, FetchEnds
  <2> QED BY <1>1, <2>2, Parts, PartsAfter, FewerSlots DEF FilesTyped, CircuitTyped, circuit
<1>3. CASE ~(openFor > 0)
  <2>1. /\ fetch' = [fetch EXCEPT ![x].stage = "queued", ![x].picture = picture]
        /\ UNCHANGED <<inflight, page>> /\ fetch[x].stage = "begun"
    BY <1>3 DEF Refresh
  <2>2. Sharing' /\ fetch'[x].stage = "queued" /\ \A y \in Fetches \ {x} : fetch'[y] = fetch[y]
    <3> HIDE DEF picture
    <3>1. picture \in BOOLEAN
      BY DEF picture
    <3> QED BY <1>1, <2>1, <3>1, StageKeeps
  <2>3. Requesting' \subseteq Requesting
    BY <2>2 DEF Requesting
  <2> QED BY <1>1, <2>2, <2>3, Parts, PartsAfter, FewerSlots DEF FilesTyped, CircuitTyped, circuit
<1> QED BY <1>2, <1>3

LEMMA TakeSlotKeeps ==
  ASSUME ArtworkIInv, NEW x \in Fetches, TakeSlot(x)
  PROVE  ArtworkIInv'
<1>1. /\ Sharing /\ fetch[x].stage = "queued" /\ Cardinality(Requesting) < FetchSlots
      /\ fetch' = [fetch EXCEPT ![x].stage = "requesting"]
      /\ UNCHANGED <<file, page, gets, inflight, circuit, listed>>
  BY Parts DEF TakeSlot
<1>2. fetch[x].picture \in BOOLEAN
  BY <1>1, RunningIsWhole
<1>3. fetch' = [fetch EXCEPT ![x].stage = "requesting", ![x].picture = fetch[x].picture]
  <2>1. fetch[x] \in [stage : {"begun", "queued", "requesting"}, cover : ReleaseGroups,
                      by : Pages, picture : BOOLEAN]
    BY <1>1, RunningIsWhole
  <2> QED BY <1>1, <2>1 DEF Sharing
<1>4. Sharing' /\ fetch'[x].stage = "requesting" /\ \A y \in Fetches \ {x} : fetch'[y] = fetch[y]
  BY <1>1, <1>2, <1>3, StageKeeps
<1>5. Requesting' = Requesting \cup {x}
  BY <1>4 DEF Requesting
<1>6. SlotsHeld'
  BY <1>1, <1>5, SlotsAreCounted, OneMore DEF SlotsHeld
<1> QED BY <1>1, <1>4, <1>6, Parts, PartsAfter DEF FilesTyped, CircuitTyped, circuit

LEMMA FetchTimesOutKeeps ==
  ASSUME ArtworkIInv, NEW x \in Fetches, FetchTimesOut(x)
  PROVE  ArtworkIInv'
<1>1. Sharing /\ Running(x) /\ UNCHANGED <<file, gets, circuit, listed>>
  BY Parts, RunningIsWhole DEF FetchTimesOut
<1>2. PICK result \in {"picture", "placeholder", "late"} : Ends(x, result)
  BY DEF FetchTimesOut, ContextDone
<1>3. Sharing' /\ Requesting' \subseteq Requesting
  BY <1>1, <1>2, FetchEnds
<1> QED BY <1>1, <1>3, Parts, PartsAfter, FewerSlots DEF FilesTyped, CircuitTyped, circuit

LEMMA FailureIsTyped ==
  ASSUME CircuitTyped, RecordTransientFailure \/ ResetCircuit PROVE CircuitTyped'
BY DEF CircuitTyped, RecordTransientFailure, ResetCircuit

LEMMA AnswerKeeps ==
  ASSUME ArtworkIInv, NEW x \in Fetches, FetchFails(x) \/ NotFound(x) \/ PictureArrives(x)
  PROVE  ArtworkIInv'
<1>1. Sharing /\ Running(x) /\ fetch[x].cover \in ReleaseGroups /\ UNCHANGED <<gets, listed>>
  BY Parts, RunningIsWhole DEF FetchFails, NotFound, PictureArrives, Requesting
<1>2. PICK result \in {"picture", "placeholder", "late"} : Ends(x, result)
  BY DEF FetchFails, NotFound, PictureArrives, Fallback
<1>3. Sharing' /\ Requesting' \subseteq Requesting
  BY <1>1, <1>2, FetchEnds
<1>4. RecordTransientFailure \/ ResetCircuit
  BY DEF FetchFails, NotFound, PictureArrives
<1>5. FilesTyped'
  <2>1. FilesTyped /\ Image(fetch[x].cover) \in Files /\ Missing(fetch[x].cover) \in Files
    BY <1>1, Parts, FilesOfCover
  <2>2. CASE UNCHANGED file
    BY <1>1, <2>1, <2>2 DEF FilesTyped
  <2>3. CASE \E image, marker \in {"fresh", "stale", "none"} :
               file' = [file EXCEPT ![Image(fetch[x].cover)] = image, ![Missing(fetch[x].cover)] = marker]
    BY <1>1, <2>1, <2>3 DEF FilesTyped
  <2>4. CASE NotFound(x)
    <3>1. file[Missing(fetch[x].cover)] \in {"fresh", "stale", "none"}
      BY <2>1 DEF FilesTyped
    <3> QED BY <2>3, <2>4, <3>1 DEF NotFound
  <2> QED BY <2>2, <2>3, <2>4 DEF FetchFails, PictureArrives
<1> QED BY <1>1, <1>3, <1>4, <1>5, FailureIsTyped, Parts, PartsAfter, FewerSlots

LEMMA PruningKeeps ==
  ASSUME ArtworkIInv, ListFiles \/ PruneEnds \/ ArtworkTick \/ \E entry \in listed : PruneFile(entry)
  PROVE  ArtworkIInv'
<1>1. UNCHANGED <<page, gets, fetch, inflight>>
  BY DEF ListFiles, PruneEnds, ArtworkTick, PruneFile
<1>2. Sharing'
  BY <1>1, Parts DEF Sharing, OneFetchEach, StayersAreServed, InflightIsExact, Running
<1>3. Requesting' = Requesting
  BY <1>1 DEF Requesting
<1>4. CircuitTyped'
  BY Parts DEF CircuitTyped, ListFiles, PruneEnds, ArtworkTick, PruneFile, circuit
<1>5. FilesTyped /\ OnDisk \subseteq Files /\ \A f \in OnDisk : file[f] \in {"fresh", "stale"}
  BY Parts DEF FilesTyped, OnDisk
<1>6. FilesTyped'
  <2>1. CASE ListFiles
    BY <1>5, <2>1 DEF ListFiles, FilesTyped
  <2>2. CASE PruneEnds
    BY <1>5, <2>2 DEF PruneEnds, FilesTyped
  <2>3. CASE ArtworkTick
    BY <1>5, <2>3 DEF ArtworkTick, FilesTyped
  <2>4. ASSUME NEW entry \in listed, PruneFile(entry) PROVE FilesTyped'
    BY <1>5, <2>4 DEF PruneFile, FilesTyped
  <2> QED BY <2>1, <2>2, <2>3, <2>4
<1> QED BY <1>1, <1>2, <1>3, <1>4, <1>6, Parts, PartsAfter, FewerSlots

-----------------------------------------------------------------------------
(* The theorems.                                                           *)

LEMMA NextArtwork == ArtworkIInv /\ [ArtworkNext]_artworkVars => ArtworkIInv'
<1> SUFFICES ASSUME ArtworkIInv, [ArtworkNext]_artworkVars PROVE ArtworkIInv'
  OBVIOUS
<1>1. CASE UNCHANGED artworkVars
  <2>1. Sharing' /\ FilesTyped' /\ CircuitTyped' /\ Requesting' = Requesting /\ UNCHANGED gets
    BY <1>1, Parts DEF artworkVars, circuit, Sharing, OneFetchEach, StayersAreServed, InflightIsExact,
       Running, FilesTyped, CircuitTyped, Requesting
  <2> QED BY <2>1, Parts, PartsAfter, FewerSlots
<1> QED BY <1>1, GetCachedKeeps, GetKeeps, LeaveKeeps, RefreshKeeps, TakeSlotKeeps, FetchTimesOutKeeps,
           AnswerKeeps, PruningKeeps DEF ArtworkNext

\* What is known of pages, fetches and files in every state.
THEOREM ArtworkInvariance == ArtworkSpec => []ArtworkIInv
BY InitArtwork, NextArtwork, PTL DEF ArtworkSpec

\* One fetch for a cover at a time, within the slots, for everybody who waits
\* for it, and no page is answered with another page's departure.
THEOREM SharedCovers == ArtworkSpec => []CoversAreShared
<1>1. ArtworkIInv => CoversAreShared
  BY DEF ArtworkIInv
<1> QED BY <1>1, ArtworkInvariance, PTL
=============================================================================
