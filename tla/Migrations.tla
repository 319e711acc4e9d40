----------------------------- MODULE Migrations -----------------------------
(***************************************************************************)
(* Opening the database: a start checks the schema, copies the database    *)
(* before it changes it, applies the migrations one transaction at a time, *)
(* checks again, prunes old copies and only then serves.  It can stop      *)
(* anywhere and is repeated, by a new release or an old one, also beside   *)
(* another start of its release.  internal/store/schema.go and             *)
(* migration_snapshots.go.                                                 *)
(***************************************************************************)
EXTENDS Integers, FiniteSets

CONSTANTS
  Openers,   \* processes
  Releases,  \* release -> the highest migration it embeds (highestEmbedded)
  Installed, \* migrations of the database at hand, 0 for a fresh one
  Retention, \* migrationSnapshotRetention
  MaxStarts  \* bound: starts of a behaviour

Newest == CHOOSE n \in {Releases[r] : r \in DOMAIN Releases} : \A r \in DOMAIN Releases : Releases[r] <= n
Versions == 1 .. Newest
Upto(n) == 1 .. n

ASSUME MigrationsAssumption ==
  /\ \A r \in DOMAIN Releases : Releases[r] \in Nat \ {0}
  /\ \E r \in DOMAIN Releases : \A q \in DOMAIN Releases : Releases[q] <= Releases[r]
  /\ Installed \in 0 .. Newest /\ Retention \in Nat \ {0} /\ MaxStarts \in Nat

VARIABLES
  recorded,  \* schema_migrations
  bodies,    \* version -> how often its statements took effect
  snapshots, \* files under a snapshot's name: the migrations each holds, none
             \* while the name is only reserved, and when the copy began
  start,     \* process -> stage, release, pending migrations, and the copy made
  started,   \* starts so far
  copies     \* copies begun so far

migrationVars == <<recorded, bodies, snapshots, start, started, copies>>

Down == [stage |-> "down"]
At(p, stage) == start[p].stage = stage
Goes(p, stage) == start' = [start EXCEPT ![p].stage = stage]
Fails(p) == start' = [start EXCEPT ![p] = Down]

MigrationsTypeOK ==
  /\ recorded \subseteq Versions /\ bodies \in [Versions -> 0 .. 1]
  /\ \A s \in snapshots : s.holds \subseteq Versions /\ s.at \in 1 .. copies
  /\ started \in 0 .. MaxStarts /\ copies \in Nat
  /\ \A p \in Openers : At(p, "down") \/ start[p].pending \subseteq Versions

MigrationsInit ==
  /\ recorded = Upto(Installed) /\ bodies = [v \in Versions |-> IF v <= Installed THEN 1 ELSE 0]
  /\ snapshots = {} /\ start = [p \in Openers |-> Down]
  /\ started = 0 /\ copies = 0

\* A database that a later release migrated is refused.
SchemaAhead(release) == \E v \in recorded : v > Releases[release]

\* Releases are not mixed: what runs is stopped before another is deployed.
NoOtherRelease(release) == \A q \in Openers : ~At(q, "down") => start[q].release = release

\* migrate reads what is applied, and works from that.
Migrate(p, release) ==
  LET pending == Upto(Releases[release]) \ recorded IN
  /\ At(p, "down") /\ NoOtherRelease(release) /\ started < MaxStarts /\ started' = started + 1
  /\ IF SchemaAhead(release) THEN UNCHANGED start
     ELSE start' = [start EXCEPT ![p] =
            [stage |-> IF recorded # {} /\ pending # {} THEN "copying" ELSE "migrating",
             release |-> release, pending |-> pending, at |-> 0, copy |-> {}]]
  /\ UNCHANGED <<recorded, bodies, snapshots, copies>>

-----------------------------------------------------------------------------
(* createPreMigrationSnapshot.                                             *)

\* VACUUM INTO a temporary name, which no listing looks at.
CopyDatabase(p) ==
  /\ At(p, "copying") /\ copies' = copies + 1
  /\ start' = [start EXCEPT ![p] = [@ EXCEPT !.stage = "copied", !.copy = recorded, !.at = copies + 1]]
  /\ UNCHANGED <<recorded, bodies, snapshots, started>>

\* The final name is found by creating an empty file, which goes again before the
\* copy is renamed; a start that ends in between leaves the empty file.
ReserveName(p) ==
  /\ At(p, "copied") /\ Goes(p, "reserved")
  /\ snapshots' = snapshots \cup {[holds |-> {}, at |-> start[p].at]}
  /\ UNCHANGED <<recorded, bodies, started, copies>>

Newer(s, t) == s.at > t.at
Kept(S) == {s \in S : Cardinality({t \in S : Newer(t, s)}) < Retention}
Published(p) ==
  (snapshots \ {[holds |-> {}, at |-> start[p].at]}) \cup {[holds |-> start[p].copy, at |-> start[p].at]}

\* Mutant: the newest copies alone are kept from here on.
PublishSnapshotAndPrune(p) ==
  /\ At(p, "reserved") /\ Goes(p, "migrating") /\ snapshots' = Kept(Published(p))
  /\ UNCHANGED <<recorded, bodies, started, copies>>
PublishSnapshot(p) ==
  /\ At(p, "reserved") /\ Goes(p, "migrating") /\ snapshots' = Published(p)
  /\ UNCHANGED <<recorded, bodies, started, copies>>

-----------------------------------------------------------------------------
(* The migrations.                                                         *)

NextMigration(p, v) == v \in start[p].pending /\ \A w \in start[p].pending : v <= w

\* The statements and the record of a migration commit together; one that
\* another start recorded first, or whose statements fail, is undone and ends
\* the start.  Mutant: the statements commit by themselves.
ApplyMigrationApart(p, v) ==
  /\ At(p, "migrating") /\ NextMigration(p, v)
  /\ bodies' = [bodies EXCEPT ![v] = @ + 1]
  /\ IF v \in recorded THEN Fails(p) /\ UNCHANGED recorded
     ELSE recorded' = recorded \cup {v} /\ start' = [start EXCEPT ![p].pending = @ \ {v}]
  /\ UNCHANGED <<snapshots, started, copies>>
ApplyMigration(p, v) ==
  /\ At(p, "migrating") /\ NextMigration(p, v)
  /\ IF v \in recorded THEN Fails(p) /\ UNCHANGED <<recorded, bodies>>
     ELSE /\ recorded' = recorded \cup {v} /\ bodies' = [bodies EXCEPT ![v] = @ + 1]
          /\ start' = [start EXCEPT ![p].pending = @ \ {v}]
  /\ UNCHANGED <<snapshots, started, copies>>

\* The schema and the enforcement of foreign keys are looked at again.
VerifySchema(p) ==
  /\ At(p, "migrating") /\ start[p].pending = {}
  /\ IF SchemaAhead(start[p].release) THEN Fails(p) ELSE Goes(p, "pruning")
  /\ UNCHANGED <<recorded, bodies, snapshots, started, copies>>

\* The newest stay; a file that cannot be removed ends the start.
PruneMigrationSnapshots(p) ==
  /\ At(p, "pruning")
  /\ \/ snapshots' = Kept(snapshots) /\ Goes(p, "serving")
     \/ \E gone \in SUBSET (snapshots \ Kept(snapshots)) :
          /\ gone # snapshots \ Kept(snapshots)
          /\ snapshots' = snapshots \ gone /\ Fails(p)
  /\ UNCHANGED <<recorded, bodies, started, copies>>

\* An error or a crash at any point, and a serving process that stops.
StartEnds(p) ==
  /\ ~At(p, "down") /\ Fails(p) /\ UNCHANGED <<recorded, bodies, snapshots, started, copies>>

MigrationsNext ==
  \E p \in Openers :
    \/ \E release \in DOMAIN Releases : Migrate(p, release)
    \/ CopyDatabase(p)
    \/ ReserveName(p)
    \/ PublishSnapshot(p)
    \/ \E v \in Versions : ApplyMigration(p, v)
    \/ VerifySchema(p)
    \/ PruneMigrationSnapshots(p)
    \/ StartEnds(p)

MigrationsSpec == MigrationsInit /\ [][MigrationsNext]_migrationVars

-----------------------------------------------------------------------------
(* Properties.                                                             *)

\* What some release leaves behind, and a snapshot that holds such a schema.
Complete == {Upto(Releases[r]) : r \in DOMAIN Releases}
Undoable == \E s \in snapshots : s.holds \in Complete

\* A database left in the middle of an upgrade, which no release can serve,
\* comes with a whole copy of what it was when a release last could: nothing is
\* pruned before an upgrade is through, however often it stops.
UpgradeCanBeUndone ==
  recorded \notin Complete /\ Upto(Installed) \in Complete => Undoable

\* Statements take effect once, and when recorded, with two starts at a time.
MigrationsRunOnce == \A v \in Versions : bodies[v] = IF v \in recorded THEN 1 ELSE 0

\* An upgrade that fails, at whatever statement or start, can be undone from a
\* snapshot, and no migration is applied twice.
UpgradesAreSound == MigrationsTypeOK /\ UpgradeCanBeUndone /\ MigrationsRunOnce

-----------------------------------------------------------------------------
(* Why they hold: the inductive invariant of StorageProofs.                *)

Live(p) == ~At(p, "down")
Target(p) == Upto(Releases[start[p].release])
Owes(p) == Live(p) /\ start[p].pending \ recorded # {}

StartRecords ==
  [stage : {"copying", "copied", "reserved", "migrating", "pruning", "serving"},
   release : DOMAIN Releases, pending : SUBSET Versions, at : Nat, copy : SUBSET Versions]

\* Starts of one release are between them and it: what is recorded belongs to the
\* release, and the rest of it is pending in each.
StartsAgree ==
  /\ start \in [Openers -> StartRecords \cup {Down}]
  /\ \A p, q \in Openers : Live(p) /\ Live(q) => start[p].release = start[q].release
  /\ \A p \in Openers : Live(p) =>
       /\ recorded \subseteq Target(p) /\ start[p].pending \subseteq Target(p)
       /\ Target(p) \subseteq recorded \cup start[p].pending
       /\ At(p, "pruning") => start[p].pending = {}
       /\ At(p, "copied") \/ At(p, "reserved") => start[p].at \in 1 .. copies

\* Whoever has something left to apply has put a whole copy away, or carries one
\* unless there is one already.
CopiedBeforeChanged ==
  Upto(Installed) \in Complete =>
    /\ 1 \in recorded
    /\ recorded \notin Complete => Undoable
    /\ \A p \in Openers : Owes(p) =>
         /\ At(p, "migrating") => Undoable
         /\ At(p, "copied") \/ At(p, "reserved") => Undoable \/ start[p].copy \in Complete

MigrationsIInv == MigrationsTypeOK /\ MigrationsRunOnce /\ StartsAgree /\ CopiedBeforeChanged
=============================================================================
