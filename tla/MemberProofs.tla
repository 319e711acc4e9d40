---------------------------- MODULE MemberProofs ----------------------------
(***************************************************************************)
(* Proofs about what members ask for: Digest, for any zones, reminders,    *)
(* sweeps, destinations and times; Imports, for any file, requests, jobs,  *)
(* faults and times; Resolution, for any members, profiles, artists,       *)
(* delays and limits; and Accounts, for any clients, addresses, links,     *)
(* accounts and thresholds.                                                *)
(***************************************************************************)
EXTENDS Accounts, Digest, Imports, Resolution, SequenceTheorems, FiniteSetTheorems, TLAPS

-----------------------------------------------------------------------------
(* The digest: lemmas about the day and the runs.                          *)

LEMMA DigestConstants ==
  /\ DayParts \in Nat \ {0} /\ Lookback \in Nat /\ Instants \subseteq Nat
  /\ \A z \in Zones : Offset[z] \in Int
<1>1. DayParts \in Nat /\ Lookback \in Nat /\ Instants \subseteq Nat
  BY DigestAssumption DEF DigestAssumption
<1>2. DayParts > 0 /\ Offset \in [Zones -> Int]
  BY DigestAssumption DEF DigestAssumption
<1> QED BY <1>1, <1>2

LEMMA DayIsCounted ==
  ASSUME NEW t \in Nat, NEW z \in Zones
  PROVE  LocalDay(t, z) \in Int
<1>1. t + Offset[z] \in Int /\ DayParts \in Nat \ {0}
  BY DigestConstants
<1> QED BY <1>1 DEF LocalDay

LEMMA DivisionBounds ==
  ASSUME NEW a \in Int, NEW d \in Nat \ {0}, NEW q \in Int, a >= q * d
  PROVE  a \div d >= q
OBVIOUS

\* A run that a sweep finds is at most as many days old as the zones are apart.
LEMMA CoveringRunIsRecent ==
  ASSUME DigestTyped, RunsAreDated, NEW n \in Nat, ZonesWithin(n),
         NEW i \in DOMAIN runs, Covers(runs[i], clock, zone)
  PROVE  runs[i].day >= LocalDay(clock, zone) - n
<1> DEFINE day  == LocalDay(clock, zone)
           made == runs[i].made
           ahead == Offset[runs[i].zone]
<1>1. /\ runs[i] \in Runs /\ made \in Nat /\ runs[i].zone \in Zones /\ clock \in Nat /\ zone \in Zones
      /\ DayParts \in Nat \ {0} /\ Lookback \in Nat /\ ahead \in Int /\ Offset[zone] \in Int
  <2>1. runs[i] \in Runs
    BY ElementOfSeq, LenProperties DEF DigestTyped
  <2>2. made \in Nat /\ runs[i].zone \in Zones
    BY <2>1 DEF Runs
  <2> QED BY <2>1, <2>2, DigestConstants DEF DigestTyped
<1>2. day \in Int
  BY <1>1, DayIsCounted
<1>3. runs[i].day = (made + ahead) \div DayParts
  BY DEF RunsAreDated, LocalDay
<1>4. runs[i].day = day \/ made >= day * DayParts - Offset[zone] - Lookback
  BY DEF Covers, DayStart
<1>5. Lookback + Offset[zone] - ahead <= n * DayParts
  BY <1>1 DEF ZonesWithin
<1>6. ASSUME made >= day * DayParts - Offset[zone] - Lookback
      PROVE  made + ahead >= (day - n) * DayParts
  <2>1. day * DayParts \in Int /\ n * DayParts \in Int /\ (day - n) * DayParts = day * DayParts - n * DayParts
    BY <1>1, <1>2
  <2> HIDE DEF day, made, ahead
  <2> QED BY <1>1, <1>5, <1>6, <2>1
<1>7. ASSUME made >= day * DayParts - Offset[zone] - Lookback
      PROVE  runs[i].day >= day - n
  <2>1. day - n \in Int /\ made + ahead \in Int
    BY <1>1, <1>2
  <2> HIDE DEF day, made, ahead
  <2> QED BY <1>1, <1>3, <1>6, <1>7, <2>1, DivisionBounds
<1>8. ASSUME runs[i].day = day
      PROVE  runs[i].day >= day - n
  BY <1>2, <1>8
<1> QED BY <1>4, <1>7, <1>8

\* A row goes to a destination of that age.
Sound(run) ==
  /\ run \in Runs /\ run.day = LocalDay(run.made, run.zone)
  /\ \A r \in run.rows : mailboxes[r.to] # NoMailbox /\ mailboxes[r.to] <= run.made

LEMMA SoundRuns ==
  ASSUME DigestTyped
  PROVE  RunsAreDated /\ RowsHaveMailboxes <=> \A i \in DOMAIN runs : Sound(runs[i])
BY ElementOfSeq, LenProperties DEF DigestTyped, RunsAreDated, RowsHaveMailboxes, Sound

LEMMA AttachedRows ==
  ASSUME DigestTyped, NEW made \in Nat
  PROVE  /\ Attached(made) \subseteq DigestRows
         /\ \A r \in Attached(made) : mailboxes[r.to] # NoMailbox /\ mailboxes[r.to] <= made
<1>1. ASSUME NEW r \in Attached(made)
      PROVE  r \in DigestRows /\ mailboxes[r.to] # NoMailbox /\ mailboxes[r.to] <= made
  <2>1. PICK d \in Mailboxes : /\ mailboxes[d] # NoMailbox /\ mailboxes[d] <= made
                              /\ r = [to |-> d, open |-> TRUE]
    BY <1>1 DEF Attached
  <2> QED BY <2>1 DEF DigestRows
<1> QED BY <1>1

-----------------------------------------------------------------------------
(* The steps of the digest.                                                *)

\* The runs a sweep leaves behind are sound.
LEMMA AdmittedRuns ==
  ASSUME DigestIInv, NEW t \in Nat, NEW z \in Zones
  PROVE  /\ AdmitRun(t, z) \in Seq(Runs)
         /\ \A i \in DOMAIN AdmitRun(t, z) : Sound(AdmitRun(t, z)[i])
<1>0. DigestTyped /\ runs \in Seq(Runs) /\ \A i \in DOMAIN runs : Sound(runs[i])
  BY SoundRuns DEF DigestIInv, DigestTyped
<1>1. CASE FoundRun(t, z) = {}
  <2> DEFINE run == [day |-> LocalDay(t, z), zone |-> z, made |-> t,
                     status |-> "pending", rows |-> Attached(t)]
  <2>1. LocalDay(t, z) \in Int
    BY DayIsCounted
  <2>2. run \in Runs
    BY <1>0, <2>1, AttachedRows DEF Runs
  <2>3. Sound(run)
    BY <1>0, <2>2, AttachedRows DEF Sound
  <2>4. AdmitRun(t, z) = Append(runs, run)
    BY <1>1 DEF AdmitRun
  <2> HIDE DEF run
  <2> QED BY <1>0, <2>2, <2>3, <2>4
<1>2. CASE FoundRun(t, z) # {}
  <2> DEFINE i == CHOOSE x \in FoundRun(t, z) : TRUE
  <2>1. i \in DOMAIN runs /\ i \in 1 .. Len(runs)
    <3>1. i \in FoundRun(t, z)
      BY <1>2
    <3> QED BY <1>0, <3>1 DEF FoundRun
  <2>2. AdmitRun(t, z) = IF Decided(runs[i]) THEN runs
                         ELSE [runs EXCEPT ![i].rows = Attached(runs[i].made)]
    BY <1>2 DEF AdmitRun
  <2> HIDE DEF i
  <2> DEFINE run == [runs[i] EXCEPT !.rows = Attached(runs[i].made)]
  <2>3. Sound(runs[i]) /\ runs[i] \in Runs /\ runs[i].made \in Nat
    BY <1>0, <2>1 DEF Sound, Runs
  <2>4. run \in Runs /\ run.rows = Attached(runs[i].made) /\ run.made = runs[i].made
        /\ run.day = runs[i].day /\ run.zone = runs[i].zone
    BY <1>0, <2>3, AttachedRows DEF Runs
  <2>5. Sound(run)
    BY <1>0, <2>3, <2>4, AttachedRows DEF Sound
  <2>6. AdmitRun(t, z) = runs \/ AdmitRun(t, z) = [runs EXCEPT ![i] = run]
    BY <2>2
  <2> HIDE DEF run
  <2> QED BY <1>0, <2>1, <2>4, <2>5, <2>6, ExceptSeq, LenProperties
<1> QED BY <1>1, <1>2

\* What a step that leaves the runs and the destinations alone owes.
LEMMA RunsStayAsTheyAre ==
  ASSUME DigestIInv, DigestTyped', UNCHANGED <<mailboxes, runs>>
  PROVE  DigestIInv'
BY DEF DigestIInv, RunsAreDated, RowsHaveMailboxes, LocalDay

LEMMA LookKeeps ==
  ASSUME DigestIInv, NEW s \in Sweepers, LookForRun(s) \/ GiveUpSweep(s)
  PROVE  DigestIInv'
<1>1. DigestTyped' /\ UNCHANGED <<mailboxes, runs>>
  BY DEF DigestIInv, DigestTyped, LookForRun, GiveUpSweep
<1> QED BY <1>1, RunsStayAsTheyAre

LEMMA TimeKeeps ==
  ASSUME DigestIInv, DayPasses \/ \E z \in Zones : MoveTo(z)
  PROVE  DigestIInv'
<1>1. DigestTyped' /\ UNCHANGED <<mailboxes, runs>>
  BY DigestConstants DEF DigestIInv, DigestTyped, DayPasses, MoveTo
<1> QED BY <1>1, RunsStayAsTheyAre

\* Sound runs over destinations that stay make the invariant.
LEMMA SoundStep ==
  ASSUME DigestTyped', mailboxes' = mailboxes, \A i \in DOMAIN runs' : Sound(runs'[i])
  PROVE  DigestIInv'
BY DEF DigestIInv, RunsAreDated, RowsHaveMailboxes, Sound, LocalDay

LEMMA QueueKeeps ==
  ASSUME DigestIInv, NEW s \in Sweepers, QueueRun(s)
  PROVE  DigestIInv'
<1>1. looked[s].at \in Nat /\ looked[s].zone \in Zones
  BY DEF DigestIInv, DigestTyped, QueueRun
<1>2. runs' \in Seq(Runs) /\ \A i \in DOMAIN runs' : Sound(runs'[i])
  BY <1>1, AdmittedRuns DEF QueueRun
<1>3. DigestTyped' /\ mailboxes' = mailboxes
  BY <1>2 DEF DigestIInv, DigestTyped, QueueRun
<1> QED BY <1>2, <1>3, SoundStep

LEMMA DeliveryKeeps ==
  ASSUME DigestIInv, NEW i \in DOMAIN runs, NEW d \in Mailboxes, DeliverDigest(i, d)
  PROVE  DigestIInv'
<1> DEFINE rows == (runs[i].rows \ {[to |-> d, open |-> TRUE]}) \cup {[to |-> d, open |-> FALSE]}
           status == IF \E r \in rows : r.open THEN runs[i].status ELSE "sent"
           run == [runs[i] EXCEPT !.rows = rows, !.status = status]
<1>0. DigestTyped /\ runs \in Seq(Runs) /\ \A j \in DOMAIN runs : Sound(runs[j])
  BY SoundRuns DEF DigestIInv, DigestTyped
<1>1. Sound(runs[i]) /\ runs[i] \in Runs /\ i \in 1 .. Len(runs)
  BY <1>0 DEF Sound
<1>2. rows \subseteq DigestRows /\ status \in {"pending", "sent"}
  <2>1. runs[i].rows \subseteq DigestRows /\ runs[i].status \in {"pending", "sent"}
    BY <1>1 DEF Runs
  <2>2. [to |-> d, open |-> FALSE] \in DigestRows
    BY DEF DigestRows
  <2>3. rows \subseteq DigestRows
    BY <2>1, <2>2
  <2>4. status = runs[i].status \/ status = "sent"
    OBVIOUS
  <2> HIDE DEF rows, status
  <2> QED BY <2>1, <2>3, <2>4
<1>3. \A r \in rows : mailboxes[r.to] # NoMailbox /\ mailboxes[r.to] <= runs[i].made
  <2>1. [to |-> d, open |-> TRUE] \in runs[i].rows
    BY DEF DeliverDigest
  <2>2. mailboxes[d] # NoMailbox /\ mailboxes[d] <= runs[i].made
    BY <1>1, <2>1 DEF Sound
  <2> QED BY <1>1, <2>2 DEF Sound
<1>4. runs' = [runs EXCEPT ![i] = run] /\ UNCHANGED <<clock, zone, mailboxes, looked>>
  BY DEF DeliverDigest
<1> HIDE DEF rows, status
<1>5. run \in Runs /\ run.rows = rows /\ run.made = runs[i].made /\ run.day = runs[i].day
      /\ run.zone = runs[i].zone
  BY <1>1, <1>2 DEF Runs
<1>6. Sound(run)
  BY <1>1, <1>3, <1>5 DEF Sound
<1> HIDE DEF run
<1>7. runs' \in Seq(Runs) /\ \A j \in DOMAIN runs' : Sound(runs'[j])
  BY <1>0, <1>1, <1>4, <1>5, <1>6, ExceptSeq, LenProperties
<1>8. DigestTyped'
  BY <1>0, <1>4, <1>7 DEF DigestTyped
<1> QED BY <1>4, <1>7, <1>8, SoundStep

\* A destination is new: no run has a row for it.
LEMMA AddKeeps ==
  ASSUME DigestIInv, NEW d \in Mailboxes, AddMailbox(d)
  PROVE  DigestIInv'
<1>0. DigestTyped /\ runs \in Seq(Runs) /\ \A j \in DOMAIN runs : Sound(runs[j])
  BY SoundRuns DEF DigestIInv, DigestTyped
<1>1. /\ mailboxes[d] = NoMailbox /\ mailboxes' = [mailboxes EXCEPT ![d] = clock]
      /\ UNCHANGED <<clock, zone, runs, looked>>
  BY DEF AddMailbox
<1>2. DigestTyped'
  BY <1>0, <1>1 DEF DigestTyped
<1>3. RowsHaveMailboxes'
  <2>1. SUFFICES ASSUME NEW j \in DOMAIN runs, NEW r \in runs[j].rows
                 PROVE  mailboxes'[r.to] # NoMailbox /\ mailboxes'[r.to] <= runs[j].made
    BY <1>1 DEF RowsHaveMailboxes
  <2>2. r.to \in Mailboxes
    BY <1>0 DEF Sound, Runs, DigestRows
  <2>3. mailboxes[r.to] # NoMailbox /\ mailboxes[r.to] <= runs[j].made
    BY <1>0 DEF Sound
  <2>4. mailboxes'[r.to] = mailboxes[r.to]
    BY <1>0, <1>1, <2>2, <2>3 DEF DigestTyped
  <2> QED BY <2>3, <2>4
<1>4. RunsAreDated'
  BY <1>1 DEF DigestIInv, RunsAreDated, LocalDay
<1> QED BY <1>2, <1>3, <1>4 DEF DigestIInv

\* The rows of a destination go with it.
LEMMA DeleteKeeps ==
  ASSUME DigestIInv, NEW d \in Mailboxes, DeleteMailbox(d)
  PROVE  DigestIInv'
<1> DEFINE Left(run) == [run EXCEPT !.rows = {r \in run.rows : r.to # d}]
<1>0. DigestTyped /\ runs \in Seq(Runs) /\ \A j \in DOMAIN runs : Sound(runs[j])
  BY SoundRuns DEF DigestIInv, DigestTyped
<1>1. /\ mailboxes' = [mailboxes EXCEPT ![d] = NoMailbox] /\ UNCHANGED <<clock, zone, looked>>
      /\ runs' = [j \in DOMAIN runs |-> Left(runs[j])]
  BY DEF DeleteMailbox
<1>2. ASSUME NEW j \in DOMAIN runs
      PROVE  /\ Left(runs[j]) \in Runs /\ Left(runs[j]).made = runs[j].made
             /\ Left(runs[j]).day = runs[j].day /\ Left(runs[j]).zone = runs[j].zone
             /\ Left(runs[j]).rows = {r \in runs[j].rows : r.to # d}
  <2>1. runs[j] \in Runs
    BY <1>0 DEF Sound
  <2>2. {r \in runs[j].rows : r.to # d} \subseteq DigestRows
    BY <2>1 DEF Runs
  <2> QED BY <2>1, <2>2 DEF Runs
<1> HIDE DEF Left
<1>3. runs' \in Seq(Runs) /\ DOMAIN runs' = DOMAIN runs /\ \A j \in DOMAIN runs : runs'[j] = Left(runs[j])
  <2>1. DOMAIN runs = 1 .. Len(runs) /\ Len(runs) \in Nat
    BY <1>0, LenProperties
  <2> QED BY <1>1, <1>2, <2>1
<1>4. DigestTyped'
  BY <1>0, <1>1, <1>3 DEF DigestTyped
<1>5. RunsAreDated'
  BY <1>2, <1>3 DEF DigestIInv, RunsAreDated, LocalDay
<1>6. RowsHaveMailboxes'
  <2>1. SUFFICES ASSUME NEW j \in DOMAIN runs, NEW r \in runs[j].rows, r.to # d
                 PROVE  mailboxes'[r.to] # NoMailbox /\ mailboxes'[r.to] <= runs[j].made
    BY <1>2, <1>3 DEF RowsHaveMailboxes
  <2>2. r.to \in Mailboxes
    BY <1>0 DEF Sound, Runs, DigestRows
  <2>3. mailboxes'[r.to] = mailboxes[r.to]
    BY <1>0, <1>1, <2>1, <2>2 DEF DigestTyped
  <2> QED BY <1>0, <2>3 DEF Sound
<1> QED BY <1>4, <1>5, <1>6 DEF DigestIInv

LEMMA DigestStep == DigestIInv /\ [DigestNext]_digestVars => DigestIInv'
<1> SUFFICES ASSUME DigestIInv, [DigestNext]_digestVars PROVE DigestIInv'
  OBVIOUS
<1>1. CASE UNCHANGED digestVars
  <2>1. DigestTyped' /\ UNCHANGED <<mailboxes, runs>>
    BY <1>1 DEF digestVars, DigestIInv, DigestTyped
  <2> QED BY <2>1, RunsStayAsTheyAre
<1> QED BY <1>1, LookKeeps, QueueKeeps, DeliveryKeeps, AddKeeps, DeleteKeeps, TimeKeeps DEF DigestNext

LEMMA DigestStarts == DigestInit => DigestIInv
<1> SUFFICES ASSUME DigestInit PROVE DigestIInv
  OBVIOUS
<1>1. clock \in Nat /\ runs \in Seq(Runs) /\ DOMAIN runs = {}
  BY DigestConstants DEF DigestInit
<1>2. DigestTyped
  BY <1>1 DEF DigestInit, DigestTyped
<1> QED BY <1>1, <1>2 DEF DigestIInv, RunsAreDated, RowsHaveMailboxes

-----------------------------------------------------------------------------
(* Theorems about the digest.                                              *)

\* Runs keep the day they were made on and rows their destination.
THEOREM DigestInvariance == DigestSpec => []DigestIInv
BY DigestStarts, DigestStep, PTL DEF DigestSpec

\* No destination gets a digest from before it was added, whatever members do
\* between the making of a run and the attaching of its rows.
THEOREM NothingFromBefore == DigestSpec => []NoBackfill
<1>1. DigestIInv => NoBackfill
  BY DEF DigestIInv, RowsHaveMailboxes, NoBackfill
<1> QED BY <1>1, DigestInvariance, PTL

\* However often a member moves, the run that keeps a sweep from making one is at
\* most as many days old as the zones and the look back span.
THEOREM SilenceIsBounded ==
  ASSUME NEW n \in Nat, ZonesWithin(n)
  PROVE  DigestSpec => []SilentAtMost(n)
<1>1. DigestIInv => SilentAtMost(n)
  BY CoveringRunIsRecent DEF DigestIInv, SilentAtMost, FoundRun
<1> QED BY <1>1, DigestInvariance, PTL

\* With zones not more than 22 hours apart, which with the 26 hours of the look
\* back make two days, digests are not sent from before and not withheld for long.
THEOREM DigestsAreDue ==
  ASSUME ZonesWithin(2)
  PROVE  DigestSpec => []DigestIsDue
<1>1. DigestIInv => SilenceIsShort
  BY CoveringRunIsRecent DEF DigestIInv, SilenceIsShort, SilentAtMost, FoundRun
<1> QED BY <1>1, DigestInvariance, NothingFromBefore, PTL DEF DigestIsDue

-----------------------------------------------------------------------------
(* Imports: lemmas about jobs and requests.                                *)

LEMMA ImportConstants ==
  /\ Stale \in Nat \ {0} /\ Transient \in Nat \ {0} /\ Stale < Transient
  /\ MaxUploads \in Nat \ {0} /\ MaxDowntime \in Nat /\ Len(File) \in Nat \ {0}
  /\ \A i \in 1 .. Len(File) : File[i] # "invalid" => File[i] \in Followable
<1>1. {Stale, Transient, MaxUploads} \subseteq Nat \ {0} /\ Stale < Transient /\ MaxDowntime \in Nat
  BY ImportsAssumption DEF ImportsAssumption
<1>2. File \in Seq(Followable \cup {"invalid"}) /\ File # <<>>
  BY ImportsAssumption DEF ImportsAssumption
<1>3. Len(File) \in Nat \ {0}
  BY <1>2, EmptySeq
<1>4. \A i \in 1 .. Len(File) : File[i] \in Followable \cup {"invalid"}
  BY <1>2, ElementOfSeq
<1> QED BY <1>1, <1>3, <1>4

WatchTyped ==
  /\ followRule \in [Followable -> {"none", "inherit", "custom"}]
  /\ identity \in [Followable -> {"none", "pending", "verified"}] /\ dueNow \subseteq Followable

LEMMA JobIsWhole ==
  ASSUME ImportsTyped, NEW j \in JobIds, IsJob(j)
  PROVE  job[j] \in ImportJobs
BY DEF ImportsTyped, IsJob

LEMMA HandlerIsWhole ==
  ASSUME ImportsTyped, NEW h \in Handlers, handler[h] # Resting
  PROVE  handler[h] \in ImportHandlers /\ handler[h].job \in JobIds
BY DEF ImportsTyped, ImportHandlers

LEMMA JobsAreNoNoJob == \A x \in ImportJobs : x # NoJob
BY DEF ImportJobs, NoJob

LEMMA HandlersAreNoResting == \A x \in ImportHandlers : x # Resting
<1> SUFFICES ASSUME NEW x \in ImportHandlers PROVE x # Resting
  OBVIOUS
<1>1. DOMAIN x = {"job", "row", "status"}
  BY DEF ImportHandlers
<1>2. DOMAIN Resting = {"job"}
  BY DEF Resting
<1> QED BY <1>1, <1>2

\* What a member does to the watchlist touches no import.
LEMMA WatchlistKeeps ==
  ASSUME ImportsIInv, WatchTyped', UNCHANGED <<job, handler, alive, swept, downtime, uploads, done>>
  PROVE  ImportsIInv'
BY DEF ImportsIInv, ImportsTyped, WatchTyped, HandlersWork, UploadsAreRetained, CompleteMeansAll, IsJob

\* A request with a new job of its own.
LEMMA CreateKeeps ==
  ASSUME ImportsIInv, NEW h \in Handlers, NEW j \in JobIds, NEW upload \in 1 .. MaxUploads,
         CreateImportJobWithPayload(h, j, upload), uploads' \in 0 .. MaxUploads
  PROVE  ImportsIInv'
<1> DEFINE new == [status |-> "processing", payload |-> TRUE, age |-> 0, upload |-> upload, rows |-> <<>>]
           begun == [job |-> j, row |-> 1, status |-> "complete"]
<1>0. Stale \in Nat \ {0} /\ Transient \in Nat /\ MaxDowntime \in Nat /\ Len(File) \in Nat
  BY ImportConstants
<1>1. /\ alive /\ handler[h] = Resting /\ ~IsJob(j)
      /\ job' = [job EXCEPT ![j] = new] /\ handler' = [handler EXCEPT ![h] = begun]
      /\ UNCHANGED <<followRule, identity, dueNow, alive, swept, downtime, done>>
  BY DEF CreateImportJobWithPayload, watchlist, host
<1>2. new \in ImportJobs /\ begun \in ImportHandlers
  BY <1>0 DEF ImportJobs, ImportHandlers
<1>3. /\ new.status = "processing" /\ new.payload /\ new.age = 0 /\ Len(new.rows) = 0
      /\ begun.job = j /\ begun.row = 1
  OBVIOUS
<1> HIDE DEF new, begun
<1>4. ImportsTyped /\ HandlersWork /\ UploadsAreRetained /\ CompleteMeansAll
  BY DEF ImportsIInv
<1>5. /\ \A i \in JobIds : job'[i] = IF i = j THEN new ELSE job[i]
      /\ \A g \in Handlers : handler'[g] = IF g = h THEN begun ELSE handler[g]
  BY <1>1, <1>4 DEF ImportsTyped
<1>6. ImportsTyped'
  BY <1>1, <1>2, <1>4 DEF ImportsTyped
<1>7. HandlersWork'
  <2>1. ASSUME NEW g \in Handlers, handler'[g] # Resting, g # h
        PROVE  /\ handler'[g] = handler[g] /\ handler[g] # Resting /\ handler[g].job \in JobIds
               /\ IsJob(handler[g].job) /\ handler[g].job # j /\ job'[handler[g].job] = job[handler[g].job]
    BY <1>1, <1>4, <1>5, <2>1, HandlerIsWhole DEF HandlersWork
  <2>2. new # NoJob
    BY <1>2, JobsAreNoNoJob
  <2>3. ASSUME NEW g \in Handlers, handler'[g] # Resting
        PROVE  LET i == handler'[g].job IN
               /\ alive' /\ job'[i] # NoJob /\ job'[i].status = "processing" /\ job'[i].age = 0
               /\ handler'[g].status = "complete" =>
                    /\ Len(job'[i].rows) = handler'[g].row - 1
                    /\ \A n \in 1 .. Len(job'[i].rows) : job'[i].rows[n] # "unsaved"
    <3>1. CASE g = h
      BY <1>1, <1>3, <1>5, <2>2, <3>1
    <3>2. CASE g # h
      BY <1>1, <1>4, <2>1, <2>3, <3>2 DEF HandlersWork, IsJob
    <3> QED BY <3>1, <3>2
  <2>4. ASSUME NEW f \in Handlers, NEW g \in Handlers, handler'[f] # Resting, handler'[g] # Resting,
               handler'[f].job = handler'[g].job
        PROVE  f = g
    BY <1>3, <1>4, <1>5, <2>1, <2>4 DEF HandlersWork
  <2> QED BY <2>3, <2>4 DEF HandlersWork, IsJob
<1>8. UploadsAreRetained'
  <2>1. downtime \in Nat
    BY <1>0, <1>4 DEF ImportsTyped
  <2>2. ASSUME NEW i \in JobIds, job'[i] # NoJob
        PROVE  /\ job'[i].status = "complete" => job'[i].upload \in done'
               /\ job'[i].status # "complete" => job'[i].payload
               /\ job'[i].status = "processing" =>
                    job'[i].age <= Stale + downtime' /\ (swept' = "done" => job'[i].age < Stale)
    <3>1. CASE i = j
      BY <1>0, <1>1, <1>3, <1>5, <2>1, <3>1
    <3>2. CASE i # j
      BY <1>1, <1>4, <1>5, <2>2, <3>2 DEF UploadsAreRetained, IsJob
    <3> QED BY <3>1, <3>2
  <2> QED BY <2>2 DEF UploadsAreRetained, IsJob
<1>9. CompleteMeansAll'
  BY <1>3, <1>4, <1>5 DEF CompleteMeansAll, IsJob
<1> QED BY <1>6, <1>7, <1>8, <1>9 DEF ImportsIInv

-----------------------------------------------------------------------------
(* Imports: the rows of a file.                                            *)

\* A request goes on to the next row or stops, and its job may get a result.
LEMMA RowKeeps ==
  ASSUME ImportsIInv, WatchTyped', NEW h \in Handlers, handler[h] # Resting,
         NEW next \in ImportHandlers, next.job = handler[h].job,
         handler' = [handler EXCEPT ![h] = next],
         NEW rows \in Seq(ImportResults),
         next.status = "complete" =>
           Len(rows) = next.row - 1 /\ \A n \in 1 .. Len(rows) : rows[n] # "unsaved",
         job' = [job EXCEPT ![next.job] = [job[next.job] EXCEPT !.rows = rows]],
         UNCHANGED <<alive, swept, downtime, uploads, done>>
  PROVE  ImportsIInv'
<1> DEFINE j == next.job
           mine == [job[j] EXCEPT !.rows = rows]
<1>0. ImportsTyped /\ HandlersWork /\ UploadsAreRetained /\ CompleteMeansAll
  BY DEF ImportsIInv
<1>1. j \in JobIds /\ IsJob(j) /\ alive /\ job[j].status = "processing" /\ job[j].age = 0
      /\ job[j] \in ImportJobs
  BY <1>0, HandlerIsWhole, JobIsWhole DEF HandlersWork
<1>2. /\ mine \in ImportJobs /\ mine.status = "processing" /\ mine.age = 0 /\ mine.rows = rows
      /\ mine.payload = job[j].payload /\ mine.upload = job[j].upload
  BY <1>1 DEF ImportJobs
<1>3. j = handler[h].job /\ job' = [job EXCEPT ![j] = mine]
  OBVIOUS
<1> HIDE DEF mine, j
<1>4. /\ \A i \in JobIds : job'[i] = IF i = j THEN mine ELSE job[i]
      /\ \A g \in Handlers : handler'[g] = IF g = h THEN next ELSE handler[g]
  BY <1>0, <1>3 DEF ImportsTyped
<1>5. ImportsTyped'
  BY <1>0, <1>1, <1>2, <1>3 DEF ImportsTyped, WatchTyped
<1>6. mine # NoJob /\ next # Resting
  BY <1>2, JobsAreNoNoJob, HandlersAreNoResting
<1>7. HandlersWork'
  <2>1. ASSUME NEW g \in Handlers, handler'[g] # Resting, g # h
        PROVE  /\ handler'[g] = handler[g] /\ handler[g] # Resting /\ handler[g].job \in JobIds
               /\ handler[g].job # j /\ job'[handler[g].job] = job[handler[g].job]
    BY <1>0, <1>3, <1>4, <2>1, HandlerIsWhole DEF HandlersWork
  <2>2. ASSUME NEW g \in Handlers, handler'[g] # Resting
        PROVE  LET i == handler'[g].job IN
               /\ alive' /\ job'[i] # NoJob /\ job'[i].status = "processing" /\ job'[i].age = 0
               /\ handler'[g].status = "complete" =>
                    /\ Len(job'[i].rows) = handler'[g].row - 1
                    /\ \A n \in 1 .. Len(job'[i].rows) : job'[i].rows[n] # "unsaved"
    <3>1. CASE g = h
      <4>1. handler'[g] = next /\ next.job = j /\ job'[j] = mine
        BY <1>1, <1>4, <3>1 DEF j
      <4> QED BY <1>1, <1>2, <1>6, <4>1
    <3>2. CASE g # h
      BY <1>0, <2>1, <2>2, <3>2 DEF HandlersWork, IsJob
    <3> QED BY <3>1, <3>2
  <2>3. ASSUME NEW f \in Handlers, NEW g \in Handlers, handler'[f] # Resting, handler'[g] # Resting,
               handler'[f].job = handler'[g].job
        PROVE  f = g
    <3>1. \A e \in Handlers : handler'[e].job = handler[e].job
      BY <1>3, <1>4 DEF j
    <3>2. handler[f] # Resting /\ handler[g] # Resting
      BY <1>4, <2>3
    <3> QED BY <1>0, <2>3, <3>1, <3>2 DEF HandlersWork
  <2> QED BY <2>2, <2>3 DEF HandlersWork, IsJob
<1>8. UploadsAreRetained'
  BY <1>0, <1>1, <1>2, <1>4 DEF UploadsAreRetained, IsJob
<1>9. CompleteMeansAll'
  <2>1. ASSUME NEW i \in JobIds, job'[i] # NoJob, job'[i].status = "complete"
        PROVE  i # j /\ job'[i] = job[i]
    BY <1>2, <1>4, <2>1
  <2>2. ASSUME NEW i \in JobIds, job'[i] # NoJob, job'[i].status = "complete"
        PROVE  Len(job'[i].rows) = Len(File) /\ \A n \in DOMAIN File : job'[i].rows[n] # "unsaved"
    BY <1>0, <2>1, <2>2 DEF CompleteMeansAll, IsJob
  <2> QED BY <2>2 DEF CompleteMeansAll, IsJob
<1> QED BY <1>5, <1>7, <1>8, <1>9 DEF ImportsIInv

\* A result is recorded and the request goes on.
LEMMA RecordedKeeps ==
  ASSUME ImportsIInv, WatchTyped', NEW h \in Handlers, Applying(h),
         NEW result \in ImportResults, Recorded(h, result),
         NEW status \in {"complete", "failed"}, NextRow(h, status),
         status = "complete" => handler[h].status = "complete" /\ result # "unsaved",
         UNCHANGED <<alive, swept, downtime, uploads, done>>
  PROVE  ImportsIInv'
<1> DEFINE j == handler[h].job
           next == [handler[h] EXCEPT !.row = handler[h].row + 1, !.status = status]
           rows == Append(job[j].rows, result)
<1>0. /\ handler[h] # Resting /\ handler[h] \in ImportHandlers /\ handler[h].row <= Len(File)
      /\ job[j] \in ImportJobs /\ j \in JobIds /\ Len(File) \in Nat
  BY HandlerIsWhole, JobIsWhole, ImportConstants DEF ImportsIInv, Applying, HandlersWork
<1>1. handler[h].row + 1 \in 1 .. Len(File) + 1 /\ handler[h].row \in Nat
  BY <1>0 DEF ImportHandlers
<1>2. /\ next \in ImportHandlers /\ next.job = j /\ next.row = handler[h].row + 1
      /\ next.status = status
  BY <1>0, <1>1 DEF ImportHandlers
<1>3. job[j].rows \in Seq(ImportResults)
  BY <1>0 DEF ImportJobs
<1>4. rows \in Seq(ImportResults) /\ Len(rows) = Len(job[j].rows) + 1
      /\ \A n \in 1 .. Len(rows) : rows[n] = IF n <= Len(job[j].rows) THEN job[j].rows[n] ELSE result
  BY <1>3
<1>5. handler' = [handler EXCEPT ![h] = next] /\ job' = [job EXCEPT ![j] = [job[j] EXCEPT !.rows = rows]]
  BY DEF NextRow, Recorded
<1> HIDE DEF next, rows
<1>6. ASSUME next.status = "complete"
      PROVE  Len(rows) = next.row - 1 /\ \A n \in 1 .. Len(rows) : rows[n] # "unsaved"
  <2>1. Len(job[j].rows) = handler[h].row - 1
        /\ \A n \in 1 .. Len(job[j].rows) : job[j].rows[n] # "unsaved"
    BY <1>0, <1>2, <1>6 DEF ImportsIInv, HandlersWork
  <2>2. Len(job[j].rows) \in Nat
    BY <1>3
  <2>3. result # "unsaved" /\ Len(rows) \in Nat
    BY <1>2, <1>4, <1>6, <2>2
  <2>4. Len(rows) = next.row - 1
    BY <1>1, <1>2, <1>4, <2>1, <2>2
  <2>5. ASSUME NEW n \in 1 .. Len(rows) PROVE rows[n] # "unsaved"
    <3>1. CASE n <= Len(job[j].rows)
      <4>1. n \in 1 .. Len(job[j].rows) /\ rows[n] = job[j].rows[n]
        BY <1>4, <2>2, <2>3, <3>1
      <4> QED BY <2>1, <4>1
    <3>2. CASE ~(n <= Len(job[j].rows))
      BY <1>4, <2>3, <3>2
    <3> QED BY <3>1, <3>2
  <2> QED BY <2>4, <2>5
<1> HIDE DEF j
<1> QED BY <1>0, <1>2, <1>4, <1>5, <1>6, RowKeeps DEF j

\* Nothing is recorded: the row was lost, or the request is over.
LEMMA UnrecordedKeeps ==
  ASSUME ImportsIInv, NEW h \in Handlers, Applying(h),
         NEW next \in ImportHandlers, next.job = handler[h].job, next.status # "complete",
         handler' = [handler EXCEPT ![h] = next],
         UNCHANGED <<job, followRule, identity, dueNow, alive, swept, downtime, uploads, done>>
  PROVE  ImportsIInv'
<1> DEFINE j == handler[h].job
<1>1. handler[h] # Resting /\ job[j] \in ImportJobs /\ j \in JobIds
  BY HandlerIsWhole, JobIsWhole DEF ImportsIInv, Applying, HandlersWork
<1>2. job[j].rows \in Seq(ImportResults) /\ job[j] = [job[j] EXCEPT !.rows = job[j].rows]
  BY <1>1 DEF ImportJobs
<1>3. job' = [job EXCEPT ![j] = job[j]]
  BY <1>1 DEF ImportsIInv, ImportsTyped
<1>4. WatchTyped'
  BY DEF ImportsIInv, ImportsTyped, WatchTyped
<1> HIDE DEF j
<1> QED BY <1>1, <1>2, <1>3, <1>4, RowKeeps DEF j

LEMMA RowStepsKeep ==
  ASSUME ImportsIInv, NEW h \in Handlers,
         SaveInvalidRow(h) \/ SaveImportRow(h) \/ SaveRowFails(h) \/ RequestExpires(h)
  PROVE  ImportsIInv'
<1>0. ImportsTyped /\ Applying(h) /\ Len(File) \in Nat
  BY ImportConstants DEF ImportsIInv, SaveInvalidRow, SaveImportRow, SaveRowFails, RequestExpires
<1>1. handler[h] \in ImportHandlers /\ handler[h].status \in {"complete", "failed"}
      /\ handler[h].row \in 1 .. Len(File)
  BY <1>0, HandlerIsWhole DEF Applying, ImportHandlers
<1>2. UNCHANGED <<alive, swept, downtime, uploads, done>>
  BY DEF SaveInvalidRow, SaveImportRow, SaveRowFails, RequestExpires, host
<1>3. WatchTyped'
  <2>1. CASE SaveImportRow(h)
    <3>1. CurrentRow(h) \in Followable
      BY <1>1, <2>1, ImportConstants DEF SaveImportRow, CurrentRow
    <3> QED BY <1>0, <2>1, <3>1 DEF SaveImportRow, FollowOrIgnore, ImportsTyped, WatchTyped
  <2>2. CASE ~SaveImportRow(h)
    BY <1>0, <2>2 DEF SaveInvalidRow, SaveRowFails, RequestExpires, watchlist, ImportsTyped, WatchTyped
  <2> QED BY <2>1, <2>2
<1>4. CASE SaveInvalidRow(h)
  <2>1. Recorded(h, "invalid") /\ NextRow(h, handler[h].status)
    BY <1>4 DEF SaveInvalidRow
  <2> DEFINE status == handler[h].status
  <2>2. "invalid" \in ImportResults
    BY DEF ImportResults
  <2>3. status \in {"complete", "failed"}
    BY <1>1
  <2> QED BY <1>0, <1>2, <1>3, <2>1, <2>2, <2>3, RecordedKeeps
<1>5. CASE SaveImportRow(h)
  <2> DEFINE result == IF followRule[CurrentRow(h)] = "none" THEN "added" ELSE "already_followed"
             status == handler[h].status
  <2>1. Recorded(h, result) /\ NextRow(h, status)
    BY <1>5 DEF SaveImportRow
  <2>2. result \in ImportResults /\ result # "unsaved"
    BY DEF ImportResults
  <2>3. status \in {"complete", "failed"}
    BY <1>1
  <2> HIDE DEF result
  <2> QED BY <1>0, <1>2, <1>3, <2>1, <2>2, <2>3, RecordedKeeps
<1>6. CASE SaveRowFails(h)
  <2>1. NextRow(h, "failed") /\ (Recorded(h, "unsaved") \/ UNCHANGED job)
    BY <1>6 DEF SaveRowFails, AfterUnsaved
  <2>2. CASE Recorded(h, "unsaved")
    <3> DEFINE status == "failed"
    <3>1. "unsaved" \in ImportResults /\ status \in {"complete", "failed"} /\ status # "complete"
      BY DEF ImportResults
    <3>2. NextRow(h, status)
      BY <2>1
    <3> HIDE DEF status
    <3> QED BY <1>0, <1>2, <1>3, <2>2, <3>1, <3>2, RecordedKeeps
  <2>3. CASE UNCHANGED job
    <3> DEFINE next == [handler[h] EXCEPT !.row = handler[h].row + 1, !.status = "failed"]
    <3>0. handler[h].row + 1 \in 1 .. Len(File) + 1
      BY <1>0, <1>1
    <3>1. next \in ImportHandlers /\ next.job = handler[h].job /\ next.status # "complete"
      BY <1>1, <3>0 DEF ImportHandlers
    <3>2. handler' = [handler EXCEPT ![h] = next]
      BY <2>1 DEF NextRow
    <3>3. UNCHANGED <<followRule, identity, dueNow>>
      BY <1>6 DEF SaveRowFails, watchlist
    <3> HIDE DEF next
    <3> QED BY <1>0, <1>2, <2>3, <3>1, <3>2, <3>3, UnrecordedKeeps
  <2> QED BY <2>1, <2>2, <2>3
<1>7. CASE RequestExpires(h)
  <2> DEFINE next == [handler[h] EXCEPT !.status = "interrupted"]
  <2>1. next \in ImportHandlers /\ next.job = handler[h].job /\ next.status # "complete"
    BY <1>1 DEF ImportHandlers
  <2>2. handler' = [handler EXCEPT ![h] = next] /\ UNCHANGED <<job, followRule, identity, dueNow>>
    BY <1>7 DEF RequestExpires, watchlist
  <2> HIDE DEF next
  <2> QED BY <1>0, <1>2, <2>1, <2>2, UnrecordedKeeps
<1> QED BY <1>4, <1>5, <1>6, <1>7

-----------------------------------------------------------------------------
(* Imports: the end of a request, maintenance, the process and the clock.  *)

\* Some jobs change or go, each into one that is still what it must be, and no
\* request works on any that does.
LEMMA JobsKeep ==
  ASSUME ImportsTyped', HandlersWork,
         \A h \in Handlers : handler'[h] # Resting =>
            handler'[h] = handler[h] /\ job'[handler[h].job] = job[handler[h].job] /\ alive',
         UploadsAreRetained', CompleteMeansAll'
  PROVE  ImportsIInv'
<1>1. ASSUME NEW h \in Handlers, handler'[h] # Resting
      PROVE  LET i == handler'[h].job IN
             /\ alive' /\ job'[i] # NoJob /\ job'[i].status = "processing" /\ job'[i].age = 0
             /\ handler'[h].status = "complete" =>
                  /\ Len(job'[i].rows) = handler'[h].row - 1
                  /\ \A n \in 1 .. Len(job'[i].rows) : job'[i].rows[n] # "unsaved"
  BY <1>1 DEF HandlersWork, IsJob
<1>2. ASSUME NEW f \in Handlers, NEW g \in Handlers, handler'[f] # Resting, handler'[g] # Resting,
             handler'[f].job = handler'[g].job
      PROVE  f = g
  BY <1>2 DEF HandlersWork
<1> QED BY <1>1, <1>2 DEF ImportsIInv, HandlersWork, IsJob

LEMMA FinishKeeps ==
  ASSUME ImportsIInv, NEW h \in Handlers, FinishImportJob(h) \/ FinishFails(h)
  PROVE  ImportsIInv'
<1> DEFINE j == handler[h].job
           mine == [job[j] EXCEPT !.status = handler[h].status,
                                  !.payload = handler[h].status # "complete"]
<1>0. ImportsTyped /\ HandlersWork /\ UploadsAreRetained /\ CompleteMeansAll /\ Finishing(h)
  BY DEF ImportsIInv, FinishImportJob, FinishFails
<1>1. /\ handler[h] # Resting /\ handler[h] \in ImportHandlers /\ j \in JobIds /\ job[j] \in ImportJobs
      /\ IsJob(j) /\ job[j].status = "processing" /\ Len(File) \in Nat
  BY <1>0, HandlerIsWhole, JobIsWhole, ImportConstants DEF Finishing, HandlersWork
<1>2. UNCHANGED <<followRule, identity, dueNow, alive, swept, downtime, uploads>>
      /\ handler' = [handler EXCEPT ![h] = Resting]
  BY DEF FinishImportJob, FinishFails, watchlist, host
<1>3. \A g \in Handlers : handler'[g] = IF g = h THEN Resting ELSE handler[g]
  BY <1>0, <1>2 DEF ImportsTyped
<1>4. ASSUME NEW g \in Handlers, handler'[g] # Resting
      PROVE  handler'[g] = handler[g] /\ handler[g].job # j /\ alive'
  BY <1>0, <1>1, <1>2, <1>3, <1>4 DEF HandlersWork
<1>5. CASE FinishFails(h)
  <2>1. UNCHANGED <<job, done>>
    BY <1>5 DEF FinishFails
  <2>2. ImportsTyped' /\ UploadsAreRetained' /\ CompleteMeansAll'
    BY <1>0, <1>2, <2>1 DEF ImportsTyped, UploadsAreRetained, CompleteMeansAll, IsJob
  <2> QED BY <1>0, <1>4, <2>1, <2>2, JobsKeep
<1>6. CASE FinishImportJob(h)
  <2>1. /\ job' = [job EXCEPT ![j] = mine]
        /\ done' = IF handler[h].status = "complete" THEN done \cup {job[j].upload} ELSE done
    BY <1>1, <1>6 DEF FinishImportJob
  <2>2. /\ mine \in ImportJobs /\ mine.status = handler[h].status /\ mine.upload = job[j].upload
        /\ (mine.status # "complete" => mine.payload) /\ mine.rows = job[j].rows
        /\ mine.status # "processing"
    <3>1. handler[h].status \in {"complete", "failed", "interrupted"}
      BY <1>1 DEF ImportHandlers
    <3>2. CASE handler[h].status = "complete"
      BY <1>1, <3>2 DEF ImportJobs
    <3>3. CASE handler[h].status # "complete"
      BY <1>1, <3>1, <3>3 DEF ImportJobs
    <3> QED BY <3>2, <3>3
  <2>3. handler[h].status = "complete" =>
          Len(mine.rows) = Len(File) /\ \A n \in 1 .. Len(File) : mine.rows[n] # "unsaved"
    <3>1. SUFFICES ASSUME handler[h].status = "complete"
                   PROVE  Len(mine.rows) = Len(File) /\ \A n \in 1 .. Len(File) : mine.rows[n] # "unsaved"
      OBVIOUS
    <3>2. Len(job[j].rows) = handler[h].row - 1
          /\ \A n \in 1 .. Len(job[j].rows) : job[j].rows[n] # "unsaved"
      BY <1>0, <1>1, <3>1 DEF HandlersWork
    <3>3. handler[h].row = Len(File) + 1
      BY <1>0, <1>1, <3>1 DEF Finishing, ImportHandlers
    <3> HIDE DEF mine, j
    <3>4. Len(job[j].rows) = Len(File)
      BY <1>1, <3>2, <3>3
    <3> QED BY <2>2, <3>2, <3>4
  <2> HIDE DEF mine, j
  <2>4. \A i \in JobIds : job'[i] = IF i = j THEN mine ELSE job[i]
    BY <1>0, <2>1 DEF ImportsTyped
  <2>5. ImportsTyped'
    BY <1>0, <1>1, <1>2, <2>1, <2>2 DEF ImportsTyped
  <2>6. UploadsAreRetained'
    <3>1. ASSUME NEW i \in JobIds, job'[i] # NoJob
          PROVE  /\ job'[i].status = "complete" => job'[i].upload \in done'
                 /\ job'[i].status # "complete" => job'[i].payload
                 /\ job'[i].status = "processing" =>
                      job'[i].age <= Stale + downtime' /\ (swept' = "done" => job'[i].age < Stale)
      <4>1. CASE i = j
        BY <2>1, <2>2, <2>4, <4>1
      <4>2. CASE i # j
        BY <1>0, <1>2, <2>1, <2>4, <3>1, <4>2 DEF UploadsAreRetained, IsJob
      <4> QED BY <4>1, <4>2
    <3> QED BY <3>1 DEF UploadsAreRetained, IsJob
  <2>7. CompleteMeansAll'
    <3>0. DOMAIN File = 1 .. Len(File)
      BY ImportsAssumption, LenProperties DEF ImportsAssumption
    <3>1. ASSUME NEW i \in JobIds, job'[i] # NoJob, job'[i].status = "complete"
          PROVE  Len(job'[i].rows) = Len(File) /\ \A n \in DOMAIN File : job'[i].rows[n] # "unsaved"
      <4>1. CASE i = j
        BY <2>2, <2>3, <2>4, <3>0, <3>1, <4>1
      <4>2. CASE i # j
        BY <1>0, <2>4, <3>1, <4>2 DEF CompleteMeansAll, IsJob
      <4> QED BY <4>1, <4>2
    <3> QED BY <3>1 DEF CompleteMeansAll, IsJob
  <2>8. ASSUME NEW g \in Handlers, handler'[g] # Resting
        PROVE  handler'[g] = handler[g] /\ job'[handler[g].job] = job[handler[g].job] /\ alive'
    <3>1. handler[g] # Resting /\ handler[g].job # j /\ handler[g].job \in JobIds
      BY <1>0, <1>4, <2>8, HandlerIsWhole DEF j
    <3> QED BY <1>4, <2>4, <2>8, <3>1
  <2> QED BY <1>0, <2>5, <2>6, <2>7, <2>8, JobsKeep
<1> QED BY <1>5, <1>6

\* A sweep takes jobs away that no request works on.
LEMMA SweptKeeps ==
  ASSUME ImportsIInv, job' = Swept, alive, swept' \in {"pruned", swept},
         UNCHANGED <<handler, followRule, identity, dueNow, alive, downtime, uploads, done>>
  PROVE  ImportsIInv'
<1>0. ImportsTyped /\ HandlersWork /\ UploadsAreRetained /\ CompleteMeansAll /\ Transient \in Nat \ {0}
  BY ImportConstants DEF ImportsIInv
<1>1. \A i \in JobIds : job'[i] = IF SweptJob(i) THEN NoJob ELSE job[i]
  BY DEF Swept
<1>2. job' \in [JobIds -> {NoJob} \cup ImportJobs]
  BY <1>0 DEF Swept, ImportsTyped
<1>3. ImportsTyped'
  BY <1>0, <1>2 DEF ImportsTyped
<1>4. ASSUME NEW g \in Handlers, handler'[g] # Resting
      PROVE  handler'[g] = handler[g] /\ job'[handler[g].job] = job[handler[g].job] /\ alive'
  <2>1. handler[g].job \in JobIds /\ job[handler[g].job].age = 0
    BY <1>0, <1>4, HandlerIsWhole DEF HandlersWork
  <2> QED BY <1>0, <1>1, <2>1 DEF SweptJob
<1>5. UploadsAreRetained' /\ CompleteMeansAll'
  BY <1>0, <1>1 DEF UploadsAreRetained, CompleteMeansAll, IsJob
<1> QED BY <1>0, <1>3, <1>4, <1>5, JobsKeep

\* Recovery ends the jobs left processing for too long.
LEMMA RecoverKeeps ==
  ASSUME ImportsIInv, RecoverInterruptedImportJobs
  PROVE  ImportsIInv'
<1> DEFINE Late(i) == IsJob(i) /\ job[i].status = "processing" /\ job[i].age >= Stale
           ended(i) == [job[i] EXCEPT !.status = "interrupted"]
<1>0. ImportsTyped /\ HandlersWork /\ UploadsAreRetained /\ CompleteMeansAll /\ Stale \in Nat \ {0}
  BY ImportConstants DEF ImportsIInv
<1>1. /\ alive /\ swept' = "done"
      /\ job' = [i \in JobIds |-> IF Late(i) THEN ended(i) ELSE job[i]]
      /\ UNCHANGED <<handler, followRule, identity, dueNow, alive, downtime, uploads, done>>
  BY DEF RecoverInterruptedImportJobs, watchlist
<1>2. ASSUME NEW i \in JobIds, IsJob(i)
      PROVE  /\ ended(i) \in ImportJobs /\ ended(i).status = "interrupted"
             /\ ended(i).payload = job[i].payload /\ job[i].age \in Nat
  <2>1. job[i] \in ImportJobs
    BY <1>0, <1>2, JobIsWhole
  <2>2. Transient \in Nat
    BY ImportConstants
  <2>3. job[i].age \in 0 .. Transient + 1
    BY <2>1 DEF ImportJobs
  <2>4. /\ ended(i) \in ImportJobs /\ ended(i).status = "interrupted"
        /\ ended(i).payload = job[i].payload
    BY <2>1 DEF ImportJobs
  <2> QED BY <2>2, <2>3, <2>4
<1> HIDE DEF ended
<1>3. \A i \in JobIds : job'[i] = IF Late(i) THEN ended(i) ELSE job[i]
  BY <1>1
<1>4. ASSUME NEW i \in JobIds PROVE job'[i] \in {NoJob} \cup ImportJobs
  BY <1>0, <1>2, <1>3 DEF ImportsTyped
<1>5. ImportsTyped'
  BY <1>0, <1>1, <1>4 DEF ImportsTyped
<1>6. ASSUME NEW g \in Handlers, handler'[g] # Resting
      PROVE  handler'[g] = handler[g] /\ job'[handler[g].job] = job[handler[g].job] /\ alive'
  <2>1. handler[g].job \in JobIds /\ job[handler[g].job].age = 0
    BY <1>0, <1>1, <1>6, HandlerIsWhole DEF HandlersWork
  <2>2. ~Late(handler[g].job)
    BY <1>0, <2>1
  <2> QED BY <1>1, <1>3, <2>1, <2>2
<1>7. UploadsAreRetained'
  <2>1. ASSUME NEW i \in JobIds, job'[i] # NoJob
        PROVE  /\ job'[i].status = "complete" => job'[i].upload \in done'
               /\ job'[i].status # "complete" => job'[i].payload
               /\ job'[i].status = "processing" =>
                    job'[i].age <= Stale + downtime' /\ (swept' = "done" => job'[i].age < Stale)
    <3>1. CASE Late(i)
      BY <1>0, <1>2, <1>3, <3>1 DEF UploadsAreRetained
    <3>2. CASE ~Late(i)
      BY <1>0, <1>1, <1>2, <1>3, <2>1, <3>2 DEF UploadsAreRetained, IsJob
    <3> QED BY <3>1, <3>2
  <2> QED BY <2>1 DEF UploadsAreRetained, IsJob
<1>8. CompleteMeansAll'
  <2>1. ASSUME NEW i \in JobIds, job'[i] # NoJob, job'[i].status = "complete"
        PROVE  job'[i] = job[i]
    BY <1>2, <1>3, <2>1
  <2>2. ASSUME NEW i \in JobIds, job'[i] # NoJob, job'[i].status = "complete"
        PROVE  Len(job'[i].rows) = Len(File) /\ \A n \in DOMAIN File : job'[i].rows[n] # "unsaved"
    BY <1>0, <2>1, <2>2 DEF CompleteMeansAll, IsJob
  <2> QED BY <2>2 DEF CompleteMeansAll, IsJob
<1> QED BY <1>0, <1>5, <1>6, <1>7, <1>8, JobsKeep

\* A crash ends every request; a restart and an hour change what they say.
LEMMA HostKeeps ==
  ASSUME ImportsIInv, ImportCrash \/ Restart
  PROVE  ImportsIInv'
<1>0. ImportsTyped /\ HandlersWork /\ UploadsAreRetained /\ CompleteMeansAll
  BY DEF ImportsIInv
<1>1. UNCHANGED <<job, followRule, identity, dueNow, downtime, uploads, done>>
  BY DEF ImportCrash, Restart, watchlist
<1>2. /\ alive' \in BOOLEAN /\ swept' \in {"due", swept} /\ (~alive' => swept' = "due")
      /\ handler' \in [Handlers -> {Resting} \cup ImportHandlers]
      /\ \A g \in Handlers : handler'[g] # Resting => handler'[g] = handler[g] /\ alive'
  BY <1>0 DEF ImportCrash, Restart, ImportsTyped, HandlersWork
<1>3. ImportsTyped'
  BY <1>0, <1>1, <1>2 DEF ImportsTyped
<1>4. UploadsAreRetained' /\ CompleteMeansAll'
  BY <1>0, <1>1, <1>2 DEF UploadsAreRetained, CompleteMeansAll, IsJob
<1> QED BY <1>0, <1>1, <1>2, <1>3, <1>4, JobsKeep

LEMMA HourKeeps ==
  ASSUME ImportsIInv, HourPasses
  PROVE  ImportsIInv'
<1> DEFINE aged(i) == [job[i] EXCEPT !.age = job[i].age + 1]
           Ages(i) == IsJob(i) /\ job[i].age <= Transient
<1>0. /\ ImportsTyped /\ HandlersWork /\ UploadsAreRetained /\ CompleteMeansAll
      /\ Stale \in Nat /\ Transient \in Nat /\ MaxDowntime \in Nat
  BY ImportConstants DEF ImportsIInv
<1>1. /\ job' = [i \in JobIds |-> IF Ages(i) THEN aged(i) ELSE job[i]] /\ dueNow' = {}
      /\ UNCHANGED <<handler, followRule, identity, alive, uploads, done>>
  BY DEF HourPasses, Older
<1>2. \/ alive /\ swept = "done" /\ swept' = "due" /\ downtime' = downtime
      \/ ~alive /\ swept' = swept /\ downtime' = downtime + 1 /\ downtime' \in 0 .. MaxDowntime
  BY <1>0 DEF HourPasses, ImportsTyped
<1>3. \A g \in Handlers : handler[g] = Resting
  BY <1>0 DEF HourPasses, HandlersWork
<1>4. ASSUME NEW i \in JobIds, IsJob(i) PROVE job[i].age \in Nat /\ job[i] \in ImportJobs
  <2>1. job[i] \in ImportJobs
    BY <1>0, <1>4, JobIsWhole
  <2>2. job[i].age \in 0 .. Transient + 1
    BY <2>1 DEF ImportJobs
  <2> QED BY <1>0, <2>1, <2>2
<1>5. ASSUME NEW i \in JobIds, Ages(i)
      PROVE  /\ aged(i) \in ImportJobs /\ aged(i).age = job[i].age + 1 /\ aged(i) # NoJob
             /\ aged(i).status = job[i].status /\ aged(i).payload = job[i].payload
             /\ aged(i).upload = job[i].upload /\ aged(i).rows = job[i].rows
  <2>1. job[i].age + 1 \in 0 .. Transient + 1
    BY <1>0, <1>4, <1>5
  <2>2. aged(i) \in ImportJobs /\ aged(i).age = job[i].age + 1
    BY <1>4, <1>5, <2>1 DEF ImportJobs
  <2>3. /\ aged(i).status = job[i].status /\ aged(i).payload = job[i].payload
        /\ aged(i).upload = job[i].upload /\ aged(i).rows = job[i].rows
    BY <1>4, <1>5 DEF ImportJobs
  <2> QED BY <2>2, <2>3, JobsAreNoNoJob
<1> HIDE DEF aged
<1>6. \A i \in JobIds : job'[i] = IF Ages(i) THEN aged(i) ELSE job[i]
  BY <1>1
<1>7. ImportsTyped'
  <2>1. \A i \in JobIds : job'[i] \in {NoJob} \cup ImportJobs
    BY <1>0, <1>5, <1>6 DEF ImportsTyped
  <2>2. job' \in [JobIds -> {NoJob} \cup ImportJobs]
    BY <1>1, <2>1
  <2> QED BY <1>0, <1>1, <1>2, <2>2 DEF ImportsTyped
<1>8. UploadsAreRetained'
  <2>0. downtime \in Nat
    BY <1>0 DEF ImportsTyped
  <2>1. ASSUME NEW i \in JobIds, job'[i] # NoJob
        PROVE  /\ job'[i].status = "complete" => job'[i].upload \in done'
               /\ job'[i].status # "complete" => job'[i].payload
               /\ job'[i].status = "processing" =>
                    job'[i].age <= Stale + downtime' /\ (swept' = "done" => job'[i].age < Stale)
    <3>1. IsJob(i)
      BY <1>5, <1>6, <2>1 DEF IsJob
    <3>2. /\ job'[i].status = job[i].status /\ job'[i].payload = job[i].payload
          /\ job'[i].upload = job[i].upload /\ job'[i].age \in {job[i].age, job[i].age + 1}
      BY <1>5, <1>6
    <3>3. /\ job[i].status = "complete" => job[i].upload \in done
          /\ job[i].status # "complete" => job[i].payload
          /\ job[i].status = "processing" =>
               job[i].age <= Stale + downtime /\ (swept = "done" => job[i].age < Stale)
      BY <1>0, <3>1 DEF UploadsAreRetained
    <3>4. swept' # "done"
      BY <1>0, <1>2 DEF ImportsTyped
    <3>5. job[i].status = "processing" => job'[i].age <= Stale + downtime'
      BY <1>0, <1>2, <1>4, <2>0, <3>1, <3>2, <3>3
    <3> QED BY <1>1, <3>2, <3>3, <3>4, <3>5
  <2> QED BY <2>1 DEF UploadsAreRetained, IsJob
<1>9. CompleteMeansAll'
  <2>1. ASSUME NEW i \in JobIds, job'[i] # NoJob, job'[i].status = "complete"
        PROVE  Len(job'[i].rows) = Len(File) /\ \A n \in DOMAIN File : job'[i].rows[n] # "unsaved"
    <3>1. IsJob(i) /\ job'[i].status = job[i].status /\ job'[i].rows = job[i].rows
      BY <1>5, <1>6, <2>1 DEF IsJob
    <3> QED BY <1>0, <2>1, <3>1 DEF CompleteMeansAll
  <2> QED BY <2>1 DEF CompleteMeansAll, IsJob
<1> QED BY <1>0, <1>1, <1>3, <1>7, <1>8, <1>9, JobsKeep

LEMMA ImportsStart == ImportsInit => ImportsIInv
<1> SUFFICES ASSUME ImportsInit PROVE ImportsIInv
  OBVIOUS
<1>1. ImportsTyped
  BY ImportConstants DEF ImportsInit, ImportsTyped
<1> QED BY <1>1 DEF ImportsInit, ImportsIInv, HandlersWork, UploadsAreRetained, CompleteMeansAll, IsJob

LEMMA ImportsStep ==
  ASSUME ImportsIInv, [ImportsNext]_importVars
  PROVE  ImportsIInv'
<1>0. ImportsTyped
  BY DEF ImportsIInv
<1>1. ASSUME NEW h \in Handlers, NEW j \in JobIds, ImportArtists(h, j) PROVE ImportsIInv'
  <2>1. uploads + 1 \in 1 .. MaxUploads /\ uploads' \in 0 .. MaxUploads
    BY <1>0, <1>1, ImportConstants DEF ImportArtists, ImportsTyped
  <2>2. CreateImportJobWithPayload(h, j, uploads + 1)
    BY <1>1 DEF ImportArtists
  <2> DEFINE upload == uploads + 1
  <2>3. upload \in 1 .. MaxUploads /\ CreateImportJobWithPayload(h, j, upload)
    BY <2>1, <2>2
  <2> HIDE DEF upload
  <2> QED BY <2>1, <2>3, CreateKeeps
<1>2. ASSUME NEW h \in Handlers, NEW from \in JobIds, NEW j \in JobIds, ResumeArtistImport(h, from, j)
      PROVE  ImportsIInv'
  <2> DEFINE upload == job[from].upload
  <2>1. job[from] \in ImportJobs
    BY <1>0, <1>2, JobIsWhole DEF ResumeArtistImport, Resumable
  <2>2. upload \in 1 .. MaxUploads /\ uploads' \in 0 .. MaxUploads
    BY <1>0, <1>2, <2>1 DEF ResumeArtistImport, ImportsTyped, ImportJobs
  <2>3. CreateImportJobWithPayload(h, j, upload)
    BY <1>2 DEF ResumeArtistImport
  <2> HIDE DEF upload
  <2> QED BY <2>2, <2>3, CreateKeeps
<1>3. ASSUME NEW h \in Handlers,
             \/ SaveInvalidRow(h) \/ SaveImportRow(h) \/ SaveRowFails(h)
             \/ RequestExpires(h) \/ FinishImportJob(h) \/ FinishFails(h)
      PROVE  ImportsIInv'
  BY <1>3, RowStepsKeep, FinishKeeps
<1>4. ASSUME NEW a \in Followable, CustomizeRules(a) \/ MemberUnfollows(a) PROVE ImportsIInv'
  <2>1. WatchTyped' /\ UNCHANGED <<job, handler, alive, swept, downtime, uploads, done>>
    BY <1>0, <1>4 DEF CustomizeRules, MemberUnfollows, host, WatchTyped, ImportsTyped
  <2> QED BY <2>1, WatchlistKeeps
<1>5. CASE PruneExpiredImports
  BY <1>5, SweptKeeps DEF PruneExpiredImports, watchlist
<1>6. CASE CleanupRetention
  BY <1>6, SweptKeeps DEF CleanupRetention, watchlist, host
<1>7. CASE UNCHANGED importVars
  <2>1. WatchTyped' /\ UNCHANGED <<job, handler, alive, swept, downtime, uploads, done>>
    BY <1>0, <1>7 DEF importVars, WatchTyped, ImportsTyped
  <2> QED BY <2>1, WatchlistKeeps
<1> QED BY <1>1, <1>2, <1>3, <1>4, <1>5, <1>6, <1>7, RecoverKeeps, HostKeeps, HourKeeps DEF ImportsNext

-----------------------------------------------------------------------------
(* Imports: what stopped part-way is still there.                          *)

HasAJob == \A u \in (1 .. uploads) \ done : \E j \in JobIds : IsJob(j) /\ job[j].upload = u

\* A job of an upload of which none is complete is processing or can be resumed.
LEMMA JobsAreUseful == ImportsIInv => (HasAJob <=> StoppedImportsAreKept)
<1> SUFFICES ASSUME ImportsIInv PROVE HasAJob <=> StoppedImportsAreKept
  OBVIOUS
<1>1. ASSUME NEW j \in JobIds, IsJob(j), job[j].upload \notin done
      PROVE  job[j].status = "processing" \/ Resumable(j)
  <2>1. job[j].status # "complete" /\ job[j].payload
    BY <1>1 DEF ImportsIInv, UploadsAreRetained
  <2>2. job[j].status \in {"processing", "complete", "failed", "interrupted"}
    BY <1>1, JobIsWhole DEF ImportsIInv, ImportJobs
  <2> QED BY <1>1, <2>1, <2>2 DEF Resumable
<1> QED BY <1>1 DEF HasAJob, StoppedImportsAreKept

\* No job goes but those of uploads that are complete.
JobsStay ==
  /\ \A j \in JobIds : IsJob(j) /\ job[j].upload \notin done =>
       job'[j] # NoJob /\ job'[j].upload = job[j].upload
  /\ done \subseteq done'

LEMMA SweptStays ==
  ASSUME BriefDowntime, ImportsIInv, job' = Swept, UNCHANGED done
  PROVE  JobsStay
<1>0. Stale \in Nat /\ Transient \in Nat /\ MaxDowntime \in Nat /\ downtime \in 0 .. MaxDowntime
  BY ImportConstants DEF ImportsIInv, ImportsTyped
<1>1. ASSUME NEW j \in JobIds, IsJob(j), job[j].upload \notin done PROVE ~SweptJob(j)
  <2>1. job[j].status # "complete" /\ job[j].payload
        /\ (job[j].status = "processing" => job[j].age <= Stale + downtime)
    BY <1>1 DEF ImportsIInv, UploadsAreRetained
  <2>2. job[j].status \in {"processing", "complete", "failed", "interrupted"}
        /\ job[j].age \in 0 .. Transient + 1
    BY <1>1, JobIsWhole DEF ImportsIInv, ImportJobs
  <2>3. CASE job[j].status = "processing"
    <3>1. job[j].age <= Transient
      BY <1>0, <2>1, <2>2, <2>3 DEF BriefDowntime
    <3> QED BY <1>0, <2>2, <3>1 DEF SweptJob
  <2>4. CASE job[j].status # "processing"
    BY <1>1, <2>1, <2>2, <2>4 DEF SweptJob, Resumable
  <2> QED BY <2>3, <2>4
<1> QED BY <1>1 DEF JobsStay, Swept, IsJob

\* An edit of a job leaves a job of the same upload.
LEMMA EditsKeepTheUpload ==
  ASSUME NEW x \in ImportJobs
  PROVE  /\ \A r : [x EXCEPT !.rows = r] # NoJob /\ [x EXCEPT !.rows = r].upload = x.upload
         /\ \A s : [x EXCEPT !.status = s] # NoJob /\ [x EXCEPT !.status = s].upload = x.upload
         /\ \A n : [x EXCEPT !.age = n] # NoJob /\ [x EXCEPT !.age = n].upload = x.upload
<1>1. DOMAIN x = {"status", "payload", "age", "upload", "rows"}
  BY DEF ImportJobs
<1>2. DOMAIN NoJob = {"status"}
  BY DEF NoJob
<1>3. DOMAIN x # DOMAIN NoJob
  BY <1>1, <1>2
<1> QED BY <1>1, <1>3

LEMMA JobsStayInSteps ==
  ASSUME BriefDowntime, ImportsIInv, [ImportsNext]_importVars
  PROVE  JobsStay
<1>0. ImportsTyped /\ HandlersWork
  BY DEF ImportsIInv
<1>1. \A j \in JobIds : IsJob(j) => job[j] \in ImportJobs
  BY <1>0, JobIsWhole
<1>2. ASSUME NEW h \in Handlers, NEW j \in JobIds, NEW upload, CreateImportJobWithPayload(h, j, upload)
      PROVE  JobsStay
  BY <1>0, <1>2 DEF CreateImportJobWithPayload, JobsStay, ImportsTyped, IsJob
<1>3. ASSUME NEW h \in Handlers, NEW j \in JobIds,
             ImportArtists(h, j) \/ \E from \in JobIds : ResumeArtistImport(h, from, j)
      PROVE  JobsStay
  BY <1>2, <1>3 DEF ImportArtists, ResumeArtistImport
<1>4. ASSUME UNCHANGED <<job, done>> PROVE JobsStay
  BY <1>4 DEF JobsStay, IsJob
<1>5. ASSUME NEW h \in Handlers, handler[h] # Resting, NEW result, Recorded(h, result), UNCHANGED done
      PROVE  JobsStay
  <2> DEFINE j == handler[h].job
  <2>1. j \in JobIds /\ IsJob(j) /\ job' = [job EXCEPT ![j] = [job[j] EXCEPT !.rows = Append(job[j].rows, result)]]
    BY <1>0, <1>5, HandlerIsWhole DEF HandlersWork, Recorded
  <2>2. job'[j] # NoJob /\ job'[j].upload = job[j].upload
    BY <1>0, <1>1, <2>1, EditsKeepTheUpload DEF ImportsTyped
  <2> HIDE DEF j
  <2>3. \A i \in JobIds : i # j => job'[i] = job[i]
    BY <1>0, <2>1 DEF ImportsTyped
  <2> QED BY <1>5, <2>2, <2>3 DEF JobsStay, IsJob
<1>6. ASSUME NEW h \in Handlers,
             SaveInvalidRow(h) \/ SaveImportRow(h) \/ SaveRowFails(h) \/ RequestExpires(h)
      PROVE  JobsStay
  <2>1. CASE UNCHANGED <<job, done>>
    BY <1>4, <2>1
  <2>2. CASE ~UNCHANGED <<job, done>>
    <3>1. handler[h] # Resting /\ UNCHANGED done /\ \E result : Recorded(h, result)
      BY <1>6, <2>2 DEF SaveInvalidRow, SaveImportRow, SaveRowFails, RequestExpires, Applying
    <3> QED BY <1>5, <3>1
  <2> QED BY <2>1, <2>2
<1>7. ASSUME NEW h \in Handlers, FinishImportJob(h) \/ FinishFails(h) PROVE JobsStay
  <2>1. CASE UNCHANGED <<job, done>>
    BY <1>4, <2>1
  <2>2. CASE ~UNCHANGED <<job, done>>
    <3> DEFINE j == handler[h].job  status == handler[h].status  payload == status # "complete"
    <3>1. /\ j \in JobIds /\ IsJob(j)
          /\ job' = [job EXCEPT ![j] = [job[j] EXCEPT !.status = status, !.payload = payload]]
          /\ done \subseteq done'
      BY <1>0, <1>7, <2>2, HandlerIsWhole DEF FinishImportJob, FinishFails, Finishing, HandlersWork
    <3> HIDE DEF j, status, payload
    <3> DEFINE x == job[j]  mine == [x EXCEPT !.status = status, !.payload = payload]
    <3>0. x \in ImportJobs /\ job' = [job EXCEPT ![j] = mine]
      BY <1>1, <3>1
    <3> HIDE DEF x
    <3>4. mine # NoJob /\ mine.upload = x.upload
      <4>1. DOMAIN mine = DOMAIN x /\ DOMAIN x = {"status", "payload", "age", "upload", "rows"}
        BY <3>0 DEF ImportJobs
      <4>2. DOMAIN NoJob = {"status"} /\ "age" \notin {"status"}
        BY DEF NoJob
      <4>3. mine.upload = x.upload
        BY <3>0 DEF ImportJobs
      <4> QED BY <4>1, <4>2, <4>3
    <3> HIDE DEF mine
    <3>2. job'[j] # NoJob /\ job'[j].upload = job[j].upload
      BY <1>0, <3>0, <3>1, <3>4 DEF ImportsTyped, x
    <3>3. \A i \in JobIds : i # j => job'[i] = job[i]
      BY <1>0, <3>1 DEF ImportsTyped
    <3> QED BY <3>1, <3>2, <3>3 DEF JobsStay, IsJob
  <2> QED BY <2>1, <2>2
<1>8. CASE PruneExpiredImports \/ CleanupRetention
  BY <1>8, SweptStays DEF PruneExpiredImports, CleanupRetention
<1>9. CASE RecoverInterruptedImportJobs
  BY <1>1, <1>9, EditsKeepTheUpload DEF RecoverInterruptedImportJobs, JobsStay, IsJob
<1>10. CASE HourPasses
  BY <1>1, <1>10, EditsKeepTheUpload DEF HourPasses, Older, JobsStay, IsJob
<1>11. CASE \/ \E a \in Followable : CustomizeRules(a) \/ MemberUnfollows(a)
            \/ ImportCrash \/ Restart \/ UNCHANGED importVars
  <2>1. UNCHANGED <<job, done>>
    BY <1>11 DEF CustomizeRules, MemberUnfollows, ImportCrash, Restart, importVars
  <2> QED BY <1>4, <2>1
<1> QED BY <1>3, <1>6, <1>7, <1>8, <1>9, <1>10, <1>11 DEF ImportsNext

\* A new upload comes with a job of its own.
LEMMA UploadsHaveAJob ==
  ASSUME BriefDowntime, ImportsIInv, HasAJob, [ImportsNext]_importVars
  PROVE  HasAJob'
<1>0. JobsStay /\ ImportsTyped
  BY JobsStayInSteps DEF ImportsIInv
<1>1. ASSUME NEW u \in (1 .. uploads) \ done'
      PROVE  \E j \in JobIds : job'[j] # NoJob /\ job'[j].upload = u
  <2>1. PICK j \in JobIds : IsJob(j) /\ job[j].upload = u /\ u \notin done
    BY <1>0, <1>1 DEF HasAJob, JobsStay
  <2> QED BY <1>0, <2>1 DEF JobsStay
<1>2. CASE uploads' = uploads
  BY <1>1, <1>2 DEF HasAJob, IsJob
<1>3. CASE uploads' # uploads
  <2>1. PICK h \in Handlers, j \in JobIds : ImportArtists(h, j)
    BY <1>3 DEF ImportsNext, ResumeArtistImport, SaveInvalidRow, SaveImportRow, SaveRowFails, RequestExpires,
       FinishImportJob, FinishFails, CustomizeRules, MemberUnfollows, PruneExpiredImports,
       RecoverInterruptedImportJobs, CleanupRetention, ImportCrash, Restart, HourPasses, importVars
  <2>2. /\ uploads' = uploads + 1 /\ done' = done
        /\ job' = [job EXCEPT ![j] = [status |-> "processing", payload |-> TRUE, age |-> 0,
                                      upload |-> uploads + 1, rows |-> <<>>]]
    BY <2>1 DEF ImportArtists, CreateImportJobWithPayload
  <2>3. job'[j].upload = uploads + 1 /\ job'[j].status = "processing"
    BY <1>0, <2>2 DEF ImportsTyped
  <2>4. job'[j] # NoJob
    BY <2>3 DEF NoJob
  <2>5. \A u \in 1 .. uploads' : u \in 1 .. uploads \/ u = uploads + 1
    BY <1>0, <2>2 DEF ImportsTyped
  <2> QED BY <1>1, <2>2, <2>3, <2>4, <2>5 DEF HasAJob, IsJob
<1> QED BY <1>2, <1>3

\* The rules a member chose and verified identities stay as they are.
LEMMA ChoicesStay ==
  ASSUME ImportsIInv, [ImportsNext]_importVars, NEW a \in Followable
  PROVE  /\ followRule[a] = "custom" /\ followRule'[a] # "custom" => MemberUnfollows(a)
         /\ identity[a] = "verified" => identity'[a] = "verified"
<1>0. ImportsTyped
  BY DEF ImportsIInv
<1>1. CASE \E h \in Handlers : SaveImportRow(h)
  <2>1. PICK h \in Handlers : SaveImportRow(h)
    BY <1>1
  <2> DEFINE b == CurrentRow(h)
  <2>2. /\ identity' = [identity EXCEPT ![b] = IF identity[b] = "none" THEN "pending" ELSE identity[b]]
        /\ followRule' = [followRule EXCEPT ![b] = IF followRule[b] = "none" THEN "inherit" ELSE followRule[b]]
    BY <2>1 DEF SaveImportRow, FollowOrIgnore
  <2> HIDE DEF b
  <2> QED BY <1>0, <2>2 DEF ImportsTyped
<1>2. CASE \E b \in Followable : CustomizeRules(b) \/ MemberUnfollows(b)
  BY <1>0, <1>2 DEF CustomizeRules, MemberUnfollows, ImportsTyped
<1>3. CASE UNCHANGED <<followRule, identity>>
  BY <1>3
<1>4. \/ \E h \in Handlers : SaveImportRow(h)
      \/ \E b \in Followable : CustomizeRules(b) \/ MemberUnfollows(b)
      \/ UNCHANGED <<followRule, identity>>
  BY DEF ImportsNext, ImportArtists, ResumeArtistImport, CreateImportJobWithPayload, SaveInvalidRow,
     SaveRowFails, RequestExpires, FinishImportJob, FinishFails, PruneExpiredImports,
     RecoverInterruptedImportJobs, CleanupRetention, ImportCrash, Restart, HourPasses, importVars, watchlist
<1> QED BY <1>1, <1>2, <1>3, <1>4

-----------------------------------------------------------------------------
(* Theorems about imports.                                                 *)

\* Always, of every run of the importer, the jobs, requests and rules are as
\* HandlersWork and UploadsAreRetained say, and a job is complete only with a
\* stored result for every row of its file.
THEOREM ImportsInvariance == ImportsSpec => []ImportsIInv
<1>1. ImportsIInv /\ [ImportsNext]_importVars => ImportsIInv'
  BY ImportsStep
<1> QED BY <1>1, ImportsStart, PTL DEF ImportsSpec

\* When the process is not down for longer than the retention less the hour of
\* grace, the sweep leaves a job for every upload that is not wholly imported:
\* whatever stopped, and wherever, its owner can resume it.
THEOREM NothingStoppedIsLost == ASSUME BriefDowntime PROVE ImportsSpec => []StoppedImportsAreKept
<1>1. ImportsInit => HasAJob
  BY DEF ImportsInit, HasAJob
<1>2. ImportsIInv /\ HasAJob /\ [ImportsNext]_importVars => HasAJob'
  BY UploadsHaveAJob
<1>3. ImportsIInv /\ HasAJob => StoppedImportsAreKept
  BY JobsAreUseful
<1> QED BY <1>1, <1>2, <1>3, ImportsInvariance, PTL DEF ImportsSpec

\* What the status of an import tells its owner is so: complete means all of it,
\* anything else can be resumed, and resuming takes neither the rules a member
\* chose nor an identity that was verified.
THEOREM ImportsAreTruthful == ASSUME BriefDowntime PROVE ImportsSpec => ImportsTellTheTruth
<1>1. ImportsIInv => ImportsTypeOK /\ CompleteMeansAll
  <2>1. SUFFICES ASSUME ImportsIInv PROVE ImportsTypeOK /\ CompleteMeansAll
    OBVIOUS
  <2>2. ASSUME NEW j \in JobIds, IsJob(j)
        PROVE  /\ job[j].status \in {"processing", "complete", "failed", "interrupted"}
               /\ job[j].age \in 0 .. Transient + 1 /\ job[j].upload \in 1 .. MaxUploads
               /\ \A i \in DOMAIN job[j].rows :
                    job[j].rows[i] \in {"added", "already_followed", "invalid", "unsaved"}
    <3>1. job[j] \in ImportJobs
      BY <2>1, <2>2, JobIsWhole DEF ImportsIInv
    <3>2. job[j].rows \in Seq(ImportResults)
      BY <3>1 DEF ImportJobs
    <3>3. \A i \in DOMAIN job[j].rows : job[j].rows[i] \in ImportResults
      BY <3>2
    <3> QED BY <3>1, <3>3 DEF ImportJobs, ImportResults
  <2>3. ASSUME NEW h \in Handlers, handler[h] # Resting
        PROVE  handler[h].row \in 1 .. Len(File) + 1 /\ handler[h].status \in {"complete", "failed", "interrupted"}
    BY <2>1, <2>3, HandlerIsWhole DEF ImportsIInv, ImportHandlers
  <2> QED BY <2>1, <2>2, <2>3 DEF ImportsIInv, ImportsTyped, ImportsTypeOK
<1>2. ImportsIInv /\ [ImportsNext]_importVars =>
        [\A a \in Followable :
           /\ followRule[a] = "custom" /\ followRule'[a] # "custom" => MemberUnfollows(a)
           /\ identity[a] = "verified" => identity'[a] = "verified"]_importVars
  BY ChoicesStay
<1> QED BY <1>1, <1>2, ImportsInvariance, NothingStoppedIsLost, PTL
       DEF ImportsSpec, ImportsTellTheTruth, ReplayKeepsChoices

-----------------------------------------------------------------------------
(* Resolution: lemmas about requests and artists.                          *)

LEMMA ResolutionConstants ==
  /\ IsFiniteSet(Numbers) /\ OnITunes \subseteq Profiles
  /\ Nothing \notin Profiles /\ Nothing \notin Canonical
  /\ Nothing \notin RequestRows /\ Nothing \notin ArtistRows
  /\ BatchSize \in Nat /\ MaxRequested \in Nat /\ Len(Delays) \in Nat \ {0} /\ LongestDelay \in Nat
  /\ \A n \in 1 .. Len(Delays) : Delays[n] \in 0 .. LongestDelay
<1>1. Delays \in Seq(Nat) /\ Delays # <<>> /\ \A n \in DOMAIN Delays : Delays[n] <= LongestDelay
  BY ResolutionAssumption DEF ResolutionAssumption, LongestDelay
<1>2. Len(Delays) \in Nat \ {0} /\ DOMAIN Delays = 1 .. Len(Delays)
  BY <1>1, EmptySeq, LenProperties
<1>3. \A n \in 1 .. Len(Delays) : Delays[n] \in Nat
  BY <1>1, ElementOfSeq
<1>4. LongestDelay \in Nat
  BY <1>2, <1>3 DEF LongestDelay
<1>5. \A n \in 1 .. Len(Delays) : Delays[n] \in 0 .. LongestDelay
  BY <1>1, <1>2, <1>3, <1>4
<1> QED BY <1>2, <1>4, <1>5, ResolutionAssumption, NothingIsNoRow DEF ResolutionAssumption

ArtistsSound ==
  /\ artist \in [Canonical -> ArtistRows \cup {Nothing}]
  /\ following \subseteq Askers \X {a \in Canonical : artist[a] # Nothing}
  /\ IdentitiesAgree
AskersTyped ==
  /\ requested \in 0 .. MaxRequested
  /\ choosing \in [Askers -> [row : RequestRows, option : Canonical] \cup {Nothing}]

LEMMA RequestIsWhole ==
  ASSUME ResolutionTyped, NEW i \in Numbers, IsRequest(i)
  PROVE  requests[i] \in RequestRows /\ requests[i].number = i
BY DEF ResolutionTyped, IsRequest

LEMMA StoredIsAnArtist ==
  ASSUME ArtistsSound, NEW a \in Canonical
  PROVE  /\ Stored(a) \in ArtistRows /\ Stored(a).link = Stored(a).spotify
         /\ Stored(a).itunes # Nothing => ~ClaimedByAnother(a, Stored(a).itunes)
         /\ artist[a] # Nothing => Stored(a) = artist[a]
<1>1. /\ NewArtist \in ArtistRows /\ NewArtist.link = NewArtist.spotify
      /\ NewArtist.itunes = Nothing
  BY DEF NewArtist, ArtistRows
<1>2. CASE artist[a] = Nothing
  BY <1>1, <1>2 DEF Stored
<1>3. CASE artist[a] # Nothing
  BY <1>3 DEF Stored, ArtistsSound, IdentitiesAgree
<1> QED BY <1>2, <1>3

\* A stored Spotify identity is never replaced.
LEMMA UpsertedIsAnArtist ==
  ASSUME NEW old \in ArtistRows, old.link = old.spotify, NEW p \in OnSpotifyOnly \cup {Nothing}
  PROVE  /\ Upserted(old, p) \in ArtistRows
         /\ Upserted(old, p).link = Upserted(old, p).spotify
         /\ Upserted(old, p).itunes = old.itunes
         /\ old.spotify # Nothing => Upserted(old, p).spotify = old.spotify
<1>1. CASE old.spotify = Nothing /\ p # Nothing
  BY <1>1 DEF Upserted, ArtistRows
<1>2. CASE ~(old.spotify = Nothing /\ p # Nothing)
  BY <1>2 DEF Upserted
<1> QED BY <1>1, <1>2

\* One artist changes, and the follows that are new are of that artist.
LEMMA OneArtistKeeps ==
  ASSUME ArtistsSound, NEW a \in Canonical, NEW x \in ArtistRows, x.link = x.spotify,
         x.itunes # Nothing => ~ClaimedByAnother(a, x.itunes),
         artist' = [artist EXCEPT ![a] = x],
         following' \subseteq following \cup (Askers \X {a})
  PROVE  ArtistsSound'
<1>1. x # Nothing /\ \A b \in Canonical : artist'[b] = IF b = a THEN x ELSE artist[b]
  BY ResolutionConstants DEF ArtistsSound
<1>2. artist' \in [Canonical -> ArtistRows \cup {Nothing}]
  BY DEF ArtistsSound
<1>3. following' \subseteq Askers \X {b \in Canonical : artist'[b] # Nothing}
  BY <1>1 DEF ArtistsSound
<1>4. ASSUME NEW b \in Canonical, artist'[b] # Nothing
      PROVE  /\ artist'[b].link = artist'[b].spotify
             /\ artist'[b].itunes # Nothing =>
                  \A c \in Canonical \ {b} : artist'[c] # Nothing => artist'[c].itunes # artist'[b].itunes
  <2>1. CASE b = a
    BY <1>1, <2>1 DEF ClaimedByAnother
  <2>2. CASE b # a
    BY <1>1, <1>4, <2>2 DEF ArtistsSound, IdentitiesAgree, ClaimedByAnother
  <2> QED BY <2>1, <2>2
<1> QED BY <1>2, <1>3, <1>4 DEF ArtistsSound, IdentitiesAgree, ClaimedByAnother

\* A request ends with a follow of its member, or nothing happens.
LEMMA CompleteKeeps ==
  ASSUME ResolutionIInv, NEW row \in RequestRows, NEW a \in Canonical, CompleteResolution(row, a)
  PROVE  /\ ArtistsSound'
         /\ \/ UNCHANGED requests
            \/ /\ requests' = [requests EXCEPT ![row.number] = Nothing]
               /\ requests[row.number].member = row.member /\ <<row.member, a>> \in following'
         /\ \A b \in Canonical : artist[b] # Nothing /\ artist[b].spotify # Nothing =>
              artist'[b].spotify = artist[b].spotify
<1>0. ArtistsSound /\ row.member \in Askers /\ row.profile \in Profiles
  BY DEF ResolutionIInv, ResolutionTyped, ArtistsSound, RequestRows
<1>1. CASE Unfit(row, a)
  <2>1. UNCHANGED <<requests, artist, following>>
    BY <1>1 DEF CompleteResolution
  <2> QED BY <1>0, <2>1 DEF ArtistsSound, IdentitiesAgree, ClaimedByAnother
<1>2. CASE ~Unfit(row, a)
  <2> DEFINE old == Stored(a)
             x == IF row.profile \in OnITunes THEN [old EXCEPT !.itunes = row.profile]
                  ELSE Upserted(old, row.profile)
  <2>1. /\ requests' = [requests EXCEPT ![row.number] = Nothing]
        /\ requests[row.number].member = row.member
        /\ following' = following \cup {<<row.member, a>>} /\ artist' = [artist EXCEPT ![a] = x]
    BY <1>2 DEF CompleteResolution, Unfit, StillThere, RowGone, Followed
  <2>2. /\ old \in ArtistRows /\ old.link = old.spotify
        /\ old.itunes # Nothing => ~ClaimedByAnother(a, old.itunes)
        /\ artist[a] # Nothing => old = artist[a]
    BY <1>0, StoredIsAnArtist
  <2> HIDE DEF old
  <2>3. /\ x \in ArtistRows /\ x.link = x.spotify
        /\ x.itunes # Nothing => ~ClaimedByAnother(a, x.itunes)
        /\ old.spotify # Nothing => x.spotify = old.spotify
    <3>1. CASE row.profile \in OnITunes
      BY <1>2, <2>2, <3>1 DEF ArtistRows, Unfit
    <3>2. CASE row.profile \notin OnITunes
      <4>1. row.profile \in OnSpotifyOnly
        BY <1>0, <3>2 DEF OnSpotifyOnly
      <4>2. x = Upserted(old, row.profile)
        BY <3>2
      <4> DEFINE p == row.profile
      <4>3. p \in OnSpotifyOnly \cup {Nothing} /\ x = Upserted(old, p)
        BY <4>1, <4>2
      <4> HIDE DEF x, p
      <4>4. /\ x \in ArtistRows /\ x.link = x.spotify /\ x.itunes = old.itunes
            /\ old.spotify # Nothing => x.spotify = old.spotify
        BY <2>2, <4>3, UpsertedIsAnArtist
      <4> QED BY <2>2, <4>4
    <3> QED BY <3>1, <3>2
  <2> HIDE DEF x
  <2>4. ArtistsSound'
    <3>1. following' \subseteq following \cup (Askers \X {a})
      BY <1>0, <2>1
    <3> QED BY <1>0, <2>1, <2>3, <3>1, OneArtistKeeps
  <2>5. ASSUME NEW b \in Canonical, artist[b] # Nothing, artist[b].spotify # Nothing
        PROVE  artist'[b].spotify = artist[b].spotify
    <3>1. artist'[b] = IF b = a THEN x ELSE artist[b]
      BY <1>0, <2>1 DEF ArtistsSound
    <3> QED BY <2>2, <2>3, <2>5, <3>1
  <2> QED BY <2>1, <2>4, <2>5
<1> QED BY <1>1, <1>2

\* The row of one number changes; a pass knows of it no more if it is now under
\* review.
LEMMA OneRequestKeeps ==
  ASSUME ResolutionIInv, NEW i \in Numbers, NEW x \in RequestRows \cup {Nothing},
         x # Nothing => x.number = i, requests' = [requests EXCEPT ![i] = x],
         pass' \subseteq pass, InReview(x) => \A r \in pass' : r.number # i,
         AskersTyped', ArtistsSound'
  PROVE  ResolutionIInv'
<1>0. ResolutionTyped /\ PassIsAhead
  BY DEF ResolutionIInv
<1>1. \A j \in Numbers : requests'[j] = IF j = i THEN x ELSE requests[j]
  BY <1>0 DEF ResolutionTyped
<1>2. requests' \in [Numbers -> RequestRows \cup {Nothing}]
      /\ \A j \in Numbers : requests'[j] # Nothing => requests'[j].number = j
  BY <1>0, <1>1 DEF ResolutionTyped, IsRequest
<1>3. pass' \subseteq RequestRows /\ IsFiniteSet(pass') /\ Cardinality(pass') <= BatchSize
  <2>1. IsFiniteSet(pass') /\ Cardinality(pass') <= Cardinality(pass)
    BY <1>0, FS_Subset DEF ResolutionTyped
  <2>2. Cardinality(pass') \in Nat /\ Cardinality(pass) \in Nat /\ BatchSize \in Nat
    BY <1>0, <2>1, FS_CardinalityType, ResolutionConstants DEF ResolutionTyped
  <2> QED BY <1>0, <2>1, <2>2 DEF ResolutionTyped
<1>4. ResolutionTyped'
  BY <1>2, <1>3 DEF ResolutionTyped, IsRequest, AskersTyped, ArtistsSound
<1>5. PassIsAhead'
  <2>1. ASSUME NEW r \in pass' PROVE ~InReview(requests'[r.number])
    <3>1. r \in pass /\ r.number \in Numbers
      BY <1>0 DEF ResolutionTyped, RequestRows
    <3> QED BY <1>0, <1>1, <3>1 DEF PassIsAhead
  <2> QED BY <1>0, <2>1 DEF PassIsAhead, InReview
<1> QED BY <1>4, <1>5 DEF ResolutionIInv, ArtistsSound

LEMMA NoRequestKeeps ==
  ASSUME ResolutionIInv, UNCHANGED requests, pass' \subseteq pass, AskersTyped', ArtistsSound'
  PROVE  ResolutionIInv'
<1>0. ResolutionTyped /\ PassIsAhead
  BY DEF ResolutionIInv
<1>3. pass' \subseteq RequestRows /\ IsFiniteSet(pass') /\ Cardinality(pass') <= BatchSize
  <2>1. IsFiniteSet(pass') /\ Cardinality(pass') <= Cardinality(pass)
    BY <1>0, FS_Subset DEF ResolutionTyped
  <2>2. Cardinality(pass') \in Nat /\ Cardinality(pass) \in Nat /\ BatchSize \in Nat
    BY <1>0, <2>1, FS_CardinalityType, ResolutionConstants DEF ResolutionTyped
  <2> QED BY <1>0, <2>1, <2>2 DEF ResolutionTyped
<1>4. ResolutionTyped'
  BY <1>0, <1>3 DEF ResolutionTyped, IsRequest, AskersTyped, ArtistsSound
<1>5. PassIsAhead'
  BY <1>0 DEF PassIsAhead, InReview
<1> QED BY <1>4, <1>5 DEF ResolutionIInv, ArtistsSound

-----------------------------------------------------------------------------
(* Resolution: the steps.                                                  *)

\* What a pass begins with is due, no more than a batch, and one copy of each row.
LEMMA PassesBegin ==
  ASSUME ResolutionTyped, NEW S \in DueArtistResolutions
  PROVE  /\ S \subseteq RequestRows /\ IsFiniteSet(S) /\ Cardinality(S) <= BatchSize
         /\ \A r, q \in S : r.number = q.number => r = q
         /\ \A r \in S : ~InReview(requests[r.number])
<1>1. /\ S \subseteq DueRows
      /\ \E T \in SUBSET DueRows : S \subseteq T /\ Cardinality(S) = MinOf(BatchSize, Cardinality(T))
  BY DEF DueArtistResolutions
<1>2. ASSUME NEW r \in DueRows
      PROVE  r \in RequestRows /\ r.number \in Numbers /\ r = requests[r.number] /\ ~InReview(r)
  <2>1. PICK i \in Taken : r = requests[i] /\ ~InReview(r)
    BY <1>2 DEF DueRows, DueAny
  <2> QED BY <2>1, RequestIsWhole DEF Taken
<1>3. IsFiniteSet(DueRows)
  <2> DEFINE f == [r \in DueRows |-> r.number]
  <2>1. f \in Injection(DueRows, Numbers)
    BY <1>2 DEF Injection, IsInjective
  <2> HIDE DEF f
  <2> QED BY <2>1, FS_Injection, ResolutionConstants
<1>4. PICK T \in SUBSET DueRows : Cardinality(S) = MinOf(BatchSize, Cardinality(T))
  BY <1>1
<1>5. IsFiniteSet(S) /\ IsFiniteSet(T)
  BY <1>1, <1>3, FS_Subset
<1>6. Cardinality(T) \in Nat /\ BatchSize \in Nat
  BY <1>5, FS_CardinalityType, ResolutionConstants
<1>7. Cardinality(S) <= BatchSize
  BY <1>4, <1>6 DEF MinOf
<1> QED BY <1>1, <1>2, <1>5, <1>7

\* The number of a request that is still there stands for its row, as updated.
LEMMA UpdatedRows ==
  ASSUME ResolutionTyped, NEW row \in RequestRows, StillThere(row), NEW x \in RequestRows
  PROVE  row.number \in Numbers /\ requests[row.number] \in RequestRows
         /\ requests[row.number].number = row.number /\ x # Nothing
<1>1. row.number \in Numbers
  BY DEF RequestRows
<1> QED BY <1>1, RequestIsWhole, ResolutionConstants DEF StillThere

LEMMA RetryKeeps ==
  ASSUME ResolutionIInv, NEW row \in pass, pass' = pass \ {row}, RetryArtistResolution(row),
         UNCHANGED <<requested, choosing, artist, following>>
  PROVE  /\ ResolutionIInv'
         /\ \A i \in Numbers : i # row.number => requests'[i] = requests[i]
         /\ \A i \in Numbers : IsRequest(i) => requests'[i] # Nothing
<1>0. ResolutionTyped /\ AskersTyped' /\ ArtistsSound' /\ row \in RequestRows
  BY DEF ResolutionIInv, ResolutionTyped, AskersTyped, ArtistsSound, IdentitiesAgree, ClaimedByAnother
<1>1. CASE ~StillThere(row)
  <2>1. UNCHANGED requests
    BY <1>1 DEF RetryArtistResolution
  <2> QED BY <1>0, <2>1, NoRequestKeeps DEF IsRequest
<1>2. CASE StillThere(row)
  <2> DEFINE i == row.number
             x == [requests[i] EXCEPT !.options = {}, !.wait = Delays[row.attempts + 1],
                                      !.attempts = MinOf(row.attempts + 1, Len(Delays) - 1)]
  <2>1. requests' = [requests EXCEPT ![i] = x]
    BY <1>2 DEF RetryArtistResolution
  <2>2. i \in Numbers /\ requests[i] \in RequestRows /\ requests[i].number = i
    BY <1>0, <1>2, UpdatedRows
  <2>3. Delays[row.attempts + 1] \in 0 .. LongestDelay
        /\ MinOf(row.attempts + 1, Len(Delays) - 1) \in 0 .. Len(Delays) - 1
    <3>1. row.attempts \in 0 .. Len(Delays) - 1 /\ Len(Delays) \in Nat \ {0}
      BY <1>0, ResolutionConstants DEF RequestRows
    <3>2. row.attempts + 1 \in 1 .. Len(Delays)
      BY <3>1
    <3> QED BY <3>1, <3>2, ResolutionConstants DEF MinOf
  <2>4. x \in RequestRows /\ x.number = i /\ x.options = {}
    BY <2>2, <2>3 DEF RequestRows
  <2>5. x # Nothing
    BY <2>4, ResolutionConstants
  <2>6. ~InReview(x)
    BY <2>4 DEF InReview
  <2> HIDE DEF x, i
  <2>7. ResolutionIInv'
    BY <1>0, <2>1, <2>2, <2>4, <2>6, OneRequestKeeps
  <2>8. \A j \in Numbers : requests'[j] = IF j = i THEN x ELSE requests[j]
    BY <1>0, <2>1 DEF ResolutionTyped
  <2> QED BY <2>5, <2>7, <2>8 DEF i, IsRequest
<1> QED BY <1>1, <1>2

LEMMA ReviewKeeps ==
  ASSUME ResolutionIInv, NEW row \in pass, pass' = pass \ {row}, NEW options \in SUBSET Canonical,
         MarkArtistResolutionReview(row, options), UNCHANGED <<requested, choosing, artist, following>>
  PROVE  /\ ResolutionIInv'
         /\ \A i \in Numbers : i # row.number => requests'[i] = requests[i]
         /\ \A i \in Numbers : IsRequest(i) => requests'[i] # Nothing
<1>0. ResolutionTyped /\ PassIsAhead /\ AskersTyped' /\ ArtistsSound' /\ row \in RequestRows
  BY DEF ResolutionIInv, ResolutionTyped, AskersTyped, ArtistsSound, IdentitiesAgree, ClaimedByAnother
<1>1. CASE ~StillThere(row)
  <2>1. UNCHANGED requests
    BY <1>1 DEF MarkArtistResolutionReview
  <2> QED BY <1>0, <2>1, NoRequestKeeps DEF IsRequest
<1>2. CASE StillThere(row)
  <2> DEFINE i == row.number
             x == [requests[i] EXCEPT !.options = options, !.wait = 0]
  <2>1. requests' = [requests EXCEPT ![i] = x]
    BY <1>2 DEF MarkArtistResolutionReview
  <2>2. i \in Numbers /\ requests[i] \in RequestRows /\ requests[i].number = i
    BY <1>0, <1>2, UpdatedRows
  <2>3. 0 \in 0 .. LongestDelay
    BY ResolutionConstants
  <2>4. x \in RequestRows /\ x.number = i
    BY <2>2, <2>3 DEF RequestRows
  <2>5. x # Nothing
    BY <2>4, ResolutionConstants
  <2>6. \A r \in pass' : r.number # i
    BY <1>0 DEF PassIsAhead
  <2> HIDE DEF x, i
  <2>7. ResolutionIInv'
    BY <1>0, <2>1, <2>2, <2>4, <2>6, OneRequestKeeps
  <2>8. \A j \in Numbers : requests'[j] = IF j = i THEN x ELSE requests[j]
    BY <1>0, <2>1 DEF ResolutionTyped
  <2> QED BY <2>5, <2>7, <2>8 DEF i, IsRequest
<1> QED BY <1>1, <1>2

\* The member's hand and the pass both end a request with CompleteResolution.
LEMMA CompletionKeeps ==
  ASSUME ResolutionIInv, NEW row \in RequestRows, NEW a \in Canonical, CompleteResolution(row, a),
         pass' \subseteq pass, AskersTyped'
  PROVE  /\ ResolutionIInv'
         /\ \A i \in Numbers : i # row.number => requests'[i] = requests[i]
         /\ \A i \in Numbers : IsRequest(i) /\ requests'[i] = Nothing =>
              <<requests[i].member, a>> \in following'
<1>0. ResolutionTyped /\ row.number \in Numbers
  BY DEF ResolutionIInv, RequestRows
<1>1. /\ ArtistsSound'
      /\ \/ UNCHANGED requests
         \/ /\ requests' = [requests EXCEPT ![row.number] = Nothing]
            /\ requests[row.number].member = row.member /\ <<row.member, a>> \in following'
  BY CompleteKeeps
<1>2. CASE UNCHANGED requests
  BY <1>1, <1>2, NoRequestKeeps DEF IsRequest
<1>3. CASE requests' = [requests EXCEPT ![row.number] = Nothing] /\ ~UNCHANGED requests
  <2> DEFINE i == row.number
  <2>1. requests' = [requests EXCEPT ![i] = Nothing] /\ i \in Numbers
    BY <1>0, <1>3
  <2>2. ~InReview(Nothing)
    BY DEF InReview
  <2>3. \A j \in Numbers : requests'[j] = IF j = i THEN Nothing ELSE requests[j]
    BY <1>0, <2>1 DEF ResolutionTyped
  <2> HIDE DEF i
  <2>4. ResolutionIInv'
    BY <1>1, <2>1, <2>2, OneRequestKeeps
  <2> QED BY <1>1, <1>3, <2>3, <2>4 DEF i, IsRequest
<1> QED BY <1>1, <1>2, <1>3

SpotifyStays ==
  \A a \in Canonical : artist[a] # Nothing /\ artist[a].spotify # Nothing =>
    artist'[a].spotify = artist[a].spotify
AskedStays ==
  \A i \in Numbers : IsRequest(i) /\ requests'[i] = Nothing =>
    \E a \in Canonical : <<requests[i].member, a>> \in following'

LEMMA LookupKeeps ==
  ASSUME ResolutionIInv, NEW row \in pass, ResolveArtistResolution(row)
  PROVE  ResolutionIInv' /\ SpotifyStays /\ AskedStays
         /\ \A i \in Numbers : i # row.number => requests'[i] = requests[i]
<1>0. /\ row \in RequestRows /\ AskersTyped' /\ pass' = pass \ {row} /\ UNCHANGED <<requested, choosing>>
  BY DEF ResolutionIInv, ResolutionTyped, AskersTyped, ResolveArtistResolution
<1>1. CASE RetryArtistResolution(row) /\ UNCHANGED <<artist, following>>
  <2>1. /\ ResolutionIInv' /\ \A i \in Numbers : i # row.number => requests'[i] = requests[i]
        /\ \A i \in Numbers : IsRequest(i) => requests'[i] # Nothing
    BY <1>0, <1>1, RetryKeeps
  <2> QED BY <1>1, <2>1 DEF SpotifyStays, AskedStays
<1>2. CASE \E options \in SUBSET Canonical \ {{}} :
             MarkArtistResolutionReview(row, options) /\ UNCHANGED <<artist, following>>
  <2>1. PICK options \in SUBSET Canonical : MarkArtistResolutionReview(row, options)
    BY <1>2
  <2>2. /\ ResolutionIInv' /\ \A i \in Numbers : i # row.number => requests'[i] = requests[i]
        /\ \A i \in Numbers : IsRequest(i) => requests'[i] # Nothing
    BY <1>0, <1>2, <2>1, ReviewKeeps
  <2> QED BY <1>2, <2>2 DEF SpotifyStays, AskedStays
<1>3. CASE \E a \in Canonical : CompleteResolution(row, a)
  <2>1. PICK a \in Canonical : CompleteResolution(row, a)
    BY <1>3
  <2>2. pass' \subseteq pass
    BY <1>0
  <2>3. /\ ResolutionIInv' /\ \A i \in Numbers : i # row.number => requests'[i] = requests[i]
        /\ \A i \in Numbers : IsRequest(i) /\ requests'[i] = Nothing =>
              <<requests[i].member, a>> \in following'
    BY <1>0, <2>1, <2>2, CompletionKeeps
  <2>4. SpotifyStays
    BY <1>0, <2>1, CompleteKeeps DEF SpotifyStays
  <2> QED BY <2>3, <2>4 DEF AskedStays
<1> QED BY <1>1, <1>2, <1>3 DEF ResolveArtistResolution

LEMMA SelectionKeeps ==
  ASSUME ResolutionIInv, NEW m \in Askers, QueueSelectedArtistResolution(m)
  PROVE  ResolutionIInv' /\ SpotifyStays /\ AskedStays
<1> DEFINE row == choosing[m].row  a == choosing[m].option
<1>1. /\ row \in RequestRows /\ a \in Canonical /\ CompleteResolution(row, a)
      /\ choosing' = [choosing EXCEPT ![m] = Nothing] /\ UNCHANGED <<requested, pass>>
  BY DEF QueueSelectedArtistResolution, ResolutionIInv, ResolutionTyped
<1>2. AskersTyped' /\ pass' \subseteq pass
  BY <1>1 DEF AskersTyped, ResolutionIInv, ResolutionTyped
<1> HIDE DEF row, a
<1>3. /\ ResolutionIInv'
      /\ \A i \in Numbers : IsRequest(i) /\ requests'[i] = Nothing =>
           <<requests[i].member, a>> \in following'
  BY <1>1, <1>2, CompletionKeeps
<1>4. SpotifyStays
  BY <1>1, CompleteKeeps DEF SpotifyStays
<1> QED BY <1>1, <1>3, <1>4 DEF AskedStays

\* What a member asks for and cancels.
LEMMA AskingKeeps ==
  ASSUME ResolutionIInv, NEW m \in Askers,
         \/ \E p \in Profiles : CreateArtistResolution(m, p)
         \/ \E i \in Numbers : CancelArtistResolution(m, i)
  PROVE  ResolutionIInv' /\ UNCHANGED <<pass, choosing, artist>>
<1>0. /\ UNCHANGED <<pass, choosing, artist, following>> /\ requested' \in 0 .. MaxRequested
  BY ResolutionConstants DEF CreateArtistResolution, CancelArtistResolution, ResolutionIInv, ResolutionTyped
<1>1. AskersTyped' /\ ArtistsSound' /\ pass' \subseteq pass
  BY <1>0 DEF ResolutionIInv, ResolutionTyped, AskersTyped, ArtistsSound, IdentitiesAgree, ClaimedByAnother
<1>2. ASSUME NEW p \in Profiles, CreateArtistResolution(m, p) PROVE ResolutionIInv'
  <2>1. PICK i \in Numbers : requests' = [requests EXCEPT ![i] = [number |-> i, member |-> m,
                               profile |-> p, options |-> {}, attempts |-> 0, wait |-> 0]]
    BY <1>2 DEF CreateArtistResolution
  <2> DEFINE x == [number |-> i, member |-> m, profile |-> p, options |-> {}, attempts |-> 0, wait |-> 0]
  <2>2. 0 \in 0 .. Len(Delays) - 1 /\ 0 \in 0 .. LongestDelay
    BY ResolutionConstants
  <2>3. x \in RequestRows /\ x.number = i /\ ~InReview(x)
    BY <2>2 DEF RequestRows, InReview
  <2>4. requests' = [requests EXCEPT ![i] = x]
    BY <2>1
  <2> HIDE DEF x
  <2> QED BY <1>1, <2>3, <2>4, OneRequestKeeps
<1>3. ASSUME NEW i \in Numbers, CancelArtistResolution(m, i) PROVE ResolutionIInv'
  <2>1. requests' = [requests EXCEPT ![i] = Nothing] /\ ~InReview(Nothing)
    BY <1>3 DEF CancelArtistResolution, InReview
  <2> QED BY <1>1, <2>1, OneRequestKeeps
<1> QED BY <1>0, <1>2, <1>3

\* What happens to artists outside the requests.
LEMMA ArtistStepsKeep ==
  ASSUME ResolutionIInv, NEW a \in Canonical,
         \/ \E p \in (Profiles \ OnITunes) \cup {Nothing} : UpsertArtist(a, p)
         \/ \E m \in Askers : FollowArtist(m, a)
         \/ \E p \in OnITunes : SaveArtistProviderIdentity(a, p)
  PROVE  ResolutionIInv' /\ SpotifyStays /\ UNCHANGED <<requests, pass, choosing>>
<1>0. ArtistsSound /\ UNCHANGED <<requests, requested, pass, choosing>>
  BY DEF ResolutionIInv, ResolutionTyped, ArtistsSound, UpsertArtist, FollowArtist, SaveArtistProviderIdentity
<1>1. AskersTyped' /\ pass' \subseteq pass
  BY <1>0 DEF ResolutionIInv, ResolutionTyped, AskersTyped
<1>2. ASSUME NEW p \in (Profiles \ OnITunes) \cup {Nothing}, UpsertArtist(a, p)
      PROVE  ArtistsSound' /\ SpotifyStays
  <2> DEFINE old == Stored(a)  x == Upserted(old, p)
  <2>1. artist' = [artist EXCEPT ![a] = x] /\ following' \subseteq following \cup (Askers \X {a})
    BY <1>2 DEF UpsertArtist
  <2>2. /\ old \in ArtistRows /\ old.link = old.spotify
        /\ old.itunes # Nothing => ~ClaimedByAnother(a, old.itunes)
        /\ artist[a] # Nothing => old = artist[a]
    BY <1>0, StoredIsAnArtist
  <2>3. p \in OnSpotifyOnly \cup {Nothing}
    BY DEF OnSpotifyOnly
  <2> HIDE DEF old
  <2>4. /\ x \in ArtistRows /\ x.link = x.spotify /\ x.itunes = old.itunes
        /\ old.spotify # Nothing => x.spotify = old.spotify
    BY <2>2, <2>3, UpsertedIsAnArtist
  <2> HIDE DEF x
  <2>5. ArtistsSound'
    BY <1>0, <2>1, <2>2, <2>4, OneArtistKeeps
  <2>6. \A b \in Canonical : artist'[b] = IF b = a THEN x ELSE artist[b]
    BY <1>0, <2>1 DEF ArtistsSound
  <2> QED BY <2>2, <2>4, <2>5, <2>6 DEF SpotifyStays
<1>3. ASSUME NEW m \in Askers, FollowArtist(m, a) PROVE ArtistsSound' /\ SpotifyStays
  BY <1>0, <1>3 DEF FollowArtist, ArtistsSound, SpotifyStays, IdentitiesAgree, ClaimedByAnother
<1>4. ASSUME NEW p \in OnITunes, SaveArtistProviderIdentity(a, p) PROVE ArtistsSound' /\ SpotifyStays
  <2> DEFINE x == [artist[a] EXCEPT !.itunes = p]
  <2>1. /\ artist[a] \in ArtistRows /\ artist[a].link = artist[a].spotify /\ ~ClaimedByAnother(a, p)
        /\ artist' = [artist EXCEPT ![a] = x] /\ following' \subseteq following \cup (Askers \X {a})
    BY <1>0, <1>4 DEF SaveArtistProviderIdentity, ArtistsSound, IdentitiesAgree
  <2>2. x \in ArtistRows /\ x.link = x.spotify /\ x.itunes = p /\ x.spotify = artist[a].spotify
    BY <2>1 DEF ArtistRows
  <2> HIDE DEF x
  <2>3. ArtistsSound'
    BY <1>0, <2>1, <2>2, OneArtistKeeps
  <2>4. \A b \in Canonical : artist'[b] = IF b = a THEN x ELSE artist[b]
    BY <1>0, <2>1 DEF ArtistsSound
  <2> QED BY <2>2, <2>3, <2>4 DEF SpotifyStays
<1> QED BY <1>0, <1>1, <1>2, <1>3, <1>4, NoRequestKeeps

\* A pass or a choice begins or is lost, and time passes.
LEMMA OthersKeep ==
  ASSUME ResolutionIInv,
         \/ \E m \in Askers, i \in Numbers, a \in Canonical : BeginSelection(m, i, a)
         \/ ResolveArtistResolutions \/ Interrupted \/ ResolutionTick \/ UNCHANGED resolutionVars
  PROVE  ResolutionIInv' /\ UNCHANGED artist
         /\ (UNCHANGED requests \/ UNCHANGED <<pass, choosing>>)
<1>0. ResolutionTyped /\ PassIsAhead /\ IdentitiesAgree
  BY DEF ResolutionIInv
<1>1. /\ UNCHANGED <<requested, artist, following>> /\ ArtistsSound'
      /\ (UNCHANGED requests \/ UNCHANGED <<pass, choosing>>)
  BY <1>0 DEF BeginSelection, ResolveArtistResolutions, Interrupted, ResolutionTick, resolutionVars,
     ResolutionTyped, ArtistsSound, IdentitiesAgree, ClaimedByAnother
<1>2. ASSUME NEW m \in Askers, NEW i \in Numbers, NEW a \in Canonical, BeginSelection(m, i, a)
      PROVE  ResolutionIInv'
  <2> DEFINE x == [row |-> requests[i], option |-> a]
  <2>1. /\ choosing' = [choosing EXCEPT ![m] = x] /\ UNCHANGED <<requests, pass>>
        /\ requests[i] \in RequestRows
    BY <1>0, <1>2, RequestIsWhole DEF BeginSelection, Of
  <2>2. x \in [row : RequestRows, option : Canonical]
    BY <2>1
  <2> HIDE DEF x
  <2>3. AskersTyped' /\ pass' \subseteq pass
    BY <1>0, <1>1, <2>1, <2>2 DEF AskersTyped, ResolutionTyped
  <2> QED BY <1>1, <2>1, <2>3, NoRequestKeeps
<1>3. CASE ResolveArtistResolutions
  <2>1. pass' \in DueArtistResolutions /\ UNCHANGED <<requests, choosing>>
    BY <1>3 DEF ResolveArtistResolutions
  <2>3. /\ pass' \subseteq RequestRows /\ IsFiniteSet(pass') /\ Cardinality(pass') <= BatchSize
        /\ \A r, q \in pass' : r.number = q.number => r = q
        /\ \A r \in pass' : ~InReview(requests[r.number])
    <3>1. PICK S \in DueArtistResolutions : S = pass'
      BY <2>1
    <3> QED BY <1>0, <3>1, PassesBegin
  <2>4. ResolutionTyped' /\ PassIsAhead' /\ IdentitiesAgree'
    BY <1>0, <1>1, <2>1, <2>3 DEF ResolutionTyped, PassIsAhead, IdentitiesAgree, IsRequest, InReview, ClaimedByAnother
  <2> QED BY <1>1, <2>4 DEF ResolutionIInv
<1>4. CASE Interrupted \/ UNCHANGED resolutionVars
  <2>1. UNCHANGED requests /\ pass' \subseteq pass /\ AskersTyped'
    BY <1>0, <1>1, <1>4 DEF Interrupted, resolutionVars, ResolutionTyped, AskersTyped
  <2> QED BY <1>1, <2>1, NoRequestKeeps
<1>5. CASE ResolutionTick
  <2> DEFINE aged(i) == [requests[i] EXCEPT !.wait = requests[i].wait - 1]
             Ages(i) == IsRequest(i) /\ requests[i].wait > 0
  <2>1. /\ requests' = [i \in Numbers |-> IF Ages(i) THEN aged(i) ELSE requests[i]]
        /\ UNCHANGED <<pass, choosing>>
    BY <1>5 DEF ResolutionTick
  <2>2. ASSUME NEW i \in Numbers, Ages(i)
        PROVE  /\ aged(i) \in RequestRows /\ aged(i).number = i /\ aged(i) # Nothing
               /\ aged(i).options = requests[i].options
    <3>1. requests[i] \in RequestRows /\ requests[i].number = i /\ LongestDelay \in Nat
      BY <1>0, <2>2, RequestIsWhole, ResolutionConstants
    <3>2. requests[i].wait \in 0 .. LongestDelay
      BY <3>1 DEF RequestRows
    <3>3. requests[i].wait - 1 \in 0 .. LongestDelay
      BY <2>2, <3>1, <3>2
    <3>4. aged(i) \in RequestRows /\ aged(i).number = i /\ aged(i).options = requests[i].options
      BY <3>1, <3>3 DEF RequestRows
    <3> QED BY <3>4, ResolutionConstants
  <2> HIDE DEF aged
  <2>3. \A i \in Numbers : requests'[i] = IF Ages(i) THEN aged(i) ELSE requests[i]
    BY <2>1
  <2>4. \A i \in Numbers : requests'[i] \in RequestRows \cup {Nothing}
                           /\ (requests'[i] # Nothing => requests'[i].number = i)
                           /\ (InReview(requests'[i]) => InReview(requests[i]))
    BY <1>0, <2>2, <2>3 DEF ResolutionTyped, InReview, IsRequest
  <2>5. requests' \in [Numbers -> RequestRows \cup {Nothing}]
    BY <2>1, <2>4
  <2>6. ResolutionTyped'
    BY <1>0, <1>1, <2>1, <2>4, <2>5 DEF ResolutionTyped, IsRequest
  <2>7. PassIsAhead'
    <3>1. \A r \in pass : r.number \in Numbers
      BY <1>0 DEF ResolutionTyped, RequestRows
    <3> QED BY <1>0, <2>1, <2>4, <3>1 DEF PassIsAhead, InReview
  <2> QED BY <1>1, <2>6, <2>7 DEF ResolutionIInv, ArtistsSound
<1> QED BY <1>1, <1>2, <1>3, <1>4, <1>5

LEMMA ResolutionStarts == ResolutionInit => ResolutionIInv
<1> SUFFICES ASSUME ResolutionInit PROVE ResolutionIInv
  OBVIOUS
<1>1. IsFiniteSet(pass) /\ Cardinality(pass) = 0
  BY FS_EmptySet DEF ResolutionInit
<1>2. ResolutionTyped
  BY <1>1, ResolutionConstants DEF ResolutionInit, ResolutionTyped, IsRequest
<1> QED BY <1>2 DEF ResolutionInit, ResolutionIInv, PassIsAhead, IdentitiesAgree

\* One step of the module, and what it may not do.
LEMMA ResolutionStep ==
  ASSUME ResolutionIInv, [ResolutionNext]_resolutionVars
  PROVE  /\ ResolutionIInv' /\ SpotifyStays
         /\ pass' # pass \/ choosing' # choosing => AskedStays
         /\ pass' # pass /\ choosing' = choosing =>
              \A i \in Numbers : InReview(requests[i]) => requests'[i] = requests[i]
<1>0. ResolutionTyped
  BY DEF ResolutionIInv
<1>1. ASSUME NEW row \in pass, ResolveArtistResolution(row)
      PROVE  /\ ResolutionIInv' /\ SpotifyStays /\ AskedStays
             /\ \A i \in Numbers : InReview(requests[i]) => requests'[i] = requests[i]
  BY <1>1, LookupKeeps DEF ResolutionIInv, PassIsAhead
<1>2. ASSUME NEW m \in Askers, QueueSelectedArtistResolution(m)
      PROVE  ResolutionIInv' /\ SpotifyStays /\ AskedStays /\ pass' = pass
  BY <1>2, SelectionKeeps DEF QueueSelectedArtistResolution
<1>3. ASSUME NEW m \in Askers,
             \/ \E p \in Profiles : CreateArtistResolution(m, p)
             \/ \E i \in Numbers : CancelArtistResolution(m, i)
      PROVE  ResolutionIInv' /\ UNCHANGED <<pass, choosing, artist>>
  BY <1>3, AskingKeeps
<1>4. ASSUME NEW a \in Canonical,
             \/ \E p \in (Profiles \ OnITunes) \cup {Nothing} : UpsertArtist(a, p)
             \/ \E m \in Askers : FollowArtist(m, a)
             \/ \E p \in OnITunes : SaveArtistProviderIdentity(a, p)
      PROVE  ResolutionIInv' /\ SpotifyStays /\ UNCHANGED <<requests, pass, choosing>>
  BY <1>4, ArtistStepsKeep
<1>5. CASE \/ \E m \in Askers, i \in Numbers, a \in Canonical : BeginSelection(m, i, a)
           \/ ResolveArtistResolutions \/ Interrupted \/ ResolutionTick \/ UNCHANGED resolutionVars
  <2>1. ResolutionIInv' /\ UNCHANGED artist /\ (UNCHANGED requests \/ UNCHANGED <<pass, choosing>>)
    BY <1>5, OthersKeep
  <2> QED BY <2>1 DEF SpotifyStays, AskedStays, IsRequest
<1>6. UNCHANGED artist => SpotifyStays
  BY DEF SpotifyStays
<1> QED BY <1>1, <1>2, <1>3, <1>4, <1>5, <1>6 DEF ResolutionNext

-----------------------------------------------------------------------------
(* Theorems about resolution.                                              *)

\* Always, whatever the pass, the page and other sources interleave, the rows,
\* copies and identities are as PassIsAhead and IdentitiesAgree say.
THEOREM ResolutionInvariance == ResolutionSpec => []ResolutionIInv
<1>1. ResolutionIInv /\ [ResolutionNext]_resolutionVars => ResolutionIInv'
  BY ResolutionStep
<1> QED BY <1>1, ResolutionStarts, PTL DEF ResolutionSpec

\* A member's request is ended only by the member or by the follow it asked for,
\* a choice put to the member stays until it is made, and the identities of an
\* artist are kept, whoever stores them.
THEOREM RequestsAreServed == ResolutionSpec => ResolutionsAreSound
<1>1. ResolutionIInv => ResolutionTypeOK
  <2>1. SUFFICES ASSUME ResolutionIInv PROVE ResolutionTypeOK
    OBVIOUS
  <2>2. ResolutionTyped
    BY <2>1 DEF ResolutionIInv
  <2>3. ASSUME NEW i \in Numbers, IsRequest(i)
        PROVE  /\ requests[i].member \in Askers /\ requests[i].profile \in Profiles
               /\ requests[i].options \subseteq Canonical
               /\ requests[i].attempts \in 0 .. Len(Delays) - 1
               /\ requests[i].wait \in 0 .. Delays[Len(Delays)]
    BY <2>2, <2>3, RequestIsWhole DEF RequestRows, LongestDelay
  <2>4. \A r \in Copies : r.number \in Numbers
    <3>1. \A r \in RequestRows : r.number \in Numbers
      BY DEF RequestRows
    <3>2. \A n \in Askers : choosing[n] # Nothing => choosing[n].row \in RequestRows
      BY <2>2 DEF ResolutionTyped
    <3> QED BY <2>2, <3>1, <3>2 DEF Copies, ResolutionTyped
  <2>5. ASSUME NEW a \in Canonical, artist[a] # Nothing
        PROVE  /\ artist[a].spotify \in (Profiles \ OnITunes) \cup {Nothing}
               /\ artist[a].itunes \in OnITunes \cup {Nothing}
    BY <2>2, <2>5 DEF ResolutionTyped, ArtistRows, OnSpotifyOnly
  <2> QED BY <2>2, <2>3, <2>4, <2>5 DEF ResolutionTyped, ResolutionTypeOK
<1>2. ResolutionIInv /\ [ResolutionNext]_resolutionVars =>
        [(pass' # pass \/ choosing' # choosing) =>
           \A i \in Numbers : IsRequest(i) /\ requests'[i] = Nothing =>
             \E a \in Canonical : <<requests[i].member, a>> \in following']_resolutionVars
  BY ResolutionStep DEF AskedStays
<1>3. ResolutionIInv /\ [ResolutionNext]_resolutionVars =>
        [\A i \in Numbers : InReview(requests[i]) /\ pass' # pass /\ choosing' = choosing =>
           requests'[i] = requests[i]]_resolutionVars
  BY ResolutionStep
<1>4. ResolutionIInv /\ [ResolutionNext]_resolutionVars =>
        [\A a \in Canonical : artist[a] # Nothing /\ artist[a].spotify # Nothing =>
           artist'[a].spotify = artist[a].spotify]_resolutionVars
  BY ResolutionStep DEF SpotifyStays
<1>5. ResolutionIInv =>
        \A a \in Canonical : artist[a] # Nothing =>
          /\ artist[a].link = artist[a].spotify
          /\ artist[a].itunes # Nothing => ~ClaimedByAnother(a, artist[a].itunes)
  BY DEF ResolutionIInv, IdentitiesAgree
<1> QED BY <1>1, <1>2, <1>3, <1>4, <1>5, ResolutionInvariance, PTL
       DEF ResolutionSpec, ResolutionsAreSound, NothingAskedIsLost, ReviewIsTheMembers, IdentitiesAreKept

-----------------------------------------------------------------------------
(* Accounts: the parts of the invariant.                                   *)

CredentialsTyped ==
  /\ users \in [Ids -> UserRows \cup {NoUser}] /\ links \in [Links -> LinkRows \cup {NoLink}]
  /\ sessions \subseteq [user : Ids, era : 0 .. MaxEra, issued : 0 .. MaxEra]
  /\ feed \in [Ids -> Tokens \cup {NoFeed}]
  /\ era \in 0 .. MaxEra /\ born \in [Links -> Nat]
Founded ==
  /\ Admins = {} => (\A u \in Ids : ~Exists(u)) /\ \A l \in Links : links[l] = NoLink
  /\ \A u, v \in Admins : u = v
CredentialsSound == CredentialsTyped /\ Founded /\ OpenLinksAreUnused /\ CredentialsHaveAccounts
ThrottleTyped ==
  /\ attempts \in [Keys -> [failures : Nat, age : 0 .. Window + 1, blocked : 0 .. Window]]
  /\ strikes \in [Clients \X Emails -> Nat]
RequestsSound ==
  RequestsTyped /\ (Admins = {} => \A c \in Clients : request[c].kind \notin {"invite", "reset"})

LEMMA AccountParts ==
  AccountsIInv <=> CredentialsSound /\ ThrottleTyped /\ ThrottleIsEarned /\ RequestsSound
BY DEF AccountsIInv, AccountsTyped, HouseholdIsFounded, CredentialsSound, CredentialsTyped, Founded,
   ThrottleTyped, RequestsSound

LEMMA AccountConstants ==
  /\ MaxUsers \in Nat \ {0} /\ Threshold \in Nat \ {0} /\ Window \in Nat \ {0} /\ MaxEra \in Nat
  /\ "account" \notin Clients
<1>1. {MaxUsers, Slots, Threshold, Window} \subseteq Nat \ {0} /\ {MaxEra, Budget} \subseteq Nat
      /\ "account" \notin Clients
  BY AccountsAssumption DEF AccountsAssumption
<1> QED BY <1>1

LEMMA LinkRowsAreNoNoLink == \A x \in LinkRows : x # NoLink
BY DEF LinkRows, NoLink

LEMMA UserRowsAreNoNoUser == \A x \in UserRows : x # NoUser
BY DEF UserRows, NoUser

\* A request is answered, or none changes.
LEMMA AnsweredKeeps ==
  ASSUME RequestsSound, NEW c \in Clients, Answered(c), Admins' = {} => Admins = {}
  PROVE  RequestsSound'
<1>1. \A b \in Clients : request'[b] = IF b = c THEN NoRequest ELSE request[b]
  BY DEF RequestsSound, RequestsTyped, Answered
<1>2. DOMAIN request' = Clients
  BY DEF RequestsSound, RequestsTyped, Answered
<1>3. NoRequest.kind = "none"
  BY DEF NoRequest
<1>4. RequestsTyped'
  BY <1>1, <1>2, <1>3 DEF RequestsSound, RequestsTyped
<1> QED BY <1>1, <1>3, <1>4 DEF RequestsSound

LEMMA ThrottleStays ==
  ASSUME ThrottleTyped, ThrottleIsEarned, UNCHANGED throttling
  PROVE  ThrottleTyped' /\ ThrottleIsEarned'
BY DEF throttling, ThrottleTyped, ThrottleIsEarned

LEMMA CredentialsStay ==
  ASSUME CredentialsSound, UNCHANGED credentials
  PROVE  CredentialsSound' /\ Admins' = Admins
BY DEF credentials, CredentialsSound, CredentialsTyped, Founded, OpenLinksAreUnused,
   CredentialsHaveAccounts, Admins, Exists, IsOpen

-----------------------------------------------------------------------------
(* Accounts: what the writes do to accounts and credentials.               *)

\* Links that change are spent or gone.
LinksRetire ==
  /\ links' \in [Links -> LinkRows \cup {NoLink}]
  /\ \A l \in Links : links'[l] # links[l] =>
       links[l] # NoLink /\ (links'[l] # NoLink => links'[l].state # "open")

LEMMA SpentLink ==
  ASSUME NEW x \in LinkRows, NEW y, y = [x EXCEPT !.state = "spent"]
  PROVE  /\ y \in LinkRows /\ y.state = "spent" /\ y.kind = x.kind /\ y.user = x.user
         /\ y.era = x.era /\ y.email = x.email
BY DEF LinkRows

LEMMA RetireSpends ==
  ASSUME CredentialsTyped, NEW S, \A l \in S : l \in Links => links[l] # NoLink
  PROVE  /\ Retire(S) \in [Links -> LinkRows \cup {NoLink}]
         /\ \A l \in Links : l \notin S => Retire(S)[l] = links[l]
         /\ \A l \in Links : l \in S => Retire(S)[l] # NoLink /\ Retire(S)[l].state = "spent"
<1>1. ASSUME NEW l \in Links, l \in S
      PROVE  Retire(S)[l] \in LinkRows /\ Retire(S)[l].state = "spent"
  <2>1. links[l] \in LinkRows /\ Retire(S)[l] = [links[l] EXCEPT !.state = "spent"]
    BY <1>1 DEF CredentialsTyped, Retire
  <2> QED BY <2>1, SpentLink
<1>2. \A l \in Links : l \notin S => Retire(S)[l] = links[l]
  BY DEF Retire
<1>3. \A l \in Links : Retire(S)[l] \in LinkRows \cup {NoLink}
  BY <1>1, <1>2 DEF CredentialsTyped
<1>4. Retire(S) \in [Links -> LinkRows \cup {NoLink}]
  BY <1>3 DEF Retire
<1> QED BY <1>1, <1>2, <1>4, LinkRowsAreNoNoLink

\* Credentials go, accounts stay.
LEMMA FewerCredentials ==
  ASSUME CredentialsSound, UNCHANGED <<users, era, born>>, LinksRetire,
         sessions' \subseteq sessions, feed' \in [Ids -> Tokens \cup {NoFeed}],
         \A u \in Ids : feed'[u] # feed[u] => feed'[u] = NoFeed
  PROVE  CredentialsSound' /\ Admins' = Admins
<1>1. Admins' = Admins
  BY DEF Admins, Exists
<1>2. CredentialsTyped'
  BY DEF CredentialsSound, CredentialsTyped, LinksRetire
<1>3. Founded'
  BY <1>1 DEF CredentialsSound, Founded, LinksRetire, Exists
<1>4. OpenLinksAreUnused' /\ CredentialsHaveAccounts'
  BY DEF CredentialsSound, OpenLinksAreUnused, CredentialsHaveAccounts, LinksRetire, Exists, IsOpen
<1> QED BY <1>1, <1>2, <1>3, <1>4 DEF CredentialsSound

\* One account changes or goes, and its credentials with it.
LEMMA AccountChanges ==
  ASSUME CredentialsSound, NEW u \in Ids, Exists(u), NEW x \in UserRows \cup {NoUser},
         users' = [users EXCEPT ![u] = x], era' \in 0 .. MaxEra, UNCHANGED born, LinksRetire,
         sessions' = {s \in sessions : s.user # u}, feed' = [feed EXCEPT ![u] = NoFeed],
         \A l \in Links : links'[l] # NoLink /\ links'[l].state = "open" /\ links'[l].kind = "reset" =>
            links'[l] = links[l] /\ links[l].user # u,
         x # NoUser => x.role = users[u].role,
         x = NoUser => u \notin Admins
  PROVE  CredentialsSound' /\ Admins' = Admins
<1>0. CredentialsTyped /\ Founded /\ OpenLinksAreUnused /\ CredentialsHaveAccounts /\ MaxEra \in Nat
  BY AccountConstants DEF CredentialsSound
<1>1. \A v \in Ids : users'[v] = IF v = u THEN x ELSE users[v]
  BY <1>0 DEF CredentialsTyped
<1>2. Admins' = Admins
  BY <1>1 DEF Admins, Exists
<1>3. \A v \in Ids : feed'[v] = IF v = u THEN NoFeed ELSE feed[v]
  BY <1>0 DEF CredentialsTyped
<1>4. CredentialsTyped'
  BY <1>0, <1>3 DEF CredentialsTyped, LinksRetire
<1>5. Founded'
  BY <1>0, <1>1, <1>2 DEF Founded, LinksRetire, Exists
<1>6. OpenLinksAreUnused'
  BY <1>0 DEF OpenLinksAreUnused, LinksRetire
<1>7. CredentialsHaveAccounts'
  <2>1. \A s \in sessions' : users'[s.user] # NoUser /\ s.issued = users'[s.user].era
    BY <1>0, <1>1 DEF CredentialsTyped, CredentialsHaveAccounts, Exists
  <2>2. \A v \in Ids : feed'[v] # NoFeed => users'[v] # NoUser /\ feed'[v].issued = users'[v].era
    BY <1>0, <1>1, <1>3 DEF CredentialsHaveAccounts, Exists
  <2>3. ASSUME NEW l \in Links, links'[l] # NoLink, links'[l].kind = "reset", links'[l].state = "open"
        PROVE  /\ links'[l].user \in Ids /\ users'[links'[l].user] # NoUser
               /\ links'[l].era = users'[links'[l].user].era
    BY <1>0, <1>1, <2>3 DEF CredentialsHaveAccounts, IsOpen, Exists
  <2> QED BY <2>1, <2>2, <2>3 DEF CredentialsHaveAccounts, IsOpen, Exists
<1> QED BY <1>2, <1>4, <1>5, <1>6, <1>7 DEF CredentialsSound

\* A new account: the administrator of an empty household, or a member; an
\* invitation it comes from is spent.
LEMMA InsertKeeps ==
  ASSUME CredentialsSound, NEW email \in Emails, NEW role \in {"admin", "member"}, Insert(email, role),
         role = "admin" => \A u \in Ids : ~Exists(u),
         role = "member" => Admins # {},
         UNCHANGED <<sessions, feed, era>>,
         \/ UNCHANGED <<links, born>>
         \/ \E l \in Links : /\ IsOpen(l, "invite") /\ links' = Retire({l})
                             /\ born' = [born EXCEPT ![l] = born[l] + 1]
  PROVE  CredentialsSound' /\ Admins' # {}
<1> DEFINE row == [role |-> role, email |-> email, era |-> era]
<1>0. CredentialsTyped /\ Founded /\ OpenLinksAreUnused /\ CredentialsHaveAccounts /\ MaxUsers \in Nat
  BY AccountConstants DEF CredentialsSound
<1>1. PICK n \in Ids : NextId(n) /\ users' = [users EXCEPT ![n] = row]
  BY DEF Insert
<1>2. ~Exists(n)
  BY <1>0, <1>1 DEF NextId, Ids
<1>3. row \in UserRows /\ row.role = role /\ row # NoUser
  BY <1>0 DEF CredentialsTyped, UserRows, NoUser
<1> HIDE DEF row
<1>4. \A v \in Ids : users'[v] = IF v = n THEN row ELSE users[v]
  BY <1>0, <1>1 DEF CredentialsTyped
<1>5. Admins' = IF role = "admin" THEN Admins \cup {n} ELSE Admins
  BY <1>2, <1>3, <1>4 DEF Admins, Exists
<1>6. /\ links' \in [Links -> LinkRows \cup {NoLink}] /\ born' \in [Links -> Nat] /\ OpenLinksAreUnused'
      /\ \A l \in Links : links'[l] # NoLink => links[l] # NoLink
      /\ \A l \in Links : links'[l] # NoLink /\ links'[l].state = "open" => links'[l] = links[l]
  <2>1. CASE UNCHANGED <<links, born>>
    BY <1>0, <2>1 DEF CredentialsTyped, OpenLinksAreUnused
  <2>2. ASSUME NEW l \in Links, IsOpen(l, "invite"), links' = Retire({l}),
               born' = [born EXCEPT ![l] = born[l] + 1]
        PROVE  /\ links' \in [Links -> LinkRows \cup {NoLink}] /\ born' \in [Links -> Nat] /\ OpenLinksAreUnused'
               /\ \A k \in Links : links'[k] # NoLink => links[k] # NoLink
               /\ \A k \in Links : links'[k] # NoLink /\ links'[k].state = "open" => links'[k] = links[k]
    <3> DEFINE S == {l}
    <3>1. links' = Retire(S) /\ (\A k \in S : k \in Links => links[k] # NoLink)
      BY <2>2 DEF IsOpen
    <3>2. /\ links' \in [Links -> LinkRows \cup {NoLink}]
          /\ \A k \in Links : k # l => links'[k] = links[k]
          /\ links'[l] # NoLink /\ links'[l].state = "spent"
      <4> HIDE DEF S
      <4>1. /\ Retire(S) \in [Links -> LinkRows \cup {NoLink}]
            /\ \A k \in Links : k \notin S => Retire(S)[k] = links[k]
            /\ \A k \in Links : k \in S => Retire(S)[k] # NoLink /\ Retire(S)[k].state = "spent"
        BY <1>0, <3>1, RetireSpends
      <4> QED BY <3>1, <4>1 DEF S
    <3>3. born[l] = 0 /\ born' \in [Links -> Nat] /\ born'[l] = 1 /\ \A k \in Links : k # l => born'[k] = born[k]
      BY <1>0, <2>2 DEF CredentialsTyped, OpenLinksAreUnused, IsOpen
    <3>4. OpenLinksAreUnused'
      BY <1>0, <3>2, <3>3 DEF OpenLinksAreUnused
    <3> QED BY <2>2, <3>2, <3>3, <3>4 DEF IsOpen
  <2> QED BY <2>1, <2>2
<1>7. CredentialsTyped'
  BY <1>0, <1>1, <1>3, <1>6 DEF CredentialsTyped
<1>8. Admins' # {} /\ Founded'
  BY <1>0, <1>5 DEF Founded, Admins
<1>9. CredentialsHaveAccounts'
  <2>1. \A s \in sessions' : users'[s.user] # NoUser /\ s.issued = users'[s.user].era
    BY <1>0, <1>2, <1>4 DEF CredentialsTyped, CredentialsHaveAccounts, Exists
  <2>2. \A v \in Ids : feed'[v] # NoFeed => users'[v] # NoUser /\ feed'[v].issued = users'[v].era
    BY <1>0, <1>2, <1>4 DEF CredentialsHaveAccounts, Exists
  <2>3. ASSUME NEW l \in Links, links'[l] # NoLink, links'[l].kind = "reset", links'[l].state = "open"
        PROVE  /\ links'[l].user \in Ids /\ users'[links'[l].user] # NoUser
               /\ links'[l].era = users'[links'[l].user].era
    BY <1>0, <1>2, <1>4, <1>6, <2>3 DEF CredentialsHaveAccounts, IsOpen, Exists
  <2> QED BY <2>1, <2>2, <2>3 DEF CredentialsHaveAccounts, IsOpen, Exists
<1> QED BY <1>6, <1>7, <1>8, <1>9 DEF CredentialsSound

LEMMA NewPasswordKeeps ==
  ASSUME CredentialsSound, NEW u \in Ids, Exists(u), NewPassword(u), UNCHANGED born
  PROVE  CredentialsSound' /\ Admins' = Admins
<1> DEFINE x == [users[u] EXCEPT !.era = era + 1]  S == OpenResets(u)
<1>0. CredentialsTyped /\ users[u] \in UserRows /\ MaxEra \in Nat
  BY AccountConstants DEF CredentialsSound, CredentialsTyped, Exists
<1>1. /\ users' = [users EXCEPT ![u] = x] /\ era' = era + 1 /\ era' \in 0 .. MaxEra
      /\ sessions' = {s \in sessions : s.user # u} /\ feed' = [feed EXCEPT ![u] = NoFeed]
      /\ links' = Retire(S)
  BY <1>0 DEF NewPassword, CredentialsTyped
<1>2. x \in UserRows /\ x.role = users[u].role
  BY <1>0, <1>1 DEF UserRows
<1>3. x # NoUser
  BY <1>2, UserRowsAreNoNoUser
<1>4. \A l \in Links : l \in S <=> links[l] # NoLink /\ links[l].kind = "reset"
                                   /\ links[l].user = u /\ links[l].state = "open"
  BY DEF OpenResets
<1> HIDE DEF x, S
<1>5. /\ Retire(S) \in [Links -> LinkRows \cup {NoLink}]
      /\ \A l \in Links : l \notin S => Retire(S)[l] = links[l]
      /\ \A l \in Links : l \in S => Retire(S)[l] # NoLink /\ Retire(S)[l].state = "spent"
  BY <1>0, <1>4, RetireSpends
<1>6. LinksRetire
  BY <1>1, <1>4, <1>5 DEF LinksRetire
<1>7. \A l \in Links : links'[l] # NoLink /\ links'[l].state = "open" /\ links'[l].kind = "reset" =>
        links'[l] = links[l] /\ links[l].user # u
  BY <1>1, <1>4, <1>5
<1> QED BY <1>1, <1>2, <1>3, <1>6, <1>7, AccountChanges

LEMMA DeleteUserKeeps ==
  ASSUME CredentialsSound, NEW c \in Clients, DeleteUser(c), request[c].user \in Ids
  PROVE  CredentialsSound' /\ Admins' = Admins
<1> DEFINE u == request[c].user
<1>0. CredentialsTyped /\ Founded /\ UNCHANGED <<era, born>>
  BY DEF CredentialsSound, DeleteUser
<1>1. CASE UNCHANGED <<users, sessions, feed, links>>
  BY <1>0, <1>1, CredentialsStay DEF credentials
<1>2. CASE ~UNCHANGED <<users, sessions, feed, links>>
  <2>1. /\ Exists(u) /\ (users[u].role = "admin" => Cardinality(Admins) > 1)
        /\ users' = [users EXCEPT ![u] = NoUser]
        /\ sessions' = {s \in sessions : s.user # u} /\ feed' = [feed EXCEPT ![u] = NoFeed]
        /\ links' = [l \in Links |->
             IF links[l] # NoLink /\ (links[l].email = users[u].email \/ links[l].user = u)
               THEN NoLink ELSE links[l]]
    BY <1>2 DEF DeleteUser
  <2>2. u \notin Admins
    <3>1. SUFFICES ASSUME u \in Admins PROVE FALSE
      OBVIOUS
    <3>2. Admins = {u}
      BY <1>0, <3>1 DEF Founded
    <3>3. Cardinality(Admins) = 1
      BY <3>2, FS_Singleton
    <3> QED BY <2>1, <3>1, <3>3 DEF Admins
  <2>3. LinksRetire
    BY <1>0, <2>1 DEF CredentialsTyped, LinksRetire
  <2>4. \A l \in Links : links'[l] # NoLink /\ links'[l].state = "open" /\ links'[l].kind = "reset" =>
          links'[l] = links[l] /\ links[l].user # u
    BY <2>1
  <2>5. era' \in 0 .. MaxEra
    BY <1>0 DEF CredentialsTyped
  <2> DEFINE x == NoUser
  <2>6. x \in UserRows \cup {NoUser} /\ x = NoUser /\ users' = [users EXCEPT ![u] = x]
    BY <2>1
  <2> HIDE DEF x
  <2> QED BY <1>0, <2>1, <2>2, <2>3, <2>4, <2>5, <2>6, AccountChanges
<1> QED BY <1>1, <1>2

\* A session or a calendar token of an account that exists, whatever password
\* authorized it.
LEMMA CredentialBegins ==
  ASSUME CredentialsSound, NEW u \in Ids, Exists(u), NEW read \in 0 .. MaxEra,
         UNCHANGED <<users, links, era, born>>,
         \/ sessions' = sessions \cup {[user |-> u, era |-> read, issued |-> users[u].era]} /\ UNCHANGED feed
         \/ feed' = [feed EXCEPT ![u] = [era |-> read, issued |-> users[u].era]] /\ UNCHANGED sessions
  PROVE  CredentialsSound' /\ Admins' = Admins
<1> DEFINE row == [user |-> u, era |-> read, issued |-> users[u].era]
           token == [era |-> read, issued |-> users[u].era]
<1>0. CredentialsTyped /\ CredentialsHaveAccounts /\ users[u] # NoUser
  BY DEF CredentialsSound, Exists
<1>1. users[u].era \in 0 .. MaxEra
  BY <1>0 DEF CredentialsTyped, UserRows
<1>2. /\ row \in [user : Ids, era : 0 .. MaxEra, issued : 0 .. MaxEra] /\ row.user = u
      /\ row.issued = users[u].era /\ token \in Tokens /\ token.issued = users[u].era
  BY <1>1 DEF Tokens
<1>3. \/ sessions' = sessions \cup {row} /\ UNCHANGED feed
      \/ feed' = [feed EXCEPT ![u] = token] /\ UNCHANGED sessions
  OBVIOUS
<1> HIDE DEF row, token
<1>4. CredentialsTyped'
  BY <1>0, <1>2, <1>3 DEF CredentialsTyped
<1>5. Admins' = Admins /\ Founded' /\ OpenLinksAreUnused'
  BY DEF CredentialsSound, Founded, OpenLinksAreUnused, Admins, Exists
<1>6. \A s \in sessions' : users'[s.user] # NoUser /\ s.issued = users'[s.user].era
  BY <1>0, <1>2, <1>3 DEF CredentialsHaveAccounts, Exists
<1>7. ASSUME NEW v \in Ids, feed'[v] # NoFeed
      PROVE  users'[v] # NoUser /\ feed'[v].issued = users'[v].era
  <2>1. CASE v = u /\ feed' = [feed EXCEPT ![u] = token]
    BY <1>0, <1>2, <2>1 DEF CredentialsTyped
  <2>2. CASE feed'[v] = feed[v]
    BY <1>0, <1>7, <2>2 DEF CredentialsHaveAccounts, Exists
  <2> QED BY <1>0, <1>3, <2>1, <2>2 DEF CredentialsTyped
<1>8. CredentialsHaveAccounts'
  BY <1>0, <1>6, <1>7 DEF CredentialsHaveAccounts, Exists, IsOpen
<1> QED BY <1>4, <1>5, <1>8 DEF CredentialsSound

\* An invitation, or a recovery link of an account that exists, under a new row.
LEMMA LinkBegins ==
  ASSUME CredentialsSound, RequestsSound, NEW c \in Clients, NEW l \in Links, CreateAuthToken(c, l)
  PROVE  CredentialsSound' /\ Admins' = Admins
<1> DEFINE q == request[c]
           S == IF q.kind = "reset" THEN OpenResets(q.user) ELSE {}
           x == NewLink(q.kind, q.email, q.user)
<1>0. CredentialsTyped /\ Founded /\ OpenLinksAreUnused /\ CredentialsHaveAccounts /\ MaxEra \in Nat
  BY AccountConstants DEF CredentialsSound
<1>1. /\ q.kind \in {"invite", "reset"} /\ links[l] = NoLink /\ (q.kind = "reset" => Exists(q.user))
      /\ links' = [Retire(S) EXCEPT ![l] = x] /\ born' = [born EXCEPT ![l] = 0]
      /\ UNCHANGED <<users, sessions, feed, era>>
  BY DEF CreateAuthToken
<1>2. q.email \in Emails /\ q.user \in Ids \cup {0} /\ (q.kind = "reset" => q.user \in Ids)
      /\ (q.kind = "invite" => q.user = 0)
  BY <1>1 DEF RequestsSound, RequestsTyped
<1>3. 0 \notin Ids /\ 0 \in 0 .. MaxEra
  BY <1>0, AccountConstants DEF Ids
<1>4. q.kind = "reset" => users[q.user] \in UserRows /\ users[q.user].era \in 0 .. MaxEra
  BY <1>0, <1>1, <1>2 DEF CredentialsTyped, Exists, UserRows
<1>5. /\ x \in LinkRows /\ x.kind = q.kind /\ x.state = "open" /\ x.user = q.user
      /\ q.kind = "reset" => x.era = users[q.user].era
  BY <1>1, <1>2, <1>3, <1>4 DEF NewLink, LinkRows
<1>6. \A k \in S : k \in Links => links[k] # NoLink
  BY DEF OpenResets
<1> HIDE DEF x, S
<1>7. /\ Retire(S) \in [Links -> LinkRows \cup {NoLink}]
      /\ \A k \in Links : k \notin S => Retire(S)[k] = links[k]
      /\ \A k \in Links : k \in S => Retire(S)[k] # NoLink /\ Retire(S)[k].state = "spent"
  BY <1>0, <1>6, RetireSpends
<1>8. \A k \in Links : links'[k] = IF k = l THEN x ELSE Retire(S)[k]
  BY <1>1, <1>7
<1>9. CredentialsTyped'
  BY <1>0, <1>1, <1>5, <1>7 DEF CredentialsTyped
<1>10. Admins' = Admins /\ Founded'
  <2>1. Admins' = Admins
    BY <1>1 DEF Admins, Exists
  <2>2. Admins # {}
    BY <1>1 DEF RequestsSound
  <2> QED BY <1>0, <2>1, <2>2 DEF Founded
<1>11. OpenLinksAreUnused'
  <2>1. \A k \in Links : born'[k] = IF k = l THEN 0 ELSE born[k]
    BY <1>0, <1>1 DEF CredentialsTyped
  <2> QED BY <1>0, <1>7, <1>8, <2>1 DEF OpenLinksAreUnused
<1>12. CredentialsHaveAccounts'
  <2>1. \A s \in sessions' : users'[s.user] # NoUser /\ s.issued = users'[s.user].era
    BY <1>0, <1>1 DEF CredentialsHaveAccounts, Exists
  <2>2. \A v \in Ids : feed'[v] # NoFeed => users'[v] # NoUser /\ feed'[v].issued = users'[v].era
    BY <1>0, <1>1 DEF CredentialsHaveAccounts, Exists
  <2>3. ASSUME NEW k \in Links, links'[k] # NoLink, links'[k].kind = "reset", links'[k].state = "open"
        PROVE  /\ links'[k].user \in Ids /\ users'[links'[k].user] # NoUser
               /\ links'[k].era = users'[links'[k].user].era
    <3>1. CASE k = l
      BY <1>1, <1>2, <1>5, <1>8, <2>3, <3>1 DEF Exists
    <3>2. CASE k # l
      <4>1. links'[k] = links[k]
        BY <1>7, <1>8, <2>3, <3>2
      <4> QED BY <1>0, <1>1, <2>3, <4>1 DEF CredentialsHaveAccounts, IsOpen, Exists
    <3> QED BY <3>1, <3>2
  <2> QED BY <2>1, <2>2, <2>3 DEF CredentialsHaveAccounts, IsOpen, Exists
<1> QED BY <1>9, <1>10, <1>11, <1>12 DEF CredentialsSound

\* A link is spent or deleted by time.
LEMMA LinkEnds ==
  ASSUME CredentialsSound, NEW l \in Links, LinkExpires(l) \/ LinkPruned(l)
  PROVE  CredentialsSound' /\ Admins' = Admins
<1> DEFINE spent == [links[l] EXCEPT !.state = "spent"]
<1>0. CredentialsTyped /\ UNCHANGED <<users, sessions, feed, era, born>>
  BY DEF CredentialsSound, LinkExpires, LinkPruned
<1>1. links[l] # NoLink /\ links[l] \in LinkRows
  BY <1>0 DEF CredentialsTyped, LinkExpires, LinkPruned
<1>2. spent \in LinkRows /\ spent.state = "spent"
  BY <1>1, SpentLink
<1>3. links' = [links EXCEPT ![l] = spent] \/ links' = [links EXCEPT ![l] = NoLink]
  BY DEF LinkExpires, LinkPruned
<1> HIDE DEF spent
<1>4. LinksRetire
  BY <1>0, <1>1, <1>2, <1>3 DEF LinksRetire, CredentialsTyped
<1> QED BY <1>0, <1>4, FewerCredentials DEF CredentialsTyped

-----------------------------------------------------------------------------
(* Accounts: signing in and its throttle.                                  *)

LEMMA KeysAreApart ==
  /\ \A c \in Clients, e \in Emails : <<c, e>> \in Keys /\ <<c, e>> \in Clients \X Emails
  /\ \A c \in Clients, e \in Emails, f \in Emails : <<c, e>> # AccountKey(f)
BY AccountConstants DEF Keys, AccountKey

\* What a failure makes of the attempts of a key.
LEMMA FailedIsTyped ==
  ASSUME NEW a \in [failures : Nat, age : 0 .. Window + 1, blocked : 0 .. Window]
  PROVE  /\ Failed(a) \in [failures : Nat, age : 0 .. Window + 1, blocked : 0 .. Window]
         /\ Failed(a).failures <= a.failures + 1
         /\ Failed(a).failures < Threshold => Failed(a).blocked = 0
<1> DEFINE fresh == a.failures = 0 \/ a.age > Window
           n == IF fresh THEN 1 ELSE a.failures + 1
           age == IF fresh THEN 0 ELSE a.age
           blocked == IF n >= Threshold THEN Window ELSE 0
<1>0. Window \in Nat /\ Threshold \in Nat
  BY AccountConstants
<1>1. n \in Nat /\ n <= a.failures + 1 /\ age \in 0 .. Window + 1 /\ blocked \in 0 .. Window
      /\ (n < Threshold => blocked = 0)
  BY <1>0
<1>2. Failed(a) = [failures |-> n, age |-> age, blocked |-> blocked]
  BY DEF Failed
<1> HIDE DEF fresh, n, age, blocked
<1> QED BY <1>1, <1>2

\* A failure and a success of a peer's own key.
LEMMA FailureKeeps ==
  ASSUME ThrottleTyped, ThrottleIsEarned, NEW c \in Clients, NEW e \in Emails,
         attempts' = [attempts EXCEPT ![<<c, e>>] = Failed(attempts[<<c, e>>])],
         strikes' = [strikes EXCEPT ![<<c, e>>] = IF strikes[<<c, e>>] < Threshold
                                                  THEN strikes[<<c, e>>] + 1 ELSE strikes[<<c, e>>]]
  PROVE  ThrottleTyped' /\ ThrottleIsEarned'
<1> DEFINE more == IF strikes[<<c, e>>] < Threshold THEN strikes[<<c, e>>] + 1 ELSE strikes[<<c, e>>]
<1>0. Threshold \in Nat /\ strikes[<<c, e>>] \in Nat
  BY AccountConstants, KeysAreApart DEF ThrottleTyped
<1>1. more \in Nat /\ strikes' = [strikes EXCEPT ![<<c, e>>] = more]
  BY <1>0
<1>2. more < Threshold => strikes[<<c, e>>] < Threshold /\ more = strikes[<<c, e>>] + 1
  BY <1>0
<1> HIDE DEF more
<1>3. \A k \in Keys : Failed(attempts[k]) \in [failures : Nat, age : 0 .. Window + 1, blocked : 0 .. Window]
  BY FailedIsTyped DEF ThrottleTyped
<1>4. ThrottleTyped'
  BY <1>1, <1>3, KeysAreApart DEF ThrottleTyped
<1>5. ASSUME NEW b \in Clients, NEW f \in Emails, strikes'[<<b, f>>] < Threshold
      PROVE  attempts'[<<b, f>>].blocked = 0 /\ attempts'[<<b, f>>].failures <= strikes'[<<b, f>>]
  <2>0. <<b, f>> \in Keys /\ <<b, f>> \in Clients \X Emails
    BY KeysAreApart
  <2>1. CASE <<b, f>> = <<c, e>>
    <3> DEFINE k == <<c, e>>  a == attempts[k]
    <3>1. strikes'[k] = more /\ attempts'[k] = Failed(a)
          /\ a \in [failures : Nat, age : 0 .. Window + 1, blocked : 0 .. Window]
      BY <1>1, <2>0, <2>1 DEF ThrottleTyped
    <3>2. strikes[k] < Threshold /\ more = strikes[k] + 1 /\ a.failures <= strikes[k]
      BY <1>2, <1>5, <2>1, <3>1 DEF ThrottleIsEarned
    <3> HIDE DEF a
    <3>3. /\ Failed(a) \in [failures : Nat, age : 0 .. Window + 1, blocked : 0 .. Window]
          /\ Failed(a).failures <= a.failures + 1
          /\ Failed(a).failures < Threshold => Failed(a).blocked = 0
      BY <3>1, FailedIsTyped
    <3>4. a.failures \in Nat /\ Failed(a).failures \in Nat
      BY <3>1, <3>3
    <3>5. Failed(a).failures <= more
      BY <1>0, <3>2, <3>3, <3>4
    <3>6. more < Threshold
      BY <1>5, <2>1, <3>1
    <3>7. Failed(a).failures < Threshold
      BY <1>0, <1>1, <3>4, <3>5, <3>6
    <3> HIDE DEF k
    <3> QED BY <2>1, <3>1, <3>3, <3>5, <3>7 DEF k
  <2>2. CASE <<b, f>> # <<c, e>>
    <3>1. strikes'[<<b, f>>] = strikes[<<b, f>>] /\ attempts'[<<b, f>>] = attempts[<<b, f>>]
      BY <1>1, <2>0, <2>2 DEF ThrottleTyped
    <3> QED BY <1>5, <3>1 DEF ThrottleIsEarned
  <2> QED BY <2>1, <2>2
<1> QED BY <1>4, <1>5 DEF ThrottleIsEarned

LEMMA SuccessKeeps ==
  ASSUME ThrottleTyped, ThrottleIsEarned, NEW c \in Clients, NEW e \in Emails,
         attempts' = [attempts EXCEPT ![<<c, e>>] = NoAttempts],
         strikes' = [strikes EXCEPT ![<<c, e>>] = 0]
  PROVE  ThrottleTyped' /\ ThrottleIsEarned'
<1>0. /\ NoAttempts \in [failures : Nat, age : 0 .. Window + 1, blocked : 0 .. Window]
      /\ NoAttempts.blocked = 0 /\ NoAttempts.failures = 0
  BY AccountConstants DEF NoAttempts
<1>1. ThrottleTyped'
  BY <1>0, KeysAreApart DEF ThrottleTyped
<1>2. ASSUME NEW b \in Clients, NEW f \in Emails, strikes'[<<b, f>>] < Threshold
      PROVE  attempts'[<<b, f>>].blocked = 0 /\ attempts'[<<b, f>>].failures <= strikes'[<<b, f>>]
  <2>0. <<b, f>> \in Keys /\ <<b, f>> \in Clients \X Emails
    BY KeysAreApart
  <2>1. CASE <<b, f>> = <<c, e>>
    BY <1>0, <2>0, <2>1 DEF ThrottleTyped
  <2>2. CASE <<b, f>> # <<c, e>>
    BY <1>2, <2>0, <2>2 DEF ThrottleTyped, ThrottleIsEarned
  <2> QED BY <2>1, <2>2
<1> QED BY <1>1, <1>2 DEF ThrottleIsEarned

\* What becomes of the account's key, which turns nobody away, does not matter.
LEMMA AccountKeyIsFree ==
  ASSUME ThrottleTyped, ThrottleIsEarned, NEW e \in Emails,
         NEW a \in [failures : Nat, age : 0 .. Window + 1, blocked : 0 .. Window],
         attempts' = [attempts EXCEPT ![AccountKey(e)] = a], UNCHANGED strikes
  PROVE  ThrottleTyped' /\ ThrottleIsEarned'
<1>1. \A c \in Clients, f \in Emails : <<c, f>> \in Keys /\ <<c, f>> # AccountKey(e)
  BY KeysAreApart
<1>2. ThrottleTyped'
  BY DEF ThrottleTyped
<1>3. \A c \in Clients, f \in Emails : attempts'[<<c, f>>] = attempts[<<c, f>>]
  BY <1>1 DEF ThrottleTyped
<1> QED BY <1>2, <1>3 DEF ThrottleIsEarned

LEMMA TickKeeps ==
  ASSUME ThrottleTyped, ThrottleIsEarned, AccountsTick
  PROVE  ThrottleTyped' /\ ThrottleIsEarned'
<1> DEFINE blocked(k) == IF attempts[k].blocked = 0 THEN 0 ELSE attempts[k].blocked - 1
           age(k) == IF attempts[k].failures = 0 \/ attempts[k].age > Window THEN attempts[k].age
                     ELSE attempts[k].age + 1
<1>0. /\ attempts' = [k \in Keys |-> [failures |-> attempts[k].failures, blocked |-> blocked(k), age |-> age(k)]]
      /\ UNCHANGED strikes /\ Window \in Nat
  BY AccountConstants DEF AccountsTick
<1>1. ASSUME NEW k \in Keys
      PROVE  /\ attempts[k].failures \in Nat /\ age(k) \in 0 .. Window + 1 /\ blocked(k) \in 0 .. Window
             /\ attempts[k].blocked = 0 => blocked(k) = 0
  <2>1. /\ attempts[k].failures \in Nat /\ attempts[k].age \in 0 .. Window + 1
        /\ attempts[k].blocked \in 0 .. Window
    BY DEF ThrottleTyped
  <2> QED BY <1>0, <2>1
<1> HIDE DEF blocked, age
<1>2. ThrottleTyped'
  BY <1>0, <1>1 DEF ThrottleTyped
<1>3. \A c \in Clients, e \in Emails : <<c, e>> \in Keys
  BY KeysAreApart
<1> QED BY <1>0, <1>1, <1>2, <1>3 DEF ThrottleIsEarned

-----------------------------------------------------------------------------
(* Accounts: the steps.                                                    *)

\* A request begins with what it has read.
LEMMA BeginKeeps ==
  ASSUME AccountsIInv, NEW c \in Clients, NEW q, Starts(c, q), UNCHANGED <<credentials, throttling>>,
         q.kind \in {"setup", "invite", "reset", "delete"} => q.email \in Emails,
         q.kind = "login" => q \in LoginRequests /\ q.at \notin {"right", "cleared", "ready"},
         q.kind \in {"change", "feed", "reset", "delete"} => q.user \in Ids,
         q.kind = "invite" => q.user = 0, q.kind = "feed" => q.era \in 0 .. MaxEra,
         q.kind \in {"accept", "recover"} => q.link \in Links,
         q.kind \in {"invite", "reset"} => Admins # {}
  PROVE  AccountsIInv'
<1>0. RequestsSound /\ CredentialsSound /\ ThrottleTyped /\ ThrottleIsEarned
  BY AccountParts
<1>1. DOMAIN request' = Clients /\ \A b \in Clients : request'[b] = IF b = c THEN q ELSE request[b]
  BY <1>0 DEF Starts, RequestsSound, RequestsTyped
<1>2. RequestsTyped'
  BY <1>0, <1>1 DEF RequestsSound, RequestsTyped
<1>3. CredentialsSound' /\ Admins' = Admins /\ ThrottleTyped' /\ ThrottleIsEarned'
  BY <1>0, CredentialsStay, ThrottleStays
<1>4. RequestsSound'
  BY <1>0, <1>1, <1>2, <1>3 DEF RequestsSound
<1> QED BY <1>3, <1>4, AccountParts, PTL

LEMMA RequestBeginKeeps ==
  ASSUME AccountsIInv, NEW c \in Clients, RequestBegins(c)
  PROVE  AccountsIInv'
<1>0. RequestsSound /\ CredentialsSound /\ CredentialsTyped /\ CredentialsHaveAccounts
  BY AccountParts DEF CredentialsSound
<1>1. ASSUME NEW e \in Emails, Setup(c, e) PROVE AccountsIInv'
  <2> DEFINE q == [kind |-> "setup", at |-> "hashed", email |-> e, empty |-> \A u \in Ids : ~Exists(u)]
  <2>1. Starts(c, q) /\ UNCHANGED <<credentials, throttling>>
    BY <1>1 DEF Setup
  <2>2. q.kind = "setup" /\ q.email \in Emails
    OBVIOUS
  <2> HIDE DEF q
  <2> QED BY <2>1, <2>2, BeginKeeps
<1>2. ASSUME NEW e \in Emails, Login(c, e) PROVE AccountsIInv'
  <2> DEFINE q == [kind |-> "login", email |-> e, user |-> 0, era |-> 0,
                   at |-> IF Refused(c, e) THEN "refused" ELSE "allowed"]
  <2>1. Starts(c, q) /\ UNCHANGED <<credentials, throttling>>
    BY <1>2 DEF Login
  <2>2. q.kind = "login" /\ q \in LoginRequests /\ q.at \notin {"right", "cleared", "ready"}
    BY AccountConstants DEF LoginRequests
  <2> HIDE DEF q
  <2> QED BY <2>1, <2>2, BeginKeeps
<1>3. ASSUME NEW l \in Links, NEW kind \in {"accept", "recover"}, OpenLink(c, l, kind) PROVE AccountsIInv'
  <2> DEFINE q == [kind |-> kind, at |-> "hashed", link |-> l, was |-> links[l]]
  <2>1. Starts(c, q) /\ UNCHANGED <<credentials, throttling>>
    BY <1>3 DEF OpenLink
  <2>2. q.kind \in {"accept", "recover"} /\ q.link \in Links
    OBVIOUS
  <2> HIDE DEF q
  <2> QED BY <2>1, <2>2, BeginKeeps
<1>4. ASSUME NEW s \in sessions, ChangePassword(c, s) PROVE AccountsIInv'
  <2> DEFINE q == [kind |-> "change", at |-> "hashed", user |-> s.user]
  <2>1. Starts(c, q) /\ UNCHANGED <<credentials, throttling>>
    BY <1>4 DEF ChangePassword
  <2>2. q.kind = "change" /\ q.user \in Ids
    BY <1>0 DEF CredentialsTyped
  <2> HIDE DEF q
  <2> QED BY <2>1, <2>2, BeginKeeps
<1>5. ASSUME NEW s \in sessions, NEW op \in {"invite", "reset", "delete"}, NEW e \in Emails,
             AdminReads(c, s, op, e)
      PROVE  AccountsIInv'
  <2> DEFINE user == IF op = "invite" THEN 0 ELSE CHOOSE u \in UserByEmail(e) : TRUE
             q == [kind |-> op, at |-> "read", acting |-> s.user, email |-> e, user |-> user]
  <2>1. Starts(c, q) /\ UNCHANGED <<credentials, throttling>>
    BY <1>5 DEF AdminReads
  <2>2. op # "invite" => user \in Ids
    BY <1>5 DEF AdminReads, UserByEmail
  <2>3. op = "invite" => user = 0
    OBVIOUS
  <2> HIDE DEF user
  <2>4. q.kind = op /\ q.email \in Emails /\ q.user = user
    OBVIOUS
  <2>5. Admins # {}
    BY <1>0, <1>5 DEF AdminReads, IsAdmin, Admins, CredentialsTyped, CredentialsHaveAccounts
  <2> HIDE DEF q
  <2> QED BY <2>1, <2>2, <2>3, <2>4, <2>5, BeginKeeps
<1>6. ASSUME NEW s \in sessions, NEW op \in {"generate", "revoke"}, FeedAction(c, s, op)
      PROVE  AccountsIInv'
  <2> DEFINE q == [kind |-> "feed", at |-> op, user |-> s.user, era |-> s.era]
  <2>1. Starts(c, q) /\ UNCHANGED <<credentials, throttling>>
    BY <1>6 DEF FeedAction
  <2>2. q.kind = "feed" /\ q.user \in Ids /\ q.era \in 0 .. MaxEra
    BY <1>0 DEF CredentialsTyped
  <2> HIDE DEF q
  <2> QED BY <2>1, <2>2, BeginKeeps
<1> QED BY <1>1, <1>2, <1>3, <1>4, <1>5, <1>6 DEF RequestBegins

\* The answer of a request that leaves the throttle as it is.
LEMMA WriteKeeps ==
  ASSUME AccountsIInv, NEW c \in Clients, Answered(c), UNCHANGED throttling,
         CredentialsSound', Admins' = {} => Admins = {}
  PROVE  AccountsIInv'
<1>1. RequestsSound' /\ ThrottleTyped' /\ ThrottleIsEarned'
  BY AnsweredKeeps, ThrottleStays, AccountParts
<1> QED BY <1>1, AccountParts, PTL

LEMMA PasswordWritesKeep ==
  ASSUME AccountsIInv, NEW c \in Clients,
         UpdatePassword(c) \/ ResetPasswordWithToken(c) \/ DeleteUser(c)
  PROVE  AccountsIInv'
<1>0. RequestsSound /\ RequestsTyped /\ CredentialsSound /\ CredentialsHaveAccounts
  BY AccountParts DEF CredentialsSound, RequestsSound
<1>1. Answered(c) /\ UNCHANGED <<born, throttling>>
  BY DEF UpdatePassword, ResetPasswordWithToken, DeleteUser
<1>2. CASE UpdatePassword(c)
  <2> DEFINE u == request[c].user
  <2>1. u \in Ids
    BY <1>0, <1>2 DEF UpdatePassword, Doing, RequestsTyped
  <2>2. CASE Exists(u)
    <3>1. NewPassword(u)
      BY <1>2, <2>2 DEF UpdatePassword
    <3> HIDE DEF u
    <3>2. CredentialsSound' /\ Admins' = Admins
      BY <1>0, <1>1, <2>1, <2>2, <3>1, NewPasswordKeeps
    <3> QED BY <1>1, <3>2, WriteKeeps
  <2>3. CASE ~Exists(u)
    BY <1>0, <1>1, <1>2, <2>3, CredentialsStay, WriteKeeps DEF UpdatePassword, credentials
  <2> QED BY <2>2, <2>3
<1>3. CASE ResetPasswordWithToken(c)
  <2> DEFINE l == request[c].link  u == links[l].user
  <2>1. l \in Links
    BY <1>0, <1>3 DEF ResetPasswordWithToken, Doing, RequestsTyped
  <2>2. CASE IsOpen(l, "reset")
    <3>1. NewPassword(u) /\ u \in Ids /\ Exists(u)
      BY <1>0, <1>3, <2>1, <2>2 DEF ResetPasswordWithToken, CredentialsHaveAccounts
    <3> HIDE DEF u, l
    <3>2. CredentialsSound' /\ Admins' = Admins
      BY <1>0, <1>1, <3>1, NewPasswordKeeps
    <3> QED BY <1>1, <3>2, WriteKeeps
  <2>3. CASE ~IsOpen(l, "reset")
    BY <1>0, <1>1, <1>3, <2>3, CredentialsStay, WriteKeeps DEF ResetPasswordWithToken, credentials
  <2> QED BY <2>2, <2>3
<1>4. CASE DeleteUser(c)
  <2>1. request[c].user \in Ids
    BY <1>0, <1>4 DEF DeleteUser, RequestsTyped
  <2> QED BY <1>0, <1>1, <1>4, <2>1, DeleteUserKeeps, WriteKeeps
<1> QED BY <1>2, <1>3, <1>4

LEMMA AccountWritesKeep ==
  ASSUME AccountsIInv, NEW c \in Clients, CreateInitialAdmin(c) \/ CreateUserFromInvite(c)
  PROVE  AccountsIInv'
<1>0. RequestsSound /\ RequestsTyped /\ CredentialsSound /\ CredentialsTyped /\ Founded
  BY AccountParts DEF CredentialsSound, RequestsSound
<1>1. Answered(c) /\ UNCHANGED <<sessions, feed, era, throttling>>
  BY DEF CreateInitialAdmin, CreateUserFromInvite
<1>2. CASE UNCHANGED <<users, links, born>>
  <2>1. CredentialsSound' /\ Admins' = Admins
    BY <1>0, <1>1, <1>2, CredentialsStay DEF credentials
  <2> QED BY <1>1, <2>1, WriteKeeps
<1>3. CASE CreateInitialAdmin(c) /\ ~UNCHANGED <<users, links, born>>
  <2> DEFINE email == request[c].email  role == "admin"
  <2>1. email \in Emails /\ (\A u \in Ids : ~Exists(u)) /\ Insert(email, role) /\ UNCHANGED <<links, born>>
    BY <1>0, <1>3 DEF CreateInitialAdmin, Doing, RequestsTyped
  <2>2. role \in {"admin", "member"} /\ role # "member"
    OBVIOUS
  <2> HIDE DEF email, role
  <2>3. CredentialsSound' /\ Admins' # {}
    BY <1>0, <1>1, <2>1, <2>2, InsertKeeps
  <2> QED BY <1>1, <2>3, WriteKeeps
<1>4. CASE CreateUserFromInvite(c) /\ ~UNCHANGED <<users, links, born>>
  <2> DEFINE l == request[c].link  email == links[l].email  role == "member"
  <2>1. IsOpen(l, "invite") /\ Insert(email, role) /\ links' = Retire({l}) /\ l \in Links
        /\ born' = [born EXCEPT ![l] = born[l] + 1]
    BY <1>0, <1>4 DEF CreateUserFromInvite, Join, Doing, RequestsTyped
  <2>2. email \in Emails /\ Admins # {}
    BY <1>0, <2>1 DEF IsOpen, CredentialsTyped, LinkRows, Founded
  <2>3. role \in {"admin", "member"} /\ role # "admin"
    OBVIOUS
  <2> HIDE DEF l, email, role
  <2>4. CredentialsSound' /\ Admins' # {}
    BY <1>0, <1>1, <2>1, <2>2, <2>3, InsertKeeps
  <2> QED BY <1>1, <2>4, WriteKeeps
<1> QED BY <1>2, <1>3, <1>4

LEMMA CredentialWritesKeep ==
  ASSUME AccountsIInv, NEW c \in Clients,
         \/ \E l \in Links : CreateAuthToken(c, l)
         \/ CreateAuthTokenFails(c) \/ CreateCalendarFeedToken(c) \/ RevokeCalendarFeedToken(c)
  PROVE  AccountsIInv'
<1>0. RequestsSound /\ RequestsTyped /\ CredentialsSound /\ CredentialsTyped
  BY AccountParts DEF CredentialsSound, RequestsSound
<1>1. Answered(c) /\ UNCHANGED throttling
  BY DEF CreateAuthToken, CreateAuthTokenFails, CreateCalendarFeedToken, RevokeCalendarFeedToken
<1>2. CASE \E l \in Links : CreateAuthToken(c, l)
  BY <1>0, <1>1, <1>2, LinkBegins, WriteKeeps
<1>3. CASE CreateAuthTokenFails(c)
  BY <1>0, <1>1, <1>3, CredentialsStay, WriteKeeps DEF CreateAuthTokenFails
<1>4. CASE CreateCalendarFeedToken(c)
  <2> DEFINE u == request[c].user
         read == request[c].era
  <2>1. u \in Ids /\ read \in 0 .. MaxEra
    BY <1>0, <1>4 DEF CreateCalendarFeedToken, Doing, RequestsTyped
  <2>2. UNCHANGED <<users, links, sessions, era, born>>
        /\ feed' = IF Exists(u) THEN [feed EXCEPT ![u] = [era |-> read, issued |-> users[u].era]] ELSE feed
    BY <1>4 DEF CreateCalendarFeedToken
  <2> HIDE DEF u, read
  <2>3. CredentialsSound' /\ Admins' = Admins
    <3>1. CASE Exists(u)
      BY <1>0, <2>1, <2>2, <3>1, CredentialBegins
    <3>2. CASE ~Exists(u)
      BY <1>0, <2>2, <3>2, CredentialsStay DEF credentials
    <3> QED BY <3>1, <3>2
  <2> QED BY <1>1, <2>3, WriteKeeps
<1>5. CASE RevokeCalendarFeedToken(c)
  <2>1. feed' = [feed EXCEPT ![request[c].user] = NoFeed] /\ UNCHANGED <<users, links, sessions, era, born>>
    BY <1>5 DEF RevokeCalendarFeedToken
  <2>2. /\ LinksRetire /\ feed' \in [Ids -> Tokens \cup {NoFeed}]
        /\ \A u \in Ids : feed'[u] # feed[u] => feed'[u] = NoFeed
    BY <1>0, <2>1 DEF LinksRetire, CredentialsTyped
  <2>3. CredentialsSound' /\ Admins' = Admins
    BY <1>0, <2>1, <2>2, FewerCredentials
  <2> QED BY <1>1, <2>3, WriteKeeps
<1> QED BY <1>2, <1>3, <1>4, <1>5

\* A sign-in that goes on.
LEMMA LoginGoesOn ==
  ASSUME AccountsIInv, NEW c \in Clients, NEW r \in LoginRequests,
         r.at \in {"right", "cleared", "ready"} => r.user \in Ids,
         request' = [request EXCEPT ![c] = r], UNCHANGED credentials, ThrottleTyped', ThrottleIsEarned'
  PROVE  AccountsIInv'
<1>0. RequestsSound /\ CredentialsSound
  BY AccountParts
<1>1. DOMAIN request' = Clients /\ \A b \in Clients : request'[b] = IF b = c THEN r ELSE request[b]
  BY <1>0 DEF RequestsSound, RequestsTyped
<1>2. r.kind = "login"
  BY DEF LoginRequests
<1>3. RequestsTyped'
  BY <1>0, <1>1, <1>2 DEF RequestsSound, RequestsTyped
<1>4. CredentialsSound' /\ Admins' = Admins
  BY <1>0, CredentialsStay
<1>5. RequestsSound'
  BY <1>0, <1>1, <1>2, <1>3, <1>4 DEF RequestsSound
<1> QED BY <1>4, <1>5, AccountParts, PTL

\* The same, to the next step of the same sign-in.
LEMMA LoginMovesOn ==
  ASSUME AccountsIInv, NEW c \in Clients, request[c].kind = "login",
         NEW to \in {"counted", "cleared", "ready"}, MovesTo(c, to),
         to \in {"cleared", "ready"} => request[c].user \in Ids,
         UNCHANGED credentials, ThrottleTyped', ThrottleIsEarned'
  PROVE  AccountsIInv'
<1> DEFINE r == [request[c] EXCEPT !.at = to]
<1>1. request[c] \in LoginRequests
  BY AccountParts DEF RequestsSound, RequestsTyped
<1>2. r \in LoginRequests /\ r.at = to /\ r.user = request[c].user
  BY <1>1 DEF LoginRequests
<1>3. request' = [request EXCEPT ![c] = r]
  BY DEF MovesTo
<1> HIDE DEF r
<1> QED BY <1>2, <1>3, LoginGoesOn

\* The failures of a sign-in are written for the peer's key and the account's, one
\* after the other, and so is their end.
LEMMA ThrottleWritesKeep ==
  ASSUME AccountsIInv, NEW c \in Clients, RecordLoginFailure(c) \/ ClearLoginFailures(c)
  PROVE  AccountsIInv'
<1> DEFINE q == request[c]  e == q.email  own == <<c, e>>
<1>0. RequestsSound /\ RequestsTyped /\ CredentialsSound /\ ThrottleTyped /\ ThrottleIsEarned
  BY AccountParts DEF RequestsSound
<1>1. /\ q.kind = "login" /\ e \in Emails /\ UNCHANGED credentials
      /\ q.at \in {"right", "cleared", "ready"} => q.user \in Ids
  BY <1>0 DEF RecordLoginFailure, ClearLoginFailures, Doing, RequestsTyped, LoginRequests
<1>2. CredentialsSound' /\ Admins' = Admins
  BY <1>0, <1>1, CredentialsStay
<1>3. CASE /\ MovesTo(c, "counted") /\ attempts' = [attempts EXCEPT ![own] = Failed(attempts[own])]
           /\ strikes' = [strikes EXCEPT ![own] = IF strikes[own] < Threshold THEN strikes[own] + 1 ELSE strikes[own]]
  <2>1. ThrottleTyped' /\ ThrottleIsEarned'
    <3> HIDE DEF e
    <3> QED BY <1>0, <1>1, <1>3, FailureKeeps
  <2> QED BY <1>1, <1>3, <2>1, LoginMovesOn
<1>4. CASE /\ Answered(c) /\ attempts' = [attempts EXCEPT ![AccountKey(e)] = Failed(attempts[AccountKey(e)])]
           /\ UNCHANGED strikes
  <2> DEFINE a == Failed(attempts[AccountKey(e)])
  <2>1. AccountKey(e) \in Keys
    BY <1>1 DEF AccountKey, Keys
  <2>2. a \in [failures : Nat, age : 0 .. Window + 1, blocked : 0 .. Window]
    BY <1>0, <2>1, FailedIsTyped DEF ThrottleTyped
  <2>3. ThrottleTyped' /\ ThrottleIsEarned'
    <3> HIDE DEF e, a
    <3>1. attempts' = [attempts EXCEPT ![AccountKey(e)] = a]
      BY <1>4 DEF a
    <3> QED BY <1>0, <1>1, <1>4, <2>2, <3>1, AccountKeyIsFree
  <2>4. RequestsSound'
    BY <1>0, <1>2, <1>4, AnsweredKeeps
  <2> QED BY <1>2, <2>3, <2>4, AccountParts, PTL
<1>5. CASE /\ q.at = "right" /\ MovesTo(c, "cleared") /\ attempts' = [attempts EXCEPT ![own] = NoAttempts]
           /\ strikes' = [strikes EXCEPT ![own] = 0]
  <2>1. ThrottleTyped' /\ ThrottleIsEarned'
    <3> HIDE DEF e
    <3> QED BY <1>0, <1>1, <1>5, SuccessKeeps
  <2> QED BY <1>1, <1>5, <2>1, LoginMovesOn
<1>6. CASE /\ q.at = "cleared" /\ MovesTo(c, "ready") /\ attempts' = [attempts EXCEPT ![AccountKey(e)] = NoAttempts]
           /\ UNCHANGED strikes
  <2>1. NoAttempts \in [failures : Nat, age : 0 .. Window + 1, blocked : 0 .. Window]
    BY AccountConstants DEF NoAttempts
  <2>2. ThrottleTyped' /\ ThrottleIsEarned'
    <3> HIDE DEF e
    <3> QED BY <1>0, <1>1, <1>6, <2>1, AccountKeyIsFree
  <2> QED BY <1>1, <1>6, <2>2, LoginMovesOn
<1> QED BY <1>3, <1>4, <1>5, <1>6 DEF RecordLoginFailure, ClearLoginFailures, Doing

LEMMA LoginStepsKeep ==
  ASSUME AccountsIInv, NEW c \in Clients, LoginRefused(c) \/ CheckPassword(c) \/ CreateSession(c)
  PROVE  AccountsIInv'
<1> DEFINE q == request[c]  e == q.email  u == q.user  read == q.era
<1>0. RequestsSound /\ RequestsTyped /\ CredentialsSound /\ CredentialsTyped /\ ThrottleTyped /\ ThrottleIsEarned
  BY AccountParts DEF CredentialsSound, RequestsSound
<1>1. q \in LoginRequests /\ read \in 0 .. MaxEra /\ (q.at = "ready" => u \in Ids)
  BY <1>0 DEF LoginRefused, CheckPassword, CreateSession, Doing, RequestsTyped, LoginRequests
<1>2. CASE LoginRefused(c)
  BY <1>0, <1>2, CredentialsStay, WriteKeeps DEF LoginRefused
<1>3. CASE CheckPassword(c)
  <2>0. UNCHANGED credentials /\ ThrottleTyped' /\ ThrottleIsEarned'
    BY <1>0, <1>3, ThrottleStays DEF CheckPassword
  <2>1. CASE request' = [request EXCEPT ![c] = [q EXCEPT !.at = "wrong"]]
    <3> DEFINE r == [q EXCEPT !.at = "wrong"]
    <3>1. r \in LoginRequests /\ r.at = "wrong"
      BY <1>1 DEF LoginRequests
    <3> HIDE DEF r
    <3>2. request' = [request EXCEPT ![c] = r]
      BY <2>1 DEF r
    <3> QED BY <2>0, <3>1, <3>2, LoginGoesOn
  <2>2. ASSUME NEW v \in UserByEmail(e),
               request' = [request EXCEPT ![c] = [q EXCEPT !.at = "right", !.user = v, !.era = users[v].era]]
        PROVE  AccountsIInv'
    <3> DEFINE r == [q EXCEPT !.at = "right", !.user = v, !.era = users[v].era]
    <3>0. v \in Ids /\ users[v].era \in 0 .. MaxEra
      BY <1>0 DEF UserByEmail, CredentialsTyped, Exists, UserRows
    <3>1. r \in LoginRequests /\ r.user \in Ids
      BY <1>1, <3>0 DEF LoginRequests
    <3>2. request' = [request EXCEPT ![c] = r]
      BY <2>2
    <3> HIDE DEF r
    <3> QED BY <2>0, <3>1, <3>2, LoginGoesOn
  <2> QED BY <1>3, <2>1, <2>2 DEF CheckPassword
<1>4. CASE CreateSession(c)
  <2>1. /\ Answered(c) /\ u \in Ids /\ UNCHANGED <<users, links, feed, era, born, throttling>>
        /\ sessions' = IF Exists(u)
                         THEN sessions \cup {[user |-> u, era |-> read, issued |-> users[u].era]}
                         ELSE sessions
    BY <1>1, <1>4 DEF CreateSession, Doing
  <2> HIDE DEF u, read
  <2>2. CredentialsSound' /\ Admins' = Admins
    <3>1. CASE Exists(u)
      BY <1>0, <1>1, <2>1, <3>1, CredentialBegins
    <3>2. CASE ~Exists(u)
      BY <1>0, <2>1, <3>2, CredentialsStay DEF credentials
    <3> QED BY <3>1, <3>2
  <2> QED BY <2>1, <2>2, WriteKeeps
<1> QED BY <1>2, <1>3, <1>4

\* A sign-out, the end of a link, and time.
LEMMA AccountOthersKeep ==
  ASSUME AccountsIInv,
         \/ \E s \in sessions : Logout(s)
         \/ \E l \in Links : LinkExpires(l) \/ LinkPruned(l)
         \/ AccountsTick \/ UNCHANGED accountVars
  PROVE  AccountsIInv' /\ UNCHANGED request
<1>0. RequestsSound /\ CredentialsSound /\ CredentialsTyped /\ ThrottleTyped /\ ThrottleIsEarned
  BY AccountParts DEF CredentialsSound
<1>1. UNCHANGED request
  BY DEF Logout, LinkExpires, LinkPruned, AccountsTick, accountVars
<1>2. Admins' = Admins => RequestsSound'
  BY <1>0, <1>1 DEF RequestsSound, RequestsTyped
<1>3. ASSUME NEW s \in sessions, Logout(s) PROVE AccountsIInv'
  <2>1. UNCHANGED <<users, links, feed, era, born, throttling>> /\ sessions' \subseteq sessions
    BY <1>3 DEF Logout
  <2>2. LinksRetire /\ feed' \in [Ids -> Tokens \cup {NoFeed}]
    BY <1>0, <2>1 DEF LinksRetire, CredentialsTyped
  <2>3. CredentialsSound' /\ Admins' = Admins /\ ThrottleTyped' /\ ThrottleIsEarned'
    BY <1>0, <2>1, <2>2, FewerCredentials, ThrottleStays
  <2> QED BY <1>2, <2>3, AccountParts, PTL
<1>4. ASSUME NEW l \in Links, LinkExpires(l) \/ LinkPruned(l) PROVE AccountsIInv'
  <2>1. UNCHANGED throttling
    BY <1>4 DEF LinkExpires, LinkPruned
  <2>2. CredentialsSound' /\ Admins' = Admins /\ ThrottleTyped' /\ ThrottleIsEarned'
    BY <1>0, <1>4, <2>1, LinkEnds, ThrottleStays
  <2> QED BY <1>2, <2>2, AccountParts, PTL
<1>5. CASE AccountsTick
  <2>1. CredentialsSound' /\ Admins' = Admins /\ ThrottleTyped' /\ ThrottleIsEarned'
    BY <1>0, <1>5, TickKeeps, CredentialsStay DEF AccountsTick
  <2>2. AccountsIInv'
    BY <1>2, <2>1, AccountParts, PTL
  <2> QED BY <1>1, <2>2
<1>6. CASE UNCHANGED accountVars
  <2>1. UNCHANGED <<credentials, throttling>>
    BY <1>6 DEF accountVars, credentials, throttling
  <2>2. CredentialsSound' /\ Admins' = Admins /\ ThrottleTyped' /\ ThrottleIsEarned'
    BY <1>0, <2>1, CredentialsStay, ThrottleStays
  <2>3. AccountsIInv'
    BY <1>2, <2>2, AccountParts, PTL
  <2> QED BY <1>1, <2>3
<1> QED BY <1>1, <1>3, <1>4, <1>5, <1>6

LEMMA AccountsStart == AccountsInit => AccountsIInv
<1> SUFFICES ASSUME AccountsInit PROVE AccountsIInv
  OBVIOUS
<1>0. MaxUsers \in Nat /\ MaxEra \in Nat /\ Window \in Nat /\ Threshold \in Nat
  BY AccountConstants
<1>1. \A u \in Ids : users[u] = NoUser
  BY DEF AccountsInit
<1>2. Admins = {}
  BY <1>1 DEF Admins, Exists
<1>3. CredentialsTyped
  BY <1>0 DEF AccountsInit, CredentialsTyped
<1>4. CredentialsSound
  BY <1>1, <1>2, <1>3 DEF AccountsInit, CredentialsSound, Founded, OpenLinksAreUnused,
     CredentialsHaveAccounts, Exists, IsOpen
<1>5. ThrottleTyped /\ ThrottleIsEarned
  <2>1. NoAttempts \in [failures : Nat, age : 0 .. Window + 1, blocked : 0 .. Window]
    BY <1>0 DEF NoAttempts
  <2>2. ThrottleTyped
    BY <2>1 DEF AccountsInit, ThrottleTyped
  <2>3. ThrottleIsEarned
    BY KeysAreApart DEF AccountsInit, ThrottleIsEarned, NoAttempts
  <2> QED BY <2>2, <2>3
<1>6. RequestsSound
  <2>1. DOMAIN request = Clients /\ \A c \in Clients : request[c].kind = "none"
    BY DEF AccountsInit, NoRequest
  <2> QED BY <2>1 DEF RequestsSound, RequestsTyped
<1> QED BY <1>4, <1>5, <1>6, AccountParts

LEMMA AccountsStep ==
  ASSUME AccountsIInv, [AccountsNext]_accountVars
  PROVE  AccountsIInv'
BY RequestBeginKeeps, PasswordWritesKeep, AccountWritesKeep, CredentialWritesKeep, LoginStepsKeep, ThrottleWritesKeep,
   AccountOthersKeep DEF AccountsNext, RequestWrites

\* Only a sign-in of a peer whose own key is blocked is refused.
LEMMA RefusalsAreEarned ==
  ASSUME AccountsIInv, [AccountsNext]_accountVars, NEW c \in Clients, request'[c] # request[c],
         request'[c].kind = "login", request'[c].at = "refused"
  PROVE  strikes[<<c, request'[c].email>>] >= Threshold
<1>0. RequestsTyped /\ ThrottleTyped /\ ThrottleIsEarned /\ Threshold \in Nat
  BY AccountParts, AccountConstants DEF RequestsSound
<1>1. PICK b \in Clients : RequestBegins(b) \/ RequestWrites(b)
  BY AccountOthersKeep DEF AccountsNext
<1>2. CASE RequestBegins(b)
  <2>1. CASE \E e \in Emails : Login(b, e)
    <3>1. PICK e \in Emails : Login(b, e)
      BY <2>1
    <3> DEFINE q == [kind |-> "login", email |-> e, user |-> 0, era |-> 0,
                     at |-> IF Refused(b, e) THEN "refused" ELSE "allowed"]
    <3>2. request' = [request EXCEPT ![b] = q]
      BY <3>1 DEF Login, Starts
    <3>3. c = b /\ request'[c] = q
      BY <1>0, <3>2 DEF RequestsTyped
    <3>4. Refused(c, e) /\ request'[c].email = e
      BY <3>3
    <3>5. attempts[<<c, e>>].blocked # 0
      BY <3>4 DEF Refused, LoginAllowed
    <3>6. strikes[<<c, e>>] \in Nat
      BY <1>0, KeysAreApart DEF ThrottleTyped
    <3> QED BY <1>0, <3>4, <3>5, <3>6 DEF ThrottleIsEarned
  <2>2. ASSUME NEW q, Starts(b, q), q.kind # "login" PROVE FALSE
    <3>1. request'[c] = IF c = b THEN q ELSE request[c]
      BY <1>0, <2>2 DEF Starts, RequestsTyped
    <3> QED BY <2>2, <3>1
  <2>3. CASE ~\E e \in Emails : Login(b, e)
    <3>1. \E q : Starts(b, q) /\ q.kind # "login"
      <4>1. ASSUME NEW e \in Emails, Setup(b, e) PROVE \E q : Starts(b, q) /\ q.kind # "login"
        <5>1. [kind |-> "setup", at |-> "hashed", email |-> e, empty |-> \A u \in Ids : ~Exists(u)].kind # "login"
          OBVIOUS
        <5> QED BY <4>1, <5>1 DEF Setup
      <4>2. ASSUME NEW l \in Links, NEW kind \in {"accept", "recover"}, OpenLink(b, l, kind)
            PROVE  \E q : Starts(b, q) /\ q.kind # "login"
        <5>1. [kind |-> kind, at |-> "hashed", link |-> l, was |-> links[l]].kind # "login"
          OBVIOUS
        <5> QED BY <4>2, <5>1 DEF OpenLink
      <4>3. ASSUME NEW s \in sessions, ChangePassword(b, s) PROVE \E q : Starts(b, q) /\ q.kind # "login"
        <5>1. [kind |-> "change", at |-> "hashed", user |-> s.user].kind # "login"
          OBVIOUS
        <5> QED BY <4>3, <5>1 DEF ChangePassword
      <4>4. ASSUME NEW s \in sessions, NEW op \in {"invite", "reset", "delete"}, NEW e \in Emails,
                   AdminReads(b, s, op, e)
            PROVE  \E q : Starts(b, q) /\ q.kind # "login"
        <5> DEFINE q == [kind |-> op, at |-> "read", acting |-> s.user, email |-> e,
                         user |-> IF op = "invite" THEN 0 ELSE CHOOSE u \in UserByEmail(e) : TRUE]
        <5>1. q.kind # "login"
          OBVIOUS
        <5>2. Starts(b, q)
          BY <4>4 DEF AdminReads
        <5> QED BY <5>1, <5>2
      <4>5. ASSUME NEW s \in sessions, NEW op \in {"generate", "revoke"}, FeedAction(b, s, op)
            PROVE  \E q : Starts(b, q) /\ q.kind # "login"
        <5>1. [kind |-> "feed", at |-> op, user |-> s.user, era |-> s.era].kind # "login"
          OBVIOUS
        <5> QED BY <4>5, <5>1 DEF FeedAction
      <4> QED BY <1>2, <2>3, <4>1, <4>2, <4>3, <4>4, <4>5 DEF RequestBegins
    <3> QED BY <2>2, <3>1
  <2> QED BY <2>1, <2>3
<1>3. CASE RequestWrites(b)
  <2>1. ASSUME Answered(b) PROVE FALSE
    <3>1. request'[c] = IF c = b THEN NoRequest ELSE request[c]
      BY <1>0, <2>1 DEF Answered, RequestsTyped
    <3> QED BY <3>1 DEF NoRequest
  <2>2. ASSUME CheckPassword(b) PROVE FALSE
    <3>1. request[b] \in LoginRequests
      BY <1>0, <2>2 DEF CheckPassword, Doing, RequestsTyped
    <3>2. \A u, x : /\ [request[b] EXCEPT !.at = "wrong"].at = "wrong"
                    /\ [request[b] EXCEPT !.at = "right", !.user = u, !.era = x].at = "right"
      BY <3>1 DEF LoginRequests
    <3>3. PICK r : request' = [request EXCEPT ![b] = r] /\ r.at # "refused"
      BY <2>2, <3>2 DEF CheckPassword
    <3>4. request'[c] = IF c = b THEN r ELSE request[c]
      BY <1>0, <3>3 DEF RequestsTyped
    <3> QED BY <3>3, <3>4
  <2>3. ASSUME NEW to \in {"counted", "cleared", "ready"}, request[b].kind = "login", MovesTo(b, to) PROVE FALSE
    <3> DEFINE r == [request[b] EXCEPT !.at = to]
    <3>1. request[b] \in LoginRequests
      BY <1>0, <2>3 DEF RequestsTyped
    <3>2. r.at = to /\ request' = [request EXCEPT ![b] = r]
      BY <2>3, <3>1 DEF MovesTo, LoginRequests
    <3> HIDE DEF r
    <3>3. request'[c] = IF c = b THEN r ELSE request[c]
      BY <1>0, <3>2 DEF RequestsTyped
    <3> QED BY <3>2, <3>3
  <2>4. \/ Answered(b) \/ CheckPassword(b)
        \/ request[b].kind = "login" /\ \E to \in {"counted", "cleared", "ready"} : MovesTo(b, to)
    BY <1>3 DEF RequestWrites, CreateInitialAdmin, LoginRefused, RecordLoginFailure, ClearLoginFailures,
       CreateSession, Doing, UpdatePassword,
       ResetPasswordWithToken, CreateUserFromInvite, CreateAuthToken, CreateAuthTokenFails, DeleteUser,
       CreateCalendarFeedToken, RevokeCalendarFeedToken
  <2> QED BY <2>1, <2>2, <2>3, <2>4
<1> QED BY <1>1, <1>2, <1>3

-----------------------------------------------------------------------------
(* Theorems about accounts.                                                *)

\* Always, whichever requests of whichever clients run side by side, the
\* household is founded once, open links are unused, every credential has an account
\* and was issued since that has its password, and the throttle is earned.  It is not
\* said which password a credential was authorized under: a request that read an old
\* one before the change may write a session or a token after it.
THEOREM AccountsInvariance == AccountsSpec => []AccountsIInv
<1>1. AccountsIInv /\ [AccountsNext]_accountVars => AccountsIInv'
  BY AccountsStep
<1> QED BY <1>1, AccountsStart, PTL DEF AccountsSpec

\* A household has one administrator and an invitation makes one account; a new
\* password ends every session, token and recovery link issued before it, though not
\* what a request that read the old one issues later; and a peer is turned away only
\* for wrong passwords of its own.
THEOREM AccountsKeepTheirPromises == AccountsSpec => AccountsAreSound
<1>1. AccountsIInv => AccountsTypeOK /\ OneAdministrator /\ InvitationMakesOneAccount /\ CredentialsEndWithPassword
  <2>1. SUFFICES ASSUME AccountsIInv
                 PROVE  AccountsTypeOK /\ OneAdministrator /\ InvitationMakesOneAccount /\ CredentialsEndWithPassword
    OBVIOUS
  <2>2. CredentialsTyped /\ Founded /\ OpenLinksAreUnused /\ CredentialsHaveAccounts /\ ThrottleTyped
    BY <2>1, AccountParts DEF CredentialsSound
  <2>3. AccountsTypeOK
    <3>1. \A u \in Ids : Exists(u) => users[u] \in UserRows
      BY <2>2 DEF CredentialsTyped, Exists
    <3>2. \A l \in Links : links[l] # NoLink => links[l] \in LinkRows
      BY <2>2 DEF CredentialsTyped
    <3> QED BY <2>2, <3>1, <3>2 DEF AccountsTypeOK, CredentialsTyped, ThrottleTyped, UserRows, LinkRows, Tokens
  <2>4. OneAdministrator
    <3>1. SUFFICES ASSUME NEW u \in Ids, Exists(u) PROVE Cardinality(Admins) = 1
      BY DEF OneAdministrator
    <3>2. PICK v : Admins = {v}
      BY <2>2, <3>1 DEF Founded
    <3> QED BY <3>2, FS_Singleton
  <2> QED BY <2>2, <2>3, <2>4 DEF OpenLinksAreUnused, CredentialsHaveAccounts, InvitationMakesOneAccount,
            CredentialsEndWithPassword
<1>2. AccountsIInv /\ [AccountsNext]_accountVars =>
        [\A c \in Clients :
           request'[c] # request[c] /\ request'[c].kind = "login" /\ request'[c].at = "refused" =>
             strikes[<<c, request'[c].email>>] >= Threshold]_accountVars
  BY RefusalsAreEarned
<1> QED BY <1>1, <1>2, AccountsInvariance, PTL DEF AccountsSpec, AccountsAreSound, OwnerIsNotLockedOut

=============================================================================
