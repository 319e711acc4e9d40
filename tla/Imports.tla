------------------------------- MODULE Imports -------------------------------
(***************************************************************************)
(* The import of a watchlist: an upload is applied row by row inside its   *)
(* request, each row in a transaction of its own; what an interruption     *)
(* leaves behind is found by maintenance, kept from the retention sweeps   *)
(* and can be resumed, which replays the retained upload into a new job    *)
(* (store/imports.go, web/import.go, store/retention.go).                  *)
(*                                                                         *)
(* One member and one file.  A row names an artist, or is invalid.  A tick *)
(* is the hour of the maintenance cadence: a request, which the server     *)
(* ends after 90 seconds, does not outlive it.                             *)
(***************************************************************************)
EXTENDS Naturals, Sequences, FiniteSets

CONSTANTS
  Handlers,      \* concurrent import requests
  JobIds,        \* rows of import_jobs
  File,          \* the rows of the file: artists, or "invalid"
  Known,         \* artists stored and verified before
  Stale,         \* 1 hour: when a processing job counts as interrupted
  Transient,     \* 30 days: when a job is swept
  MaxUploads,    \* files uploaded
  MaxDowntime,   \* ticks the process is down in all
  Faults         \* crashes, expired requests and failed writes

Followable == {File[i] : i \in DOMAIN File} \ {"invalid"}

ASSUME ImportsAssumption ==
  /\ File \in Seq(Followable \cup {"invalid"}) /\ File # <<>> /\ Known \subseteq Followable
  /\ {Stale, Transient, MaxUploads} \subseteq Nat \ {0} /\ Stale < Transient
  /\ {MaxDowntime, Faults} \subseteq Nat

VARIABLES
  job,        \* import_jobs
  handler,    \* the requests that apply a file
  followRule,       \* the member's follows: their notification rules
  identity,   \* artist_identity_status
  dueNow,     \* artists whose next check was brought forward
  alive,      \* the process runs
  swept,      \* how far this hour's maintenance is
  downtime,   \* ticks without a process so far
  faults,     \* what is left of Faults
  uploads,    \* files uploaded so far
  done        \* uploads of which some job is complete

importVars == <<job, handler, followRule, identity, dueNow, alive, swept, downtime,
                faults, uploads, done>>
watchlist == <<followRule, identity, dueNow>>
host == <<alive, swept, downtime>>

NoJob == [status |-> "none"]
Resting == [job |-> "none"]
IsJob(j) == job[j] # NoJob

ImportsTypeOK ==
  /\ \A j \in JobIds : IsJob(j) =>
       /\ job[j].status \in {"processing", "complete", "failed", "interrupted"}
       /\ job[j].age \in 0 .. Transient + 1 /\ job[j].upload \in 1 .. MaxUploads
       /\ \A i \in DOMAIN job[j].rows :
            job[j].rows[i] \in {"added", "already_followed", "invalid", "unsaved"}
  /\ \A h \in Handlers : handler[h] # Resting =>
       handler[h].row \in 1 .. Len(File) + 1 /\ handler[h].status \in {"complete", "failed", "interrupted"}
  /\ followRule \in [Followable -> {"none", "inherit", "custom"}]
  /\ identity \in [Followable -> {"none", "pending", "verified"}]
  /\ dueNow \subseteq Followable
  /\ swept \in {"due", "pruned", "done"} /\ downtime \in 0 .. MaxDowntime

ImportsInit ==
  /\ job = [j \in JobIds |-> NoJob] /\ handler = [h \in Handlers |-> Resting]
  /\ followRule = [a \in Followable |-> "none"]
  /\ identity = [a \in Followable |-> IF a \in Known THEN "verified" ELSE "none"]
  /\ dueNow = {} /\ alive = TRUE /\ swept = "due" /\ downtime = 0
  /\ faults = Faults /\ uploads = 0 /\ done = {}

Fault == faults > 0 /\ faults' = faults - 1

-----------------------------------------------------------------------------
(* The requests.                                                           *)

Resumable(j) == IsJob(j) /\ job[j].status \in {"interrupted", "failed"} /\ job[j].payload

CreateImportJobWithPayload(h, j, upload) ==
  /\ alive /\ handler[h] = Resting /\ ~IsJob(j)
  /\ job' = [job EXCEPT ![j] = [status |-> "processing", payload |-> TRUE, age |-> 0,
                                upload |-> upload, rows |-> <<>>]]
  /\ handler' = [handler EXCEPT ![h] = [job |-> j, row |-> 1, status |-> "complete"]]
  /\ UNCHANGED <<watchlist, host, faults, done>>

ImportArtists(h, j) ==
  /\ uploads < MaxUploads /\ uploads' = uploads + 1
  /\ CreateImportJobWithPayload(h, j, uploads + 1)

\* ImportJobPayload lets only a stopped job be resumed, into a new one; the
\* stopped one stays as it is.
ResumeArtistImport(h, from, j) ==
  /\ Resumable(from) /\ UNCHANGED uploads
  /\ CreateImportJobWithPayload(h, j, job[from].upload)

Recorded(h, result) ==
  LET j == handler[h].job IN
  job' = [job EXCEPT ![j] = [@ EXCEPT !.rows = Append(job[j].rows, result)]]
Applying(h) == alive /\ handler[h] # Resting /\ handler[h].row <= Len(File)
                     /\ handler[h].status # "interrupted"
CurrentRow(h) == File[handler[h].row]
NextRow(h, status) ==
  handler' = [handler EXCEPT ![h] = [@ EXCEPT !.row = handler[h].row + 1, !.status = status]]

FollowReplacing(a) == followRule' = [followRule EXCEPT ![a] = "inherit"]

\* A follow begins with the rules it inherits; one that exists keeps its own.
FollowOrIgnore(a) == followRule' = [followRule EXCEPT ![a] = IF @ = "none" THEN "inherit" ELSE @]

SaveInvalidRow(h) ==
  /\ Applying(h) /\ CurrentRow(h) = "invalid"
  /\ Recorded(h, "invalid") /\ NextRow(h, handler[h].status)
  /\ UNCHANGED <<watchlist, host, faults, uploads, done>>

\* The artist is created, to be verified, or reused as it is; the follow and its
\* rules are added unless they exist, and a new one is due at once.
SaveImportRow(h) ==
  LET a == CurrentRow(h) IN
  /\ Applying(h) /\ a # "invalid"
  /\ identity' = [identity EXCEPT ![a] = IF @ = "none" THEN "pending" ELSE @]
  /\ FollowOrIgnore(a)
  /\ dueNow' = IF followRule[a] = "none" THEN dueNow \cup {a} ELSE dueNow
  /\ Recorded(h, IF followRule[a] = "none" THEN "added" ELSE "already_followed")
  /\ NextRow(h, handler[h].status)
  /\ UNCHANGED <<host, faults, uploads, done>>

AfterUnsavedLatest(status) == status
AfterUnsaved(status) == "failed"

\* A row that cannot be stored is recorded as such, if at least that works, and
\* the rest of the file is still applied.
SaveRowFails(h) ==
  /\ Applying(h) /\ Fault
  /\ Recorded(h, "unsaved") \/ UNCHANGED job
  /\ NextRow(h, AfterUnsaved(handler[h].status))
  /\ UNCHANGED <<watchlist, host, uploads, done>>

\* The deadline of the request stops it between two rows or inside one.
RequestExpires(h) ==
  /\ Applying(h) /\ Fault
  /\ handler' = [handler EXCEPT ![h].status = "interrupted"]
  /\ UNCHANGED <<job, watchlist, host, uploads, done>>

Finishing(h) == alive /\ handler[h] # Resting
                /\ (handler[h].row > Len(File) \/ handler[h].status = "interrupted")

\* Only a processing job is finished; a complete one needs its upload no more.
FinishImportJob(h) ==
  LET j == handler[h].job  status == handler[h].status IN
  /\ Finishing(h)
  /\ IF IsJob(j) /\ job[j].status = "processing"
       THEN /\ job' = [job EXCEPT ![j] = [@ EXCEPT !.status = status, !.payload = status # "complete"]]
            /\ done' = IF status = "complete" THEN done \cup {job[j].upload} ELSE done
       ELSE UNCHANGED <<job, done>>
  /\ handler' = [handler EXCEPT ![h] = Resting]
  /\ UNCHANGED <<watchlist, host, faults, uploads>>

FinishFails(h) ==
  /\ Finishing(h) /\ Fault
  /\ handler' = [handler EXCEPT ![h] = Resting]
  /\ UNCHANGED <<job, watchlist, host, uploads, done>>

-----------------------------------------------------------------------------
(* The member, the clock, maintenance and the process.                     *)

CustomizeRules(a) ==
  /\ alive /\ followRule[a] = "inherit"
  /\ followRule' = [followRule EXCEPT ![a] = "custom"]
  /\ UNCHANGED <<job, handler, identity, dueNow, host, faults, uploads, done>>

MemberUnfollows(a) ==
  /\ alive /\ followRule[a] # "none" /\ Fault
  /\ followRule' = [followRule EXCEPT ![a] = "none"]
  /\ UNCHANGED <<job, handler, identity, dueNow, host, uploads, done>>

SweptJobByAge(j) == IsJob(j) /\ job[j].age > Transient
\* By age, but never what could be resumed.
SweptJob(j) == IsJob(j) /\ job[j].age > Transient /\ ~Resumable(j)

Swept == [j \in JobIds |-> IF SweptJob(j) THEN NoJob ELSE job[j]]

\* Scheduled maintenance: the sweep first, the recovery after it, each a
\* transaction of its own.
PruneExpiredImports ==
  /\ alive /\ swept = "due" /\ swept' = "pruned"
  /\ job' = Swept
  /\ UNCHANGED <<handler, watchlist, alive, downtime, faults, uploads, done>>

RecoverInterruptedImportJobs ==
  /\ alive /\ swept = "pruned" /\ swept' = "done"
  /\ job' = [j \in JobIds |->
       IF IsJob(j) /\ job[j].status = "processing" /\ job[j].age >= Stale
         THEN [job[j] EXCEPT !.status = "interrupted"] ELSE job[j]]
  /\ UNCHANGED <<handler, watchlist, alive, downtime, faults, uploads, done>>

\* An administrator's cleanup: the same sweep at any time.
CleanupRetention ==
  /\ alive /\ \E j \in JobIds : SweptJob(j)
  /\ job' = Swept
  /\ UNCHANGED <<handler, watchlist, host, faults, uploads, done>>

\* Handlers end with the process; the first maintenance of the next one is due.
ImportCrash ==
  /\ alive /\ Fault
  /\ alive' = FALSE /\ swept' = "due"
  /\ handler' = [h \in Handlers |-> Resting]
  /\ UNCHANGED <<job, watchlist, downtime, uploads, done>>

Restart ==
  /\ ~alive /\ alive' = TRUE
  /\ UNCHANGED <<job, handler, watchlist, swept, downtime, faults, uploads, done>>

Older == [j \in JobIds |-> IF IsJob(j) /\ job[j].age <= Transient
                             THEN [job[j] EXCEPT !.age = job[j].age + 1] ELSE job[j]]

HourPasses ==
  /\ IF alive THEN /\ swept = "done" /\ swept' = "due" /\ UNCHANGED downtime
                   /\ \A h \in Handlers : handler[h] = Resting
     ELSE /\ downtime < MaxDowntime /\ downtime' = downtime + 1 /\ UNCHANGED swept
  /\ job' = Older /\ dueNow' = {}
  /\ UNCHANGED <<handler, followRule, identity, alive, faults, uploads, done>>

-----------------------------------------------------------------------------
ImportsNext ==
  \/ \E h \in Handlers, j \in JobIds :
       ImportArtists(h, j) \/ \E from \in JobIds : ResumeArtistImport(h, from, j)
  \/ \E h \in Handlers :
       \/ SaveInvalidRow(h) \/ SaveImportRow(h) \/ SaveRowFails(h)
       \/ RequestExpires(h) \/ FinishImportJob(h) \/ FinishFails(h)
  \/ \E a \in Followable : CustomizeRules(a) \/ MemberUnfollows(a)
  \/ PruneExpiredImports \/ RecoverInterruptedImportJobs \/ CleanupRetention
  \/ ImportCrash \/ Restart \/ HourPasses

-----------------------------------------------------------------------------
(* Properties.                                                             *)

\* An upload that stopped part-way, wherever it stopped and whatever was swept
\* since, can be resumed or soon will be, until some job of it is complete.
StoppedImportsAreKept ==
  \A u \in (1 .. uploads) \ done :
    \E j \in JobIds : IsJob(j) /\ job[j].upload = u
                      /\ (job[j].status = "processing" \/ Resumable(j))

\* A job is complete only if every row of the file has its result, and none of
\* them is a row that was not stored.
CompleteMeansAll ==
  \A j \in JobIds : IsJob(j) /\ job[j].status = "complete" =>
    Len(job[j].rows) = Len(File) /\ \A i \in DOMAIN File : job[j].rows[i] # "unsaved"

\* Importing, and replaying what was imported before, leaves the rules a member
\* chose and the identities that were verified as they are.
ReplayKeepsChoices ==
  [][\A a \in Followable :
       /\ followRule[a] = "custom" /\ followRule'[a] # "custom" => MemberUnfollows(a)
       /\ identity[a] = "verified" => identity'[a] = "verified"]_importVars

\* What the status of an import tells its owner is so, wherever the process or
\* the request stopped: complete means all of it, anything else can be resumed,
\* and resuming it takes nothing back.
ImportsTellTheTruth == [](ImportsTypeOK /\ CompleteMeansAll /\ StoppedImportsAreKept) /\ ReplayKeepsChoices

-----------------------------------------------------------------------------
(* Why they hold: the inductive invariant of the proofs.                   *)

ImportsSpec == ImportsInit /\ [][ImportsNext]_importVars

\* The retention is longer than what a job may be left processing: the hour after
\* which it is recovered, and the time without a process to do so.
BriefDowntime == Stale + MaxDowntime <= Transient

ImportResults == {"added", "already_followed", "invalid", "unsaved"}
ImportJobs ==
  [status : {"processing", "complete", "failed", "interrupted"}, payload : BOOLEAN,
   age : 0 .. Transient + 1, upload : 1 .. MaxUploads, rows : Seq(ImportResults)]
ImportHandlers ==
  [job : JobIds, row : 1 .. Len(File) + 1, status : {"complete", "failed", "interrupted"}]

ImportsTyped ==
  /\ job \in [JobIds -> {NoJob} \cup ImportJobs]
  /\ handler \in [Handlers -> {Resting} \cup ImportHandlers]
  /\ followRule \in [Followable -> {"none", "inherit", "custom"}]
  /\ identity \in [Followable -> {"none", "pending", "verified"}] /\ dueNow \subseteq Followable
  /\ alive \in BOOLEAN /\ swept \in {"due", "pruned", "done"} /\ (~alive => swept = "due")
  /\ downtime \in 0 .. MaxDowntime /\ uploads \in 0 .. MaxUploads

\* A request has a job of its own, which is new and, unless a row was lost, has a
\* result for each row before the current one.
HandlersWork ==
  /\ \A h \in Handlers : handler[h] # Resting =>
       LET j == handler[h].job IN
       /\ alive /\ IsJob(j) /\ job[j].status = "processing" /\ job[j].age = 0
       /\ handler[h].status = "complete" =>
            /\ Len(job[j].rows) = handler[h].row - 1
            /\ \A i \in 1 .. Len(job[j].rows) : job[j].rows[i] # "unsaved"
  /\ \A g, h \in Handlers :
       handler[g] # Resting /\ handler[h] # Resting /\ handler[g].job = handler[h].job => g = h

\* Whatever is not complete has its upload, and recovery keeps up with the clock.
UploadsAreRetained ==
  \A j \in JobIds : IsJob(j) =>
    /\ job[j].status = "complete" => job[j].upload \in done
    /\ job[j].status # "complete" => job[j].payload
    /\ job[j].status = "processing" =>
         job[j].age <= Stale + downtime /\ (swept = "done" => job[j].age < Stale)

ImportsIInv == ImportsTyped /\ HandlersWork /\ UploadsAreRetained /\ CompleteMeansAll
=============================================================================
