------------------------------ MODULE Process ------------------------------
(***************************************************************************)
(* The life of one server process: cmd/server (start-up, the lifecycle and *)
(* its shutdown stages), the run loop of internal/jobs with its guarded    *)
(* tasks, and the asynchronous log sink of internal/logging that all of    *)
(* them write to.                                                          *)
(*                                                                         *)
(* What the tasks and handlers do with the database is the subject of the  *)
(* other modules; here it only matters while they can still do it.  Every  *)
(* request, every task and the main goroutine logs at most one record at   *)
(* INFO or above, which is enough to fill a small buffer and to race with  *)
(* the closing of the sink.  A budget of a shutdown stage may run out      *)
(* whenever the stage waits, so no clock is needed.                        *)
(***************************************************************************)
EXTENDS Naturals, Sequences, FiniteSets

CONSTANTS
  Requests,      \* HTTP requests the process receives
  Tasks,         \* the guarded tasks of the runner, "sync" among them
  Loggers,       \* those of them, and of "main", that log
  LogBuffer,     \* capacity of the sink's channel
  PendingLimit   \* records held before a sink is attached

ASSUME ProcessAssumption ==
  /\ "sync" \in Tasks
  /\ LogBuffer \in Nat \ {0}
  /\ PendingLimit \in 1 .. LogBuffer
  /\ Requests \cap Tasks = {} /\ "main" \notin Requests \cup Tasks
  /\ IsFiniteSet(Loggers)
  /\ Loggers \subseteq Requests \cup Tasks \cup {"main"}

VARIABLES
  stage,      \* where the main goroutine is
  outcome,    \* how the process ended
  database,   \* the store handle
  stopping,   \* a signal, or a failed listener, has cancelled the context
  server,     \* the HTTP server
  inTime,     \* no shutdown stage has outlived its budget
  request,    \* what each request is doing
  runner,     \* the run loop
  task,       \* what each guarded task is doing
  guard,      \* the mutex of each task
  syncMu,     \* who holds the mutex of catalog synchronization
  wake,       \* the one-slot wake channel
  work,       \* durable work queued that no task has looked at
  enq,        \* where each logger is in Enqueue
  held,       \* records held for a sink to come
  buffer,     \* the channel of the sink
  writer,     \* the goroutine of the sink
  closed,     \* Close has begun
  full,       \* records that met a full buffer
  refused,    \* records that came after Close began
  dropped     \* the sink's loss counter

mainVars == <<stage, outcome, database, stopping, server, inTime>>
runnerVars == <<runner, task, guard, syncMu, wake, work>>
sinkVars == <<enq, held, buffer, writer, closed, full, refused, dropped>>
processVars == <<mainVars, runnerVars, request, sinkVars>>

Stages == {"configuring", "starting", "serving", "http", "server", "runner",
           "logs", "startupDrain", "exited"}

ProcessTypeOK ==
  /\ stage \in Stages
  /\ outcome \in {"none", "clean", "failed", "startup"}
  /\ database \in {"unopened", "open", "closed"}
  /\ stopping \in BOOLEAN
  /\ server \in {"down", "serving", "stopped", "failed"}
  /\ request \in [Requests -> {"none", "handling", "syncing", "answered"}]
  /\ runner \in {"new", "looping", "waiting", "done"}
  /\ task \in [Tasks -> {"idle", "running", "reading", "skipping"}]
  /\ guard \in [Tasks -> BOOLEAN]
  /\ syncMu \in Requests \cup {"sync", "free"}
  /\ {inTime, wake, work, closed} \subseteq BOOLEAN
  /\ enq \in [Loggers -> {"silent", "checked", "sent", "returned"}]
  /\ Len(held) <= PendingLimit /\ Len(buffer) <= LogBuffer
  /\ writer \in {"new", "running", "draining", "done"}
  /\ full \subseteq Loggers /\ refused \subseteq Loggers
  /\ dropped \in 0 .. Cardinality(Loggers)

ProcessInit ==
  /\ stage = "configuring" /\ outcome = "none" /\ database = "unopened"
  /\ stopping = FALSE /\ server = "down" /\ inTime = TRUE
  /\ request = [r \in Requests |-> "none"]
  /\ runner = "new" /\ task = [t \in Tasks |-> "idle"]
  /\ guard = [t \in Tasks |-> FALSE] /\ syncMu = "free"
  /\ wake = FALSE /\ work = FALSE
  /\ enq = [a \in Loggers |-> "silent"] /\ held = <<>> /\ buffer = <<>>
  /\ writer = "new" /\ closed = FALSE
  /\ full = {} /\ refused = {} /\ dropped = 0

-----------------------------------------------------------------------------
(* The log sink.                                                           *)

\* A logger that may speak: a request being handled, a task that runs, the main
\* goroutine between start-up and the closing of the sink.
Speaking(a) ==
  \/ a \in Requests /\ request[a] \in {"handling", "syncing"}
  \/ a \in Tasks /\ task[a] # "idle"
  \/ a = "main" /\ stage \in {"starting", "http", "server"}

\* The caller of Enqueue comes back only when the record was sent or counted.
Inside(a) == a \in Loggers /\ enq[a] \in {"checked", "sent"}

\* Handle passes a record on once a sink is attached; Enqueue looks whether the
\* sink is closed and returns if it is.
EnqueueCheck(a) ==
  /\ Speaking(a) /\ enq[a] = "silent"
  /\ IF closed
       THEN enq' = [enq EXCEPT ![a] = "returned"] /\ refused' = refused \cup {a}
       ELSE enq' = [enq EXCEPT ![a] = "checked"] /\ UNCHANGED refused
  /\ UNCHANGED <<mainVars, runnerVars, request, held, buffer, writer, closed,
                 full, dropped>>

\* The send never blocks: a full buffer costs the record.
EnqueueSend(a) ==
  /\ enq[a] = "checked"
  /\ IF Len(buffer) < LogBuffer
       THEN /\ buffer' = Append(buffer, a)
            /\ enq' = [enq EXCEPT ![a] = "sent"]
            /\ UNCHANGED <<full, dropped>>
       ELSE /\ enq' = [enq EXCEPT ![a] = "returned"]
            /\ full' = full \cup {a} /\ dropped' = dropped + 1
            /\ UNCHANGED buffer
  /\ UNCHANGED <<mainVars, runnerVars, request, held, writer, closed, refused>>

EnqueueRecheckSkipped(a) ==
  /\ enq[a] = "sent"
  /\ enq' = [enq EXCEPT ![a] = "returned"]
  /\ UNCHANGED <<mainVars, runnerVars, request, held, buffer, writer, closed, full,
                 refused, dropped>>

\* The second look: Close may have won the race after the send.
EnqueueRecheck(a) ==
  /\ enq[a] = "sent"
  /\ enq' = [enq EXCEPT ![a] = "returned"]
  /\ dropped' = IF closed THEN dropped + 1 ELSE dropped
  /\ UNCHANGED <<mainVars, runnerVars, request, held, buffer, writer, closed, full,
                 refused>>

\* run(): writes what is buffered, and once stopped drains the rest and ends.
\* A failed write is counted by the sink and is not a loss nobody sees.
WriteEntry ==
  /\ writer \in {"running", "draining"} /\ buffer # <<>>
  /\ buffer' = Tail(buffer)
  /\ UNCHANGED <<mainVars, runnerVars, request, enq, held, writer, closed, full,
                 refused, dropped>>

WriterSeesStop ==
  /\ writer = "running" /\ closed
  /\ writer' = "draining"
  /\ UNCHANGED <<mainVars, runnerVars, request, enq, held, buffer, closed, full,
                 refused, dropped>>

WriterEnds ==
  /\ writer = "draining" /\ buffer = <<>>
  /\ writer' = "done"
  /\ UNCHANGED <<mainVars, runnerVars, request, enq, held, buffer, closed, full,
                 refused, dropped>>

-----------------------------------------------------------------------------
(* Start-up.                                                               *)

\* Records of the configuration phase wait, up to a limit, for the sink.
LogEarly ==
  /\ stage = "configuring" /\ Len(held) < PendingLimit
  /\ held' = Append(held, "startup")
  /\ UNCHANGED <<mainVars, runnerVars, request, enq, buffer, writer, closed, full,
                 refused, dropped>>

\* Before the database is open a failure just ends the process.
FailEarly ==
  /\ stage = "configuring"
  /\ stage' = "exited" /\ outcome' = "startup"
  /\ UNCHANGED <<database, stopping, server, inTime, runnerVars, request, sinkVars>>

\* The database opens, the sink is attached and what was held is replayed into
\* it; nobody else logs yet and the channel is larger than what is held.
OpenAndAttach ==
  /\ stage = "configuring"
  /\ stage' = "starting" /\ database' = "open" /\ writer' = "running"
  /\ held' = <<>> /\ buffer' = held
  /\ UNCHANGED <<outcome, stopping, server, inTime, runnerVars, request, enq,
                 closed, full, refused, dropped>>

CloseSink == closed' = TRUE

\* startupFailure: the sink is closed and drained before the database is.
StartupFails ==
  /\ stage = "starting" /\ ~Inside("main")
  /\ stage' = "startupDrain" /\ CloseSink
  /\ UNCHANGED <<outcome, database, stopping, server, inTime, runnerVars, request,
                 enq, held, buffer, writer, full, refused, dropped>>

\* A drain that outlives its five seconds leaves the database open.
StartupExit ==
  /\ stage = "startupDrain"
  /\ stage' = "exited" /\ outcome' = "startup"
  /\ \/ writer = "done" /\ database' = "closed"
     \/ UNCHANGED database
  /\ UNCHANGED <<stopping, server, inTime, runnerVars, request, sinkVars>>

\* The listener is bound before the runner and the server start.
StartServing ==
  /\ stage = "starting" /\ ~Inside("main")
  /\ stage' = "serving" /\ server' = "serving" /\ runner' = "looping"
  /\ UNCHANGED <<outcome, database, stopping, inTime, task, guard, syncMu, wake,
                 work, request, sinkVars>>

-----------------------------------------------------------------------------
(* Requests and the runner.                                                *)

ReceiveRequest(r) ==
  /\ server = "serving" /\ stage = "serving" /\ request[r] = "none"
  /\ request' = [request EXCEPT ![r] = "handling"]
  /\ UNCHANGED <<mainVars, runnerVars, sinkVars>>

\* Wake: the signal is coalesced in a channel of one slot.
QueueAndWake(r) ==
  /\ request[r] = "handling" /\ ~work
  /\ work' = TRUE /\ wake' = TRUE
  /\ UNCHANGED <<mainVars, request, runner, task, guard, syncMu, sinkVars>>

\* A handler that synchronizes in the request waits for the mutex.
SyncInRequest(r) ==
  /\ request[r] = "handling" /\ syncMu = "free"
  /\ request' = [request EXCEPT ![r] = "syncing"] /\ syncMu' = r
  /\ UNCHANGED <<mainVars, runner, task, guard, wake, work, sinkVars>>

AnswerRequest(r) ==
  /\ request[r] \in {"handling", "syncing"} /\ ~Inside(r)
  /\ request' = [request EXCEPT ![r] = "answered"]
  /\ syncMu' = IF request[r] = "syncing" THEN "free" ELSE syncMu
  /\ UNCHANGED <<mainVars, runner, task, guard, wake, work, sinkVars>>

\* startTask: a task whose guard is taken is skipped.
StartTasks(S) ==
  /\ guard' = [t \in Tasks |-> guard[t] \/ t \in S]
  /\ task' = [t \in Tasks |-> IF t \in S /\ ~guard[t] THEN "running" ELSE task[t]]

Woken == {"sync", "releaseDay", "delivery"}
Cadences == {{"sync", "releaseDay"}, {"delivery"}, {"maintenance"}}

\* Run's select: a tick or a wake launches its tasks, unless the context is
\* done; the first launch of all tasks is a tick of every cadence.
RunTick ==
  /\ runner = "looping" /\ ~stopping
  /\ \E S \in Cadences : StartTasks(S \cap Tasks)
  /\ UNCHANGED <<mainVars, request, runner, syncMu, wake, work, sinkVars>>

RunWake ==
  /\ runner = "looping" /\ ~stopping /\ wake
  /\ wake' = FALSE /\ StartTasks(Woken \cap Tasks)
  /\ UNCHANGED <<mainVars, request, runner, syncMu, work, sinkVars>>

RunStops ==
  /\ runner = "looping" /\ stopping
  /\ runner' = "waiting"
  /\ UNCHANGED <<mainVars, request, task, guard, syncMu, wake, work, sinkVars>>

\* tasks.Wait: Done is closed when the last task has returned.
RunDone ==
  /\ runner = "waiting" /\ \A t \in Tasks : task[t] = "idle"
  /\ runner' = "done"
  /\ UNCHANGED <<mainVars, request, task, guard, syncMu, wake, work, sinkVars>>

\* runSyncCadence gives up when a request synchronizes.
SyncBegins ==
  /\ task["sync"] = "running"
  /\ IF syncMu = "free"
       THEN task' = [task EXCEPT !["sync"] = "reading"] /\ syncMu' = "sync" /\ work' = FALSE
       ELSE task' = [task EXCEPT !["sync"] = "skipping"] /\ UNCHANGED <<syncMu, work>>
  /\ UNCHANGED <<mainVars, request, runner, guard, wake, sinkVars>>

TaskReturnsLocked(t) ==
  /\ task[t] # "idle" /\ ~Inside(t) /\ (t = "sync" => task[t] # "running")
  /\ task' = [task EXCEPT ![t] = "idle"]
  /\ syncMu' = IF task[t] = "reading" THEN "free" ELSE syncMu
  /\ UNCHANGED <<mainVars, request, runner, guard, wake, work, sinkVars>>

\* A task returns, or panics and is recovered: the guard is released either way.
TaskReturns(t) ==
  /\ task[t] # "idle" /\ ~Inside(t) /\ (t = "sync" => task[t] # "running")
  /\ task' = [task EXCEPT ![t] = "idle"]
  /\ guard' = [guard EXCEPT ![t] = FALSE]
  /\ syncMu' = IF task[t] = "reading" THEN "free" ELSE syncMu
  /\ UNCHANGED <<mainVars, request, runner, wake, work, sinkVars>>

-----------------------------------------------------------------------------
(* Shutdown, stage by stage.                                               *)

Signal ==
  /\ stage = "serving" /\ ~stopping
  /\ stopping' = TRUE
  /\ UNCHANGED <<stage, outcome, database, server, inTime, runnerVars, request, sinkVars>>

\* Serve fails: the runner is cancelled too.
ServeFails ==
  /\ stage = "serving" /\ server = "serving"
  /\ server' = "failed" /\ stopping' = TRUE
  /\ UNCHANGED <<stage, outcome, database, inTime, runnerVars, request, sinkVars>>

\* Shutdown closes the listener, so that Serve returns.
BeginShutdown ==
  /\ stage = "serving" /\ stopping
  /\ stage' = "http"
  /\ server' = IF server = "failed" THEN server ELSE "stopped"
  /\ UNCHANGED <<outcome, database, stopping, inTime, runnerVars, request, sinkVars>>

Handled == \A r \in Requests : request[r] \in {"none", "answered"}

MainMoves(from, to) == stage = from /\ ~Inside("main") /\ stage' = to

HTTPDrainedAlways ==
  /\ MainMoves("http", "server") /\ Handled
  /\ UNCHANGED inTime
  /\ UNCHANGED <<outcome, database, stopping, server, runnerVars, request, sinkVars>>

\* Shutdown waits for the handlers, for at most its budget.
HTTPDrained ==
  /\ MainMoves("http", "server")
  /\ inTime' = (inTime /\ Handled)
  /\ UNCHANGED <<outcome, database, stopping, server, runnerVars, request, sinkVars>>

\* Serve's result, or the end of its budget.
ServerStopped ==
  /\ MainMoves("server", "runner")
  /\ \/ UNCHANGED inTime
     \/ inTime' = FALSE /\ server # "failed"
  /\ UNCHANGED <<outcome, database, stopping, server, runnerVars, request, sinkVars>>

RunnerAbandoned ==
  /\ MainMoves("runner", "logs")
  /\ UNCHANGED inTime
  /\ CloseSink
  /\ UNCHANGED <<outcome, database, stopping, server, runnerVars, request, enq, held,
                 buffer, writer, full, refused, dropped>>

\* The runner's Done, or the end of its budget; then the sink is closed.
RunnerStopped ==
  /\ MainMoves("runner", "logs")
  /\ inTime' = (inTime /\ runner = "done")
  /\ CloseSink
  /\ UNCHANGED <<outcome, database, stopping, server, runnerVars, request, enq, held,
                 buffer, writer, full, refused, dropped>>

FinishShutdownRegardless ==
  /\ stage = "logs"
  /\ stage' = "exited" /\ database' = "closed" /\ outcome' = "clean"
  /\ UNCHANGED <<inTime, stopping, server, runnerVars, request, sinkVars>>

\* The sink's Done, or the end of its budget.  Only when every stage ended in
\* time is the database closed; otherwise the process exits around it.
FinishShutdown ==
  /\ stage = "logs"
  /\ stage' = "exited"
  /\ \/ writer = "done" /\ UNCHANGED inTime
     \/ inTime' = FALSE
  /\ IF inTime'
       THEN database' = "closed" /\ outcome' = (IF server = "failed" THEN "failed" ELSE "clean")
       ELSE UNCHANGED database /\ outcome' = "failed"
  /\ UNCHANGED <<stopping, server, runnerVars, request, sinkVars>>

\* When the process is gone nothing runs any more.
Alive == stage # "exited"

-----------------------------------------------------------------------------
MainNext ==
  \/ LogEarly \/ FailEarly \/ OpenAndAttach \/ StartupFails \/ StartupExit
  \/ StartServing \/ Signal \/ ServeFails \/ BeginShutdown \/ HTTPDrained
  \/ ServerStopped \/ RunnerStopped \/ FinishShutdown

SinkNext ==
  \/ \E a \in Loggers : EnqueueCheck(a) \/ EnqueueSend(a) \/ EnqueueRecheck(a)
  \/ WriteEntry \/ WriterSeesStop \/ WriterEnds

RequestNext ==
  \E r \in Requests : ReceiveRequest(r) \/ QueueAndWake(r) \/ SyncInRequest(r) \/ AnswerRequest(r)

RunnerNext ==
  \/ RunTick \/ RunWake \/ RunStops \/ RunDone
  \/ SyncBegins \/ \E t \in Tasks : TaskReturns(t)

ProcessNext == Alive /\ (MainNext \/ SinkNext \/ RequestNext \/ RunnerNext)

\* The main goroutine and the writer run, the budgets end; tasks end and the
\* tickers fire.  A slow client may keep a request open for ever, a request
\* that synchronizes may not: its provider calls have time limits.
MainProceeds ==
  \/ StartServing \/ BeginShutdown \/ HTTPDrained \/ ServerStopped
  \/ RunnerStopped \/ FinishShutdown \/ StartupExit

ProcessFairness ==
  /\ WF_processVars(Alive /\ MainProceeds)
  /\ \A a \in Loggers : WF_processVars(Alive /\ (EnqueueSend(a) \/ EnqueueRecheck(a)))
  /\ \A r \in Requests : WF_processVars(Alive /\ request[r] = "syncing" /\ AnswerRequest(r))
  /\ WF_processVars(Alive /\ task["sync"] = "idle" /\ RunTick /\ task'["sync"] = "running")
  /\ WF_processVars(Alive /\ SyncBegins)
  /\ \A t \in Tasks : WF_processVars(Alive /\ TaskReturns(t))

-----------------------------------------------------------------------------
(* Properties.                                                             *)

\* The database is closed only when nobody is left who could use it: no
\* handler, no task, no writer.
DatabaseOutlivesItsUsers ==
  database = "closed" =>
    /\ writer = "done" /\ runner \in {"new", "done"}
    /\ \A t \in Tasks : task[t] = "idle"
    /\ \A r \in Requests : request[r] \in {"none", "answered"}

\* Records the sink accepted and will never write, or never could take, are in
\* the loss counter, or their caller is about to put them there.
LossIsCounted ==
  Cardinality(full) + (IF writer = "done" THEN Len(buffer) ELSE 0)
    <= dropped + Cardinality({a \in Loggers : enq[a] = "sent"})

\* After a clean end every record of the process was stored or counted: the
\* sink closes after those who log, and the writer has drained it.
CleanEndKeepsTheLog == outcome = "clean" => refused = {} /\ buffer = <<>> /\ held = <<>>

\* A process that is told to stop ends, however long its requests and tasks
\* take.
ShutdownEnds == stopping ~> stage = "exited"

\* Work queued by a handler is looked at by a synchronization that begins after
\* it, although its wake may be swallowed by a task that is already running,
\* unless the process stops first.
QueuedWorkIsSeen == work ~> (~work \/ stopping \/ stage = "exited")

\* A process that ends, in whatever order its parts get there, takes the database
\* from nobody and counts what its sink took or had no room for and did not write.
\* Only a clean end also leaves no record that came too late for the sink: one whose
\* budgets run out may lose those without a trace.
EndIsOrderly == ProcessTypeOK /\ DatabaseOutlivesItsUsers /\ LossIsCounted /\ CleanEndKeepsTheLog

-----------------------------------------------------------------------------
(* The inductive invariant behind it.                                      *)

ProcessSpec == ProcessInit /\ [][ProcessNext]_processVars

RecordsTyped == held \in Seq({"startup"}) /\ buffer \in Seq(Loggers \cup {"startup"})

\* A logger is back from Enqueue before it may stop speaking.
InsidersSpeak == Alive => \A a \in Loggers : Inside(a) => Speaking(a)

\* What met a full buffer is counted, and each logger is counted once.
CountedOnce ==
  /\ Cardinality(full) <= dropped
  /\ dropped <= Cardinality({a \in Loggers : enq[a] = "returned"})

\* Before it serves nothing of the process runs but the main goroutine.
QuietStart ==
  stage \in {"configuring", "starting", "startupDrain"} =>
    runner = "new" /\ \A r \in Requests : request[r] = "none"
RunnerOutlivesTasks == runner \in {"new", "done"} => \A t \in Tasks : task[t] = "idle"

\* What a stage that ended in time has left behind.
StagesInTime ==
  inTime =>
    /\ stage \in {"server", "runner", "logs"} => Handled
    /\ stage = "logs" => runner = "done" /\ refused = {} /\ (writer = "done" => buffer = <<>>)

\* The sink is closed last, and what was held for it is passed on first.
SinkIsClosedLast ==
  /\ closed => stage \in {"logs", "startupDrain", "exited"}
  /\ ~closed => refused = {} /\ writer \in {"new", "running"}
  /\ stage \notin {"configuring", "exited"} => held = <<>>
EndsAtExit == database = "closed" \/ outcome = "clean" => stage = "exited"

ProcessIInv ==
  /\ EndIsOrderly /\ RecordsTyped /\ InsidersSpeak /\ CountedOnce /\ QuietStart
  /\ RunnerOutlivesTasks /\ StagesInTime /\ SinkIsClosedLast /\ EndsAtExit
=============================================================================
