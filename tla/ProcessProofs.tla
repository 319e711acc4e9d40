---------------------------- MODULE ProcessProofs ----------------------------
(***************************************************************************)
(* Proofs about Process, for any requests, tasks, loggers and sizes of the *)
(* sink's buffers.                                                         *)
(***************************************************************************)
EXTENDS Process, FiniteSetTheorems, TLAPS

USE ProcessAssumption DEF ProcessAssumption

-----------------------------------------------------------------------------
(* Counting loggers.                                                       *)

EnqStates == {"silent", "checked", "sent", "returned"}
At(w) == {a \in Loggers : enq[a] = w}

LEMMA OneMore ==
  ASSUME NEW S, IsFiniteSet(S), NEW a, a \notin S
  PROVE  IsFiniteSet(S \cup {a}) /\ Cardinality(S \cup {a}) = Cardinality(S) + 1
BY FS_AddElement

LEMMA OneFewer ==
  ASSUME NEW S, IsFiniteSet(S), NEW a, a \in S
  PROVE  Cardinality(S \ {a}) = Cardinality(S) - 1
BY FS_RemoveElement

LEMMA AtMostOneMore ==
  ASSUME NEW S, IsFiniteSet(S), NEW a
  PROVE  Cardinality(S \cup {a}) <= Cardinality(S) + 1 /\ Cardinality(S \cup {a}) \in Nat
<1>1. Cardinality(S) \in Nat
  BY FS_CardinalityType
<1>2. Cardinality(S \cup {a}) = IF a \in S THEN Cardinality(S) ELSE Cardinality(S) + 1
  BY FS_AddElement
<1> QED BY <1>1, <1>2

LEMMA LoggersAreFinite ==
  ASSUME NEW S, S \subseteq Loggers
  PROVE  IsFiniteSet(S) /\ Cardinality(S) \in Nat /\ Cardinality(S) <= Cardinality(Loggers)
BY FS_Subset, FS_CardinalityType

\* A logger moves from one point of Enqueue to another.
LEMMA LoggerMoves ==
  ASSUME enq \in [Loggers -> EnqStates], NEW a \in Loggers, NEW v \in EnqStates,
         enq' = [enq EXCEPT ![a] = v], NEW w \in EnqStates
  PROVE  /\ enq[a] # w /\ v = w => Cardinality(At(w)') = Cardinality(At(w)) + 1
         /\ enq[a] = w /\ v # w => Cardinality(At(w)') = Cardinality(At(w)) - 1
         /\ enq[a] # w /\ v # w => Cardinality(At(w)') = Cardinality(At(w))
<1>1. At(w) \subseteq Loggers
  BY DEF At
<1>2. IsFiniteSet(At(w))
  BY <1>1, LoggersAreFinite
<1>3. CASE enq[a] # w /\ v = w
  <2>1. At(w)' = At(w) \cup {a} /\ a \notin At(w)
    BY <1>3 DEF At
  <2> QED BY <1>2, <1>3, <2>1, OneMore
<1>4. CASE enq[a] = w /\ v # w
  <2>1. At(w)' = At(w) \ {a} /\ a \in At(w)
    BY <1>4 DEF At
  <2> QED BY <1>2, <1>4, <2>1, OneFewer
<1>5. CASE enq[a] # w /\ v # w
  <2>1. At(w)' = At(w)
    BY <1>5 DEF At
  <2> QED BY <1>5, <2>1
<1> QED BY <1>3, <1>4, <1>5

-----------------------------------------------------------------------------
(* The invariant in the parts that actions disturb.                        *)

MainTyped ==
  /\ stage \in Stages /\ outcome \in {"none", "clean", "failed", "startup"}
  /\ database \in {"unopened", "open", "closed"}
  /\ stopping \in BOOLEAN /\ inTime \in BOOLEAN
  /\ server \in {"down", "serving", "stopped", "failed"}
RunnerTyped ==
  /\ request \in [Requests -> {"none", "handling", "syncing", "answered"}]
  /\ runner \in {"new", "looping", "waiting", "done"}
  /\ task \in [Tasks -> {"idle", "running", "reading", "skipping"}]
  /\ guard \in [Tasks -> BOOLEAN]
  /\ syncMu \in Requests \cup {"sync", "free"}
  /\ wake \in BOOLEAN /\ work \in BOOLEAN
SinkTyped ==
  /\ closed \in BOOLEAN /\ enq \in [Loggers -> EnqStates] /\ RecordsTyped
  /\ Len(held) <= PendingLimit /\ Len(buffer) <= LogBuffer
  /\ writer \in {"new", "running", "draining", "done"}
  /\ full \subseteq Loggers /\ refused \subseteq Loggers /\ dropped \in Nat
Counts ==
  /\ Cardinality(full) <= dropped /\ dropped <= Cardinality(At("returned"))
  /\ writer = "done" => Cardinality(full) + Len(buffer) <= dropped + Cardinality(At("sent"))
Order ==
  /\ DatabaseOutlivesItsUsers /\ CleanEndKeepsTheLog /\ InsidersSpeak /\ QuietStart
  /\ RunnerOutlivesTasks /\ StagesInTime /\ SinkIsClosedLast /\ EndsAtExit

ProcessParts == MainTyped /\ RunnerTyped /\ SinkTyped /\ Counts /\ Order

LEMMA LossFromCounts == SinkTyped /\ Counts => LossIsCounted
<1> SUFFICES ASSUME SinkTyped, Counts
             PROVE  LossIsCounted
  OBVIOUS
<1>1. At("sent") \subseteq Loggers /\ full \subseteq Loggers
  BY DEF At, SinkTyped
<1>2. Cardinality(At("sent")) \in Nat /\ Cardinality(full) \in Nat /\ dropped \in Nat
  BY <1>1, LoggersAreFinite DEF SinkTyped
<1>3. LossIsCounted <=>
        Cardinality(full) + (IF writer = "done" THEN Len(buffer) ELSE 0)
          <= dropped + Cardinality(At("sent"))
  BY DEF LossIsCounted, At
<1>4. CASE writer = "done"
  BY <1>3, <1>4 DEF Counts
<1>5. CASE writer # "done"
  <2>1. Cardinality(full) + 0 <= dropped + Cardinality(At("sent"))
    BY <1>2 DEF Counts
  <2> QED BY <1>3, <1>5, <2>1
<1> QED BY <1>4, <1>5

LEMMA PartsMakeInvariant == ProcessParts => ProcessIInv
<1> SUFFICES ASSUME ProcessParts
             PROVE  ProcessIInv
  OBVIOUS
<1> USE DEF ProcessParts
<1>1. LossIsCounted
  BY LossFromCounts
<1>2. At("returned") \subseteq Loggers
  BY DEF At
<1>3. Cardinality(At("returned")) \in Nat /\ Cardinality(At("returned")) <= Cardinality(Loggers)
      /\ Cardinality(Loggers) \in Nat
  BY <1>2, LoggersAreFinite
<1>4. dropped \in 0 .. Cardinality(Loggers)
  BY <1>3 DEF SinkTyped, Counts
<1>5. ProcessTypeOK
  BY <1>4 DEF MainTyped, RunnerTyped, SinkTyped, ProcessTypeOK, EnqStates
<1>6. CountedOnce
  BY DEF Counts, CountedOnce, At
<1> QED BY <1>1, <1>5, <1>6 DEF Order, SinkTyped, ProcessIInv, EndIsOrderly

LEMMA InitialParts == ProcessInit => ProcessParts
<1> SUFFICES ASSUME ProcessInit
             PROVE  ProcessParts
  OBVIOUS
<1>1. MainTyped /\ RunnerTyped
  BY DEF ProcessInit, MainTyped, RunnerTyped, Stages
<1>2. held = <<>> /\ buffer = <<>> /\ Len(held) = 0 /\ Len(buffer) = 0
  BY DEF ProcessInit
<1>8. RecordsTyped
  BY <1>2 DEF RecordsTyped
<1>9. enq \in [Loggers -> EnqStates]
  BY DEF ProcessInit, EnqStates
<1>10. closed \in BOOLEAN /\ writer = "new" /\ full = {} /\ refused = {} /\ dropped = 0
  BY DEF ProcessInit
<1>11. Len(held) <= PendingLimit /\ Len(buffer) <= LogBuffer
  BY <1>2
<1>3. SinkTyped
  BY <1>8, <1>9, <1>10, <1>11 DEF SinkTyped
<1>4. full = {} /\ Cardinality(full) = 0 /\ dropped = 0 /\ writer = "new"
  BY FS_EmptySet DEF ProcessInit
<1>5. At("returned") \subseteq Loggers
  BY DEF At
<1>6. Counts
  BY <1>4, <1>5, LoggersAreFinite DEF Counts
<1>7. Order
  BY DEF ProcessInit, Order, DatabaseOutlivesItsUsers, CleanEndKeepsTheLog, InsidersSpeak, Inside,
         QuietStart, RunnerOutlivesTasks, StagesInTime, SinkIsClosedLast, EndsAtExit
<1> QED BY <1>1, <1>3, <1>6, <1>7 DEF ProcessParts

-----------------------------------------------------------------------------
(* Steps that leave the sink alone.                                        *)

LEMMA SinkStays ==
  ASSUME SinkTyped, Counts, UNCHANGED sinkVars
  PROVE  SinkTyped' /\ Counts'
<1>1. UNCHANGED <<enq, held, buffer, writer, closed, full, refused, dropped>>
  BY DEF sinkVars
<1>2. At("returned")' = At("returned") /\ At("sent")' = At("sent")
  BY <1>1 DEF At
<1> QED BY <1>1, <1>2 DEF SinkTyped, RecordsTyped, Counts

LEMMA FailEarlyKeeps ==
  ASSUME ProcessParts, Alive, FailEarly
  PROVE  ProcessParts'
<1> USE DEF ProcessParts
<1>1. UNCHANGED <<request, task, guard, syncMu, wake, work, enq, held, buffer, writer, closed,
                  full, refused, dropped>>
  BY DEF FailEarly, runnerVars, sinkVars
<1>2. MainTyped' /\ RunnerTyped'
  BY <1>1 DEF FailEarly, runnerVars, MainTyped, RunnerTyped, Stages
<1>3. SinkTyped' /\ Counts'
  BY <1>1, SinkStays DEF sinkVars
<1>4. Order'
  BY <1>1 DEF FailEarly, runnerVars, MainTyped, RunnerTyped, SinkTyped, 
         Order, DatabaseOutlivesItsUsers, CleanEndKeepsTheLog, InsidersSpeak, Inside, Speaking,
         Alive, QuietStart, RunnerOutlivesTasks, StagesInTime, Handled, SinkIsClosedLast, EndsAtExit
<1> QED BY <1>2, <1>3, <1>4

LEMMA StartServingKeeps ==
  ASSUME ProcessParts, Alive, StartServing
  PROVE  ProcessParts'
<1> USE DEF ProcessParts
<1>1. UNCHANGED <<request, task, guard, syncMu, wake, work, enq, held, buffer, writer, closed,
                  full, refused, dropped>>
  BY DEF StartServing, runnerVars, sinkVars
<1>2. MainTyped' /\ RunnerTyped'
  BY <1>1 DEF StartServing, runnerVars, MainTyped, RunnerTyped, Stages
<1>3. SinkTyped' /\ Counts'
  BY <1>1, SinkStays DEF sinkVars
<1>4. Order'
  BY <1>1 DEF StartServing, runnerVars, MainTyped, RunnerTyped, SinkTyped, 
         Order, DatabaseOutlivesItsUsers, CleanEndKeepsTheLog, InsidersSpeak, Inside, Speaking,
         Alive, QuietStart, RunnerOutlivesTasks, StagesInTime, Handled, SinkIsClosedLast, EndsAtExit
<1> QED BY <1>2, <1>3, <1>4

LEMMA SignalKeeps ==
  ASSUME ProcessParts, Alive, Signal
  PROVE  ProcessParts'
<1> USE DEF ProcessParts
<1>1. UNCHANGED <<request, task, guard, syncMu, wake, work, enq, held, buffer, writer, closed,
                  full, refused, dropped>>
  BY DEF Signal, runnerVars, sinkVars
<1>2. MainTyped' /\ RunnerTyped'
  BY <1>1 DEF Signal, runnerVars, MainTyped, RunnerTyped, Stages
<1>3. SinkTyped' /\ Counts'
  BY <1>1, SinkStays DEF sinkVars
<1>4. Order'
  BY <1>1 DEF Signal, runnerVars, MainTyped, RunnerTyped, SinkTyped, 
         Order, DatabaseOutlivesItsUsers, CleanEndKeepsTheLog, InsidersSpeak, Inside, Speaking,
         Alive, QuietStart, RunnerOutlivesTasks, StagesInTime, Handled, SinkIsClosedLast, EndsAtExit
<1> QED BY <1>2, <1>3, <1>4

LEMMA ServeFailsKeeps ==
  ASSUME ProcessParts, Alive, ServeFails
  PROVE  ProcessParts'
<1> USE DEF ProcessParts
<1>1. UNCHANGED <<request, task, guard, syncMu, wake, work, enq, held, buffer, writer, closed,
                  full, refused, dropped>>
  BY DEF ServeFails, runnerVars, sinkVars
<1>2. MainTyped' /\ RunnerTyped'
  BY <1>1 DEF ServeFails, runnerVars, MainTyped, RunnerTyped, Stages
<1>3. SinkTyped' /\ Counts'
  BY <1>1, SinkStays DEF sinkVars
<1>4. Order'
  BY <1>1 DEF ServeFails, runnerVars, MainTyped, RunnerTyped, SinkTyped, 
         Order, DatabaseOutlivesItsUsers, CleanEndKeepsTheLog, InsidersSpeak, Inside, Speaking,
         Alive, QuietStart, RunnerOutlivesTasks, StagesInTime, Handled, SinkIsClosedLast, EndsAtExit
<1> QED BY <1>2, <1>3, <1>4

LEMMA BeginShutdownKeeps ==
  ASSUME ProcessParts, Alive, BeginShutdown
  PROVE  ProcessParts'
<1> USE DEF ProcessParts
<1>1. UNCHANGED <<request, task, guard, syncMu, wake, work, enq, held, buffer, writer, closed,
                  full, refused, dropped>>
  BY DEF BeginShutdown, runnerVars, sinkVars
<1>2. MainTyped' /\ RunnerTyped'
  BY <1>1 DEF BeginShutdown, runnerVars, MainTyped, RunnerTyped, Stages
<1>3. SinkTyped' /\ Counts'
  BY <1>1, SinkStays DEF sinkVars
<1>4. Order'
  BY <1>1 DEF BeginShutdown, runnerVars, MainTyped, RunnerTyped, SinkTyped, 
         Order, DatabaseOutlivesItsUsers, CleanEndKeepsTheLog, InsidersSpeak, Inside, Speaking,
         Alive, QuietStart, RunnerOutlivesTasks, StagesInTime, Handled, SinkIsClosedLast, EndsAtExit
<1> QED BY <1>2, <1>3, <1>4

LEMMA HTTPDrainedKeeps ==
  ASSUME ProcessParts, Alive, HTTPDrained
  PROVE  ProcessParts'
<1> USE DEF ProcessParts
<1>1. UNCHANGED <<request, task, guard, syncMu, wake, work, enq, held, buffer, writer, closed,
                  full, refused, dropped>>
  BY DEF HTTPDrained, MainMoves, runnerVars, sinkVars
<1>2. MainTyped' /\ RunnerTyped'
  BY <1>1 DEF HTTPDrained, MainMoves, runnerVars, MainTyped, RunnerTyped, Stages
<1>3. SinkTyped' /\ Counts'
  BY <1>1, SinkStays DEF sinkVars
<1>4. Order'
  BY <1>1 DEF HTTPDrained, MainMoves, runnerVars, MainTyped, RunnerTyped, SinkTyped, 
         Order, DatabaseOutlivesItsUsers, CleanEndKeepsTheLog, InsidersSpeak, Inside, Speaking,
         Alive, QuietStart, RunnerOutlivesTasks, StagesInTime, Handled, SinkIsClosedLast, EndsAtExit
<1> QED BY <1>2, <1>3, <1>4

LEMMA ServerStoppedKeeps ==
  ASSUME ProcessParts, Alive, ServerStopped
  PROVE  ProcessParts'
<1> USE DEF ProcessParts
<1>1. UNCHANGED <<request, task, guard, syncMu, wake, work, enq, held, buffer, writer, closed,
                  full, refused, dropped>>
  BY DEF ServerStopped, MainMoves, runnerVars, sinkVars
<1>5. stage' = "runner" /\ inTime' \in BOOLEAN /\ UNCHANGED <<outcome, database, stopping, server, runner>>
  BY DEF ServerStopped, MainMoves, runnerVars, MainTyped
<1>2. MainTyped' /\ RunnerTyped'
  BY <1>1, <1>5 DEF MainTyped, RunnerTyped, Stages
<1>3. SinkTyped' /\ Counts'
  BY <1>1, SinkStays DEF sinkVars
<1>4. Order'
  BY <1>1 DEF ServerStopped, MainMoves, runnerVars, MainTyped, RunnerTyped, SinkTyped, 
         Order, DatabaseOutlivesItsUsers, CleanEndKeepsTheLog, InsidersSpeak, Inside, Speaking,
         Alive, QuietStart, RunnerOutlivesTasks, StagesInTime, Handled, SinkIsClosedLast, EndsAtExit
<1> QED BY <1>2, <1>3, <1>4

LEMMA ReceiveRequestKeeps ==
  ASSUME ProcessParts, Alive, NEW r \in Requests, ReceiveRequest(r)
  PROVE  ProcessParts'
<1> USE DEF ProcessParts
<1>1. UNCHANGED <<stage, outcome, database, stopping, server, inTime, enq, held, buffer, writer,
                  closed, full, refused, dropped>>
  BY DEF ReceiveRequest, mainVars, sinkVars
<1>5. UNCHANGED runnerVars /\ request' = [request EXCEPT ![r] = "handling"]
  BY DEF ReceiveRequest
<1>2. MainTyped' /\ RunnerTyped'
  BY <1>1, <1>5 DEF runnerVars, MainTyped, RunnerTyped
<1>3. SinkTyped' /\ Counts'
  BY <1>1, SinkStays DEF sinkVars
<1>4. Order'
  BY <1>1, <1>5 DEF ReceiveRequest, runnerVars, MainTyped, RunnerTyped, SinkTyped, 
         Order, DatabaseOutlivesItsUsers, CleanEndKeepsTheLog, InsidersSpeak, Inside, Speaking,
         Alive, QuietStart, RunnerOutlivesTasks, StagesInTime, Handled, SinkIsClosedLast, EndsAtExit
<1> QED BY <1>2, <1>3, <1>4

LEMMA QueueAndWakeKeeps ==
  ASSUME ProcessParts, Alive, NEW r \in Requests, QueueAndWake(r)
  PROVE  ProcessParts'
<1> USE DEF ProcessParts
<1>1. UNCHANGED <<stage, outcome, database, stopping, server, inTime, enq, held, buffer, writer,
                  closed, full, refused, dropped>>
  BY DEF QueueAndWake, mainVars, sinkVars
<1>2. MainTyped' /\ RunnerTyped'
  BY <1>1 DEF QueueAndWake, MainTyped, RunnerTyped
<1>3. SinkTyped' /\ Counts'
  BY <1>1, SinkStays DEF sinkVars
<1>4. Order'
  BY <1>1 DEF QueueAndWake, MainTyped, RunnerTyped, SinkTyped, 
         Order, DatabaseOutlivesItsUsers, CleanEndKeepsTheLog, InsidersSpeak, Inside, Speaking,
         Alive, QuietStart, RunnerOutlivesTasks, StagesInTime, Handled, SinkIsClosedLast, EndsAtExit
<1> QED BY <1>2, <1>3, <1>4

LEMMA SyncInRequestKeeps ==
  ASSUME ProcessParts, Alive, NEW r \in Requests, SyncInRequest(r)
  PROVE  ProcessParts'
<1> USE DEF ProcessParts
<1>1. UNCHANGED <<stage, outcome, database, stopping, server, inTime, enq, held, buffer, writer,
                  closed, full, refused, dropped>>
  BY DEF SyncInRequest, mainVars, sinkVars
<1>2. MainTyped' /\ RunnerTyped'
  BY <1>1 DEF SyncInRequest, MainTyped, RunnerTyped
<1>3. SinkTyped' /\ Counts'
  BY <1>1, SinkStays DEF sinkVars
<1>4. Order'
  BY <1>1 DEF SyncInRequest, MainTyped, RunnerTyped, SinkTyped, 
         Order, DatabaseOutlivesItsUsers, CleanEndKeepsTheLog, InsidersSpeak, Inside, Speaking,
         Alive, QuietStart, RunnerOutlivesTasks, StagesInTime, Handled, SinkIsClosedLast, EndsAtExit
<1> QED BY <1>2, <1>3, <1>4

LEMMA AnswerRequestKeeps ==
  ASSUME ProcessParts, Alive, NEW r \in Requests, AnswerRequest(r)
  PROVE  ProcessParts'
<1> USE DEF ProcessParts
<1>1. UNCHANGED <<stage, outcome, database, stopping, server, inTime, enq, held, buffer, writer,
                  closed, full, refused, dropped>>
  BY DEF AnswerRequest, mainVars, sinkVars
<1>2. MainTyped' /\ RunnerTyped'
  BY <1>1 DEF AnswerRequest, MainTyped, RunnerTyped
<1>3. SinkTyped' /\ Counts'
  BY <1>1, SinkStays DEF sinkVars
<1>4. Order'
  BY <1>1 DEF AnswerRequest, MainTyped, RunnerTyped, SinkTyped, 
         Order, DatabaseOutlivesItsUsers, CleanEndKeepsTheLog, InsidersSpeak, Inside, Speaking,
         Alive, QuietStart, RunnerOutlivesTasks, StagesInTime, Handled, SinkIsClosedLast, EndsAtExit
<1> QED BY <1>2, <1>3, <1>4

LEMMA RunTickKeeps ==
  ASSUME ProcessParts, Alive, RunTick
  PROVE  ProcessParts'
<1> USE DEF ProcessParts
<1>1. UNCHANGED <<stage, outcome, database, stopping, server, inTime, enq, held, buffer, writer,
                  closed, full, refused, dropped>>
  BY DEF RunTick, mainVars, sinkVars
<1>2. MainTyped' /\ RunnerTyped'
  BY <1>1 DEF RunTick, StartTasks, Cadences, MainTyped, RunnerTyped
<1>3. SinkTyped' /\ Counts'
  BY <1>1, SinkStays DEF sinkVars
<1>4. Order'
  BY <1>1 DEF RunTick, StartTasks, Cadences, MainTyped, RunnerTyped, SinkTyped, 
         Order, DatabaseOutlivesItsUsers, CleanEndKeepsTheLog, InsidersSpeak, Inside, Speaking,
         Alive, QuietStart, RunnerOutlivesTasks, StagesInTime, Handled, SinkIsClosedLast, EndsAtExit
<1> QED BY <1>2, <1>3, <1>4

LEMMA RunWakeKeeps ==
  ASSUME ProcessParts, Alive, RunWake
  PROVE  ProcessParts'
<1> USE DEF ProcessParts
<1>1. UNCHANGED <<stage, outcome, database, stopping, server, inTime, enq, held, buffer, writer,
                  closed, full, refused, dropped>>
  BY DEF RunWake, mainVars, sinkVars
<1>2. MainTyped' /\ RunnerTyped'
  BY <1>1 DEF RunWake, StartTasks, Woken, MainTyped, RunnerTyped
<1>3. SinkTyped' /\ Counts'
  BY <1>1, SinkStays DEF sinkVars
<1>4. Order'
  BY <1>1 DEF RunWake, StartTasks, Woken, MainTyped, RunnerTyped, SinkTyped, 
         Order, DatabaseOutlivesItsUsers, CleanEndKeepsTheLog, InsidersSpeak, Inside, Speaking,
         Alive, QuietStart, RunnerOutlivesTasks, StagesInTime, Handled, SinkIsClosedLast, EndsAtExit
<1> QED BY <1>2, <1>3, <1>4

LEMMA RunStopsKeeps ==
  ASSUME ProcessParts, Alive, RunStops
  PROVE  ProcessParts'
<1> USE DEF ProcessParts
<1>1. UNCHANGED <<stage, outcome, database, stopping, server, inTime, enq, held, buffer, writer,
                  closed, full, refused, dropped>>
  BY DEF RunStops, mainVars, sinkVars
<1>2. MainTyped' /\ RunnerTyped'
  BY <1>1 DEF RunStops, MainTyped, RunnerTyped
<1>3. SinkTyped' /\ Counts'
  BY <1>1, SinkStays DEF sinkVars
<1>4. Order'
  BY <1>1 DEF RunStops, MainTyped, RunnerTyped, SinkTyped, 
         Order, DatabaseOutlivesItsUsers, CleanEndKeepsTheLog, InsidersSpeak, Inside, Speaking,
         Alive, QuietStart, RunnerOutlivesTasks, StagesInTime, Handled, SinkIsClosedLast, EndsAtExit
<1> QED BY <1>2, <1>3, <1>4

LEMMA RunDoneKeeps ==
  ASSUME ProcessParts, Alive, RunDone
  PROVE  ProcessParts'
<1> USE DEF ProcessParts
<1>1. UNCHANGED <<stage, outcome, database, stopping, server, inTime, enq, held, buffer, writer,
                  closed, full, refused, dropped>>
  BY DEF RunDone, mainVars, sinkVars
<1>2. MainTyped' /\ RunnerTyped'
  BY <1>1 DEF RunDone, MainTyped, RunnerTyped
<1>3. SinkTyped' /\ Counts'
  BY <1>1, SinkStays DEF sinkVars
<1>4. Order'
  BY <1>1 DEF RunDone, MainTyped, RunnerTyped, SinkTyped, 
         Order, DatabaseOutlivesItsUsers, CleanEndKeepsTheLog, InsidersSpeak, Inside, Speaking,
         Alive, QuietStart, RunnerOutlivesTasks, StagesInTime, Handled, SinkIsClosedLast, EndsAtExit
<1> QED BY <1>2, <1>3, <1>4

LEMMA SyncBeginsKeeps ==
  ASSUME ProcessParts, Alive, SyncBegins
  PROVE  ProcessParts'
<1> USE DEF ProcessParts
<1>1. UNCHANGED <<stage, outcome, database, stopping, server, inTime, enq, held, buffer, writer,
                  closed, full, refused, dropped>>
  BY DEF SyncBegins, mainVars, sinkVars
<1>5. /\ task' = [task EXCEPT !["sync"] = "reading"] \/ task' = [task EXCEPT !["sync"] = "skipping"]
      /\ UNCHANGED <<request, runner, guard, wake>>
  BY DEF SyncBegins
<1>6. syncMu' \in Requests \cup {"sync", "free"}
  BY DEF SyncBegins, RunnerTyped
<1>7. work' \in BOOLEAN
  BY DEF SyncBegins, RunnerTyped
<1>8. task' \in [Tasks -> {"idle", "running", "reading", "skipping"}]
  BY <1>5 DEF RunnerTyped
<1>2. MainTyped' /\ RunnerTyped'
  BY <1>1, <1>5, <1>6, <1>7, <1>8 DEF MainTyped, RunnerTyped
<1>3. SinkTyped' /\ Counts'
  BY <1>1, SinkStays DEF sinkVars
<1>4. Order'
  BY <1>1 DEF SyncBegins, MainTyped, RunnerTyped, SinkTyped, 
         Order, DatabaseOutlivesItsUsers, CleanEndKeepsTheLog, InsidersSpeak, Inside, Speaking,
         Alive, QuietStart, RunnerOutlivesTasks, StagesInTime, Handled, SinkIsClosedLast, EndsAtExit
<1> QED BY <1>2, <1>3, <1>4

LEMMA TaskReturnsKeeps ==
  ASSUME ProcessParts, Alive, NEW t \in Tasks, TaskReturns(t)
  PROVE  ProcessParts'
<1> USE DEF ProcessParts
<1>1. UNCHANGED <<stage, outcome, database, stopping, server, inTime, enq, held, buffer, writer,
                  closed, full, refused, dropped>>
  BY DEF TaskReturns, mainVars, sinkVars
<1>2. MainTyped' /\ RunnerTyped'
  BY <1>1 DEF TaskReturns, MainTyped, RunnerTyped
<1>3. SinkTyped' /\ Counts'
  BY <1>1, SinkStays DEF sinkVars
<1>4. Order'
  BY <1>1 DEF TaskReturns, MainTyped, RunnerTyped, SinkTyped, 
         Order, DatabaseOutlivesItsUsers, CleanEndKeepsTheLog, InsidersSpeak, Inside, Speaking,
         Alive, QuietStart, RunnerOutlivesTasks, StagesInTime, Handled, SinkIsClosedLast, EndsAtExit
<1> QED BY <1>2, <1>3, <1>4

-----------------------------------------------------------------------------
(* Start-up and shutdown around the sink.                                  *)

LEMMA CountsStay ==
  ASSUME Counts, UNCHANGED <<enq, full, dropped>>, writer' # "done"
  PROVE  Counts'
<1>1. At("returned")' = At("returned")
  BY DEF At
<1> QED BY <1>1 DEF Counts

LEMMA LogEarlyKeeps ==
  ASSUME ProcessParts, LogEarly
  PROVE  ProcessParts'
<1> USE DEF ProcessParts
<1>1. /\ UNCHANGED mainVars /\ UNCHANGED runnerVars /\ UNCHANGED request
      /\ UNCHANGED <<enq, buffer, writer, closed, full, refused, dropped>>
      /\ held' = Append(held, "startup") /\ Len(held) < PendingLimit /\ stage = "configuring"
  BY DEF LogEarly
<1>2. UNCHANGED <<stage, outcome, database, stopping, server, inTime, runner, task, guard,
                  syncMu, wake, work>>
  BY <1>1 DEF mainVars, runnerVars
<1>3. MainTyped' /\ RunnerTyped'
  BY <1>1, <1>2 DEF MainTyped, RunnerTyped
<1>4. held' \in Seq({"startup"}) /\ Len(held') = Len(held) + 1
  BY <1>1 DEF SinkTyped, RecordsTyped
<1>5. Len(held') <= PendingLimit
  <2>1. Len(held) \in Nat
    BY DEF SinkTyped, RecordsTyped
  <2> QED BY <1>1, <1>4, <2>1
<1>6. SinkTyped'
  BY <1>1, <1>4, <1>5 DEF SinkTyped, RecordsTyped
<1>7. At("returned")' = At("returned") /\ At("sent")' = At("sent")
  BY <1>1 DEF At
<1>8. Counts'
  BY <1>1, <1>7 DEF Counts
<1>9. Order'
  BY <1>1, <1>2 DEF MainTyped, RunnerTyped, SinkTyped,
         Order, DatabaseOutlivesItsUsers, CleanEndKeepsTheLog, InsidersSpeak, Inside, Speaking,
         Alive, QuietStart, RunnerOutlivesTasks, StagesInTime, Handled, SinkIsClosedLast, EndsAtExit
<1> QED BY <1>3, <1>6, <1>8, <1>9

LEMMA OpenAndAttachKeeps ==
  ASSUME ProcessParts, OpenAndAttach
  PROVE  ProcessParts'
<1> USE DEF ProcessParts
<1>1. UNCHANGED <<outcome, stopping, server, inTime, request, runner, task, guard, syncMu, wake,
                  work, enq, closed, full, refused, dropped>>
  BY DEF OpenAndAttach, runnerVars
<1>2. stage' = "starting" /\ database' = "open" /\ writer' = "running" /\ held' = <<>>
      /\ buffer' = held /\ stage = "configuring"
  BY DEF OpenAndAttach
<1>3. MainTyped' /\ RunnerTyped'
  BY <1>1, <1>2 DEF MainTyped, RunnerTyped, Stages
<1>4. held \in Seq(Loggers \cup {"startup"}) /\ Len(held) <= LogBuffer
  <2>1. held \in Seq({"startup"}) /\ Len(held) \in Nat /\ Len(held) <= PendingLimit
    BY DEF SinkTyped, RecordsTyped
  <2>2. held \in Seq(Loggers \cup {"startup"})
    BY <2>1
  <2> QED BY <2>1, <2>2
<1>5. held' \in Seq({"startup"}) /\ Len(held') = 0
  BY <1>2
<1>6. RecordsTyped' /\ Len(held)' <= PendingLimit /\ Len(buffer)' <= LogBuffer
  BY <1>2, <1>4, <1>5 DEF RecordsTyped
<1>7. SinkTyped'
  BY <1>1, <1>2, <1>6 DEF SinkTyped
<1>8. Counts'
  BY <1>1, <1>2, CountsStay
<1>9. Order'
  BY <1>1, <1>2 DEF MainTyped, RunnerTyped, SinkTyped,
         Order, DatabaseOutlivesItsUsers, CleanEndKeepsTheLog, InsidersSpeak, Inside, Speaking,
         Alive, QuietStart, RunnerOutlivesTasks, StagesInTime, Handled, SinkIsClosedLast, EndsAtExit
<1> QED BY <1>3, <1>7, <1>8, <1>9

LEMMA StartupFailsKeeps ==
  ASSUME ProcessParts, Alive, StartupFails
  PROVE  ProcessParts'
<1> USE DEF ProcessParts
<1>1. UNCHANGED <<outcome, database, stopping, server, inTime, request, runner, task, guard,
                  syncMu, wake, work, enq, held, buffer, writer, full, refused, dropped>>
  BY DEF StartupFails, runnerVars
<1>2. stage' = "startupDrain" /\ closed' = TRUE /\ stage = "starting" /\ ~Inside("main")
  BY DEF StartupFails, CloseSink
<1>3. MainTyped' /\ RunnerTyped'
  BY <1>1, <1>2 DEF MainTyped, RunnerTyped, Stages
<1>4. SinkTyped'
  BY <1>1, <1>2 DEF SinkTyped, RecordsTyped
<1>5. At("returned")' = At("returned") /\ At("sent")' = At("sent")
  BY <1>1 DEF At
<1>6. Counts'
  BY <1>1, <1>5 DEF Counts
<1>7. Order'
  BY <1>1, <1>2 DEF MainTyped, RunnerTyped, SinkTyped,
         Order, DatabaseOutlivesItsUsers, CleanEndKeepsTheLog, InsidersSpeak, Inside, Speaking,
         Alive, QuietStart, RunnerOutlivesTasks, StagesInTime, Handled, SinkIsClosedLast, EndsAtExit
<1> QED BY <1>3, <1>4, <1>6, <1>7

LEMMA StartupExitKeeps ==
  ASSUME ProcessParts, Alive, StartupExit
  PROVE  ProcessParts'
<1> USE DEF ProcessParts
<1>1. UNCHANGED <<stopping, server, inTime, request, runner, task, guard, syncMu, wake, work,
                  enq, held, buffer, writer, closed, full, refused, dropped>>
  BY DEF StartupExit, runnerVars, sinkVars
<1>2. /\ stage' = "exited" /\ outcome' = "startup" /\ stage = "startupDrain"
      /\ (writer = "done" /\ database' = "closed") \/ database' = database
  BY DEF StartupExit
<1>3. MainTyped' /\ RunnerTyped'
  BY <1>1, <1>2 DEF MainTyped, RunnerTyped, Stages
<1>4. SinkTyped' /\ Counts'
  BY <1>1, SinkStays DEF sinkVars
<1>5. Order'
  BY <1>1, <1>2 DEF MainTyped, RunnerTyped, SinkTyped,
         Order, DatabaseOutlivesItsUsers, CleanEndKeepsTheLog, InsidersSpeak, Inside, Speaking,
         Alive, QuietStart, RunnerOutlivesTasks, StagesInTime, Handled, SinkIsClosedLast, EndsAtExit
<1> QED BY <1>3, <1>4, <1>5

LEMMA RunnerStoppedKeeps ==
  ASSUME ProcessParts, Alive, RunnerStopped
  PROVE  ProcessParts'
<1> USE DEF ProcessParts
<1>1. UNCHANGED <<outcome, database, stopping, server, request, runner, task, guard,
                  syncMu, wake, work, enq, held, buffer, writer, full, refused, dropped>>
  BY DEF RunnerStopped, runnerVars
<1>2. /\ stage' = "logs" /\ closed' = TRUE /\ stage = "runner" /\ ~Inside("main")
      /\ inTime' = (inTime /\ runner = "done")
  BY DEF RunnerStopped, MainMoves, CloseSink
<1>3. MainTyped' /\ RunnerTyped'
  BY <1>1, <1>2 DEF MainTyped, RunnerTyped, Stages
<1>4. SinkTyped'
  BY <1>1, <1>2 DEF SinkTyped, RecordsTyped
<1>5. At("returned")' = At("returned") /\ At("sent")' = At("sent")
  BY <1>1 DEF At
<1>6. Counts'
  BY <1>1, <1>5 DEF Counts
<1>7. ~closed /\ refused = {} /\ writer # "done"
  BY <1>2 DEF SinkTyped, Order, SinkIsClosedLast
<1>8. Order'
  BY <1>1, <1>2, <1>7 DEF MainTyped, RunnerTyped, SinkTyped,
         Order, DatabaseOutlivesItsUsers, CleanEndKeepsTheLog, InsidersSpeak, Inside, Speaking,
         Alive, QuietStart, RunnerOutlivesTasks, StagesInTime, Handled, SinkIsClosedLast, EndsAtExit
<1> QED BY <1>3, <1>4, <1>6, <1>8

LEMMA FinishShutdownKeeps ==
  ASSUME ProcessParts, Alive, FinishShutdown
  PROVE  ProcessParts'
<1> USE DEF ProcessParts
<1>1. UNCHANGED <<stopping, server, request, runner, task, guard, syncMu, wake, work,
                  enq, held, buffer, writer, closed, full, refused, dropped>>
  BY DEF FinishShutdown, runnerVars, sinkVars
<1>2. /\ stage' = "exited" /\ stage = "logs"
      /\ (writer = "done" /\ inTime' = inTime) \/ inTime' = FALSE
      /\ \/ inTime' /\ database' = "closed" /\ outcome' \in {"clean", "failed"}
         \/ ~inTime' /\ database' = database /\ outcome' = "failed"
  BY DEF FinishShutdown
<1>3. inTime' \in BOOLEAN
  BY <1>2 DEF MainTyped
<1>4. MainTyped' /\ RunnerTyped'
  BY <1>1, <1>2, <1>3 DEF MainTyped, RunnerTyped, Stages
<1>5. SinkTyped' /\ Counts'
  BY <1>1, SinkStays DEF sinkVars
<1>6. Order'
  <2>1. CASE inTime'
    <3>1. writer = "done" /\ inTime
      BY <1>2, <2>1
    <3>2. Handled /\ runner = "done" /\ refused = {} /\ buffer = <<>> /\ held = <<>>
          /\ \A t \in Tasks : task[t] = "idle"
      BY <1>2, <3>1 DEF Order, StagesInTime, SinkIsClosedLast, RunnerOutlivesTasks
    <3> QED BY <1>1, <1>2, <3>1, <3>2 DEF MainTyped, RunnerTyped, SinkTyped,
         Order, DatabaseOutlivesItsUsers, CleanEndKeepsTheLog, InsidersSpeak, Inside, Speaking,
         Alive, QuietStart, RunnerOutlivesTasks, StagesInTime, Handled, SinkIsClosedLast, EndsAtExit
  <2>2. CASE ~inTime'
    BY <1>1, <1>2, <2>2 DEF MainTyped, RunnerTyped, SinkTyped,
         Order, DatabaseOutlivesItsUsers, CleanEndKeepsTheLog, InsidersSpeak, Inside, Speaking,
         Alive, QuietStart, RunnerOutlivesTasks, StagesInTime, Handled, SinkIsClosedLast, EndsAtExit
  <2> QED BY <2>1, <2>2
<1> QED BY <1>4, <1>5, <1>6

-----------------------------------------------------------------------------
(* Steps of the sink.                                                      *)

LEMMA WriterKeeps ==
  ASSUME ProcessParts, Alive, WriteEntry \/ WriterSeesStop \/ WriterEnds
  PROVE  ProcessParts'
<1> USE DEF ProcessParts
<1>1. UNCHANGED <<stage, outcome, database, stopping, server, inTime, request, runner, task, guard,
                  syncMu, wake, work, enq, held, closed, full, refused, dropped>>
  BY DEF WriteEntry, WriterSeesStop, WriterEnds, mainVars, runnerVars
<1>2. MainTyped' /\ RunnerTyped'
  BY <1>1 DEF MainTyped, RunnerTyped
<1>3. At("returned")' = At("returned") /\ At("sent")' = At("sent")
  BY <1>1 DEF At
<1>4. buffer \in Seq(Loggers \cup {"startup"}) /\ Len(buffer) \in Nat
  BY DEF SinkTyped, RecordsTyped
<1>5. CASE WriteEntry
  <2>1. buffer' = Tail(buffer) /\ buffer # <<>> /\ writer' = writer /\ writer # "done"
    BY <1>5 DEF WriteEntry
  <2>2. buffer' \in Seq(Loggers \cup {"startup"}) /\ Len(buffer') = Len(buffer) - 1
    BY <1>4, <2>1
  <2>3. Len(buffer') <= LogBuffer
    BY <1>4, <2>2 DEF SinkTyped
  <2>4. SinkTyped'
    BY <1>1, <2>1, <2>2, <2>3 DEF SinkTyped, RecordsTyped
  <2>5. Counts'
    BY <1>1, <2>1, CountsStay
  <2>6. Order'
    BY <1>1, <2>1 DEF MainTyped, RunnerTyped, SinkTyped,
         Order, DatabaseOutlivesItsUsers, CleanEndKeepsTheLog, InsidersSpeak, Inside, Speaking,
         Alive, QuietStart, RunnerOutlivesTasks, StagesInTime, Handled, SinkIsClosedLast, EndsAtExit
  <2> QED BY <1>2, <2>4, <2>5, <2>6
<1>6. CASE WriterSeesStop
  <2>1. buffer' = buffer /\ closed /\ writer' = "draining"
    BY <1>6 DEF WriterSeesStop
  <2>2. SinkTyped'
    BY <1>1, <2>1 DEF SinkTyped, RecordsTyped
  <2>3. Counts'
    BY <1>1, <2>1, CountsStay
  <2>4. Order'
    BY <1>1, <2>1 DEF MainTyped, RunnerTyped, SinkTyped,
         Order, DatabaseOutlivesItsUsers, CleanEndKeepsTheLog, InsidersSpeak, Inside, Speaking,
         Alive, QuietStart, RunnerOutlivesTasks, StagesInTime, Handled, SinkIsClosedLast, EndsAtExit
  <2> QED BY <1>2, <2>2, <2>3, <2>4
<1>7. CASE WriterEnds
  <2>1. buffer' = buffer /\ buffer = <<>> /\ writer = "draining" /\ writer' = "done"
    BY <1>7 DEF WriterEnds
  <2>2. SinkTyped'
    BY <1>1, <2>1 DEF SinkTyped, RecordsTyped
  <2>3. At("sent") \subseteq Loggers /\ full \subseteq Loggers
    BY DEF At, SinkTyped
  <2>4. Cardinality(At("sent")) \in Nat /\ Cardinality(full) \in Nat /\ dropped \in Nat
        /\ Len(buffer) = 0
    BY <2>1, <2>3, LoggersAreFinite DEF SinkTyped
  <2>5. Cardinality(full) + Len(buffer) <= dropped + Cardinality(At("sent"))
    BY <2>4 DEF Counts
  <2>6. Counts'
    BY <1>1, <1>3, <2>1, <2>5 DEF Counts
  <2>7. Order'
    BY <1>1, <2>1 DEF MainTyped, RunnerTyped, SinkTyped,
         Order, DatabaseOutlivesItsUsers, CleanEndKeepsTheLog, InsidersSpeak, Inside, Speaking,
         Alive, QuietStart, RunnerOutlivesTasks, StagesInTime, Handled, SinkIsClosedLast, EndsAtExit
  <2> QED BY <1>2, <2>2, <2>6, <2>7
<1> QED BY <1>5, <1>6, <1>7

LEMMA EnqueueCheckKeeps ==
  ASSUME ProcessParts, Alive, NEW a \in Loggers, EnqueueCheck(a)
  PROVE  ProcessParts'
<1> USE DEF ProcessParts
<1>1. UNCHANGED <<stage, outcome, database, stopping, server, inTime, request, runner, task, guard,
                  syncMu, wake, work, held, buffer, writer, closed, full, dropped>>
  BY DEF EnqueueCheck, mainVars, runnerVars
<1>2. Speaking(a) /\ enq[a] = "silent"
  BY DEF EnqueueCheck
<1>3. PICK v \in {"returned", "checked"} :
        /\ enq' = [enq EXCEPT ![a] = v]
        /\ v = "returned" => closed /\ refused' = refused \cup {a}
        /\ v = "checked" => refused' = refused
  BY DEF EnqueueCheck
<1>4. MainTyped' /\ RunnerTyped'
  BY <1>1 DEF MainTyped, RunnerTyped
<1>5. SinkTyped'
  BY <1>1, <1>3 DEF SinkTyped, RecordsTyped, EnqStates
<1>6. /\ Cardinality(At("returned")') >= Cardinality(At("returned"))
      /\ Cardinality(At("sent")') = Cardinality(At("sent"))
  <2>1. enq \in [Loggers -> EnqStates] /\ v \in EnqStates
        /\ "returned" \in EnqStates /\ "sent" \in EnqStates
    BY DEF SinkTyped, EnqStates
  <2>2. Cardinality(At("sent")') = Cardinality(At("sent"))
    BY <1>2, <1>3, <2>1, LoggerMoves
  <2>3. \/ Cardinality(At("returned")') = Cardinality(At("returned"))
        \/ Cardinality(At("returned")') = Cardinality(At("returned")) + 1
    BY <1>2, <1>3, <2>1, LoggerMoves
  <2>4. At("returned") \subseteq Loggers
    BY DEF At
  <2>5. Cardinality(At("returned")) \in Nat
    BY <2>4, LoggersAreFinite
  <2> QED BY <2>2, <2>3, <2>5
<1>7. Counts'
  <2>1. At("returned") \subseteq Loggers /\ At("returned")' \subseteq Loggers
    BY DEF At
  <2>2. Cardinality(At("returned")) \in Nat /\ Cardinality(At("returned")') \in Nat /\ dropped \in Nat
    BY <2>1, LoggersAreFinite DEF SinkTyped
  <2> QED BY <1>1, <1>6, <2>2 DEF Counts
<1>8. inTime => stage # "logs"
  BY <1>2 DEF RunnerTyped, Order, StagesInTime, RunnerOutlivesTasks, Handled, Speaking
<1>9. InsidersSpeak'
  BY <1>1, <1>2, <1>3 DEF Order, InsidersSpeak, Inside, Speaking, SinkTyped, Alive
<1>10. Order'
  BY <1>1, <1>2, <1>3, <1>8, <1>9 DEF MainTyped, RunnerTyped, SinkTyped, Order,
         DatabaseOutlivesItsUsers, CleanEndKeepsTheLog, Alive, QuietStart, RunnerOutlivesTasks,
         StagesInTime, Handled, SinkIsClosedLast, EndsAtExit
<1> QED BY <1>4, <1>5, <1>7, <1>10

\* What a logger leaves alone when it sends or looks again.
LEMMA SendersOrder ==
  ASSUME ProcessParts, Alive, NEW a \in Loggers, Inside(a), NEW v \in {"sent", "returned"},
         enq' = [enq EXCEPT ![a] = v],
         UNCHANGED <<stage, outcome, database, stopping, server, inTime, request, runner, task,
                     guard, syncMu, wake, work, held, writer, closed, refused>>
  PROVE  MainTyped' /\ RunnerTyped' /\ Order'
<1> USE DEF ProcessParts
<1>1. MainTyped' /\ RunnerTyped'
  BY DEF MainTyped, RunnerTyped
<1>2. Speaking(a)
  BY DEF Order, InsidersSpeak
<1>3. inTime => stage # "logs"
  BY <1>2 DEF RunnerTyped, Order, StagesInTime, RunnerOutlivesTasks, Handled, Speaking
<1>4. InsidersSpeak'
  BY <1>2 DEF Order, InsidersSpeak, Inside, Speaking, SinkTyped, Alive
<1>5. Order'
  BY <1>3, <1>4 DEF MainTyped, RunnerTyped, SinkTyped, Order,
         DatabaseOutlivesItsUsers, CleanEndKeepsTheLog, Alive, QuietStart, RunnerOutlivesTasks,
         StagesInTime, Handled, SinkIsClosedLast, EndsAtExit
<1> QED BY <1>1, <1>5

\* The counted sets are numbers of loggers.
LEMMA CountsAreNumbers ==
  ASSUME SinkTyped
  PROVE  /\ IsFiniteSet(full) /\ Cardinality(full) \in Nat /\ Len(buffer) \in Nat /\ dropped \in Nat
         /\ Cardinality(At("returned")) \in Nat /\ Cardinality(At("sent")) \in Nat
<1>1. At("returned") \subseteq Loggers /\ At("sent") \subseteq Loggers /\ full \subseteq Loggers
  BY DEF At, SinkTyped
<1>2. Len(buffer) \in Nat
  BY DEF SinkTyped, RecordsTyped
<1> QED BY <1>1, <1>2, LoggersAreFinite DEF SinkTyped

LEMMA EnqueueSendKeeps ==
  ASSUME ProcessParts, Alive, NEW a \in Loggers, EnqueueSend(a)
  PROVE  ProcessParts'
<1> USE DEF ProcessParts
<1>1. UNCHANGED <<stage, outcome, database, stopping, server, inTime, request, runner, task, guard,
                  syncMu, wake, work, held, writer, closed, refused>>
  BY DEF EnqueueSend, mainVars, runnerVars
<1>2. enq[a] = "checked" /\ Inside(a)
  BY DEF EnqueueSend, Inside
<1>3. enq \in [Loggers -> EnqStates] /\ {"sent", "returned"} \subseteq EnqStates
  BY DEF SinkTyped, EnqStates
<1>4. CASE Len(buffer) < LogBuffer
  <2>1. /\ buffer' = Append(buffer, a) /\ enq' = [enq EXCEPT ![a] = "sent"]
        /\ UNCHANGED <<full, dropped>>
    BY <1>4 DEF EnqueueSend
  <2>2. MainTyped' /\ RunnerTyped' /\ Order'
    BY <1>1, <1>2, <2>1, SendersOrder
  <2>3. buffer' \in Seq(Loggers \cup {"startup"}) /\ Len(buffer') = Len(buffer) + 1
    BY <2>1 DEF SinkTyped, RecordsTyped
  <2>4. Len(buffer') <= LogBuffer
    BY <1>4, <2>3, CountsAreNumbers
  <2>5. SinkTyped'
    BY <1>1, <1>3, <2>1, <2>3, <2>4 DEF SinkTyped, RecordsTyped
  <2>6. /\ Cardinality(At("sent")') = Cardinality(At("sent")) + 1
        /\ Cardinality(At("returned")') = Cardinality(At("returned"))
    BY <1>2, <1>3, <2>1, LoggerMoves
  <2>7. Counts'
    BY <1>1, <2>1, <2>3, <2>6, CountsAreNumbers DEF Counts
  <2> QED BY <2>2, <2>5, <2>7
<1>5. CASE ~(Len(buffer) < LogBuffer)
  <2>1. /\ buffer' = buffer /\ enq' = [enq EXCEPT ![a] = "returned"]
        /\ full' = full \cup {a} /\ dropped' = dropped + 1
    BY <1>5 DEF EnqueueSend
  <2>2. MainTyped' /\ RunnerTyped' /\ Order'
    BY <1>1, <1>2, <2>1, SendersOrder
  <2>3. SinkTyped'
    BY <1>1, <1>3, <2>1 DEF SinkTyped, RecordsTyped
  <2>4. /\ Cardinality(At("sent")') = Cardinality(At("sent"))
        /\ Cardinality(At("returned")') = Cardinality(At("returned")) + 1
    BY <1>2, <1>3, <2>1, LoggerMoves
  <2>5. Cardinality(full') <= Cardinality(full) + 1 /\ Cardinality(full') \in Nat
    BY <2>1, CountsAreNumbers, AtMostOneMore
  <2>6. Cardinality(full') <= dropped' /\ dropped' <= Cardinality(At("returned")')
    BY <2>1, <2>4, <2>5, CountsAreNumbers DEF Counts
  <2>7. writer' = "done" =>
          Cardinality(full') + Len(buffer') <= dropped' + Cardinality(At("sent")')
    BY <1>1, <2>1, <2>4, <2>5, CountsAreNumbers DEF Counts
  <2>8. Counts'
    BY <2>6, <2>7 DEF Counts
  <2> QED BY <2>2, <2>3, <2>8
<1> QED BY <1>4, <1>5

LEMMA EnqueueRecheckKeeps ==
  ASSUME ProcessParts, Alive, NEW a \in Loggers, EnqueueRecheck(a)
  PROVE  ProcessParts'
<1> USE DEF ProcessParts
<1>1. UNCHANGED <<stage, outcome, database, stopping, server, inTime, request, runner, task, guard,
                  syncMu, wake, work, held, buffer, writer, closed, full, refused>>
  BY DEF EnqueueRecheck, mainVars, runnerVars
<1>2. enq[a] = "sent" /\ Inside(a) /\ enq' = [enq EXCEPT ![a] = "returned"]
      /\ dropped' = (IF closed THEN dropped + 1 ELSE dropped)
  BY DEF EnqueueRecheck, Inside
<1>3. enq \in [Loggers -> EnqStates] /\ {"sent", "returned"} \subseteq EnqStates
  BY DEF SinkTyped, EnqStates
<1>4. MainTyped' /\ RunnerTyped' /\ Order'
  BY <1>1, <1>2, SendersOrder
<1>5. SinkTyped'
  BY <1>1, <1>2, <1>3 DEF SinkTyped, RecordsTyped
<1>6. /\ Cardinality(At("sent")') = Cardinality(At("sent")) - 1
      /\ Cardinality(At("returned")') = Cardinality(At("returned")) + 1
  BY <1>2, <1>3, LoggerMoves
<1>7. writer = "done" => closed
  BY DEF SinkTyped, Order, SinkIsClosedLast
<1>8. CASE closed
  BY <1>1, <1>2, <1>4, <1>5, <1>6, <1>8, CountsAreNumbers DEF Counts
<1>9. CASE ~closed
  <2>1. writer' # "done" /\ dropped' = dropped
    BY <1>1, <1>2, <1>7, <1>9
  <2>2. Counts'
    BY <1>1, <1>6, <2>1, CountsAreNumbers DEF Counts
  <2> QED BY <1>4, <1>5, <2>2
<1> QED BY <1>8, <1>9

-----------------------------------------------------------------------------
(* Theorems.                                                               *)

LEMMA ProcessStep ==
  ASSUME ProcessParts, ProcessNext
  PROVE  ProcessParts'
<1>1. Alive
  BY DEF ProcessNext
<1>2. CASE MainNext
  BY <1>1, <1>2, LogEarlyKeeps, FailEarlyKeeps, OpenAndAttachKeeps, StartupFailsKeeps,
     StartupExitKeeps, StartServingKeeps, SignalKeeps, ServeFailsKeeps, BeginShutdownKeeps,
     HTTPDrainedKeeps, ServerStoppedKeeps, RunnerStoppedKeeps, FinishShutdownKeeps DEF MainNext
<1>3. CASE SinkNext
  BY <1>1, <1>3, EnqueueCheckKeeps, EnqueueSendKeeps, EnqueueRecheckKeeps, WriterKeeps DEF SinkNext
<1>4. CASE RequestNext
  BY <1>1, <1>4, ReceiveRequestKeeps, QueueAndWakeKeeps, SyncInRequestKeeps, AnswerRequestKeeps
  DEF RequestNext
<1>5. CASE RunnerNext
  BY <1>1, <1>5, RunTickKeeps, RunWakeKeeps, RunStopsKeeps, RunDoneKeeps, SyncBeginsKeeps,
     TaskReturnsKeeps DEF RunnerNext
<1> QED BY <1>2, <1>3, <1>4, <1>5 DEF ProcessNext

LEMMA ProcessStutter ==
  ASSUME ProcessParts, UNCHANGED processVars
  PROVE  ProcessParts'
<1> USE DEF ProcessParts
<1>1. UNCHANGED mainVars /\ UNCHANGED runnerVars /\ UNCHANGED request /\ UNCHANGED sinkVars
  BY DEF processVars
<1>2. UNCHANGED <<stage, outcome, database, stopping, server, inTime, runner, task, guard, syncMu,
                  wake, work, request, enq, held, buffer, writer, closed, full, refused, dropped>>
  BY <1>1 DEF mainVars, runnerVars, sinkVars
<1>3. MainTyped' /\ RunnerTyped'
  BY <1>2 DEF MainTyped, RunnerTyped
<1>4. SinkTyped' /\ Counts'
  BY <1>1, SinkStays
<1>5. Order'
  BY <1>2 DEF Order, DatabaseOutlivesItsUsers, CleanEndKeepsTheLog, InsidersSpeak, Inside, Speaking,
         Alive, QuietStart, RunnerOutlivesTasks, StagesInTime, Handled, SinkIsClosedLast, EndsAtExit
<1> QED BY <1>3, <1>4, <1>5

\* The invariant of the process: a stage that ends in time leaves nobody behind,
\* the sink is closed after those who log, and each loss is counted once.
THEOREM ProcessInvariance == ProcessSpec => []ProcessIInv
<1>1. ProcessInit => ProcessParts
  BY InitialParts
<1>2. ProcessParts /\ [ProcessNext]_processVars => ProcessParts'
  BY ProcessStep, ProcessStutter
<1>3. ProcessParts => ProcessIInv
  BY PartsMakeInvariant
<1> QED BY <1>1, <1>2, <1>3, PTL DEF ProcessSpec

\* However start-up, serving and the stages of shutdown end, the database is
\* closed only behind its last user, every record the sink took and will not
\* write is counted, and a clean end has lost none.
THEOREM OrderlyEnd == ProcessSpec => []EndIsOrderly
<1>1. ProcessIInv => EndIsOrderly
  BY DEF ProcessIInv
<1> QED BY <1>1, ProcessInvariance, PTL
=============================================================================
