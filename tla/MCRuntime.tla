------------------------------ MODULE MCRuntime ------------------------------
(***************************************************************************)
(* Small instances of what runs beside the delivery queues in a process:   *)
(* its life cycle, the catalog synchronization and the provider clients.   *)
(* A behaviour is about one of them, chosen at the start, and leaves the   *)
(* others as they begin.                                                   *)
(***************************************************************************)
EXTENDS Process, ArtistSync, ProviderClient

VARIABLE part

\* Two of Spotify's operations, under one key; its waits are of one tick.
ShortBackoff == [attempt \in 0 .. 2 |-> 1]
SpotifyLookups == {"search", "releases"} \X {"k1"}

Is(p) == part = p /\ UNCHANGED part

RuntimeVars == <<part, processVars, syncVars, clientVars>>

RuntimeInit ==
  /\ part \in {"process", "sync", "client"}
  /\ ProcessInit
  /\ SyncInit /\ (part # "sync" => \A a \in Artists : ~IsDue(a))
  /\ ClientInit /\ (part # "client" => block = Unblocked)

RuntimeNext ==
  \/ Is("process") /\ ProcessNext /\ UNCHANGED <<syncVars, clientVars>>
  \/ Is("sync") /\ SyncNext /\ UNCHANGED <<processVars, clientVars>>
  \/ Is("client") /\ ClientNext /\ UNCHANGED <<processVars, syncVars>>

\* The fairness of each component, as its module states it.
RuntimeFairness ==
  /\ WF_processVars(part = "process" /\ Alive /\ MainProceeds)
  /\ \A a \in Loggers :
       WF_processVars(part = "process" /\ Alive /\ (EnqueueSend(a) \/ EnqueueRecheck(a)))
  /\ \A r \in Requests :
       WF_processVars(part = "process" /\ Alive /\ request[r] = "syncing" /\ AnswerRequest(r))
  /\ WF_processVars(part = "process" /\ Alive /\ task["sync"] = "idle" /\ RunTick /\ task'["sync"] = "running")
  /\ WF_processVars(part = "process" /\ Alive /\ SyncBegins)
  /\ \A t \in Tasks : WF_processVars(part = "process" /\ Alive /\ TaskReturns(t))
  /\ WF_syncVars(part = "sync" /\ SyncProceeds)
  /\ WF_syncVars(part = "sync" /\ SyncTick)
  /\ \A c \in Callers : WF_clientVars(part = "client" /\ CallProceeds(c))
  /\ WF_clientVars(part = "client" /\ ClientTick)

RuntimeSpec == RuntimeInit /\ [][RuntimeNext]_RuntimeVars /\ RuntimeFairness
=============================================================================
