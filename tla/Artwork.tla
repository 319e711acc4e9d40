------------------------------ MODULE Artwork ------------------------------
(***************************************************************************)
(* The cover cache: pages ask for covers at once, those that ask for the   *)
(* same one share a fetch that outlives whoever began it, fetches wait for *)
(* one of a few slots behind a circuit, pictures and the knowledge that    *)
(* there is none are kept in files, and maintenance prunes the files       *)
(* meanwhile.  internal/artwork/artwork.go.                                *)
(*                                                                         *)
(* Files are on disk whole (writeAtomic) and are fresh or not; a tick lets *)
(* any of them age.                                                        *)
(***************************************************************************)
EXTENDS Integers, FiniteSets

CONSTANTS
  Pages,      \* callers of Get
  ReleaseGroups, \* what has a cover
  Fetches,    \* bound: fetches at a time, positive numbers
  FetchSlots, \* the semaphore
  OpensAt,    \* failures in a row that open the circuit
  LongestOpen, \* bound on the time it stays open
  MaxFiles,   \* files a pruning leaves
  MaxGets     \* bound: calls of Get

ASSUME ArtworkAssumption ==
  /\ Fetches \subseteq Nat \ {0} /\ IsFiniteSet(Fetches) /\ FetchSlots \in Nat \ {0}
  /\ OpensAt \in Nat \ {0} /\ LongestOpen \in Nat /\ MaxGets \in Nat

VARIABLES
  file,      \* kind of file and cover -> "fresh", "stale" or "none"
  page,      \* where each caller is, its cover, its fetch and what it was given
  gets,      \* calls so far
  fetch,     \* fetch -> where it is, its cover, who began it, had it a picture
  inflight,  \* cover -> the fetch to join, 0 without one
  failures,  \* circuitFailureStreak
  openFor,   \* time left until circuitUntil
  listed     \* what the running pruning has listed and not looked at yet

circuit == <<failures, openFor>>
artworkVars == <<file, page, gets, fetch, inflight, circuit, listed>>

Image(c) == <<"image", c>>
Missing(c) == <<"missing", c>>
Files == {"image", "missing"} \X ReleaseGroups
OnDisk == {f \in Files : file[f] # "none"}
Away == [stage |-> "away"]
Unused == [stage |-> "unused"]
Running(x) == fetch[x].stage # "unused"
Requesting == {x \in Fetches : fetch[x].stage = "requesting"}

ArtworkTypeOK ==
  /\ file \in [Files -> {"fresh", "stale", "none"}]
  /\ \A p \in Pages : page[p].stage \in {"away", "given"} \/ page[p].cover \in ReleaseGroups
  /\ \A x \in Fetches : Running(x) => fetch[x].stage \in {"begun", "queued", "requesting"}
  /\ inflight \in [ReleaseGroups -> Fetches \cup {0}] /\ gets \in 0 .. MaxGets
  /\ failures \in 0 .. OpensAt /\ openFor \in 0 .. LongestOpen
  /\ Cardinality(Requesting) <= FetchSlots
  /\ listed \subseteq Files \X {"fresh", "stale"}

ArtworkInit ==
  /\ file \in [Files -> {"stale", "none"}] /\ \A c \in ReleaseGroups : file[Missing(c)] = "none"
  /\ page = [p \in Pages |-> Away] /\ gets = 0
  /\ fetch = [x \in Fetches |-> Unused] /\ inflight = [c \in ReleaseGroups |-> 0]
  /\ failures = 0 /\ openFor = 0 /\ listed = {}

-----------------------------------------------------------------------------
(* Get.                                                                    *)

Given(left, result) == [stage |-> "given", left |-> left, given |-> result]

\* A fresh file is the answer; otherwise the caller goes on to the lock.
GetCached(p, c) ==
  /\ page[p].stage \in {"away", "given"} /\ gets < MaxGets /\ gets' = gets + 1
  /\ page' = [page EXCEPT ![p] =
       IF file[Image(c)] = "fresh" THEN Given(FALSE, "picture")
       ELSE IF file[Missing(c)] = "fresh" THEN Given(FALSE, "placeholder")
       ELSE [stage |-> "missed", cover |-> c]]
  /\ UNCHANGED <<file, fetch, inflight, circuit, listed>>

Begin(p, x) ==
  /\ ~Running(x) /\ \A y \in Fetches : y < x => Running(y)
  /\ fetch' = [fetch EXCEPT ![x] = [stage |-> "begun", cover |-> page[p].cover, by |-> p, picture |-> FALSE]]
  /\ inflight' = [inflight EXCEPT ![page[p].cover] = x]
Waits(p, x) ==
  page' = [page EXCEPT ![p] = [stage |-> "waiting", cover |-> page[p].cover, fetch |-> x]]

\* Mutant: everybody begins a fetch.
GetAlone(p, x) ==
  /\ page[p].stage = "missed" /\ Begin(p, x) /\ Waits(p, x)
  /\ UNCHANGED <<file, gets, circuit, listed>>
Get(p, x) ==
  /\ page[p].stage = "missed" /\ Waits(p, x)
  /\ IF inflight[page[p].cover] = 0 THEN Begin(p, x)
     ELSE x = inflight[page[p].cover] /\ UNCHANGED <<fetch, inflight>>
  /\ UNCHANGED <<file, gets, circuit, listed>>

Leave(p) ==
  /\ page[p].stage = "waiting"
  /\ page' = [page EXCEPT ![p] = Given(TRUE, "left")]
  /\ UNCHANGED <<file, gets, fetch, inflight, circuit, listed>>

-----------------------------------------------------------------------------
(* refresh.                                                                *)

\* The result goes to whoever waits for it.
Ends(x, result) ==
  /\ fetch' = [fetch EXCEPT ![x] = Unused]
  /\ inflight' = [c \in ReleaseGroups |-> IF inflight[c] = x THEN 0 ELSE inflight[c]]
  /\ page' = [p \in Pages |-> IF page[p].stage = "waiting" /\ page[p].fetch = x
                              THEN Given(FALSE, result) ELSE page[p]]
Fallback(x) == IF fetch[x].picture THEN "picture" ELSE "placeholder"

\* The picture at hand is read and the circuit looked at, before the wait.
Refresh(x) ==
  /\ fetch[x].stage = "begun"
  /\ LET picture == file[Image(fetch[x].cover)] # "none" IN
     IF openFor > 0 THEN Ends(x, IF picture THEN "picture" ELSE "placeholder")
     ELSE /\ fetch' = [fetch EXCEPT ![x].stage = "queued", ![x].picture = picture]
          /\ UNCHANGED <<inflight, page>>
  /\ UNCHANGED <<file, gets, circuit, listed>>

TakeSlot(x) ==
  /\ fetch[x].stage = "queued" /\ Cardinality(Requesting) < FetchSlots
  /\ fetch' = [fetch EXCEPT ![x].stage = "requesting"]
  /\ UNCHANGED <<file, page, gets, inflight, circuit, listed>>

\* Why the context of a fetch may be done: it has a time limit of its own and
\* outlives whoever began it.  Mutant: it ends with that page's request.
DoneWithItsPage(x) ==
  {"late"} \cup {"left" : p \in {q \in Pages : q = fetch[x].by /\ page[q].stage = "given" /\ page[q].left}}
ContextDone(x) == {"late"}
FetchTimesOut(x) ==
  /\ fetch[x].stage = "queued"
  /\ \E why \in ContextDone(x) : Ends(x, IF fetch[x].picture THEN "picture" ELSE why)
  /\ UNCHANGED <<file, gets, circuit, listed>>

ResetCircuit == failures' = 0 /\ openFor' = 0
RecordTransientFailure ==
  /\ failures' = IF failures < OpensAt THEN failures + 1 ELSE failures
  /\ IF failures + 1 >= OpensAt THEN openFor' \in 1 .. LongestOpen ELSE UNCHANGED openFor

FetchFails(x) ==
  /\ x \in Requesting /\ RecordTransientFailure /\ Ends(x, Fallback(x))
  /\ UNCHANGED <<file, gets, listed>>

\* A 404 takes the picture away; the marker may not get written.
NotFound(x) ==
  /\ x \in Requesting /\ ResetCircuit /\ Ends(x, "placeholder")
  /\ \E marker \in {"fresh", file[Missing(fetch[x].cover)]} :
       file' = [file EXCEPT ![Image(fetch[x].cover)] = "none", ![Missing(fetch[x].cover)] = marker]
  /\ UNCHANGED <<gets, listed>>

PictureArrives(x) ==
  /\ x \in Requesting /\ Ends(x, "picture")
  /\ \/ /\ ResetCircuit
        /\ file' = [file EXCEPT ![Image(fetch[x].cover)] = "fresh", ![Missing(fetch[x].cover)] = "none"]
     \/ RecordTransientFailure /\ UNCHANGED file \* the picture could not be kept
  /\ UNCHANGED <<gets, listed>>

-----------------------------------------------------------------------------
(* Prune, and time.                                                        *)

ListFiles ==
  /\ listed = {} /\ OnDisk # {} /\ listed' = {<<f, file[f]>> : f \in OnDisk}
  /\ UNCHANGED <<file, page, gets, fetch, inflight, circuit>>

\* The stale ones, then the oldest beyond the limit, by the listing: a file that
\* was renewed since goes all the same.
PruneFile(entry) ==
  /\ entry \in listed
  /\ entry[2] = "stale" \/ (Cardinality(listed) > MaxFiles /\ \A e \in listed : e[2] = "fresh")
  /\ file' = [file EXCEPT ![entry[1]] = "none"] /\ listed' = listed \ {entry}
  /\ UNCHANGED <<page, gets, fetch, inflight, circuit>>
PruneEnds ==
  /\ listed # {} /\ Cardinality(listed) <= MaxFiles /\ \A e \in listed : e[2] = "fresh"
  /\ listed' = {} /\ UNCHANGED <<file, page, gets, fetch, inflight, circuit>>

ArtworkTick ==
  \/ \E f \in Files : file[f] = "fresh" /\ file' = [file EXCEPT ![f] = "stale"]
                      /\ UNCHANGED <<page, gets, fetch, inflight, circuit, listed>>
  \/ openFor > 0 /\ openFor' = openFor - 1
     /\ UNCHANGED <<file, page, gets, fetch, inflight, failures, listed>>

ArtworkNext ==
  \/ \E p \in Pages, c \in ReleaseGroups : GetCached(p, c)
  \/ \E p \in Pages, x \in Fetches : Get(p, x)
  \/ \E p \in Pages : Leave(p)
  \/ \E x \in Fetches : Refresh(x) \/ TakeSlot(x) \/ FetchTimesOut(x) \/ FetchFails(x)
                          \/ NotFound(x) \/ PictureArrives(x)
  \/ ListFiles \/ PruneEnds \/ \E entry \in listed : PruneFile(entry)
  \/ ArtworkTick

ArtworkSpec == ArtworkInit /\ [][ArtworkNext]_artworkVars

-----------------------------------------------------------------------------
(* Properties.                                                             *)

\* However pages come and go, a cover is asked for by one fetch at a time, and a
\* page that waits has a fetch to wait for.
OneFetchEach ==
  /\ \A x, y \in Fetches : Running(x) /\ Running(y) /\ fetch[x].cover = fetch[y].cover => x = y
  /\ \A p \in Pages : page[p].stage = "waiting" =>
       Running(page[p].fetch) /\ fetch[page[p].fetch].cover = page[p].cover

\* A page that stays is never given what another page's departure left.
StayersAreServed ==
  \A p \in Pages : page[p].stage = "given" /\ ~page[p].left => page[p].given # "left"

\* Pages share a fetch and its result, and the departure of one costs the others
\* nothing.
CoversAreShared == ArtworkTypeOK /\ OneFetchEach /\ StayersAreServed

-----------------------------------------------------------------------------
(* Why they hold: the inductive invariant of StorageProofs.                *)

PageStates ==
  {Away} \cup [stage : {"missed"}, cover : ReleaseGroups]
    \cup [stage : {"waiting"}, cover : ReleaseGroups, fetch : Fetches]
    \cup [stage : {"given"}, left : BOOLEAN, given : {"picture", "placeholder", "late", "left"}]
FetchStates ==
  {Unused} \cup [stage : {"begun", "queued", "requesting"}, cover : ReleaseGroups,
                 by : Pages, picture : BOOLEAN]

\* The map of calls in flight has every running fetch, under its cover, and
\* nothing else: whoever ends a fetch takes it out.
InflightIsExact ==
  /\ \A c \in ReleaseGroups : inflight[c] # 0 => Running(inflight[c]) /\ fetch[inflight[c]].cover = c
  /\ \A x \in Fetches : Running(x) => inflight[fetch[x].cover] = x

ArtworkIInv ==
  /\ CoversAreShared /\ InflightIsExact
  /\ page \in [Pages -> PageStates] /\ fetch \in [Fetches -> FetchStates]
=============================================================================
