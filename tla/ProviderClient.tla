---------------------------- MODULE ProviderClient ----------------------------
(***************************************************************************)
(* The provider clients of internal/catalog under concurrent callers: the  *)
(* caches in front of them, the coalescing of equal calls in flight, the   *)
(* gate that spaces and serializes requests, retries, and the rate-limit   *)
(* windows of Spotify and iTunes.                                          *)
(*                                                                         *)
(* The clients share nothing, so a behaviour is about one of them, chosen  *)
(* at the start.  A step ends where a goroutine waits, sends a request or  *)
(* gives up a mutex.  Times are kept as ticks left, a tick being the space *)
(* between two requests.  What a provider answers is kept as its kind, and *)
(* a refusal with the window it asks for and the form it asks for it in.   *)
(***************************************************************************)
EXTENDS Naturals, FiniteSets

CONSTANTS
  Services,     \* the clients of this instance
  Callers,     \* goroutines: handlers, the synchronization, maintenance
  Lookups,     \* what is asked for: pairs of an operation and a key
  NoKey,       \* none of these keys
  Nobody,      \* no caller
  Calls,       \* calls a caller makes, at most
  Inline,      \* the longest window that is waited out inside a call
  Windows,     \* how long a provider may ask to be left alone
  LongestWindow,  \* the most iTunes' client keeps of one
  DefaultWindow,  \* what it keeps where it can read none
  QuotaWindow,    \* what Spotify's client keeps for a used up quota without seconds
  RetryBackoff,   \* what it keeps of any other refusal without, by attempt
  Lifetime,    \* of a cached answer
  MaxEntries   \* of a cache

ASSUME ClientAssumption ==
  /\ Services \subseteq {"spotify", "itunes", "musicbrainz", "listenbrainz"}
  /\ NoKey \notin {f[2] : f \in Lookups} /\ Nobody \notin Callers
  /\ {Calls, Inline, Lifetime, MaxEntries} \subseteq Nat \ {0}
  /\ Windows \cup {LongestWindow, DefaultWindow, QuotaWindow} \subseteq Nat \ {0}
  /\ RetryBackoff \in [0 .. 2 -> 1 .. Inline]

VARIABLES
  client,   \* the client of this behaviour
  caller,   \* what each caller is doing
  calls,    \* calls it may still make
  flight,   \* searchCalls, artistCalls, releaseCalls, inflight: who leads a call
  mutex,    \* requestMu, or mu
  block,    \* blockedUntil and blockedQuota
  gap,      \* ticks until the next request may leave
  cache,    \* cached answers: their age and whether they are empty
  asked     \* history: how long the provider still asks to be left alone, and how
            \* long its client minds an answer of that form at the most

clientVars == <<client, caller, calls, flight, mutex, block, gap, cache, asked>>

\* The operations of each client, those that are coalesced, and the cache that
\* stands before them.
Operations == [spotify      |-> {"search", "artist", "releases"},
               itunes       |-> {"search", "artist", "releases", "credits"},
               musicbrainz  |-> {"lookup"},
               listenbrainz |-> {"popularity"}]
AllOps == UNION {Operations[k] : k \in DOMAIN Operations}

LookupKeys == {f[2] : f \in Lookups}

IsCoalesced(op) ==
  op \in {"search", "artist", "popularity"} \/ (op = "releases" /\ client = "itunes")
IsCached(op) == op \notin {"credits", "lookup"}

IdleCaller == [at |-> "idle", op |-> "none", key |-> NoKey, live |-> TRUE,
            tries |-> 0, given |-> "none", result |-> "none"]
Unblocked == [left |-> 0, quota |-> FALSE]
Unasked == [left |-> 0, patience |-> 0]
Good == {"found", "empty", "cached"}
Results == Good \cup {"none", "error", "limited", "blocked", "canceled", "timeout",
                      "truncated", "coalesced"}
Steps == {"idle", "missed", "joined", "leading", "ready", "pausing", "pacing",
          "sending", "backoff", "answered"}

ClientTypeOK ==
  /\ client \in Services
  /\ caller \in [Callers -> [at : Steps, op : AllOps \cup {"none"}, key : LookupKeys \cup {NoKey},
                             live : BOOLEAN, tries : 0 .. 3, given : Results, result : Results]]
  /\ calls \in [Callers -> 0 .. Calls]
  /\ flight \in [AllOps \X LookupKeys -> Callers \cup {Nobody}]
  /\ mutex \in Callers \cup {Nobody}
  /\ block \in [left : Nat, quota : BOOLEAN]
  /\ gap \in 0 .. 1 /\ asked \in [left : Nat, patience : Nat]
  /\ \A op \in AllOps : Cardinality({k \in LookupKeys : <<op, k>> \in DOMAIN cache}) <= MaxEntries

\* How a provider refuses: Retry-After in seconds, as a date, or not to be read.
Refusals == [form : {"seconds", "date"}, window : Windows] \cup {[form |-> "none", window |-> 0]}

\* iTunesRetryAfter: seconds and dates alike, up to six hours.
ITunesRetryAfter(answer) ==
  IF answer.form = "none" THEN DefaultWindow
  ELSE IF answer.window > LongestWindow THEN LongestWindow ELSE answer.window

\* spotifyRateLimitError reads seconds only, and those are not bounded.
SpotifyRetryAfter(answer, quota, attempt) ==
  IF answer.form = "seconds" THEN answer.window
  ELSE IF quota THEN QuotaWindow ELSE RetryBackoff[attempt]

\* History: what was asked. iTunes' client minds it up to six hours, Spotify's in
\* full where it can read it, and a date not at all.
AskedBy(answer) ==
  [left |-> answer.window,
   patience |-> IF client = "itunes" THEN LongestWindow
                ELSE IF answer.form = "seconds" THEN answer.window ELSE 0]

\* RestoreCooldown: a process starts with the window it has persisted, which is
\* all that is left of what was asked.
RestoreCooldown ==
  /\ block \in IF client \in {"spotify", "itunes"}
                 THEN {Unblocked} \cup [left : Windows, quota : {client = "spotify"}]
                 ELSE {Unblocked}
  /\ asked = [left |-> block.left, patience |-> block.left]

ClientInit ==
  /\ client \in Services
  /\ caller = [c \in Callers |-> IdleCaller] /\ calls = [c \in Callers |-> Calls]
  /\ flight = [f \in AllOps \X LookupKeys |-> Nobody] /\ mutex = Nobody
  /\ RestoreCooldown
  /\ gap = 0 /\ cache = << >>

-----------------------------------------------------------------------------
(* Caches.                                                                 *)

\* A search without results is kept for a shorter time.
Expired(entry) == entry.age >= (IF entry.empty THEN 1 ELSE Lifetime)

Without(C, f) == [e \in DOMAIN C \ {f} |-> C[e]]
OfKind(C, op) == {e \in DOMAIN C : e[1] = op}

With(C, f, empty) ==
  [e \in DOMAIN C \cup {f} |-> IF e = f THEN [age |-> 0, empty |-> empty] ELSE C[e]]

\* Mutant: nothing is pushed out.
CachedAll(C, f, empty) == {With(C, f, empty)}

\* A new answer pushes out the oldest one of its cache, once that is full.
Cached(C, f, empty) ==
  LET new == With(C, f, empty)
      others == OfKind(new, f[1]) \ {f}
      oldest == {e \in others : \A x \in others : C[x].age <= C[e].age}
  IN  IF Cardinality(OfKind(new, f[1])) <= MaxEntries THEN {new}
      ELSE {Without(new, e) : e \in oldest}

\* What a leader stores: Spotify's search also knows the artists it found.
SpotifyStores(op, k, result) ==
  IF op = "search" /\ result = "found"
    THEN UNION {Cached(C, <<"artist", k>>, FALSE) : C \in Cached(cache, <<op, k>>, FALSE)}
    ELSE Cached(cache, <<op, k>>, result = "empty")

ITunesStores(op, k, result) == Cached(cache, <<op, k>>, result = "empty")

Stores(op, k, result) ==
  IF result \notin {"found", "empty"} \/ ~IsCached(op) THEN {cache}
  ELSE IF client = "spotify" THEN SpotifyStores(op, k, result)
  ELSE ITunesStores(op, k, result)

-----------------------------------------------------------------------------
(* Calls.                                                                  *)

\* coalescedRequestError: a follower of a call that was cancelled, or ran out of
\* time, gets an error of its own unless it was cancelled itself.
CoalescedFollowsLeader(result, live) == IF result \in Good \/ live THEN result ELSE "canceled"

CoalescedRequestError(result, live) ==
  IF result \in Good THEN result
  ELSE IF ~live THEN "canceled"
  ELSE IF result \in {"canceled", "timeout"} THEN "coalesced"
  ELSE result

Proceeds(c, to) == caller' = [caller EXCEPT ![c].at = to]
Retries(c, to) ==
  caller' = [caller EXCEPT ![c] = [@ EXCEPT !.at = to, !.tries = caller[c].tries + 1]]
Frees(c) == mutex' = IF mutex = c THEN Nobody ELSE mutex

\* Every operation first looks into its cache and drops what has expired there.
BeginCall(c, op, k) ==
  /\ caller[c].at = "idle" /\ calls[c] > 0 /\ <<op, k>> \in Lookups
  /\ calls' = [calls EXCEPT ![c] = @ - 1]
  /\ LET f   == <<op, k>>
         hit == f \in DOMAIN cache /\ ~Expired(cache[f])
     IN  /\ cache' = IF hit THEN cache ELSE Without(cache, f)
         /\ caller' = [caller EXCEPT ![c] =
              [IdleCaller EXCEPT !.op = op, !.key = k,
                 !.at = IF hit THEN "answered" ELSE IF IsCoalesced(op) THEN "missed" ELSE "leading",
                 !.result = IF hit THEN "cached" ELSE "none"]]
  /\ UNCHANGED <<client, flight, mutex, block, gap, asked>>

SpotifySearchArtists(c, k) == client = "spotify" /\ BeginCall(c, "search", k)
SpotifyArtist(c, k) == client = "spotify" /\ BeginCall(c, "artist", k)
SpotifyArtistReleases(c, k) == client = "spotify" /\ BeginCall(c, "releases", k)
ITunesSearchArtists(c, k) == client = "itunes" /\ BeginCall(c, "search", k)
ITunesArtist(c, k) == client = "itunes" /\ BeginCall(c, "artist", k)
ITunesArtistReleases(c, k) == client = "itunes" /\ BeginCall(c, "releases", k)
ITunesCollectionCredits(c, k) == client = "itunes" /\ BeginCall(c, "credits", k)
MusicBrainzLookup(c, k) == client = "musicbrainz" /\ BeginCall(c, "lookup", k)
Popularity(c, k) == client = "listenbrainz" /\ BeginCall(c, "popularity", k)

FlightOf(c) == <<caller[c].op, caller[c].key>>

\* The calls in flight are looked at after the cache, under a lock of their own.
JoinAlone(c) ==
  /\ caller[c].at = "missed"
  /\ flight' = [flight EXCEPT ![FlightOf(c)] = c] /\ Proceeds(c, "leading")
  /\ UNCHANGED <<client, calls, mutex, block, gap, cache, asked>>

JoinCall(c) ==
  /\ caller[c].at = "missed"
  /\ IF flight[FlightOf(c)] = Nobody
       THEN flight' = [flight EXCEPT ![FlightOf(c)] = c] /\ Proceeds(c, "leading")
       ELSE UNCHANGED flight /\ Proceeds(c, "joined")
  /\ UNCHANGED <<client, calls, mutex, block, gap, cache, asked>>

\* A follower waits for the call or for its own context.
FollowerAnswered(c) ==
  /\ caller[c].at = "joined" /\ caller[c].given # "none"
  /\ caller' = [caller EXCEPT ![c] = [@ EXCEPT !.at = "answered",
                  !.result = CoalescedRequestError(caller[c].given, caller[c].live)]]
  /\ UNCHANGED <<client, calls, flight, mutex, block, gap, cache, asked>>

FollowerLeaves(c) ==
  /\ caller[c].at = "joined" /\ ~caller[c].live
  /\ caller' = [caller EXCEPT ![c] = [@ EXCEPT !.at = "answered", !.result = "canceled"]]
  /\ UNCHANGED <<client, calls, flight, mutex, block, gap, cache, asked>>

\* A leader's result: the call leaves the table, is given to those who joined
\* it, and is cached if it is an answer.
FinishForgetful(c, result) ==
  /\ Frees(c)
  /\ flight' = [flight EXCEPT ![FlightOf(c)] = IF @ = c THEN Nobody ELSE @]
  /\ cache' \in Stores(caller[c].op, caller[c].key, result)
  /\ caller' = [d \in Callers |->
       IF d = c THEN [caller[c] EXCEPT !.at = "answered", !.result = result]
       ELSE IF caller[d].at = "joined" /\ FlightOf(d) = FlightOf(c) /\ result \in Good
         THEN [caller[d] EXCEPT !.given = result]
       ELSE caller[d]]

Finish(c, result) ==
  /\ Frees(c)
  /\ flight' = [flight EXCEPT ![FlightOf(c)] = IF @ = c THEN Nobody ELSE @]
  /\ cache' \in Stores(caller[c].op, caller[c].key, result)
  /\ caller' = [d \in Callers |->
       IF d = c THEN [caller[c] EXCEPT !.at = "answered", !.result = result]
       ELSE IF caller[d].at = "joined" /\ FlightOf(d) = FlightOf(c) /\ caller[d].given = "none"
         THEN [caller[d] EXCEPT !.given = result]
       ELSE caller[d]]

\* The caller takes its result and may call again.
Return(c) ==
  /\ caller[c].at = "answered"
  /\ caller' = [caller EXCEPT ![c] = IdleCaller]
  /\ UNCHANGED <<client, calls, flight, mutex, block, gap, cache, asked>>

\* A browser that went away, a deadline that passed.
Cancel(c) ==
  /\ caller[c].at \notin {"idle", "answered"} /\ caller[c].live
  /\ caller' = [caller EXCEPT ![c].live = FALSE]
  /\ UNCHANGED <<client, calls, flight, mutex, block, gap, cache, asked>>

\* Waits and requests end with the context; waiting for a mutex does not.
Abort(c) ==
  /\ caller[c].at \in {"pausing", "pacing", "sending", "backoff"} /\ ~caller[c].live
  /\ Finish(c, "canceled")
  /\ UNCHANGED <<client, calls, block, gap, asked>>

-----------------------------------------------------------------------------
(* Requests.                                                               *)

\* Spotify and iTunes keep their mutex through all attempts and waits of a call.
Acquire(c) ==
  /\ caller[c].at = "leading" /\ mutex = Nobody
  /\ mutex' = c /\ Proceeds(c, "ready")
  /\ UNCHANGED <<client, calls, flight, block, gap, cache, asked>>

Answers == {"found", "empty"}

\* A request whose connection fails, whose client timeout ends, or that gets any
\* other status, is not repeated.
SingleAttempt(c) ==
  /\ \E r \in Answers \cup {"error", "timeout"} : Finish(c, r)
  /\ asked' = IF caller'[c].result \in Answers THEN Unasked ELSE asked
  /\ UNCHANGED <<client, calls, block>>

\* waitUntilReady of Spotify: a quota block or a long one is an error at once, a
\* short one is waited out.
SpotifyReadyAnyway(c) ==
  /\ client = "spotify" /\ caller[c].at = "ready"
  /\ Proceeds(c, IF block.quota /\ block.left > 0 THEN "pausing" ELSE "pacing")
  /\ UNCHANGED <<client, calls, flight, mutex, block, gap, cache, asked>>

SpotifyReady(c) ==
  /\ client = "spotify" /\ caller[c].at = "ready"
  /\ IF block.left > Inline \/ (block.left > 0 /\ block.quota)
       THEN Finish(c, "blocked")
       ELSE Proceeds(c, IF block.left > 0 THEN "pausing" ELSE "pacing") /\ UNCHANGED <<flight, mutex, cache>>
  /\ UNCHANGED <<client, calls, block, gap, asked>>

SpotifyPaused(c) ==
  /\ client = "spotify" /\ caller[c].at = "pausing" /\ block.left = 0
  /\ block' = Unblocked /\ Proceeds(c, "pacing")
  /\ UNCHANGED <<client, calls, flight, mutex, gap, cache, asked>>

\* The token is fetched, when it is about to expire, after the wait.
AccessToken(c) ==
  /\ client = "spotify" /\ caller[c].at = "pacing" /\ gap = 0
  /\ \/ Proceeds(c, "sending") /\ UNCHANGED <<flight, mutex, cache>>
     \/ Finish(c, "error")
  /\ UNCHANGED <<client, calls, block, gap, asked>>

SpotifyAnswered(c) ==
  /\ client = "spotify" /\ caller[c].at = "sending"
  /\ gap' = 1 /\ SingleAttempt(c)

\* The third refusal, a long one and a used up quota end the call.
SpotifyRateLimited(c) ==
  /\ client = "spotify" /\ caller[c].at = "sending"
  /\ \E answer \in Refusals, quota \in BOOLEAN :
       LET kept == SpotifyRetryAfter(answer, quota, caller[c].tries)
       IN  /\ block' = [left |-> kept, quota |-> quota] /\ asked' = AskedBy(answer)
           /\ IF quota \/ kept > Inline \/ caller[c].tries = 2
                THEN Finish(c, "limited")
                ELSE Retries(c, "ready") /\ UNCHANGED <<flight, mutex, cache>>
  /\ gap' = 1
  /\ UNCHANGED <<client, calls>>

\* iTunes never waits for a window it finds, only for the first one of its own.
ITunesReady(c) ==
  /\ client = "itunes" /\ caller[c].at = "ready"
  /\ IF block.left > 0
       THEN Finish(c, "blocked")
       ELSE Proceeds(c, "pacing") /\ UNCHANGED <<flight, mutex, cache>>
  /\ UNCHANGED <<client, calls, block, gap, asked>>

ITunesPaced(c) ==
  /\ client = "itunes" /\ caller[c].at = "pacing" /\ gap = 0
  /\ Proceeds(c, "sending")
  /\ UNCHANGED <<client, calls, flight, mutex, block, gap, cache, asked>>

\* A full page of collections is an answer together with an error.
ITunesAnswered(c) ==
  /\ client = "itunes" /\ caller[c].at = "sending"
  /\ gap' = 1
  /\ \/ SingleAttempt(c)
     \/ /\ caller[c].op = "releases" /\ Finish(c, "truncated")
        /\ asked' = Unasked /\ UNCHANGED <<client, calls, block>>

ITunesRateLimited(c) ==
  /\ client = "itunes" /\ caller[c].at = "sending"
  /\ \E answer \in Refusals :
       LET kept == ITunesRetryAfter(answer)
       IN  /\ block' = [left |-> kept, quota |-> FALSE] /\ asked' = AskedBy(answer)
           /\ IF kept <= Inline /\ caller[c].tries = 0
                THEN Retries(c, "pausing") /\ UNCHANGED <<flight, mutex, cache>>
                ELSE Finish(c, "limited")
  /\ gap' = 1
  /\ UNCHANGED <<client, calls>>

ITunesPaused(c) ==
  /\ client = "itunes" /\ caller[c].at = "pausing" /\ block.left = 0
  /\ Proceeds(c, "ready")
  /\ UNCHANGED <<client, calls, flight, mutex, block, gap, cache, asked>>

\* MusicBrainz and ListenBrainz hold the mutex for the spacing only.
Spaced == client \in {"musicbrainz", "listenbrainz"}

SpacedWait(c) ==
  /\ Spaced /\ caller[c].at = "ready" /\ gap = 0
  /\ gap' = 1 /\ Frees(c) /\ Proceeds(c, "sending")
  /\ UNCHANGED <<client, calls, flight, block, cache, asked>>

SpacedCancelled(c) ==
  /\ Spaced /\ caller[c].at = "ready" /\ ~caller[c].live /\ gap > 0
  /\ Finish(c, "canceled")
  /\ UNCHANGED <<client, calls, block, gap, asked>>

SpacedAnswered(c) ==
  /\ Spaced /\ caller[c].at = "sending"
  /\ \E r \in {"found", "error"} : Finish(c, r)
  /\ UNCHANGED <<client, calls, block, gap, asked>>

\* Connection errors, timeouts and server errors are tried four times.
MusicBrainzTransient(c) ==
  /\ client = "musicbrainz" /\ caller[c].at = "sending"
  /\ IF caller[c].tries = 3
       THEN Finish(c, "error")
       ELSE Retries(c, "backoff") /\ UNCHANGED <<flight, mutex, cache>>
  /\ UNCHANGED <<client, calls, block, gap, asked>>

ListenBrainzTransient(c) ==
  /\ client = "listenbrainz" /\ caller[c].at = "sending"
  /\ IF caller[c].tries = 3
       THEN Finish(c, "error")
       ELSE Retries(c, "backoff") /\ UNCHANGED <<flight, mutex, cache>>
  /\ UNCHANGED <<client, calls, block, gap, asked>>

\* The delay before the next attempt, the provider's own up to thirty seconds.
WaitForRetry(c) ==
  /\ Spaced /\ caller[c].at = "backoff"
  /\ Proceeds(c, "leading")
  /\ UNCHANGED <<client, calls, flight, mutex, block, gap, cache, asked>>

Less(n) == IF n = 0 THEN 0 ELSE n - 1

ClientTick ==
  /\ gap + block.left + asked.left > 0 \/ \E f \in DOMAIN cache : cache[f].age < Lifetime
  /\ gap' = 0 /\ block' = [block EXCEPT !.left = Less(@)]
  /\ asked' = IF asked.left <= 1 THEN Unasked
               ELSE [left |-> asked.left - 1, patience |-> Less(asked.patience)]
  /\ cache' = [f \in DOMAIN cache |->
                 [cache[f] EXCEPT !.age = IF @ < Lifetime THEN @ + 1 ELSE @]]
  /\ UNCHANGED <<client, caller, calls, flight, mutex>>

-----------------------------------------------------------------------------
CallStep(c) ==
  \/ JoinCall(c) \/ FollowerAnswered(c) \/ FollowerLeaves(c) \/ Return(c) \/ Abort(c)
  \/ SpotifyReady(c) \/ SpotifyPaused(c) \/ AccessToken(c) \/ SpotifyAnswered(c)
  \/ SpotifyRateLimited(c) \/ ITunesReady(c) \/ ITunesPaced(c) \/ ITunesAnswered(c)
  \/ ITunesRateLimited(c) \/ ITunesPaused(c) \/ SpacedWait(c) \/ SpacedCancelled(c)
  \/ SpacedAnswered(c) \/ MusicBrainzTransient(c) \/ ListenBrainzTransient(c)
  \/ WaitForRetry(c)

AskFor(c, k) ==
  \/ SpotifySearchArtists(c, k) \/ SpotifyArtist(c, k) \/ SpotifyArtistReleases(c, k)
  \/ ITunesSearchArtists(c, k) \/ ITunesArtist(c, k) \/ ITunesArtistReleases(c, k)
  \/ ITunesCollectionCredits(c, k) \/ MusicBrainzLookup(c, k) \/ Popularity(c, k)

ClientNext ==
  \/ \E c \in Callers : Acquire(c) \/ Cancel(c) \/ CallStep(c)
  \/ \E c \in Callers, k \in LookupKeys : AskFor(c, k)
  \/ ClientTick

\* A goroutine that can go on does, one that waits for a mutex is not passed
\* over for ever; contexts and providers' answers are bounded by timeouts.
CallProceeds(c) == Acquire(c) \/ CallStep(c)

ClientFairness ==
  (\A c \in Callers : WF_clientVars(CallProceeds(c))) /\ WF_clientVars(ClientTick)

-----------------------------------------------------------------------------
(* Properties.                                                             *)

\* Equal calls in flight cost one request: two browser requests for the same
\* thing never both stand at the provider's gate.
OneRequestPerKey ==
  \A c, d \in Callers :
    /\ c # d /\ IsCoalesced(caller[c].op) /\ FlightOf(c) = FlightOf(d)
    /\ {caller[c].at, caller[d].at} \subseteq Steps \ {"idle", "missed", "joined", "answered"}
    => FALSE

\* A caller that is still there never hears that it was cancelled, and a timeout
\* is reported only by the caller whose request it was.
OwnFateOnly ==
  \A c \in Callers :
    /\ caller[c].result = "canceled" => ~caller[c].live
    /\ caller[c].given # "none" => caller[c].result # "timeout"

\* No request leaves while Spotify or iTunes asks to be left alone, also right
\* after a restart: whoever was told so, and whatever caller follows. Of a longer
\* window iTunes' client keeps six hours, and Spotify's does not read a date.
WindowIsOver == asked.left = 0 \/ asked.patience = 0
WindowIsQuiet ==
  [][\A c \in Callers :
       caller'[c].at = "sending" /\ caller[c].at # "sending" /\ ~Spaced => WindowIsOver]_clientVars

\* Every call comes back, although callers queue for one gate, follow each other
\* and disappear.
CallsReturn == \A c \in Callers : caller[c].at # "idle" ~> caller[c].at = "answered"

\* Callers that share a request share its answer and nothing else: one request,
\* and each caller's own cancellation and timeout.
CallersAreIndependent == ClientTypeOK /\ OneRequestPerKey /\ OwnFateOnly

-----------------------------------------------------------------------------
(* The inductive invariant behind it.                                      *)

ClientSpec == ClientInit /\ [][ClientNext]_clientVars

\* Who is past the table of calls in flight, and who holds the mutex for it.
Leads(c) == caller[c].at \in Steps \ {"idle", "missed", "joined", "answered"}
Holds(c) == caller[c].at \in {"ready", "pausing", "pacing", "sending"}

CallsAreKeyed ==
  \A c \in Callers : caller[c].at # "idle" => caller[c].op \in AllOps /\ caller[c].key \in LookupKeys
LeadersAreInFlight ==
  \A c \in Callers : Leads(c) /\ IsCoalesced(caller[c].op) => flight[FlightOf(c)] = c

\* Only a caller that is answered has a result, only one that joined is given one.
ResultsComeLast ==
  \A c \in Callers :
    /\ caller[c].at # "answered" => caller[c].result = "none"
    /\ caller[c].given # "none" => caller[c].at \in {"joined", "answered"}
TriesAreCounted == client = "spotify" => \A c \in Callers : caller[c].tries <= 2

\* Spotify and iTunes: the mutex is held from the first look at the window to
\* the last attempt, and the window they know covers what the provider asked
\* for, as long as their client minds it.
GateIsHeld == ~Spaced => \A c \in Callers : Holds(c) => mutex = c
WindowIsKnown ==
  ~Spaced =>
    /\ asked.left <= block.left \/ asked.patience <= block.left
    /\ \A c \in Callers : caller[c].at = "pacing" => block.left = 0

CachesAreBounded ==
  /\ IsFiniteSet(DOMAIN cache)
  /\ \A op \in AllOps : Cardinality(OfKind(cache, op)) <= MaxEntries

ClientIInv ==
  /\ CallersAreIndependent /\ CallsAreKeyed /\ LeadersAreInFlight /\ ResultsComeLast
  /\ TriesAreCounted /\ GateIsHeld /\ WindowIsKnown /\ CachesAreBounded
=============================================================================
