# Verification of Artist Trackarr

Artist Trackarr is a Go program with one SQLite database. It follows artists for the
members of a household, synchronizes their releases from several catalog providers,
and notifies the members through destinations they configure (ntfy, Discord, Telegram,
generic webhooks). This directory holds TLA+ models of the parts of it that are hard to
test, the TLC configurations that check them, and machine-checked proofs.

Source paths below are relative to the repository; `store/` and `jobs/` are
`internal/store/` and `internal/jobs/`.

## The system

| component | state it keeps | operations | what is hard |
|---|---|---|---|
| Delivery queues and circuit breaker (`store/notifications.go`, `jobs/jobs.go`) | `deliveries`, `release_digest_deliveries`, `destination_health`, attempt audit | fan-out, claim, send, mark sent/failed/rate limited, finish attempt, retry, recover, release, cancel | at-least-once delivery through crashes; a shared circuit fed by concurrent workers; leases; two queues; member actions during a send |
| Notification sender (`notify/notify.go`) | pacing slot and cooldown per destination, in memory | wait, cooldown, send | rate limits, a gate shared by workers, time-outs of requests the provider may still accept |
| Release digests (`store/calendar.go`) | `release_digest_runs` and their rows | queue the due digests, settle a run | one run per period across time zones; a run's outcome depends on all its rows |
| Follow rules (`store/follow_notification_rules.go`, `governing_follow.go`) | `follow_notification_rules` | pause, extend, resume, change mode; which follow governs a release | queued rows must be realigned with every change |
| Event admission and holds (`store/release_helpers.go`, `notification_holds.go`, `evidence.go`) | `notification_events`, `notification_holds`, evidence issues | admit, hold, approve, discard | an event exists once per release and kind; holds meet pauses |
| Scheduler and lifecycle (`jobs/jobs.go`, `cmd/server/lifecycle.go`), log sink (`logging/async.go`) | task guards, wake-up channel, bounded log buffer | run, wake, log, shut down | overlap guards, coalesced wake-ups, ordered shutdown with budgets, closing a channel others write to |
| Manual synchronization (`store/operations.go`, `jobs/jobs.go`) | `manual_sync_requests` | request, claim, complete, recover | leases, interruption against failure |
| Artist synchronization (`jobs/jobs.go`, `jobs/providers.go`, `store/artist_identity.go`) | due times, identity states, provider cooldowns | visit, back off, verify | several providers with their own cooldowns, a shared budget, restarts |
| Artist resolution (`store/artists.go`, `provider_identities.go`, `web/artists.go`) | `artist_resolutions`, identities, follows | ask, look up, retry, review, choose, cancel | passes and pages work on copies of rows that change meanwhile |
| Catalog clients (`catalog/*.go`) | caches, calls in flight, request slot, blocked window | search, look up, list, page, normalize | coalesced callers with their own deadlines; rate limits; incomplete catalogues |
| Release store (`store/releases.go`, `release_helpers.go`, `evidence.go`) | release groups, credits, provider evidence, baselines | match, merge, record conflicts, announce | the same release from several providers in any order |
| Imports (`store/imports.go`, `web/import.go`) | `import_jobs`, rows | start, apply, finish, resume, recover, prune | interruption, retention against resumability, replay over changed follows |
| Accounts (`store/auth.go`, `web/auth.go`, `web/ratelimit.go`) | users, sessions, tokens, login windows | set up, invite, recover, sign in, throttle, delete | single-use tokens, last administrator, checks made before the write |
| Store write path and migrations (`store/schema.go`, `migration_snapshots.go`) | the database and its copies | check, copy, migrate, verify, prune | crashes during an upgrade, two starts at once |
| Artwork cache (`artwork/artwork.go`) | files, calls in flight, circuit | get, refresh, prune | a shared fetch that outlives who began it |
| Web handlers, configuration, templates | none of their own | | rendering and parsing: out of scope |

The runner starts four kinds of task (synchronization, release-day queue, delivery,
maintenance), each under a guard that keeps it from overlapping itself. Synchronization and
the release-day queue admit events, which fan out to queue rows; the delivery task
claims and sends rows; web handlers run the members' actions; maintenance repairs. They
share nothing but the database, the runner's wake-up channel, the sender's limiter and
the provider clients.

Every write goes through one writer connection, and a store method is one transaction:
in the models **a store method is one atomic step** that happens or fails as a whole.
What interleaves is the order of store calls, provider calls, member actions, crashes
and time.

## Modules

| module | what it is |
|---|---|
| `Delivery` | the two queues, the circuit breaker, the delivery task, the member actions that touch the queues, recovery, crashes, time; its properties |
| `Outbox` | what the queues promise: an at-least-once outbox without claims, schedules, circuits or time |
| `ManualSync` | "Sync now" requests: queueing, leased batches, completion, recovery, pruning, restarts |
| `Admission` | how an alert about one release reaches the queue: governing follow, pauses, the Trust Guard, holds and what members decide on them |
| `Digest` | the daily digest of a member who moves between time zones and edits destinations |
| `Process` | the life of a process: start, the run loop and its guarded tasks, requests, the log sink, the shutdown sequence |
| `ArtistSync` | due artists, a visit through the providers, identity verification, cooldowns in the process and the database, restarts |
| `Resolution` | requests to follow an artist of Spotify or iTunes, from the request to the follow |
| `Imports` | an upload, row by row, its interruption, recovery, pruning and resumption |
| `ProviderClient` | concurrent callers of one provider: caches, coalescing, the request slot, rate limits, retries |
| `CatalogReader` | what becomes of a provider's pages: completeness, identity, guests, credits, normalization |
| `ReleaseMerge` | what a synchronization stores and announces of the records of three providers |
| `Accounts` | setup, invitations, recovery, sign-in and its throttle, sessions, deletion of members |
| `Migrations` | opening the database: checks, copy, migrations, pruning, failed and concurrent starts |
| `Artwork` | the cover cache |
| `DeliveryProofs`, `ManualSyncProofs`, `AdmissionProofs`, `ProcessProofs` | the proofs about the module each is named after |
| `ProviderProofs` | the proofs about the two sides of a request to a provider: `ArtistSync` and `ProviderClient` |
| `CatalogProofs` | the proofs about what becomes of what the providers show: `CatalogReader` and `ReleaseMerge` |
| `StorageProofs` | the proofs about what is kept on disk: `Migrations` and `Artwork` |
| `MemberProofs` | the proofs about what members ask for: `Digest`, `Imports`, `Resolution` and `Accounts` |
| `MCDelivery`, `MCManualSync`, `MCAdmission`, `MCDigest` | the constants TLC uses for one module |
| `MCRuntime`, `MCPlatform` | small instances of several modules that share no state in the models: `part` is chosen at the start, and a behaviour is about that part alone. They save runs, not states: each part is explored in full |

### Delivery

One row of the model is a row of `deliveries` or of `release_digest_deliveries`; `GroupOf`
says which event or digest run it delivers. The two tables are handled by the same
code (`deliveryTarget`) and by pairs of store methods that differ in the table and in the
digest run's outcome, so one action stands for a pair and `IsDigest` marks the
differences: only events are deferred, released by maintenance or cancelled
as orphans; only digests settle a run.

| variables | code |
|---|---|
| `status`, `attempts`, `wait`, `owner`, `lease` | the row's columns `status`, `attempts`, `next_attempt_at`, `claim_owner`, `claim_expires_at` |
| `health`, `streak`, `cooldown` | `destination_health.status`, `consecutive_failures`, `next_retry_at` |
| `runStatus` | `release_digest_runs.status` |
| `dests`, `followed`, `pausedFor` | rows of `destinations` and `follows`; `paused_until` |
| `phase`, `age` | what `deliver` is doing in a process, and how old its `now` is |
| `pc`, `tried`, `recorded`, `retryIn` | where `performDelivery` is with a row, and its local values: the claimed `Attempts`, whether `attemptID > 0`, `nextRetry` |
| `gate` | `requestLimiter.cooldowns` |
| `window`, `accepted` | history variables: the windows a provider asked for, each with what is left of its first hour; how often it accepted a message |

A stored time is kept as the time left until it, so `Tick` can lower all of them and
no clock grows. `performDelivery` passes the `now` of its batch to the store;
`AfterBatchStart` models that a delay is counted from there.

`performDelivery` is split where another actor can get in between: starting the attempt,
waiting for the limiter, the request, the transition of the row, finishing the attempt
(which feeds the circuit), and, when the claim was lost, the final transition. A
worker holds a snapshot of the row from its claim and never looks at the row again, as in
the code.

The environment is switched on per instance by `Disturbances`: `storeError` (a store
call fails after its retries), `abandon` (a send is given up while the request is out),
`panic`, `crash`, `shutdown`, `overlap` (two processes at once), `rateLimit`,
`retry`, `delete`, `unfollow`.

A lease does not keep a second process away: the failure that pauses a destination clears
the claims of rows in flight, and a Retry makes them pending. `DeliveredOnce` and
`RetryWindowHonoured` therefore are about one process, whose overlap guard hides it; for two,
`delivery_overlap` checks that the stale outcome undoes nothing. The stored retry time
counts from the start of the batch, so only the sender's own limiter (`gate`) knows the
real end of a window, and a restart forgets it. Whatever a provider asks for, the limiter and the
stored time keep an hour of it at most (`BoundedRetryAfter`, `LongestCooldown`); `window` is not
clamped, and the property is about the first hour of every window.

Simplifications: a release is governed by one follow; which due rows are claimed first is
left open; a destination's unsupported transport is a constant; a panic is placed before
the request; pacing delays are not distinguished from waiting for a worker.

### ManualSync

One row of the model is a row of `manual_sync_requests`. A new row gets the primary key
SQLite would give it, so the number of a deleted request can come back as
another member's: a worker remembers numbers, not rows.

| variables | code |
|---|---|
| `status`, `by`, `target`, `owner`, `lease` | `status`, `requested_by`, `artist_id` or scope `retry`, `lease_owner`, `lease_expires_at` |
| `users` | rows of `users`, whose deletion cascades |
| `phase`, `cancelled` | where a process is in `processManualSyncRequests`; whether its context is cancelled |
| `place`, `asked` | the claimed slice: the order of the requests, and the target each had when it was claimed |
| `item`, `result`, `age` | the loop's current request, what its synchronization returned, the age of the batch |

What a synchronization does to artists belongs to another module; here it returns success,
an error, or a context's error, which the loop takes for a shutdown. A request for all
artists collects the errors of single artists and never reports one's time-out. A lock
that web handlers and the task share only delays, so it is left out. A runner keeps its
name when it restarts: the code draws a fresh one, but only a batch in memory relies on
the old one, and it is gone.

### Admission

One release, its credited artists, its followers. A member's alert of a kind is one record
for up to three rows: the event, its delivery, its hold.

| variables | code |
|---|---|
| `follows`, `rule`, `prefs` | `follows` of the release's artists, `follow_notification_rules`, `notification_preferences` |
| `blocking` | an open issue of severity warning or critical in `release_evidence_issues` |
| `alert` | `event`: a row of `notification_events`; `queue`, `due`, `tried`: its row of `deliveries`; `hold`: its row of `notification_holds` |
| `received` | history variable: how often the alert was sent |

`Admit` is `enqueueEventTxModeOptions`; every way to an alert goes through it, as in the
code: synchronization, the release-day queue, draining of holds, "Notify anyway",
a restored hold, a confirmed issue, a truth decision. `Admitted` is the result that decides
whether a hold is released. What the code computes from release type, credit role and kind
is a set of kinds per follow. `RealignQueuedDeliveries` follows every change of
a follow or rule; changed preferences and follows added by resolved or imported
artists do not realign, in the model as in the code.

A queued row is sent or fails in one step here: leases, the circuit and the send itself are
`Delivery`'s. Which artists' issues conflict is left open, and so is the date logic that
picks the kind of an approval's alert. The truth decision itself, and who may
change it, is left out: any member may decide.

### The other modules

Each names the code it translates at its top and at its variables. What a reader should know
beyond that:

- **Digest.** A sweep looks for the run of the period. If there is none, a later transaction
  looks again and makes the run together with its rows. The sweep can give up between the two,
  and a second sweep can be at the same point. `Offset` is a zone's distance in parts of a day;
  `Lookback` is the 26 hours in which a run of another zone counts. Frequency: daily.
- **Process.** A budget of a shutdown stage may run out whenever the stage waits, so there is
  no clock. What tasks do with the database is reduced to whether they still can. Each logger
  logs at most one record, which is enough to fill a small buffer and to race with `Close`.
- **ArtistSync.** A visit makes one provider request per step, in the order of the code, and
  the process may stop between any two. `told` remembers how long a provider asked to be
  left alone, for how much of that the schedule minds it, and whether it could be stored: the code
  ignores a failed write of a cooldown, and what was never stored a restart may forget. Of
  Spotify's wish the schedule minds an interval unless it is a used up quota (`SyncRetryDelay`), of
  a rate limit met while iTunes credits are read nothing (`LimitedLate`). Between verification and
  Spotify, `BackfillGenres` may ask MusicBrainz without looking at any cooldown. An identity check
  that runs out of time (`IdentityTimesOut`) ends the visit without a schedule, as often as it
  likes.
- **Resolution.** `pass` and `choosing` hold the rows as the running task and an open page
  read them; every store method then decides on the row as it is now.
- **Imports.** A row of the file is applied in a transaction of its own. `done` remembers
  which uploads some job calls complete.
- **ProviderClient.** A step ends where a goroutine waits, sends or gives up a mutex. The four
  clients differ by which of coalescing, cache, slot and window they have; a behaviour is about
  one of them. `asked` is what the provider wants and for how long the client can mind it, `block` what the
  client keeps: `ITunesRetryAfter` keeps six hours of any form of `Retry-After`,
  `SpotifyRetryAfter` reads seconds only and answers a date with its own short backoff.
- **CatalogReader.** One observation over a catalogue chosen at the start. Rows keep what
  decides whether and how they become releases. A loop of the code is a fold, and what it does with
  one row is a definition of its own (`KeepCollection`, `CreditTrack`, `NormalizeOne`, ...).
- **ReleaseMerge.** One step is one transaction of `ApplyReleaseBatches` for one artist with one
  follower; `Normal` is the normalization of titles given as a function. `rows`, `evidence`,
  `credits`, `issues`, `events` are the tables.
- **Accounts.** What a request reads (session, throttle, account, password) and each of its
  writes is a step of its own; other requests run in between. A sign-in checks the password it
  read, clears the failures of one key, then of the other, and then creates the session without
  looking at the password again; a failure is counted for one key after the other as well. A
  password is named by its era. A session and a calendar token carry two: `era`, that of the
  password the request had read, and `issued`, that of the account when they were written. The
  properties compare the second, because only that can be promised (see the divergences).
  `born` and `strikes` are history variables.
- **Migrations.** `bodies` counts how often a migration's statements took effect, `recorded` is
  what the table says. A copy reserves its name before it is published.
- **Artwork.** A page joins the running fetch of its cover or begins one, leaves when it
  likes, and the fetch goes on. Fetches are numbered in the order they begin.

## Runs

| run | instance | what it checks |
|---|---|---|
| `delivery_circuit` | one process, an event and a digest, one destination that pauses at 2 failures; panics, lost writes, given-up sends, rate limits, retries, deletion | `TypeOK`, `PausedHasNoRunnableWork`, `BlockedHasAReason`, `CircuitAgreesWithStreak`, `AttemptBudget`, `SentRunIsComplete`, `NothingLost`, `PauseEndsWithItsRows`, `ImplementsOutbox` |
| `delivery_once` | rate limits shorter and longer than what the limiter keeps, panics, pauses, retries, deletion; no crash, lost write or given-up send | `DeliveredOnce`, `RetryWindowHonoured` |
| `delivery_overlap` | two processes at once on one row, crashes, shutdown, given-up sends, retries, pauses, unfollow | `UntriedWaitsOutThePause`, `SettledStaysSettled` |
| `delivery_live` | two processes one after the other, a crash, a row of an earlier release, two members, batch limit 2 with one place reserved, per-member limit 1 | `QueuesMoveOn`: queued work settles, an earlier release's rows are freed, a digest is taken |
| `delivery_inflight` | a pause while a row is being sent | `DeferredWorkWaits` (violated) |
| `sync_queue` | two members, two artists, two processes at once; crashes, shutdown, panics, time-outs, lost writes, deleted members | `IInv`, `OneOpenPerTarget`, `SettlesOnce`, `ServesWhatWasAsked` |
| `sync_live` | two members, three requests, two places in a batch, a process that crashes and is restarted, a row of an earlier release | `EveryRequestSettles`, `ClaimsAreFair` |
| `sync_starved` | an artist whose provider never answers, no other disturbance | `OthersAreServed` (violated) |
| `runtime` | `Process`: a request, a task, a buffer of one record. `ArtistSync`: two artists, one imported, one on Spotify. `ProviderClient`: two callers of Spotify who search or list releases | `EndIsOrderly`, `ShutdownEnds`, `QueuedWorkIsSeen`; `GivenUpForGoodReason`, `CooldownIsHonoured`, `DueQueueMoves`; `CallsReturn` |
| `platform` | `Admission`: two artists; one member who changes everything beside one who follows nothing, or two followers who review under rules that stay. `Accounts`: two clients, two addresses, one link; a household that is empty, one with its administrator and an open invitation, one with an administrator and a member who are signed in. `CatalogReader`: all catalogues of few rows and full pages of three providers. `ProviderClient`: each of four clients, two callers. `ReleaseMerge`: three visits over eight alike records. `Digest`: two zones three parts of a day apart, two sweeps, two destinations. `Migrations`: two starts at a time of two releases. `Artwork`: two pages, two covers, one slot, one failure pauses the fetches. `Imports`: two requests over a file with a known, a new and a refused row; a failed write, restarts, sweeps. `Resolution`: three profiles of which two are asked for, two artists, two requests at a time | `AlertedOnce`, `DecisionsStand`, `ChangesRealign`; `AccountsAreSound`; `ObservationIsFaithful`; `CallersAreIndependent`, `WindowIsQuiet`; `SyncsAreSound`; `DigestIsDue`; `UpgradesAreSound`; `CoversAreShared`; `ImportsTellTheTruth`; `ResolutionsAreSound` |
| `admission_paused` | one artist, the guard on | `PausedIsDeferred` (violated) |
| `digest_zone` | one destination, a move from Paris to Berlin | `NeverOneFewer` (violated) |

What the properties with a general name say:

- `ImportsTellTheTruth`: a job is complete only when every row of its file was applied; a job
  that stopped is kept, by every sweep, until its owner can resume it; resuming takes
  nothing back that the member changed meanwhile.
- `ResolutionsAreSound`: a request ends only with its member's follow or cancellation; one under
  review is its member's, whatever a pass that began before it finds; a Spotify identity stays,
  agrees with the link shown, and an iTunes profile has one artist.
- `DecisionsStand`: the guard holds what it guards, a member's review moves no alert of
  another, and a discarded hold stays discarded.
- `AccountsAreSound`: one administrator, one account per invitation, a new password ends every
  session, recovery link and feed token there is, and the throttle refuses only a peer that itself
  gave as many wrong passwords. It does not say that nothing is issued under a former password:
  a request that had read it before may do so.
- `RetryWindowHonoured`, `WindowIsQuiet`, `CooldownIsHonoured`: no request goes to a provider that
  asked to be left alone, as far as each of the three keeps the wish. The sender keeps an hour; the
  clients keep six hours for iTunes and all that Spotify puts in seconds; the schedule keeps an
  interval for Spotify and nothing of what comes with the credits, and is asked about the requests
  for releases and identities, not about those for genres. The wish is kept apart from what is
  stored of it, so that a clamp that is applied to one copy and forgotten in another shows.
- `ObservationIsFaithful`: a catalogue is whole or refused, no other artist's, each
  release once, in its right role, with its credits.
- `CallersAreIndependent`: one request per key at a time, and each caller meets only its own
  cancellation and time-out.
- `SyncsAreSound`: a row is at most one release group and reads as MusicBrainz has it; what a
  provider calls one release stays one row; a new row is announced, what was shown before is not;
  a record that joins a row because the two are alike raises no conflict with the provider the row
  came from. The last is about a record that joins alone a row that still has that provider's
  date: two that join at once are each compatible with the row but perhaps not with each other,
  and a row need not follow what its provider says later, so then there may be a conflict.
- `DigestIsDue`: a destination gets no digest from before it was added, and the run because of
  which a sweep makes none on a due day is at most two days older. The code's comment
  promises more; that is the fourth divergence below.
- `UpgradesAreSound`: a database left half upgraded comes with a whole copy of what it was, and
  a migration takes effect once.
- `CoversAreShared`: one fetch per cover, a page that waits has a fetch to wait for, and nobody
  is given what another's departure left.
- `EndIsOrderly`: nothing uses the database after it is closed, a log record the sink took or had
  no room for is written or counted, and a clean end loses none. At an end whose budgets ran out,
  records that came after the sink was closed may be lost without being counted.
- `DueQueueMoves`: a visit that gets to its end takes its artist out of the due queue, and every due
  artist is visited unless identity checks run out of time again and again.

Each of the first kind also includes its module's type invariant (`AccountsTypeOK`, ...).

**Bounds.** Two rows reach every interaction of the circuit: one row whose failure pauses the
destination and one that is queued, claimed, in flight, settled or inserted at that moment. Two
attempts and a pause at two failures keep a first failure distinct from the last (the code has 5
and 5). Times are small numbers whose order matters: a lease of 2 can expire during a batch of
up to 4 units, a backoff is shorter or longer than a pause. Two processes are checked on one
row, because what a stale worker can spoil is the row it still remembers; that the other
invariants hold for two processes and any number of rows is proved (below). `AcceptCap` (2)
tells a message handed over once from one handed over more often. `LongestBatch` bounds a batch:
each row costs at most `notificationSendTimeout` and a few calls bounded by
`deliveryStateBudget`. In the safety runs it exceeds the lease; in `delivery_live` it does not
(see below). Everything else is finite without a bound.

In `ManualSync`, two requests are what a conflict needs: the one a stale worker
remembers and the one that now has its number or its lease. A batch as long as a lease
lets the lease lapse before the last request is settled. Fairness between members needs a
third request, two of one member against one of the other. The limits on queued
requests (500 and 25) are reached at 2 and 1.

In `Admission`, two artists make governance a choice and let a pause, an unfollow or a mode
change hand it over; the two modes stand for one that is inherited and one that is silent, and
pauses are shorter or longer than a backoff. A member's rules decide nothing for
another, so the instance in which rules change has one follower, beside a member who must not be
alerted; in the other two followers of one artist review what was held while their rules stay.
One kind of event is used; the rule that an approval respects alerts of every kind is modelled
and not exercised by this instance.

`AttemptBudget` and the other invariants of `delivery_circuit` are run with one process; that
two processes that count the same row keep the budget as well rests on the theorem
`BudgetIsExact`. `RateDelays` of 1 and 3 lie on both sides of the `LongestCooldown` of 2, and so do the
`Windows` of 1 and 3 of a client and its `LongestWindow` of 2.

In `ArtistSync`, one of the two artists is on Spotify and its identity is yet to be verified; every
interval is one tick and a wish to be left alone two, so that a clamp to the interval shows.
`StretchCap` is 0: the adaptive delay then never grows, which the properties of the run do not
depend on and the proofs cover. A batch of one makes a single artist enough to hold the head of the
queue. `Accounts` starts from three households and lets requests for 3 of `Budget` happen, or 2
where two members are signed in: enough for a sign-in or a token beside a change of the password,
two registrations with one link, or two failures and a refusal.

In the other modules two of everything that can race is enough, with a third where a rule needs
one: two processes, requests, callers, pages, sweeps or links; one place in a slot, buffer or
cache so that it is full at once; lengths of one tick where only "not yet" and "over" matter.
`PageSize` and `MaxPages` of 2 let a catalogue end within a page, at a page's end, at the limit
and beyond it. `MaxSyncs` of 3 lets three providers bring the same release in any order;
`MaxRecords` of 2 is enough for a release that comes twice in one batch. `MaxDay` covers the
news window and the tolerance between dates. `Budget`, `Faults`, `Calls`, `MaxStarts`,
`MaxGets`, `MaxMoves`, `MaxEdits`, `MaxRequested`, `MaxUploads` and `MaxDowntime` bound how much
happens in a behaviour.

**Fairness** is stated for what the program schedules: `Run` (the container is
restarted, `restart: unless-stopped`), `DeliveryTask` of each process (a ticker starts a
batch, and every call in it has a timeout), the three maintenance calls (hourly), and time.
Time needs strong fairness because a batch in progress disables it between two claims
and at `LongestBatch`. Members, producers, failures and crashes are not fair. The
liveness run starts a process only when the previous one ended and has batches shorter
than the lease: two overlapping processes that are both slower than the lease can take
rows from each other for ever, and nothing in the code excludes it; a single container, as
`compose.yaml` deploys it, does.

`UntriedWaitsOutThePause` is checked without rate limits: a rate limit, like a
failure, overwrites the due time of a row that was in flight when its follow was paused.
That is the first divergence below, and why the property is about rows never tried.

`ManualSync` asks for the same: the synchronization task is launched every minute and by
each new request, its steps end by their time-outs, maintenance is hourly. Its liveness is
promised once some process stays up (`StaysUp`): if every batch is cut short by a
crash, nothing settles. Its batches are shorter than their lease, for the same reason as
above.

In `Process`, the main goroutine, a logger that has begun, a task and a request that waits for
one go on, and the ticker launches an idle task; a request, a signal, a full buffer and a
budget that runs out need not happen. In `ArtistSync` a visit under way proceeds and time
passes; in `ProviderClient` a caller that can proceed does, and time passes. All are
goroutines of a live process whose calls have time-outs; a stopped process owes nothing.

**Mutants.** For every checked property its module holds a changed form of an operator, next
to the original and marked "Mutant", that a plausible bug would produce (a dropped
guard, a forgotten table, an off-by-one). Substituted for the original it breaks the
property in the same run. Mutants take no part in the specification.

## Where code and documents disagree

1. *A deferral is lost to a failure in flight* (`delivery_inflight`). README: "Pausing a
   follow defers its notifications to the moment the pause expires". A row being sent
   when the pause is set gets the shorter backoff of its failure and is sent during the pause.
2. *One unresponsive provider starves other members* (`sync_starved`). README: claims are
   interleaved "so one large manual refresh cannot starve other users' requests". A
   request whose provider times out is taken for a shutdown, because a client's time-out
   is a `context.DeadlineExceeded`: the loop ends, all the batch waits for
   its lease, and the next batch has the same order. The requests after it are never reached.

3. *The Trust Guard undoes a pause* (`admission_paused`). README: "Pausing a follow defers
   its notifications to the moment the pause expires". For a member who has conflicting
   alerts held, an alert without any conflict is queued by `holdConflictingNotificationTx`,
   which makes it due at once; the deferral a few lines further on is never reached.

4. *A move can cost a digest* (`digest_zone`). The comment of `digestRunLookup`: "a member who
   changes timezone may see one extra digest, never one fewer". A run made under another zone
   within 26 hours counts as the period's own, except that of the period just before. The run of
   the day before that one, made late in the evening, is within the 26 hours too, and the digest
   of the new day is never sent, even if both zones have the same offset.

More was met while modelling and has no run of its own:

- "Notify anyway" under a disabled follow records the event and keeps the hold, but the next
  drain under an enabled one takes the recorded event for an admitted one
  (`notification_holds.go:20`) and releases the hold with nothing queued, although README says
  the owner can "change the rule and retry".
- `store/imports.go:199` says that imported follows are kept "equivalent to follows created through
  the normal and resolution paths", while only `Follow` realigns the queue.
- A sign-in that read the old password before a change and creates its session after it
  (`web/auth.go:129`, `web/auth.go:159`) leaves a session that survives the change, and a calendar
  token that a session generates while it is being ended (`web/settings.go:246`,
  `store/calendar_tokens.go:27`) survives likewise; nothing compares the password again. README says of
  a change that it "revokes every active session", and `store/auth.go:315` that a member
  "reasonably expects that to end access". With `era` in the place of `issued`, `AccountsAreSound`
  finds both traces: eight states for the session, five for the token.
- An identity check that times out schedules nothing (`jobs/jobs.go:1562`). `ArtistsDue` takes the 25
  artists that are due longest (`jobs/jobs.go:1498`), so 25 artists whose checks always time out are
  every batch, and nobody else is visited. Without the first disjunct of `DueArtistsAreVisited`
  that is a counterexample.
- The backfill of genres asks MusicBrainz whatever cooldown it is in (`jobs/jobs.go:1609`).
- A rate limit met while reading iTunes credits clears the provider's cooldown instead of
  setting it, because the releases were read (`jobs/providers.go:286`, `jobs/providers.go:328`).
- What a provider asks for is not always what is kept: an hour of it in the sender
  (`notify/notify.go:1047`), six hours of it in the iTunes client (`catalog/itunes.go:828`), a second
  or a few instead of a date in the Spotify client (`catalog/catalog.go:1563`), an interval in the
  schedule of an artist (`jobs/jobs.go:1864`). In the rest of a longer window requests do go out.
- An iTunes profile another artist has already fails the completion of a resolution without a
  retry being scheduled (`jobs.go:1299`): its row stays due, first in every pass.
- `artist_resolutions.id` is reused: a request cancelled during a pass can leave its number to
  the member's next one, which the pass then takes for it.
- A caller of a provider client that missed the cache just before the leader stored its result
  asks once more; fetches of covers queued when the circuit opened are sent nevertheless; pruning
  can remove a picture renewed since it was listed. Each costs a request and breaks no promise.
- Every failed start of an upgrade publishes another copy, and only a successful one prunes; a crash
  between reserving a name and renaming the copy leaves an empty file listed as a snapshot.

## Proofs

`DeliveryProofs` proves, for all values of the constants that satisfy
`ConstantsAssumption`:

| theorem | states |
|---|---|
| `Invariance` | `Spec => []IInv`, the inductive invariant |
| `TypeCorrect`, `PausedIsStopped`, `BlockedIsExplained`, `CircuitIsExact`, `BudgetIsExact`, `SentRunsAreComplete` | the invariants of the runs |
| `QueueLosesNothing`, `SettledIsFinal`, `PauseEndsWhole` | the action properties |
| `QueuesImplementOutbox` | `Spec => ImplementsOutbox`: the refinement of `Outbox` |

None of the invariants is inductive alone. `IInv` adds: only a pending row is claimed
(`OwnedIsPending`: otherwise an owned row could be finished out of a pause); an
absent row has its budget whole (`AbsentIsFresh`); a worker's snapshot has an attempt left
(`TriedWithinBudget`, which bounds what a stale worker can count); a worker reports
success only for what was accepted (`AcceptedWhenReported`, needed for `Confirm` of the
outbox); batches hold known rows (`BatchIsKnown`) and digest runs are inserted whole
(`RunsFanOutWhole`, needed for `SentRunIsComplete`).

The argument goes by the shape of a step. Lemmas about the few updates the actions share
(claiming, leaving a row, becoming sent, counting a failure, stopping or
releasing a set of rows) say what each keeps; the step theorem then has one case per
action. The action properties and the refinement are proved from the invariant in
the same way: every action moves rows as one action of `Outbox` does, or leaves
them within the open states, which is a stutter.

`ManualSyncProofs` proves, from `ManualSync`'s `ConstantsAssumption`:

| theorem | states |
|---|---|
| `SyncInvariance` | `Spec => []IInv` |
| `SyncTypeCorrect`, `OneRequestPerTarget` | `TypeOK`, `OneOpenPerTarget` |
| `SettledOnce`, `ServedAsAsked` | `SettlesOnce`, `ServesWhatWasAsked` |
| `FairClaims` | `ClaimsAreFair` |

`SettlesOnce` needs `OwnedIsRunning` (only a running row is leased, so an update that finds its
owner finds an open request). `ServesWhatWasAsked` needs `OwnedIsAsked`: while a process owns a
row of its batch, the row still names what was claimed. A reused number cannot break it, because
deleting the row gave up the lease, and a new row is leased only by a claim, which replaces the
batch. `WorkedOnIsInBatch` and `SettledHasResult` tie the loop's current request to that batch.
`ClaimsAreFair` compares the places of requests in the order of claims, which is a number of
rows ahead. `RanksCount`: a member's first request has rank 1 and a later one a higher rank,
because the rows before it in its own queue are a strictly smaller set. `FirstsGoFirst`: hence
all that is ahead of a first request is ahead of every second one as well, and a batch that has
room for a second one had room for the first.

Three more theorems of `DeliveryProofs` are about a milder environment, as the runs that
check them are, and say so in a hypothesis on `Disturbances`:

| theorem | hypothesis | states |
|---|---|---|
| `MessagesArriveOnce` | `Undisturbed`: one process; no crash, shutdown, given-up send or lost write | `DeliveredOnce` |
| `WindowsAreHonoured` | `Uninterrupted`: one process that stays up | `RetryWindowHonoured` |
| `PausesAreWaitedOut` | `NeverLimited`: no rate limits; processes may overlap and crash | `UntriedWaitsOutThePause` |

`DeliveredOnce` rests on `OnceInv`: only one process is up; a batch is over before the next one
begins; nobody settles a row under its worker, and a claim that was lost stays lost; hence a
message that was accepted is settled or its worker is about to settle it, and one that is
sent again was not accepted before. `RetryWindowHonoured` rests on `WindowInv`: the
limiters of the process that is up know what is left of the first hour of every window, however long
the window is.
`UntriedWaitsOutThePause` is inductive once nobody is in a limiter's cooldown (`PauseInv`).

The other proof modules all have the same form: an inductive invariant, added to its
component's module under the properties and checked by TLC on the instance of the run, its
preservation by every action, and the theorems that follow.

| module | theorem | states |
|---|---|---|
| `AdmissionProofs` | `AdmissionInvariance` | `Spec => []AdmissionIInv` |
| | `AlertsAreSingle` | `AlertedOnce` |
| | `GuardedDecisions`, `RealignedChanges` | the action properties `DecisionsStand` and `ChangesRealign` |
| `MemberProofs` | `DigestInvariance`, `NothingFromBefore` | `[]DigestIInv`, `[]NoBackfill` |
| | `SilenceIsBounded` | `[]SilentAtMost(n)` if `ZonesWithin(n)` |
| | `DigestsAreDue` | `[]DigestIsDue` if `ZonesWithin(2)` |
| | `ImportsInvariance` | `[]ImportsIInv`, which has `CompleteMeansAll` |
| | `NothingStoppedIsLost`, `ImportsAreTruthful` | `[]StoppedImportsAreKept` and `ImportsTellTheTruth`, both if `BriefDowntime` |
| | `ResolutionInvariance`, `RequestsAreServed` | `[]ResolutionIInv`, `ResolutionsAreSound` |
| | `AccountsInvariance`, `AccountsKeepTheirPromises` | `[]AccountsIInv`, `AccountsAreSound` |
| `StorageProofs` | `MigrationsInvariance`, `UpgradesAreSafe` | `[]MigrationsIInv`, `UpgradesAreSound` |
| | `ArtworkInvariance`, `SharedCovers` | `[]ArtworkIInv`, `CoversAreShared` |
| `ProcessProofs` | `ProcessInvariance`, `OrderlyEnd` | `[]ProcessIInv`, `EndIsOrderly` |
| `ProviderProofs` | `ClientInvariance`, `IndependentCallers` | `[]ClientIInv`, `CallersAreIndependent` |
| | `QuietWindow` | the action property `WindowIsQuiet` |
| | `SyncInvariance`, `RefusalsGiveUp` | `[]SyncIInv`, `GivenUpForGoodReason` |
| | `CooldownsHold`, `VisitsMoveOn` | the action properties `CooldownIsHonoured` and `VisitMovesOn`, the safety half of `DueQueueMoves` |
| `CatalogProofs` | `MergeInvariance`, `SoundSynchronizations` | `[]MergeIInv`, `SyncsAreSound` |
| | `ReaderInvariance`, `FaithfulObservations` | `[]ReaderIInv`, `[]ObservationIsFaithful` |

What makes each invariant inductive:

- **Admission.** `SentIsKept`: an alert was handed out once exactly if its delivery is kept as
  sent, and no way back into the queue takes a sent delivery. The realignment needs that a
  governing follow exists whenever some follow answers to an alert (`SomeFollowGoverns`): the ranks
  of the rules are compared first and the artists' numbers then, so one of them comes first.
  These lemmas take up most of the module, since every path to an alert ends in one of them.
- **Digest.** `RunsAreDated` (a run is of the day of the place it was made in) and
  `RowsHaveMailboxes` (a row's destination exists and is not younger than its run: deleting a
  destination takes its rows along, and what returns under its number is younger than every run,
  so no row may be left for it). The bound on silence is arithmetic on days. It
  depends on how far the zones are apart: with the look back of 26 hours, two days are
  enough for zones up to 22 hours apart. The extremes of the real zones, 26 hours apart, give
  three, and `SilenceIsBounded` states both.
- **Imports.** `HandlersWork`: a request has a job of its own which is processing and new, with
  a result for every row before the current one unless a row was lost; so a sweep or a recovery
  never takes the job of a running request. `UploadsAreRetained`: whatever is not complete has
  its upload, and a processing job is not older than the hour of grace and the time the process
  was down. The sweep spares what can be resumed but not what is processing, so the promise that
  a stopped import is kept rests on recovery coming first: `BriefDowntime` says that the process
  is down for less than the retention and that hour differ (30 days and 1 hour). Without it a
  job that a crash left processing is swept at the first maintenance after the restart, before
  it is recovered.
- **Resolution.** `PassIsAhead`: a pass has one copy of each row, and the row under the number of
  a copy it has yet to look up is not under review, even if the request was cancelled and the number
  used again. Hence neither a retry nor a follow of the pass touches what a member is asked to
  choose from. `IdentitiesAgree`: a link belongs to its identity, and no two artists have one iTunes
  profile, which the check inside the transaction of a follow keeps.
- **Accounts.** `HouseholdIsFounded`: before the first account there are no links and no
  requests that make one, so nobody joins an empty household; the last administrator cannot go,
  so it is never empty again. `OpenLinksAreUnused` ties an open link to the accounts it has
  made, `CredentialsHaveAccounts` every credential to an account that exists, which its number,
  free for use again after a deletion, would not say. What a request remembers of a password is
  left out of it: a session or a token belongs to the password that is current when it is written
  (`CredentialBegins`). `ThrottleIsEarned` compares the failures
  counted under a peer's own key with the wrong passwords that peer gave.
- **Migrations.** `StartsAgree`: starts that run at the same time are of one release, so what is
  recorded and what each has pending make up the same versions. `CopiedBeforeChanged`: while
  some start has something to apply, a whole copy is in place or that start is about to put
  one there; pruning keeps the newest and begins only when nothing is pending.
- **Artwork.** `InflightIsExact`: the map of calls in flight holds exactly the running fetches;
  slots are counted by the fetches that request.
- **Process.** `StagesInTime` says what each stage of the shutdown leaves behind if it ends within
  its budget; `SinkIsClosedLast` that the sink is closed after everybody who could still write;
  `CountedOnce` relates the counter of lost records to the loggers that met a full buffer.
- **ProviderClient.** `LeadersAreInFlight`: whoever is past the table of calls in flight is in
  it, so two callers with one key cannot both be; `GateIsHeld` and `WindowIsKnown`: the mutex is
  held from the look at the window to the request, and the window the client keeps is not shorter
  than the part it can mind of the one asked for.
- **ArtistSync.** `RefusalsAreCounted` compares the stored count with the refusals that happened;
  `WishesAreKept` says that a wish to be left alone, as far as the schedule minds it, is in the
  process's copy, and in the store whenever the process has none; `SpotifyIsAccountedFor` that a visit which
  leaves out Spotify's schedule was not due there. `VisitsMoveOn` rests on the last: every
  delay a visit leaves behind lies ahead.
- **ReleaseMerge.** `Coherent` is about what is stored between two records of a transaction, not
  only between transactions. `EvidenceIsOne`: a provider's id has one observation, of a row
  there is. `ClaimsAreShown`: a claimed row was shown as the release group that claims it and
  reads as that group, and no two rows have one. `MarksAreShown`: the mark of Spotify or iTunes
  on a row was put there by a record of theirs, so that a row without observations of a provider
  has no mark in the way. Each record keeps `Coherent`, hence a batch does; what a batch adds
  (`NewIsAnnounced`, `OldIsNoNews`, `MergesAgree`) is carried along from the first record to the
  last in the same way.
- **CatalogReader.** `StreamsAreRead`, `LookupIsRead` and `GroupsAreRead` say, for each stage of
  an observation, what the releases read so far have to do with the rows of the pages read so
  far; `BatchIsFaithful` says that whatever is normalized has every id, shows which are the
  artist's own, and has all credits or, where credits are optional and were not read, none. The
  last step merges what has one id, which neither loses a credit nor demotes an own release.

The models' loops are folds over sequences of any length. Two facts make them accessible to
provers that have no induction over data. A set of numbers that is not empty has a least element
(`LeastThereIs`, from the well-foundedness of the naturals), so what holds of 0 and of the next
one holds up to any bound (`CountingUp`). And the function by which `FoldLeft` is defined exists
(`FoldExists`), so a fold is a sequence of intermediate results, each made of the one before
(`SaveFold`, `NormalizeFold`, ...). `AlongTheWay` combines the two: what one step keeps, the
fold keeps.

The assumptions on constants are those the modules state: sets of artists, loggers and the like
are finite where they are counted, limits are positive, `MusicBrainzDelay` and the windows have
a longest value, because the code's waits are bounded by constants (`LongestCooldown` and
`LongestWindow` are the clamps, and nothing is assumed of the windows providers ask for), and the main goroutine is
neither a request nor a task; the numbers of requests are 1 to some number, the last delay of a
retry is the longest, `Nothing` is none of the records it stands beside (`NothingIsNoRow`), and
the key of an account is no client's. Of what providers show, it is assumed that each field has
its type, that a date of month precision is the first of its month, and that the total a
provider announces is not less than the rows it has; a batch holds each id of a provider once,
as normalization leaves it, and only records of iTunes are followed by those of another
provider. Nothing is assumed of how many members, rows, processes, callers or files there are.

Model-checked only:

- the liveness properties (`QueuesMoveOn`, `EveryRequestSettles`, `ShutdownEnds`,
  `QueuedWorkIsSeen`, `CallsReturn`, the second half of `DueQueueMoves`): the prover does not
  reason about fairness or ENABLED;
- the properties the code violates.

## Not modelled

- **Absolute time.** Stored times are kept as the time left, so clock corrections
  (`RepairClockSkewedDeliveries`) and calendar arithmetic other than the digest's periods are
  out. Weekly digests follow the daily ones.
- **Alternatives of one row.** Inbox marks, ownership marks, profiles, coverage, the timeline and
  status reports are single updates or reads of what other modules keep.
- **Backfills** of genres, popularity and artwork references: each stores one value once. Only the
  request of the first is modelled (`BackfillGenres`), because it looks at no cooldown.
- **Data.** The parsing of provider answers below the level of a row (dates, titles, types,
  images), formats of messages, feeds and files, configuration, cryptography, address checks,
  metrics, rendering. They keep no state between calls.
- **The database itself.** The retry of a busy writer and the statements of single migrations
  are below a step of the models.
- **Overlapping slow processes.** Two processes whose batches outlast their leases can take rows
  from each other for ever; only their safety is checked.
- **The general request rate limit** (`web/ratelimit.go`) and the pacing of a destination delay one
  caller and protect nothing stored.

## Plan

- The lost hold and the unaligned follows of `Admission` as properties of their own; the attempt
  audit of `Delivery`.
