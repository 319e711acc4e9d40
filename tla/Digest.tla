------------------------------- MODULE Digest -------------------------------
(***************************************************************************)
(* The digest of one member: on each local day, once the member's reminder *)
(* has passed, a sweep looks for the run of that day.  If there is none, a *)
(* later transaction looks again and makes it together with its            *)
(* deliveries; of a run that has neither deliveries nor an outcome it      *)
(* makes the deliveries.                                                   *)
(* Meanwhile the member may move to another timezone and edit destinations, *)
(* and a second sweep may be at the same point.                            *)
(*                                                                         *)
(* The frequency is daily.  Time is counted in parts of a day, a local day *)
(* is named by its number.                                                 *)
(***************************************************************************)
EXTENDS Integers, Sequences, FiniteSets

CONSTANTS
  Zones, Offset,  \* timezones, and how far each is ahead of UTC
  Reminder,       \* the part of the local day at which the digest is due
  DayParts,       \* the parts of a day
  Lookback,       \* periodLookback: 26 hours
  Sweepers, Mailboxes,
  Instants,       \* the times at which something may happen
  MaxMoves, MaxEdits    \* how often the member moves and edits destinations

ASSUME DigestAssumption ==
  /\ {DayParts, Lookback, MaxMoves, MaxEdits} \cup Instants \subseteq Nat
  /\ DayParts > 0 /\ Reminder \in 0 .. DayParts - 1 /\ Offset \in [Zones -> Int]

VARIABLES
  clock, zone, moves, edits,
  mailboxes,  \* destinations: when each was added
  runs,       \* release_digest_runs and their deliveries
  looked      \* the sweeps between the look and the write

digestVars == <<clock, zone, moves, edits, mailboxes, runs, looked>>

NoMailbox == 0 - 1
Idle == [at |-> 0 - 1, zone |-> "none"]

DigestInit ==
  /\ clock \in {t \in Instants : \A u \in Instants : t <= u}
  /\ zone \in Zones /\ moves = 0 /\ edits = 0 /\ runs = << >>
  /\ mailboxes \in [Mailboxes -> {NoMailbox, 0}]
  /\ looked = [s \in Sweepers |-> Idle]

LocalDay(t, z) == (t + Offset[z]) \div DayParts
LocalPart(t, z) == (t + Offset[z]) % DayParts
DayStart(day, z) == day * DayParts - Offset[z]

-----------------------------------------------------------------------------
(* The run of the period at time t, for a member in zone z.                *)

\* The run of this day, whatever its zone, or one of another zone that was made
\* around this day and is not of the day before.
CoversAnyTime(run, t, z) ==
  LET day == LocalDay(t, z) IN
  run.day = day \/ (run.zone # z /\ run.day # day - 1)

Covers(run, t, z) ==
  LET day   == LocalDay(t, z)
      start == DayStart(day, z)
  IN  \/ run.day = day
      \/ /\ run.zone # z /\ run.day # day - 1
         /\ run.made >= start - Lookback /\ run.made < start + DayParts + Lookback

\* digestRunLookup: the latest of them.
FoundRun(t, z) ==
  LET covering == {i \in DOMAIN runs : Covers(runs[i], t, z)}
  IN  {i \in covering : \A j \in covering :
         runs[j].made < runs[i].made \/ (runs[j].made = runs[i].made /\ j <= i)}

\* A run with an outcome, or one whose deliveries are queued.
Decided(run) == run.status # "pending" \/ run.rows # {}

PeriodSettled(t, z) == \E i \in FoundRun(t, z) : Decided(runs[i])

IsDue(t, z) == LocalPart(t, z) >= Reminder

-----------------------------------------------------------------------------
(* The sweep.                                                              *)

\* digestPeriodSettled and the scan; nothing is built for a settled period or
\* from no releases.
LookForRun(s) ==
  /\ looked[s] = Idle /\ IsDue(clock, zone) /\ ~PeriodSettled(clock, zone)
  /\ looked' = [looked EXCEPT ![s] = [at |-> clock, zone |-> zone]]
  /\ UNCHANGED <<clock, zone, moves, edits, mailboxes, runs>>

AttachedLate(made) == {[to |-> d, open |-> TRUE] : d \in {m \in Mailboxes : mailboxes[m] # NoMailbox}}

\* The destinations that are not younger than the run.
Attached(made) ==
  {[to |-> d, open |-> TRUE] : d \in
     {m \in Mailboxes : mailboxes[m] # NoMailbox /\ mailboxes[m] <= made}}

\* The transaction looks again: no run gets deliveries twice, or after its outcome.
AdmitRun(t, z) ==
  LET found == FoundRun(t, z) IN
  IF found = {}
  THEN Append(runs, [day |-> LocalDay(t, z), zone |-> z, made |-> t,
                     status |-> "pending", rows |-> Attached(t)])
  ELSE LET i == CHOOSE x \in found : TRUE IN
       IF Decided(runs[i]) THEN runs ELSE [runs EXCEPT ![i].rows = Attached(runs[i].made)]

\* The sweep goes on with the time and the zone it started with.
QueueRun(s) ==
  /\ looked[s] # Idle
  /\ runs' = AdmitRun(looked[s].at, looked[s].zone)
  /\ looked' = [looked EXCEPT ![s] = Idle]
  /\ UNCHANGED <<clock, zone, moves, edits, mailboxes>>

\* There is nothing to tell, or the pass ends early.
GiveUpSweep(s) ==
  /\ looked[s] # Idle /\ looked' = [looked EXCEPT ![s] = Idle]
  /\ UNCHANGED <<clock, zone, moves, edits, mailboxes, runs>>

-----------------------------------------------------------------------------
(* Deliveries, the member and time.                                        *)

\* The last delivery to end gives the run its outcome.
DeliverDigest(i, d) ==
  /\ [to |-> d, open |-> TRUE] \in runs[i].rows
  /\ LET rows == (runs[i].rows \ {[to |-> d, open |-> TRUE]}) \cup {[to |-> d, open |-> FALSE]}
     IN  runs' = [runs EXCEPT ![i] =
                    [@ EXCEPT !.rows = rows,
                              !.status = IF \E r \in rows : r.open THEN runs[i].status ELSE "sent"]]
  /\ UNCHANGED <<clock, zone, moves, edits, mailboxes, looked>>

Edit == edits < MaxEdits /\ edits' = edits + 1

AddMailbox(d) ==
  /\ Edit /\ mailboxes[d] = NoMailbox
  /\ mailboxes' = [mailboxes EXCEPT ![d] = clock]
  /\ UNCHANGED <<clock, zone, moves, runs, looked>>

\* DeleteDestination: its deliveries go with it, the runs stay as they are.
DeleteMailbox(d) ==
  /\ Edit /\ mailboxes[d] # NoMailbox
  /\ mailboxes' = [mailboxes EXCEPT ![d] = NoMailbox]
  /\ runs' = [i \in DOMAIN runs |-> [runs[i] EXCEPT !.rows = {r \in runs[i].rows : r.to # d}]]
  /\ UNCHANGED <<clock, zone, moves, looked>>

MoveTo(z) ==
  /\ moves < MaxMoves /\ z # zone /\ zone' = z /\ moves' = moves + 1
  /\ UNCHANGED <<clock, edits, mailboxes, runs, looked>>

\* Time goes on to the next instant; a pass does not outlast it.
DayPasses ==
  /\ \A s \in Sweepers : looked[s] = Idle
  /\ \E t \in Instants : /\ clock < t /\ \A u \in Instants : clock < u => t <= u
                         /\ clock' = t
  /\ UNCHANGED <<zone, moves, edits, mailboxes, runs, looked>>

DigestNext ==
  \/ \E s \in Sweepers : LookForRun(s) \/ QueueRun(s) \/ GiveUpSweep(s)
  \/ \E i \in DOMAIN runs, d \in Mailboxes : DeliverDigest(i, d)
  \/ \E d \in Mailboxes : AddMailbox(d) \/ DeleteMailbox(d)
  \/ \E z \in Zones : MoveTo(z)
  \/ DayPasses

DigestSpec == DigestInit /\ [][DigestNext]_digestVars

-----------------------------------------------------------------------------
(* Properties.                                                             *)

\* A destination gets no digest from before it was added, not even of a run that
\* lost its destinations and is offered to the new ones at every later sweep.
NoBackfill ==
  \A i \in DOMAIN runs : \A r \in runs[i].rows : mailboxes[r.to] <= runs[i].made

\* The run because of which a sweep makes none on a due day is of that day or at
\* most so many days older.
SilentAtMost(days) ==
  IsDue(clock, zone) => \A i \in FoundRun(clock, zone) : runs[i].day >= LocalDay(clock, zone) - days

\* A member who moves is not silenced for long: two days at most.
SilenceIsShort == SilentAtMost(2)

DigestIsDue == NoBackfill /\ SilenceIsShort

\* What the comment of digestRunLookup says of a member who moves: one digest
\* more, never one fewer.  A sweep makes no run on a due day only because there
\* is one of that day or a later one.
NeverOneFewer == SilentAtMost(0)

-----------------------------------------------------------------------------
(* What they rest on.                                                      *)

DigestRows == [to : Mailboxes, open : BOOLEAN]
Runs == [day : Int, zone : Zones, made : Nat, status : {"pending", "sent"}, rows : SUBSET DigestRows]

DigestTyped ==
  /\ clock \in Nat /\ zone \in Zones /\ mailboxes \in [Mailboxes -> Nat \cup {NoMailbox}]
  /\ looked \in [Sweepers -> {Idle} \cup [at : Nat, zone : Zones]]
  /\ runs \in Seq(Runs)

\* A run is of the day on which it was made, where it was made.
RunsAreDated == \A i \in DOMAIN runs : runs[i].day = LocalDay(runs[i].made, runs[i].zone)

\* A row goes to a destination that still exists and is not younger than its run.
RowsHaveMailboxes ==
  \A i \in DOMAIN runs : \A r \in runs[i].rows :
    mailboxes[r.to] # NoMailbox /\ mailboxes[r.to] <= runs[i].made

DigestIInv == DigestTyped /\ RunsAreDated /\ RowsHaveMailboxes

\* No two zones are further apart than so many days, with the time on both sides
\* of a period in which a run of another zone stands for it.
ZonesWithin(days) ==
  \A y, z \in Zones : Lookback + Offset[z] - Offset[y] <= days * DayParts
=============================================================================
