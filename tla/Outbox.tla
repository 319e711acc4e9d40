------------------------------- MODULE Outbox -------------------------------
(***************************************************************************)
(* What the delivery queues promise, without claims, schedules, circuits,  *)
(* processes or time: every message that is queued stays queued until the  *)
(* provider has taken it, its attempts are used up or it is removed; it is *)
(* taken once or more ("Delivery is at-least-once"); what was confirmed is *)
(* never queued again, and only what failed can be.                        *)
(***************************************************************************)
CONSTANT Messages

VARIABLES
  state, \* where the message is
  taken  \* the messages a provider has accepted at least once

boxVars == <<state, taken>>

Settled == {"sent", "failed", "gone"}
BoxTypeOK == /\ state \in [Messages -> {"absent", "open"} \cup Settled]
             /\ taken \subseteq Messages

BoxInit == /\ state \in [Messages -> {"absent", "open"}]
           /\ taken = {}

Moved(S, from, to) ==
  /\ \A m \in S : state[m] \in from
  /\ state' = [m \in Messages |-> IF m \in S THEN to ELSE state[m]]
  /\ UNCHANGED taken

\* An event fans out; messages to a destination that is gone never exist.
Enqueue(S, dropped) ==
  /\ \A m \in S \cup dropped : state[m] = "absent"
  /\ state' = [m \in Messages |-> IF m \in S THEN "open"
                                  ELSE IF m \in dropped THEN "gone" ELSE state[m]]
  /\ UNCHANGED taken

\* A provider accepts messages, even late: after a removal, or once more.
HandOver(S) ==
  /\ \A m \in S : state[m] # "absent"
  /\ taken' = taken \cup S
  /\ UNCHANGED state

Confirm(m) == m \in taken /\ Moved({m}, {"open"}, "sent")
GiveUp(m)  == Moved({m}, {"open"}, "failed")
Reopen(S)  == Moved(S, {"failed"}, "open")
Remove(S)  == Moved(S, {"open"} \cup Settled, "gone")

BoxNext ==
  \/ \E S, dropped \in SUBSET Messages : Enqueue(S, dropped)
  \/ \E S \in SUBSET Messages : HandOver(S) \/ Reopen(S) \/ Remove(S)
  \/ \E m \in Messages : Confirm(m) \/ GiveUp(m)

BoxSpec == BoxInit /\ [][BoxNext]_boxVars
=============================================================================
