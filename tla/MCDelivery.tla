----------------------------- MODULE MCDelivery -----------------------------
(***************************************************************************)
(* Small instances of Delivery for TLC. Each configuration picks the rows, *)
(* destinations and disturbances its question is about.                    *)
(***************************************************************************)
EXTENDS Delivery, TLC

CONSTANTS x1, x2, x3, e1, e2, g1, d1, d2, u1, u2, f1, p1, p2

\* Two events, or an event and a digest, for one destination.
OneDestination == [x \in Rows |-> d1]
TwoEvents      == x1 :> e1 @@ x2 :> e2
OneEvent       == [x \in Rows |-> e1]
EventAndDigest == x1 :> e1 @@ x2 :> g1
\* A member with two events, a second member with a digest.
CrowdDestinations == x1 :> d1 @@ x2 :> d1 @@ x3 :> d2
CrowdGroups       == x1 :> e1 @@ x2 :> e2 @@ x3 :> g1

OneMember  == [d \in Dests |-> u1]
TwoMembers == d1 :> u1 @@ d2 :> u2
OneFollow  == [e \in Events |-> f1]

\* The n-th delay grows with n, as 2^n minutes do.
GrowingBackoff == [n \in 1..MaxAttempts |-> n]
=============================================================================
