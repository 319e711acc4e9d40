---------------------------- MODULE MCAdmission ----------------------------
(***************************************************************************)
(* Small instances of Admission for TLC.                                   *)
(***************************************************************************)
EXTENDS Admission, TLC

CONSTANTS m1, m2

\* Account preferences: all moments, with the guard on, or on and off.
Guarded == {[types |-> TRUE, moments |-> Kinds, holds |-> TRUE]}
OnOff   == Guarded \cup {[types |-> TRUE, moments |-> Kinds, holds |-> FALSE]}
=============================================================================
