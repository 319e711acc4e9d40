---------------------------- MODULE MCManualSync ----------------------------
(***************************************************************************)
(* Small instances of ManualSync for TLC.                                  *)
(***************************************************************************)
EXTENDS ManualSync, TLC

CONSTANTS m1, m2, a1, a2, p1, p2

\* Members and processes are interchangeable in the safety runs.
Symmetry == Permutations({m1, m2}) \cup Permutations({p1, p2}) \cup Permutations({a1, a2})
=============================================================================
