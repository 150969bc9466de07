---------------------------- MODULE MCReadiness ----------------------------
(* Small instances of Readiness for TLC. *)
EXTENDS Readiness, TLC

CONSTANTS r1, r2, db, cache

OneChecker  == <<db>>
TwoCheckers == <<db, cache>>

Symmetry == Permutations(Requests)
=============================================================================
