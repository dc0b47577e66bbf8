----------------------------- MODULE MCServing -----------------------------
(* Model values, bounds and symmetry for checking Serving. *)
EXTENDS Serving, TLC

CONSTANTS q1, j1, j2, b1, b2

(* Boxes differ in nothing but what they hold.                             *)
Symmetry == Permutations(Boxes)
=============================================================================
