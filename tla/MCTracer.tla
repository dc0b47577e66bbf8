------------------------------ MODULE MCTracer ------------------------------
(* Model values, bounds and symmetry for checking Tracer. *)
EXTENDS Tracer, TLC

CONSTANTS q1, q2, j1, r1, s1, c1, h1, bg

(* Requests are interchangeable: which one takes which step is not told    *)
(* apart by a safety property.                                             *)
RequestSymmetry == Permutations(Requests)
=============================================================================
