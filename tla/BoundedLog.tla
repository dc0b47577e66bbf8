----------------------------- MODULE BoundedLog -----------------------------
(***************************************************************************)
(* What trace retention promises, without saying how: the storage behind a *)
(* tracer is the sequence of the newest limit saved entries, newest first. *)
(* The limit is fixed when the storage is made and zero retains nothing.   *)
(* Ring implements it; Tracer retains what it records in it.               *)
(***************************************************************************)
EXTENDS Integers, Sequences, Retention

CONSTANT Entries    \* what a save retains: the clone of a completed trace

VARIABLES
  limit,            \* the retention limit, fixed when the storage is made
  log               \* the retained entries, newest first

vars == <<limit, log>>

Init ==
  /\ limit \in Nat
  /\ log = << >>

Save(e) ==
  /\ log' = Saved(log, e, limit)
  /\ limit' = limit

Clear ==
  /\ log' = << >>
  /\ limit' = limit

Next ==
  \/ \E e \in Entries : Save(e)
  \/ Clear

Spec == Init /\ [][Next]_vars
=============================================================================
