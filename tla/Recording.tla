----------------------------- MODULE Recording ------------------------------
(***************************************************************************)
(* What recording promises, without locks, IDs, readers or notifications:  *)
(* a unit of work that is sampled is counted once when it starts, finishes *)
(* once, is offered to the storage once and only then, and is retained as  *)
(* its own trace. Reset empties the storage and the counters on their own, *)
(* and takes no unit out of its course. Tracer implements it.              *)
(***************************************************************************)
EXTENDS Integers, Sequences, Retention

CONSTANTS
  Units,            \* what is recorded, each one trace
  Entries,          \* what is retained of a trace; e.of is its unit
  limit,            \* the retention limit
  mayLose           \* whether the storage can refuse a trace

VARIABLES
  stage,            \* how far each unit is
  sampled, failed,  \* units started and failed since the counters were reset
  kept              \* what is retained, newest first

vars == <<stage, sampled, failed, kept>>

Moves(w, from, to) == stage[w] = from /\ stage' = [stage EXCEPT ![w] = to]

Init ==
  /\ stage = [w \in Units |-> "new"]
  /\ sampled = 0 /\ failed = 0
  /\ kept = << >>

Start(w) ==
  /\ Moves(w, "new", "inFlight")
  /\ sampled' = sampled + 1
  /\ UNCHANGED <<failed, kept>>

Finish(w) ==
  /\ Moves(w, "inFlight", "finished")
  /\ failed' \in {failed, failed + 1}
  /\ UNCHANGED <<sampled, kept>>

Keep(w) ==
  /\ Moves(w, "finished", "over")
  /\ \/ \E e \in Entries : e.of = w /\ kept' = Saved(kept, e, limit)
     \/ mayLose /\ UNCHANGED kept
  /\ UNCHANGED <<sampled, failed>>

DropKept == kept' = << >> /\ UNCHANGED <<stage, sampled, failed>>

DropCounts ==
  /\ sampled' = 0 /\ failed' = 0
  /\ UNCHANGED <<stage, kept>>

Next ==
  \/ \E w \in Units : Start(w) \/ Finish(w) \/ Keep(w)
  \/ DropKept \/ DropCounts

Spec == Init /\ [][Next]_vars
=============================================================================
