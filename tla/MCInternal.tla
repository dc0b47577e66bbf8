----------------------------- MODULE MCInternal -----------------------------
(***************************************************************************)
(* The two structures inside the tracer, the ring of its storage and the   *)
(* broker of its subscribers, checked side by side: they do not call each  *)
(* other, so a behaviour exercises one and leaves the other as it starts.  *)
(***************************************************************************)
EXTENDS Ring, Broker

CONSTANTS a, b, e1, e2, n1, n2, r1, r2

VARIABLE part

internalVars == <<part, ringVars, vars>>

MCSizes == -1..3

InternalInit ==
  /\ part \in {"ring", "broker"}
  /\ IF part = "ring" THEN RingInit ELSE New(0)
  /\ Init

InternalNext ==
  /\ \/ part = "ring" /\ RingNext /\ UNCHANGED vars
     \/ part = "broker" /\ Next /\ UNCHANGED ringVars
  /\ UNCHANGED part

InternalSpec == InternalInit /\ [][InternalNext]_internalVars /\ Fairness
=============================================================================
