-------------------------- MODULE MCTraceRecording --------------------------
(* Model values and bounds for checking TraceRecording. *)
EXTENDS TraceRecording

CONSTANTS t1, t2, c1

(* Goroutines differ in nothing but what they happen to do. *)
ThreadSymmetry == Permutations(Threads)
=============================================================================
