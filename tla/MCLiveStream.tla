---------------------------- MODULE MCLiveStream ----------------------------
(* Model values for checking LiveStream. *)
EXTENDS LiveStream

CONSTANTS q1, q2, j1, s1, h1, bg
=============================================================================
