----------------------------- MODULE Retention ------------------------------
(* What saving does to a retained log, newest entry first, what a loop     *)
(* over a list keeps of it, and how the pages sort one.                    *)
EXTENDS Integers, Sequences, FiniteSets

Smaller(m, n) == IF m < n THEN m ELSE n

(* The newest n entries of s. *)
Newest(s, n) == SubSeq(s, 1, Smaller(Len(s), n))

(* The log after e is saved: e is the newest, and the oldest goes when n   *)
(* entries are retained already.                                           *)
Saved(s, e, n) == Newest(<<e>> \o s, n)

(* The entries of s that are in S, in their order: a loop that appends.    *)
Sifted(s, S) ==
  LET Sift[k \in 0..Len(s)] ==
        IF k = 0 THEN <<>>
        ELSE IF s[k] \in S THEN Append(Sift[k - 1], s[k]) ELSE Sift[k - 1]
  IN Sift[Len(s)]

(* sort.SliceStable: an element's place is the number of those before it.  *)
StableSort(s, Less(_, _)) ==
  LET Before(j, i) == Less(s[j], s[i]) \/ (~Less(s[i], s[j]) /\ j < i)
      Place(i) == Cardinality({j \in DOMAIN s : Before(j, i)}) + 1
  IN [k \in DOMAIN s |-> s[CHOOSE i \in DOMAIN s : Place(i) = k]]
=============================================================================
