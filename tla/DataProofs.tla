----------------------------- MODULE DataProofs -----------------------------
(***************************************************************************)
(* Lemmas about the data the models are built from: the bounded log, and   *)
(* the sum of a function with finitely many arguments.                     *)
(***************************************************************************)
EXTENDS Retention, Functions, FiniteSetTheorems, WellFoundedInduction, TLAPS

(* A saved log holds the new entry first and the previous ones after it,   *)
(* up to the limit (storage/memory_storage.go:32-40).                      *)
LEMMA SavedEntries ==
  ASSUME NEW S, NEW s \in Seq(S), NEW e \in S, NEW n \in Nat
  PROVE  /\ Saved(s, e, n) \in Seq(S)
         /\ Len(Saved(s, e, n)) = Smaller(Len(s) + 1, n)
         /\ \A i \in 1..Len(Saved(s, e, n)) :
              Saved(s, e, n)[i] = IF i = 1 THEN e ELSE s[i - 1]
<1> DEFINE t == <<e>> \o s
           m == Smaller(Len(t), n)
<1>1. /\ t \in Seq(S)
      /\ Len(t) = Len(s) + 1
      /\ \A i \in 1..Len(t) : t[i] = IF i = 1 THEN e ELSE s[i - 1]
  OBVIOUS
<1>2. m \in 0..Len(t)
  BY <1>1 DEF Smaller
<1> HIDE DEF t
<1>3. /\ SubSeq(t, 1, m) \in Seq(S)
      /\ Len(SubSeq(t, 1, m)) = m
      /\ \A i \in 1..m : SubSeq(t, 1, m)[i] = t[i]
  BY <1>1, <1>2
<1>4. Saved(s, e, n) = SubSeq(t, 1, m)
  BY DEF Saved, Newest, t
<1> QED
  BY <1>1, <1>2, <1>3, <1>4

(* A set of natural numbers has a least one.                               *)
LEMMA LeastNumber ==
  ASSUME NEW S \in SUBSET Nat, S # {}
  PROVE  \E x \in S : \A y \in S : x <= y
<1>1. PICK x \in S : \A y \in S : ~(<<y, x>> \in OpToRel(<, Nat))
  BY NatLessThanWellFounded, WFMin, Zenon
<1>2. \A y \in S : ~(y < x)
  BY <1>1 DEF OpToRel
<1> QED
  BY <1>2

(* What holds of zero, and of each number after one it holds of, holds up  *)
(* to n.                                                                   *)
LEMMA UpTo ==
  ASSUME NEW n \in Nat, NEW Good, 0 \in Good,
         \A k \in 0..(n - 1) : k \in Good => k + 1 \in Good
  PROVE  \A k \in 0..n : k \in Good
<1> DEFINE Bad == {k \in 0..n : k \notin Good}
<1> SUFFICES ASSUME Bad # {} PROVE FALSE
  OBVIOUS
<1>1. PICK k \in Bad : \A j \in Bad : k <= j
  <2>1. Bad \in SUBSET Nat
    OBVIOUS
  <2> HIDE DEF Bad
  <2> QED
    BY <2>1, LeastNumber
<1>2. k \in 0..n /\ k # 0 /\ k \notin Good
  BY <1>1
<1>3. k - 1 \in 0..(n - 1) /\ k - 1 \notin Bad
  BY <1>1, <1>2
<1>4. (k - 1) + 1 \in Good
  BY <1>2, <1>3
<1> QED
  BY <1>2, <1>4

-----------------------------------------------------------------------------
(* A list filtered by a loop. g is what the loop has kept of the first k.  *)
IsSift(g, s, S, n) ==
  g = [k \in 0..n |->
         IF k = 0 THEN <<>>
         ELSE IF s[k] \in S THEN Append(g[k - 1], s[k]) ELSE g[k - 1]]

LEMMA SiftExists ==
  ASSUME NEW s, NEW S, NEW n \in Nat
  PROVE  \E g : IsSift(g, s, S, n)
<1> DEFINE Good == {m \in 0..n : \E g : IsSift(g, s, S, m)}
<1>1. 0 \in Good
  <2> DEFINE g == [k \in 0..0 |-> <<>>]
  <2>1. IsSift(g, s, S, 0)
    BY DEF IsSift
  <2> QED
    BY <2>1
<1>2. ASSUME NEW m \in 0..(n - 1), m \in Good
      PROVE  m + 1 \in Good
  <2>1. PICK g : IsSift(g, s, S, m)
    BY <1>2
  <2> DEFINE last == IF s[m + 1] \in S THEN Append(g[m], s[m + 1]) ELSE g[m]
             h == [k \in 0..(m + 1) |-> IF k = m + 1 THEN last ELSE g[k]]
             e(k) == IF k = 0 THEN <<>>
                     ELSE IF s[k] \in S THEN Append(h[k - 1], s[k]) ELSE h[k - 1]
  <2>2. ASSUME NEW k \in 0..(m + 1)
        PROVE  h[k] = e(k)
    <3>1. CASE k = m + 1
      <4>1. k # 0 /\ k - 1 = m /\ m \in 0..(m + 1) /\ m # m + 1 /\ h[m] = g[m]
        BY <3>1
      <4> QED
        BY <3>1, <4>1
    <3>2. CASE k = 0
      <4>1. k # m + 1 /\ k \in 0..m
        BY <3>2
      <4>2. g[k] = <<>>
        BY <2>1, <3>2, <4>1 DEF IsSift
      <4> QED
        BY <3>2, <4>1, <4>2
    <3>3. CASE k # m + 1 /\ k # 0
      <4>1. k \in 0..m /\ k - 1 \in 0..(m + 1) /\ k - 1 # m + 1
        BY <3>3
      <4>2. g[k] = IF s[k] \in S THEN Append(g[k - 1], s[k]) ELSE g[k - 1]
        BY <2>1, <3>3, <4>1 DEF IsSift
      <4>3. h[k - 1] = g[k - 1] /\ h[k] = g[k]
        BY <3>3, <4>1
      <4> QED
        BY <3>3, <4>2, <4>3
    <3> QED
      BY <3>1, <3>2, <3>3
  <2>3. h = [k \in 0..(m + 1) |-> h[k]]
    OBVIOUS
  <2>4. IsSift(h, s, S, m + 1)
    <3> HIDE DEF h, last
    <3> QED
      BY <2>2, <2>3 DEF IsSift
  <2>5. m + 1 \in 0..n
    OBVIOUS
  <2> QED
    BY <2>4, <2>5
<1> HIDE DEF Good
<1>3. \A m \in 0..n : m \in Good
  BY <1>1, <1>2, UpTo
<1>4. n \in Good
  BY <1>3
<1> QED
  BY <1>4 DEF Good

(* What is kept is what the loop has kept at the end. *)
LEMMA KeptIs ==
  ASSUME NEW s, NEW S, Len(s) \in Nat
  PROVE  \E g : /\ Sifted(s, S) = g[Len(s)]
                /\ g[0] = <<>>
                /\ \A k \in 1..Len(s) :
                     g[k] = IF s[k] \in S THEN Append(g[k - 1], s[k]) ELSE g[k - 1]
<1> DEFINE g == CHOOSE h : IsSift(h, s, S, Len(s))
<1>1. IsSift(g, s, S, Len(s))
  BY SiftExists
<1>2. Sifted(s, S) = g[Len(s)]
  BY DEF Sifted, IsSift
<1> HIDE DEF g
<1>3. g[0] = <<>> /\ \A k \in 1..Len(s) :
         g[k] = IF s[k] \in S THEN Append(g[k - 1], s[k]) ELSE g[k - 1]
  <2>1. \A k \in 0..Len(s) :
          g[k] = IF k = 0 THEN <<>>
                 ELSE IF s[k] \in S THEN Append(g[k - 1], s[k]) ELSE g[k - 1]
    BY <1>1 DEF IsSift
  <2>2. 0 \in 0..Len(s) /\ \A k \in 1..Len(s) : k \in 0..Len(s) /\ k # 0
    OBVIOUS
  <2> HIDE DEF g
  <2> QED
    BY <2>1, <2>2
<1> QED
  BY <1>2, <1>3

LEMMA AppendIs ==
  ASSUME NEW T, NEW s \in Seq(T), NEW e \in T
  PROVE  /\ Append(s, e) \in Seq(T)
         /\ Len(s) \in Nat
         /\ Len(Append(s, e)) = Len(s) + 1
         /\ \A i \in 1..Len(s) : Append(s, e)[i] = s[i]
         /\ Append(s, e)[Len(s) + 1] = e
OBVIOUS

LEMMA EmptyIs ==
  ASSUME NEW T
  PROVE  <<>> \in Seq(T) /\ Len(<<>>) = 0
OBVIOUS

(* How a save changes the number of entries kept: by the new one, and by   *)
(* the oldest when the log was full.                                       *)
LEMMA KeptSaved ==
  ASSUME NEW T, NEW s \in Seq(T), NEW e \in T, NEW S,
         NEW n \in Nat \ {0}, Len(s) <= n
  PROVE  /\ Len(Sifted(s, S)) \in Nat
         /\ Len(Sifted(Saved(s, e, n), S)) =
              Len(Sifted(s, S)) + (IF e \in S THEN 1 ELSE 0)
                - (IF Len(s) = n /\ s[n] \in S THEN 1 ELSE 0)
<1> DEFINE w == Saved(s, e, n)
           c == IF e \in S THEN 1 ELSE 0
<1>0. Len(s) \in Nat /\ \A k \in 1..Len(s) : s[k] \in T
  OBVIOUS
<1>1. /\ w \in Seq(T)
      /\ Len(w) = IF Len(s) = n THEN n ELSE Len(s) + 1
      /\ \A k \in 1..Len(w) : w[k] = IF k = 1 THEN e ELSE s[k - 1]
  <2>1. /\ w \in Seq(T)
        /\ Len(w) = Smaller(Len(s) + 1, n)
        /\ \A k \in 1..Len(w) : w[k] = IF k = 1 THEN e ELSE s[k - 1]
    BY SavedEntries
  <2> HIDE DEF w
  <2> QED
    BY <1>0, <2>1 DEF Smaller
<1>2. PICK g : /\ Sifted(s, S) = g[Len(s)]
               /\ g[0] = <<>>
               /\ \A k \in 1..Len(s) :
                    g[k] = IF s[k] \in S THEN Append(g[k - 1], s[k]) ELSE g[k - 1]
  BY <1>0, KeptIs
<1>3. PICK h : /\ Sifted(w, S) = h[Len(w)]
               /\ h[0] = <<>>
               /\ \A k \in 1..Len(w) :
                    h[k] = IF w[k] \in S THEN Append(h[k - 1], w[k]) ELSE h[k - 1]
  <2> HIDE DEF w
  <2> QED
    BY <1>1, KeptIs
<1> HIDE DEF w
<1> DEFINE Good == {k \in 0..Len(s) : g[k] \in Seq(T)}
<1>4. \A k \in 0..Len(s) : g[k] \in Seq(T)
  <2>1. 0 \in Good
    <3>1. 0 \in 0..Len(s)
      BY <1>0
    <3>2. g[0] \in Seq(T)
      BY <1>2, EmptyIs, Zenon
    <3> QED
      BY <3>1, <3>2
  <2>2. ASSUME NEW k \in 0..(Len(s) - 1), k \in Good
        PROVE  k + 1 \in Good
    <3>1. k + 1 \in 1..Len(s) /\ (k + 1) - 1 = k /\ s[k + 1] \in T /\ g[k] \in Seq(T)
      BY <1>0, <2>2
    <3>2. g[k + 1] = IF s[k + 1] \in S THEN Append(g[k], s[k + 1]) ELSE g[k]
      BY <1>2, <3>1
    <3>3. g[k + 1] \in Seq(T)
      BY <3>1, <3>2, AppendIs
    <3> QED
      BY <3>1, <3>3
  <2> HIDE DEF Good
  <2>3. \A k \in 0..Len(s) : k \in Good
    BY <1>0, <2>1, <2>2, UpTo
  <2> QED
    BY <2>3 DEF Good
<1> DEFINE m == Len(w) - 1
           Longer == {k \in 0..m : h[k + 1] \in Seq(T) /\ Len(h[k + 1]) = Len(g[k]) + c}
<1>5. m \in 0..Len(s) /\ m = IF Len(s) = n THEN n - 1 ELSE Len(s)
  BY <1>0, <1>1
<1>6. 0 \in Longer
  <2>1. 1 \in 1..Len(w) /\ w[1] = e /\ 0 \in 0..m
    BY <1>0, <1>1, <1>5
  <2>2. h[1] = IF e \in S THEN Append(h[0], e) ELSE h[0]
    <3>1. 1 - 1 = 0
      OBVIOUS
    <3> QED
      BY <1>3, <2>1, <3>1
  <2>3. h[0] \in Seq(T) /\ Len(h[0]) = 0 /\ Len(g[0]) = 0
    BY <1>2, <1>3, EmptyIs
  <2>4. h[1] \in Seq(T) /\ Len(h[1]) = c
    BY <2>2, <2>3, AppendIs
  <2>5. h[0 + 1] = h[1] /\ Len(h[1]) = Len(g[0]) + c
    BY <2>3, <2>4
  <2> QED
    BY <2>1, <2>4, <2>5
<1>7. ASSUME NEW k \in 0..(m - 1), k \in Longer
      PROVE  k + 1 \in Longer
  <2>1. /\ k + 1 \in 0..m /\ k + 1 \in 1..Len(s) /\ k \in 0..Len(s)
        /\ (k + 1) + 1 \in 1..Len(w) /\ (k + 1) + 1 # 1 /\ ((k + 1) + 1) - 1 = k + 1
        /\ (k + 1) - 1 = k
    BY <1>0, <1>1, <1>5
  <2>2. w[(k + 1) + 1] = s[k + 1] /\ s[k + 1] \in T
    BY <1>0, <1>1, <2>1
  <2>3. /\ h[(k + 1) + 1] = IF s[k + 1] \in S THEN Append(h[k + 1], s[k + 1]) ELSE h[k + 1]
        /\ g[k + 1] = IF s[k + 1] \in S THEN Append(g[k], s[k + 1]) ELSE g[k]
    BY <1>2, <1>3, <2>1, <2>2
  <2>4. h[k + 1] \in Seq(T) /\ g[k] \in Seq(T) /\ Len(h[k + 1]) = Len(g[k]) + c
    BY <1>4, <1>7, <2>1
  <2>5. h[(k + 1) + 1] \in Seq(T) /\ Len(h[(k + 1) + 1]) = Len(g[k + 1]) + c
    <3> HIDE DEF c
    <3>1. c \in Nat
      BY DEF c
    <3>2. CASE s[k + 1] \in S
      <4>1. /\ h[(k + 1) + 1] = Append(h[k + 1], s[k + 1])
            /\ g[k + 1] = Append(g[k], s[k + 1])
        BY <2>3, <3>2
      <4>2. /\ h[(k + 1) + 1] \in Seq(T)
            /\ Len(h[(k + 1) + 1]) = Len(h[k + 1]) + 1
            /\ Len(g[k + 1]) = Len(g[k]) + 1
            /\ Len(g[k]) \in Nat
        BY <2>2, <2>4, <4>1, AppendIs
      <4> QED
        BY <2>4, <3>1, <4>2
    <3>3. CASE s[k + 1] \notin S
      BY <2>3, <2>4, <3>3
    <3> QED
      BY <3>2, <3>3
  <2> QED
    BY <2>1, <2>5
<1>8. h[Len(w)] \in Seq(T) /\ Len(h[Len(w)]) = Len(g[m]) + c
  <2>1. m \in Nat /\ m + 1 = Len(w) /\ m \in 0..m
    BY <1>0, <1>1, <1>5
  <2> HIDE DEF Longer, m
  <2>2. \A k \in 0..m : k \in Longer
    BY <1>6, <1>7, <2>1, UpTo
  <2>3. m \in Longer
    BY <2>1, <2>2
  <2> QED
    BY <2>1, <2>3 DEF Longer
<1>9. CASE Len(s) # n
  <2>1. m = Len(s) /\ Len(s) \in 0..Len(s)
    BY <1>0, <1>5, <1>9
  <2>2. Len(Sifted(w, S)) = Len(g[Len(s)]) + c /\ g[Len(s)] \in Seq(T)
    BY <1>3, <1>4, <1>8, <2>1
  <2>3. Len(g[Len(s)]) \in Nat /\ c \in Nat
    BY <2>2
  <2> HIDE DEF c
  <2>4. /\ Len(Sifted(s, S)) \in Nat
        /\ Len(Sifted(w, S)) = Len(Sifted(s, S)) + c - 0
    BY <1>2, <2>2, <2>3
  <2> QED
    BY <1>9, <2>4 DEF w, c
<1>10. CASE Len(s) = n
  <2>1. n \in 1..Len(s) /\ s[n] \in T /\ n - 1 \in 0..Len(s)
    BY <1>0, <1>10
  <2>2. g[n] = IF s[n] \in S THEN Append(g[n - 1], s[n]) ELSE g[n - 1]
    BY <1>2, <2>1
  <2>3. g[n - 1] \in Seq(T) /\ Len(g[n]) = Len(g[n - 1]) + (IF s[n] \in S THEN 1 ELSE 0)
    <3>1. g[n - 1] \in Seq(T)
      BY <1>4, <2>1
    <3>2. Len(g[n - 1]) \in Nat
      BY <3>1
    <3>3. CASE s[n] \in S
      BY <2>1, <2>2, <3>1, <3>3, AppendIs
    <3>4. CASE s[n] \notin S
      BY <2>2, <3>1, <3>2, <3>4
    <3> QED
      BY <3>3, <3>4
  <2>4. Sifted(s, S) = g[n] /\ Len(Sifted(w, S)) = Len(g[n - 1]) + c
    BY <1>2, <1>3, <1>5, <1>8, <1>10
  <2>5. Len(g[n - 1]) \in Nat
    BY <2>3
  <2> HIDE DEF c
  <2>6. c \in Nat
    BY DEF c
  <2>7. /\ Len(Sifted(s, S)) \in Nat
        /\ Len(Sifted(w, S)) = Len(Sifted(s, S)) + c - (IF s[n] \in S THEN 1 ELSE 0)
    <3> DEFINE d == IF s[n] \in S THEN 1 ELSE 0
    <3>1. d \in Nat /\ Len(g[n]) = Len(g[n - 1]) + d
      BY <2>3
    <3> HIDE DEF d
    <3>2. Len(Sifted(s, S)) \in Nat /\ Len(Sifted(w, S)) = Len(Sifted(s, S)) + c - d
      BY <2>4, <2>5, <2>6, <3>1
    <3> QED
      BY <3>2 DEF d
  <2> QED
    BY <1>10, <2>7 DEF w, c
<1> QED
  BY <1>9, <1>10

(* q is what a loop kept of the first n of s, and h says where it found    *)
(* each.                                                                   *)
Chosen(q, h, s, S, n) ==
  /\ h \in [1..Len(q) -> 1..n]
  /\ \A j \in 1..Len(q) : q[j] = s[h[j]] /\ q[j] \in S
  /\ \A i, j \in 1..Len(q) : i < j => h[i] < h[j]
  /\ \A i \in 1..n : s[i] \in S => \E j \in 1..Len(q) : h[j] = i

LEMMA ChosenNext ==
  ASSUME NEW T, NEW q \in Seq(T), NEW h, NEW s, NEW S, NEW n \in Nat,
         Chosen(q, h, s, S, n), s[n + 1] \in T
  PROVE  \E f : Chosen(IF s[n + 1] \in S THEN Append(q, s[n + 1]) ELSE q, f, s, S, n + 1)
<1>1. CASE s[n + 1] \in S
  <2> DEFINE r == Append(q, s[n + 1])
             m == Len(q)
             f == [j \in 1..(m + 1) |-> IF j = m + 1 THEN n + 1 ELSE h[j]]
  <2>1. /\ m \in Nat /\ Len(r) = m + 1 /\ r[m + 1] = s[n + 1]
        /\ \A j \in 1..m : r[j] = q[j]
    BY AppendIs
  <2>2. \A j \in 1..m : h[j] \in 1..n /\ f[j] = h[j]
    BY <2>1 DEF Chosen
  <2>3. f[m + 1] = n + 1 /\ f = [j \in 1..(m + 1) |-> f[j]]
    BY <2>1
  <2> HIDE DEF f, r
  <2>4. f \in [1..(m + 1) -> 1..(n + 1)]
    <3>1. ASSUME NEW j \in 1..(m + 1)
          PROVE  f[j] \in 1..(n + 1)
      <4>1. CASE j = m + 1
        BY <2>3, <4>1
      <4>2. CASE j # m + 1
        <5>1. j \in 1..m /\ h[j] \in 1..n /\ f[j] = h[j]
          BY <2>1, <2>2, <4>2
        <5> QED
          BY <5>1
      <4> QED
        BY <4>1, <4>2
    <3> QED
      BY <2>3, <3>1
  <2>5. ASSUME NEW j \in 1..(m + 1)
        PROVE  r[j] = s[f[j]] /\ r[j] \in S
    <3>1. CASE j = m + 1
      BY <1>1, <2>1, <2>3, <3>1
    <3>2. CASE j # m + 1
      <4>1. j \in 1..m
        BY <2>1, <3>2
      <4>2. q[j] = s[h[j]] /\ q[j] \in S
        BY <4>1 DEF Chosen
      <4> QED
        BY <2>1, <2>2, <4>1, <4>2
    <3> QED
      BY <3>1, <3>2
  <2>6. \A i, j \in 1..(m + 1) : i < j => f[i] < f[j]
    <3> SUFFICES ASSUME NEW i \in 1..(m + 1), NEW j \in 1..(m + 1), i < j
                 PROVE  f[i] < f[j]
      OBVIOUS
    <3>1. i \in 1..m /\ h[i] \in 1..n
      <4>1. i \in 1..m
        BY <2>1
      <4> QED
        BY <2>2, <4>1
    <3>2. CASE j = m + 1
      <4>1. f[i] = h[i] /\ f[j] = n + 1
        <5>1. f[i] = h[i]
          BY <2>2, <3>1
        <5>2. f[j] = n + 1
          BY <2>3, <3>2
        <5> QED
          BY <5>1, <5>2
      <4>2. h[i] < n + 1
        BY <3>1
      <4> QED
        BY <4>1, <4>2
    <3>3. CASE j # m + 1
      <4>1. j \in 1..m
        BY <2>1, <3>3
      <4>2. h[i] < h[j]
        BY <3>1, <4>1 DEF Chosen
      <4> QED
        BY <2>2, <3>1, <4>1, <4>2
    <3> QED
      BY <3>2, <3>3
  <2>7. ASSUME NEW i \in 1..(n + 1), s[i] \in S
        PROVE  \E j \in 1..(m + 1) : f[j] = i
    <3>1. CASE i = n + 1
      BY <2>1, <2>3, <3>1
    <3>2. CASE i # n + 1
      <4>1. i \in 1..n
        BY <3>2
      <4>2. PICK j \in 1..m : h[j] = i
        BY <2>7, <4>1 DEF Chosen
      <4> QED
        BY <2>1, <2>2, <4>2
    <3> QED
      BY <3>1, <3>2
  <2>8. Chosen(r, f, s, S, n + 1)
    BY <2>1, <2>4, <2>5, <2>6, <2>7 DEF Chosen
  <2> QED
    BY <1>1, <2>8 DEF r
<1>2. CASE s[n + 1] \notin S
  <2>1. h \in [1..Len(q) -> 1..(n + 1)]
    <3>1. \A i \in 1..n : i \in 1..(n + 1)
      OBVIOUS
    <3> QED
      BY <3>1 DEF Chosen
  <2>2. \A i \in 1..(n + 1) : s[i] \in S => i \in 1..n
    BY <1>2
  <2>3. Chosen(q, h, s, S, n + 1)
    BY <2>1, <2>2 DEF Chosen
  <2> QED
    BY <1>2, <2>3
<1> QED
  BY <1>1, <1>2

(* What is kept is every entry in the set, in its order.                   *)
LEMMA KeptOrder ==
  ASSUME NEW T, NEW s \in Seq(T), NEW S
  PROVE  Sifted(s, S) \in Seq(T) /\ \E h : Chosen(Sifted(s, S), h, s, S, Len(s))
<1>0. Len(s) \in Nat /\ \A k \in 1..Len(s) : s[k] \in T
  OBVIOUS
<1>1. PICK g : /\ Sifted(s, S) = g[Len(s)]
               /\ g[0] = <<>>
               /\ \A k \in 1..Len(s) :
                    g[k] = IF s[k] \in S THEN Append(g[k - 1], s[k]) ELSE g[k - 1]
  BY <1>0, KeptIs
<1> DEFINE Good == {k \in 0..Len(s) : g[k] \in Seq(T) /\ \E h : Chosen(g[k], h, s, S, k)}
<1>2. 0 \in Good
  <2>1. 0 \in 0..Len(s) /\ g[0] \in Seq(T) /\ Len(g[0]) = 0
    BY <1>0, <1>1, EmptyIs
  <2> DEFINE h == [j \in 1..0 |-> 0]
  <2>2. h \in [1..0 -> 1..0]
    OBVIOUS
  <2>3. Chosen(g[0], h, s, S, 0)
    <3> HIDE DEF h
    <3> QED
      BY <2>1, <2>2 DEF Chosen
  <2> QED
    BY <2>1, <2>3
<1>3. ASSUME NEW k \in 0..(Len(s) - 1), k \in Good
      PROVE  k + 1 \in Good
  <2>1. k + 1 \in 1..Len(s) /\ (k + 1) - 1 = k /\ s[k + 1] \in T /\ k \in Nat
    BY <1>0
  <2>2. PICK h : g[k] \in Seq(T) /\ Chosen(g[k], h, s, S, k)
    BY <1>3
  <2>3. g[k + 1] = IF s[k + 1] \in S THEN Append(g[k], s[k + 1]) ELSE g[k]
    BY <1>1, <2>1
  <2>4. g[k + 1] \in Seq(T)
    BY <2>1, <2>2, <2>3, AppendIs
  <2>5. \E f : Chosen(g[k + 1], f, s, S, k + 1)
    BY <2>1, <2>2, <2>3, ChosenNext
  <2> QED
    BY <2>1, <2>4, <2>5
<1> HIDE DEF Good
<1>4. \A k \in 0..Len(s) : k \in Good
  BY <1>0, <1>2, <1>3, UpTo
<1>5. Len(s) \in Good
  BY <1>0, <1>4
<1> QED
  BY <1>1, <1>5 DEF Good

-----------------------------------------------------------------------------
(* A stable sort. B says what comes before an element, and the place of an *)
(* element is the number of those before it, and one.                      *)
IsOrder(B, F) ==
  /\ B \in [F -> SUBSET F]
  /\ \A x \in F : x \notin B[x]
  /\ \A x, y \in F : x \in B[y] => B[x] \subseteq B[y]
  /\ \A x, y \in F : x # y => x \in B[y] \/ y \in B[x]

Placed(B, F) == [k \in 1..Cardinality(F) |-> CHOOSE x \in F : Cardinality(B[x]) + 1 = k]

LEMMA Ranks ==
  ASSUME NEW F, IsFiniteSet(F), NEW B, IsOrder(B, F)
  PROVE  /\ \A x \in F : Cardinality(B[x]) \in Nat /\ Cardinality(B[x]) + 1 \in 1..Cardinality(F)
         /\ \A x, y \in F : x \in B[y] => Cardinality(B[x]) < Cardinality(B[y])
         /\ \A k \in 1..Cardinality(F) : \E x \in F : Cardinality(B[x]) + 1 = k
<1>0. Cardinality(F) \in Nat
  BY FS_CardinalityType
<1>1. ASSUME NEW x \in F
      PROVE  /\ IsFiniteSet(B[x]) /\ Cardinality(B[x]) \in Nat
             /\ Cardinality(B[x]) < Cardinality(F)
  <2>1. B[x] \in SUBSET F /\ B[x] # F
    BY DEF IsOrder
  <2>2. /\ IsFiniteSet(B[x]) /\ Cardinality(B[x]) <= Cardinality(F)
        /\ Cardinality(F) # Cardinality(B[x])
    BY <2>1, FS_Subset
  <2>3. Cardinality(B[x]) \in Nat
    BY <2>2, FS_CardinalityType
  <2> QED
    BY <1>0, <2>2, <2>3
<1>2. ASSUME NEW x \in F, NEW y \in F, x \in B[y]
      PROVE  Cardinality(B[x]) < Cardinality(B[y])
  <2>1. B[x] \in SUBSET B[y] /\ B[x] # B[y]
    BY <1>2 DEF IsOrder
  <2>2. Cardinality(B[x]) <= Cardinality(B[y]) /\ Cardinality(B[y]) # Cardinality(B[x])
    BY <1>1, <2>1, FS_Subset
  <2> QED
    BY <1>1, <2>2
<1> DEFINE n == Cardinality(F)
           rank == [x \in F |-> Cardinality(B[x]) + 1]
<1>3. rank \in Injection(F, 1..n)
  <2>1. rank \in [F -> 1..n]
    <3>1. \A x \in F : Cardinality(B[x]) + 1 \in 1..n
      BY <1>0, <1>1
    <3> QED
      BY <3>1
  <2>2. ASSUME NEW x \in F, NEW y \in F, rank[x] = rank[y]
        PROVE  x = y
    <3>1. Cardinality(B[x]) = Cardinality(B[y])
      BY <1>1, <2>2
    <3>2. x \notin B[y] /\ y \notin B[x]
      BY <1>1, <1>2, <3>1
    <3> QED
      BY <3>2 DEF IsOrder
  <2> HIDE DEF rank
  <2> QED
    BY <2>1, <2>2 DEF Injection, IsInjective
<1>4. IsFiniteSet(1..n) /\ Cardinality(1..n) = n
  BY <1>0, FS_Interval
<1>5. rank \in Surjection(F, 1..n)
  <2> HIDE DEF rank
  <2> QED
    BY <1>3, <1>4, FS_Injection
<1>6. \A k \in 1..n : \E x \in F : rank[x] = k
  <2> HIDE DEF rank
  <2> QED
    BY <1>5 DEF Surjection
<1>7. \A k \in 1..n : \E x \in F : Cardinality(B[x]) + 1 = k
  BY <1>6
<1> QED
  BY <1>0, <1>1, <1>2, <1>7

(* Every element has one place, after those that come before it.           *)
LEMMA PlacedInOrder ==
  ASSUME NEW F, IsFiniteSet(F), NEW B, IsOrder(B, F)
  PROVE  /\ Cardinality(F) \in Nat
         /\ Placed(B, F) \in [1..Cardinality(F) -> F]
         /\ \A x \in F : \E k \in 1..Cardinality(F) : Placed(B, F)[k] = x
         /\ \A k, l \in 1..Cardinality(F) : k < l => Placed(B, F)[k] \in B[Placed(B, F)[l]]
         /\ \A k, l \in 1..Cardinality(F) :
              Placed(B, F)[k] \in B[Placed(B, F)[l]] => k < l
         /\ \A k, l \in 1..Cardinality(F) : k # l => Placed(B, F)[k] # Placed(B, F)[l]
<1> DEFINE n == Cardinality(F)
           p == Placed(B, F)
<1>0. n \in Nat
  BY FS_CardinalityType
<1>1. ASSUME NEW k \in 1..n
      PROVE  p[k] \in F /\ Cardinality(B[p[k]]) + 1 = k /\ Cardinality(B[p[k]]) \in Nat
  <2>1. \E x \in F : Cardinality(B[x]) + 1 = k
    BY Ranks
  <2>2. p[k] = CHOOSE x \in F : Cardinality(B[x]) + 1 = k
    BY DEF Placed
  <2>3. p[k] \in F /\ Cardinality(B[p[k]]) + 1 = k
    BY <2>1, <2>2
  <2> QED
    BY <2>3, Ranks
<1>2. p = [k \in 1..n |-> p[k]]
  BY DEF Placed
<1> HIDE DEF p
<1>3. \A k, l \in 1..n : k # l => p[k] # p[l]
  BY <1>1
<1>4. ASSUME NEW x \in F
      PROVE  \E k \in 1..n : p[k] = x
  <2> DEFINE k == Cardinality(B[x]) + 1
  <2>1. k \in 1..n /\ Cardinality(B[x]) \in Nat
    BY Ranks
  <2>2. p[k] \in F /\ Cardinality(B[p[k]]) + 1 = k /\ Cardinality(B[p[k]]) \in Nat
    BY <1>1, <2>1
  <2>3. Cardinality(B[p[k]]) = Cardinality(B[x])
    BY <2>1, <2>2
  <2>4. p[k] \notin B[x] /\ x \notin B[p[k]]
    BY <2>1, <2>2, <2>3, Ranks
  <2>5. p[k] = x
    BY <2>2, <2>4 DEF IsOrder
  <2> QED
    BY <2>1, <2>5
<1>5. ASSUME NEW k \in 1..n, NEW l \in 1..n, p[k] \in B[p[l]]
      PROVE  k < l
  <2>1. Cardinality(B[p[k]]) < Cardinality(B[p[l]])
    BY <1>1, <1>5, Ranks
  <2> QED
    BY <1>1, <2>1
<1>6. ASSUME NEW k \in 1..n, NEW l \in 1..n, k < l
      PROVE  p[k] \in B[p[l]]
  <2>1. p[k] # p[l]
    BY <1>3, <1>6
  <2>2. p[l] \notin B[p[k]]
    BY <1>5, <1>6
  <2> QED
    BY <1>1, <2>1, <2>2 DEF IsOrder
<1>7. p \in [1..n -> F]
  BY <1>1, <1>2
<1> QED
  BY <1>0, <1>3, <1>4, <1>5, <1>6, <1>7 DEF p

(* The place of an element says how many come before it.                  *)
LEMMA RankIsOne ==
  ASSUME NEW F, IsFiniteSet(F), NEW B, IsOrder(B, F), NEW x \in F, NEW k,
         Cardinality(B[x]) + 1 = k
  PROVE  k \in 1..Cardinality(F) /\ Placed(B, F)[k] = x
<1>1. k \in 1..Cardinality(F)
  BY Ranks
<1> DEFINE y == Placed(B, F)[k]
<1>2. y = CHOOSE z \in F : Cardinality(B[z]) + 1 = k
  BY <1>1 DEF Placed
<1>3. y \in F /\ Cardinality(B[y]) + 1 = k
  BY <1>2
<1> HIDE DEF y
<1>4. Cardinality(B[x]) \in Nat /\ Cardinality(B[y]) \in Nat
  BY <1>3, Ranks
<1>5. Cardinality(B[x]) = Cardinality(B[y])
  BY <1>3, <1>4
<1>6. x \notin B[y] /\ y \notin B[x]
  BY <1>3, <1>4, <1>5, Ranks
<1>7. x = y
  BY <1>3, <1>6 DEF IsOrder
<1> QED
  BY <1>1, <1>7 DEF y

(* Numbers order the places of a list, those that tie as they stood.       *)
LEMMA RankOrder ==
  ASSUME NEW n \in Nat, NEW f, \A i \in 1..n : f[i] \in Int, NEW B,
         B = [i \in 1..n |-> {j \in 1..n : f[j] < f[i] \/ (f[j] = f[i] /\ j < i)}]
  PROVE  IsOrder(B, 1..n)
<1>1. \A i, j \in 1..n : j \in B[i] <=> f[j] < f[i] \/ (f[j] = f[i] /\ j < i)
  OBVIOUS
<1>2. B \in [1..n -> SUBSET (1..n)]
  OBVIOUS
<1>3. \A i \in 1..n : i \notin B[i]
  BY <1>1
<1>4. \A i, j \in 1..n : i # j => i \in B[j] \/ j \in B[i]
  BY <1>1
<1>5. ASSUME NEW i \in 1..n, NEW j \in 1..n, i \in B[j], NEW k \in B[i]
      PROVE  k \in B[j]
  <2>1. k \in 1..n
    BY <1>2
  <2> QED
    BY <1>1, <1>5, <2>1
<1> QED
  BY <1>2, <1>3, <1>4, <1>5 DEF IsOrder

-----------------------------------------------------------------------------
(* SumFunction takes the arguments away one at a time. Pick is the one it  *)
(* takes from a set of arguments, and IsSum says that g has the sum over   *)
(* every part of S.                                                        *)
Pick(U) == CHOOSE x \in U : TRUE

IsSum(g, f, S) ==
  g = [U \in SUBSET S |-> IF U = {} THEN 0
                          ELSE f[Pick(U)] + g[U \ {Pick(U)}]]

(* Among sets of parts of a finite set there is a smallest one. *)
LEMMA SmallestPart ==
  ASSUME NEW S, IsFiniteSet(S), NEW Parts \in SUBSET (SUBSET S), Parts # {}
  PROVE  \E U \in Parts : \A V \in Parts : ~(V \subseteq U /\ V # U)
<1>1. Parts \subseteq FiniteSubsetsOf(S)
  BY FS_FiniteSubsetsOfFinite
<1>2. PICK U \in Parts : \A V \in Parts : ~(<<V, U>> \in StrictSubsetOrdering(S))
  BY <1>1, FS_StrictSubsetOrderingWellFounded, WFMin, Zenon
<1>3. ASSUME NEW V \in Parts, V \subseteq U, V # U
      PROVE  FALSE
  <2>1. <<V, U>> \in StrictSubsetOrdering(S)
    BY <1>3 DEF StrictSubsetOrdering
  <2> QED
    BY <1>2, <2>1
<1>4. \A V \in Parts : ~(V \subseteq U /\ V # U)
  BY <1>3
<1> QED
  BY <1>4, Zenon

(* What holds of the empty set, and of a part when it holds without the    *)
(* part's pick, holds of every part.                                       *)
LEMMA PartInduction ==
  ASSUME NEW S, IsFiniteSet(S), NEW Good,
         {} \in Good,
         \A U \in SUBSET S : U # {} /\ U \ {Pick(U)} \in Good => U \in Good
  PROVE  \A U \in SUBSET S : U \in Good
<1> DEFINE Parts == {U \in SUBSET S : U \notin Good}
<1> SUFFICES ASSUME Parts # {} PROVE FALSE
  OBVIOUS
<1>0. Parts \in SUBSET (SUBSET S)
  OBVIOUS
<1>1. PICK U \in Parts : \A V \in Parts : ~(V \subseteq U /\ V # U)
  <2> HIDE DEF Parts
  <2> QED
    BY <1>0, SmallestPart
<1>2. U # {} /\ U \in SUBSET S
  BY <1>1
<1>3. Pick(U) \in U
  BY <1>2 DEF Pick
<1>4. U \ {Pick(U)} \in Good
  BY <1>1, <1>2, <1>3
<1> QED
  BY <1>1, <1>2, <1>4

(* Two functions with the sums of f agree where both have one. *)
LEMMA SumUnique ==
  ASSUME NEW S, IsFiniteSet(S), NEW A \in SUBSET S, NEW B \in SUBSET S,
         NEW f, NEW g, NEW h, IsSum(g, f, A), IsSum(h, f, B)
  PROVE  \A U \in SUBSET (A \cap B) : g[U] = h[U]
<1> DEFINE Good == {U \in SUBSET (A \cap B) : g[U] = h[U]}
<1>1. IsFiniteSet(A \cap B)
  BY FS_Subset
<1>2. \A U \in SUBSET (A \cap B) :
         /\ g[U] = IF U = {} THEN 0 ELSE f[Pick(U)] + g[U \ {Pick(U)}]
         /\ h[U] = IF U = {} THEN 0 ELSE f[Pick(U)] + h[U \ {Pick(U)}]
  BY DEF IsSum
<1>3. {} \in Good
  BY <1>2
<1>4. \A U \in SUBSET (A \cap B) : U # {} /\ U \ {Pick(U)} \in Good => U \in Good
  BY <1>2
<1> HIDE DEF Good
<1>5. \A U \in SUBSET (A \cap B) : U \in Good
  BY <1>1, <1>3, <1>4, PartInduction
<1> QED
  BY <1>5 DEF Good

LEMMA SumExists ==
  ASSUME NEW S, IsFiniteSet(S), NEW f
  PROVE  \E g : IsSum(g, f, S)
<1> DEFINE Parts == {T \in SUBSET S : ~\E g : IsSum(g, f, T)}
<1> SUFFICES ASSUME Parts # {} PROVE FALSE
  OBVIOUS
<1>0. Parts \in SUBSET (SUBSET S)
  OBVIOUS
<1>1. PICK T \in Parts : \A V \in Parts : ~(V \subseteq T /\ V # T)
  <2> HIDE DEF Parts
  <2> QED
    BY <1>0, SmallestPart
<1> DEFINE G(V) == CHOOSE g : IsSum(g, f, V)
           H == [U \in SUBSET T |-> IF U = {} THEN 0
                   ELSE f[Pick(U)] + G(U \ {Pick(U)})[U \ {Pick(U)}]]
<1>2. ASSUME NEW V \in SUBSET T, V # T
      PROVE  IsSum(G(V), f, V)
  BY <1>1, <1>2
<1>3. \A U \in SUBSET T : U # {} => Pick(U) \in U
  BY DEF Pick
<1>4. ASSUME NEW V \in SUBSET T, V # T
      PROVE  H[V] = G(V)[V]
  <2>1. IsSum(G(V), f, V)
    BY <1>2, <1>4
  <2> HIDE DEF G
  <2>2. G(V)[V] = IF V = {} THEN 0 ELSE f[Pick(V)] + G(V)[V \ {Pick(V)}]
    BY <2>1 DEF IsSum
  <2>3. CASE V = {}
    BY <2>2, <2>3
  <2>4. CASE V # {}
    <3> DEFINE W == V \ {Pick(V)}
    <3>1. W \in SUBSET V /\ W \in SUBSET T /\ W # T
      BY <1>3, <1>4, <2>4
    <3>2. IsSum(G(W), f, W)
      BY <1>2, <3>1
    <3>3. V \in SUBSET S /\ W \in SUBSET S /\ W \in SUBSET (V \cap W)
      BY <3>1
    <3>4. G(V)[W] = G(W)[W]
      BY <2>1, <3>2, <3>3, SumUnique
    <3> QED
      BY <1>4, <2>2, <2>4, <3>4
  <2> QED
    BY <2>3, <2>4
<1>5. ASSUME NEW U \in SUBSET T
      PROVE  H[U] = IF U = {} THEN 0 ELSE f[Pick(U)] + H[U \ {Pick(U)}]
  <2>1. CASE U = {}
    BY <2>1
  <2>2. CASE U # {}
    <3> DEFINE W == U \ {Pick(U)}
    <3>1. W \in SUBSET T /\ W # T
      BY <1>3, <2>2
    <3>2. H[W] = G(W)[W]
      BY <1>4, <3>1
    <3>3. H[U] = f[Pick(U)] + G(W)[W]
      BY <1>5, <2>2
    <3> QED
      BY <2>2, <3>2, <3>3
  <2> QED
    BY <2>1, <2>2
<1>6. IsSum(H, f, T)
  <2>1. DOMAIN H = SUBSET T /\ H = [U \in SUBSET T |-> H[U]]
    OBVIOUS
  <2> HIDE DEF H
  <2> QED
    BY <1>5, <2>1 DEF IsSum
<1> QED
  BY <1>1, <1>6

(* The sum is what is left when the arguments are taken away.              *)
LEMMA SumIs ==
  ASSUME NEW f, IsFiniteSet(DOMAIN f)
  PROVE  \E g : IsSum(g, f, DOMAIN f) /\ SumFunction(f) = g[DOMAIN f]
<1> DEFINE g == CHOOSE h : IsSum(h, f, DOMAIN f)
<1>1. IsSum(g, f, DOMAIN f)
  BY SumExists
<1>2. SumFunction(f) = g[DOMAIN f]
  BY DEF SumFunction, SumFunctionOnSet, FoldFunctionOnSet, MapThenFoldSet, IsSum, Pick
<1> QED
  BY <1>1, <1>2

(* A function of which one value changes by d has a sum changed by d.      *)
LEMMA SumChange ==
  ASSUME NEW S, IsFiniteSet(S), NEW f \in [S -> Int], NEW a \in S, NEW d \in Int
  PROVE  /\ SumFunction(f) \in Int
         /\ SumFunction([f EXCEPT ![a] = @ + d]) = SumFunction(f) + d
<1> DEFINE e == [f EXCEPT ![a] = @ + d]
<1>1. /\ DOMAIN f = S /\ DOMAIN e = S
      /\ \A x \in S : e[x] = IF x = a THEN f[x] + d ELSE f[x]
  OBVIOUS
<1> HIDE DEF e
<1>2. PICK g : IsSum(g, f, S) /\ SumFunction(f) = g[S]
  BY <1>1, SumIs
<1>3. PICK h : IsSum(h, e, S) /\ SumFunction(e) = h[S]
  BY <1>1, SumIs
<1>4. \A U \in SUBSET S :
         /\ g[U] = IF U = {} THEN 0 ELSE f[Pick(U)] + g[U \ {Pick(U)}]
         /\ h[U] = IF U = {} THEN 0 ELSE e[Pick(U)] + h[U \ {Pick(U)}]
  BY <1>2, <1>3 DEF IsSum
<1> DEFINE Good == {U \in SUBSET S : g[U] \in Int /\ h[U] = g[U] + (IF a \in U THEN d ELSE 0)}
<1>5. {} \in Good
  <2>1. g[{}] = 0 /\ h[{}] = 0
    BY <1>4
  <2> QED
    BY <2>1
<1>6. ASSUME NEW U \in SUBSET S, U # {}, U \ {Pick(U)} \in Good
      PROVE  U \in Good
  <2> DEFINE W == U \ {Pick(U)}
  <2>1. Pick(U) \in U /\ Pick(U) \in S
    BY <1>6 DEF Pick
  <2>2. g[W] \in Int /\ h[W] = g[W] + (IF a \in W THEN d ELSE 0)
    BY <1>6
  <2>3. g[U] = f[Pick(U)] + g[W] /\ h[U] = e[Pick(U)] + h[W] /\ f[Pick(U)] \in Int
    BY <1>4, <1>6, <2>1
  <2>4. e[Pick(U)] = IF Pick(U) = a THEN f[Pick(U)] + d ELSE f[Pick(U)]
    BY <1>1, <2>1
  <2>5. CASE Pick(U) = a
    <3>1. a \in U /\ a \notin W
      BY <2>1, <2>5
    <3> HIDE DEF W
    <3>2. g[U] \in Int /\ h[U] = g[U] + d
      BY <2>2, <2>3, <2>4, <2>5, <3>1
    <3> QED
      BY <3>1, <3>2
  <2>6. CASE Pick(U) # a
    <3>1. a \in U <=> a \in W
      BY <2>6
    <3> HIDE DEF W
    <3>2. g[U] \in Int /\ h[U] = g[U] + (IF a \in U THEN d ELSE 0)
      BY <2>2, <2>3, <2>4, <2>6, <3>1
    <3> QED
      BY <3>2
  <2> QED
    BY <2>5, <2>6
<1> HIDE DEF Good
<1>7. S \in Good
  BY <1>5, <1>6, PartInduction
<1> QED
  BY <1>2, <1>3, <1>7 DEF Good, e

(* A function to zero has a sum of zero, and one to numbers a number.      *)
LEMMA SumZero ==
  ASSUME NEW S, IsFiniteSet(S)
  PROVE  SumFunction([x \in S |-> 0]) = 0
<1> DEFINE f == [x \in S |-> 0]
<1>1. DOMAIN f = S /\ \A x \in S : f[x] = 0
  OBVIOUS
<1> HIDE DEF f
<1>2. PICK g : IsSum(g, f, S) /\ SumFunction(f) = g[S]
  BY <1>1, SumIs
<1>3. \A U \in SUBSET S : g[U] = IF U = {} THEN 0 ELSE f[Pick(U)] + g[U \ {Pick(U)}]
  BY <1>2 DEF IsSum
<1> DEFINE Good == {U \in SUBSET S : g[U] = 0}
<1>4. {} \in Good
  BY <1>3
<1>5. ASSUME NEW U \in SUBSET S, U # {}, U \ {Pick(U)} \in Good
      PROVE  U \in Good
  <2>1. Pick(U) \in S
    BY <1>5 DEF Pick
  <2> QED
    BY <1>1, <1>3, <1>5, <2>1
<1> HIDE DEF Good
<1>6. S \in Good
  BY <1>4, <1>5, PartInduction
<1> QED
  BY <1>2, <1>6 DEF Good, f

LEMMA SumNat ==
  ASSUME NEW S, IsFiniteSet(S), NEW f \in [S -> Nat]
  PROVE  SumFunction(f) \in Nat
<1>1. DOMAIN f = S
  OBVIOUS
<1>2. PICK g : IsSum(g, f, S) /\ SumFunction(f) = g[S]
  BY <1>1, SumIs
<1>3. \A U \in SUBSET S : g[U] = IF U = {} THEN 0 ELSE f[Pick(U)] + g[U \ {Pick(U)}]
  BY <1>2 DEF IsSum
<1> DEFINE Good == {U \in SUBSET S : g[U] \in Nat}
<1>4. {} \in Good
  BY <1>3
<1>5. ASSUME NEW U \in SUBSET S, U # {}, U \ {Pick(U)} \in Good
      PROVE  U \in Good
  <2>1. Pick(U) \in S /\ f[Pick(U)] \in Nat
    BY <1>5 DEF Pick
  <2> QED
    BY <1>3, <1>5, <2>1
<1> HIDE DEF Good
<1>6. S \in Good
  BY <1>4, <1>5, PartInduction
<1> QED
  BY <1>2, <1>6 DEF Good

(* A count that goes up by one. *)
LEMMA SumOneMore ==
  ASSUME NEW S, IsFiniteSet(S), NEW f \in [S -> Nat], NEW a \in S
  PROVE  /\ SumFunction(f) \in Nat
         /\ SumFunction([f EXCEPT ![a] = @ + 1]) = SumFunction(f) + 1
<1>1. f \in [S -> Int] /\ 1 \in Int
  OBVIOUS
<1>2. SumFunction([f EXCEPT ![a] = @ + 1]) = SumFunction(f) + 1
  BY <1>1, SumChange, ZenonT(60)
<1> QED
  BY <1>2, SumNat
(* A function with finitely many arguments has a greatest value.           *)
LEMMA GreatestValue ==
  ASSUME NEW S, IsFiniteSet(S), S # {}, NEW f \in [S -> Int]
  PROVE  \E x \in S : \A y \in S : f[y] <= f[x]
<1> DEFINE Good == {U \in SUBSET S : U = {} \/ \E x \in U : \A y \in U : f[y] <= f[x]}
<1>1. {} \in Good
  OBVIOUS
<1>2. ASSUME NEW U \in SUBSET S, U # {}, U \ {Pick(U)} \in Good
      PROVE  U \in Good
  <2> DEFINE W == U \ {Pick(U)}
  <2>1. Pick(U) \in U /\ \A y \in U : f[y] \in Int /\ (y = Pick(U) \/ y \in W)
    BY <1>2 DEF Pick
  <2>2. \E x \in U : \A y \in U : f[y] <= f[x]
    <3>1. CASE W = {}
      <4>1. \A y \in U : f[y] <= f[Pick(U)]
        BY <2>1, <3>1
      <4> QED
        BY <2>1, <4>1
    <3>2. CASE W # {}
      <4>1. PICK x \in W : \A y \in W : f[y] <= f[x]
        BY <1>2, <3>2
      <4>2. x \in U
        BY <4>1
      <4> HIDE DEF W
      <4>3. CASE f[Pick(U)] <= f[x]
        BY <2>1, <4>1, <4>2, <4>3
      <4>4. CASE ~(f[Pick(U)] <= f[x])
        <5>1. \A y \in U : f[y] <= f[Pick(U)]
          BY <2>1, <4>1, <4>2, <4>4
        <5> QED
          BY <2>1, <5>1
      <4> QED
        BY <4>3, <4>4
    <3> QED
      BY <3>1, <3>2
  <2> QED
    BY <2>2
<1> HIDE DEF Good
<1>3. S \in Good
  BY <1>1, <1>2, PartInduction
<1> QED
  BY <1>3 DEF Good

(* Classes of the elements of D: those of the classes in S add up to the   *)
(* elements that are in one of them.                                       *)
LEMMA SumOfClasses ==
  ASSUME NEW S, IsFiniteSet(S), NEW D, IsFiniteSet(D), NEW c,
         NEW f, f = [x \in S |-> Cardinality({d \in D : c[d] = x})]
  PROVE  SumFunction(f) = Cardinality({d \in D : c[d] \in S})
<1>1. DOMAIN f = S /\ \A x \in S : f[x] = Cardinality({d \in D : c[d] = x})
  OBVIOUS
<1>2. PICK g : IsSum(g, f, S) /\ SumFunction(f) = g[S]
  BY <1>1, SumIs
<1>3. \A U \in SUBSET S : g[U] = IF U = {} THEN 0 ELSE f[Pick(U)] + g[U \ {Pick(U)}]
  BY <1>2 DEF IsSum
<1> DEFINE Of(U) == {d \in D : c[d] \in U}
           Good == {U \in SUBSET S : g[U] = Cardinality(Of(U))}
<1>4. {} \in Good
  <2>1. Of({}) = {}
    OBVIOUS
  <2>2. Cardinality(Of({})) = 0
    BY <2>1, FS_EmptySet
  <2> QED
    BY <1>3, <2>2
<1>5. ASSUME NEW U \in SUBSET S, U # {}, U \ {Pick(U)} \in Good
      PROVE  U \in Good
  <2> DEFINE W == U \ {Pick(U)}
             X == {d \in D : c[d] = Pick(U)}
  <2>1. Pick(U) \in U /\ Pick(U) \in S
    BY <1>5 DEF Pick
  <2>2. g[U] = Cardinality(X) + g[W] /\ g[W] = Cardinality(Of(W))
    BY <1>1, <1>3, <1>5, <2>1
  <2>3. Of(U) = X \cup Of(W) /\ X \cap Of(W) = {}
    BY <2>1
  <2>4. IsFiniteSet(X) /\ IsFiniteSet(Of(W))
    BY FS_Subset
  <2>5. /\ Cardinality(X) \in Nat /\ Cardinality(Of(W)) \in Nat
        /\ Cardinality(Of(U)) = Cardinality(X) + Cardinality(Of(W)) - Cardinality({})
    <3> HIDE DEF X, Of, W
    <3>1. Cardinality(X \cup Of(W))
            = Cardinality(X) + Cardinality(Of(W)) - Cardinality(X \cap Of(W))
      BY <2>4, FS_Union
    <3> QED
      BY <2>3, <2>4, <3>1, FS_CardinalityType
  <2>6. Cardinality({}) = 0
    BY FS_EmptySet
  <2>7. g[U] = Cardinality(Of(U))
    <3> HIDE DEF X, Of, W
    <3> QED
      BY <2>2, <2>5, <2>6
  <2> QED
    BY <2>7
<1> HIDE DEF Good
<1>6. S \in Good
  BY <1>4, <1>5, PartInduction
<1> QED
  BY <1>2, <1>6 DEF Good

(* The sum of numbers none of which is more than b.                        *)
LEMMA SumAtMost ==
  ASSUME NEW S, IsFiniteSet(S), NEW f \in [S -> Nat], NEW b \in Nat,
         \A x \in S : f[x] <= b
  PROVE  SumFunction(f) \in Nat /\ SumFunction(f) <= b * Cardinality(S)
<1>1. DOMAIN f = S
  OBVIOUS
<1>2. PICK g : IsSum(g, f, S) /\ SumFunction(f) = g[S]
  BY <1>1, SumIs
<1>3. \A U \in SUBSET S : g[U] = IF U = {} THEN 0 ELSE f[Pick(U)] + g[U \ {Pick(U)}]
  BY <1>2 DEF IsSum
<1> DEFINE Good == {U \in SUBSET S : g[U] \in Nat /\ g[U] <= b * Cardinality(U)}
<1>4. {} \in Good
  <2>1. Cardinality({}) = 0 /\ g[{}] = 0
    BY <1>3, FS_EmptySet
  <2>2. b * 0 = 0
    OBVIOUS
  <2>3. g[{}] \in Nat /\ g[{}] <= b * Cardinality({})
    BY <2>1, <2>2
  <2> QED
    BY <2>3
<1>5. ASSUME NEW U \in SUBSET S, U # {}, U \ {Pick(U)} \in Good
      PROVE  U \in Good
  <2> DEFINE W == U \ {Pick(U)}
  <2>1. Pick(U) \in U /\ Pick(U) \in S /\ f[Pick(U)] \in Nat /\ f[Pick(U)] <= b
    BY <1>5 DEF Pick
  <2>2. g[U] = f[Pick(U)] + g[W] /\ g[W] \in Nat /\ g[W] <= b * Cardinality(W)
    BY <1>3, <1>5
  <2>3. IsFiniteSet(U) /\ Cardinality(U) \in Nat
    BY FS_Subset, FS_CardinalityType
  <2>4. Cardinality(W) = Cardinality(U) - 1
    BY <2>1, <2>3, FS_RemoveElement
  <2> HIDE DEF W
  <2>5. b * (Cardinality(U) - 1) = b * Cardinality(U) - b /\ b * Cardinality(U) \in Int
    BY <2>3
  <2>6. g[U] \in Nat /\ g[U] <= b * Cardinality(U)
    BY <2>1, <2>2, <2>4, <2>5
  <2> QED
    BY <2>6
<1> HIDE DEF Good
<1>6. S \in Good
  BY <1>4, <1>5, PartInduction
<1> QED
  BY <1>2, <1>6 DEF Good

(* An average is not more than the most. *)
LEMMA AverageAtMost ==
  ASSUME NEW a \in Nat, NEW b \in Nat, NEW n \in Nat \ {0}, a <= b * n
  PROVE  a \div n <= b
<1> DEFINE q == a \div n
<1>1. q \in Nat /\ n * q <= a
  OBVIOUS
<1> HIDE DEF q
<1> SUFFICES ASSUME q >= b + 1 PROVE FALSE
  BY <1>1 DEF q
<1>2. n * q >= n * (b + 1)
  BY <1>1
<1>3. n * (b + 1) = b * n + n
  OBVIOUS
<1> QED
  BY <1>1, <1>2, <1>3

-----------------------------------------------------------------------------
(* Lists with each entry once. *)
Distinct(s) == \A i, j \in DOMAIN s : i # j => s[i] # s[j]

(* The entries of a list without duplicates are as many as it has.         *)
LEMMA DistinctCount ==
  ASSUME NEW T, NEW s \in Seq(T), Distinct(s)
  PROVE  /\ IsFiniteSet(Range(s)) /\ Cardinality(Range(s)) = Len(s)
         /\ Len(s) \in Nat /\ DOMAIN s = 1..Len(s)
<1>1. Len(s) \in Nat /\ DOMAIN s = 1..Len(s) /\ s \in [1..Len(s) -> Range(s)]
  <2>1. Len(s) \in Nat /\ DOMAIN s = 1..Len(s) /\ s = [i \in 1..Len(s) |-> s[i]]
    OBVIOUS
  <2>2. \A i \in 1..Len(s) : s[i] \in Range(s)
    BY <2>1 DEF Range
  <2> QED
    BY <2>1, <2>2
<1>2. s \in Bijection(1..Len(s), Range(s))
  BY <1>1 DEF Distinct, Bijection, Injection, IsInjective, Surjection, Range
<1>3. IsFiniteSet(1..Len(s)) /\ Cardinality(1..Len(s)) = Len(s)
  BY <1>1, FS_Interval
<1>4. ExistsBijection(1..Len(s), Range(s))
  BY <1>2 DEF ExistsBijection
<1> QED
  BY <1>1, <1>3, <1>4, FS_Bijection

(* A loop has a value after each of its rounds. step[k][v] is what round k *)
(* makes of the value v before it.                                         *)
IsLoop(f, a, step, n, V) ==
  /\ f \in [0..n -> V] /\ f[0] = a
  /\ \A k \in 1..n : f[k] = step[k][f[k - 1]]

LEMMA LoopExists ==
  ASSUME NEW n \in Nat, NEW V, NEW a \in V, NEW step \in [1..n -> [V -> V]]
  PROVE  \E f : IsLoop(f, a, step, n, V)
<1> DEFINE Good == {m \in 0..n : \E f : IsLoop(f, a, step, m, V)}
<1>1. 0 \in Good
  <2> DEFINE f == [k \in 0..0 |-> a]
  <2>1. IsLoop(f, a, step, 0, V)
    BY DEF IsLoop
  <2> HIDE DEF f
  <2> QED
    BY <2>1
<1>2. ASSUME NEW m \in 0..(n - 1), m \in Good
      PROVE  m + 1 \in Good
  <2>1. PICK f : IsLoop(f, a, step, m, V)
    BY <1>2
  <2> DEFINE h == [k \in 0..(m + 1) |-> IF k = m + 1 THEN step[m + 1][f[m]] ELSE f[k]]
  <2>2. step[m + 1][f[m]] \in V
    <3>1. f[m] \in V /\ m + 1 \in 1..n
      BY <2>1 DEF IsLoop
    <3> QED
      BY <3>1
  <2>3. h \in [0..(m + 1) -> V] /\ h[0] = a
    BY <2>1, <2>2 DEF IsLoop
  <2>4. ASSUME NEW k \in 1..(m + 1)
        PROVE  h[k] = step[k][h[k - 1]]
    <3>1. CASE k = m + 1
      BY <3>1
    <3>2. CASE k # m + 1
      <4>1. k \in 1..m /\ k \in 0..(m + 1) /\ k - 1 \in 0..(m + 1) /\ k - 1 # m + 1
        BY <3>2
      <4>2. h[k] = f[k] /\ h[k - 1] = f[k - 1]
        BY <3>2, <4>1
      <4> QED
        BY <2>1, <4>1, <4>2 DEF IsLoop
    <3> QED
      BY <3>1, <3>2
  <2>5. m + 1 \in 0..n
    OBVIOUS
  <2> HIDE DEF h
  <2>6. IsLoop(h, a, step, m + 1, V)
    BY <2>3, <2>4 DEF IsLoop
  <2> QED
    BY <2>5, <2>6
<1> HIDE DEF Good
<1>3. \A m \in 0..n : m \in Good
  BY <1>1, <1>2, UpTo
<1>4. n \in Good
  BY <1>3
<1> QED
  BY <1>4 DEF Good

(* Places in the order of numbers, those that tie as they stood. *)
InOrder(p, f, n) ==
  /\ p \in [1..n -> 1..n]
  /\ \A i \in 1..n : \E k \in 1..n : p[k] = i
  /\ \A k, l \in 1..n : k # l => p[k] # p[l]
  /\ \A k, l \in 1..n : k < l =>
       f[p[k]] <= f[p[l]] /\ (f[p[k]] = f[p[l]] => p[k] < p[l])

Sooner(f, n) ==
  [i \in 1..n |-> {j \in 1..n : f[j] < f[i] \/ (f[j] = f[i] /\ j < i)}]

LEMMA NumbersPlaced ==
  ASSUME NEW n \in Nat, NEW f, \A i \in 1..n : f[i] \in Int
  PROVE  InOrder(Placed(Sooner(f, n), 1..n), f, n)
<1> DEFINE B == Sooner(f, n)
           p == Placed(B, 1..n)
<1>1. B = [i \in 1..n |-> {j \in 1..n : f[j] < f[i] \/ (f[j] = f[i] /\ j < i)}]
  BY DEF Sooner
<1>2. IsOrder(B, 1..n)
  <2> HIDE DEF B
  <2> QED
    BY <1>1, RankOrder
<1>3. IsFiniteSet(1..n) /\ Cardinality(1..n) = n
  BY FS_Interval
<1>4. \A i, j \in 1..n : j \in B[i] => f[j] <= f[i] /\ (f[j] = f[i] => j < i)
  BY <1>1
<1> HIDE DEF B
<1>5. /\ p \in [1..n -> 1..n]
      /\ \A i \in 1..n : \E k \in 1..n : p[k] = i
      /\ \A k, l \in 1..n : k < l => p[k] \in B[p[l]]
      /\ \A k, l \in 1..n : k # l => p[k] # p[l]
  BY <1>2, <1>3, PlacedInOrder
<1>6. \A k, l \in 1..n : k < l =>
        f[p[k]] <= f[p[l]] /\ (f[p[k]] = f[p[l]] => p[k] < p[l])
  <2> HIDE DEF p
  <2> QED
    BY <1>4, <1>5
<1> QED
  BY <1>5, <1>6 DEF InOrder, B

(* Two lists with an entry between them.                                   *)
LEMMA JoinIs ==
  ASSUME NEW T, NEW u \in Seq(T), NEW v \in Seq(T), NEW e \in T
  PROVE  LET q == u \o <<e>> \o v IN
         /\ q \in Seq(T)
         /\ Len(u) \in Nat /\ Len(v) \in Nat /\ Len(q) = Len(u) + 1 + Len(v)
         /\ \A m \in 1..Len(u) : q[m] = u[m]
         /\ q[Len(u) + 1] = e
         /\ \A m \in 1..Len(v) : q[Len(u) + 1 + m] = v[m]
<1> DEFINE w == u \o <<e>>
           q == w \o v
<1>1. /\ w \in Seq(T) /\ Len(w) = Len(u) + 1 /\ w[Len(u) + 1] = e
      /\ \A m \in 1..Len(u) : w[m] = u[m]
      /\ Len(u) \in Nat /\ Len(v) \in Nat
  OBVIOUS
<1> HIDE DEF w
<1>2. /\ q \in Seq(T) /\ Len(q) = Len(w) + Len(v)
      /\ \A m \in 1..Len(w) : q[m] = w[m]
      /\ \A m \in 1..Len(v) : q[Len(w) + m] = v[m]
  BY <1>1
<1> HIDE DEF q
<1>3. \A m \in 1..Len(u) : m \in 1..Len(w)
  BY <1>1
<1>4. Len(u) + 1 \in 1..Len(w)
  BY <1>1
<1> QED
  BY <1>1, <1>2, <1>3, <1>4 DEF q, w
=============================================================================
