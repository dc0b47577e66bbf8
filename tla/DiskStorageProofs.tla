------------------------- MODULE DiskStorageProofs --------------------------
(***************************************************************************)
(* Proofs about the disk storage, for any number of saves, any limit and   *)
(* any bounds on resets, prunes and crashes.                               *)
(*                                                                         *)
(* Base is the part of the inductive invariant every proof needs: the      *)
(* types, and which documents and entries there can be while each call is  *)
(* where it is. On top of it stand                                         *)
(*   Resetting   what a Reset has yet to remove of what it is to drop,     *)
(*   Pruning     the same of a Prune,                                      *)
(*   Serving     that every document a prune is to remove is buried under  *)
(*               newer ones and stays so,                                  *)
(*   Counting    the bound of the folder when the removals of any of the   *)
(*               prunes under way are taken as done.                       *)
(***************************************************************************)
EXTENDS DiskStorage, DataProofs

(* Saves under way or cut short, and those whose document was written.     *)
Busy  == {w \in Docs : wpc[w] \in {"written", "pruning", "interrupted"}}
Begun == {w \in Docs : wpc[w] \notin {"idle", "failed"}}
Ended == {w \in Docs : wpc[w] \in {"saved", "interrupted"}}

Files ==
  /\ folder \cup pbound \subseteq Begun
  /\ InRing \subseteq Ended
  /\ \A w \in Docs : wpc[w] # "pruning" => doomed[w] = {}

Calls ==
  /\ ~up => /\ rpc = "idle" /\ ppc = "idle" /\ ring = << >>
            /\ \A w \in Docs : wpc[w] \notin {"written", "pruning"}
  /\ rpc # "idle" => resets > 0
  /\ ppc # "idle" => prunes > 0

Base == TypeOK /\ Files /\ Calls

Resetting ==
  /\ rbound \subseteq {w \in Docs : wpc[w] = "saved"}
  /\ rpc # "idle" => rbound \cap InRing = {}
  /\ rpc = "removing" => rbound \cap folder \subseteq rleft
  /\ rpc = "returned" => rbound \cap folder = {}

Pruning ==
  /\ pbound \cap folder \subseteq aged
  /\ ppc = "looking" => pbound \cap folder \subseteq pleft
  /\ ppc = "returned" => pbound \cap folder = {}

Buried(i) == NewerInFolder(i) >= Limit

Serving ==
  Limit > 0 /\ resets = 0 /\ prunes = 0 =>
    /\ \A w \in Docs : \A d \in doomed[w] : Buried(d)
    /\ \A i \in Begun : i \in folder \/ Buried(i)

Pruners == {w \in Docs : wpc[w] = "pruning"}

(* The folder when the prunes of P have removed what they are to remove.   *)
Left(P) == {i \in folder : \A w \in P : i \notin doomed[w]}

Counting ==
  Limit > 0 =>
    \A P \in SUBSET Pruners :
      Cardinality(Left(P)) <= Limit + Cardinality(Busy \ P)

USE DiskAssumption

-----------------------------------------------------------------------------
(* Sets of documents: the least one, their number, their order.            *)
LEMMA DocsNat == \A i \in Docs : i \in Nat
  BY DEF Docs

LEMMA MinIn ==
  ASSUME NEW S \in SUBSET Docs, S # {}
  PROVE  Min(S) \in S
<1>1. S \subseteq Nat
  BY DocsNat
<1> QED
  BY <1>1, LeastNumber DEF Min

LEMMA DocsCount ==
  ASSUME NEW S \in SUBSET Docs
  PROVE  /\ IsFiniteSet(S)
         /\ Cardinality(S) \in Nat
         /\ \A T \in SUBSET S : Cardinality(T) <= Cardinality(S)
<1>1. IsFiniteSet(Docs)
  BY FS_Interval DEF Docs
<1>2. IsFiniteSet(S)
  BY <1>1, FS_Subset
<1> QED
  BY <1>2, FS_Subset, FS_CardinalityType

(* The later of two documents has fewer newer ones.                        *)
LEMMA NewerFewer ==
  ASSUME NEW S \in SUBSET Docs, NEW i \in Nat, NEW k \in S, i < k
  PROVE  Cardinality({j \in S : j > k}) < Cardinality({j \in S : j > i})
<1> DEFINE K == {j \in S : j > k}
           I == {j \in S : j > i}
<1>0. k \in Int /\ \A j \in S : j \in Int
  BY DocsNat
<1>1. K \in SUBSET Docs /\ I \in SUBSET Docs
  OBVIOUS
<1>2. k \in I
  BY <1>0
<1>3. ASSUME NEW j \in K
      PROVE  j \in I \ {k}
  <2>1. j \in S /\ j > k
    OBVIOUS
  <2> QED
    BY <1>0, <2>1
<1> HIDE DEF K, I
<1>4. Cardinality(I \ {k}) = Cardinality(I) - 1
  BY <1>1, <1>2, DocsCount, FS_RemoveElement
<1>5. K \in SUBSET (I \ {k}) /\ I \ {k} \in SUBSET Docs
  BY <1>1, <1>3
<1>6. /\ Cardinality(K) <= Cardinality(I \ {k})
      /\ Cardinality(K) \in Nat /\ Cardinality(I) \in Nat
  BY <1>1, <1>5, DocsCount
<1>7. Cardinality(K) < Cardinality(I)
  BY <1>4, <1>6
<1> QED
  BY <1>7 DEF K, I

(* What prune leaves of the folder it listed fits the limit                *)
(* (disk_storage.go:286-291).                                              *)
LEMMA OverLeaves ==
  ASSUME NEW S \in SUBSET Docs, Limit > 0
  PROVE  Cardinality(S \ Over(S)) <= Limit
<1> DEFINE K == S \ Over(S)
<1>1. K \in SUBSET Docs /\ \A i \in K : i \in S /\ i \in Nat
  BY DocsNat
<1>2. \A i \in K : ~(Cardinality({j \in S : j > i}) >= Limit)
  BY DEF Over
<1> HIDE DEF K
<1>3. CASE K = {}
  BY <1>3, FS_EmptySet DEF K
<1>4. CASE K # {}
  <2>1. PICK m \in K : \A y \in K : ~(<<y, m>> \in OpToRel(<, Nat))
    BY <1>1, <1>4, NatLessThanWellFounded, WFMin, Zenon
  <2>2. \A y \in K : ~(y < m)
    BY <1>1, <2>1 DEF OpToRel
  <2> DEFINE A == {j \in S : j > m}
  <2>3. K \ {m} \in SUBSET A /\ A \in SUBSET Docs
    BY <1>1, <2>2
  <2>4. ~(Cardinality(A) >= Limit)
    BY <1>2
  <2> HIDE DEF A
  <2>5. Cardinality(K \ {m}) <= Cardinality(A) /\ Cardinality(A) \in Nat
    BY <2>3, DocsCount
  <2>6. Cardinality(K \ {m}) = Cardinality(K) - 1 /\ Cardinality(K) \in Nat
    BY <1>1, DocsCount, FS_RemoveElement
  <2>7. Cardinality(K) <= Limit
    BY <2>4, <2>5, <2>6
  <2> QED
    BY <2>7 DEF K
<1> QED
  BY <1>3, <1>4

(* Every place up to the number of documents is that of one of them: the   *)
(* numbers of newer ones are told apart, so all of them occur.             *)
LEMMA PlaceTaken ==
  ASSUME NEW S \in SUBSET Docs, NEW n \in 1..Cardinality(S)
  PROVE  \E i \in S : Cardinality({j \in S : j > i}) = n - 1
<1> DEFINE c(i) == Cardinality({j \in S : j > i})
           T == 1..Cardinality(S)
           r == [i \in S |-> c(i) + 1]
<1>1. Cardinality(S) \in Nat /\ \A i \in S : i \in Nat
  BY DocsCount, DocsNat
<1>2. ASSUME NEW i \in S
      PROVE  c(i) \in Nat /\ c(i) < Cardinality(S)
  <2> DEFINE A == {j \in S : j > i}
  <2>1. ~(i > i)
    BY <1>1, <1>2
  <2>2. A \in SUBSET (S \ {i}) /\ A \in SUBSET Docs /\ S \ {i} \in SUBSET Docs
    BY <2>1
  <2>3. Cardinality(S \ {i}) = Cardinality(S) - 1
    BY <1>2, DocsCount, FS_RemoveElement
  <2>4. Cardinality(A) \in Nat /\ Cardinality(A) <= Cardinality(S \ {i})
    BY <2>2, DocsCount
  <2> HIDE DEF A
  <2>5. Cardinality(A) < Cardinality(S)
    BY <1>1, <2>3, <2>4
  <2> QED
    BY <2>4, <2>5 DEF A
<1>3. \A i, k \in S : i < k => c(k) < c(i)
  BY <1>1, NewerFewer
<1> HIDE DEF c
<1>4. r \in [S -> T]
  BY <1>1, <1>2
<1>5. ASSUME NEW i \in S, NEW k \in S, r[i] = r[k]
      PROVE  i = k
  <2>1. c(i) = c(k)
    BY <1>2, <1>5
  <2>2. ~(i < k) /\ ~(k < i)
    BY <1>2, <1>3, <2>1
  <2> QED
    BY <1>1, <2>2
<1>6. r \in Injection(S, T)
  BY <1>4, <1>5 DEF Injection, IsInjective
<1>7. IsFiniteSet(T) /\ Cardinality(T) = Cardinality(S)
  <2> DEFINE N == Cardinality(S)
  <2>1. N \in Nat /\ N \in Int /\ 1 \in Int
    BY <1>1
  <2> HIDE DEF N
  <2>2. IsFiniteSet(1..N) /\ Cardinality(1..N) = IF 1 > N THEN 0 ELSE N - 1 + 1
    BY <2>1, FS_Interval
  <2>3. IsFiniteSet(1..N) /\ Cardinality(1..N) = N
    BY <2>1, <2>2
  <2> QED
    BY <2>3 DEF N
<1>8. r \in Surjection(S, T)
  BY <1>6, <1>7, FS_Injection
<1>9. PICK i \in S : r[i] = n
  BY <1>8 DEF Surjection
<1>10. c(i) = n - 1
  BY <1>2, <1>9
<1> QED
  BY <1>10 DEF c

(* Restore lists the documents it reads once each, the newest first        *)
(* (disk_storage.go:85-114).                                               *)
LEMMA RingOfIs ==
  ASSUME NEW S \in SUBSET Docs
  PROVE  LET s == RingOf(S)
         IN  /\ s \in Seq([of : Docs, inFlight : BOOLEAN])
             /\ Len(s) <= RingSize
             /\ \A n \in DOMAIN s : s[n].of \in S /\ s[n].inFlight
             /\ \A m, n \in DOMAIN s : m < n => s[m].of > s[n].of
<1> DEFINE c(i) == Cardinality({j \in S : j > i})
           N == Cardinality(S)
           t == NewestFirst(S)
           L == Smaller(Len(t), RingSize)
           s == RingOf(S)
<1>1. N \in Nat /\ (\A i \in S : i \in Nat /\ c(i) \in Nat)
  BY DocsCount, DocsNat
<1>2. t = [n \in 1..N |-> CHOOSE i \in S : c(i) = n - 1]
  BY DEF NewestFirst
<1>3. \A n \in 1..N : \E i \in S : c(i) = n - 1
  BY PlaceTaken
<1>4. \A i, k \in S : i < k => c(k) < c(i)
  BY <1>1, NewerFewer
<1> HIDE DEF c, t
<1>5. \A n \in 1..N : t[n] \in S /\ c(t[n]) = n - 1
  BY <1>2, <1>3
<1>6. Len(t) = N
  BY <1>1, <1>2 DEF t
<1>7. ASSUME NEW m \in 1..N, NEW n \in 1..N, m < n
      PROVE  t[m] > t[n]
  <2>1. ~(t[m] < t[n])
    BY <1>4, <1>5, <1>7, <1>1
  <2>2. t[m] # t[n]
    BY <1>5, <1>7, <1>1
  <2> QED
    BY <1>1, <1>5, <2>1, <2>2
<1>8. L \in Nat /\ L <= N /\ L <= RingSize
  BY <1>1, <1>6 DEF Smaller, RingSize
<1> HIDE DEF L
<1>9. s = [n \in 1..L |-> Decoded(t[n])]
  BY DEF RingOf, L, t
<1> HIDE DEF s
<1>10. DOMAIN s = 1..L /\ Len(s) = L
  BY <1>8, <1>9
<1>11. \A n \in 1..L : n \in 1..N /\ s[n] = Decoded(t[n])
  BY <1>8, <1>9, <1>1
<1>12. \A n \in 1..L : s[n] \in [of : Docs, inFlight : BOOLEAN]
                       /\ s[n].of = t[n] /\ s[n].inFlight
  <2> TAKE n \in 1..L
  <2>1. t[n] \in Docs /\ s[n] = [of |-> t[n], inFlight |-> TRUE]
    BY <1>5, <1>11 DEF Decoded
  <2> QED
    BY <2>1
<1>13. s \in Seq([of : Docs, inFlight : BOOLEAN])
  BY <1>8, <1>9, <1>12
<1>14. \A n \in DOMAIN s : s[n].of \in S /\ s[n].inFlight
  BY <1>5, <1>10, <1>11, <1>12
<1>15. \A m, n \in DOMAIN s : m < n => s[m].of > s[n].of
  BY <1>7, <1>10, <1>11, <1>12
<1> QED
  BY <1>8, <1>10, <1>13, <1>14, <1>15 DEF s

(* The ring after a trace is kept: its entry, then those before it.        *)
LEMMA KeepRing ==
  ASSUME TypeOK, NEW w \in Docs, Keep(w)
  PROVE  /\ ring' \in Seq([of : Docs, inFlight : BOOLEAN])
         /\ Len(ring') <= RingSize
         /\ \A n \in DOMAIN ring' :
              \/ n = 1 /\ ring'[n] = Recorded(w)
              \/ n - 1 \in DOMAIN ring /\ ring'[n] = ring[n - 1]
         /\ InRing' \subseteq InRing \cup {w}
<1> DEFINE Entries == [of : Docs, inFlight : BOOLEAN]
           e == Recorded(w)
<1>1. /\ ring \in Seq(Entries) /\ e \in Entries /\ e.of = w
      /\ RingSize \in Nat /\ ring' = Saved(ring, e, RingSize)
  BY DEF TypeOK, Keep, Kept, Recorded, RingSize
<1> HIDE DEF Entries
<1> HIDE DEF e
<1>2. /\ ring' \in Seq(Entries)
      /\ Len(ring') = Smaller(Len(ring) + 1, RingSize)
      /\ \A n \in 1..Len(ring') : ring'[n] = IF n = 1 THEN e ELSE ring[n - 1]
  <2>1. /\ Saved(ring, e, RingSize) \in Seq(Entries)
        /\ Len(Saved(ring, e, RingSize)) = Smaller(Len(ring) + 1, RingSize)
        /\ \A n \in 1..Len(Saved(ring, e, RingSize)) :
             Saved(ring, e, RingSize)[n] = IF n = 1 THEN e ELSE ring[n - 1]
    BY <1>1, SavedEntries
  <2> QED
    BY <1>1, <2>1
<1>3. Len(ring) \in Nat /\ DOMAIN ring = 1..Len(ring) /\ DOMAIN ring' = 1..Len(ring')
  BY <1>1, <1>2
<1>4. Len(ring') <= RingSize /\ Len(ring') <= Len(ring) + 1
  BY <1>1, <1>2, <1>3 DEF Smaller
<1>5. ASSUME NEW n \in DOMAIN ring'
      PROVE  \/ n = 1 /\ ring'[n] = Recorded(w)
             \/ n - 1 \in DOMAIN ring /\ ring'[n] = ring[n - 1]
  BY <1>2, <1>3, <1>4 DEF e
<1>6. InRing' \subseteq InRing \cup {w}
  BY <1>1, <1>5 DEF InRing, e
<1> QED
  BY <1>2, <1>4, <1>5, <1>6 DEF Entries

-----------------------------------------------------------------------------
(* The types, and the documents and entries there can be. *)

LEMMA TypeStep ==
  ASSUME TypeOK, [Next]_vars
  PROVE  TypeOK'
<1> USE DEF TypeOK, saveVars, resetVars, pruneVars
<1>1. ASSUME NEW w \in Docs, Write(w)
      PROVE  TypeOK'
  BY <1>1 DEF Write, Move
<1>2. ASSUME NEW w \in Docs, WriteFails(w)
      PROVE  TypeOK'
  BY <1>2 DEF WriteFails, Move, KeepNothing
<1>3. ASSUME NEW w \in Docs, ListToPrune(w)
      PROVE  TypeOK'
  <2>1. Over(folder) \subseteq Docs
    BY DEF Over
  <2> QED
    BY <1>3, <2>1 DEF ListToPrune, Move
<1>4. ASSUME NEW w \in Docs, RemoveOver(w)
      PROVE  TypeOK'
  BY <1>4 DEF RemoveOver
<1>5. ASSUME NEW w \in Docs, SaveFails(w)
      PROVE  TypeOK'
  BY <1>5 DEF SaveFails, Move, KeepNothing
<1>6. ASSUME NEW w \in Docs, Keep(w)
      PROVE  TypeOK'
  <2>1. ring' \in Seq([of : Docs, inFlight : BOOLEAN]) /\ Len(ring') <= RingSize'
    BY <1>6, KeepRing DEF RingSize
  <2> QED
    BY <1>6, <2>1 DEF Keep, Move
<1>7. ASSUME Reset
      PROVE  TypeOK'
  <2>1. CASE ResetRing
    <3>1. << >> \in Seq([of : Docs, inFlight : BOOLEAN]) /\ Len(<< >>) <= RingSize'
      BY DEF RingSize
    <3> QED
      BY <2>1, <3>1 DEF ResetRing
  <2>2. CASE ResetList
    BY <2>2 DEF ResetList, ListAll
  <2>3. CASE ResetRemove
    BY <2>3 DEF ResetRemove
  <2>4. CASE ResetReturn
    BY <2>4 DEF ResetReturn
  <2>5. CASE ResetFails
    BY <2>5 DEF ResetFails
  <2> QED
    BY <1>7, <2>1, <2>2, <2>3, <2>4, <2>5 DEF Reset
<1>8. CASE GrowOld
  BY <1>8 DEF GrowOld
<1>9. ASSUME Prune
      PROVE  TypeOK'
  <2>1. CASE PruneList
    BY <2>1 DEF PruneList
  <2>2. CASE PruneLook
    BY <2>2 DEF PruneLook, GoneFails
  <2>3. CASE PruneReturn
    BY <2>3 DEF PruneReturn
  <2> QED
    BY <1>9, <2>1, <2>2, <2>3 DEF Prune
<1>10. CASE Crash
  <2>1. << >> \in Seq([of : Docs, inFlight : BOOLEAN]) /\ Len(<< >>) <= RingSize'
    BY DEF RingSize
  <2>2. wpc' \in [Docs -> {"idle", "failed", "written", "pruning",
                          "interrupted", "saved"}]
    BY <1>10 DEF Crash
  <2>3. doomed' \in [Docs -> SUBSET Docs]
    BY <1>10 DEF Crash
  <2>4. crashes' \in 0..MaxCrashes
    BY <1>10 DEF Crash
  <2> QED
    BY <1>10, <2>1, <2>2, <2>3, <2>4 DEF Crash
<1>11. CASE Restart
  <2>1. CASE UNCHANGED ring
    BY <1>11, <2>1 DEF Restart
  <2>2. ASSUME NEW bad, ring' = RingOf(ToRestore \ bad)
        PROVE  TypeOK'
    <3>1. ToRestore \ bad \in SUBSET Docs
      BY DEF ToRestore
    <3>2. ring' \in Seq([of : Docs, inFlight : BOOLEAN]) /\ Len(ring') <= RingSize'
      BY <2>2, <3>1, RingOfIs DEF RingSize
    <3> QED
      BY <1>11, <3>2 DEF Restart
  <2> QED
    BY <1>11, <2>1, <2>2 DEF Restart
<1>12. CASE UNCHANGED vars
  BY <1>12 DEF vars, RingSize
<1> QED
  BY <1>1, <1>2, <1>3, <1>4, <1>5, <1>6, <1>7, <1>8, <1>9, <1>10, <1>11, <1>12
     DEF Next, Save

LEMMA FilesStep ==
  ASSUME Base, [Next]_vars
  PROVE  Files'
<1> USE DEF saveVars, resetVars, pruneVars
<1>0. TypeOK /\ Files /\ Calls
  BY DEF Base
<1>a. ASSUME UNCHANGED wpc, folder' \subseteq folder, pbound' \subseteq folder \cup pbound,
             InRing' \subseteq InRing, \A v \in Docs : doomed'[v] \subseteq doomed[v]
      PROVE  Files'
  BY <1>0, <1>a DEF Files, Begun, Ended
<1>b. ASSUME ring' = ring
      PROVE  InRing' = InRing
  BY <1>b DEF InRing
<1>c. ASSUME ring' = << >>
      PROVE  InRing' = {}
  BY <1>c DEF InRing
<1>1. ASSUME NEW w \in Docs, Write(w)
      PROVE  Files'
  BY <1>0, <1>1, <1>b DEF Write, Move, Files, Begun, Ended, TypeOK
<1>2. ASSUME NEW w \in Docs, WriteFails(w)
      PROVE  Files'
  BY <1>0, <1>2, <1>b DEF WriteFails, Move, KeepNothing, Files, Begun, Ended, TypeOK
<1>3. ASSUME NEW w \in Docs, ListToPrune(w)
      PROVE  Files'
  BY <1>0, <1>3, <1>b DEF ListToPrune, Move, Files, Begun, Ended, TypeOK
<1>4. ASSUME NEW w \in Docs, RemoveOver(w)
      PROVE  Files'
  <2>1. \A v \in Docs : doomed'[v] \subseteq doomed[v]
    BY <1>0, <1>4 DEF RemoveOver, TypeOK
  <2> QED
    BY <1>4, <1>a, <1>b, <2>1 DEF RemoveOver
<1>5. ASSUME NEW w \in Docs, SaveFails(w)
      PROVE  Files'
  BY <1>0, <1>5, <1>b DEF SaveFails, Move, KeepNothing, Files, Begun, Ended, TypeOK
<1>6. ASSUME NEW w \in Docs, Keep(w)
      PROVE  Files'
  <2>1. InRing' \subseteq InRing \cup {w}
    BY <1>0, <1>6, KeepRing
  <2> QED
    BY <1>0, <1>6, <2>1 DEF Keep, Move, Files, Begun, Ended, TypeOK
<1>7. ASSUME Reset
      PROVE  Files'
  BY <1>7, <1>a, <1>b, <1>c
     DEF Reset, ResetRing, ResetList, ResetRemove, ResetReturn, ResetFails
<1>8. CASE GrowOld
  BY <1>8, <1>a, <1>b DEF GrowOld
<1>9. ASSUME Prune
      PROVE  Files'
  <2>1. aged \subseteq folder
    BY <1>0 DEF TypeOK
  <2>2. CASE PruneList
    BY <1>a, <1>b, <2>1, <2>2 DEF PruneList
  <2>3. CASE PruneLook
    BY <1>a, <1>b, <2>3 DEF PruneLook
  <2>4. CASE PruneReturn
    BY <1>a, <1>b, <2>4 DEF PruneReturn
  <2> QED
    BY <1>9, <2>2, <2>3, <2>4 DEF Prune
<1>10. CASE Crash
  <2>1. /\ InRing' = {} /\ folder' = folder /\ pbound' = {}
        /\ \A v \in Docs : doomed'[v] = {}
    BY <1>10, <1>c DEF Crash
  <2>2. Begun' = Begun
    BY <1>10 DEF Crash, Begun
  <2> QED
    BY <1>0, <2>1, <2>2 DEF Files
<1>11. CASE Restart
  <2>1. InRing' \subseteq Ended
    <3>1. CASE UNCHANGED ring
      BY <1>0, <1>b, <3>1 DEF Files
    <3>2. ASSUME NEW bad, ring' = RingOf(ToRestore \ bad)
          PROVE  InRing' \subseteq Ended
      <4>1. ToRestore \ bad \in SUBSET Docs /\ ToRestore \subseteq folder
        BY <1>0 DEF ToRestore, TypeOK
      <4>2. InRing' \subseteq folder
        BY <3>2, <4>1, RingOfIs DEF InRing
      <4>3. folder \subseteq Ended
        BY <1>0, <1>11 DEF Restart, Calls, Files, Begun, Ended, TypeOK
      <4> QED
        BY <4>2, <4>3
    <3> QED
      BY <1>11, <3>1, <3>2 DEF Restart
  <2> QED
    BY <1>0, <1>11, <2>1 DEF Restart, Files, Begun, Ended
<1>12. CASE UNCHANGED vars
  BY <1>12, <1>a, <1>b DEF vars
<1> QED
  BY <1>1, <1>2, <1>3, <1>4, <1>5, <1>6, <1>7, <1>8, <1>9, <1>10, <1>11, <1>12
     DEF Next, Save

LEMMA CallsStep ==
  ASSUME Base, [Next]_vars
  PROVE  Calls'
<1> USE DEF saveVars, resetVars, pruneVars, Calls
<1>0. TypeOK /\ Files /\ Calls
  BY DEF Base
<1>1. ASSUME NEW w \in Docs, Write(w) \/ WriteFails(w) \/ ListToPrune(w)
                             \/ SaveFails(w) \/ Keep(w)
      PROVE  Calls'
  BY <1>0, <1>1 DEF Write, WriteFails, ListToPrune, SaveFails, Keep, Move, KeepNothing, TypeOK
<1>2. ASSUME NEW w \in Docs, RemoveOver(w)
      PROVE  Calls'
  BY <1>0, <1>2 DEF RemoveOver
<1>3. CASE Reset
  BY <1>0, <1>3 DEF Reset, ResetRing, ResetList, ResetRemove, ResetReturn, ResetFails, TypeOK
<1>4. CASE GrowOld
  BY <1>0, <1>4 DEF GrowOld
<1>5. CASE Prune
  BY <1>0, <1>5 DEF Prune, PruneList, PruneLook, PruneReturn, GoneFails, TypeOK
<1>6. CASE Crash
  BY <1>0, <1>6 DEF Crash
<1>7. CASE Restart
  BY <1>0, <1>7 DEF Restart
<1>8. CASE UNCHANGED vars
  BY <1>0, <1>8 DEF vars
<1> QED
  BY <1>1, <1>2, <1>3, <1>4, <1>5, <1>6, <1>7, <1>8 DEF Next, Save

LEMMA BaseInit == Init => Base
<1> SUFFICES ASSUME Init PROVE Base
  OBVIOUS
<1>1. TypeOK
  <2>1. << >> \in Seq([of : Docs, inFlight : BOOLEAN]) /\ Len(<< >>) <= RingSize
    BY DEF RingSize
  <2> QED
    BY <2>1 DEF Init, TypeOK
<1>2. Files /\ Calls
  BY DEF Init, Files, Calls, InRing
<1> QED
  BY <1>1, <1>2 DEF Base

LEMMA BaseStep == Base /\ [Next]_vars => Base'
BY TypeStep, FilesStep, CallsStep DEF Base

(* The disk storage's variables have their types.                          *)
THEOREM DiskType == Spec => []TypeOK
<1>1. Base => TypeOK
  BY DEF Base
<1> QED
  BY BaseInit, BaseStep, <1>1, PTL DEF Spec

-----------------------------------------------------------------------------
(* What a Reset and a Prune drop. *)

LEMMA ResettingStep ==
  ASSUME Base, Resetting, [Next]_vars
  PROVE  Resetting'
<1> USE DEF saveVars, resetVars, pruneVars, Resetting
<1>0. TypeOK /\ Files /\ Calls
  BY DEF Base
<1>a. ASSUME ring' = ring
      PROVE  InRing' = InRing
  BY <1>a DEF InRing
<1>1. ASSUME NEW w \in Docs, Write(w)
      PROVE  Resetting'
  <2>1. w \notin rbound
    BY <1>1 DEF Write, Move
  <2> QED
    BY <1>0, <1>1, <1>a, <2>1 DEF Write, Move, TypeOK
<1>2. ASSUME NEW w \in Docs, WriteFails(w) \/ ListToPrune(w) \/ SaveFails(w)
      PROVE  Resetting'
  <2>1. wpc[w] # "saved" /\ \E pc : wpc' = [wpc EXCEPT ![w] = pc]
    BY <1>2 DEF WriteFails, ListToPrune, SaveFails, Move
  <2>2. UNCHANGED <<folder, ring, rpc, rleft, rbound>>
    BY <1>2 DEF WriteFails, ListToPrune, SaveFails, KeepNothing
  <2> QED
    BY <1>0, <1>a, <2>1, <2>2 DEF TypeOK
<1>3. ASSUME NEW w \in Docs, RemoveOver(w)
      PROVE  Resetting'
  BY <1>3, <1>a DEF RemoveOver
<1>4. ASSUME NEW w \in Docs, Keep(w)
      PROVE  Resetting'
  <2>1. InRing' \subseteq InRing \cup {w} /\ w \notin rbound
    BY <1>0, <1>4, KeepRing DEF Keep, Move
  <2> QED
    BY <1>0, <1>4, <2>1 DEF Keep, Move, TypeOK
<1>5. CASE ResetRing
  <2>1. InRing' = {}
    BY <1>5 DEF ResetRing, InRing
  <2> QED
    BY <1>5, <2>1 DEF ResetRing
<1>6. CASE ResetList
  BY <1>6, <1>a DEF ResetList, ListAll
<1>7. CASE ResetRemove
  BY <1>7, <1>a DEF ResetRemove
<1>8. CASE ResetReturn \/ ResetFails
  BY <1>8, <1>a DEF ResetReturn, ResetFails
<1>9. CASE GrowOld
  BY <1>9, <1>a DEF GrowOld
<1>10. CASE Prune
  <2>1. folder' \subseteq folder /\ UNCHANGED <<ring, wpc, rpc, rleft, rbound>>
    BY <1>10 DEF Prune, PruneList, PruneLook, PruneReturn
  <2> QED
    BY <1>a, <2>1
<1>11. CASE Crash
  BY <1>11 DEF Crash
<1>12. CASE Restart
  BY <1>0, <1>12 DEF Restart, Calls
<1>13. CASE UNCHANGED vars
  BY <1>13, <1>a DEF vars
<1> QED
  BY <1>1, <1>2, <1>3, <1>4, <1>5, <1>6, <1>7, <1>8, <1>9, <1>10, <1>11, <1>12,
     <1>13 DEF Next, Save, Reset

LEMMA PruningStep ==
  ASSUME Base, Pruning, [Next]_vars
  PROVE  Pruning'
<1> USE DEF saveVars, resetVars, pruneVars, Pruning
<1>0. TypeOK /\ Files
  BY DEF Base
<1>1. ASSUME NEW w \in Docs, Write(w)
      PROVE  Pruning'
  <2>1. w \notin pbound
    BY <1>0, <1>1 DEF Write, Move, Files, Begun
  <2> QED
    BY <1>1, <2>1 DEF Write
<1>2. ASSUME NEW w \in Docs, WriteFails(w) \/ ListToPrune(w) \/ SaveFails(w) \/ Keep(w)
      PROVE  Pruning'
  BY <1>2 DEF WriteFails, ListToPrune, SaveFails, Keep
<1>3. ASSUME NEW w \in Docs, RemoveOver(w)
      PROVE  Pruning'
  BY <1>3 DEF RemoveOver
<1>4. CASE Reset
  BY <1>4 DEF Reset, ResetRing, ResetList, ResetRemove, ResetReturn, ResetFails
<1>5. CASE GrowOld
  BY <1>5 DEF GrowOld
<1>6. CASE PruneList
  BY <1>0, <1>6 DEF PruneList, TypeOK
<1>7. CASE PruneLook
  BY <1>7 DEF PruneLook, GoneFails
<1>8. CASE PruneReturn
  BY <1>8 DEF PruneReturn
<1>9. CASE Crash
  BY <1>9 DEF Crash
<1>10. CASE Restart
  BY <1>10 DEF Restart
<1>11. CASE UNCHANGED vars
  BY <1>11 DEF vars
<1> QED
  BY <1>1, <1>2, <1>3, <1>4, <1>5, <1>6, <1>7, <1>8, <1>9, <1>10, <1>11
     DEF Next, Save, Prune

(* A Reset that has returned dropped every trace whose Save was over when  *)
(* it was called, from the ring and from the folder, whatever ran next to  *)
(* it (disk_storage.go:213-228).                                           *)
THEOREM ResetDrops == Spec => []ResetDropsSaved
<1>1. Init => Resetting
  BY DEF Init, Resetting
<1>2. Base /\ Resetting /\ [Next]_vars => Resetting'
  BY ResettingStep
<1>3. Resetting => ResetDropsSaved
  BY DEF Resetting, ResetDropsSaved
<1> QED
  BY BaseInit, BaseStep, <1>1, <1>2, <1>3, PTL DEF Spec

(* A Prune that returned without an error dropped every document that was  *)
(* old when it was called (disk_storage.go:230-257).                       *)
THEOREM PruneDrops == Spec => []PruneDropsOld
<1>1. Init => Pruning
  BY DEF Init, Pruning
<1>2. Base /\ Pruning /\ [Next]_vars => Pruning'
  BY PruningStep
<1>3. Pruning => PruneDropsOld
  BY DEF Pruning, PruneDropsOld
<1> QED
  BY BaseInit, BaseStep, <1>1, <1>2, <1>3, PTL DEF Spec

-----------------------------------------------------------------------------
(* The order of the ring. *)

LEMMA OrderStep ==
  ASSUME Base, RestoredInOrder, [Next]_vars
  PROVE  RestoredInOrder'
<1> USE DEF saveVars, resetVars, pruneVars
<1>0. TypeOK /\ Files
  BY DEF Base
<1>a. ASSUME ring' = ring
      PROVE  RestoredInOrder'
  BY <1>a DEF RestoredInOrder
<1>b. ASSUME ring' = << >>
      PROVE  RestoredInOrder'
  BY <1>b DEF RestoredInOrder
<1>1. ASSUME NEW w \in Docs, Keep(w)
      PROVE  RestoredInOrder'
  <2>1. \A n \in DOMAIN ring' :
          \/ n = 1 /\ ring'[n] = Recorded(w)
          \/ n - 1 \in DOMAIN ring /\ ring'[n] = ring[n - 1]
    BY <1>0, <1>1, KeepRing
  <2>2. DOMAIN ring \subseteq Nat /\ DOMAIN ring' \subseteq Nat
    <3>1. ring' \in Seq([of : Docs, inFlight : BOOLEAN])
      BY <1>0, <1>1, KeepRing
    <3> QED
      BY <1>0, <3>1 DEF TypeOK
  <2>3. Recorded(w).of = w /\ ~Recorded(w).inFlight
    BY DEF Recorded
  <2>4. \A n \in DOMAIN ring : ring[n].of # w
    BY <1>0, <1>1 DEF Keep, Move, Files, Ended, InRing
  <2>5. ASSUME NEW m \in DOMAIN ring', NEW n \in DOMAIN ring', ring'[m].of = ring'[n].of
        PROVE  m = n
    BY <2>1, <2>2, <2>3, <2>4, <2>5 DEF RestoredInOrder
  <2>6. ASSUME NEW m \in DOMAIN ring', NEW n \in DOMAIN ring', m < n, ring'[m].inFlight
        PROVE  ring'[n].inFlight /\ ring'[m].of > ring'[n].of
    <3>1. ring'[m] # Recorded(w)
      BY <2>3, <2>6
    <3>2. m - 1 \in DOMAIN ring /\ ring'[m] = ring[m - 1] /\ m - 1 \in Nat
      BY <2>1, <2>2, <3>1
    <3>3. n # 1
      BY <2>2, <2>6, <3>2
    <3>4. n - 1 \in DOMAIN ring /\ ring'[n] = ring[n - 1] /\ m - 1 < n - 1
      BY <2>1, <2>2, <2>6, <3>3
    <3> QED
      BY <2>6, <3>2, <3>4 DEF RestoredInOrder
  <2> QED
    BY <2>5, <2>6 DEF RestoredInOrder
<1>2. CASE Restart
  <2>1. ASSUME NEW bad, ring' = RingOf(ToRestore \ bad)
        PROVE  RestoredInOrder'
    <3>1. ToRestore \ bad \in SUBSET Docs
      BY <1>0 DEF ToRestore, TypeOK
    <3>2. /\ ring' \in Seq([of : Docs, inFlight : BOOLEAN])
          /\ \A n \in DOMAIN ring' : ring'[n].of \in Docs /\ ring'[n].inFlight
          /\ \A m, n \in DOMAIN ring' : m < n => ring'[m].of > ring'[n].of
      BY <2>1, <3>1, RingOfIs
    <3>3. DOMAIN ring' \subseteq Nat
      BY <3>2
    <3>4. ASSUME NEW m \in DOMAIN ring', NEW n \in DOMAIN ring', ring'[m].of = ring'[n].of
          PROVE  m = n
      <4>1. ring'[m].of \in Nat /\ m \in Nat /\ n \in Nat
        BY <3>2, <3>3, DocsNat
      <4>2. ~(m < n) /\ ~(n < m)
        BY <3>2, <3>4, <4>1
      <4> QED
        BY <4>1, <4>2
    <3> QED
      BY <3>2, <3>4 DEF RestoredInOrder
  <2> QED
    BY <1>2, <1>a, <2>1 DEF Restart
<1>3. ASSUME NEW w \in Docs, Write(w) \/ WriteFails(w) \/ ListToPrune(w)
                             \/ RemoveOver(w) \/ SaveFails(w)
      PROVE  RestoredInOrder'
  BY <1>3, <1>a DEF Write, WriteFails, ListToPrune, RemoveOver, SaveFails, KeepNothing
<1>4. CASE Reset
  BY <1>4, <1>a, <1>b
     DEF Reset, ResetRing, ResetList, ResetRemove, ResetReturn, ResetFails
<1>5. CASE GrowOld \/ Prune
  BY <1>5, <1>a DEF GrowOld, Prune, PruneList, PruneLook, PruneReturn
<1>6. CASE Crash
  BY <1>6, <1>b DEF Crash
<1>7. CASE UNCHANGED vars
  BY <1>7, <1>a DEF vars
<1> QED
  BY <1>1, <1>2, <1>3, <1>4, <1>5, <1>6, <1>7 DEF Next, Save

(* The ring lists this process's traces before those of earlier ones, which*)
(* come newest first, and none twice (disk_storage.go:76-114).             *)
THEOREM RestoredOrder == Spec => []RestoredInOrder
<1>1. Init => RestoredInOrder
  BY DEF Init, RestoredInOrder
<1>2. Base /\ RestoredInOrder /\ [Next]_vars => RestoredInOrder'
  BY OrderStep
<1> QED
  BY BaseInit, BaseStep, <1>1, <1>2, PTL DEF Spec

-----------------------------------------------------------------------------
(* What is served is persisted. *)

(* A document buried under a limit of newer ones stays so when documents   *)
(* are added, and when one that is itself buried is removed: a newer one   *)
(* that goes is not among the limit that bury it.                          *)
LEMMA StillBuried ==
  ASSUME NEW S \in SUBSET Docs, NEW T \in SUBSET Docs, NEW d \in Docs,
         Cardinality({j \in S : j > d}) >= Limit,
         \/ S \subseteq T
         \/ \E i \in Docs : /\ Cardinality({j \in S : j > i}) >= Limit
                           /\ T = S \ {i}
  PROVE  Cardinality({j \in T : j > d}) >= Limit
<1> DEFINE A == {j \in S : j > d}
           B == {j \in T : j > d}
<1>1. A \in SUBSET Docs /\ B \in SUBSET Docs
  OBVIOUS
<1>2. Cardinality(A) \in Nat /\ Cardinality(B) \in Nat /\ Cardinality(A) >= Limit
  BY <1>1, DocsCount
<1>3. d \in Nat /\ \A i \in Docs : i \in Nat
  BY DocsNat
<1>4. CASE S \subseteq T
  <2>1. A \in SUBSET B
    BY <1>4
  <2> HIDE DEF A, B
  <2>2. Cardinality(A) <= Cardinality(B)
    BY <1>1, <2>1, DocsCount
  <2>3. Cardinality(B) >= Limit
    BY <1>2, <2>2
  <2> QED
    BY <2>3 DEF B
<1>5. ASSUME NEW i \in Docs, Cardinality({j \in S : j > i}) >= Limit, T = S \ {i}
      PROVE  Cardinality(B) >= Limit
  <2>1. CASE ~(i \in A)
    <3>1. B = A
      BY <1>5, <2>1
    <3> QED
      BY <1>2, <3>1
  <2>2. CASE i \in A
    <3> DEFINE C == {j \in S : j > i}
    <3>1. i \in S /\ d < i
      BY <1>3, <2>2
    <3>2. Cardinality(C) < Cardinality(A)
      BY <1>3, <3>1, NewerFewer
    <3>3. C \in SUBSET Docs /\ Cardinality(C) >= Limit
      BY <1>5
    <3>4. B = A \ {i}
      BY <1>5
    <3> HIDE DEF A, B, C
    <3>5. Cardinality(C) \in Nat /\ Cardinality(B) = Cardinality(A) - 1
      BY <1>1, <2>2, <3>3, <3>4, DocsCount, FS_RemoveElement
    <3>6. Cardinality(B) >= Limit
      BY <1>2, <3>2, <3>3, <3>5
    <3> QED
      BY <3>6
  <2> QED
    BY <2>1, <2>2
<1> QED
  BY <1>4, <1>5

LEMMA ServingStep ==
  ASSUME Base, Serving, [Next]_vars
  PROVE  Serving'
<1> USE DEF saveVars, resetVars, pruneVars
<1>0. TypeOK /\ Files /\ Calls /\ TypeOK'
  BY TypeStep DEF Base
<1>1. SUFFICES ASSUME Limit > 0, resets' = 0, prunes' = 0
               PROVE  /\ \A w \in Docs : \A d \in doomed'[w] : Buried(d)'
                      /\ \A i \in Begun' : i \in folder' \/ Buried(i)'
  BY DEF Serving
<1>2. resets = 0 /\ prunes = 0
  <2>1. resets \in Nat /\ prunes \in Nat
    BY <1>0 DEF TypeOK
  <2>2. resets' \in {resets, resets + 1} /\ prunes' \in {prunes, prunes + 1}
    BY DEF Next, vars, Save, Write, WriteFails, ListToPrune, RemoveOver, SaveFails,
           Keep, Reset, ResetRing, ResetList, ResetRemove, ResetReturn, ResetFails,
           GrowOld, Prune, PruneList, PruneLook, PruneReturn, Crash, Restart
  <2> QED
    BY <1>1, <2>1, <2>2
<1>3. /\ \A w \in Docs : \A d \in doomed[w] : d \in Docs /\ Buried(d)
      /\ \A i \in Begun : i \in Docs /\ (i \in folder \/ Buried(i))
  BY <1>0, <1>1, <1>2 DEF Serving, TypeOK, Begun
<1>4. rpc = "idle" /\ ppc = "idle"
  BY <1>0, <1>2 DEF Calls
<1>a. ASSUME NEW d \in Docs, Buried(d), folder \subseteq folder'
      PROVE  Buried(d)'
  BY <1>0, <1>a, StillBuried DEF Buried, NewerInFolder, TypeOK
<1>b. ASSUME folder \subseteq folder', Begun' \subseteq Begun \cup folder',
             \A w \in Docs : \A d \in doomed'[w] : d \in doomed[w] \/ Buried(d)
      PROVE  /\ \A w \in Docs : \A d \in doomed'[w] : Buried(d)'
             /\ \A i \in Begun' : i \in folder' \/ Buried(i)'
  <2>1. ASSUME NEW w \in Docs, NEW d \in doomed'[w]
        PROVE  Buried(d)'
    <3>1. d \in Docs /\ Buried(d)
      BY <1>0, <1>3, <1>b, <2>1 DEF TypeOK
    <3> QED
      BY <1>a, <1>b, <3>1
  <2>2. ASSUME NEW i \in Begun'
        PROVE  i \in folder' \/ Buried(i)'
    <3>1. CASE i \in folder'
      BY <3>1
    <3>2. CASE i \in Begun
      BY <1>3, <1>a, <1>b, <3>2
    <3> QED
      BY <1>b, <3>1, <3>2
  <2> QED
    BY <2>1, <2>2
<1>5. ASSUME NEW w \in Docs, Write(w)
      PROVE  folder \subseteq folder' /\ Begun' \subseteq Begun \cup folder'
             /\ \A v \in Docs : doomed'[v] = doomed[v]
  BY <1>0, <1>5 DEF Write, Move, Begun, TypeOK
<1>6. ASSUME NEW w \in Docs, WriteFails(w) \/ SaveFails(w) \/ Keep(w)
      PROVE  folder = folder' /\ Begun' \subseteq Begun
             /\ \A v \in Docs : doomed'[v] \subseteq doomed[v]
  BY <1>0, <1>6 DEF WriteFails, SaveFails, Keep, Move, Begun, TypeOK
<1>7. ASSUME NEW w \in Docs, ListToPrune(w)
      PROVE  folder = folder' /\ Begun' \subseteq Begun
             /\ \A v \in Docs : \A d \in doomed'[v] : d \in doomed[v] \/ Buried(d)
  <2>1. \A d \in Over(folder) : Buried(d)
    BY DEF Over, Buried, NewerInFolder
  <2> QED
    BY <1>0, <1>7, <2>1 DEF ListToPrune, Move, Begun, TypeOK
<1>8. ASSUME NEW w \in Docs, RemoveOver(w)
      PROVE  /\ \A v \in Docs : \A d \in doomed'[v] : Buried(d)'
             /\ \A i \in Begun' : i \in folder' \/ Buried(i)'
  <2> DEFINE k == Min(doomed[w])
  <2>1. doomed[w] \in SUBSET Docs /\ doomed[w] # {}
    BY <1>0, <1>8 DEF RemoveOver, TypeOK
  <2>2. k \in doomed[w]
    BY <2>1, MinIn
  <2>3. folder' = folder \ {k} /\ wpc' = wpc /\ \A v \in Docs : doomed'[v] \subseteq doomed[v]
    BY <1>0, <1>8 DEF RemoveOver, TypeOK
  <2> HIDE DEF k
  <2>4. k \in Docs /\ Buried(k)
    BY <1>3, <2>2
  <2>5. ASSUME NEW d \in Docs, Buried(d)
        PROVE  Buried(d)'
    <3>1. folder \in SUBSET Docs /\ folder' \in SUBSET Docs
      BY <1>0 DEF TypeOK
    <3>2. \E i \in Docs : /\ Cardinality({j \in folder : j > i}) >= Limit
                        /\ folder' = folder \ {i}
      BY <2>3, <2>4 DEF Buried, NewerInFolder
    <3>3. Cardinality({j \in folder : j > d}) >= Limit
      BY <2>5 DEF Buried, NewerInFolder
    <3>4. Cardinality({j \in folder' : j > d}) >= Limit
      BY <3>1, <3>2, <3>3, StillBuried
    <3> QED
      BY <3>4 DEF Buried, NewerInFolder
  <2>6. Begun' = Begun
    BY <2>3 DEF Begun
  <2>7. ASSUME NEW i \in Begun
        PROVE  i \in folder' \/ Buried(i)'
    <3>1. CASE i = k
      BY <2>4, <2>5, <3>1
    <3>2. CASE i # k /\ i \in folder
      BY <2>3, <3>2
    <3>3. CASE Buried(i)
      BY <1>3, <2>5, <2>7, <3>3
    <3> QED
      BY <1>3, <2>7, <3>1, <3>2, <3>3
  <2> QED
    BY <1>3, <2>3, <2>5, <2>6, <2>7
<1>9. ASSUME Reset \/ Prune
      PROVE  FALSE
  BY <1>1, <1>2, <1>4, <1>9
     DEF Reset, ResetRing, ResetList, ResetRemove, ResetReturn, ResetFails,
         Prune, PruneList, PruneLook, PruneReturn
<1>10. ASSUME Crash
       PROVE  folder = folder' /\ Begun' \subseteq Begun /\ \A v \in Docs : doomed'[v] = {}
  BY <1>0, <1>10 DEF Crash, Begun
<1>11. ASSUME GrowOld \/ Restart \/ UNCHANGED vars
       PROVE  folder = folder' /\ Begun' = Begun /\ doomed' = doomed
  BY <1>11 DEF GrowOld, Restart, vars, Begun
<1> QED
  BY <1>b, <1>5, <1>6, <1>7, <1>8, <1>9, <1>10, <1>11 DEF Next, Save

(* Without a Reset or a Prune, every trace the ring serves and every trace *)
(* whose Save returned is in the folder or has a limit of newer documents  *)
(* there, however saves interleave and wherever the process ends           *)
(* (disk_storage.go:116-143).                                              *)
THEOREM ServedPersisted == Spec => []ServedIsPersistedOrOld
<1>1. Init => Serving
  BY DEF Init, Serving, Begun
<1>2. Base /\ Serving /\ [Next]_vars => Serving'
  BY ServingStep
<1>3. Base /\ Serving => ServedIsPersistedOrOld
  <2> SUFFICES ASSUME Base, Serving, Limit > 0, resets = 0, prunes = 0,
                      NEW i \in InRing \cup {w \in Docs : wpc[w] = "saved"}
               PROVE  i \in folder \/ NewerInFolder(i) >= Limit
    BY DEF ServedIsPersistedOrOld
  <2>1. i \in Begun
    BY DEF Base, Files, Ended, Begun
  <2> QED
    BY <2>1 DEF Serving, Buried
<1> QED
  BY BaseInit, BaseStep, <1>1, <1>2, <1>3, PTL DEF Spec

-----------------------------------------------------------------------------
(* The folder's bound. *)

(* A step keeps the bound for Q when what Q would leave is among what some *)
(* prunes P would have left, and no fewer saves are under way.             *)
LEMMA CountKept ==
  ASSUME TypeOK, TypeOK', Counting, Limit > 0, NEW P \in SUBSET Pruners, NEW Q,
         Left(Q)' \subseteq Left(P), Busy \ P \subseteq Busy' \ Q
  PROVE  Cardinality(Left(Q)') <= Limit + Cardinality(Busy' \ Q)
<1>1. Left(P) \in SUBSET Docs /\ Left(Q)' \in SUBSET Left(P)
  BY DEF Left, TypeOK
<1>2. Busy \ P \in SUBSET (Busy' \ Q) /\ Busy' \ Q \in SUBSET Docs
  BY DEF Busy
<1>3. Cardinality(Left(P)) <= Limit + Cardinality(Busy \ P)
  BY DEF Counting
<1>4. /\ Cardinality(Left(Q)') <= Cardinality(Left(P))
      /\ Cardinality(Left(Q)') \in Nat /\ Cardinality(Left(P)) \in Nat
  BY <1>1, DocsCount
<1>5. /\ Cardinality(Busy \ P) <= Cardinality(Busy' \ Q)
      /\ Cardinality(Busy \ P) \in Nat /\ Cardinality(Busy' \ Q) \in Nat
  BY <1>2, DocsCount
<1> QED
  BY <1>3, <1>4, <1>5

LEMMA CountingStep ==
  ASSUME Base, Counting, [Next]_vars
  PROVE  Counting'
<1> USE DEF saveVars, resetVars, pruneVars
<1>0. TypeOK /\ Files /\ TypeOK'
  BY TypeStep DEF Base
<1>1. SUFFICES ASSUME Limit > 0, NEW Q \in SUBSET Pruners'
               PROVE  Cardinality(Left(Q)') <= Limit + Cardinality(Busy' \ Q)
  BY DEF Counting
<1>2. Q \subseteq Docs /\ \A v \in Q : wpc'[v] = "pruning"
  BY DEF Pruners
<1>a. ASSUME NEW P \in SUBSET Pruners,
             Left(Q)' \subseteq Left(P), Busy \ P \subseteq Busy' \ Q
      PROVE  Cardinality(Left(Q)') <= Limit + Cardinality(Busy' \ Q)
  BY <1>0, <1>1, <1>a, CountKept
<1>b. ASSUME Q \subseteq Pruners, Busy \subseteq Busy', folder' \subseteq folder,
             \A v \in Q : doomed'[v] = doomed[v]
      PROVE  Cardinality(Left(Q)') <= Limit + Cardinality(Busy' \ Q)
  BY <1>a, <1>b DEF Left
<1>3. ASSUME NEW w \in Docs, Write(w)
      PROVE  Cardinality(Left(Q)') <= Limit + Cardinality(Busy' \ Q)
  <2>1. /\ Q \subseteq Pruners /\ w \notin Q
        /\ w \notin Busy /\ Busy' = Busy \cup {w}
    BY <1>0, <1>2, <1>3 DEF Write, Move, Pruners, Busy, TypeOK
  <2>2. Left(Q)' \subseteq Left(Q) \cup {w}
    BY <1>3 DEF Write, Left
  <2> DEFINE A == Left(Q)
             B == Left(Q)'
             M == Busy \ Q
             N == Busy' \ Q
  <2>3. A \in SUBSET Docs /\ A \cup {w} \in SUBSET Docs /\ B \in SUBSET (A \cup {w})
    BY <1>0, <2>2 DEF Left, TypeOK
  <2>4. M \in SUBSET Docs /\ N = M \cup {w} /\ w \notin M
    BY <2>1 DEF Busy
  <2>5. Cardinality(A) <= Limit + Cardinality(M)
    BY <1>1, <2>1 DEF Counting
  <2> HIDE DEF A, B, M, N
  <2>6. Cardinality(B) <= Cardinality(A \cup {w}) /\ Cardinality(B) \in Nat
    BY <2>3, DocsCount
  <2>7. Cardinality(A \cup {w}) <= Cardinality(A) + 1 /\ Cardinality(A) \in Nat
        /\ Cardinality(A \cup {w}) \in Nat
    BY <2>3, DocsCount, FS_AddElement
  <2>8. Cardinality(N) = Cardinality(M) + 1 /\ Cardinality(M) \in Nat
    BY <2>4, DocsCount, FS_AddElement
  <2>9. Cardinality(B) <= Limit + Cardinality(N)
    BY <2>5, <2>6, <2>7, <2>8
  <2> QED
    BY <2>9 DEF B, N
<1>4. ASSUME NEW w \in Docs, WriteFails(w)
      PROVE  Cardinality(Left(Q)') <= Limit + Cardinality(Busy' \ Q)
  <2>1. Q \subseteq Pruners /\ Busy \subseteq Busy'
    BY <1>0, <1>2, <1>4 DEF WriteFails, Move, Pruners, Busy, TypeOK
  <2> QED
    BY <1>4, <1>b, <2>1 DEF WriteFails
<1>5. ASSUME NEW w \in Docs, ListToPrune(w)
      PROVE  Cardinality(Left(Q)') <= Limit + Cardinality(Busy' \ Q)
  <2>1. CASE w \in Q
    <3>1. Left(Q)' \subseteq folder \ Over(folder)
      BY <1>0, <1>1, <1>5, <2>1 DEF ListToPrune, Left, TypeOK
    <3>2. folder \in SUBSET Docs /\ folder \ Over(folder) \in SUBSET Docs
          /\ Left(Q)' \in SUBSET (folder \ Over(folder)) /\ Busy' \ Q \in SUBSET Docs
      BY <1>0, <3>1 DEF TypeOK, Busy
    <3>3. Cardinality(folder \ Over(folder)) <= Limit
      BY <1>1, <3>2, OverLeaves
    <3>4. /\ Cardinality(Left(Q)') <= Cardinality(folder \ Over(folder))
          /\ Cardinality(Left(Q)') \in Nat
          /\ Cardinality(folder \ Over(folder)) \in Nat
          /\ Cardinality(Busy' \ Q) \in Nat
      BY <3>2, DocsCount
    <3> QED
      BY <3>3, <3>4
  <2>2. CASE w \notin Q
    <3>1. /\ Q \subseteq Pruners /\ Busy \subseteq Busy'
          /\ \A v \in Q : doomed'[v] = doomed[v]
      BY <1>0, <1>2, <1>5, <2>2 DEF ListToPrune, Move, Pruners, Busy, TypeOK
    <3> QED
      BY <1>5, <1>b, <3>1 DEF ListToPrune
  <2> QED
    BY <2>1, <2>2
<1>6. ASSUME NEW w \in Docs, RemoveOver(w)
      PROVE  Cardinality(Left(Q)') <= Limit + Cardinality(Busy' \ Q)
  <2>1. Q \in SUBSET Pruners /\ Busy' = Busy
    BY <1>6 DEF RemoveOver, Pruners, Busy
  <2>2. \E k : /\ folder' = folder \ {k}
              /\ \A v \in Docs : doomed[v] \subseteq doomed'[v] \cup {k}
    BY <1>0, <1>6 DEF RemoveOver, TypeOK
  <2>3. Left(Q)' \subseteq Left(Q)
    BY <1>2, <2>2 DEF Left
  <2> QED
    BY <1>a, <2>1, <2>3
<1>7. ASSUME NEW w \in Docs, SaveFails(w)
      PROVE  Cardinality(Left(Q)') <= Limit + Cardinality(Busy' \ Q)
  <2>1. /\ Q \subseteq Pruners /\ Busy \subseteq Busy'
        /\ \A v \in Q : doomed'[v] = doomed[v]
    BY <1>0, <1>2, <1>7 DEF SaveFails, Move, Pruners, Busy, TypeOK
  <2> QED
    BY <1>7, <1>b, <2>1 DEF SaveFails
<1>8. ASSUME NEW w \in Docs, Keep(w)
      PROVE  Cardinality(Left(Q)') <= Limit + Cardinality(Busy' \ Q)
  <2> DEFINE P == Q \cup {w}
  <2>1. P \in SUBSET Pruners /\ Busy \ P \subseteq Busy' \ Q
    BY <1>0, <1>2, <1>8 DEF Keep, Move, Pruners, Busy, TypeOK
  <2>2. Left(Q)' \subseteq Left(P)
    BY <1>8 DEF Keep, Left
  <2> HIDE DEF P
  <2> QED
    BY <1>a, <2>1, <2>2
<1>9. ASSUME Reset \/ GrowOld \/ Prune \/ Restart \/ UNCHANGED vars
      PROVE  Cardinality(Left(Q)') <= Limit + Cardinality(Busy' \ Q)
  <2>1. folder' \subseteq folder /\ wpc' = wpc /\ doomed' = doomed
    BY <1>9 DEF Reset, ResetRing, ResetList, ResetRemove, ResetReturn, ResetFails,
                GrowOld, Prune, PruneList, PruneLook, PruneReturn, Restart, vars
  <2>2. Q \subseteq Pruners /\ Busy \subseteq Busy'
    BY <2>1 DEF Pruners, Busy
  <2> QED
    BY <1>b, <2>1, <2>2
<1>10. CASE Crash
  <2>1. Q \subseteq Pruners /\ Q = {} /\ Busy \subseteq Busy' /\ folder' = folder
    BY <1>0, <1>2, <1>10 DEF Crash, Pruners, Busy, TypeOK
  <2> QED
    BY <1>b, <2>1
<1> QED
  BY <1>3, <1>4, <1>5, <1>6, <1>7, <1>8, <1>9, <1>10 DEF Next, Save

(* The folder exceeds its limit by no more than the saves under way or cut *)
(* short, however their prunes interleave with each other, with a Reset    *)
(* and with a Prune (disk_storage.go:141-143, 278-292).                    *)
THEOREM FolderFits == Spec => []FolderBounded
<1>1. Init => Counting
  <2> SUFFICES ASSUME Init, Limit > 0, NEW P \in SUBSET Pruners
               PROVE  Cardinality(Left(P)) <= Limit + Cardinality(Busy \ P)
    BY DEF Counting
  <2>1. Left(P) = {} /\ Busy \ P \in SUBSET Docs
    BY DEF Init, Left, Busy
  <2> QED
    BY <2>1, DocsCount, FS_EmptySet
<1>2. Base /\ Counting /\ [Next]_vars => Counting'
  BY CountingStep
<1>3. Counting => FolderBounded
  <2> SUFFICES ASSUME Counting, Limit > 0
               PROVE  Cardinality(folder) <= Limit + Cardinality(Busy)
    BY DEF FolderBounded, Busy
  <2>1. {} \in SUBSET Pruners /\ Left({}) = folder /\ Busy \ {} = Busy
    BY DEF Left
  <2> QED
    BY <2>1 DEF Counting
<1> QED
  BY BaseInit, BaseStep, <1>1, <1>2, <1>3, PTL DEF Spec
=============================================================================
