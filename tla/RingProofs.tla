----------------------------- MODULE RingProofs -----------------------------
(***************************************************************************)
(* For every size New is called with, the ring buffer is the bounded log   *)
(* of the last size pushes. The inductive invariant is RingTypeOK together *)
(* with UnwrittenIsZero: a slot past next is zero until the ring wraps.    *)
(***************************************************************************)
EXTENDS Ring, DataProofs

(* The index arithmetic of List (ring.go:71) adds twice the size before it *)
(* takes the remainder.                                                    *)
LEMMA ModThrice ==
  ASSUME NEW n \in Nat \ {0}, NEW x \in Nat, x < 3 * n
  PROVE  x % n = IF x < n THEN x ELSE IF x < 2 * n THEN x - n ELSE x - 2 * n
<1>1. CASE x < n
  BY <1>1
<1>2. CASE n <= x /\ x < 2 * n
  BY <1>2
<1>3. CASE 2 * n <= x
  BY <1>3
<1> QED
  BY <1>1, <1>2, <1>3

LEMMA ZeroIsNoEntry ==
  ASSUME NEW e \in Entries
  PROVE  e # Zero
BY RingAssumption DEF Entries, Zero

(* Push moves next by one slot and back to the first after the last.       *)
LEMMA AdvanceWraps ==
  ASSUME NEW n \in Nat \ {0}, NEW x \in 0..(n - 1)
  PROVE  (x + 1) % n = IF x = n - 1 THEN 0 ELSE x + 1
<1> DEFINE y == x + 1
<1>1. y \in Nat /\ y < 3 * n
  OBVIOUS
<1>2. y % n = IF y < n THEN y ELSE IF y < 2 * n THEN y - n ELSE y - 2 * n
  <2> HIDE DEF y
  <2> QED
    BY <1>1, ModThrice
<1> QED
  BY <1>2

(* The i-th newest slot lies i slots before next, around the end.          *)
LEMMA IndexWraps ==
  ASSUME NEW n \in Nat \ {0}, NEW x \in 0..(n - 1), NEW i \in 1..n
  PROVE  (x - i + 2 * n) % n = IF i <= x THEN x - i ELSE x - i + n
<1> DEFINE y == x - i + 2 * n
<1>1. y \in Nat /\ y < 3 * n
  OBVIOUS
<1>2. y % n = IF y < n THEN y ELSE IF y < 2 * n THEN y - n ELSE y - 2 * n
  <2> HIDE DEF y
  <2> QED
    BY <1>1, ModThrice
<1> QED
  BY <1>2

IInv == RingTypeOK /\ UnwrittenIsZero

LEMMA InitIInv == RingInit => IInv
<1> SUFFICES ASSUME NEW n \in RequestedSizes, New(n)
             PROVE  IInv
  BY DEF RingInit
<1>1. size \in Nat
  BY RingAssumption DEF New
<1>2. slots = [i \in 0..(size - 1) |-> Zero] /\ next = 0 /\ full = FALSE
     /\ evicted = FALSE
  BY DEF New, ZeroSlots
<1>3. RingTypeOK
  <2>1. Zero \in Slots
    BY DEF Slots
  <2>2. slots \in [0..(size - 1) -> Slots]
    BY <1>2, <2>1
  <2>3. next \in 0..(IF size = 0 THEN 0 ELSE size - 1)
    BY <1>1, <1>2
  <2> QED
    BY <1>1, <1>2, <2>2, <2>3 DEF RingTypeOK
<1>4. UnwrittenIsZero
  BY <1>1, <1>2 DEF UnwrittenIsZero
<1> QED
  BY <1>3, <1>4 DEF IInv

LEMMA StepIInv == IInv /\ [RingNext]_ringVars => IInv'
<1> SUFFICES ASSUME IInv, [RingNext]_ringVars
             PROVE  IInv'
  OBVIOUS
<1>1. ASSUME NEW e \in Entries, PushNothing(e)
      PROVE  IInv'
  BY <1>1 DEF PushNothing, IInv, RingTypeOK, UnwrittenIsZero
<1>2. ASSUME NEW e \in Entries, PushSlot(e)
      PROVE  IInv'
  <2>0. size \in Nat \ {0} /\ next \in 0..(size - 1)
    BY <1>2 DEF PushSlot, IInv, RingTypeOK
  <2>1. size > 0 /\ next' = IF next = size - 1 THEN 0 ELSE next + 1
    BY <1>2, <2>0, AdvanceWraps DEF PushSlot, Advance
  <2>2. RingTypeOK'
    BY <1>2, <2>1 DEF PushSlot, IInv, RingTypeOK, Slots, Evicts
  <2>3. UnwrittenIsZero'
    <3> SUFFICES ASSUME NEW i \in 0..(size - 1)
                 PROVE  slots'[i] = Zero <=> ~full' /\ i >= next'
      BY <1>2 DEF PushSlot, UnwrittenIsZero
    <3>1. slots'[i] = IF i = next THEN e ELSE slots[i]
      BY <1>2 DEF PushSlot, IInv, RingTypeOK
    <3>2. full' <=> full \/ next' = 0
      BY <1>2 DEF PushSlot
    <3>3. i \in Int /\ next \in 0..(size - 1) /\ size \in Nat
      BY <2>1 DEF IInv, RingTypeOK
    <3>4. slots[i] = Zero <=> ~full /\ i >= next
      BY DEF IInv, UnwrittenIsZero
    <3>5. CASE i = next
      BY <2>1, <3>1, <3>2, <3>3, <3>5, ZeroIsNoEntry
    <3>6. CASE i # next
      BY <2>1, <3>1, <3>2, <3>3, <3>4, <3>6
    <3> QED
      BY <3>5, <3>6
  <2> QED
    BY <2>2, <2>3 DEF IInv
<1>3. CASE Reset
  <2>1. /\ slots' = [i \in 0..(size - 1) |-> Zero] /\ next' = 0 /\ full' = FALSE
        /\ size' = size /\ evicted' = evicted
    BY <1>3 DEF Reset, Cleared, ZeroSlots
  <2>2. RingTypeOK'
    <3>1. Zero \in Slots /\ size \in Nat /\ evicted \in BOOLEAN
      BY DEF IInv, RingTypeOK, Slots
    <3>2. slots' \in [0..(size - 1) -> Slots]
      BY <2>1, <3>1
    <3>3. 0 \in 0..(IF size = 0 THEN 0 ELSE size - 1)
      BY <3>1
    <3> QED
      BY <2>1, <3>1, <3>2, <3>3 DEF RingTypeOK
  <2>3. UnwrittenIsZero'
    BY <2>1 DEF IInv, RingTypeOK, UnwrittenIsZero
  <2> QED
    BY <2>2, <2>3 DEF IInv
<1>4. CASE UNCHANGED ringVars
  BY <1>4 DEF ringVars, IInv, RingTypeOK, UnwrittenIsZero
<1> QED
  BY <1>1, <1>2, <1>3, <1>4 DEF RingNext, Push

(* Every slot is of a trace or zero, and the indices stay in range. *)
THEOREM RingType == RingSpec => []RingTypeOK
<1>1. IInv => RingTypeOK
  BY DEF IInv
<1> QED
  BY <1>1, InitIInv, StepIInv, PTL DEF RingSpec

(* A slot that was not written since the ring was made or reset is zero.   *)
THEOREM RingUnwritten == RingSpec => []UnwrittenIsZero
<1>1. IInv => UnwrittenIsZero
  BY DEF IInv
<1> QED
  BY <1>1, InitIInv, StepIInv, PTL DEF RingSpec

(* The written slots form a sequence of the length Len reports. *)
LEMMA WindowIsSeq ==
  ASSUME IInv
  PROVE  /\ RingLen \in 0..size
         /\ Window \in Seq(Slots)
         /\ Len(Window) = RingLen
<1>1. RingLen \in 0..size
  BY DEF IInv, RingTypeOK, RingLen
<1>2. ASSUME NEW i \in 1..RingLen
      PROVE  slots[Index(i)] \in Slots
  <2>1. size \in Nat \ {0} /\ next \in 0..(size - 1) /\ i \in 1..size
    BY <1>1, <1>2 DEF IInv, RingTypeOK
  <2>2. Index(i) \in 0..(size - 1)
    BY <2>1, IndexWraps DEF Index
  <2> QED
    BY <2>2 DEF IInv, RingTypeOK
<1> QED
  BY <1>1, <1>2 DEF Window

(* A Push is a save of the bounded log: the new trace is the first, each    *)
(* earlier one moves back by one, and the oldest goes when the ring is full.*)
LEMMA PushIsSave ==
  ASSUME IInv, IInv', NEW e \in Entries, PushSlot(e)
  PROVE  Window' = Saved(Window, e, size)
<1> DEFINE n == RingLen
           w == Saved(Window, e, size)
<1>0. size \in Nat \ {0} /\ size' = size /\ next \in 0..(size - 1)
  BY DEF PushSlot, IInv, RingTypeOK
<1>1. /\ size \in Nat \ {0} /\ size' = size
      /\ next \in 0..(size - 1) /\ next' \in 0..(size - 1)
      /\ next' = IF next = size - 1 THEN 0 ELSE next + 1
      /\ slots' = [slots EXCEPT ![next] = e]
      /\ full' = (full \/ next' = 0)
      /\ slots \in [0..(size - 1) -> Slots]
  <2>1. next' = IF next = size - 1 THEN 0 ELSE next + 1
    BY <1>0, AdvanceWraps DEF PushSlot, Advance
  <2>2. slots \in [0..(size - 1) -> Slots]
    BY DEF IInv, RingTypeOK
  <2>3. slots' = [slots EXCEPT ![next] = e] /\ full' = (full \/ next' = 0)
    BY DEF PushSlot
  <2>4. next' \in 0..(size - 1)
    BY <1>0, <2>1
  <2> QED
    BY <1>0, <2>1, <2>2, <2>3, <2>4
<1>2. /\ n \in 0..size /\ Window \in Seq(Slots) /\ Len(Window) = n
      /\ n = IF full THEN size ELSE next
  BY WindowIsSeq DEF RingLen
<1>3. RingLen' = IF n + 1 < size THEN n + 1 ELSE size
  BY <1>1, <1>2 DEF RingLen
<1>4. /\ w \in Seq(Slots)
      /\ Len(w) = RingLen'
      /\ \A i \in 1..Len(w) : w[i] = IF i = 1 THEN e ELSE Window[i - 1]
  <2>1. e \in Slots /\ size \in Nat
    BY <1>1 DEF Slots
  <2>2. Window \in Seq(Slots)
    BY <1>2
  <2>3. w \in Seq(Slots)
    BY <2>1, <2>2, SavedEntries
  <2>4. Len(w) = Smaller(Len(Window) + 1, size)
    BY <2>1, <2>2, SavedEntries
  <2>5. \A i \in 1..Len(w) : w[i] = IF i = 1 THEN e ELSE Window[i - 1]
    BY <2>1, <2>2, SavedEntries
  <2>6. Len(w) = RingLen'
    BY <1>2, <1>3, <2>4 DEF Smaller
  <2> QED
    BY <2>3, <2>5, <2>6
<1>5. ASSUME NEW i \in 1..RingLen'
      PROVE  Window'[i] = IF i = 1 THEN e ELSE Window[i - 1]
  <2>1. Window'[i] = slots'[Index(i)']
    BY <1>5 DEF Window
  <2>2. i \in 1..size
    BY <1>1, <1>2, <1>3
  <2>3. Index(i)' = IF i <= next' THEN next' - i ELSE next' - i + size
    BY <1>1, <2>2, IndexWraps DEF Index
  <2>4. CASE i = 1
    <3>1. Index(i)' = next
      BY <1>1, <2>3, <2>4
    <3> QED
      BY <1>1, <2>1, <2>4, <3>1
  <2>5. CASE i # 1
    <3>1. i - 1 \in 1..size /\ i - 1 \in 1..n
      BY <1>1, <1>2, <1>3, <2>2, <2>5
    <3>2. Index(i - 1) = IF i - 1 <= next THEN next - (i - 1)
                         ELSE next - (i - 1) + size
      BY <1>1, <3>1, IndexWraps DEF Index
    <3>3. Index(i)' = Index(i - 1) /\ Index(i)' # next
          /\ Index(i)' \in 0..(size - 1)
      BY <1>1, <2>2, <2>3, <2>5, <3>1, <3>2
    <3>4. Window[i - 1] = slots[Index(i - 1)]
      BY <3>1 DEF Window
    <3> QED
      BY <1>1, <2>1, <2>5, <3>3, <3>4
  <2> QED
    BY <2>4, <2>5
<1>6. Window' = [i \in 1..RingLen' |-> Window'[i]]
  BY DEF Window
<1>7. w = [i \in 1..RingLen' |-> w[i]]
  BY <1>4
<1> HIDE DEF w
<1>8. \A i \in 1..RingLen' : Window'[i] = w[i]
  BY <1>4, <1>5
<1>9. Window' = w
  BY <1>6, <1>7, <1>8
<1> QED
  BY <1>9 DEF w

LEMMA InitImplements == RingInit => Log!Init
<1> SUFFICES ASSUME RingInit
             PROVE  Log!Init
  OBVIOUS
<1>1. size \in Nat /\ RingLen = 0
  BY InitIInv DEF RingInit, New, RingLen, IInv, RingTypeOK
<1>2. Window = << >>
  BY <1>1 DEF Window
<1> QED
  BY <1>1, <1>2 DEF Log!Init

LEMMA StepImplements == IInv /\ IInv' /\ [RingNext]_ringVars => [Log!Next]_Log!vars
<1> SUFFICES ASSUME IInv, IInv', [RingNext]_ringVars
             PROVE  [Log!Next]_Log!vars
  OBVIOUS
<1>1. ASSUME NEW e \in Entries, PushNothing(e)
      PROVE  Log!Next
  <2>1. Window = << >> /\ Window' = << >> /\ size = 0 /\ size' = size
    BY <1>1 DEF PushNothing, IInv, RingTypeOK, Window, RingLen
  <2>2. Log!Saved(Window, e, size) = << >>
    BY <2>1 DEF Log!Saved, Log!Newest, Log!Smaller
  <2> QED
    BY <2>1, <2>2 DEF Log!Next, Log!Save
<1>2. ASSUME NEW e \in Entries, PushSlot(e)
      PROVE  Log!Next
  <2>1. Window' = Saved(Window, e, size)
    BY <1>2, PushIsSave
  <2>2. Window' = Log!Saved(Window, e, size)
    BY <2>1 DEF Saved, Newest, Smaller, Log!Saved, Log!Newest, Log!Smaller
  <2> QED
    BY <1>2, <2>2 DEF PushSlot, Log!Next, Log!Save
<1>3. CASE Reset
  <2>1. Window' = << >> /\ size' = size
    BY <1>3 DEF Reset, Window, RingLen
  <2> QED
    BY <2>1 DEF Log!Next, Log!Clear
<1>4. CASE UNCHANGED ringVars
  BY <1>4 DEF ringVars, Log!vars, Window, RingLen, Index
<1> QED
  BY <1>1, <1>2, <1>3, <1>4 DEF RingNext, Push

(* The ring implements the bounded log: for any size, what it lists is the *)
(* newest size pushes since the last Reset, newest first (ring.go:30-100). *)
THEOREM RingImplementsBoundedLog == RingSpec => ImplementsBoundedLog
<1>1. RingInit /\ [][RingNext]_ringVars => []IInv
  BY InitIInv, StepIInv, PTL
<1> QED
  BY <1>1, InitImplements, StepImplements, PTL
  DEF RingSpec, ImplementsBoundedLog, Log!Spec

(* The slot the next Push rewrites holds the oldest entry of a full ring,  *)
(* and no trace while the ring has not wrapped.                            *)
LEMMA EvictsOldest ==
  ASSUME IInv, size > 0
  PROVE  Evicts <=> RingLen = size /\ HasId(Window[RingLen])
<1>1. size \in Nat \ {0} /\ next \in 0..(size - 1) /\ size \in 1..size
  BY DEF IInv, RingTypeOK
<1>2. CASE full
  <2>1. RingLen = size /\ Window[size] = slots[Index(size)]
    BY <1>1, <1>2 DEF RingLen, Window
  <2>2. Index(size) = next
    BY <1>1, IndexWraps DEF Index
  <2> QED
    BY <2>1, <2>2 DEF Evicts, HasId
<1>3. CASE ~full
  <2>1. slots[next] = Zero /\ RingLen # size
    BY <1>1, <1>3 DEF IInv, UnwrittenIsZero, RingLen
  <2> QED
    BY <2>1 DEF Evicts, Zero
<1> QED
  BY <1>2, <1>3

(* An eviction is reported when the number of listed traces stays the same *)
(* although a trace with an ID came (ring.go:26-41).                       *)
LEMMA PushReports ==
  ASSUME IInv, IInv', NEW e \in Entries, Push(e), HasId(e)
  PROVE  evicted' <=> Len(List(0))' = Len(List(0))
<1> DEFINE S == {x \in Slots : HasId(x)}
<1>1. List(0) = Sifted(Window, S) /\ List(0)' = Sifted(Window', S)
  BY DEF List, HasId
<1>2. CASE PushNothing(e)
  <2>1. Window' = Window
    BY <1>2 DEF PushNothing, Window, RingLen, Index
  <2> QED
    BY <1>1, <1>2, <2>1 DEF PushNothing
<1>3. CASE PushSlot(e)
  <2>1. size \in Nat \ {0}
    BY <1>3 DEF PushSlot, IInv, RingTypeOK
  <2>2. RingLen \in 0..size /\ Window \in Seq(Slots) /\ Len(Window) = RingLen
    BY WindowIsSeq
  <2>3. Window' = Saved(Window, e, size)
    BY <1>3, PushIsSave
  <2>4. e \in Slots /\ e \in S
    BY DEF Slots
  <2>5. evicted' <=> Len(Window) = size /\ Window[size] \in S
    <3>1. evicted' = Evicts
      BY <1>3 DEF PushSlot
    <3>2. Len(Window) = size => Window[size] \in Slots
      BY <2>1, <2>2
    <3> QED
      BY <2>1, <2>2, <3>1, <3>2, EvictsOldest
  <2> DEFINE lost == IF Len(Window) = size /\ Window[size] \in S THEN 1 ELSE 0
  <2> HIDE DEF S
  <2>6. /\ Len(Sifted(Window, S)) \in Nat
        /\ Len(Sifted(Saved(Window, e, size), S)) =
             Len(Sifted(Window, S)) + (IF e \in S THEN 1 ELSE 0) - lost
    BY <2>1, <2>2, <2>4, KeptSaved
  <2>7. lost = IF evicted' THEN 1 ELSE 0
    BY <2>5
  <2> HIDE DEF lost
  <2>8. Len(Sifted(Window', S)) = Len(Sifted(Window, S)) + 1 - lost
    BY <2>3, <2>4, <2>6
  <2> QED
    BY <1>1, <2>6, <2>7, <2>8
<1> QED
  BY <1>2, <1>3 DEF Push

(* For any size, a Push reports an eviction exactly when a listed trace is *)
(* lost, be it the pushed one in a ring without slots (ring.go:26-41).     *)
THEOREM RingEvictions == RingSpec => EvictionReported
<1>1. IInv /\ IInv' /\ [RingNext]_ringVars =>
        [\A e \in Entries :
           (Push(e) /\ HasId(e)) => (evicted' <=> Len(List(0))' = Len(List(0)))]_ringVars
  BY PushReports
<1> QED
  BY <1>1, InitIInv, StepIInv, PTL DEF RingSpec, EvictionReported
=============================================================================
