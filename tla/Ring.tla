-------------------------------- MODULE Ring --------------------------------
(***************************************************************************)
(* The ring buffer of completed traces (internal/ring/ring.go) behind the  *)
(* lock of the in-memory storage (storage/memory_storage.go), which holds  *)
(* it around every call, so one operation is one step.                     *)
(*                                                                         *)
(* A slot holds the clone of a trace, of which only the ID matters here,   *)
(* together with a tag that tells two traces of the same ID apart. A slot  *)
(* never written is a zero trace, whose ID is the empty string: List skips *)
(* it, and it would skip a saved trace whose ID is empty as well (Restore  *)
(* can decode one from a document without an ID).                          *)
(***************************************************************************)
EXTENDS Integers, Sequences, Retention

CONSTANTS
  Ids,              \* trace IDs other than the empty string
  Tags,             \* what tells two traces with the same ID apart
  NoId,             \* the empty string
  Blank,            \* the tag of a slot that was never written
  RequestedSizes    \* the sizes New is called with

ASSUME RingAssumption ==
  /\ NoId \notin Ids
  /\ Blank \notin Tags
  /\ RequestedSizes \subseteq Int

VARIABLES
  size,             \* len(r.items), fixed by New
  slots,            \* r.items
  next,             \* r.next, the slot the next Push rewrites
  full,             \* r.full
  evicted           \* what the last Push returned

ringVars == <<size, slots, next, full, evicted>>

Zero    == [id |-> NoId, tag |-> Blank]
Entries == [id : Ids \cup {NoId}, tag : Tags]
Slots   == Entries \cup {Zero}

-----------------------------------------------------------------------------
(* What the read operations return. *)

RingLen == IF full THEN size ELSE next

(* Mutant: the newest trace is looked for in the slot to be written next. *)
IndexOffByOne(i) == (next + 1 - i + 2 * size) % size

(* The slot of the i-th newest trace. *)
Index(i) == (next - i + 2 * size) % size

(* The written slots, newest first, before List leaves out those without   *)
(* an ID.                                                                  *)
Window == [i \in 1..RingLen |-> slots[Index(i)]]

HasId(e) == e.id # NoId

(* List(limit) of the memory storage; a limit of zero lists everything. *)
List(n) ==
  LET retained == Sifted(Window, {e \in Slots : HasId(e)})
  IN  IF n > 0 /\ Len(retained) > n THEN SubSeq(retained, 1, n) ELSE retained

-----------------------------------------------------------------------------
(* Mutants: Push does not wrap, it takes a full ring for an eviction, and   *)
(* Reset only rewinds.                                                      *)
AdvanceUnwrapped == next + 1
EvictsIfFull == full
KeptSlots == slots

Advance == (next + 1) % size
Evicts == slots[next].id # NoId
ZeroSlots == [i \in 0..(size - 1) |-> Zero]
Cleared   == ZeroSlots   \* clear(r.items)

New(n) ==
  /\ size = IF n < 0 THEN 0 ELSE n
  /\ slots = ZeroSlots
  /\ next = 0
  /\ full = FALSE
  /\ evicted = FALSE

RingInit == \E n \in RequestedSizes : New(n)

(* Push of a trace into a ring without slots reports it as evicted. *)
PushNothing(e) ==
  /\ size = 0
  /\ evicted' = TRUE
  /\ UNCHANGED <<size, slots, next, full>>

PushSlot(e) ==
  /\ size > 0
  /\ evicted' = Evicts
  /\ slots' = [slots EXCEPT ![next] = e]
  /\ next' = Advance
  /\ full' = (full \/ next' = 0)
  /\ UNCHANGED size

Push(e) == PushNothing(e) \/ PushSlot(e)

Reset ==
  /\ slots' = Cleared
  /\ next' = 0
  /\ full' = FALSE
  /\ UNCHANGED <<size, evicted>>

RingNext ==
  \/ \E e \in Entries : Push(e)
  \/ Reset

RingSpec == RingInit /\ [][RingNext]_ringVars

-----------------------------------------------------------------------------
(* Type invariant, with what keeps the indices in range: a ring that has   *)
(* not wrapped holds nothing past next.                                    *)
RingTypeOK ==
  /\ size \in Nat
  /\ slots \in [0..(size - 1) -> Slots]
  /\ next \in 0..(IF size = 0 THEN 0 ELSE size - 1)
  /\ full \in BOOLEAN
  /\ full => size > 0
  /\ evicted \in BOOLEAN

(* A slot that no Push has written since the ring was made or reset is     *)
(* zero, and the others are not: what Len counts is what was written. It   *)
(* is why a Push into a reset ring does not report an eviction             *)
(* (ring.go:34) and why nothing from before a Reset is listed again.       *)
UnwrittenIsZero ==
  \A i \in 0..(size - 1) : slots[i] = Zero <=> ~full /\ i >= next

(* The ring is the bounded log of the last size pushes: the slot           *)
(* arithmetic of Push and List neither loses, repeats nor reorders a trace *)
(* at the wrap, for any size New accepts, and Reset empties it             *)
(* (ring.go:30-76).                                                        *)
Log == INSTANCE BoundedLog WITH limit <- size, log <- Window

ImplementsBoundedLog == Log!Spec

(* Push reports an eviction exactly when a listed trace is lost, be it the *)
(* pushed one in a ring without slots (ring.go:26-41). Only a pushed trace *)
(* without an ID is not counted, as List does not return it.               *)
EvictionReported ==
  [][\A e \in Entries :
       (Push(e) /\ HasId(e)) =>
         (evicted' <=> Len(List(0))' = Len(List(0)))]_ringVars
=============================================================================
