--------------------------- MODULE ServingProofs ---------------------------
(***************************************************************************)
(* A box is never shared: for any units, boxes and slots, and any order in *)
(* which the pool, the collector and the units' own code run.              *)
(***************************************************************************)
EXTENDS Serving, TLAPS

-----------------------------------------------------------------------------
(* Types. *)

LEMMA InitTypes == Init => TypeOK
<1> SUFFICES ASSUME Init PROVE TypeOK
  OBVIOUS
<1>1. BoxTypes
  BY ServingAssumption DEF Init, BoxTypes, Empty
<1>2. UnitTypes
  BY DEF Init, UnitTypes, Positions
<1>3. AnswerTypes
  BY DEF Init, AnswerTypes, Pooled, Nothing
<1>4. StoredTypes
  BY DEF Init, StoredTypes, Unsaved, Nothing
<1> QED
  BY <1>1, <1>2, <1>3, <1>4 DEF TypeOK

(* Steps that leave a group of variables alone keep its types. *)
LEMMA SameTypes ==
  /\ BoxTypes /\ UNCHANGED boxVars => BoxTypes'
  /\ UnitTypes /\ UNCHANGED <<box, pc, left, reported, ended>> => UnitTypes'
  /\ AnswerTypes /\ UNCHANGED <<writer, sent, wanted, informed>> => AnswerTypes'
  /\ StoredTypes /\ UNCHANGED stored => StoredTypes'
<1>1. BoxTypes /\ UNCHANGED boxVars => BoxTypes'
  BY DEF BoxTypes, boxVars
<1>2. UnitTypes /\ UNCHANGED <<box, pc, left, reported, ended>> => UnitTypes'
  BY DEF UnitTypes
<1>3. AnswerTypes /\ UNCHANGED <<writer, sent, wanted, informed>> => AnswerTypes'
  BY DEF AnswerTypes
<1>4. StoredTypes /\ UNCHANGED stored => StoredTypes'
  BY DEF StoredTypes
<1> QED
  BY <1>1, <1>2, <1>3, <1>4

(* A unit moves on: it keeps its box. *)
LEMMA MovesOn ==
  ASSUME UnitTypes, NEW w \in Work, NEW from, NEW to \in Positions,
         At(w, from, to), from # "idle", UNCHANGED box,
         left' \in [Work -> BOOLEAN], UNCHANGED reported,
         ended' \in [Work -> {"no", "ok", "error", "panic"}]
  PROVE  UnitTypes'
BY DEF UnitTypes, At

LEMMA AppendSpanTypes ==
  ASSUME BoxTypes, NEW w \in Work, NEW b \in Boxes, AppendSpan(w, b),
         UNCHANGED <<where, owner, armed, finalizer, finished, failed>>
  PROVE  BoxTypes'
<1>1. CASE HasSlot(b)
  <2>1. /\ slots' = [slots EXCEPT ![b][used[b] + 1] = w]
        /\ used' = [used EXCEPT ![b] = @ + 1]
        /\ UNCHANGED heap
    BY <1>1 DEF AppendSpan
  <2>2. used[b] \in Nat /\ used[b] < Inline /\ Inline \in Nat
    BY <1>1, ServingAssumption DEF BoxTypes, HasSlot
  <2>3. used' \in [Boxes -> 0..Inline]
    BY <2>1, <2>2 DEF BoxTypes
  <2>4. [slots[b] EXCEPT ![used[b] + 1] = w] \in [1..Inline -> Work \cup {NoOne}]
    BY <2>2 DEF BoxTypes
  <2>5. slots' \in [Boxes -> [1..Inline -> Work \cup {NoOne}]]
    BY <2>1, <2>4 DEF BoxTypes
  <2> QED
    BY <2>1, <2>3, <2>5 DEF BoxTypes
<1>2. CASE ~HasSlot(b)
  <2>1. heap' = [heap EXCEPT ![b] = heap[b] \cup {w}] /\ UNCHANGED <<slots, used>>
    BY <1>2 DEF AppendSpan
  <2>2. heap[b] \cup {w} \in SUBSET Work
    BY DEF BoxTypes
  <2>3. heap' \in [Boxes -> SUBSET Work]
    BY <2>1, <2>2 DEF BoxTypes
  <2> QED
    BY <2>1, <2>3 DEF BoxTypes
<1> QED
  BY <1>1, <1>2

LEMMA NewTraceTypes ==
  ASSUME BoxTypes, NEW w \in Work, NEW b \in Boxes, NewTrace(w, b), UNCHANGED finalizer
  PROVE  BoxTypes'
<1>1. Without(b, used[b]) \in [1..Inline -> Work \cup {NoOne}]
  <2>1. \A m \in 1..Inline : slots[b][m] \in Work \cup {NoOne}
    BY DEF BoxTypes
  <2>2. \A m \in 1..Inline :
          (IF m <= used[b] THEN NoOne ELSE slots[b][m]) \in Work \cup {NoOne}
    BY <2>1
  <2> QED
    BY <2>2 DEF Without
<1>2. slots' \in [Boxes -> [1..Inline -> Work \cup {NoOne}]]
  BY <1>1 DEF NewTrace, Cleared, BoxTypes
<1>3. used' \in [Boxes -> 0..Inline]
  BY ServingAssumption DEF NewTrace, BoxTypes
<1>4. /\ where' \in [Boxes -> {"unborn", "pooled", "out"}]
      /\ owner' \in [Boxes -> Work \cup {NoOne}]
      /\ heap' \in [Boxes -> SUBSET Work]
  BY DEF NewTrace, BoxTypes
<1>5. /\ armed' \in [Boxes -> BOOLEAN] /\ finalizer' \in [Boxes -> BOOLEAN]
      /\ finished' \in [Boxes -> BOOLEAN] /\ failed' \in [Boxes -> BOOLEAN]
  BY DEF NewTrace, Cleared, BoxTypes
<1> QED
  BY <1>2, <1>3, <1>4, <1>5 DEF BoxTypes

LEMMA HeadedTypes ==
  ASSUME NEW r \in [status : Nat, wrote : BOOLEAN, bytes : Nat], NEW s \in Nat
  PROVE  Headed(r, s) \in [status : Nat, wrote : BOOLEAN, bytes : Nat]
BY DEF Headed, Takes

LEMMA StatusTypes ==
  /\ Finals \cup Infos \subseteq Nat
  /\ OK \in Nat /\ Switching \in Nat /\ Nothing \in Nat
BY ServingAssumption DEF OK, Switching, Nothing

LEMMA SentTypes ==
  ASSUME NEW was \in Nat, NEW s \in Nat
  PROVE  SentBy(was, s) \in Nat
BY DEF SentBy

LEMMA StepTypes == TypeOK /\ [Next]_vars => TypeOK'
<1> SUFFICES ASSUME TypeOK, [Next]_vars PROVE TypeOK'
  OBVIOUS
<1> USE DEF TypeOK
<1>1. ASSUME NEW q \in Requests, Request(q) PROVE TypeOK'
  <2>0. q \in Work
    BY DEF Work
  <2>1. ASSUME NEW b \in Boxes, BeginRequest(q, b) PROVE TypeOK'
    <3>1. BoxTypes'
      BY <2>0, <2>1, NewTraceTypes DEF BeginRequest
    <3>2. UnitTypes'
      BY <2>0, <2>1 DEF BeginRequest, NewTrace, UnitTypes, At, Positions, seenVars
    <3>3. AnswerTypes'
      BY <2>1, StatusTypes DEF BeginRequest, AnswerTypes, Pooled, seenVars
    <3> QED
      BY <2>1, <3>1, <3>2, <3>3, SameTypes DEF BeginRequest
  <2>2. ASSUME NEW s \in Finals \cup Infos, WriteHeader(q, s) PROVE TypeOK'
    <3>1. s \in Nat /\ writer[q] \in [status : Nat, wrote : BOOLEAN, bytes : Nat]
      BY StatusTypes DEF AnswerTypes
    <3>2. PassedOn(q, s) \in Nat /\ SentBy(wanted[q], s) \in Nat
      BY <3>1, SentTypes DEF PassedOn, AnswerTypes
    <3>3. Headed(writer[q], s) \in [status : Nat, wrote : BOOLEAN, bytes : Nat]
      BY <3>1, HeadedTypes
    <3>4. AnswerTypes'
      BY <2>2, <3>2, <3>3 DEF WriteHeader, AnswerTypes
    <3> QED
      BY <2>2, <3>4, SameTypes DEF WriteHeader, unitVars
  <2>3. ASSUME NEW n \in {0, 1}, Write(q, n) PROVE TypeOK'
    <3>1. writer[q] \in [status : Nat, wrote : BOOLEAN, bytes : Nat]
      BY DEF AnswerTypes
    <3>2. PassedOn(q, OK) \in Nat /\ SentBy(wanted[q], OK) \in Nat
      BY StatusTypes, SentTypes DEF PassedOn, AnswerTypes
    <3>3. SentBy(PassedOn(q, OK), OK) \in Nat
      BY <3>2, StatusTypes, SentTypes
    <3>4. Headed(writer[q], OK) \in [status : Nat, wrote : BOOLEAN, bytes : Nat]
      BY <3>1, StatusTypes, HeadedTypes
    <3>5. writer[q].bytes + n \in Nat
      BY <3>1
    <3>6. Written(writer[q], n) \in [status : Nat, wrote : BOOLEAN, bytes : Nat]
      BY <3>4, <3>5 DEF Written
    <3>7. AnswerTypes'
      BY <2>3, <3>2, <3>3, <3>6 DEF Write, AnswerTypes
    <3> QED
      BY <2>3, <3>7, SameTypes DEF Write, unitVars
  <2>4. CASE Hijack(q)
    <3>1. AnswerTypes'
      BY <2>4, StatusTypes DEF Hijack, AnswerTypes
    <3> QED
      BY <2>4, <3>1, SameTypes DEF Hijack, unitVars
  <2>5. ASSUME NEW e \in {"ok", "panic"}, EndCode(q, e) PROVE TypeOK'
    <3>1. BoxTypes'
      BY <2>0, <2>5 DEF EndCode, BoxTypes, Fails
    <3>2. UnitTypes'
      <4>1. ended' \in [Work -> {"no", "ok", "error", "panic"}] /\ left' \in [Work -> BOOLEAN]
        BY <2>0, <2>5 DEF EndCode, UnitTypes
      <4> QED
        BY <2>0, <2>5, <4>1, MovesOn DEF EndCode, Positions
    <3> QED
      BY <2>5, <3>1, <3>2, SameTypes DEF EndCode, answerVars
  <2>6. CASE Answer(q)
    <3>1. BoxTypes'
      BY <2>6 DEF Answer, BoxTypes, Fails
    <3>2. UnitTypes'
      BY <2>0, <2>6, MovesOn DEF Answer, Positions, UnitTypes, seenVars
    <3> QED
      BY <2>6, <3>1, <3>2, SameTypes DEF Answer, answerVars, seenVars
  <2>7. CASE RouteFuncPanics(q)
    <3>1. UnitTypes'
      BY <2>0, <2>7, MovesOn DEF RouteFuncPanics, Positions, UnitTypes, seenVars
    <3> QED
      BY <2>7, <3>1, SameTypes DEF RouteFuncPanics, answerVars, seenVars
  <2>8. CASE ReleaseRequest(q)
    <3>1. BoxTypes'
      BY <2>8 DEF ReleaseRequest, PutBack, BoxTypes
    <3>2. UnitTypes'
      BY <2>0, <2>8, MovesOn DEF ReleaseRequest, Positions, UnitTypes, seenVars
    <3>3. SentBy(sent[q], OK) \in Nat
      BY StatusTypes, SentTypes DEF AnswerTypes
    <3>4. AnswerTypes'
      BY <2>8, <3>3, StatusTypes DEF ReleaseRequest, AnswerTypes, Pooled, seenVars
    <3> QED
      BY <2>8, <3>1, <3>2, <3>4, SameTypes DEF ReleaseRequest
  <2> QED
    BY <1>1, <2>1, <2>2, <2>3, <2>4, <2>5, <2>6, <2>7, <2>8 DEF Request
<1>2. ASSUME NEW j \in Jobs, Job(j) PROVE TypeOK'
  <2>0. j \in Work
    BY DEF Work
  <2>1. ASSUME NEW b \in Boxes, BeginJob(j, b) PROVE TypeOK'
    <3>1. BoxTypes'
      BY <2>0, <2>1, NewTraceTypes DEF BeginJob
    <3>2. UnitTypes'
      BY <2>0, <2>1 DEF BeginJob, NewTrace, UnitTypes, At, Positions, seenVars
    <3> QED
      BY <2>1, <3>1, <3>2, SameTypes DEF BeginJob, answerVars, seenVars
  <2>2. CASE Arm(j)
    <3>1. BoxTypes'
      BY <2>2 DEF Arm, BoxTypes
    <3>2. UnitTypes'
      BY <2>0, <2>2, MovesOn DEF Arm, Positions, UnitTypes, seenVars
    <3> QED
      BY <2>2, <3>1, <3>2, SameTypes DEF Arm, answerVars, seenVars
  <2>3. CASE LeaveBehind(j) \/ LetGo(j)
    <3>1. UnitTypes'
      BY <2>0, <2>3 DEF LeaveBehind, LetGo, UnitTypes, seenVars
    <3> QED
      BY <2>3, <3>1, SameTypes DEF LeaveBehind, LetGo, answerVars, seenVars
  <2>4. ASSUME NEW e \in {"ok", "error", "panic"}, EndCode(j, e) PROVE TypeOK'
    <3>1. BoxTypes'
      BY <2>0, <2>4 DEF EndCode, BoxTypes, Fails
    <3>2. UnitTypes'
      <4>1. ended' \in [Work -> {"no", "ok", "error", "panic"}] /\ left' \in [Work -> BOOLEAN]
        BY <2>0, <2>4 DEF EndCode, UnitTypes
      <4> QED
        BY <2>0, <2>4, <4>1, MovesOn DEF EndCode, Positions
    <3> QED
      BY <2>4, <3>1, <3>2, SameTypes DEF EndCode, answerVars
  <2>5. CASE ReleaseJob(j) \/ DropJob(j)
    <3>1. BoxTypes'
      BY <2>5 DEF ReleaseJob, DropJob, PutBack, BoxTypes, boxVars
    <3>2. UnitTypes'
      BY <2>0, <2>5, MovesOn DEF ReleaseJob, DropJob, Positions, UnitTypes, seenVars
    <3> QED
      BY <2>5, <3>1, <3>2, SameTypes DEF ReleaseJob, DropJob, answerVars, seenVars
  <2> QED
    BY <1>2, <2>1, <2>2, <2>3, <2>4, <2>5 DEF Job
<1>3. ASSUME NEW w \in Work, \/ StartRoot(w) \/ StartSpan(w) \/ RecordError(w)
                        \/ Close(w) \/ Save(w)
      PROVE  TypeOK'
  <2>1. CASE StartRoot(w)
    <3>0. box[w] \in Boxes
      BY <2>1 DEF StartRoot, At, UnitTypes
    <3>1. BoxTypes'
      BY <2>1, <3>0, AppendSpanTypes DEF StartRoot
    <3>2. UnitTypes'
      BY <2>1, MovesOn DEF StartRoot, Positions, UnitTypes, seenVars
    <3> QED
      BY <2>1, <3>1, <3>2, SameTypes DEF StartRoot, answerVars, seenVars
  <2>2. CASE StartSpan(w)
    <3>1. CASE box[w] \in Boxes
      <4>1. BoxTypes'
        BY <2>2, <3>1, AppendSpanTypes DEF StartSpan
      <4> QED
        BY <2>2, <4>1, SameTypes DEF StartSpan, unitVars, answerVars, seenVars
    <3>2. CASE box[w] \notin Boxes
      <4>1. UNCHANGED <<slots, used, heap>>
        BY <2>2, <3>2 DEF StartSpan, AppendSpan, BoxTypes
      <4> QED
        BY <2>2, <4>1, SameTypes DEF StartSpan, boxVars, unitVars, answerVars, seenVars
    <3> QED
      BY <3>1, <3>2
  <2>3. CASE Close(w)
    <3>1. BoxTypes'
      BY <2>3 DEF Close, BoxTypes
    <3>2. UnitTypes'
      BY <2>3, MovesOn DEF Close, Positions, UnitTypes, seenVars
    <3> QED
      BY <2>3, <3>1, <3>2, SameTypes DEF Close, answerVars, seenVars
  <2>4. CASE Save(w)
    <3>1. UnitTypes'
      BY <2>4, MovesOn DEF Save, Positions, UnitTypes, seenVars
    <3>2. box[w] \in Boxes
      BY <2>4 DEF Save, At, UnitTypes
    <3>3. StartedBy(box[w]) \subseteq Work \cup {NoOne}
      <4>1. used[box[w]] \in 0..Inline /\ heap[box[w]] \subseteq Work
        BY <3>2 DEF BoxTypes
      <4>2. \A n \in 1..used[box[w]] : slots[box[w]][n] \in Work \cup {NoOne}
        BY <3>2, <4>1, ServingAssumption DEF BoxTypes
      <4> QED
        BY <4>1, <4>2 DEF StartedBy
    <3>4. failed[box[w]] \in BOOLEAN
      BY <3>2 DEF BoxTypes
    <3>5. /\ (IF w \in Requests THEN writer[w].status ELSE Nothing) \in Nat
          /\ (IF w \in Requests THEN writer[w].bytes ELSE 0) \in Nat
      BY DEF AnswerTypes, Nothing
    <3>6. StoredTypes'
      BY <2>4, <3>3, <3>4, <3>5 DEF Save, StoredTypes
    <3> QED
      BY <2>4, <3>1, <3>6, SameTypes DEF Save, answerVars, seenVars
  <2>5. CASE RecordError(w)
    <3>1. BoxTypes'
      BY <2>5 DEF RecordError, Fails, BoxTypes
    <3>2. StoredTypes' /\ stored[w].saved \in BOOLEAN
      BY <2>5 DEF RecordError, unitVars, StoredTypes
    <3>3. reported' \in [Work -> BOOLEAN]
      BY <2>5, <3>2 DEF RecordError, UnitTypes
    <3>4. UnitTypes'
      BY <2>5, <3>3 DEF RecordError, unitVars, UnitTypes
    <3> QED
      BY <2>5, <3>1, <3>2, <3>4, SameTypes DEF RecordError, answerVars
  <2> QED
    BY <1>3, <2>1, <2>2, <2>3, <2>4, <2>5
<1>4. ASSUME NEW b \in Boxes, Evict(b) \/ Finalize(b) \/ Free(b) PROVE TypeOK'
  <2>1. BoxTypes'
    <3>1. CASE Evict(b)
      BY <3>1 DEF Evict, BoxTypes
    <3>2. CASE Finalize(b)
      BY <3>2 DEF Finalize, PutBack, BoxTypes
    <3>3. CASE Free(b)
      <4>1. Empty \in [1..Inline -> Work \cup {NoOne}]
        BY DEF Empty
      <4>2. used' \in [Boxes -> 0..Inline]
        BY <3>3, ServingAssumption DEF Free, BoxTypes
      <4>3. slots' \in [Boxes -> [1..Inline -> Work \cup {NoOne}]]
        BY <3>3, <4>1 DEF Free, BoxTypes
      <4> QED
        BY <3>3, <4>2, <4>3 DEF Free, BoxTypes
    <3> QED
      BY <1>4, <3>1, <3>2, <3>3
  <2> QED
    BY <1>4, <2>1, SameTypes DEF Evict, Finalize, Free, unitVars, answerVars, seenVars
<1>5. CASE UNCHANGED vars
  BY <1>5, SameTypes DEF vars, unitVars, answerVars, seenVars
<1> QED
  BY <1>1, <1>2, <1>3, <1>4, <1>5 DEF Next

-----------------------------------------------------------------------------
(* A box is out of the pool and holds the trace of whoever can reach it:   *)
(* two units that reach one box would both own its trace.                  *)
Owned ==
  \A w \in Work, b \in Boxes : Holds(w, b) => where[b] = "out" /\ owner[b] = w

SpansOwned == \A b \in Boxes : StartedBy(b) \subseteq {owner[b]}

(* Only a job that began leaves a goroutine behind, so a request's box can *)
(* be handed back when serve returns.                                      *)
LeftIsJob == \A w \in Work : left[w] => w \in Jobs /\ pc[w] # "idle"

StoredOwned == \A w \in Work : stored[w].by \subseteq {w}

BoxInv == TypeOK /\ Owned /\ SpansOwned /\ LeftIsJob /\ StoredOwned

Under(w) == pc[w] \notin {"idle", "returned"}

LEMMA HeldOnce == BoxInv => BoxHeldOnce
BY DEF BoxInv, BoxHeldOnce, Owned, SpansOwned, StoredOwned

LEMMA InitOwned == Init => BoxInv
<1> SUFFICES ASSUME Init PROVE BoxInv
  OBVIOUS
<1>1. Owned
  BY DEF Init, Owned, Holds
<1>2. SpansOwned
  BY DEF Init, SpansOwned, StartedBy
<1>3. LeftIsJob /\ StoredOwned
  BY DEF Init, LeftIsJob, StoredOwned, Unsaved
<1> QED
  BY <1>1, <1>2, <1>3, InitTypes DEF BoxInv

(* Nobody comes to hold a box: who owns what stays as it is. *)
LEMMA OwnedStays ==
  ASSUME Owned, UNCHANGED <<where, owner>>,
         \A w \in Work, b \in Boxes : Holds(w, b)' => Holds(w, b)
  PROVE  Owned'
BY DEF Owned

LEMMA SpansStay ==
  ASSUME SpansOwned, UNCHANGED <<owner, slots, used, heap>>
  PROVE  SpansOwned'
BY DEF SpansOwned, StartedBy

(* A unit under way moves on, keeping or giving up its box. *)
LEMMA MoveKeeps ==
  ASSUME BoxInv, TypeOK', NEW w \in Work, NEW from, NEW to,
         At(w, from, to), from \notin {"idle", "returned"}, to # "idle",
         UNCHANGED <<where, owner, slots, used, heap, box, left, stored>>
  PROVE  BoxInv'
<1>1. \A v \in Work : pc'[v] = IF v = w THEN to ELSE pc[v]
  BY DEF At, BoxInv, TypeOK, UnitTypes
<1>2. pc[w] = from
  BY DEF At
<1>3. Owned'
  BY <1>1, <1>2, OwnedStays DEF BoxInv, Holds
<1>4. LeftIsJob'
  BY <1>1 DEF BoxInv, LeftIsJob
<1> QED
  BY <1>3, <1>4, SpansStay DEF BoxInv, StoredOwned

(* A step of nobody's code keeps who holds what. *)
LEMMA StayKeeps ==
  ASSUME BoxInv, TypeOK',
         UNCHANGED <<where, owner, slots, used, heap, box, pc, left, stored>>
  PROVE  BoxInv'
<1>1. Owned'
  BY OwnedStays DEF BoxInv, Holds
<1> QED
  BY <1>1, SpansStay DEF BoxInv, StoredOwned, LeftIsJob

(* A box from the pool or new memory is nobody's, and comes without spans. *)
LEMMA NewTraceKeeps ==
  ASSUME BoxInv, TypeOK', NEW w \in Work, NEW b \in Boxes, NEW to,
         NewTrace(w, b), At(w, "idle", to), to # "idle", UNCHANGED <<left, stored>>
  PROVE  BoxInv'
<1>1. \A v \in Work : pc'[v] = IF v = w THEN to ELSE pc[v]
  BY DEF At, BoxInv, TypeOK, UnitTypes
<1>2. \A v \in Work : box'[v] = IF v = w THEN b ELSE box[v]
  BY DEF NewTrace, BoxInv, TypeOK, UnitTypes
<1>3. \A c \in Boxes : /\ owner'[c] = IF c = b THEN w ELSE owner[c]
                       /\ where'[c] = IF c = b THEN "out" ELSE where[c]
  BY DEF NewTrace, BoxInv, TypeOK, BoxTypes
<1>4. \A v \in Work : ~Holds(v, b)
  BY DEF NewTrace, BoxInv, Owned
<1>5. Owned'
  <2> SUFFICES ASSUME NEW v \in Work, NEW c \in Boxes, Holds(v, c)'
               PROVE  where'[c] = "out" /\ owner'[c] = v
    BY DEF Owned
  <2>1. CASE v = w
    BY <1>2, <1>3, <2>1 DEF Holds
  <2>2. CASE v # w
    <3>1. Holds(v, c)
      BY <1>1, <1>2, <2>2 DEF Holds
    <3> QED
      BY <1>3, <1>4, <3>1 DEF BoxInv, Owned
  <2> QED
    BY <2>1, <2>2
<1>6. SpansOwned'
  <2> SUFFICES ASSUME NEW c \in Boxes PROVE (StartedBy(c) \subseteq {owner[c]})'
    BY DEF SpansOwned
  <2>1. CASE c = b
    <3>1. used'[b] = 0 /\ heap'[b] = {}
      BY DEF NewTrace, BoxInv, TypeOK, BoxTypes
    <3> QED
      BY <2>1, <3>1 DEF StartedBy
  <2>2. CASE c # b
    <3>1. used'[c] = used[c] /\ heap'[c] = heap[c] /\ slots'[c] = slots[c]
      BY <2>2 DEF NewTrace, Cleared, BoxInv, TypeOK, BoxTypes
    <3> QED
      BY <1>3, <2>2, <3>1 DEF StartedBy, BoxInv, SpansOwned
  <2> QED
    BY <2>1, <2>2
<1>7. LeftIsJob'
  BY <1>1 DEF BoxInv, LeftIsJob
<1> QED
  BY <1>5, <1>6, <1>7 DEF BoxInv, StoredOwned

(* A span is started in a box by whoever owns it. *)
LEMMA AppendSpanKeeps ==
  ASSUME BoxInv, BoxTypes', NEW w \in Work, NEW b \in Boxes, Holds(w, b),
         AppendSpan(w, b), UNCHANGED owner
  PROVE  SpansOwned'
<1>1. owner[b] = w
  BY DEF BoxInv, Owned
<1> SUFFICES ASSUME NEW c \in Boxes PROVE StartedBy(c)' \subseteq {owner[c]}
  BY DEF SpansOwned
<1>2. StartedBy(c) \subseteq {owner[c]}
  BY DEF BoxInv, SpansOwned
<1>3. CASE c # b
  <2>1. used'[c] = used[c] /\ heap'[c] = heap[c] /\ slots'[c] = slots[c]
    BY <1>3 DEF AppendSpan, BoxInv, TypeOK, BoxTypes
  <2> QED
    BY <1>2, <2>1 DEF StartedBy
<1>4. CASE c = b /\ HasSlot(b)
  <2>1. /\ slots' = [slots EXCEPT ![b][used[b] + 1] = w]
        /\ used' = [used EXCEPT ![b] = @ + 1]
        /\ UNCHANGED heap
    BY <1>4 DEF AppendSpan
  <2>2. used[b] \in Nat /\ used[b] + 1 \in 1..Inline
    BY <1>4, ServingAssumption DEF BoxInv, TypeOK, BoxTypes, HasSlot
  <2>3. used'[b] = used[b] + 1
    BY <2>1 DEF BoxInv, TypeOK, BoxTypes
  <2>4. slots'[b] = [slots[b] EXCEPT ![used[b] + 1] = w]
    BY <2>1 DEF BoxInv, TypeOK, BoxTypes
  <2>5. \A n \in 1..used[b] : slots'[b][n] = slots[b][n]
    BY <2>2, <2>4 DEF BoxInv, TypeOK, BoxTypes
  <2>6. slots'[b][used[b] + 1] = w
    BY <2>2, <2>4 DEF BoxInv, TypeOK, BoxTypes
  <2>7. \A n \in 1..used'[b] : n \in 1..used[b] \/ n = used[b] + 1
    BY <2>2, <2>3
  <2> QED
    BY <1>1, <1>2, <1>4, <2>1, <2>5, <2>6, <2>7 DEF StartedBy
<1>5. CASE c = b /\ ~HasSlot(b)
  <2>1. heap'[b] = heap[b] \cup {w} /\ UNCHANGED <<slots, used>>
    BY <1>5 DEF AppendSpan, BoxInv, TypeOK, BoxTypes
  <2> QED
    BY <1>1, <1>2, <1>5, <2>1 DEF StartedBy
<1> QED
  BY <1>3, <1>4, <1>5

(* Putting back a box that its last holder gives up leaves it to nobody.   *)
LEMMA ReleaseKeeps ==
  ASSUME BoxInv, TypeOK', NEW w \in Work, ~left[w],
         At(w, "saved", "returned"), PutBack(box[w]),
         UNCHANGED <<owner, slots, used, heap, box, left, stored>>
  PROVE  BoxInv'
<1>1. \A v \in Work : pc'[v] = IF v = w THEN "returned" ELSE pc[v]
  BY DEF At, BoxInv, TypeOK, UnitTypes
<1>2. pc[w] = "saved" /\ box[w] \in Boxes
  BY DEF At, BoxInv, TypeOK, UnitTypes
<1>3. \A c \in Boxes : where'[c] = IF c = box[w] THEN "pooled" ELSE where[c]
  BY <1>2 DEF PutBack, BoxInv, TypeOK, BoxTypes
<1>4. owner[box[w]] = w
  BY <1>2 DEF BoxInv, Owned, Holds
<1>5. Owned'
  <2> SUFFICES ASSUME NEW v \in Work, NEW c \in Boxes, Holds(v, c)'
               PROVE  where'[c] = "out" /\ owner'[c] = v
    BY DEF Owned
  <2>1. v # w
    BY <1>1 DEF Holds
  <2>2. Holds(v, c)
    BY <1>1, <2>1 DEF Holds
  <2>3. where[c] = "out" /\ owner[c] = v
    BY <2>2 DEF BoxInv, Owned
  <2> QED
    BY <1>3, <1>4, <2>1, <2>3
<1>6. LeftIsJob'
  BY <1>1 DEF BoxInv, LeftIsJob
<1> QED
  BY <1>5, <1>6, SpansStay DEF BoxInv, StoredOwned

(* The collector and the pool move only boxes that nobody can reach. *)
LEMMA CollectorKeeps ==
  ASSUME BoxInv, TypeOK', NEW b \in Boxes, Evict(b) \/ Finalize(b) \/ Free(b)
  PROVE  BoxInv'
<1>1. UNCHANGED <<box, pc, left, stored>>
  BY DEF Evict, Finalize, Free, unitVars
<1>2. \A w \in Work : ~Holds(w, b)
  BY DEF Evict, Finalize, Free, Reachable, BoxInv, Owned
<1>3. \A c \in Boxes \ {b} : where'[c] = where[c] /\ owner'[c] = owner[c]
  BY DEF Evict, Finalize, Free, PutBack, BoxInv, TypeOK, BoxTypes
<1>4. Owned'
  BY <1>1, <1>2, <1>3 DEF BoxInv, Owned, Holds
<1>5. SpansOwned'
  <2>1. CASE Evict(b) \/ Finalize(b)
    BY <2>1, SpansStay DEF Evict, Finalize, BoxInv
  <2>2. CASE Free(b)
    <3>1. used'[b] = 0 /\ heap'[b] = {}
      BY <2>2 DEF Free, BoxInv, TypeOK, BoxTypes
    <3>2. \A c \in Boxes \ {b} :
            /\ used'[c] = used[c] /\ heap'[c] = heap[c]
            /\ slots'[c] = slots[c] /\ owner'[c] = owner[c]
      BY <2>2 DEF Free, BoxInv, TypeOK, BoxTypes
    <3> SUFFICES ASSUME NEW c \in Boxes PROVE (StartedBy(c) \subseteq {owner[c]})'
      BY DEF SpansOwned
    <3>3. CASE c = b
      BY <3>1, <3>3 DEF StartedBy
    <3>4. CASE c # b
      BY <3>2, <3>4 DEF StartedBy, BoxInv, SpansOwned
    <3> QED
      BY <3>3, <3>4
  <2> QED
    BY <2>1, <2>2
<1> QED
  BY <1>1, <1>4, <1>5 DEF BoxInv, LeftIsJob, StoredOwned

LEMMA StepKeeps == BoxInv /\ [Next]_vars => BoxInv'
<1> SUFFICES ASSUME BoxInv, [Next]_vars PROVE BoxInv'
  OBVIOUS
<1>0. TypeOK'
  BY StepTypes DEF BoxInv
<1>1. ASSUME NEW q \in Requests, Request(q) PROVE BoxInv'
  <2>0. q \in Work /\ ~left[q]
    BY ServingAssumption DEF Work, BoxInv, LeftIsJob
  <2>1. ASSUME NEW b \in Boxes, BeginRequest(q, b) PROVE BoxInv'
    BY <1>0, <2>0, <2>1, NewTraceKeeps DEF BeginRequest
  <2>2. ASSUME NEW s \in Finals \cup Infos, WriteHeader(q, s) PROVE BoxInv'
    BY <1>0, <2>2, StayKeeps DEF WriteHeader, boxVars, unitVars
  <2>3. ASSUME NEW n \in {0, 1}, Write(q, n) PROVE BoxInv'
    BY <1>0, <2>3, StayKeeps DEF Write, boxVars, unitVars
  <2>4. CASE Hijack(q)
    BY <1>0, <2>4, StayKeeps DEF Hijack, boxVars, unitVars
  <2>5. ASSUME NEW e \in {"ok", "panic"}, EndCode(q, e) PROVE BoxInv'
    BY <1>0, <2>0, <2>5, MoveKeeps DEF EndCode
  <2>6. CASE Answer(q)
    BY <1>0, <2>0, <2>6, MoveKeeps DEF Answer
  <2>7. CASE RouteFuncPanics(q)
    BY <1>0, <2>0, <2>7, MoveKeeps DEF RouteFuncPanics, boxVars
  <2>8. CASE ReleaseRequest(q)
    BY <1>0, <2>0, <2>8, ReleaseKeeps DEF ReleaseRequest
  <2> QED
    BY <1>1, <2>1, <2>2, <2>3, <2>4, <2>5, <2>6, <2>7, <2>8 DEF Request
<1>2. ASSUME NEW j \in Jobs, Job(j) PROVE BoxInv'
  <2>0. j \in Work
    BY DEF Work
  <2>1. ASSUME NEW b \in Boxes, BeginJob(j, b) PROVE BoxInv'
    BY <1>0, <2>0, <2>1, NewTraceKeeps DEF BeginJob
  <2>2. CASE Arm(j)
    BY <1>0, <2>0, <2>2, MoveKeeps DEF Arm
  <2>3. CASE LeaveBehind(j) \/ LetGo(j)
    <3>1. UNCHANGED <<where, owner, slots, used, heap, box, pc, stored>>
      BY <2>3 DEF LeaveBehind, LetGo, boxVars
    <3>2. \A v \in Work : left'[v] => left[v] \/ (v = j /\ pc[j] = "running")
      BY <2>0, <2>3 DEF LeaveBehind, LetGo, BoxInv, TypeOK, UnitTypes
    <3>3. Owned'
      BY <3>1, <3>2, OwnedStays DEF BoxInv, Holds
    <3>4. LeftIsJob'
      BY <3>1, <3>2 DEF BoxInv, LeftIsJob
    <3> QED
      BY <1>0, <3>1, <3>3, <3>4, SpansStay DEF BoxInv, StoredOwned
  <2>4. ASSUME NEW e \in {"ok", "error", "panic"}, EndCode(j, e) PROVE BoxInv'
    BY <1>0, <2>0, <2>4, MoveKeeps DEF EndCode
  <2>5. CASE ReleaseJob(j)
    BY <1>0, <2>0, <2>5, ReleaseKeeps DEF ReleaseJob, MayRelease
  <2>6. CASE DropJob(j)
    BY <1>0, <2>0, <2>6, MoveKeeps DEF DropJob, boxVars
  <2> QED
    BY <1>2, <2>1, <2>2, <2>3, <2>4, <2>5, <2>6 DEF Job
<1>3. ASSUME NEW w \in Work, \/ StartRoot(w) \/ StartSpan(w) \/ RecordError(w)
                        \/ Close(w) \/ Save(w)
      PROVE  BoxInv'
  <2>1. CASE StartRoot(w)
    <3>1. box[w] \in Boxes /\ Holds(w, box[w])
      BY <2>1 DEF StartRoot, At, Holds, BoxInv, TypeOK, UnitTypes
    <3>2. SpansOwned'
      BY <1>0, <2>1, <3>1, AppendSpanKeeps DEF StartRoot, TypeOK
    <3>3. \A v \in Work : pc'[v] = IF v = w THEN "running" ELSE pc[v]
      BY <2>1 DEF StartRoot, At, BoxInv, TypeOK, UnitTypes
    <3>4. Owned' /\ LeftIsJob'
      BY <2>1, <3>3, OwnedStays DEF StartRoot, At, BoxInv, Holds, LeftIsJob
    <3> QED
      BY <1>0, <2>1, <3>2, <3>4 DEF StartRoot, BoxInv, StoredOwned
  <2>2. CASE StartSpan(w)
    <3>0. box[w] \in Boxes /\ Holds(w, box[w])
      BY <2>2 DEF StartSpan, Holds, BoxInv, TypeOK, UnitTypes, LeftIsJob
    <3>1. SpansOwned'
      BY <1>0, <2>2, <3>0, AppendSpanKeeps DEF StartSpan, TypeOK
    <3>2. Owned'
      BY <2>2, OwnedStays DEF StartSpan, unitVars, BoxInv, Holds
    <3> QED
      BY <1>0, <2>2, <3>1, <3>2 DEF StartSpan, unitVars, BoxInv, LeftIsJob, StoredOwned
  <2>3. CASE Close(w)
    BY <1>0, <2>3, MoveKeeps DEF Close
  <2>4. CASE Save(w)
    <3>0. box[w] \in Boxes /\ Holds(w, box[w])
      BY <2>4 DEF Save, At, Holds, BoxInv, TypeOK, UnitTypes
    <3>1. StartedBy(box[w]) \subseteq {w}
      BY <3>0 DEF BoxInv, Owned, SpansOwned
    <3>2. \A v \in Work : stored'[v].by = IF v = w THEN StartedBy(box[w]) ELSE stored[v].by
      BY <2>4 DEF Save, BoxInv, TypeOK, StoredTypes
    <3>3. \A v \in Work : pc'[v] = IF v = w THEN "saved" ELSE pc[v]
      BY <2>4 DEF Save, At, BoxInv, TypeOK, UnitTypes
    <3>4. Owned' /\ LeftIsJob'
      BY <2>4, <3>3, OwnedStays DEF Save, At, boxVars, BoxInv, Holds, LeftIsJob
    <3>5. StoredOwned'
      BY <3>1, <3>2 DEF BoxInv, StoredOwned
    <3> QED
      BY <1>0, <2>4, <3>4, <3>5, SpansStay DEF Save, boxVars, BoxInv
  <2>5. CASE RecordError(w)
    BY <1>0, <2>5, StayKeeps DEF RecordError, unitVars
  <2> QED
    BY <1>3, <2>1, <2>2, <2>3, <2>4, <2>5
<1>4. ASSUME NEW b \in Boxes, Evict(b) \/ Finalize(b) \/ Free(b) PROVE BoxInv'
  BY <1>0, <1>4, CollectorKeeps
<1>5. CASE UNCHANGED vars
  BY <1>0, <1>5, StayKeeps DEF vars, boxVars, unitVars
<1> QED
  BY <1>1, <1>2, <1>3, <1>4, <1>5 DEF Next

(* A box that a unit can still reach is that unit's alone, and no trace    *)
(* has a span of another unit (tracebox.go:36-95, tracer.go:148-202).      *)
THEOREM BoxesHeldOnce == Spec => []BoxHeldOnce
BY InitOwned, StepKeeps, HeldOnce, PTL DEF Spec

-----------------------------------------------------------------------------
(* Only Arm sets a finalizer, only the collector clears it, and each sets  *)
(* armed with it; a box taken from the pool keeps both.                    *)
LEMMA StepMirrors == TypeOK /\ ArmedMirrors /\ [Next]_vars => ArmedMirrors'
<1> SUFFICES ASSUME TypeOK, ArmedMirrors, [Next]_vars PROVE ArmedMirrors'
  OBVIOUS
<1>1. CASE UNCHANGED <<armed, finalizer>>
  BY <1>1 DEF ArmedMirrors
<1>2. ASSUME NEW j \in Jobs, Arm(j) PROVE ArmedMirrors'
  BY <1>2 DEF Arm, ArmedMirrors, TypeOK, BoxTypes
<1>3. ASSUME NEW b \in Boxes, Finalize(b) \/ Free(b) PROVE ArmedMirrors'
  <2>1. CASE Finalize(b)
    BY <2>1 DEF Finalize, ArmedMirrors, TypeOK, BoxTypes
  <2>2. CASE Free(b)
    <3>1. finalizer[b] = FALSE
      BY <2>2 DEF Free, TypeOK, BoxTypes
    <3>2. armed' = [armed EXCEPT ![b] = FALSE] /\ finalizer' = finalizer
      BY <2>2 DEF Free
    <3> QED
      BY <3>1, <3>2 DEF ArmedMirrors, TypeOK, BoxTypes
  <2> QED
    BY <1>3, <2>1, <2>2
<1>4. \/ UNCHANGED <<armed, finalizer>>
      \/ \E j \in Jobs : Arm(j)
      \/ \E b \in Boxes : Finalize(b) \/ Free(b)
  <2>1. ASSUME NEW q \in Requests, Request(q) PROVE UNCHANGED <<armed, finalizer>>
    BY <2>1 DEF Request, BeginRequest, NewTrace, Cleared, WriteHeader, Write, Hijack,
                EndCode, Answer, RouteFuncPanics, ReleaseRequest, boxVars
  <2>2. ASSUME NEW j \in Jobs, Job(j), ~Arm(j) PROVE UNCHANGED <<armed, finalizer>>
    BY <2>2 DEF Job, BeginJob, NewTrace, Cleared, LeaveBehind, LetGo, EndCode,
                ReleaseJob, DropJob, boxVars
  <2>3. ASSUME NEW w \in Work, \/ StartRoot(w) \/ StartSpan(w) \/ RecordError(w)
                               \/ Close(w) \/ Save(w)
        PROVE  UNCHANGED <<armed, finalizer>>
    BY <2>3 DEF StartRoot, StartSpan, RecordError, Close, Save, boxVars
  <2>4. ASSUME NEW b \in Boxes, Evict(b) PROVE UNCHANGED <<armed, finalizer>>
    BY <2>4 DEF Evict
  <2>5. CASE UNCHANGED vars
    BY <2>5 DEF vars, boxVars
  <2> QED
    BY <2>1, <2>2, <2>3, <2>4, <2>5 DEF Next
<1> QED
  BY <1>1, <1>2, <1>3, <1>4

(* The flag of a box agrees with the runtime, so no box is given a second  *)
(* finalizer (tracebox.go:30-33, 76-95).                                   *)
THEOREM FlagMirrorsRuntime == Spec => []ArmedMirrors
<1>1. Init => TypeOK /\ ArmedMirrors
  BY InitTypes DEF Init, ArmedMirrors
<1>2. TypeOK /\ ArmedMirrors /\ [Next]_vars => (TypeOK /\ ArmedMirrors)'
  BY StepTypes, StepMirrors
<1> QED
  BY <1>1, <1>2, PTL DEF Spec

-----------------------------------------------------------------------------
(* What the client was sent and what is recorded of it.                    *)
Busy == {"begun", "running", "answered", "stuck", "finalized", "closed", "saved"}

(* Without an informational status the writer, the client and the handler  *)
(* agree: on nothing yet, or on the first status that was written.         *)
Agrees(q) ==
  pc[q] \in Busy /\ ~informed[q] =>
    IF writer[q].wrote
    THEN wanted[q] # Nothing /\ writer[q].status = wanted[q] /\ sent[q] = wanted[q]
    ELSE writer[q].status = OK /\ wanted[q] = Nothing /\ sent[q] = Nothing

Unsent(q) == pc[q] = "idle" => wanted[q] = Nothing /\ sent[q] = Nothing

SavedLate(w) == stored[w].saved => pc[w] \in {"saved", "returned"}

SavedWritten(q) ==
  pc[q] = "saved" => stored[q].saved /\ stored[q].status = writer[q].status

Recorded(q) ==
  stored[q].saved /\ ended[q] = "ok" /\ ~informed[q] =>
    /\ stored[q].status = (IF wanted[q] = Nothing THEN OK ELSE wanted[q])
    /\ sent[q] \in {wanted[q], stored[q].status}
    /\ pc[q] = "returned" => sent[q] = stored[q].status

AnswerInv(q) ==
  Agrees(q) /\ Unsent(q) /\ SavedLate(q) /\ SavedWritten(q) /\ Recorded(q)

(* What a request has of its own. *)
Own(q) ==
  <<pc[q], writer[q], sent[q], wanted[q], informed[q], stored[q], ended[q]>>

LEMMA OwnKeeps ==
  ASSUME NEW q \in Requests, AnswerInv(q), Own(q)' = Own(q)
  PROVE  AnswerInv(q)'
BY DEF Own, AnswerInv, Agrees, Unsent, SavedLate, SavedWritten, Recorded

(* No step of another unit, of the pool or of the collector touches it.    *)
LEMMA OthersLeaveAlone ==
  ASSUME TypeOK, NEW q \in Requests,
         \/ \E r \in Requests \ {q} : Request(r)
         \/ \E j \in Jobs : Job(j)
         \/ \E w \in Work \ {q} : StartRoot(w) \/ Close(w) \/ Save(w)
         \/ \E w \in Work : StartSpan(w) \/ RecordError(w)
         \/ \E b \in Boxes : Evict(b) \/ Finalize(b) \/ Free(b)
         \/ UNCHANGED vars
  PROVE  Own(q)' = Own(q)
<1> USE DEF TypeOK
<1>0. q \in Work
  BY DEF Work
<1>1. ASSUME NEW r \in Requests \ {q}, Request(r) PROVE Own(q)' = Own(q)
  <2>1. pc'[q] = pc[q] /\ stored'[q] = stored[q] /\ ended'[q] = ended[q]
    BY <1>0, <1>1 DEF Request, BeginRequest, At, WriteHeader, Write, Hijack, EndCode,
       Answer, RouteFuncPanics, ReleaseRequest, unitVars, seenVars, UnitTypes, StoredTypes
  <2>2. writer'[q] = writer[q] /\ sent'[q] = sent[q]
    BY <1>1 DEF Request, BeginRequest, WriteHeader, Write, Hijack, EndCode,
       Answer, RouteFuncPanics, ReleaseRequest, answerVars, AnswerTypes
  <2>3. wanted'[q] = wanted[q] /\ informed'[q] = informed[q]
    BY <1>1 DEF Request, BeginRequest, WriteHeader, Write, Hijack, EndCode,
       Answer, RouteFuncPanics, ReleaseRequest, seenVars, AnswerTypes
  <2> QED
    BY <2>1, <2>2, <2>3 DEF Own
<1>2. ASSUME NEW j \in Jobs, Job(j) PROVE Own(q)' = Own(q)
  <2>1. j # q
    BY ServingAssumption
  <2>2. pc'[q] = pc[q] /\ stored'[q] = stored[q] /\ ended'[q] = ended[q]
    BY <1>0, <1>2, <2>1 DEF Job, BeginJob, At, Arm, LeaveBehind, LetGo, EndCode,
       ReleaseJob, DropJob, seenVars, UnitTypes, StoredTypes
  <2>3. UNCHANGED <<writer, sent, wanted, informed>>
    BY <1>2 DEF Job, BeginJob, Arm, LeaveBehind, LetGo, EndCode, ReleaseJob, DropJob,
       answerVars, seenVars
  <2> QED
    BY <2>2, <2>3 DEF Own
<1>3. ASSUME NEW w \in Work \ {q}, StartRoot(w) \/ Close(w) \/ Save(w)
      PROVE  Own(q)' = Own(q)
  BY <1>0, <1>3 DEF StartRoot, Close, Save, At, answerVars, seenVars, UnitTypes, StoredTypes, Own
<1>4. ASSUME NEW w \in Work, StartSpan(w) \/ RecordError(w) PROVE Own(q)' = Own(q)
  BY <1>4 DEF StartSpan, RecordError, unitVars, answerVars, seenVars, Own
<1>5. ASSUME NEW b \in Boxes, Evict(b) \/ Finalize(b) \/ Free(b) PROVE Own(q)' = Own(q)
  BY <1>5 DEF Evict, Finalize, Free, unitVars, answerVars, seenVars, Own
<1>6. CASE UNCHANGED vars
  BY <1>6 DEF vars, unitVars, answerVars, seenVars, Own
<1> QED
  BY <1>1, <1>2, <1>3, <1>4, <1>5, <1>6

(* A final status is no informational one, and none is nothing. *)
LEMMA FinalStatus ==
  /\ \A s \in Finals : s \notin Infos /\ s # Nothing
  /\ OK \notin Infos /\ OK # Nothing /\ Switching # Nothing
BY ServingAssumption, SMTT(60) DEF OK, Nothing, Switching

LEMMA WriteHeaderKeeps ==
  ASSUME TypeOK, NEW q \in Requests, AnswerInv(q),
         NEW s \in Finals \cup Infos, WriteHeader(q, s)
  PROVE  AnswerInv(q)'
<1>1. /\ pc[q] = "running" /\ pc'[q] = pc[q] /\ stored'[q] = stored[q]
      /\ ended'[q] = ended[q]
  BY DEF WriteHeader, unitVars
<1>2. /\ writer'[q] = Headed(writer[q], s)
      /\ sent'[q] = PassedOn(q, s)
      /\ wanted'[q] = SentBy(wanted[q], s)
      /\ informed'[q] = (informed[q] \/ s \in Infos)
  BY DEF WriteHeader, TypeOK, AnswerTypes
<1>3. ~stored[q].saved
  BY <1>1 DEF AnswerInv, SavedLate
<1>4. Agrees(q)'
  <2> SUFFICES ASSUME ~informed'[q] PROVE Agrees(q)'
    BY DEF Agrees
  <2>1. ~informed[q] /\ s \in Finals
    BY <1>2
  <2>2. CASE writer[q].wrote
    BY <1>1, <1>2, <2>1, <2>2
    DEF AnswerInv, Agrees, Busy, Headed, Takes, PassedOn, SentBy
  <2>3. CASE ~writer[q].wrote
    <3>1. wanted[q] = Nothing /\ sent[q] = Nothing
      BY <1>1, <2>1, <2>3 DEF AnswerInv, Agrees, Busy
    <3>2. sent'[q] = s /\ wanted'[q] = s
      BY <1>2, <2>1, <2>3, <3>1, FinalStatus DEF PassedOn, SentBy
    <3>3. writer'[q].wrote = TRUE /\ writer'[q].status = s
      BY <1>2, <2>3 DEF Headed, Takes, TypeOK, AnswerTypes
    <3> QED
      BY <2>1, <3>2, <3>3, FinalStatus DEF Agrees
  <2> QED
    BY <2>2, <2>3
<1> QED
  BY <1>1, <1>3, <1>4 DEF AnswerInv, Unsent, SavedLate, SavedWritten, Recorded

LEMMA WriteKeeps ==
  ASSUME TypeOK, NEW q \in Requests, AnswerInv(q), NEW n \in {0, 1}, Write(q, n)
  PROVE  AnswerInv(q)'
<1>1. /\ pc[q] = "running" /\ pc'[q] = pc[q] /\ stored'[q] = stored[q]
      /\ ended'[q] = ended[q] /\ informed'[q] = informed[q]
  BY DEF Write, unitVars
<1>2. /\ writer'[q] = Written(writer[q], n)
      /\ sent'[q] = SentBy(PassedOn(q, OK), OK)
      /\ wanted'[q] = SentBy(wanted[q], OK)
  BY DEF Write, TypeOK, AnswerTypes
<1>3. ~stored[q].saved
  BY <1>1 DEF AnswerInv, SavedLate
<1>4. Agrees(q)'
  <2> SUFFICES ASSUME ~informed[q] PROVE Agrees(q)'
    BY <1>1 DEF Agrees
  <2>0. writer[q] \in [status : Nat, wrote : BOOLEAN, bytes : Nat]
    BY DEF TypeOK, AnswerTypes
  <2>1. CASE writer[q].wrote
    <3>1. writer'[q].wrote = writer[q].wrote /\ writer'[q].status = writer[q].status
      BY <1>2, <2>0, <2>1 DEF Written, Headed, Takes
    <3>2. wanted[q] # Nothing /\ sent[q] = wanted[q] /\ writer[q].status = wanted[q]
      BY <1>1, <2>1 DEF AnswerInv, Agrees, Busy
    <3>3. sent'[q] = sent[q] /\ wanted'[q] = wanted[q]
      BY <1>2, <2>1, <3>2 DEF PassedOn, SentBy
    <3> QED
      BY <2>1, <3>1, <3>2, <3>3 DEF Agrees
  <2>2. CASE ~writer[q].wrote
    <3>1. writer'[q].wrote = TRUE /\ writer'[q].status = OK
      BY <1>2, <2>0, <2>2 DEF Written, Headed, Takes
    <3>2. wanted[q] = Nothing /\ sent[q] = Nothing
      BY <1>1, <2>2 DEF AnswerInv, Agrees, Busy
    <3>3. sent'[q] = OK /\ wanted'[q] = OK
      BY <1>2, <2>2, <3>2, FinalStatus DEF PassedOn, SentBy
    <3> QED
      BY <3>1, <3>3, FinalStatus DEF Agrees
  <2> QED
    BY <2>1, <2>2
<1> QED
  BY <1>1, <1>3, <1>4 DEF AnswerInv, Unsent, SavedLate, SavedWritten, Recorded

LEMMA HijackKeeps ==
  ASSUME TypeOK, NEW q \in Requests, AnswerInv(q), Hijack(q)
  PROVE  AnswerInv(q)'
<1>1. /\ pc[q] = "running" /\ pc'[q] = pc[q] /\ stored'[q] = stored[q]
      /\ ended'[q] = ended[q] /\ informed'[q] = informed[q]
  BY DEF Hijack, unitVars
<1>2. /\ writer'[q].wrote = TRUE /\ writer'[q].status = Switching
      /\ sent'[q] = Switching /\ wanted'[q] = Switching
  BY DEF Hijack, TypeOK, AnswerTypes
<1>3. ~stored[q].saved
  BY <1>1 DEF AnswerInv, SavedLate
<1> QED
  BY <1>1, <1>2, <1>3, FinalStatus
  DEF AnswerInv, Agrees, Unsent, SavedLate, SavedWritten, Recorded

(* A request begins with nothing sent and moves on without an answer.      *)
LEMMA MovingKeeps ==
  ASSUME TypeOK, NEW q \in Requests, AnswerInv(q),
         \/ \E b \in Boxes : BeginRequest(q, b)
         \/ StartRoot(q) \/ Answer(q) \/ RouteFuncPanics(q) \/ Close(q)
         \/ \E e \in {"ok", "panic"} : EndCode(q, e)
  PROVE  AnswerInv(q)'
<1>0. q \in Work
  BY DEF Work
<1>1. /\ pc[q] \in {"idle", "begun", "running", "answered", "finalized"}
      /\ pc'[q] \in {"begun", "running", "answered", "stuck", "finalized", "closed"}
      /\ stored'[q] = stored[q]
  BY <1>0 DEF BeginRequest, StartRoot, Answer, RouteFuncPanics, Close, EndCode, At,
              TypeOK, UnitTypes
<1>2. ~stored[q].saved
  BY <1>1 DEF AnswerInv, SavedLate
<1>3. sent'[q] = sent[q] /\ wanted'[q] = wanted[q] /\ informed'[q] = informed[q]
  BY DEF BeginRequest, StartRoot, Answer, RouteFuncPanics, Close, EndCode,
         answerVars, seenVars
<1>4. CASE pc[q] = "idle"
  <2>1. writer'[q].wrote = FALSE /\ writer'[q].status = OK
    BY <1>0, <1>4 DEF BeginRequest, StartRoot, Answer, RouteFuncPanics, Close, EndCode,
       At, Pooled, TypeOK, AnswerTypes
  <2> QED
    BY <1>1, <1>2, <1>3, <1>4, <2>1
    DEF AnswerInv, Agrees, Unsent, SavedLate, SavedWritten, Recorded
<1>5. CASE pc[q] # "idle"
  <2>1. writer'[q] = writer[q]
    BY <1>5 DEF BeginRequest, StartRoot, Answer, RouteFuncPanics, Close, EndCode, At,
       answerVars
  <2> QED
    BY <1>1, <1>2, <1>3, <1>5, <2>1
    DEF AnswerInv, Agrees, Busy, Unsent, SavedLate, SavedWritten, Recorded
<1> QED
  BY <1>4, <1>5

(* The storage takes the status the writer has. *)
LEMMA SaveKeeps ==
  ASSUME TypeOK, NEW q \in Requests, AnswerInv(q), Save(q)
  PROVE  AnswerInv(q)'
<1>0. q \in Work
  BY DEF Work
<1>1. /\ pc[q] = "closed" /\ pc'[q] = "saved"
      /\ UNCHANGED <<writer, sent, wanted, informed, ended>>
  BY <1>0 DEF Save, At, TypeOK, UnitTypes, answerVars, seenVars
<1>2. stored'[q].saved /\ stored'[q].status = writer[q].status
  BY <1>0 DEF Save, TypeOK, StoredTypes
<1>3. Agrees(q)' /\ Unsent(q)' /\ SavedLate(q)' /\ SavedWritten(q)'
  BY <1>1, <1>2 DEF AnswerInv, Agrees, Busy, Unsent, SavedLate, SavedWritten
<1>4. Recorded(q)'
  BY <1>1, <1>2 DEF AnswerInv, Agrees, Busy, Recorded
<1> QED
  BY <1>3, <1>4 DEF AnswerInv

(* An answer without a status goes out as a 200, which is what was saved.  *)
LEMMA ReleaseRequestKeeps ==
  ASSUME TypeOK, NEW q \in Requests, AnswerInv(q), ReleaseRequest(q)
  PROVE  AnswerInv(q)'
<1>0. q \in Work
  BY DEF Work
<1>1. /\ pc[q] = "saved" /\ pc'[q] = "returned" /\ stored'[q] = stored[q]
      /\ UNCHANGED <<wanted, informed, ended>>
      /\ sent'[q] = IF ended[q] = "panic" THEN sent[q] ELSE SentBy(sent[q], OK)
  BY <1>0 DEF ReleaseRequest, At, TypeOK, UnitTypes, AnswerTypes, seenVars
<1>2. Recorded(q)'
  <2> SUFFICES ASSUME stored[q].saved, ended[q] = "ok", ~informed[q]
               PROVE  /\ stored[q].status = (IF wanted[q] = Nothing THEN OK ELSE wanted[q])
                      /\ sent'[q] = stored[q].status
    BY <1>1 DEF Recorded
  <2>1. sent'[q] = SentBy(sent[q], OK)
    BY <1>1
  <2>2. sent[q] = wanted[q]
    BY <1>1 DEF AnswerInv, Agrees, Busy
  <2>3. stored[q].status = (IF wanted[q] = Nothing THEN OK ELSE wanted[q])
    BY DEF AnswerInv, Recorded
  <2> QED
    BY <2>1, <2>2, <2>3, FinalStatus DEF SentBy
<1> QED
  BY <1>1, <1>2 DEF AnswerInv, Agrees, Busy, Unsent, SavedLate, SavedWritten

LEMMA StepAnswers ==
  ASSUME TypeOK, NEW q \in Requests, AnswerInv(q), [Next]_vars
  PROVE  AnswerInv(q)'
<1>1. CASE \/ \E r \in Requests \ {q} : Request(r)
           \/ \E j \in Jobs : Job(j)
           \/ \E w \in Work \ {q} : StartRoot(w) \/ Close(w) \/ Save(w)
           \/ \E w \in Work : StartSpan(w) \/ RecordError(w)
           \/ \E b \in Boxes : Evict(b) \/ Finalize(b) \/ Free(b)
           \/ UNCHANGED vars
  BY <1>1, OthersLeaveAlone, OwnKeeps
<1>2. CASE Request(q) \/ StartRoot(q) \/ Close(q) \/ Save(q)
  BY <1>2, WriteHeaderKeeps, WriteKeeps, HijackKeeps, MovingKeeps, SaveKeeps,
     ReleaseRequestKeeps DEF Request
<1> QED
  BY <1>1, <1>2 DEF Next

(* Whatever a handler writes, flushes, hijacks or leaves out, the retained *)
(* status is the one its client was sent (response_writer.go:79-150).      *)
THEOREM AnswersRecorded == Spec => []AnswerRecorded
<1> DEFINE Inv == TypeOK /\ \A q \in Requests : AnswerInv(q)
<1>1. Init => Inv
  <2> SUFFICES ASSUME Init, NEW q \in Requests PROVE AnswerInv(q)
    BY InitTypes
  <2> QED
    BY DEF Init, Work, AnswerInv, Agrees, Busy, Unsent, SavedLate, SavedWritten, Recorded,
           Unsaved
<1>2. Inv /\ [Next]_vars => Inv'
  BY StepTypes, StepAnswers
<1>3. Inv => AnswerRecorded
  BY DEF AnswerInv, Recorded, AnswerRecorded
<1> QED
  BY <1>1, <1>2, <1>3, PTL DEF Spec

-----------------------------------------------------------------------------
(* What a trace is known to have failed at, from its box to the storage.   *)
FailedBy(w) ==
  \/ ended[w] = BadEnd(w) \/ reported[w]
  \/ w \in Requests /\ writer[w].status >= 500

(* While its code runs, a unit has failed where it said so.                *)
FailedByCode(w) ==
  /\ pc[w] = "idle" => ~reported[w]
  /\ pc[w] \in {"arming", "begun", "running"} => (failed[box[w]] <=> reported[w])

FailedByEnd(w) ==
  pc[w] = "answered" =>
    w \in Requests /\ (failed[box[w]] <=> ended[w] = BadEnd(w) \/ reported[w])

FailedAtLast(w) ==
  pc[w] \in {"finalized", "closed"} => (failed[box[w]] <=> FailedBy(w))

SavedFailed(w) ==
  stored[w].saved =>
    (stored[w].failed <=>
       stored[w].status >= 500 \/ ended[w] = BadEnd(w) \/ reported[w])

FailInv(w) ==
  /\ SavedLate(w) /\ SavedFailed(w)
  /\ FailedByCode(w) /\ FailedByEnd(w) /\ FailedAtLast(w)

LEMMA FailureStays ==
  ASSUME NEW w \in Work, FailInv(w),
         <<pc[w], box[w], stored[w], ended[w], reported[w]>>'
           = <<pc[w], box[w], stored[w], ended[w], reported[w]>>,
         Under(w) => failed[box[w]]' = failed[box[w]],
         pc[w] \in {"finalized", "closed"} /\ w \in Requests => writer'[w] = writer[w]
  PROVE  FailInv(w)'
BY DEF FailInv, SavedLate, SavedFailed, FailedByCode, FailedByEnd, FailedAtLast, FailedBy,
       BadEnd, Under

(* The box of a unit under way is not another's, nor the pool's. *)
LEMMA OtherBoxes ==
  ASSUME BoxInv, NEW w \in Work, Under(w)
  PROVE  /\ box[w] \in Boxes /\ where[box[w]] = "out" /\ Reachable(box[w])
         /\ \A v \in Work \ {w} : Under(v) => box[v] # box[w]
<1>1. \A v \in Work : Under(v) => box[v] \in Boxes /\ Holds(v, box[v])
  BY DEF BoxInv, TypeOK, UnitTypes, Under, Holds
<1> QED
  BY <1>1 DEF BoxInv, Owned, Reachable

(* No step of another unit, of the pool or of the collector touches it.    *)
LEMMA OthersFailElsewhere ==
  ASSUME BoxInv, NEW w \in Work, FailInv(w),
         \/ \E r \in Requests \ {w} : Request(r)
         \/ \E j \in Jobs \ {w} : Job(j)
         \/ \E v \in Work \ {w} : StartRoot(v) \/ Close(v) \/ Save(v)
         \/ \E v \in Work : StartSpan(v)
         \/ \E v \in Work \ {w} : RecordError(v)
         \/ \E b \in Boxes : Evict(b) \/ Finalize(b) \/ Free(b)
         \/ UNCHANGED vars
  PROVE  FailInv(w)'
<1> USE DEF BoxInv, TypeOK
<1>1. ASSUME NEW r \in Requests \ {w}, Request(r) PROVE FailInv(w)'
  <2>0. r \in Work
    BY DEF Work
  <2>1. /\ pc'[w] = pc[w] /\ box'[w] = box[w] /\ stored'[w] = stored[w]
        /\ ended'[w] = ended[w] /\ reported'[w] = reported[w]
    BY <1>1, <2>0 DEF Request, BeginRequest, NewTrace, At, WriteHeader, Write, Hijack,
       EndCode, Answer, RouteFuncPanics, ReleaseRequest, unitVars, seenVars,
       UnitTypes, StoredTypes
  <2>2. w \in Requests => writer'[w] = writer[w]
    BY <1>1 DEF Request, BeginRequest, WriteHeader, Write, Hijack, EndCode,
       Answer, RouteFuncPanics, ReleaseRequest, answerVars, AnswerTypes
  <2>3. ASSUME Under(w) PROVE failed'[box[w]] = failed[box[w]]
    <3>1. box[w] \in Boxes /\ where[box[w]] = "out"
      BY <2>3, OtherBoxes
    <3>2. Under(r) => box[r] # box[w]
      BY <2>0, <2>3, OtherBoxes
    <3>3. CASE \E b \in Boxes : BeginRequest(r, b)
      BY <3>1, <3>3 DEF BeginRequest, NewTrace, BoxTypes
    <3>4. CASE \/ \E e \in {"ok", "panic"} : EndCode(r, e)
               \/ Answer(r)
      <4>1. Under(r)
        BY <3>4 DEF EndCode, Answer, At, Under
      <4> QED
        BY <3>1, <3>2, <3>4, <4>1 DEF EndCode, Answer, Fails, BoxTypes
    <3>5. CASE \/ \E s \in Finals \cup Infos : WriteHeader(r, s)
               \/ \E n \in {0, 1} : Write(r, n)
               \/ Hijack(r) \/ RouteFuncPanics(r) \/ ReleaseRequest(r)
      BY <3>5 DEF WriteHeader, Write, Hijack, RouteFuncPanics, ReleaseRequest, boxVars
    <3> QED
      BY <1>1, <3>3, <3>4, <3>5 DEF Request
  <2> QED
    BY <2>1, <2>2, <2>3, FailureStays
<1>2. ASSUME NEW j \in Jobs \ {w}, Job(j) PROVE FailInv(w)'
  <2>0. j \in Work
    BY DEF Work
  <2>1. /\ pc'[w] = pc[w] /\ box'[w] = box[w] /\ stored'[w] = stored[w]
        /\ ended'[w] = ended[w] /\ reported'[w] = reported[w]
    BY <1>2, <2>0 DEF Job, BeginJob, NewTrace, At, Arm, LeaveBehind, LetGo, EndCode,
       ReleaseJob, DropJob, seenVars, UnitTypes, StoredTypes
  <2>2. UNCHANGED writer
    BY <1>2 DEF Job, BeginJob, Arm, LeaveBehind, LetGo, EndCode, ReleaseJob, DropJob,
       answerVars
  <2>3. ASSUME Under(w) PROVE failed'[box[w]] = failed[box[w]]
    <3>1. box[w] \in Boxes /\ where[box[w]] = "out"
      BY <2>3, OtherBoxes
    <3>2. Under(j) => box[j] # box[w]
      BY <2>0, <2>3, OtherBoxes
    <3>3. CASE \E b \in Boxes : BeginJob(j, b)
      BY <3>1, <3>3 DEF BeginJob, NewTrace, BoxTypes
    <3>4. CASE \E e \in {"ok", "error", "panic"} : EndCode(j, e)
      <4>1. Under(j)
        BY <3>4 DEF EndCode, At, Under
      <4> QED
        BY <3>1, <3>2, <3>4, <4>1 DEF EndCode, Fails, BoxTypes
    <3>5. CASE Arm(j) \/ LeaveBehind(j) \/ LetGo(j) \/ ReleaseJob(j) \/ DropJob(j)
      BY <3>5 DEF Arm, LeaveBehind, LetGo, ReleaseJob, DropJob, boxVars
    <3> QED
      BY <1>2, <3>3, <3>4, <3>5 DEF Job
  <2> QED
    BY <2>1, <2>2, <2>3, FailureStays
<1>3. ASSUME NEW v \in Work \ {w}, StartRoot(v) \/ Close(v) \/ Save(v)
      PROVE  FailInv(w)'
  <2>1. /\ pc'[w] = pc[w] /\ box'[w] = box[w] /\ stored'[w] = stored[w]
        /\ ended'[w] = ended[w] /\ UNCHANGED <<reported, failed, writer>>
    BY <1>3 DEF StartRoot, Close, Save, At, boxVars, answerVars, seenVars, UnitTypes,
       StoredTypes
  <2> QED
    BY <2>1, FailureStays
<1>4. ASSUME NEW v \in Work, StartSpan(v) PROVE FailInv(w)'
  <2>1. UNCHANGED <<pc, box, stored, ended, reported, failed, writer>>
    BY <1>4 DEF StartSpan, unitVars, answerVars, seenVars
  <2> QED
    BY <2>1, FailureStays
<1>5. ASSUME NEW b \in Boxes, Evict(b) \/ Finalize(b) \/ Free(b) PROVE FailInv(w)'
  <2>1. UNCHANGED <<pc, box, stored, ended, reported, writer>>
    BY <1>5 DEF Evict, Finalize, Free, unitVars, answerVars, seenVars
  <2>2. ASSUME Under(w) PROVE failed'[box[w]] = failed[box[w]]
    <3>1. box[w] \in Boxes /\ Reachable(box[w])
      BY <2>2, OtherBoxes
    <3>2. CASE Evict(b) \/ Finalize(b)
      BY <3>2 DEF Evict, Finalize
    <3>3. CASE Free(b)
      BY <3>1, <3>3 DEF Free, BoxTypes
    <3> QED
      BY <1>5, <3>2, <3>3
  <2> QED
    BY <2>1, <2>2, FailureStays
<1>6. CASE UNCHANGED vars
  <2>1. UNCHANGED <<pc, box, stored, ended, reported, failed, writer>>
    BY <1>6 DEF vars, boxVars, unitVars, answerVars, seenVars
  <2> QED
    BY <2>1, FailureStays
<1>7. ASSUME NEW v \in Work \ {w}, RecordError(v) PROVE FailInv(w)'
  <2>1. /\ UNCHANGED <<pc, box, stored, ended, writer>>
        /\ reported'[w] = reported[w]
    BY <1>7 DEF RecordError, unitVars, answerVars, UnitTypes
  <2>2. ASSUME Under(w) PROVE failed'[box[w]] = failed[box[w]]
    <3>1. box[w] \in Boxes /\ Holds(w, box[w])
      BY <2>2, OtherBoxes DEF Holds, Under
    <3>2. box[v] \in Boxes /\ Holds(v, box[v])
      BY <1>7 DEF RecordError, Holds, LeftIsJob, UnitTypes
    <3>3. box[v] # box[w]
      BY <1>7, <3>1, <3>2 DEF Owned
    <3> QED
      BY <1>7, <3>1, <3>2, <3>3 DEF RecordError, Fails, BoxTypes
  <2> QED
    BY <2>1, <2>2, FailureStays
<1> QED
  BY <1>1, <1>2, <1>3, <1>4, <1>5, <1>6, <1>7

(* A trace begins unfailed, in a box that was reset. *)
LEMMA BeginUnfailed ==
  ASSUME BoxInv, NEW w \in Work, FailInv(w), NEW b \in Boxes,
         BeginRequest(w, b) \/ BeginJob(w, b)
  PROVE  FailInv(w)'
<1>1. /\ pc[w] = "idle" /\ pc'[w] \in {"arming", "begun"}
      /\ stored'[w] = stored[w] /\ box'[w] = b /\ failed'[b] = FALSE
      /\ reported'[w] = reported[w]
  BY DEF BeginRequest, BeginJob, NewTrace, At, BoxInv, TypeOK, UnitTypes, BoxTypes,
         seenVars
<1>2. ~stored[w].saved
  BY <1>1 DEF FailInv, SavedLate
<1> QED
  BY <1>1, <1>2 DEF FailInv, SavedLate, SavedFailed, FailedByCode, FailedByEnd, FailedAtLast

(* What a running unit does otherwise leaves it unfailed. *)
LEMMA RunsUnfailed ==
  ASSUME BoxInv, NEW w \in Work, FailInv(w),
         \/ Arm(w) \/ StartRoot(w) \/ LeaveBehind(w) \/ LetGo(w) \/ Hijack(w)
         \/ \E s \in Finals \cup Infos : WriteHeader(w, s)
         \/ \E n \in {0, 1} : Write(w, n)
  PROVE  FailInv(w)'
<1>1. CASE Arm(w) \/ StartRoot(w)
  <2>1. /\ pc[w] \in {"arming", "begun"} /\ pc'[w] \in {"begun", "running"}
        /\ UNCHANGED <<stored, box, reported, failed>>
    BY <1>1 DEF Arm, StartRoot, At, BoxInv, TypeOK, UnitTypes, seenVars
  <2>2. ~stored[w].saved
    BY <2>1 DEF FailInv, SavedLate
  <2> QED
    BY <2>1, <2>2 DEF FailInv, SavedLate, SavedFailed, FailedByCode, FailedByEnd, FailedAtLast
<1>2. CASE LeaveBehind(w) \/ LetGo(w)
  <2>1. UNCHANGED <<pc, box, stored, ended, reported, failed, writer>>
    BY <1>2 DEF LeaveBehind, LetGo, boxVars, answerVars, seenVars
  <2> QED
    BY <2>1, FailureStays
<1>3. CASE \/ Hijack(w)
           \/ \E s \in Finals \cup Infos : WriteHeader(w, s)
           \/ \E n \in {0, 1} : Write(w, n)
  <2>1. pc[w] = "running" /\ UNCHANGED <<pc, box, stored, ended, reported, failed>>
    BY <1>3 DEF Hijack, WriteHeader, Write, boxVars, unitVars
  <2> QED
    BY <2>1, FailureStays
<1> QED
  BY <1>1, <1>2, <1>3

(* A unit says that it failed, before it was saved or after. *)
LEMMA ReportFails ==
  ASSUME BoxInv, NEW w \in Work, FailInv(w), RecordError(w)
  PROVE  FailInv(w)'
<1>1. UNCHANGED <<pc, box, stored, ended, writer>>
  BY DEF RecordError, unitVars, answerVars
<1>2. reported'[w] <=> reported[w] \/ ~stored[w].saved
  BY DEF RecordError, BoxInv, TypeOK, UnitTypes
<1>3. box[w] \in Boxes /\ pc[w] # "idle"
  BY DEF RecordError, BoxInv, TypeOK, UnitTypes, LeftIsJob
<1>4. failed'[box[w]] = TRUE
  BY <1>3 DEF RecordError, Fails, BoxInv, TypeOK, BoxTypes
<1>5. pc[w] \notin {"saved", "returned"} => reported'[w]
  BY <1>2 DEF FailInv, SavedLate
<1>6. SavedFailed(w)'
  BY <1>1, <1>2 DEF FailInv, SavedFailed, BadEnd
<1>7. SavedLate(w)' /\ FailedByCode(w)' /\ FailedByEnd(w)' /\ FailedAtLast(w)'
  BY <1>1, <1>3, <1>4, <1>5
  DEF FailInv, SavedLate, FailedByCode, FailedByEnd, FailedAtLast, FailedBy
<1> QED
  BY <1>6, <1>7 DEF FailInv

(* The end of the code and the status of the answer settle the failure.    *)
LEMMA EndSettles ==
  ASSUME BoxInv, NEW w \in Work, FailInv(w),
         NEW e \in {"ok", "error", "panic"}, EndCode(w, e)
  PROVE  FailInv(w)'
<1>1. /\ pc[w] = "running" /\ stored'[w] = stored[w] /\ box'[w] = box[w]
      /\ pc'[w] = IF w \in Requests THEN "answered" ELSE "finalized"
      /\ ended'[w] = e /\ reported'[w] = reported[w]
  BY DEF EndCode, At, BoxInv, TypeOK, UnitTypes
<1>2. ~stored[w].saved /\ (failed[box[w]] <=> reported[w]) /\ box[w] \in Boxes
  BY <1>1 DEF FailInv, SavedLate, FailedByCode, BoxInv, TypeOK, UnitTypes
<1>3. failed'[box[w]] <=> e = BadEnd(w) \/ reported[w]
  BY <1>2 DEF EndCode, Fails, BoxInv, TypeOK, BoxTypes
<1> QED
  BY <1>1, <1>2, <1>3
  DEF FailInv, SavedLate, SavedFailed, FailedByCode, FailedByEnd, FailedAtLast, FailedBy, BadEnd

LEMMA AnswerSettles ==
  ASSUME BoxInv, NEW w \in Requests, FailInv(w), Answer(w)
  PROVE  FailInv(w)'
<1>0. w \in Work
  BY DEF Work
<1>1. /\ pc[w] = "answered" /\ stored'[w] = stored[w] /\ box'[w] = box[w]
      /\ pc'[w] = "finalized" /\ ended'[w] = ended[w] /\ writer'[w] = writer[w]
      /\ reported'[w] = reported[w]
  BY <1>0 DEF Answer, At, BoxInv, TypeOK, UnitTypes, answerVars, seenVars
<1>2. ~stored[w].saved /\ box[w] \in Boxes
  BY <1>0, <1>1 DEF FailInv, SavedLate, BoxInv, TypeOK, UnitTypes
<1>3. failed[box[w]] <=> ended[w] = BadEnd(w) \/ reported[w]
  BY <1>1 DEF FailInv, FailedByEnd
<1>4. failed'[box[w]] <=> failed[box[w]] \/ StatusFails(w)
  BY <1>2 DEF Answer, Fails, BoxInv, TypeOK, BoxTypes
<1>5. FailedAtLast(w)'
  BY <1>1, <1>3, <1>4 DEF FailedAtLast, FailedBy, StatusFails, BadEnd
<1> QED
  BY <1>1, <1>2, <1>5 DEF FailInv, SavedLate, SavedFailed, FailedByCode, FailedByEnd

LEMMA SaveRecordsFailure ==
  ASSUME BoxInv, NEW w \in Work, FailInv(w), Save(w)
  PROVE  FailInv(w)'
<1>1. /\ pc[w] = "closed" /\ pc'[w] = "saved" /\ ended'[w] = ended[w]
      /\ reported'[w] = reported[w]
      /\ stored'[w].failed = failed[box[w]]
      /\ stored'[w].status = IF w \in Requests THEN writer[w].status ELSE Nothing
  BY DEF Save, At, BoxInv, TypeOK, UnitTypes, StoredTypes, seenVars
<1>2. failed[box[w]] <=> FailedBy(w)
  BY <1>1 DEF FailInv, FailedAtLast
<1>3. ~(Nothing >= 500)
  BY DEF Nothing
<1>4. SavedFailed(w)'
  BY <1>1, <1>2, <1>3 DEF SavedFailed, FailedBy, BadEnd
<1> QED
  BY <1>1, <1>4 DEF FailInv, SavedLate, FailedByCode, FailedByEnd, FailedAtLast

(* The other steps of completion record nothing. *)
LEMMA CompletionStays ==
  ASSUME BoxInv, NEW w \in Work, FailInv(w),
         \/ Close(w) \/ RouteFuncPanics(w) \/ ReleaseRequest(w)
         \/ ReleaseJob(w) \/ DropJob(w)
  PROVE  FailInv(w)'
<1>1. /\ UNCHANGED <<stored, box, ended, reported, failed>>
      /\ \/ pc[w] = "finalized" /\ pc'[w] = "closed" /\ UNCHANGED writer
         \/ pc[w] = "answered" /\ pc'[w] = "stuck"
         \/ pc[w] = "saved" /\ pc'[w] = "returned"
  BY DEF Close, RouteFuncPanics, ReleaseRequest, ReleaseJob, DropJob, At, BoxInv,
         TypeOK, UnitTypes, boxVars, answerVars, seenVars
<1> QED
  BY <1>1
  DEF FailInv, SavedLate, SavedFailed, FailedByCode, FailedByEnd, FailedAtLast, FailedBy, BadEnd

LEMMA StepFailures ==
  ASSUME BoxInv, NEW w \in Work, FailInv(w), [Next]_vars
  PROVE  FailInv(w)'
<1>1. CASE \/ \E r \in Requests \ {w} : Request(r)
           \/ \E j \in Jobs \ {w} : Job(j)
           \/ \E v \in Work \ {w} : StartRoot(v) \/ Close(v) \/ Save(v)
           \/ \E v \in Work : StartSpan(v)
           \/ \E v \in Work \ {w} : RecordError(v)
           \/ \E b \in Boxes : Evict(b) \/ Finalize(b) \/ Free(b)
           \/ UNCHANGED vars
  BY <1>1, OthersFailElsewhere
<1>2. CASE w \in Requests /\ Request(w)
  BY <1>2, BeginUnfailed, RunsUnfailed, EndSettles, AnswerSettles, CompletionStays
  DEF Request
<1>3. CASE w \in Jobs /\ Job(w)
  BY <1>3, BeginUnfailed, RunsUnfailed, EndSettles, CompletionStays DEF Job
<1>4. CASE StartRoot(w) \/ RecordError(w) \/ Close(w) \/ Save(w)
  BY <1>4, RunsUnfailed, ReportFails, CompletionStays, SaveRecordsFailure
<1> QED
  BY <1>1, <1>2, <1>3, <1>4 DEF Next

(* No failure is lost between the code and the storage, and none comes     *)
(* from the unit that had the box before; what a unit's own code records   *)
(* counts until it is saved (tracer.go:157, 190-196, 211-213,              *)
(* span.go:84-96).                                                         *)
THEOREM FailuresRecorded == Spec => []FailureRecorded
<1> DEFINE Inv == BoxInv /\ \A w \in Work : FailInv(w)
<1>1. Init => Inv
  <2> SUFFICES ASSUME Init, NEW w \in Work PROVE FailInv(w)
    BY InitOwned
  <2> QED
    BY DEF Init, FailInv, SavedLate, SavedFailed, FailedByCode, FailedByEnd, FailedAtLast,
           Unsaved
<1>2. Inv /\ [Next]_vars => Inv'
  BY StepKeeps, StepFailures
<1>3. Inv => FailureRecorded
  BY DEF FailInv, SavedFailed, FailureRecorded
<1> QED
  BY <1>1, <1>2, <1>3, PTL DEF Spec
=============================================================================
