------------------------------- MODULE Serving -------------------------------
(***************************************************************************)
(* One unit of work from its beginning to the return of its memory: serve  *)
(* and finalize (tracer.go:161-221) with the response writer the handler   *)
(* answers on (internal/response_writer.go), Observe and StartTrace for    *)
(* jobs, and the pool both draw from: the boxes traces live in             *)
(* (model/tracebox.go).                                                    *)
(*                                                                         *)
(* A trace, its lock and the slots of its first spans are fields of a box, *)
(* so a pointer to any of them is a pointer to whoever owns the box now.   *)
(* A request's box goes back when serve is done with it; the box of a job  *)
(* when its caller releases it or the collector finds nobody holds it.     *)
(*                                                                         *)
(* External: sync.Pool, which may forget what it holds, the collector with *)
(* its finalizers, and net/http, which sends a status of 200 when the      *)
(* handler writes a body without one or returns without an answer, and     *)
(* sends informational statuses ahead of the final one.                    *)
(***************************************************************************)
EXTENDS Integers, FiniteSets

CONSTANTS
  Requests, Jobs,   \* units of work, each done once
  LeftBehind,       \* jobs that may leave a goroutine with their context
  Boxes,            \* memory for boxes: pooled, in use, or not allocated
  Inline,           \* slots for spans in a box
  MaxSpans,         \* bound on the spans one unit records
  Finals, Infos,    \* statuses a handler may write: final, informational
  NoOne             \* no unit, no box

Work == Requests \cup Jobs
OK == 200
Switching == 101
Nothing == 0        \* no status sent

ASSUME ServingAssumption ==
  /\ Requests \cap Jobs = {} /\ LeftBehind \subseteq Jobs
  /\ NoOne \notin Work \cup Boxes
  /\ Inline \in Nat /\ MaxSpans \in Nat
  /\ Infos \subseteq 102..199 /\ Finals \subseteq 200..599

VARIABLES
  where,            \* where a box is: "unborn", "pooled", or "out" of the pool
  owner,            \* box.trace.ID: the unit whose trace the box holds
  slots,            \* box.spans: who started the span in each slot
  used,             \* box.used
  heap,             \* units that started the spans past the slots
  armed,            \* box.armed
  finalizer,        \* whether the runtime has a finalizer for the box
  finished,         \* trace.finished
  failed,           \* trace.Failed()
  box,              \* the box a unit has its trace in
  pc,               \* how far a unit is
  left,             \* whether a goroutine of the unit still has its context
  stored,           \* what the storage keeps of a unit's trace
  writer,           \* the response writer of a request, pooled or not
  sent,             \* external: the final status the client was sent
  wanted,           \* observer: the first final status the handler wrote
  informed,         \* observer: whether it wrote an informational one
  reported,         \* observer: whether a unit's own code recorded an error in time
  ended             \* observer: how the unit's code ended

boxVars    == <<where, owner, slots, used, heap, armed, finalizer, finished,
                failed>>
unitVars   == <<box, pc, left, stored>>
answerVars == <<writer, sent>>
seenVars   == <<wanted, informed, reported, ended>>
vars == <<boxVars, unitVars, answerVars, seenVars>>

Pooled == [status |-> Nothing, wrote |-> FALSE, bytes |-> 0]
Unsaved == [saved |-> FALSE, status |-> Nothing, bytes |-> 0,
            failed |-> FALSE, by |-> {}]
Empty == [n \in 1..Inline |-> NoOne]

Init ==
  /\ where = [b \in Boxes |-> "unborn"]
  /\ owner = [b \in Boxes |-> NoOne]
  /\ slots = [b \in Boxes |-> Empty]
  /\ used = [b \in Boxes |-> 0]
  /\ heap = [b \in Boxes |-> {}]
  /\ armed = [b \in Boxes |-> FALSE]
  /\ finalizer = [b \in Boxes |-> FALSE]
  /\ finished = [b \in Boxes |-> FALSE]
  /\ failed = [b \in Boxes |-> FALSE]
  /\ box = [w \in Work |-> NoOne]
  /\ pc = [w \in Work |-> "idle"]
  /\ left = [w \in Work |-> FALSE]
  /\ stored = [w \in Work |-> Unsaved]
  /\ writer = [q \in Requests |-> Pooled]
  /\ sent = [q \in Requests |-> Nothing]
  /\ wanted = [q \in Requests |-> Nothing]
  /\ informed = [q \in Requests |-> FALSE]
  /\ reported = [w \in Work |-> FALSE]
  /\ ended = [w \in Work |-> "no"]

At(w, from, to) == pc[w] = from /\ pc' = [pc EXCEPT ![w] = to]

(* Who started the spans a box holds. *)
StartedBy(b) == {slots[b][n] : n \in 1..used[b]} \cup heap[b]

-----------------------------------------------------------------------------
(* The pool of boxes. *)

(* The slots of b without those of the first n. *)
Without(b, n) == [m \in 1..Inline |-> IF m <= n THEN NoOne ELSE slots[b][m]]

(* Mutant: reset disarms the box. *)
Disarmed(b) ==
  /\ slots' = [slots EXCEPT ![b] = Without(b, used[b])]
  /\ armed' = [armed EXCEPT ![b] = FALSE]

(* reset clears the slots below used and leaves armed alone. *)
Cleared(b) ==
  /\ slots' = [slots EXCEPT ![b] = Without(b, used[b])]
  /\ UNCHANGED armed

(* NewTrace takes a box from the pool, or a new one, and resets it. *)
NewTrace(w, b) ==
  /\ where[b] \in {"unborn", "pooled"}
  /\ where' = [where EXCEPT ![b] = "out"]
  /\ Cleared(b)
  /\ used' = [used EXCEPT ![b] = 0]
  /\ heap' = [heap EXCEPT ![b] = {}]
  /\ finished' = [finished EXCEPT ![b] = FALSE]
  /\ failed' = [failed EXCEPT ![b] = FALSE]
  /\ owner' = [owner EXCEPT ![b] = w]
  /\ box' = [box EXCEPT ![w] = b]

(* Mutant: the slot past the last one is handed out. *)
HasSlotAfterLast(b) == used[b] <= Inline

HasSlot(b) == used[b] < Inline

(* appendSpan hands out a slot of the box before it touches the heap. *)
AppendSpan(w, b) ==
  IF HasSlot(b)
  THEN /\ slots' = [slots EXCEPT ![b][used[b] + 1] = w]
       /\ used' = [used EXCEPT ![b] = @ + 1]
       /\ UNCHANGED heap
  ELSE /\ heap' = [heap EXCEPT ![b] = @ \cup {w}]
       /\ UNCHANGED <<slots, used>>

(* Who can reach a box: a unit under way, and what it left behind. *)
Holds(w, b) == box[w] = b /\ (left[w] \/ pc[w] \notin {"idle", "returned"})

Reachable(b) == \E w \in Work : Holds(w, b)

PutBack(b) == where' = [where EXCEPT ![b] = "pooled"]

(* sync.Pool forgets a box. *)
Evict(b) ==
  /\ where[b] = "pooled"
  /\ where' = [where EXCEPT ![b] = "out"]
  /\ UNCHANGED <<owner, slots, used, heap, armed, finalizer, finished, failed,
                 unitVars, answerVars, seenVars>>

(* The collector finds a box unreachable and runs its finalizer,           *)
(* releaseBox. A span past the slots points back to the box, and the       *)
(* runtime finalizes no object in such a cycle: that box stays for ever.   *)
Finalize(b) ==
  /\ where[b] = "out" /\ ~Reachable(b)
  /\ finalizer[b] /\ heap[b] = {}
  /\ PutBack(b)
  /\ finalizer' = [finalizer EXCEPT ![b] = FALSE]
  /\ armed' = [armed EXCEPT ![b] = FALSE]
  /\ UNCHANGED <<owner, slots, used, heap, finished, failed, unitVars,
                 answerVars, seenVars>>

(* The collector frees a box that has no finalizer. *)
Free(b) ==
  /\ where[b] = "out" /\ ~Reachable(b)
  /\ ~finalizer[b]
  /\ where' = [where EXCEPT ![b] = "unborn"]
  /\ owner' = [owner EXCEPT ![b] = NoOne]
  /\ slots' = [slots EXCEPT ![b] = Empty]
  /\ used' = [used EXCEPT ![b] = 0]
  /\ heap' = [heap EXCEPT ![b] = {}]
  /\ armed' = [armed EXCEPT ![b] = FALSE]
  /\ finished' = [finished EXCEPT ![b] = FALSE]
  /\ failed' = [failed EXCEPT ![b] = FALSE]
  /\ UNCHANGED <<finalizer, unitVars, answerVars, seenVars>>

-----------------------------------------------------------------------------
(* How units begin, record and end. *)

(* serve up to the call of the handler: the trace, then the writer. *)
BeginRequest(q, b) ==
  /\ At(q, "idle", "begun")
  /\ NewTrace(q, b)
  /\ writer' = [writer EXCEPT ![q] = [Pooled EXCEPT !.status = OK]]
  /\ UNCHANGED <<finalizer, left, stored, sent, seenVars>>

BeginJob(j, b) ==
  /\ At(j, "idle", "arming")
  /\ NewTrace(j, b)
  /\ UNCHANGED <<finalizer, left, stored, answerVars, seenVars>>

(* ReleaseOnCollect, for the trace of StartTrace and Observe. *)
Arm(j) ==
  /\ At(j, "arming", "begun")
  /\ armed' = [armed EXCEPT ![box[j]] = TRUE]
  /\ finalizer' = [finalizer EXCEPT ![box[j]] = TRUE]
  /\ UNCHANGED <<where, owner, slots, used, heap, finished, failed, box, left,
                 stored, answerVars, seenVars>>

(* The root span, before the unit's own code runs. *)
StartRoot(w) ==
  /\ At(w, "begun", "running")
  /\ AppendSpan(w, box[w])
  /\ UNCHANGED <<where, owner, armed, finalizer, finished, failed, box, left,
                 stored, answerVars, seenVars>>

(* The unit's code, or a goroutine it left behind, starts a span through   *)
(* the context it has: in the box, whoever owns it. A finished trace       *)
(* refuses.                                                                *)
StartSpan(w) ==
  /\ pc[w] = "running" \/ left[w]
  /\ ~finished[box[w]]
  /\ used[box[w]] < MaxSpans /\ w \notin heap[box[w]]
  /\ AppendSpan(w, box[w])
  /\ UNCHANGED <<where, owner, armed, finalizer, finished, failed, unitVars,
                 answerVars, seenVars>>

Fails(b) == failed' = [failed EXCEPT ![b] = TRUE]

(* RecordError or EndWithError on a span, RecordError or SetState on the   *)
(* trace: the unit's code, or a goroutine it left behind, marks its trace  *)
(* as failed, finished or not. The storage keeps the copy it made.         *)
RecordError(w) ==
  /\ pc[w] = "running" \/ left[w]
  /\ Fails(box[w])
  /\ reported' = [reported EXCEPT ![w] = @ \/ ~stored[w].saved]
  /\ UNCHANGED <<where, owner, slots, used, heap, armed, finalizer, finished,
                 unitVars, answerVars, wanted, informed, ended>>

LeaveBehind(j) ==
  /\ j \in LeftBehind /\ pc[j] = "running"
  /\ left' = [left EXCEPT ![j] = TRUE]
  /\ UNCHANGED <<boxVars, box, pc, stored, answerVars, seenVars>>

(* The goroutine left behind is done with its context. *)
LetGo(j) ==
  /\ left[j]
  /\ left' = [left EXCEPT ![j] = FALSE]
  /\ UNCHANGED <<boxVars, box, pc, stored, answerVars, seenVars>>

-----------------------------------------------------------------------------
(* The handler answers on the response writer. *)

(* Mutant: a status after the first is recorded, though it is not sent. *)
TakesAnother(r) == TRUE

Takes(r) == ~r.wrote

(* ResponseWriter.WriteHeader, on the record r of a writer. *)
Headed(r, s) ==
  IF Takes(r) THEN [r EXCEPT !.wrote = TRUE, !.status = s] ELSE r

(* External: what the client has when the wrapped writer is asked for s. *)
SentBy(was, s) == IF was = Nothing /\ s \notin Infos THEN s ELSE was

(* A second status is not passed on: not even the final one that follows   *)
(* an informational one.                                                   *)
PassedOn(q, s) == IF writer[q].wrote THEN sent[q] ELSE SentBy(sent[q], s)

WriteHeader(q, s) ==
  /\ pc[q] = "running" /\ sent[q] # Switching
  /\ writer' = [writer EXCEPT ![q] = Headed(@, s)]
  /\ sent' = [sent EXCEPT ![q] = PassedOn(q, s)]
  /\ wanted' = [wanted EXCEPT ![q] = SentBy(@, s)]
  /\ informed' = [informed EXCEPT ![q] = @ \/ s \in Infos]
  /\ UNCHANGED <<boxVars, unitVars, reported, ended>>

Written(r, n) == [Headed(r, OK) EXCEPT !.bytes = r.bytes + n]

(* Write and ReadFrom with n bytes, and Flush with none: a status of 200   *)
(* goes out first when there is none.                                      *)
Write(q, n) ==
  /\ pc[q] = "running" /\ sent[q] # Switching
  /\ writer[q].bytes + n <= 1
  /\ writer' = [writer EXCEPT ![q] = Written(@, n)]
  /\ sent' = [sent EXCEPT ![q] = SentBy(PassedOn(q, OK), OK)]
  /\ wanted' = [wanted EXCEPT ![q] = SentBy(@, OK)]
  /\ UNCHANGED <<boxVars, unitVars, informed, reported, ended>>

(* Hijack before anything was written: the handler answers on the          *)
(* connection. A hijack after a header, or one that fails, records nothing.*)
Hijack(q) ==
  /\ pc[q] = "running" /\ ~writer[q].wrote
  /\ writer' = [writer EXCEPT ![q].wrote = TRUE, ![q].status = Switching]
  /\ sent' = [sent EXCEPT ![q] = Switching]
  /\ wanted' = [wanted EXCEPT ![q] = Switching]
  /\ UNCHANGED <<boxVars, unitVars, informed, reported, ended>>

-----------------------------------------------------------------------------
(* Completion. *)

(* How code ends that its caller records as a failure: serve's deferred    *)
(* function records a panic, Observe the error that is returned, and       *)
(* nothing when its function panics.                                       *)
BadEnd(w) == IF w \in Requests THEN "panic" ELSE "error"

(* The handler or the job's function returns or panics. *)
EndCode(w, e) ==
  /\ At(w, "running", IF w \in Requests THEN "answered" ELSE "finalized")
  /\ ended' = [ended EXCEPT ![w] = e]
  /\ IF e = BadEnd(w) THEN Fails(box[w]) ELSE UNCHANGED failed
  /\ UNCHANGED <<where, owner, slots, used, heap, armed, finalizer, finished,
                 box, left, stored, answerVars, wanted, informed, reported>>

(* Mutant: an answer of exactly 500 does not count as a failure. *)
FailsAbove(q) == writer[q].status > 500

StatusFails(q) == writer[q].status >= 500

(* finalize up to Finish. *)
Answer(q) ==
  /\ At(q, "answered", "finalized")
  /\ IF StatusFails(q) THEN Fails(box[q]) ELSE UNCHANGED failed
  /\ UNCHANGED <<where, owner, slots, used, heap, armed, finalizer, finished,
                 box, left, stored, answerVars, seenVars>>

(* Options.RouteFunc panics in finalize: the trace stays registered and    *)
(* nothing else is done for it.                                            *)
RouteFuncPanics(q) ==
  /\ At(q, "answered", "stuck")
  /\ UNCHANGED <<boxVars, box, left, stored, answerVars, seenVars>>

(* Finish: trace.Finish, then the section under t.mu. *)
Close(w) ==
  /\ At(w, "finalized", "closed")
  /\ finished' = [finished EXCEPT ![box[w]] = TRUE]
  /\ UNCHANGED <<where, owner, slots, used, heap, armed, finalizer, failed,
                 box, left, stored, answerVars, seenVars>>

(* Finish: the storage clones the trace. *)
Save(w) ==
  /\ At(w, "closed", "saved")
  /\ stored' = [stored EXCEPT ![w] =
       [saved |-> TRUE, failed |-> failed[box[w]], by |-> StartedBy(box[w]),
        status |-> IF w \in Requests THEN writer[w].status ELSE Nothing,
        bytes |-> IF w \in Requests THEN writer[w].bytes ELSE 0]]
  /\ UNCHANGED <<boxVars, box, left, answerVars, seenVars>>

(* finalize hands the box and the writer back; net/http completes an       *)
(* answer that has no status, unless the handler panicked.                 *)
ReleaseRequest(q) ==
  /\ At(q, "saved", "returned")
  /\ PutBack(box[q])
  /\ writer' = [writer EXCEPT ![q] = Pooled]
  /\ sent' = [sent EXCEPT ![q] = IF ended[q] = "panic" THEN @ ELSE SentBy(@, OK)]
  /\ UNCHANGED <<owner, slots, used, heap, armed, finalizer, finished, failed,
                 box, left, stored, seenVars>>

(* Mutant: a job's trace is released when its function returned, as the    *)
(* comment of Observe warns against.                                       *)
EvenIfHeld(j) == TRUE

(* Who calls Release on the trace of a job knows that nobody holds it.     *)
MayRelease(j) == ~left[j]

ReleaseJob(j) ==
  /\ j \in Jobs /\ MayRelease(j)
  /\ At(j, "saved", "returned")
  /\ PutBack(box[j])
  /\ UNCHANGED <<owner, slots, used, heap, armed, finalizer, finished, failed,
                 box, left, stored, answerVars, seenVars>>

(* The caller of StartTrace or Observe drops the trace. *)
DropJob(j) ==
  /\ j \in Jobs
  /\ At(j, "saved", "returned")
  /\ UNCHANGED <<boxVars, box, left, stored, answerVars, seenVars>>

-----------------------------------------------------------------------------
Request(q) ==
  \/ \E b \in Boxes : BeginRequest(q, b)
  \/ \E s \in Finals \cup Infos : WriteHeader(q, s)
  \/ \E n \in {0, 1} : Write(q, n)
  \/ Hijack(q)
  \/ \E e \in {"ok", "panic"} : EndCode(q, e)
  \/ Answer(q) \/ RouteFuncPanics(q) \/ ReleaseRequest(q)

Job(j) ==
  \/ \E b \in Boxes : BeginJob(j, b)
  \/ Arm(j) \/ LeaveBehind(j) \/ LetGo(j)
  \/ \E e \in {"ok", "error", "panic"} : EndCode(j, e)
  \/ ReleaseJob(j) \/ DropJob(j)

Next ==
  \/ \E q \in Requests : Request(q)
  \/ \E j \in Jobs : Job(j)
  \/ \E w \in Work : StartRoot(w) \/ StartSpan(w) \/ RecordError(w) \/ Close(w) \/ Save(w)
  \/ \E b \in Boxes : Evict(b) \/ Finalize(b) \/ Free(b)

Spec == Init /\ [][Next]_vars

-----------------------------------------------------------------------------
(* Properties. *)

Positions == {"idle", "arming", "begun", "running", "answered", "stuck",
              "finalized", "closed", "saved", "returned"}

BoxTypes ==
  /\ where \in [Boxes -> {"unborn", "pooled", "out"}]
  /\ owner \in [Boxes -> Work \cup {NoOne}]
  /\ slots \in [Boxes -> [1..Inline -> Work \cup {NoOne}]]
  /\ used \in [Boxes -> 0..Inline]
  /\ heap \in [Boxes -> SUBSET Work]
  /\ armed \in [Boxes -> BOOLEAN] /\ finalizer \in [Boxes -> BOOLEAN]
  /\ finished \in [Boxes -> BOOLEAN] /\ failed \in [Boxes -> BOOLEAN]

UnitTypes ==
  /\ box \in [Work -> Boxes \cup {NoOne}]
  /\ pc \in [Work -> Positions]
  /\ \A w \in Work : pc[w] # "idle" => box[w] \in Boxes
  /\ left \in [Work -> BOOLEAN] /\ reported \in [Work -> BOOLEAN]
  /\ ended \in [Work -> {"no", "ok", "error", "panic"}]

AnswerTypes ==
  /\ writer \in [Requests -> [status : Nat, wrote : BOOLEAN, bytes : Nat]]
  /\ sent \in [Requests -> Nat] /\ wanted \in [Requests -> Nat]
  /\ informed \in [Requests -> BOOLEAN]

StoredTypes ==
  stored \in [Work -> [saved : BOOLEAN, status : Nat, bytes : Nat,
                       failed : BOOLEAN, by : SUBSET (Work \cup {NoOne})]]

TypeOK == BoxTypes /\ UnitTypes /\ AnswerTypes /\ StoredTypes

(* A box that a unit, or what it left behind, can still reach is out of    *)
(* the pool, is nobody else's and holds that unit's trace: "the memory     *)
(* moves only after the last reference is gone" (tracebox.go:76-80,        *)
(* tracer.go:148-153). A unit that a panicking RouteFunc keeps registered  *)
(* keeps its box too. So no trace has a span that another unit started,    *)
(* whatever an earlier unit left in the slots (tracebox.go:36-66).         *)
BoxHeldOnce ==
  /\ \A w \in Work, b \in Boxes : Holds(w, b) =>
       /\ where[b] = "out" /\ owner[b] = w
       /\ \A v \in Work \ {w} : ~Holds(v, b)
       /\ StartedBy(b) \subseteq {w}
  /\ \A w \in Work : stored[w].by \subseteq {w}

(* armed says whether the runtime has a finalizer for the box, however it  *)
(* went back to the pool, so SetFinalizer, which panics on a second one,   *)
(* is never called twice (tracebox.go:30-33).                              *)
ArmedMirrors == \A b \in Boxes : armed[b] = finalizer[b]

(* A retained request has the first status its handler wrote, or 200, and  *)
(* the client got that one (response_writer.go:79-150) - as long as the    *)
(* handler sent no informational status first: that one is recorded as the *)
(* answer and the final one is swallowed.                                  *)
AnswerRecorded ==
  \A q \in Requests :
    stored[q].saved /\ ended[q] = "ok" /\ ~informed[q] =>
      /\ stored[q].status = (IF wanted[q] = Nothing THEN OK ELSE wanted[q])
      /\ sent[q] \in {wanted[q], stored[q].status}
      /\ pc[q] = "returned" => sent[q] = stored[q].status

(* A retained trace is failed exactly when its own code panicked, returned *)
(* or recorded an error before it was saved, or its answer was 500 and     *)
(* above (tracer.go:157, 190-196, 211-213, span.go:84-96): no failure is   *)
(* lost, and none comes from another unit that had the box before.         *)
FailureRecorded ==
  \A w \in Work : stored[w].saved =>
    (stored[w].failed <=>
       stored[w].status >= 500 \/ ended[w] = BadEnd(w) \/ reported[w])
==============================================================================
