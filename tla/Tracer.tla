------------------------------- MODULE Tracer -------------------------------
(***************************************************************************)
(* The tracer (tracer.go): how units of work are admitted, registered as   *)
(* in flight, finished, counted, retained and notified, and what Snapshot, *)
(* Live, Trace and Reset read and change while that happens.               *)
(*                                                                         *)
(* Every unit of work is one trace on one goroutine: an HTTP request       *)
(* behind Middleware, or a job recorded by Observe or by StartTrace and    *)
(* Finish. t.mu is a read-write lock. A section under the write lock is    *)
(* one step, enabled while no reader holds the lock; readers hold it       *)
(* across several steps, because they clone one trace at a time.           *)
(*                                                                         *)
(* The storage retains the newest Cap saved clones, as BoundedLog promises *)
(* and Ring implements.                                                    *)
(***************************************************************************)
EXTENDS Integers, Sequences, FiniteSets, Functions, Retention

CONSTANTS
  Requests,         \* HTTP requests, each served once
  Jobs,             \* background work, each recorded once
  Readers,          \* goroutines calling Snapshot, Live and Trace
  Subscribers,      \* the channels Subscribe handed out
  Hosts,            \* host names of requests
  BackgroundHost,   \* the host a unit without one is counted under
  ClientIds,        \* IDs a client may choose; empty unless TrustRequestID
  Outliving,        \* units that leave a goroutine behind that still records
  Cap,              \* retention limit of the storage
  StorageMayFail,   \* whether calls of the storage driver can fail
  MaxResets,        \* bound on the calls of Reset
  NoTrace           \* no trace

Work   == Requests \cup Jobs
Ids    == Work \cup ClientIds       \* a generated ID is the unit's own
AllHosts == Hosts \cup {BackgroundHost}

ASSUME TracerAssumption ==
  /\ Requests \cap Jobs = {}
  /\ Work \cap ClientIds = {}
  /\ NoTrace \notin Work \cup Ids
  /\ Outliving \subseteq Work
  /\ IsFiniteSet(Work) /\ IsFiniteSet(Hosts)
  /\ Cap \in Nat
  /\ StorageMayFail \in BOOLEAN
  /\ MaxResets \in Nat

VARIABLES
  enabled,          \* t.enabled
  active,           \* t.active: the trace registered under each ID
  total, sampled, unsampled, failed,        \* the lifetime counters
  requests,         \* t.requests: units counted per host
  timed,            \* how often t.stateTime (with t.samples and t.allocated)
                    \*   took in the durations of each unit
  log,              \* what t.storage retains, newest first
  signal,           \* whether a subscriber's channel holds a notification
  pc,               \* how far the goroutine of each unit is
  id,               \* trace.ID
  err,              \* whether trace.err is set
  judged,           \* Finish's local copy of trace.Failed()
  ended,            \* how the unit's handler or function ended
  rpc, op, want,    \* a reader's position, operation and trace ID
  todo,             \* the traces a reader has yet to clone under the lock
  view,             \* what a reader has copied so far
  found,            \* what the storage returned to Trace
  origin,           \* observer: where Trace's target was when it was called
  rstate,           \* whether a Reset is between its two halves
  resets            \* calls of Reset so far

counterVars == <<total, sampled, unsampled, failed, requests, timed>>
tracerVars  == <<enabled, active, counterVars, log, signal>>
traceVars   == <<id, err, judged, ended>>
unitVars    == <<pc, traceVars>>
readerVars  == <<rpc, op, want, todo, view, found, origin>>
resetVars   == <<rstate, resets>>
vars == <<tracerVars, unitVars, readerVars, resetVars>>

Entry == [of : Work, id : Ids, failed : BOOLEAN]

(* The clone of the trace of w: what a reader or the storage keeps. *)
Clone(w) == [of |-> w, id |-> id[w], failed |-> err[w]]

EmptyView == [total |-> 0, sampled |-> 0, unsampled |-> 0, failed |-> 0,
              timed |-> [w \in Work |-> 0], live |-> {}, log |-> << >>]

Registered == {active[i] : i \in Ids} \ {NoTrace}

(* Mutant: a writer does not wait for the readers of t.mu. *)
ReadersIgnored == TRUE

(* No reader holds t.mu, so a writer may. *)
Unlocked == \A r \in Readers : rpc[r] # "cloning"

IdInLog(i) == \E n \in DOMAIN log : log[n].id = i

At(w, from, to) == pc[w] = from /\ pc' = [pc EXCEPT ![w] = to]

(* Mutant: nobody is notified while recording is off. *)
NotifyIfEnabled == signal' = [s \in Subscribers |-> signal[s] \/ enabled]

NotifyAll == signal' = [s \in Subscribers |-> TRUE]

-----------------------------------------------------------------------------
Init ==
  /\ enabled = TRUE
  /\ active = [i \in Ids |-> NoTrace]
  /\ total = 0 /\ sampled = 0 /\ unsampled = 0 /\ failed = 0
  /\ requests = [h \in AllHosts |-> 0]
  /\ timed = [w \in Work |-> 0]
  /\ log = << >>
  /\ signal = [s \in Subscribers |-> FALSE]
  /\ pc = [w \in Work |-> "idle"]
  /\ id = [w \in Work |-> w]
  /\ err = [w \in Work |-> FALSE]
  /\ judged = [w \in Work |-> FALSE]
  /\ ended = [w \in Work |-> "no"]
  /\ rpc = [r \in Readers |-> "idle"]
  /\ op = [r \in Readers |-> "none"]
  /\ want = [r \in Readers |-> NoTrace]
  /\ todo = [r \in Readers |-> {}]
  /\ view = [r \in Readers |-> EmptyView]
  /\ found = [r \in Readers |-> FALSE]
  /\ origin = [r \in Readers |-> NoTrace]
  /\ rstate = "idle"
  /\ resets = 0

(* The application turns recording on or off at any time. *)
SetEnabled(b) ==
  /\ enabled' = b
  /\ UNCHANGED <<active, counterVars, log, signal, unitVars, readerVars,
                 resetVars>>

-----------------------------------------------------------------------------
(* Admission: Middleware for a request, StartTrace for a job. *)

(* The tracer is disabled, the path is ignored or no ID can be made: the   *)
(* work runs untraced.                                                     *)
PassThrough(w) ==
  /\ pc[w] \in {"idle", "admitted"}
  /\ pc' = [pc EXCEPT ![w] = "untraced"]
  /\ UNCHANGED <<tracerVars, traceVars, readerVars, resetVars>>

(* Enabled is read here and not again: recording may be turned off before  *)
(* the unit begins.                                                        *)
Admit(w) ==
  /\ enabled
  /\ At(w, "idle", "admitted")
  /\ UNCHANGED <<tracerVars, traceVars, readerVars, resetVars>>

(* The sampler rejected the request: countUnsampled, which does not notify. *)
CountUnsampled(w) ==
  /\ w \in Requests
  /\ Unlocked
  /\ At(w, "admitted", "untraced")
  /\ total' = total + 1
  /\ unsampled' = unsampled + 1
  /\ \E h \in AllHosts : requests' = [requests EXCEPT ![h] = @ + 1]
  /\ UNCHANGED <<enabled, active, sampled, failed, timed, log, signal,
                 traceVars, readerVars, resetVars>>

(* IDs a unit may record under: a fresh one, or for a request the client's. *)
IdChoices(w) == {w} \cup (IF w \in Requests THEN ClientIds ELSE {})

HostChoices(w) == IF w \in Requests THEN AllHosts ELSE {BackgroundHost}

(* Mutant: the trace is registered under the generated ID in place of the  *)
(* client's.                                                               *)
RegisterFresh(w, i) == [active EXCEPT ![w] = w]

Register(w, i) == [active EXCEPT ![i] = w]

(* The write-locked section of begin. *)
Begin(w) ==
  /\ Unlocked
  /\ At(w, "admitted", "begun")
  /\ \E i \in IdChoices(w) :
       /\ id' = [id EXCEPT ![w] = i]
       /\ active' = Register(w, i)
  /\ \E h \in HostChoices(w) : requests' = [requests EXCEPT ![h] = @ + 1]
  /\ total' = total + 1
  /\ sampled' = sampled + 1
  /\ UNCHANGED <<enabled, unsampled, failed, timed, log, signal, err, judged,
                 ended, readerVars, resetVars>>

(* The end of begin; serve, StartTrace or Observe go on with the root span *)
(* and hand over to the traced code.                                       *)
NotifyBegun(w) ==
  /\ At(w, "begun", "running")
  /\ NotifyAll
  /\ UNCHANGED <<enabled, active, counterVars, log, traceVars, readerVars,
                 resetVars>>

-----------------------------------------------------------------------------
(* The traced code and the completion of its trace. *)

(* The traced code records an error on the trace or on one of its spans. A *)
(* goroutine it left behind may do so until the storage has its copy, and  *)
(* after: RecordError does not look whether the trace is finished.         *)
RecordError(w) ==
  /\ \/ pc[w] = "running"
     \/ w \in Outliving /\ pc[w] \in {"ended", "judged", "settled", "saved"}
  /\ ~err[w]
  /\ err' = [err EXCEPT ![w] = TRUE]
  /\ UNCHANGED <<tracerVars, pc, id, judged, ended, readerVars, resetVars>>

(* Mutant: a failure that the traced code did not record itself is lost. *)
KeepErr(w, e) == err[w]

ErrAfter(w, e) == err[w] \/ e = "failed"

(* How the traced code ends. A failed request is answered with a status of *)
(* 500 and above, for which finalize records an error, or panics, for      *)
(* which serve's deferred function does; a failed job returns an error,    *)
(* which Observe records. A job that panics records nothing: it ends "ok". *)
EndWork(w) ==
  /\ At(w, "running", "ended")
  /\ \E e \in {"ok", "failed"} :
       /\ ended' = [ended EXCEPT ![w] = e]
       /\ err' = [err EXCEPT ![w] = ErrAfter(w, e)]
  /\ UNCHANGED <<tracerVars, id, judged, readerVars, resetVars>>

(* Finish before its lock: trace.Finish, then trace.Failed is read. *)
Judge(w) ==
  /\ At(w, "ended", "judged")
  /\ judged' = [judged EXCEPT ![w] = err[w]]
  /\ UNCHANGED <<tracerVars, id, err, ended, readerVars, resetVars>>

(* Mutant: a finished trace stays registered. *)
KeepRegistered(i) == active

Unregister(i) == [active EXCEPT ![i] = NoTrace]

(* The write-locked section of Finish. The trace is removed by its ID, so  *)
(* another trace registered under that ID goes instead.                    *)
Settle(w) ==
  /\ Unlocked
  /\ At(w, "judged", "settled")
  /\ active' = Unregister(id[w])
  /\ failed' = IF judged[w] THEN failed + 1 ELSE failed
  /\ timed' = [timed EXCEPT ![w] = @ + 1]
  /\ judged' = [judged EXCEPT ![w] = FALSE]
  /\ UNCHANGED <<enabled, total, sampled, unsampled, requests, log, signal, id,
                 err, ended, readerVars, resetVars>>

(* Mutant: a trace that completes while Reset is at work is given up. *)
RetainUnlessResetting(w) ==
  IF rstate = "idle" THEN log' = Saved(log, Clone(w), Cap) ELSE UNCHANGED log

Retain(w) == log' = Saved(log, Clone(w), Cap)

(* The storage clones the trace; an error it returns goes to OnError. *)
Save(w) ==
  /\ At(w, "settled", "saved")
  /\ \/ Retain(w)
     \/ StorageMayFail /\ UNCHANGED log
  /\ UNCHANGED <<enabled, active, counterVars, signal, traceVars, readerVars,
                 resetVars>>

NotifyFinished(w) ==
  /\ At(w, "saved", "closed")
  /\ NotifyAll
  /\ UNCHANGED <<enabled, active, counterVars, log, traceVars, readerVars,
                 resetVars>>

(* finalize hands the memory of a request's trace back to the pool. *)
Release(w) ==
  /\ w \in Requests
  /\ At(w, "closed", "released")
  /\ UNCHANGED <<tracerVars, traceVars, readerVars, resetVars>>

(* The collector hands back the memory of a job's trace (ReleaseOnCollect) *)
(* once neither its goroutine, t.active nor a reader holds it.             *)
Collect(w) ==
  /\ w \in Jobs \ Registered
  /\ \A r \in Readers : w \notin todo[r]
  /\ At(w, "closed", "released")
  /\ UNCHANGED <<tracerVars, traceVars, readerVars, resetVars>>

-----------------------------------------------------------------------------
(* Readers. *)

(* Snapshot and Live take the read lock; Snapshot copies the counters      *)
(* under it, which no writer can change until it is released.              *)
StartRead(r, o) ==
  /\ rpc[r] = "idle"
  /\ rpc' = [rpc EXCEPT ![r] = "cloning"]
  /\ op' = [op EXCEPT ![r] = o]
  /\ todo' = [todo EXCEPT ![r] = Registered]
  /\ view' = IF o = "Live" THEN view
             ELSE [view EXCEPT ![r] =
                     [total |-> total, sampled |-> sampled,
                      unsampled |-> unsampled, failed |-> failed,
                      timed |-> timed, live |-> {}, log |-> << >>]]
  /\ UNCHANGED <<tracerVars, unitVars, want, found, origin, resetVars>>

(* Trace(i): the storage is asked first; when that fails, OnError is told  *)
(* and the lookup goes on as after a miss.                                 *)
LookupStored(r, i) ==
  /\ rpc[r] = "idle"
  /\ \E hit \in {IdInLog(i)} \cup (IF StorageMayFail THEN {FALSE} ELSE {}) :
       /\ rpc' = [rpc EXCEPT ![r] = IF hit THEN "done" ELSE "missed"]
       /\ found' = [found EXCEPT ![r] = hit]
  /\ op' = [op EXCEPT ![r] = "Trace"]
  /\ want' = [want EXCEPT ![r] = i]
  /\ origin' = [origin EXCEPT ![r] = active[i]]
  /\ UNCHANGED <<tracerVars, unitVars, todo, view, resetVars>>

(* Mutant: Trace looks for traces in flight only while recording is on. *)
InFlightIfEnabled(i) == IF enabled THEN {active[i]} \ {NoTrace} ELSE {}

InFlight(i) == {active[i]} \ {NoTrace}

(* Trace(i): then the traces in flight, under the read lock. *)
LookupActive(r) ==
  /\ rpc[r] = "missed"
  /\ rpc' = [rpc EXCEPT ![r] = "cloning"]
  /\ todo' = [todo EXCEPT ![r] = InFlight(want[r])]
  /\ UNCHANGED <<tracerVars, unitVars, op, want, view, found, origin,
                 resetVars>>

(* A trace is cloned, and Snapshot adds its durations so far. *)
WithClone(v, w, o) ==
  [v EXCEPT !.live = v.live \cup {Clone(w)},
            !.timed = IF o = "Snapshot" THEN [v.timed EXCEPT ![w] = @ + 1]
                      ELSE v.timed]

CloneOne(r, w) ==
  /\ rpc[r] = "cloning"
  /\ w \in todo[r]
  /\ todo' = [todo EXCEPT ![r] = @ \ {w}]
  /\ view' = [view EXCEPT ![r] = WithClone(@, w, op[r])]
  /\ UNCHANGED <<tracerVars, unitVars, rpc, op, want, found, origin,
                 resetVars>>

(* The read lock is released; Snapshot goes on to list the storage. *)
Unlock(r) ==
  /\ rpc[r] = "cloning"
  /\ todo[r] = {}
  /\ rpc' = [rpc EXCEPT ![r] = IF op[r] = "Snapshot" THEN "listing"
                               ELSE "done"]
  /\ UNCHANGED <<tracerVars, unitVars, op, want, todo, view, found, origin,
                 resetVars>>

ListLog(r) ==
  /\ rpc[r] = "listing"
  /\ rpc' = [rpc EXCEPT ![r] = "done"]
  /\ \/ view' = [view EXCEPT ![r].log = log]
     \/ StorageMayFail /\ UNCHANGED view
  /\ UNCHANGED <<tracerVars, unitVars, op, want, todo, found, origin,
                 resetVars>>

(* The caller is done with what it read. *)
Return(r) ==
  /\ rpc[r] = "done"
  /\ rpc' = [rpc EXCEPT ![r] = "idle"]
  /\ op' = [op EXCEPT ![r] = "none"]
  /\ want' = [want EXCEPT ![r] = NoTrace]
  /\ view' = [view EXCEPT ![r] = EmptyView]
  /\ found' = [found EXCEPT ![r] = FALSE]
  /\ origin' = [origin EXCEPT ![r] = NoTrace]
  /\ UNCHANGED <<tracerVars, unitVars, todo, resetVars>>

-----------------------------------------------------------------------------
(* Reset: the storage first, then the counters. Traces in flight stay. *)

(* Mutant: the requests per host survive Reset. *)
KeepRequests == requests

ClearedRequests == [h \in AllHosts |-> 0]

ResetStorage ==
  /\ rstate = "idle"
  /\ resets < MaxResets
  /\ rstate' = "cleared"
  /\ resets' = resets + 1
  /\ \/ log' = << >>
     \/ StorageMayFail /\ UNCHANGED log
  /\ UNCHANGED <<enabled, active, counterVars, signal, unitVars, readerVars>>

ResetCounters ==
  /\ rstate = "cleared"
  /\ Unlocked
  /\ rstate' = "idle"
  /\ total' = 0 /\ sampled' = 0 /\ unsampled' = 0 /\ failed' = 0
  /\ requests' = ClearedRequests
  /\ timed' = [w \in Work |-> 0]
  /\ UNCHANGED <<enabled, active, log, signal, unitVars, readerVars, resets>>

-----------------------------------------------------------------------------
(* What the goroutine of a unit does by itself, once the unit is admitted. *)
Progress(w) ==
  \/ CountUnsampled(w) \/ Begin(w) \/ NotifyBegun(w) \/ EndWork(w)
  \/ Judge(w) \/ Settle(w) \/ Save(w) \/ NotifyFinished(w) \/ Release(w)

Unit(w) ==
  \/ PassThrough(w) \/ Admit(w) \/ Progress(w)
  \/ RecordError(w) \/ Collect(w)

Reader(r) ==
  \/ \E o \in {"Snapshot", "Live"} : StartRead(r, o)
  \/ \E i \in Ids : LookupStored(r, i)
  \/ LookupActive(r)
  \/ \E w \in Work : CloneOne(r, w)
  \/ Unlock(r) \/ ListLog(r) \/ Return(r)

Next ==
  \/ \E b \in BOOLEAN : SetEnabled(b)
  \/ \E w \in Work : Unit(w)
  \/ \E r \in Readers : Reader(r)
  \/ ResetStorage
  \/ ResetCounters

Spec == Init /\ [][Next]_vars

-----------------------------------------------------------------------------
(* Properties. *)

Positions == {"idle", "untraced", "admitted", "begun", "running", "ended",
              "judged", "settled", "saved", "closed", "released"}

(* The positions of a trace between the locked sections of begin and Finish. *)
Open == {"begun", "running", "ended", "judged"}

View == [total : Nat, sampled : Nat, unsampled : Nat, failed : Nat,
         timed : [Work -> Nat], live : SUBSET Entry, log : Seq(Entry)]

TracerTypeOK ==
  /\ enabled \in BOOLEAN
  /\ active \in [Ids -> Work \cup {NoTrace}]
  /\ total \in Nat /\ sampled \in Nat /\ unsampled \in Nat /\ failed \in Nat
  /\ requests \in [AllHosts -> Nat]
  /\ timed \in [Work -> Nat]
  /\ log \in Seq(Entry)
  /\ Len(log) <= Cap
  /\ signal \in [Subscribers -> BOOLEAN]

UnitTypeOK ==
  /\ pc \in [Work -> Positions]
  /\ id \in [Work -> Ids]
  /\ err \in [Work -> BOOLEAN]
  /\ judged \in [Work -> BOOLEAN]
  /\ ended \in [Work -> {"no", "ok", "failed"}]

ReaderTypeOK ==
  /\ rpc \in [Readers -> {"idle", "missed", "cloning", "listing", "done"}]
  /\ op \in [Readers -> {"none", "Snapshot", "Live", "Trace"}]
  /\ want \in [Readers -> Ids \cup {NoTrace}]
  /\ \A r \in Readers : rpc[r] = "missed" => want[r] \in Ids
  /\ todo \in [Readers -> SUBSET Work]
  /\ view \in [Readers -> View]
  /\ found \in [Readers -> BOOLEAN]
  /\ origin \in [Readers -> Work \cup {NoTrace}]

ResetTypeOK ==
  /\ rstate \in {"idle", "cleared"}
  /\ resets \in 0..MaxResets

TypeOK == TracerTypeOK /\ UnitTypeOK /\ ReaderTypeOK /\ ResetTypeOK

(* A trace being cloned by Snapshot, Live or Trace has not been released,  *)
(* so its memory cannot belong to another trace during the copy: the claim *)
(* of the comments at tracer.go:329-331 and 427-428, also when two         *)
(* requests carry the same client-chosen ID and displace one another.      *)
CloneSafe ==
  \A r \in Readers : \A w \in todo[r] : pc[w] # "released"

(* What is registered under an ID is a trace of that ID still in flight:   *)
(* the deletion by ID in Finish (tracer.go:259) leaves nothing of a        *)
(* finished trace behind.                                                  *)
RegisteredIsOpen ==
  \A i \in Ids : active[i] # NoTrace =>
    /\ id[active[i]] = i
    /\ pc[active[i]] \in Open

(* No trace is both in flight and retained, and none is retained twice.    *)
RetainedOnce ==
  /\ \A n \in DOMAIN log : log[n].of \notin Registered
  /\ \A m, n \in DOMAIN log : log[m].of = log[n].of => m = n

(* The counters agree with one another in every state, whatever Reset      *)
(* does: each unit counted is counted once as sampled or unsampled and     *)
(* once under a host (tracer.go:230-236, 470-484, 524-531); and with what  *)
(* is retained: a trace retained as failed is counted as failed            *)
(* (model.go:243), and a unit that failed is never retained as a success   *)
(* (tracer.go:157, 186-190, 211-213).                                      *)
CountersAgree ==
  /\ total = sampled + unsampled
  /\ total = SumFunction(requests)
  /\ resets = 0 => Cardinality({n \in DOMAIN log : log[n].failed}) <= failed
  /\ \A n \in DOMAIN log :
       ended[log[n].of] = "failed" => log[n].failed

(* A finished snapshot has the state time of each sampled trace exactly    *)
(* once, from t.stateTime or from the trace itself, and no failure that    *)
(* the traces it shows as live could still add: nothing is counted twice   *)
(* or not at all as traces move from active to finished around the copy    *)
(* (tracer.go:324-350, 258-271).                                           *)
SnapshotBalances ==
  \A r \in Readers :
    rpc[r] = "done" /\ op[r] = "Snapshot" /\ resets = 0 =>
      /\ \A w \in Work : view[r].timed[w] <= 1
      /\ view[r].sampled = SumFunction(view[r].timed)
      /\ view[r].failed + Cardinality(view[r].live) <= view[r].sampled

(* Trace misses a trace that was in flight when it was called only if that *)
(* trace has meanwhile been finished (tracer.go:443-466).                  *)
LookupFindsInFlight ==
  \A r \in Readers :
    rpc[r] = "done" /\ op[r] = "Trace" /\ origin[r] # NoTrace
      /\ pc[origin[r]] \in Open =>
         found[r] \/ \E c \in view[r].live : c.of = origin[r]

(* A unit that began is retained at some moment, even when Reset runs      *)
(* while it is in flight: "traces in flight are left alone and are         *)
(* recorded when they complete" (tracer.go:468-469).                       *)
BegunIsRetained ==
  \A w \in Work : pc[w] = "begun" ~> \E n \in DOMAIN log : log[n].of = w

-----------------------------------------------------------------------------
(* What the tracer implements. *)

Stage(p) ==
  IF p \in {"idle", "untraced", "admitted"} THEN "new"
  ELSE IF p \in Open THEN "inFlight"
  ELSE IF p = "settled" THEN "finished"
  ELSE "over"

(* Each unit is counted, finished and offered to the storage once, in that *)
(* order, whichever IDs are reused, readers hold the lock or Resets come   *)
(* between (tracer.go:222-277, 468-484).                                   *)
Record == INSTANCE Recording
            WITH Units <- Work, Entries <- Entry, limit <- Cap,
                 mayLose <- StorageMayFail, kept <- log,
                 stage <- [w \in Work |-> Stage(pc[w])]

ImplementsRecording == Record!Spec

(* What the storage holds is the bounded log that Ring implements.         *)
Storage == INSTANCE BoundedLog
             WITH limit <- Cap, Entries <- Entry, log <- log

RetainsAsBoundedLog == Storage!Spec

-----------------------------------------------------------------------------
(* What the documentation states and this code does not always do: each is *)
(* checked by a run that expects TLC to find it violated.                  *)

(* "SLA is the share of recorded traces that did not [fail], as a          *)
(* percentage" (model/model.go:247-249): the failed traces are among the   *)
(* recorded ones, so the share is not negative.                            *)
SLAIsShare ==
  \A r \in Readers :
    rpc[r] = "done" /\ op[r] = "Snapshot" =>
      view[r].failed <= view[r].sampled
=============================================================================
