--------------------------- MODULE TraceRecording ---------------------------
(***************************************************************************)
(* One live trace (model/trace.go, span.go, clock.go, debug_span.go,       *)
(* log.go): the application's goroutines start and end spans, record       *)
(* errors, states and log lines on it, one of them finishes it, and the    *)
(* tracer and the storage clone it meanwhile.                              *)
(*                                                                         *)
(* The trace has one lock and each span another. A section that takes one  *)
(* lock and nothing else is one step. Three calls hold the trace lock over *)
(* several steps or take both locks one after the other: appendLog and     *)
(* CloneInto ask spans for their lock while they hold the trace's, and     *)
(* Span.End and Span.RecordError give theirs back before they ask for the  *)
(* trace's. The search for the innermost open span is one step: the list   *)
(* stands still under the trace lock and a span never reopens, so the      *)
(* answer is right at the moment the last span is asked.                   *)
(*                                                                         *)
(* Time counts steps of the clock. The clock of the machine may stand      *)
(* still or run backwards; what it reads is any value.                     *)
(***************************************************************************)
EXTENDS Integers, Sequences, FiniteSetsExt, SequencesExt, Functions

CONSTANTS
  Threads,          \* goroutines that record on the trace
  Cloners,          \* goroutines that clone it: Snapshot, Live, Trace, Save
  States,           \* scoreboard states
  Starting, Error,  \* the first state of a trace and the state of a failure
  MaxSpans,         \* TraceOptions.MaxSpans; zero means unlimited
  DebugMin,         \* TraceOptions.DebugSpanMinDuration
  MaxStarts,        \* bound on the spans the application asks for
  MaxLogs,          \* bound on the log lines it writes
  MaxClock,         \* bound on the clock: no call begins after it
  Jump              \* bound on what the clock advances in one reading

None == 0           \* no span, as ParentID and LogEntry.SpanID have it
Ids  == 1..MaxStarts

ASSUME RecordingAssumption ==
  /\ Starting \in States /\ Error \in States /\ Starting # Error
  /\ IsFiniteSet(States)
  /\ Threads \cap Cloners = {} /\ None \notin Threads \cup Cloners
  /\ MaxSpans \in Nat /\ DebugMin \in Nat /\ MaxStarts \in Nat
  /\ MaxLogs \in Nat /\ MaxClock \in Nat /\ Jump \in Nat

VARIABLES
  capture,          \* t.captureLogs, set once
  last,             \* box.lastNanos: the last recorded reading
  state,            \* t.State
  failed,           \* whether t.ErrorText is set
  changedAt,        \* t.changedAt, with t.StartedAt at zero
  stateTime,        \* t.stateTime: time spent per state
  duration,         \* t.Duration
  finished,         \* t.finished
  spans,            \* t.Spans: the IDs it lists
  sequence,         \* t.sequence
  dropped,          \* t.DroppedSpans
  logs,             \* t.Logs
  droppedLogs,      \* t.DroppedLogs
  span,             \* what each span holds
  owner,            \* the goroutine that holds the trace lock, or None
  held,             \* the goroutine that holds each span's lock, or None
  pc,               \* where each goroutine is in its call
  arg,              \* the span, or the duration, its call works on
  rest,             \* the spans Finish has yet to end
  view,             \* the clone a cloner writes
  asked, written,   \* observer: calls of StartSpan and of the log methods
                    \*   that found the trace unfinished
  cause             \* observer: the span whose error the trace recorded last

clockVars == <<last>>
stateVars == <<state, failed, changedAt, stateTime, duration, finished>>
listVars  == <<spans, sequence, dropped>>
logVars   == <<logs, droppedLogs>>
spanVars  == <<span>>
lockVars  == <<owner, held>>
callVars  == <<pc, arg, rest>>
seenVars  == <<asked, written, cause>>
vars == <<capture, clockVars, stateVars, listVars, logVars, spanVars, lockVars,
          callVars, view, seenVars>>

Unrecorded == [parent |-> None, start |-> 0, duration |-> 0, ended |-> FALSE,
               debug |-> FALSE, failed |-> FALSE]

NoCopies == [i \in {} |-> Unrecorded]

NoView == [spans |-> << >>, span |-> NoCopies, failed |-> FALSE,
           cause |-> None, finished |-> FALSE, duration |-> 0]

Goroutines == Threads \cup Cloners

-----------------------------------------------------------------------------
(* Locks and the clock. *)

Free == owner = None

SpanFree(s) == held[s] = None

At(g, from, to) == pc[g] = from /\ pc' = [pc EXCEPT ![g] = to]

(* Mutant: a coarse clock is recorded as it reads. *)
StillReadings == (last)..(last + Jump)

(* What time() may record: a reading at or behind the last one advances    *)
(* one step past it, and the compare-and-swap takes the last one as it is. *)
Readings == (last + 1)..(last + Jump)

(* Mutant: peek returns the clock of the machine as it comes. *)
RawPeeks == (last - 1)..(last + Jump)

(* What peek() may return: never behind the last recorded reading. *)
Peeks == (last)..(last + Jump)

Init ==
  /\ capture \in BOOLEAN
  /\ last = 0
  /\ state = Starting
  /\ failed = FALSE
  /\ changedAt = 0
  /\ stateTime = [s \in States |-> 0]
  /\ duration = 0
  /\ finished = FALSE
  /\ spans = << >> /\ sequence = 0 /\ dropped = 0
  /\ logs = << >> /\ droppedLogs = 0
  /\ span = [i \in Ids |-> Unrecorded]
  /\ owner = None
  /\ held = [i \in Ids |-> None]
  /\ pc = [g \in Goroutines |-> "idle"]
  /\ arg = [g \in Goroutines |-> None]
  /\ rest = [g \in Goroutines |-> << >>]
  /\ view = [g \in Cloners |-> NoView]
  /\ asked = 0 /\ written = 0
  /\ cause = None

(* A goroutine calls only while the bounded clock runs. *)
MayCall(g) == pc[g] = "idle" /\ last < MaxClock

-----------------------------------------------------------------------------
(* Spans. *)

BelowLimit == MaxSpans > 0 => Len(spans) < MaxSpans

(* Mutant: the trace takes spans after it finished. *)
AlwaysTakes == TRUE

(* appendSpan and appendLog refuse what comes after Finish. *)
Takes == ~finished

(* StartSpan below a span the caller's context carries, or below none. The *)
(* context may carry a span that ended or was filtered out.                *)
StartSpan(g, p) ==
  /\ MayCall(g)
  /\ Free /\ Takes /\ BelowLimit
  /\ asked < MaxStarts
  /\ asked' = asked + 1
  /\ sequence' = sequence + 1
  /\ last' \in Readings
  /\ span' = [span EXCEPT ![sequence + 1] =
                [Unrecorded EXCEPT !.parent = p, !.start = last']]
  /\ spans' = Append(spans, sequence + 1)
  /\ UNCHANGED <<capture, stateVars, dropped, logVars, lockVars, callVars, view,
                 written, cause>>

(* StartSpan at the limit: the caller goes on with the context it had. *)
RefuseSpan(g) ==
  /\ MayCall(g)
  /\ Free /\ Takes /\ ~BelowLimit
  /\ asked < MaxStarts
  /\ asked' = asked + 1
  /\ dropped' = dropped + 1
  /\ UNCHANGED <<capture, clockVars, stateVars, spans, sequence, logVars,
                 spanVars, lockVars, callVars, view, written, cause>>

SetDebug(g, s) ==
  /\ MayCall(g) /\ SpanFree(s)
  /\ ~span[s].debug
  /\ span' = [span EXCEPT ![s].debug = TRUE]
  /\ UNCHANGED <<capture, clockVars, stateVars, listVars, logVars, lockVars,
                 callVars, view, seenVars>>

(* Where a goroutine goes on when a span has ended: Finish goes on with    *)
(* the spans left to end, an application's call is over.                   *)
After(left) == IF left = << >> THEN "idle" ELSE "finishing"

(* Mutant: End keeps the span's lock while it asks for the trace's. *)
HoldLock(g, s) == held' = [held EXCEPT ![s] = g]

LeaveLock(g, s) == UNCHANGED held

TooShort(s, d) == span[s].debug /\ d < DebugMin

(* The section of Span.End under the span's lock. A debug span that ran    *)
(* shorter than the minimum goes to the filter when the lock is free again.*)
EndOpen(g, s, left) ==
  /\ SpanFree(s) /\ ~span[s].ended
  /\ last' \in Readings
  /\ LET d == last' - span[s].start IN
     /\ span' = [span EXCEPT ![s].ended = TRUE, ![s].duration = d]
     /\ \/ /\ TooShort(s, d)
           /\ pc' = [pc EXCEPT ![g] = "filter"]
           /\ arg' = [arg EXCEPT ![g] = s]
           /\ LeaveLock(g, s)
        \/ /\ ~TooShort(s, d)
           /\ pc' = [pc EXCEPT ![g] = After(left)]
           /\ UNCHANGED <<arg, held>>
  /\ rest' = [rest EXCEPT ![g] = left]
  /\ UNCHANGED <<capture, stateVars, listVars, logVars, owner, view, seenVars>>

(* End of a span that ended before. *)
EndAgain(g, s, left) ==
  /\ SpanFree(s) /\ span[s].ended
  /\ pc' = [pc EXCEPT ![g] = After(left)]
  /\ rest' = [rest EXCEPT ![g] = left]
  /\ UNCHANGED <<capture, clockVars, stateVars, listVars, logVars, spanVars,
                 lockVars, arg, view, seenVars>>

EndSpan(g, s) == MayCall(g) /\ EndOpen(g, s, << >>)

(* The list without span s, which it holds once. *)
Without(s) ==
  LET here == {n \in DOMAIN spans : spans[n] = s} IN
  IF here = {} THEN spans ELSE RemoveAt(spans, CHOOSE n \in here : TRUE)

(* Mutants: the filter takes a span off a finished trace, or does not      *)
(* count what it takes.                                                    *)
FilterFinished(s) ==
  /\ spans' = Without(s)
  /\ dropped' = dropped + 1
FilterUncounted(s) ==
  IF finished THEN UNCHANGED <<spans, dropped>>
  ELSE /\ spans' = Without(s)
       /\ UNCHANGED dropped

Filter(s) ==
  IF finished THEN UNCHANGED <<spans, dropped>>
  ELSE /\ spans' = Without(s)
       /\ dropped' = dropped + Len(spans) - Len(spans')

(* filterDebugSpan under the trace lock. *)
FilterDebugSpan(g) ==
  /\ At(g, "filter", After(rest[g]))
  /\ Free
  /\ Filter(arg[g])
  /\ held' = [held EXCEPT ![arg[g]] = None]
  /\ arg' = [arg EXCEPT ![g] = None]
  /\ UNCHANGED <<capture, clockVars, stateVars, sequence, logVars, spanVars,
                 owner, rest, view, seenVars>>

-----------------------------------------------------------------------------
(* States and errors. *)

(* Mutant: any state may follow the error. *)
MayFollow(s) == TRUE

(* The error is the last state: SetState leaves it alone. *)
MaySet(s) == state # Error \/ s = Error

(* Mutant: a state entered again goes on being timed from its start. *)
EnterAgain(s) ==
  /\ last' \in Readings
  /\ stateTime' = [stateTime EXCEPT ![state] = @ + (last' - changedAt)]
  /\ state' = s
  /\ changedAt' = IF s = state THEN changedAt ELSE last'

(* The trace moves to state s at a recorded reading. *)
Enter(s) ==
  /\ last' \in Readings
  /\ stateTime' = [stateTime EXCEPT ![state] = @ + (last' - changedAt)]
  /\ state' = s
  /\ changedAt' = last'

SetState(g, s) ==
  /\ MayCall(g)
  /\ Free /\ MaySet(s)
  /\ Enter(s)
  /\ UNCHANGED <<capture, failed, duration, finished, listVars, logVars,
                 spanVars, lockVars, callVars, view, seenVars>>

(* Trace.RecordError, which the application calls (s is None) or the       *)
(* second half of Span.RecordError. It does not look at finished.          *)
Fail(s) ==
  /\ Free
  /\ Enter(Error)
  /\ failed' = TRUE
  /\ cause' = s

TraceError(g) ==
  /\ MayCall(g)
  /\ Fail(None)
  /\ UNCHANGED <<capture, duration, finished, listVars, logVars, spanVars,
                 lockVars, callVars, view, asked, written>>

(* Mutant: a span that ended takes no error, and the trace still does. *)
MarkOpen(s) == span' = [span EXCEPT ![s].failed = ~span[s].ended]

MarkSpan(s) == span' = [span EXCEPT ![s].failed = TRUE]

(* The first half of Span.RecordError, under the span's lock. *)
SpanError(g, s) ==
  /\ SpanFree(s)
  /\ MarkSpan(s)
  /\ pc' = [pc EXCEPT ![g] = "blame"]
  /\ arg' = [arg EXCEPT ![g] = s]
  /\ UNCHANGED <<capture, clockVars, stateVars, listVars, logVars, lockVars,
                 rest, view, seenVars>>

Blame(g) ==
  /\ At(g, "blame", "idle")
  /\ Fail(arg[g])
  /\ arg' = [arg EXCEPT ![g] = None]
  /\ UNCHANGED <<capture, duration, finished, listVars, logVars, spanVars,
                 lockVars, rest, view, asked, written>>

-----------------------------------------------------------------------------
(* Log lines. *)

IsOpen(s) == ~span[s].ended

(* openSpan: the most recently started span that has not ended. *)
OpenSpan ==
  LET open == {n \in DOMAIN spans : IsOpen(spans[n])} IN
  IF open = {} THEN None ELSE spans[Max(open)]

(* openSpan asks every span for its lock, from the last one back. *)
AsksSpans ==
  \A n \in DOMAIN spans : spans[n] >= OpenSpan => SpanFree(spans[n])

LogRoom == MaxSpans > 0 => Len(logs) < MaxSpans

MayLog(g) == MayCall(g) /\ capture /\ Free /\ Takes /\ written < MaxLogs

(* The line of a given span, or of the innermost open one, is appended. *)
Write(s) ==
  /\ last' \in Readings
  /\ logs' = Append(logs, [span |-> s, time |-> last'])

(* Span.Info, Warn and Error. *)
LogOnSpan(g, s) ==
  /\ MayLog(g) /\ LogRoom
  /\ Write(s)
  /\ written' = written + 1
  /\ UNCHANGED <<capture, stateVars, listVars, droppedLogs, spanVars, lockVars,
                 callVars, view, asked, cause>>

(* Trace.Info, Warn and Error: first the span is looked for... *)
FindSpan(g) ==
  /\ MayLog(g) /\ LogRoom /\ AsksSpans
  /\ pc' = [pc EXCEPT ![g] = "append"]
  /\ arg' = [arg EXCEPT ![g] = OpenSpan]
  /\ owner' = g
  /\ written' = written + 1
  /\ UNCHANGED <<capture, clockVars, stateVars, listVars, logVars, spanVars,
                 held, rest, view, asked, cause>>

(* ...then, under the same lock, the line is appended. *)
LogOnOpen(g) ==
  /\ At(g, "append", "idle")
  /\ Write(arg[g])
  /\ arg' = [arg EXCEPT ![g] = None]
  /\ owner' = None
  /\ UNCHANGED <<capture, stateVars, listVars, droppedLogs, spanVars, held,
                 rest, view, seenVars>>

RefuseLog(g) ==
  /\ MayLog(g) /\ ~LogRoom
  /\ droppedLogs' = droppedLogs + 1
  /\ written' = written + 1
  /\ UNCHANGED <<capture, clockVars, stateVars, listVars, logs, spanVars,
                 lockVars, callVars, view, asked, cause>>

(* Trace.Error without log capture looks for the open span and releases    *)
(* the trace lock; then the span, or the trace, records the error.         *)
FindCurrent(g) ==
  /\ MayCall(g) /\ ~capture /\ Free /\ AsksSpans
  /\ pc' = [pc EXCEPT ![g] = "current"]
  /\ arg' = [arg EXCEPT ![g] = OpenSpan]
  /\ UNCHANGED <<capture, clockVars, stateVars, listVars, logVars, spanVars,
                 lockVars, rest, view, seenVars>>

ErrorOnSpan(g) == pc[g] = "current" /\ arg[g] # None /\ SpanError(g, arg[g])

ErrorOnTrace(g) ==
  /\ arg[g] = None
  /\ At(g, "current", "idle")
  /\ Fail(None)
  /\ UNCHANGED <<capture, duration, finished, listVars, logVars, spanVars,
                 lockVars, arg, rest, view, asked, written>>

-----------------------------------------------------------------------------
(* Finish and clones. *)

(* Mutant: Finish ends only the span on top. *)
TopOnly == IF spans = << >> THEN << >> ELSE <<Last(spans)>>

Listed == spans

(* The locked section of Finish. A second Finish returns at once. *)
Finish(g) ==
  /\ MayCall(g)
  /\ Free /\ ~finished
  /\ Enter(state)
  /\ duration' = last'
  /\ finished' = TRUE
  /\ rest' = [rest EXCEPT ![g] = Listed]
  /\ pc' = [pc EXCEPT ![g] = After(Listed)]
  /\ UNCHANGED <<capture, failed, listVars, logVars, spanVars, lockVars, arg,
                 view, seenVars>>

(* Finish ends the spans it found, the last one first. *)
EndNext(g) ==
  /\ pc[g] = "finishing"
  /\ \/ EndOpen(g, Last(rest[g]), Front(rest[g]))
     \/ EndAgain(g, Last(rest[g]), Front(rest[g]))

(* The trace's own fields, without a span yet. *)
Heading == [spans |-> spans, span |-> NoCopies, failed |-> failed,
            cause |-> cause, finished |-> finished, duration |-> 0]

(* CloneInto takes the trace lock and copies the trace's own fields... *)
StartClone(g) ==
  /\ Free
  /\ At(g, "idle", "copying")
  /\ owner' = g
  /\ rest' = [rest EXCEPT ![g] = spans]
  /\ view' = [view EXCEPT ![g] = Heading]
  /\ UNCHANGED <<capture, clockVars, stateVars, listVars, logVars, spanVars,
                 held, arg, seenVars>>

(* Span.cloneInto: an open span is copied with its time so far. *)
CopyOf(s, now) ==
  IF span[s].ended THEN span[s]
  ELSE [span[s] EXCEPT !.duration = Max({0, now - span[s].start})]

(* What clone c has of spans with the copy of s made at now. *)
WithCopy(c, s, now) ==
  [i \in DOMAIN c \cup {s} |-> IF i = s THEN CopyOf(s, now) ELSE c[i]]

(* ...then each span, under the span's own lock... *)
CopySpan(g) ==
  /\ pc[g] = "copying" /\ rest[g] # << >>
  /\ SpanFree(Head(rest[g]))
  /\ \E now \in Peeks :
       view' = [view EXCEPT ![g].span = WithCopy(@, Head(rest[g]), now)]
  /\ rest' = [rest EXCEPT ![g] = Tail(@)]
  /\ UNCHANGED <<capture, clockVars, stateVars, listVars, logVars, spanVars,
                 lockVars, pc, arg, seenVars>>

(* ...and last the duration: a trace in flight has run until now. *)
EndClone(g) ==
  /\ rest[g] = << >>
  /\ At(g, "copying", "copied")
  /\ \E now \in Peeks :
       view' = [view EXCEPT ![g].duration = IF duration = 0 THEN now
                                            ELSE duration]
  /\ owner' = None
  /\ UNCHANGED <<capture, clockVars, stateVars, listVars, logVars, spanVars,
                 held, arg, rest, seenVars>>

(* The reader is done with its clone. *)
DropClone(g) ==
  /\ At(g, "copied", "idle")
  /\ view' = [view EXCEPT ![g] = NoView]
  /\ UNCHANGED <<capture, clockVars, stateVars, listVars, logVars, spanVars,
                 lockVars, arg, rest, seenVars>>

(* Elapsed and StateTimes at a reading of the clock. *)
Elapsed(now) == IF duration > 0 THEN duration ELSE now

StateTimes(now) ==
  IF finished THEN stateTime
  ELSE [stateTime EXCEPT ![state] = @ + (now - changedAt)]

-----------------------------------------------------------------------------
Call(g) ==
  \/ \E p \in 0..sequence : StartSpan(g, p)
  \/ RefuseSpan(g)
  \/ \E s \in 1..sequence : \/ SetDebug(g, s) \/ EndSpan(g, s)
                            \/ MayCall(g) /\ SpanError(g, s)
                            \/ LogOnSpan(g, s)
  \/ \E s \in States : SetState(g, s)
  \/ TraceError(g)
  \/ FindSpan(g) \/ RefuseLog(g) \/ FindCurrent(g)
  \/ Finish(g)

(* What a call does after its first section. *)
Continue(g) ==
  \/ FilterDebugSpan(g) \/ Blame(g) \/ LogOnOpen(g)
  \/ ErrorOnSpan(g) \/ ErrorOnTrace(g) \/ EndNext(g)

Clone(g) == CopySpan(g) \/ EndClone(g) \/ DropClone(g)

Next ==
  \/ \E g \in Threads : Call(g) \/ Continue(g)
  \/ \E g \in Cloners : StartClone(g) \/ Clone(g)

Spec == Init /\ [][Next]_vars

-----------------------------------------------------------------------------
(* Properties. *)

SpanRecord == [parent : Nat, start : Nat, duration : Int, ended : BOOLEAN,
               debug : BOOLEAN, failed : BOOLEAN]

Copies == UNION {[D -> SpanRecord] : D \in SUBSET Ids}

ViewRecord == [spans : Seq(Ids), span : Copies, failed : BOOLEAN,
               cause : Ids \cup {None}, finished : BOOLEAN, duration : Nat]

Positions == {"idle", "filter", "blame", "append", "current", "finishing",
              "copying", "copied"}

StateTypes ==
  /\ capture \in BOOLEAN /\ failed \in BOOLEAN /\ finished \in BOOLEAN
  /\ last \in Nat /\ changedAt \in Nat /\ duration \in Nat
  /\ state \in States /\ stateTime \in [States -> Nat]
  /\ cause \in Ids \cup {None}

ListTypes ==
  /\ spans \in Seq(Ids) /\ sequence \in 0..MaxStarts /\ dropped \in Nat
  /\ asked \in 0..MaxStarts
  /\ span \in [Ids -> SpanRecord]

LogTypes ==
  /\ logs \in Seq([span : Nat, time : Nat])
  /\ droppedLogs \in Nat /\ written \in 0..MaxLogs

CallTypes ==
  /\ owner \in Goroutines \cup {None}
  /\ held \in [Ids -> Goroutines \cup {None}]
  /\ pc \in [Goroutines -> Positions]
  /\ arg \in [Goroutines -> Ids \cup {None}]
  /\ rest \in [Goroutines -> Seq(Ids)]

ViewTypes == view \in [Cloners -> ViewRecord]

TypeOK == StateTypes /\ ListTypes /\ LogTypes /\ CallTypes /\ ViewTypes

(* "Within a trace, order and duration come from these values" (clock.go:  *)
(* 13-18): the listed spans are in the order they started in, no two tie,  *)
(* a span starts after the one it is below, and every recorded duration is *)
(* positive, also when the clock of the machine stands still and spans are *)
(* taken out of the list by the filter while others are put in. Readings   *)
(* recorded on log lines increase in write order, and a line is later than *)
(* the start of the span it is linked to (log.go:31-44).                   *)
SpansOrdered ==
  /\ \A m, n \in DOMAIN spans : m < n =>
       /\ spans[m] < spans[n]
       /\ span[spans[m]].start < span[spans[n]].start
  /\ \A s \in 1..sequence :
       /\ span[s].parent # None => span[span[s].parent].start < span[s].start
       /\ span[s].ended => span[s].duration > 0
  /\ \A m, n \in DOMAIN logs : m < n => logs[m].time < logs[n].time
  /\ \A n \in DOMAIN logs :
       logs[n].span # None => span[logs[n].span].start < logs[n].time

(* Every span the application asked for is listed or counted as dropped,   *)
(* by the limit or by the filter, and the list keeps the limit (trace.go:  *)
(* 135-138, debug_span.go:56-60). The log lines likewise (log.go:24-27),   *)
(* but for one on its way.                                                 *)
SpansAccounted ==
  /\ Len(spans) + dropped = asked
  /\ MaxSpans > 0 => Len(spans) <= MaxSpans
  /\ Len(logs) + droppedLogs + Cardinality({g \in Threads : pc[g] = "append"})
       = written

(* The time spent per state adds up to the time the trace runs, at every   *)
(* reading, whoever moves the state; after Finish it is short of nothing   *)
(* (trace.go:493-526, 544).                                                *)
StateTimesAddUp ==
  \A now \in Peeks :
    /\ ~finished => SumFunction(StateTimes(now)) = Elapsed(now)
    /\ finished => /\ 0 < Elapsed(now)
                   /\ Elapsed(now) <= SumFunction(StateTimes(now))

(* Once Finish returned, every listed span has ended: none started beside  *)
(* it, none was skipped because the list changed under its walk (trace.go: *)
(* 545-553, debug_span.go:37-39).                                          *)
FinishEndsSpans ==
  finished /\ (\A g \in Threads : rest[g] = << >>) =>
    \A n \in DOMAIN spans : span[spans[n]].ended

(* A failed span means a failed trace in the error state, unless the call  *)
(* that records it is between its two locks (span.go:84-96); no SetState   *)
(* afterwards hides it (trace.go:202).                                     *)
FailureReachesTrace ==
  (\E s \in 1..sequence : span[s].failed)
    /\ (\A g \in Threads : pc[g] # "blame") =>
       failed /\ state = Error

(* A clone is explained by itself: the error of its trace came from a span *)
(* that it shows as failed, or that the filter took away, although errors  *)
(* are recorded and spans end while it is copied (span.go:84-96, trace.go: *)
(* 433-479).                                                               *)
CloneExplainsError ==
  \A g \in Cloners :
    pc[g] = "copied" /\ view[g].cause # None =>
      /\ view[g].failed
      /\ view[g].cause \in DOMAIN view[g].span =>
           view[g].span[view[g].cause].failed

(* No span of a clone starts after the clone's trace ends, and in a clone  *)
(* in flight no span that ended ends after it (clock.go:36-39, trace.go:   *)
(* 477-479). Spans that Finish ended do end after the trace.               *)
CloneFits ==
  \A g \in Cloners :
    pc[g] = "copied" => \A s \in DOMAIN view[g].span :
      LET c == view[g].span[s] IN
      /\ c.start <= view[g].duration
      /\ ~view[g].finished /\ c.ended =>
           c.start + c.duration <= view[g].duration

(* A finished trace keeps what it lists: no span or line comes or goes and *)
(* its duration stands (trace.go:132, 546-547, debug_span.go:37-49, log.go:*)
(* 21). Its state, error and state times may still change.                 *)
FinishedStands ==
  [][finished => UNCHANGED <<listVars, logVars, duration, finished>>]_vars

(* Calls take the trace's and the spans' locks one after the other and     *)
(* some hold both, and still none waits for ever: while a call is under    *)
(* way, some call can go on (span.go:70-75). Each step of Continue and     *)
(* Clone brings its call nearer to its end, so every call returns.         *)
NoDeadlock ==
  (\E g \in Goroutines : pc[g] # "idle") =>
     \/ \E g \in Threads : ENABLED Continue(g)
     \/ \E g \in Cloners : ENABLED Clone(g)
=============================================================================
