------------------------- MODULE TraceRecordingProofs -------------------------
(***************************************************************************)
(* Proofs about a live trace, for any number of goroutines, any limits and *)
(* any clock readings.                                                     *)
(*                                                                         *)
(* Base is the part of the inductive invariant every proof needs: types,   *)
(* every pointer a call or a list holds names a span that was started, and *)
(* no recorded time is ahead of the clock. On top of it stand              *)
(*   Locking               who holds the trace lock over several steps,    *)
(*   Failing               where the error of a failed span is,            *)
(*   Explaining, Fitting   what a clone holds while it is written,         *)
(*   Ending                what the walk of Finish has yet to end,         *)
(*   Started, ListAscends, Lined, Extents   order and extent in time,      *)
(*   ListKept, LogsKept    the accounts of spans and log lines,            *)
(*   Timed                 the account of the time per state.              *)
(* Grows says what no step takes back; most of the others rest on it. The  *)
(* ENABLED of NoDeadlock is left to the model checker.                     *)
(***************************************************************************)
EXTENDS TraceRecording, DataProofs, SequenceTheorems

-----------------------------------------------------------------------------
(* Sequences and numbers: what Max, RemoveAt and Front return.             *)
LEMMA MaxIn ==
  ASSUME NEW n \in Nat, NEW S \in SUBSET (1..n), S # {}
  PROVE  Max(S) \in S
<1> DEFINE T == {n - x : x \in S}
<1>0. \A x \in S : n - x \in Nat
  OBVIOUS
<1>1. T \subseteq Nat /\ T # {}
  BY <1>0
<1>2. PICK y \in T : \A z \in T : y <= z
  BY <1>1, LeastNumber
<1>3. PICK x \in S : y = n - x
  OBVIOUS
<1>4. \A z \in S : x >= z
  <2> SUFFICES ASSUME NEW z \in S PROVE x >= z
    OBVIOUS
  <2>1. n - x <= n - z
    BY <1>2, <1>3
  <2> QED
    BY <2>1
<1> QED
  BY <1>4 DEF Max

LEMMA RemoveAtIs ==
  ASSUME NEW S, NEW q \in Seq(S), NEW n \in DOMAIN q
  PROVE  /\ RemoveAt(q, n) \in Seq(S)
         /\ Len(RemoveAt(q, n)) = Len(q) - 1
         /\ \A m \in 1..(Len(q) - 1) :
              RemoveAt(q, n)[m] = IF m < n THEN q[m] ELSE q[m + 1]
<1> DEFINE front == SubSeq(q, 1, n - 1)
           rear  == SubSeq(q, n + 1, Len(q))
<1>1. Len(q) \in Nat /\ n \in 1..Len(q)
  OBVIOUS
<1>2. front \in Seq(S) /\ rear \in Seq(S)
  BY <1>1
<1>3. Len(front) = n - 1 /\ Len(rear) = Len(q) - n
  BY <1>1
<1>4. /\ \A m \in 1..(n - 1) : front[m] = q[m]
      /\ \A m \in 1..(Len(q) - n) : rear[m] = q[m + n]
  BY <1>1
<1>5. RemoveAt(q, n) = front \o rear
  BY DEF RemoveAt
<1> HIDE DEF front, rear
<1>6. /\ front \o rear \in Seq(S)
      /\ Len(front \o rear) = Len(q) - 1
      /\ \A m \in 1..(Len(q) - 1) :
           (front \o rear)[m] = IF m <= n - 1 THEN front[m] ELSE rear[m - (n - 1)]
  BY <1>1, <1>2, <1>3, ConcatProperties
<1>7. ASSUME NEW m \in 1..(Len(q) - 1)
      PROVE  (front \o rear)[m] = IF m < n THEN q[m] ELSE q[m + 1]
  <2>1. CASE m < n
    BY <1>1, <1>4, <1>6, <2>1
  <2>2. CASE m >= n
    <3>1. m - (n - 1) \in 1..(Len(q) - n) /\ (m - (n - 1)) + n = m + 1
      BY <1>1, <2>2
    <3>2. (front \o rear)[m] = rear[m - (n - 1)]
      BY <1>1, <1>6, <2>2
    <3>3. rear[m - (n - 1)] = q[(m - (n - 1)) + n]
      BY <1>4, <3>1
    <3> QED
      BY <1>1, <2>2, <3>1, <3>2, <3>3
  <2>3. m < n \/ m >= n
    BY <1>1
  <2> QED
    BY <2>1, <2>2, <2>3
<1> QED
  BY <1>5, <1>6, <1>7

LEMMA FrontIs ==
  ASSUME NEW S, NEW q \in Seq(S), q # << >>
  PROVE  /\ Front(q) \in Seq(S)
         /\ Len(Front(q)) = Len(q) - 1
         /\ \A m \in 1..(Len(q) - 1) : Front(q)[m] = q[m]
         /\ Last(q) = q[Len(q)] /\ Len(q) \in DOMAIN q
BY DEF Front, Last


-----------------------------------------------------------------------------
(* Types, and where the references of a call lead. *)

(* Spans are numbered up to sequence, and every number a list, a call or   *)
(* the recorded error mentions is one of them.                             *)
ListPointers ==
  /\ sequence <= asked
  /\ \A n \in DOMAIN spans : spans[n] \in 1..sequence
  /\ cause \in 0..sequence

GoodCall(g) ==
  /\ pc[g] \in {"filter", "blame"} => arg[g] \in 1..sequence
  /\ pc[g] \in {"append", "current"} => arg[g] \in 0..sequence
  /\ pc[g] = "finishing" => rest[g] # << >>
  /\ \A k \in DOMAIN rest[g] : rest[g][k] \in 1..sequence

CallPointers == \A g \in Goroutines : GoodCall(g)

Pointers == ListPointers /\ CallPointers

Clocked ==
  /\ changedAt <= last /\ duration <= last
  /\ finished <=> duration > 0

Base == TypeOK /\ Pointers /\ Clocked

LEMMA Numbers ==
  /\ MaxStarts \in Nat /\ MaxLogs \in Nat /\ Jump \in Nat
  /\ Ids \subseteq Nat /\ None \notin Ids /\ None \notin Goroutines
  /\ Starting \in States /\ Error \in States
BY RecordingAssumption DEF Ids, None, Goroutines

LEMMA ReadingsIncrease ==
  ASSUME last \in Nat, NEW r \in Readings
  PROVE  r \in Nat /\ r > last
BY Numbers DEF Readings

LEMMA PeeksAhead ==
  ASSUME last \in Nat, NEW r \in Peeks
  PROVE  r \in Nat /\ r >= last
BY Numbers DEF Peeks

LEMMA OpenSpanListed ==
  ASSUME ListTypes, Pointers
  PROVE  OpenSpan \in 0..sequence
<1> DEFINE open == {n \in DOMAIN spans : IsOpen(spans[n])}
<1>1. CASE open = {}
  BY <1>1, Numbers DEF OpenSpan, None, ListTypes
<1>2. CASE open # {}
  <2>1. Len(spans) \in Nat /\ open \in SUBSET (1..Len(spans))
    BY DEF ListTypes
  <2>2. Max(open) \in open
    BY <1>2, <2>1, MaxIn
  <2>3. OpenSpan = spans[Max(open)]
    BY <1>2 DEF OpenSpan
  <2> QED
    BY <2>2, <2>3 DEF Pointers, ListPointers
<1> QED
  BY <1>1, <1>2

LEMMA SpansNumbered ==
  ASSUME ListTypes, NEW s \in 1..sequence
  PROVE  s \in Ids
BY Numbers DEF ListTypes, Ids

LEMMA AfterIs ==
  ASSUME NEW left
  PROVE  /\ After(left) \in {"idle", "finishing"} /\ After(left) \in Positions
         /\ After(left) = "finishing" => left # << >>
BY DEF After, Positions

-----------------------------------------------------------------------------
(* Types and pointers, one lemma per action.                               *)
LEMMA SameTypes ==
  /\ StateTypes /\ UNCHANGED <<capture, last, stateVars, cause>> => StateTypes'
  /\ ListTypes /\ UNCHANGED <<listVars, spanVars, asked>> => ListTypes'
  /\ LogTypes /\ UNCHANGED <<logVars, written>> => LogTypes'
  /\ CallTypes /\ UNCHANGED <<lockVars, callVars>> => CallTypes'
  /\ ViewTypes /\ UNCHANGED view => ViewTypes'
<1>1. StateTypes /\ UNCHANGED <<capture, last, stateVars, cause>> => StateTypes'
  BY DEF StateTypes, stateVars
<1>2. ListTypes /\ UNCHANGED <<listVars, spanVars, asked>> => ListTypes'
  BY DEF ListTypes, listVars, spanVars
<1>3. LogTypes /\ UNCHANGED <<logVars, written>> => LogTypes'
  BY DEF LogTypes, logVars
<1>4. CallTypes /\ UNCHANGED <<lockVars, callVars>> => CallTypes'
  BY DEF CallTypes, lockVars, callVars
<1>5. ViewTypes /\ UNCHANGED view => ViewTypes'
  BY DEF ViewTypes
<1> QED
  BY <1>1, <1>2, <1>3, <1>4, <1>5

LEMMA NoCopiesIs == NoCopies \in Copies /\ DOMAIN NoCopies = {}
<1>1. NoCopies \in [{} -> SpanRecord] /\ {} \in SUBSET Ids
  BY DEF NoCopies
<1> QED
  BY <1>1 DEF Copies

LEMMA NoViewIs == NoView \in ViewRecord
<1>1. << >> \in Seq(Ids) /\ None \in Ids \cup {None} /\ 0 \in Nat
  OBVIOUS
<1> QED
  BY <1>1, NoCopiesIs DEF NoView, ViewRecord

LEMMA InitBase == Init => Base
<1> SUFFICES ASSUME Init PROVE Base
  OBVIOUS
<1> USE Numbers
<1>1. StateTypes
  BY DEF Init, StateTypes
<1>2. ListTypes
  <2>1. Unrecorded \in SpanRecord
    BY DEF Unrecorded, SpanRecord, None
  <2> QED
    BY <2>1 DEF Init, ListTypes
<1>3. LogTypes
  BY DEF Init, LogTypes
<1>4. CallTypes
  BY DEF Init, CallTypes, Positions
<1>5. ViewTypes
  BY NoViewIs DEF Init, ViewTypes
<1>6. Pointers /\ Clocked
  BY DEF Init, Pointers, ListPointers, CallPointers, GoodCall, Clocked, None
<1> QED
  BY <1>1, <1>2, <1>3, <1>4, <1>5, <1>6 DEF Base, TypeOK

(* A state is entered at a later reading, and the time up to it is added.  *)
LEMMA EnterTypes ==
  ASSUME Base, NEW s \in States, Enter(s)
  PROVE  /\ last' \in Nat /\ last' > last /\ changedAt' = last' /\ state' = s
         /\ stateTime' \in [States -> Nat]
<1>1. last' \in Nat /\ last' > last
  BY ReadingsIncrease DEF Enter, Base, TypeOK, StateTypes
<1>2. stateTime[state] + (last' - changedAt) \in Nat
  BY <1>1 DEF Base, TypeOK, StateTypes, Clocked
<1> QED
  BY <1>1, <1>2 DEF Enter, Base, TypeOK, StateTypes

LEMMA SameBase ==
  /\ ListPointers /\ UNCHANGED <<listVars, asked, cause>> => ListPointers'
  /\ CallPointers /\ UNCHANGED <<callVars, sequence>> => CallPointers'
  /\ Clocked /\ UNCHANGED <<last, stateVars>> => Clocked'
<1>1. ListPointers /\ UNCHANGED <<listVars, asked, cause>> => ListPointers'
  BY DEF ListPointers, listVars
<1>2. CallPointers /\ UNCHANGED <<callVars, sequence>> => CallPointers'
  BY DEF CallPointers, GoodCall, callVars
<1>3. Clocked /\ UNCHANGED <<last, stateVars>> => Clocked'
  BY DEF Clocked, stateVars
<1> QED
  BY <1>1, <1>2, <1>3

(* A call of g moves on; the others stay where they are. *)
LEMMA CallMoves ==
  ASSUME Base, NEW g \in Goroutines,
         NEW to \in Positions, NEW x \in Ids \cup {None}, NEW q \in Seq(Ids),
         pc' = [pc EXCEPT ![g] = to], arg' = [arg EXCEPT ![g] = x],
         rest' = [rest EXCEPT ![g] = q],
         owner' \in Goroutines \cup {None},
         held' \in [Ids -> Goroutines \cup {None}],
         UNCHANGED sequence,
         to \in {"filter", "blame"} => x \in 1..sequence,
         to \in {"append", "current"} => x \in 0..sequence,
         to = "finishing" => q # << >>,
         \A k \in DOMAIN q : q[k] \in 1..sequence
  PROVE  CallTypes' /\ CallPointers'
<1>1. CallTypes'
  BY DEF Base, TypeOK, CallTypes
<1>2. \A h \in Goroutines :
        /\ pc'[h] = IF h = g THEN to ELSE pc[h]
        /\ arg'[h] = IF h = g THEN x ELSE arg[h]
        /\ rest'[h] = IF h = g THEN q ELSE rest[h]
  BY DEF Base, TypeOK, CallTypes
<1>3. CallPointers'
  BY <1>2 DEF Base, Pointers, CallPointers, GoodCall
<1> QED
  BY <1>1, <1>3

LEMMA StartSpanBase ==
  ASSUME Base, NEW g \in Threads, NEW p \in 0..sequence, StartSpan(g, p)
  PROVE  Base'
<1>1. last' \in Nat /\ last' > last
  BY ReadingsIncrease DEF StartSpan, Base, TypeOK, StateTypes
<1>2. sequence \in Nat /\ asked \in Nat /\ sequence + 1 \in Ids /\ asked + 1 \in 0..MaxStarts
      /\ sequence + 1 <= asked + 1
  BY Numbers DEF StartSpan, Base, TypeOK, ListTypes, Pointers, ListPointers, Ids
<1>3. StateTypes'
  BY <1>1 DEF StartSpan, stateVars, Base, TypeOK, StateTypes
<1>4. ListTypes'
  <2>0. p \in Nat /\ 0 \in Int
    BY <1>2
  <2>1. [Unrecorded EXCEPT !.parent = p, !.start = last'] \in SpanRecord
    BY <1>1, <2>0 DEF Unrecorded, SpanRecord
  <2>2. span' \in [Ids -> SpanRecord]
    BY <2>1 DEF StartSpan, Base, TypeOK, ListTypes
  <2>3. Append(spans, sequence + 1) \in Seq(Ids)
    BY <1>2 DEF Base, TypeOK, ListTypes
  <2>4. sequence + 1 \in 0..MaxStarts
    BY <1>2 DEF Ids
  <2> QED
    BY <1>2, <2>2, <2>3, <2>4 DEF StartSpan, Base, TypeOK, ListTypes
<1>5. ListPointers'
  <2>1. spans' = Append(spans, sequence + 1) /\ spans \in Seq(Ids)
    BY DEF StartSpan, Base, TypeOK, ListTypes
  <2>2. \A n \in DOMAIN spans' : n \in DOMAIN spans \/ spans'[n] = sequence + 1
    BY <2>1
  <2>3. \A n \in DOMAIN spans : spans'[n] = spans[n]
    BY <2>1
  <2> QED
    BY <1>2, <2>2, <2>3 DEF StartSpan, Base, Pointers, ListPointers
<1>6. CallPointers'
  BY <1>2 DEF StartSpan, callVars, Base, Pointers, CallPointers, GoodCall
<1>7. Clocked'
  BY <1>1 DEF StartSpan, stateVars, Base, TypeOK, StateTypes, Clocked
<1> QED
  BY <1>3, <1>4, <1>5, <1>6, <1>7, SameTypes DEF StartSpan, Base, TypeOK, Pointers

LEMMA RefuseSpanBase ==
  ASSUME Base, NEW g \in Threads, RefuseSpan(g)
  PROVE  Base'
<1>1. ListTypes'
  BY Numbers DEF RefuseSpan, spanVars, Base, TypeOK, ListTypes
<1>2. ListPointers'
  BY DEF RefuseSpan, Base, TypeOK, ListTypes, Pointers, ListPointers
<1> QED
  BY <1>1, <1>2, SameTypes, SameBase DEF RefuseSpan, clockVars, Base, TypeOK, Pointers

LEMMA SetDebugBase ==
  ASSUME Base, NEW g \in Threads, NEW s \in 1..sequence, SetDebug(g, s)
  PROVE  Base'
<1>1. s \in Ids
  BY SpansNumbered DEF Base, TypeOK
<1>2. [span[s] EXCEPT !.debug = TRUE] \in SpanRecord
  BY <1>1 DEF Base, TypeOK, ListTypes, SpanRecord
<1>3. ListTypes'
  BY <1>2 DEF SetDebug, listVars, seenVars, Base, TypeOK, ListTypes
<1> QED
  BY <1>3, SameTypes, SameBase
  DEF SetDebug, clockVars, listVars, seenVars, Base, TypeOK, Pointers

LEMMA EndOpenBase ==
  ASSUME Base, NEW g \in Threads, NEW s \in 1..sequence, NEW left \in Seq(Ids),
         \A k \in DOMAIN left : left[k] \in 1..sequence, EndOpen(g, s, left)
  PROVE  Base'
<1>1. last' \in Nat /\ last' > last
  BY ReadingsIncrease DEF EndOpen, Base, TypeOK, StateTypes
<1>2. s \in Ids /\ g \in Goroutines
  BY SpansNumbered DEF Base, TypeOK, Goroutines
<1>3. StateTypes' /\ Clocked'
  BY <1>1 DEF EndOpen, stateVars, seenVars, Base, TypeOK, StateTypes, Clocked
<1>4. ListTypes'
  <2>1. span[s] \in SpanRecord /\ last' - span[s].start \in Int
    BY <1>1, <1>2 DEF Base, TypeOK, ListTypes, SpanRecord
  <2>2. [span[s] EXCEPT !.ended = TRUE, !.duration = last' - span[s].start] \in SpanRecord
    BY <2>1 DEF SpanRecord
  <2>3. span' = [span EXCEPT ![s] = [span[s] EXCEPT !.ended = TRUE,
                                       !.duration = last' - span[s].start]]
    BY <1>2, <2>1 DEF EndOpen, Base, TypeOK, ListTypes, SpanRecord
  <2> QED
    BY <2>2, <2>3 DEF EndOpen, listVars, seenVars, Base, TypeOK, ListTypes
<1>5. CallTypes' /\ CallPointers'
  <2>1. CASE TooShort(s, last' - span[s].start)
    <3>1. /\ pc' = [pc EXCEPT ![g] = "filter"] /\ arg' = [arg EXCEPT ![g] = s]
          /\ rest' = [rest EXCEPT ![g] = left] /\ UNCHANGED <<owner, held, sequence>>
      BY <2>1 DEF EndOpen, LeaveLock, listVars
    <3> QED
      BY <1>2, <3>1, CallMoves DEF Positions, Base, TypeOK, CallTypes
  <2>2. CASE ~TooShort(s, last' - span[s].start)
    <3>1. /\ pc' = [pc EXCEPT ![g] = After(left)] /\ UNCHANGED arg
          /\ rest' = [rest EXCEPT ![g] = left] /\ UNCHANGED <<owner, held, sequence>>
      BY <2>2 DEF EndOpen, listVars
    <3>2. arg[g] \in Ids \cup {None} /\ arg' = [arg EXCEPT ![g] = arg[g]]
      BY <1>2, <3>1 DEF Base, TypeOK, CallTypes
    <3> QED
      BY <1>2, <3>1, <3>2, AfterIs, CallMoves DEF Base, TypeOK, CallTypes
  <2> QED
    BY <2>1, <2>2
<1> QED
  BY <1>3, <1>4, <1>5, SameTypes, SameBase DEF EndOpen, seenVars, Base, TypeOK, Pointers

LEMMA EndAgainBase ==
  ASSUME Base, NEW g \in Threads, NEW s, NEW left \in Seq(Ids),
         \A k \in DOMAIN left : left[k] \in 1..sequence, EndAgain(g, s, left)
  PROVE  Base'
<1>1. g \in Goroutines
  BY DEF Goroutines
<1>2. /\ pc' = [pc EXCEPT ![g] = After(left)] /\ UNCHANGED arg
      /\ rest' = [rest EXCEPT ![g] = left] /\ UNCHANGED <<owner, held, sequence>>
  BY DEF EndAgain, listVars, lockVars
<1>3. arg[g] \in Ids \cup {None} /\ arg' = [arg EXCEPT ![g] = arg[g]]
  BY <1>1, <1>2 DEF Base, TypeOK, CallTypes
<1>4. CallTypes' /\ CallPointers'
  BY <1>1, <1>2, <1>3, AfterIs, CallMoves DEF Base, TypeOK, CallTypes
<1> QED
  BY <1>4, SameTypes, SameBase
  DEF EndAgain, clockVars, seenVars, Base, TypeOK, Pointers

(* A list without the span that the filter takes. *)
LEMMA WithoutIs ==
  ASSUME spans \in Seq(Ids), NEW s
  PROVE  \/ Without(s) = spans
         \/ \E n \in DOMAIN spans :
              /\ Without(s) \in Seq(Ids)
              /\ Len(Without(s)) = Len(spans) - 1
              /\ \A m \in 1..(Len(spans) - 1) :
                   Without(s)[m] = IF m < n THEN spans[m] ELSE spans[m + 1]
<1> DEFINE here == {n \in DOMAIN spans : spans[n] = s}
<1>1. CASE here = {}
  BY <1>1 DEF Without
<1>2. CASE here # {}
  <2>1. PICK n : n = (CHOOSE k \in here : TRUE)
    OBVIOUS
  <2>2. n \in here
    BY <1>2, <2>1
  <2>3. Without(s) = RemoveAt(spans, n)
    BY <1>2, <2>1 DEF Without
  <2>4. n \in DOMAIN spans
    BY <2>2
  <2> QED
    BY <2>3, <2>4, RemoveAtIs
<1> QED
  BY <1>1, <1>2

LEMMA FilterDebugSpanBase ==
  ASSUME Base, NEW g \in Threads, FilterDebugSpan(g)
  PROVE  Base'
<1>1. g \in Goroutines /\ spans \in Seq(Ids) /\ Len(spans) \in Nat
  BY DEF Goroutines, Base, TypeOK, ListTypes
<1>2. /\ spans' \in Seq(Ids)
      /\ \A n \in DOMAIN spans' : \E m \in DOMAIN spans : spans'[n] = spans[m]
      /\ dropped' \in Nat
  <2>1. CASE finished
    BY <2>1, <1>1 DEF FilterDebugSpan, Filter, Base, TypeOK, ListTypes
  <2>2. CASE ~finished
    <3>1. spans' = Without(arg[g]) /\ dropped' = dropped + Len(spans) - Len(spans')
      BY <2>2 DEF FilterDebugSpan, Filter
    <3>2. CASE spans' = spans
      BY <1>1, <3>1, <3>2 DEF Base, TypeOK, ListTypes
    <3>3. CASE spans' # spans
      <4>1. PICK n \in DOMAIN spans :
              /\ spans' \in Seq(Ids)
              /\ Len(spans') = Len(spans) - 1
              /\ \A m \in 1..(Len(spans) - 1) :
                   spans'[m] = IF m < n THEN spans[m] ELSE spans[m + 1]
        BY <1>1, <3>1, <3>3, WithoutIs
      <4>2. dropped' \in Nat
        BY <1>1, <3>1, <4>1 DEF Base, TypeOK, ListTypes
      <4>3. \A k \in DOMAIN spans' : k \in DOMAIN spans /\ k + 1 \in DOMAIN spans
        BY <1>1, <4>1
      <4> QED
        BY <1>1, <4>1, <4>2, <4>3
    <3> QED
      BY <3>2, <3>3
  <2> QED
    BY <2>1, <2>2
<1>3. ListTypes' /\ ListPointers'
  BY <1>2 DEF FilterDebugSpan, spanVars, seenVars, Base, TypeOK, ListTypes, Pointers,
              ListPointers
<1>4. CallTypes' /\ CallPointers'
  <2>1. held' \in [Ids -> Goroutines \cup {None}]
    BY DEF FilterDebugSpan, Base, TypeOK, CallTypes
  <2>2. rest' = [rest EXCEPT ![g] = rest[g]] /\ rest[g] \in Seq(Ids)
    BY <1>1 DEF FilterDebugSpan, Base, TypeOK, CallTypes
  <2>3. \A k \in DOMAIN rest[g] : rest[g][k] \in 1..sequence
    BY <1>1 DEF Base, Pointers, CallPointers, GoodCall
  <2>4. /\ pc' = [pc EXCEPT ![g] = After(rest[g])] /\ arg' = [arg EXCEPT ![g] = None]
        /\ owner' \in Goroutines \cup {None} /\ UNCHANGED sequence
    BY DEF FilterDebugSpan, At, Base, TypeOK, CallTypes
  <2>5. PICK to : to = After(rest[g])
    OBVIOUS
  <2>6. to \in Positions /\ to \in {"idle", "finishing"} /\ (to = "finishing" => rest[g] # << >>)
    BY <2>5, AfterIs
  <2> QED
    BY <1>1, <2>1, <2>2, <2>3, <2>4, <2>5, <2>6, CallMoves
<1> QED
  BY <1>3, <1>4, SameTypes, SameBase
  DEF FilterDebugSpan, clockVars, seenVars, Base, TypeOK, Pointers

LEMMA SetStateBase ==
  ASSUME Base, NEW g \in Threads, NEW s \in States, SetState(g, s)
  PROVE  Base'
<1>1. /\ last' \in Nat /\ last' > last /\ changedAt' = last' /\ state' = s
      /\ stateTime' \in [States -> Nat]
  BY EnterTypes DEF SetState
<1>2. StateTypes' /\ Clocked'
  BY <1>1 DEF SetState, seenVars, Base, TypeOK, StateTypes, Clocked
<1> QED
  BY <1>2, SameTypes, SameBase DEF SetState, listVars, seenVars, Base, TypeOK, Pointers

(* An error of span s, or of none, is recorded. *)
LEMMA FailBase ==
  ASSUME Base, NEW s \in 0..sequence, Fail(s),
         UNCHANGED <<capture, duration, finished, listVars, spanVars, asked>>
  PROVE  StateTypes' /\ Clocked' /\ ListPointers'
<1>1. /\ last' \in Nat /\ last' > last /\ changedAt' = last' /\ state' = Error
      /\ stateTime' \in [States -> Nat]
  BY Numbers, EnterTypes DEF Fail
<1>2. s \in Ids \cup {None}
  BY SpansNumbered DEF Base, TypeOK, ListTypes, None
<1>3. StateTypes'
  BY <1>1, <1>2, Numbers DEF Fail, Base, TypeOK, StateTypes
<1>4. Clocked'
  BY <1>1 DEF Base, TypeOK, StateTypes, Clocked
<1>5. ListPointers'
  BY DEF Fail, listVars, Base, Pointers, ListPointers
<1> QED
  BY <1>3, <1>4, <1>5

LEMMA TraceErrorBase ==
  ASSUME Base, NEW g \in Threads, TraceError(g)
  PROVE  Base'
<1>1. None \in 0..sequence
  BY DEF None, Base, TypeOK, ListTypes
<1>2. StateTypes' /\ Clocked' /\ ListPointers'
  BY <1>1, FailBase DEF TraceError
<1> QED
  BY <1>2, SameTypes, SameBase DEF TraceError, listVars, Base, TypeOK, Pointers

LEMMA SpanErrorBase ==
  ASSUME Base, NEW g \in Threads, NEW s \in 1..sequence, SpanError(g, s)
  PROVE  Base'
<1>1. s \in Ids /\ g \in Goroutines
  BY SpansNumbered DEF Base, TypeOK, Goroutines
<1>2. [span[s] EXCEPT !.failed = TRUE] \in SpanRecord
  BY <1>1 DEF Base, TypeOK, ListTypes, SpanRecord
<1>3. ListTypes'
  BY <1>2 DEF SpanError, MarkSpan, listVars, seenVars, Base, TypeOK, ListTypes
<1>4. CallTypes' /\ CallPointers'
  <2>1. rest' = [rest EXCEPT ![g] = rest[g]] /\ rest[g] \in Seq(Ids)
    BY <1>1 DEF SpanError, Base, TypeOK, CallTypes
  <2>2. \A k \in DOMAIN rest[g] : rest[g][k] \in 1..sequence
    BY <1>1 DEF Base, Pointers, CallPointers, GoodCall
  <2> QED
    BY <1>1, <2>1, <2>2, CallMoves
    DEF SpanError, Positions, listVars, lockVars, Base, TypeOK, CallTypes
<1> QED
  BY <1>3, <1>4, SameTypes, SameBase
  DEF SpanError, clockVars, listVars, seenVars, Base, TypeOK, Pointers

(* A call that is over, or on its way to x, with the rest it had. *)
LEMMA CallGoesOn ==
  ASSUME Base, NEW g \in Goroutines,
         NEW to \in {"idle", "append", "current", "blame", "copied"},
         NEW x \in 0..sequence, to = "blame" => x # None,
         pc' = [pc EXCEPT ![g] = to], arg' = [arg EXCEPT ![g] = x],
         owner' \in Goroutines \cup {None}, UNCHANGED <<rest, held, sequence>>
  PROVE  CallTypes' /\ CallPointers'
<1>1. rest' = [rest EXCEPT ![g] = rest[g]] /\ rest[g] \in Seq(Ids)
  BY DEF Base, TypeOK, CallTypes
<1>2. \A k \in DOMAIN rest[g] : rest[g][k] \in 1..sequence
  BY DEF Base, Pointers, CallPointers, GoodCall
<1>3. x \in Ids \cup {None} /\ (to = "blame" => x \in 1..sequence)
  BY SpansNumbered DEF Base, TypeOK, ListTypes, None
<1>4. to \in Positions /\ to # "filter" /\ to # "finishing"
  BY DEF Positions
<1>5. held' \in [Ids -> Goroutines \cup {None}]
  BY DEF Base, TypeOK, CallTypes
<1> QED
  BY <1>1, <1>2, <1>3, <1>4, <1>5, CallMoves

LEMMA BlameBase ==
  ASSUME Base, NEW g \in Threads, Blame(g)
  PROVE  Base'
<1>1. g \in Goroutines /\ arg[g] \in 0..sequence /\ None \in 0..sequence
  BY DEF Blame, At, Goroutines, Base, TypeOK, ListTypes, None, Pointers, CallPointers, GoodCall
<1>2. StateTypes' /\ Clocked' /\ ListPointers'
  BY <1>1, FailBase DEF Blame
<1>3. CallTypes' /\ CallPointers'
  BY <1>1, CallGoesOn DEF Blame, At, listVars, lockVars, Base, TypeOK, CallTypes
<1> QED
  BY <1>2, <1>3, SameTypes DEF Blame, listVars, Base, TypeOK, Pointers

LEMMA ErrorOnTraceBase ==
  ASSUME Base, NEW g \in Threads, ErrorOnTrace(g)
  PROVE  Base'
<1>1. g \in Goroutines /\ None \in 0..sequence
  BY DEF Goroutines, Base, TypeOK, ListTypes, None
<1>2. StateTypes' /\ Clocked' /\ ListPointers'
  BY <1>1, FailBase DEF ErrorOnTrace
<1>3. arg' = [arg EXCEPT ![g] = None]
  BY <1>1 DEF ErrorOnTrace, Base, TypeOK, CallTypes
<1>4. CallTypes' /\ CallPointers'
  BY <1>1, <1>3, CallGoesOn DEF ErrorOnTrace, At, listVars, lockVars, Base, TypeOK, CallTypes
<1> QED
  BY <1>2, <1>4, SameTypes DEF ErrorOnTrace, listVars, Base, TypeOK, Pointers

(* A line is appended at a later reading. *)
LEMMA WriteTypes ==
  ASSUME Base, NEW s \in 0..sequence, Write(s)
  PROVE  /\ last' \in Nat /\ last' > last
         /\ [span |-> s, time |-> last'] \in [span : Nat, time : Nat]
         /\ logs' = Append(logs, [span |-> s, time |-> last'])
         /\ logs' \in Seq([span : Nat, time : Nat])
<1>1. last' \in Nat /\ last' > last
  BY ReadingsIncrease DEF Write, Base, TypeOK, StateTypes
<1>2. [span |-> s, time |-> last'] \in [span : Nat, time : Nat]
  BY <1>1
<1>3. logs' = Append(logs, [span |-> s, time |-> last'])
  BY DEF Write
<1> QED
  BY <1>1, <1>2, <1>3 DEF Base, TypeOK, LogTypes

LEMMA LogOnSpanBase ==
  ASSUME Base, NEW g \in Threads, NEW s \in 1..sequence, LogOnSpan(g, s)
  PROVE  Base'
<1>1. s \in 0..sequence
  OBVIOUS
<1>2. last' \in Nat /\ last' > last /\ logs' \in Seq([span : Nat, time : Nat])
  BY <1>1, WriteTypes DEF LogOnSpan
<1>3. LogTypes'
  BY <1>2, Numbers DEF LogOnSpan, MayLog, Base, TypeOK, LogTypes
<1>4. StateTypes' /\ Clocked'
  BY <1>2 DEF LogOnSpan, stateVars, Base, TypeOK, StateTypes, Clocked
<1> QED
  BY <1>3, <1>4, SameTypes, SameBase DEF LogOnSpan, listVars, Base, TypeOK, Pointers

LEMMA FindSpanBase ==
  ASSUME Base, NEW g \in Threads, FindSpan(g)
  PROVE  Base'
<1>1. g \in Goroutines /\ OpenSpan \in 0..sequence
  BY OpenSpanListed DEF Goroutines, Base, TypeOK, Pointers
<1>2. LogTypes'
  BY Numbers DEF FindSpan, MayLog, logVars, Base, TypeOK, LogTypes
<1>3. CallTypes' /\ CallPointers'
  BY <1>1, CallGoesOn DEF FindSpan, listVars
<1> QED
  BY <1>2, <1>3, SameTypes, SameBase
  DEF FindSpan, clockVars, listVars, Base, TypeOK, Pointers

LEMMA LogOnOpenBase ==
  ASSUME Base, NEW g \in Threads, LogOnOpen(g)
  PROVE  Base'
<1>1. g \in Goroutines /\ arg[g] \in 0..sequence /\ None \in 0..sequence
  BY DEF LogOnOpen, At, Goroutines, Base, TypeOK, ListTypes, None, Pointers, CallPointers,
         GoodCall
<1>2. last' \in Nat /\ last' > last /\ logs' \in Seq([span : Nat, time : Nat])
  BY <1>1, WriteTypes DEF LogOnOpen
<1>3. LogTypes'
  BY <1>2 DEF LogOnOpen, seenVars, Base, TypeOK, LogTypes
<1>4. StateTypes' /\ Clocked'
  BY <1>2 DEF LogOnOpen, stateVars, seenVars, Base, TypeOK, StateTypes, Clocked
<1>5. CallTypes' /\ CallPointers'
  BY <1>1, CallGoesOn DEF LogOnOpen, At, listVars
<1> QED
  BY <1>3, <1>4, <1>5, SameTypes, SameBase
  DEF LogOnOpen, listVars, seenVars, Base, TypeOK, Pointers

LEMMA RefuseLogBase ==
  ASSUME Base, NEW g \in Threads, RefuseLog(g)
  PROVE  Base'
<1>1. LogTypes'
  BY Numbers DEF RefuseLog, MayLog, Base, TypeOK, LogTypes
<1> QED
  BY <1>1, SameTypes, SameBase
  DEF RefuseLog, clockVars, listVars, Base, TypeOK, Pointers

LEMMA FindCurrentBase ==
  ASSUME Base, NEW g \in Threads, FindCurrent(g)
  PROVE  Base'
<1>1. g \in Goroutines /\ OpenSpan \in 0..sequence
  BY OpenSpanListed DEF Goroutines, Base, TypeOK, Pointers
<1>2. CallTypes' /\ CallPointers'
  BY <1>1, CallGoesOn DEF FindCurrent, listVars, lockVars, Base, TypeOK, CallTypes
<1> QED
  BY <1>2, SameTypes, SameBase
  DEF FindCurrent, clockVars, listVars, seenVars, Base, TypeOK, Pointers

LEMMA FinishBase ==
  ASSUME Base, NEW g \in Threads, Finish(g)
  PROVE  Base'
<1>1. g \in Goroutines /\ spans \in Seq(Ids)
  BY DEF Goroutines, Base, TypeOK, ListTypes
<1>2. /\ last' \in Nat /\ last' > last /\ changedAt' = last' /\ state' = state
      /\ stateTime' \in [States -> Nat]
  BY EnterTypes DEF Finish, Base, TypeOK, StateTypes
<1>3. StateTypes' /\ Clocked'
  BY <1>2 DEF Finish, seenVars, Base, TypeOK, StateTypes, Clocked
<1>4. CallTypes' /\ CallPointers'
  <2>1. arg[g] \in Ids \cup {None} /\ arg' = [arg EXCEPT ![g] = arg[g]]
    BY <1>1 DEF Finish, Base, TypeOK, CallTypes
  <2>2. \A k \in DOMAIN spans : spans[k] \in 1..sequence
    BY DEF Base, Pointers, ListPointers
  <2> QED
    BY <1>1, <2>1, <2>2, AfterIs, CallMoves
    DEF Finish, Listed, lockVars, listVars, Base, TypeOK, CallTypes
<1> QED
  BY <1>3, <1>4, SameTypes, SameBase DEF Finish, listVars, seenVars, Base, TypeOK, Pointers

LEMMA MaxZeroIs ==
  ASSUME NEW x \in Int
  PROVE  Max({0, x}) = IF x > 0 THEN x ELSE 0
<1>1. CASE x > 0
  <2>1. \A y \in {0, x} : x >= y
    BY <1>1
  <2>2. \A z \in {0, x} : (\A y \in {0, x} : z >= y) => z = x
    BY <1>1
  <2> QED
    BY <1>1, <2>1, <2>2 DEF Max
<1>2. CASE ~(x > 0)
  <2>1. \A y \in {0, x} : 0 >= y
    BY <1>2
  <2>2. \A z \in {0, x} : (\A y \in {0, x} : z >= y) => z = 0
    BY <1>2
  <2> QED
    BY <1>2, <2>1, <2>2 DEF Max
<1> QED
  BY <1>1, <1>2

LEMMA CopyOfIs ==
  ASSUME ListTypes, NEW s \in Ids, NEW now \in Nat
  PROVE  /\ CopyOf(s, now) \in SpanRecord
         /\ CopyOf(s, now).start = span[s].start
         /\ CopyOf(s, now).ended = span[s].ended
         /\ CopyOf(s, now).failed = span[s].failed
         /\ span[s].ended => CopyOf(s, now).duration = span[s].duration
<1>1. span[s] \in SpanRecord /\ now - span[s].start \in Int
  BY DEF ListTypes, SpanRecord
<1>2. Max({0, now - span[s].start}) \in Int
  BY <1>1, MaxZeroIs
<1> QED
  BY <1>1, <1>2 DEF CopyOf, SpanRecord

LEMMA WithCopyIs ==
  ASSUME ListTypes, NEW c \in Copies, NEW s \in Ids, NEW now \in Nat
  PROVE  /\ WithCopy(c, s, now) \in Copies
         /\ DOMAIN WithCopy(c, s, now) = DOMAIN c \cup {s}
         /\ \A i \in DOMAIN WithCopy(c, s, now) :
              WithCopy(c, s, now)[i] = IF i = s THEN CopyOf(s, now) ELSE c[i]
<1>1. PICK D \in SUBSET Ids : c \in [D -> SpanRecord]
  BY DEF Copies
<1>2. CopyOf(s, now) \in SpanRecord
  BY CopyOfIs
<1>3. \A i \in D \cup {s} : (IF i = s THEN CopyOf(s, now) ELSE c[i]) \in SpanRecord
  BY <1>1, <1>2
<1>4. WithCopy(c, s, now) \in [D \cup {s} -> SpanRecord]
  BY <1>1, <1>3 DEF WithCopy
<1>5. D \cup {s} \in SUBSET Ids
  OBVIOUS
<1>6. WithCopy(c, s, now) \in Copies
  BY <1>4, <1>5 DEF Copies
<1> QED
  BY <1>6 DEF WithCopy

(* The fields of a clone that was begun. *)
LEMMA StartCloneIs ==
  ASSUME Base, NEW g \in Cloners, StartClone(g)
  PROVE  /\ view'[g] \in ViewRecord
         /\ view'[g].failed = failed /\ view'[g].cause = cause
         /\ view'[g].finished = finished /\ DOMAIN view'[g].span = {}
         /\ \A h \in Cloners \ {g} : view'[h] = view[h]
<1>1. Heading \in ViewRecord
  BY NoCopiesIs DEF Heading, ViewRecord, Base, TypeOK, StateTypes, ListTypes
<1>2. view' = [view EXCEPT ![g] = Heading]
  BY DEF StartClone
<1>3. view'[g] = Heading /\ \A h \in Cloners \ {g} : view'[h] = view[h]
  BY <1>2 DEF Base, TypeOK, ViewTypes
<1> QED
  BY <1>1, <1>3, NoCopiesIs DEF Heading

LEMMA StartCloneBase ==
  ASSUME Base, NEW g \in Cloners, StartClone(g)
  PROVE  Base'
<1>1. g \in Goroutines /\ spans \in Seq(Ids)
  BY DEF Goroutines, Base, TypeOK, ListTypes
<1>2. view' \in [Cloners -> ViewRecord]
  <2>1. \A h \in Cloners : view'[h] \in ViewRecord
    BY StartCloneIs DEF Base, TypeOK, ViewTypes
  <2>2. \E new : view' = [view EXCEPT ![g] = new]
    BY DEF StartClone
  <2> QED
    BY <2>1, <2>2 DEF Base, TypeOK, ViewTypes
<1>3. CallTypes' /\ CallPointers'
  <2>1. arg[g] \in Ids \cup {None} /\ arg' = [arg EXCEPT ![g] = arg[g]]
    BY <1>1 DEF StartClone, Base, TypeOK, CallTypes
  <2>2. \A k \in DOMAIN spans : spans[k] \in 1..sequence
    BY DEF Base, Pointers, ListPointers
  <2>3. "copying" \in Positions
    BY DEF Positions
  <2>4. held' \in [Ids -> Goroutines \cup {None}]
    BY DEF StartClone, Base, TypeOK, CallTypes
  <2> QED
    BY <1>1, <2>1, <2>2, <2>3, <2>4, CallMoves DEF StartClone, At, listVars
<1> QED
  BY <1>2, <1>3, SameTypes, SameBase
  DEF StartClone, ViewTypes, clockVars, listVars, seenVars, Base, TypeOK, Pointers

(* A copy is added to the clone of g. *)
LEMMA CopySpanIs ==
  ASSUME Base, NEW g \in Cloners, CopySpan(g)
  PROVE  \E now \in Peeks, s \in 1..sequence :
           /\ s \in Ids /\ now \in Nat /\ s = Head(rest[g])
           /\ view' = [view EXCEPT ![g] =
                        [view[g] EXCEPT !.span = WithCopy(view[g].span, s, now)]]
<1>1. PICK now \in Peeks :
        view' = [view EXCEPT ![g].span = WithCopy(@, Head(rest[g]), now)]
  BY DEF CopySpan
<1>2. now \in Nat
  BY PeeksAhead DEF Base, TypeOK, StateTypes
<1>3. g \in Goroutines /\ rest[g] \in Seq(Ids) /\ rest[g] # << >>
  BY DEF Goroutines, CopySpan, Base, TypeOK, CallTypes
<1>4. 1 \in DOMAIN rest[g] /\ Head(rest[g]) = rest[g][1]
  BY <1>3
<1>5. Head(rest[g]) \in 1..sequence
  BY <1>3, <1>4 DEF Base, Pointers, CallPointers, GoodCall
<1>6. Head(rest[g]) \in Ids
  BY <1>5, SpansNumbered DEF Base, TypeOK
<1>7. view' = [view EXCEPT ![g] = [view[g] EXCEPT
                 !.span = WithCopy(view[g].span, Head(rest[g]), now)]]
  BY <1>1 DEF Base, TypeOK, ViewTypes, ViewRecord
<1> QED
  BY <1>2, <1>5, <1>6, <1>7

LEMMA CopySpanBase ==
  ASSUME Base, NEW g \in Cloners, CopySpan(g)
  PROVE  Base'
<1>1. g \in Goroutines /\ rest[g] \in Seq(Ids) /\ rest[g] # << >>
  BY DEF Goroutines, CopySpan, Base, TypeOK, CallTypes
<1>2. ViewTypes'
  <2>1. PICK now \in Nat, s \in Ids :
          view' = [view EXCEPT ![g] =
                     [view[g] EXCEPT !.span = WithCopy(view[g].span, s, now)]]
    BY CopySpanIs
  <2>2. view[g] \in ViewRecord /\ view[g].span \in Copies
    BY DEF Base, TypeOK, ViewTypes, ViewRecord
  <2>3. WithCopy(view[g].span, s, now) \in Copies
    BY <2>2, WithCopyIs DEF Base, TypeOK
  <2>4. [view[g] EXCEPT !.span = WithCopy(view[g].span, s, now)] \in ViewRecord
    BY <2>2, <2>3 DEF ViewRecord
  <2> QED
    BY <2>1, <2>4 DEF Base, TypeOK, ViewTypes
<1>3. CallTypes' /\ CallPointers'
  <2>1. /\ pc[g] = "copying" /\ pc' = [pc EXCEPT ![g] = "copying"]
        /\ arg[g] \in Ids \cup {None} /\ arg' = [arg EXCEPT ![g] = arg[g]]
        /\ rest' = [rest EXCEPT ![g] = Tail(rest[g])]
    BY <1>1 DEF CopySpan, Base, TypeOK, CallTypes
  <2>2. Tail(rest[g]) \in Seq(Ids)
    BY <1>1
  <2>3. \A k \in DOMAIN Tail(rest[g]) :
          k + 1 \in DOMAIN rest[g] /\ Tail(rest[g])[k] = rest[g][k + 1]
    BY <1>1
  <2>4. \A k \in DOMAIN Tail(rest[g]) : Tail(rest[g])[k] \in 1..sequence
    BY <1>1, <2>3 DEF Base, Pointers, CallPointers, GoodCall
  <2>5. "copying" \in Positions
    BY DEF Positions
  <2> QED
    BY <1>1, <2>1, <2>2, <2>4, <2>5, CallMoves, ZenonT(60)
    DEF CopySpan, lockVars, listVars, Base, TypeOK, CallTypes
<1> QED
  BY <1>2, <1>3, SameTypes, SameBase
  DEF CopySpan, clockVars, listVars, seenVars, Base, TypeOK, Pointers

(* The duration of the clone of g is set. *)
LEMMA EndCloneIs ==
  ASSUME Base, NEW g \in Cloners, EndClone(g)
  PROVE  \E d \in Nat :
           /\ duration = 0 => d >= last
           /\ duration > 0 => d = duration
           /\ view' = [view EXCEPT ![g] = [view[g] EXCEPT !.duration = d]]
<1>1. PICK now \in Peeks :
        view' = [view EXCEPT ![g].duration = IF duration = 0 THEN now ELSE duration]
  BY DEF EndClone
<1>2. now \in Nat /\ now >= last
  BY PeeksAhead DEF Base, TypeOK, StateTypes
<1>3. PICK d : d = IF duration = 0 THEN now ELSE duration
  OBVIOUS
<1>4. view' = [view EXCEPT ![g] = [view[g] EXCEPT !.duration = d]]
  BY <1>1, <1>3 DEF Base, TypeOK, ViewTypes, ViewRecord
<1>5. d \in Nat /\ (duration = 0 => d >= last) /\ (duration > 0 => d = duration)
  BY <1>2, <1>3 DEF Base, TypeOK, StateTypes
<1> QED
  BY <1>4, <1>5

LEMMA EndCloneBase ==
  ASSUME Base, NEW g \in Cloners, EndClone(g)
  PROVE  Base'
<1>1. ViewTypes'
  <2>1. PICK d \in Nat : view' = [view EXCEPT ![g] = [view[g] EXCEPT !.duration = d]]
    BY EndCloneIs
  <2>2. [view[g] EXCEPT !.duration = d] \in ViewRecord
    BY DEF Base, TypeOK, ViewTypes, ViewRecord
  <2> QED
    BY <2>1, <2>2 DEF Base, TypeOK, ViewTypes
<1>2. CallTypes' /\ CallPointers'
  BY DEF EndClone, At, listVars, Goroutines, Positions, Base, TypeOK, CallTypes, Pointers,
         CallPointers, GoodCall
<1> QED
  BY <1>1, <1>2, SameTypes, SameBase
  DEF EndClone, clockVars, listVars, seenVars, Base, TypeOK, Pointers

LEMMA DropCloneBase ==
  ASSUME Base, NEW g \in Cloners, DropClone(g)
  PROVE  Base'
<1>1. ViewTypes'
  BY NoViewIs DEF DropClone, Base, TypeOK, ViewTypes
<1>2. CallTypes' /\ CallPointers'
  BY DEF DropClone, At, listVars, lockVars, Goroutines, Positions, Base, TypeOK, CallTypes,
         Pointers, CallPointers, GoodCall
<1> QED
  BY <1>1, <1>2, SameTypes, SameBase
  DEF DropClone, clockVars, listVars, seenVars, Base, TypeOK, Pointers

LEMMA StepBase == Base /\ [Next]_vars => Base'
<1> SUFFICES ASSUME Base, [Next]_vars PROVE Base'
  OBVIOUS
<1>1. ASSUME NEW g \in Threads, Call(g) PROVE Base'
  <2>1. ASSUME NEW s \in 1..sequence, EndSpan(g, s) PROVE Base'
    <3>1. << >> \in Seq(Ids) /\ \A k \in DOMAIN << >> : << >>[k] \in 1..sequence
      OBVIOUS
    <3> QED
      BY <2>1, <3>1, EndOpenBase DEF EndSpan
  <2> QED
    BY <1>1, <2>1, StartSpanBase, RefuseSpanBase, SetDebugBase, SpanErrorBase,
       LogOnSpanBase, SetStateBase, TraceErrorBase, FindSpanBase, RefuseLogBase,
       FindCurrentBase, FinishBase DEF Call
<1>2. ASSUME NEW g \in Threads, Continue(g) PROVE Base'
  <2>0. g \in Goroutines
    BY DEF Goroutines
  <2>1. CASE ErrorOnSpan(g)
    <3>1. arg[g] \in 1..sequence
      BY <2>0, <2>1 DEF ErrorOnSpan, Base, TypeOK, ListTypes, None, Pointers, CallPointers,
                        GoodCall
    <3> QED
      BY <2>1, <3>1, SpanErrorBase DEF ErrorOnSpan
  <2>2. CASE EndNext(g)
    <3>1. rest[g] \in Seq(Ids) /\ rest[g] # << >>
          /\ \A k \in DOMAIN rest[g] : rest[g][k] \in 1..sequence
      BY <2>0, <2>2 DEF EndNext, Base, TypeOK, CallTypes, Pointers, CallPointers, GoodCall
    <3>2. /\ Front(rest[g]) \in Seq(Ids) /\ Len(Front(rest[g])) = Len(rest[g]) - 1
          /\ \A m \in 1..(Len(rest[g]) - 1) : Front(rest[g])[m] = rest[g][m]
          /\ Last(rest[g]) = rest[g][Len(rest[g])] /\ Len(rest[g]) \in DOMAIN rest[g]
      BY <3>1, FrontIs
    <3>3. Last(rest[g]) \in 1..sequence
      BY <3>1, <3>2
    <3>4. \A k \in DOMAIN Front(rest[g]) : Front(rest[g])[k] \in 1..sequence
      BY <3>1, <3>2
    <3> QED
      BY <2>2, <3>2, <3>3, <3>4, EndOpenBase, EndAgainBase DEF EndNext
  <2> QED
    BY <1>2, <2>1, <2>2, FilterDebugSpanBase, BlameBase, LogOnOpenBase, ErrorOnTraceBase
    DEF Continue
<1>3. ASSUME NEW g \in Cloners, StartClone(g) \/ Clone(g) PROVE Base'
  BY <1>3, StartCloneBase, CopySpanBase, EndCloneBase, DropCloneBase DEF Clone
<1>4. CASE UNCHANGED vars
  BY <1>4, SameTypes, SameBase
  DEF vars, clockVars, stateVars, listVars, logVars, spanVars, lockVars, callVars, seenVars,
      Base, TypeOK, Pointers
<1> QED
  BY <1>1, <1>2, <1>3, <1>4 DEF Next

-----------------------------------------------------------------------------
(* What is recorded stays recorded, whatever step is taken. *)
Grows ==
  /\ last' >= last /\ sequence' >= sequence
  /\ failed => failed'
  /\ \A s \in 1..sequence :
       /\ span'[s].start = span[s].start /\ span'[s].parent = span[s].parent
       /\ span[s].failed => span'[s].failed
       /\ span[s].ended => span'[s].ended /\ span'[s].duration = span[s].duration

(* The steps that change a span; all others leave the spans alone. *)
LEMMA SpanSteps ==
  ASSUME Base, [Next]_vars
  PROVE  \/ UNCHANGED <<span, sequence>>
         \/ \E g \in Threads : \E p \in 0..sequence : StartSpan(g, p)
         \/ \E g \in Threads : \E s \in 1..sequence :
              SetDebug(g, s) \/ SpanError(g, s) \/ \E left \in Seq(Ids) : EndOpen(g, s, left)
<1>1. ASSUME NEW g \in Threads, Call(g),
             ~(\E p \in 0..sequence : StartSpan(g, p)),
             ~(\E s \in 1..sequence : SetDebug(g, s) \/ SpanError(g, s) \/ EndSpan(g, s))
      PROVE  UNCHANGED <<span, sequence>>
  BY <1>1 DEF Call, RefuseSpan, LogOnSpan, SetState, TraceError, FindSpan, RefuseLog,
     FindCurrent, Finish, spanVars, listVars
<1>2. ASSUME NEW g \in Threads, NEW s \in 1..sequence, EndSpan(g, s)
      PROVE  \E left \in Seq(Ids) : EndOpen(g, s, left)
  <2>1. << >> \in Seq(Ids)
    OBVIOUS
  <2> QED
    BY <1>2, <2>1 DEF EndSpan
<1>3. ASSUME NEW g \in Threads, Continue(g)
      PROVE  \/ UNCHANGED <<span, sequence>>
             \/ \E s \in 1..sequence :
                  SpanError(g, s) \/ \E left \in Seq(Ids) : EndOpen(g, s, left)
  <2>0. g \in Goroutines
    BY DEF Goroutines
  <2>1. CASE ErrorOnSpan(g)
    <3>1. arg[g] \in 1..sequence
      BY <2>0, <2>1 DEF ErrorOnSpan, Base, TypeOK, ListTypes, None, Pointers, CallPointers,
                        GoodCall
    <3> QED
      BY <2>1, <3>1 DEF ErrorOnSpan
  <2>2. CASE EndNext(g)
    <3>1. rest[g] \in Seq(Ids) /\ rest[g] # << >>
      BY <2>0, <2>2 DEF EndNext, Base, TypeOK, CallTypes, Pointers, CallPointers, GoodCall
    <3>2. /\ Front(rest[g]) \in Seq(Ids)
          /\ Last(rest[g]) = rest[g][Len(rest[g])] /\ Len(rest[g]) \in DOMAIN rest[g]
      BY <3>1, FrontIs
    <3>3. Last(rest[g]) \in 1..sequence
      BY <2>0, <3>2 DEF Base, Pointers, CallPointers, GoodCall
    <3>4. CASE EndAgain(g, Last(rest[g]), Front(rest[g]))
      BY <3>4 DEF EndAgain, spanVars, listVars
    <3> QED
      BY <2>2, <3>2, <3>3, <3>4 DEF EndNext
  <2>3. CASE FilterDebugSpan(g) \/ Blame(g) \/ LogOnOpen(g) \/ ErrorOnTrace(g)
    BY <2>3 DEF FilterDebugSpan, Blame, LogOnOpen, ErrorOnTrace, spanVars, listVars
  <2> QED
    BY <1>3, <2>1, <2>2, <2>3 DEF Continue
<1>4. ASSUME NEW g \in Cloners, StartClone(g) \/ Clone(g) PROVE UNCHANGED <<span, sequence>>
  BY <1>4 DEF StartClone, Clone, CopySpan, EndClone, DropClone, spanVars, listVars
<1>5. CASE UNCHANGED vars
  BY <1>5 DEF vars, spanVars, listVars
<1> QED
  BY <1>1, <1>2, <1>3, <1>4, <1>5 DEF Next

LEMMA ClockSteps ==
  ASSUME Base, [Next]_vars
  PROVE  last' >= last /\ (failed => failed')
<1>0. last \in Nat /\ last' \in Nat
  BY StepBase DEF Base, TypeOK, StateTypes
<1>1. ASSUME NEW s \in States, Enter(s) PROVE last' >= last
  BY <1>0, <1>1, EnterTypes
<1>2. ASSUME NEW g \in Threads, NEW s, NEW left, EndOpen(g, s, left)
      PROVE  last' >= last /\ failed' = failed
  BY <1>0, <1>2, ReadingsIncrease DEF EndOpen, stateVars, Base, TypeOK, StateTypes
<1>3. ASSUME NEW s, Write(s) PROVE last' >= last
  BY <1>0, <1>3, ReadingsIncrease DEF Write, Base, TypeOK, StateTypes
<1>4. ASSUME NEW s, Fail(s) PROVE last' >= last /\ failed'
  BY <1>1, <1>4, Numbers DEF Fail
<1>5. ASSUME NEW g \in Threads, Call(g) PROVE last' >= last /\ (failed => failed')
  <2>1. CASE \/ \E s \in States : SetState(g, s)
             \/ TraceError(g) \/ Finish(g)
    BY <1>1, <1>4, <2>1 DEF SetState, TraceError, Finish, Base, TypeOK, StateTypes
  <2>2. CASE \/ \E p \in 0..sequence : StartSpan(g, p)
             \/ \E s \in 1..sequence : EndSpan(g, s) \/ LogOnSpan(g, s)
    <3>1. ASSUME NEW p \in 0..sequence, StartSpan(g, p) PROVE last' >= last /\ failed' = failed
      BY <1>0, <3>1, ReadingsIncrease DEF StartSpan, stateVars
    <3>2. ASSUME NEW s, EndSpan(g, s) PROVE last' >= last /\ failed' = failed
      BY <1>2, <3>2 DEF EndSpan
    <3>3. ASSUME NEW s, LogOnSpan(g, s) PROVE last' >= last /\ failed' = failed
      BY <1>3, <3>3 DEF LogOnSpan, stateVars
    <3> QED
      BY <2>2, <3>1, <3>2, <3>3
  <2>3. CASE \/ RefuseSpan(g) \/ FindSpan(g) \/ RefuseLog(g) \/ FindCurrent(g)
             \/ \E s \in 1..sequence : SetDebug(g, s) \/ SpanError(g, s)
    BY <2>3 DEF RefuseSpan, FindSpan, RefuseLog, FindCurrent, SetDebug, SpanError,
       clockVars, stateVars, Base, TypeOK, StateTypes
  <2> QED
    BY <1>5, <2>1, <2>2, <2>3 DEF Call
<1>6. ASSUME NEW g \in Threads, Continue(g) PROVE last' >= last /\ (failed => failed')
  <2>1. CASE Blame(g) \/ LogOnOpen(g) \/ ErrorOnTrace(g)
    BY <1>3, <1>4, <2>1 DEF Blame, LogOnOpen, ErrorOnTrace, stateVars, Base, TypeOK, StateTypes
  <2>2. CASE FilterDebugSpan(g) \/ ErrorOnSpan(g) \/ EndNext(g)
    BY <1>2, <2>2 DEF FilterDebugSpan, ErrorOnSpan, SpanError, EndNext, EndAgain, clockVars,
       stateVars, Base, TypeOK, StateTypes
  <2> QED
    BY <1>6, <2>1, <2>2 DEF Continue
<1>7. ASSUME NEW g \in Cloners, StartClone(g) \/ Clone(g) PROVE UNCHANGED <<last, failed>>
  BY <1>7 DEF StartClone, Clone, CopySpan, EndClone, DropClone, clockVars, stateVars
<1>8. CASE UNCHANGED vars
  BY <1>8 DEF vars, clockVars, stateVars, Base, TypeOK, StateTypes
<1> QED
  BY <1>5, <1>6, <1>7, <1>8 DEF Next, Base, TypeOK, StateTypes

LEMMA StepGrows == Base /\ [Next]_vars => Grows
<1> SUFFICES ASSUME Base, [Next]_vars PROVE Grows
  OBVIOUS
<1>1. last' >= last /\ (failed => failed')
  BY ClockSteps
<1>2. sequence \in Nat /\ \A s \in 1..sequence : s \in Ids /\ span[s] \in SpanRecord
  BY SpansNumbered DEF Base, TypeOK, ListTypes
<1>3. CASE UNCHANGED <<span, sequence>>
  BY <1>1, <1>2, <1>3 DEF Grows
<1>4. ASSUME NEW g \in Threads, NEW p \in 0..sequence, StartSpan(g, p) PROVE Grows
  <2>1. sequence' = sequence + 1 /\ \A s \in 1..sequence : span'[s] = span[s]
    BY <1>2, <1>4 DEF StartSpan, Base, TypeOK, ListTypes
  <2> QED
    BY <1>1, <1>2, <2>1 DEF Grows
<1>5. ASSUME NEW g \in Threads, NEW s \in 1..sequence,
             SetDebug(g, s) \/ SpanError(g, s) \/ \E left \in Seq(Ids) : EndOpen(g, s, left)
      PROVE  Grows
  <2>1. sequence' = sequence
    BY <1>5 DEF SetDebug, SpanError, EndOpen, listVars
  <2>2. \A t \in 1..sequence \ {s} : span'[t] = span[t]
    BY <1>2, <1>5 DEF SetDebug, SpanError, MarkSpan, EndOpen, Base, TypeOK, ListTypes
  <2>3. /\ span'[s].start = span[s].start /\ span'[s].parent = span[s].parent
        /\ span[s].failed => span'[s].failed
        /\ span[s].ended => span'[s].ended /\ span'[s].duration = span[s].duration
    <3>1. CASE SetDebug(g, s)
      BY <1>2, <3>1 DEF SetDebug, Base, TypeOK, ListTypes, SpanRecord
    <3>2. CASE SpanError(g, s)
      BY <1>2, <3>2 DEF SpanError, MarkSpan, Base, TypeOK, ListTypes, SpanRecord
    <3>3. ASSUME NEW left \in Seq(Ids), EndOpen(g, s, left)
          PROVE  /\ span'[s].start = span[s].start /\ span'[s].parent = span[s].parent
                 /\ span[s].failed => span'[s].failed
                 /\ ~span[s].ended
      BY <1>2, <3>3 DEF EndOpen, Base, TypeOK, ListTypes, SpanRecord
    <3> QED
      BY <1>5, <3>1, <3>2, <3>3
  <2> QED
    BY <1>1, <1>2, <2>1, <2>2, <2>3 DEF Grows
<1> QED
  BY <1>3, <1>4, <1>5, SpanSteps

-----------------------------------------------------------------------------
(* A call that holds the trace lock over several steps shuts the others    *)
(* out: nobody finishes the trace between its search and its append.       *)
Locking ==
  /\ \A g \in Goroutines : pc[g] \in {"append", "copying"} => owner = g
  /\ \A g \in Threads : pc[g] = "append" => ~finished

(* The steps that move a call into or out of the trace lock. *)
LEMMA StepLocking == Base /\ Locking /\ [Next]_vars => Locking'
<1> SUFFICES ASSUME Base, Locking, [Next]_vars PROVE Locking'
  OBVIOUS
<1>0. /\ Threads \subseteq Goroutines /\ Cloners \subseteq Goroutines
      /\ \A g \in Goroutines : g # None
  BY Numbers DEF Goroutines
(* Another goroutine's step under a lock that is free, or no lock at all.  *)
<1>1. ASSUME NEW g \in Goroutines, UNCHANGED <<owner, finished>>,
             NEW to \in Positions, to \notin {"append", "copying"},
             pc' = [pc EXCEPT ![g] = to]
      PROVE  Locking'
  <2>1. \A h \in Goroutines : pc'[h] = IF h = g THEN to ELSE pc[h]
    BY <1>1 DEF Base, TypeOK, CallTypes
  <2> QED
    BY <1>0, <1>1, <2>1 DEF Locking
<1>2. ASSUME UNCHANGED <<owner, finished, pc>> PROVE Locking'
  BY <1>2 DEF Locking
<1>3. ASSUME NEW g \in Threads, Call(g) PROVE Locking'
  <2>1. CASE FindSpan(g)
    <3>1. pc' = [pc EXCEPT ![g] = "append"] /\ owner = None /\ owner' = g /\ ~finished
          /\ finished' = finished
      BY <2>1 DEF FindSpan, MayLog, Free, Takes, stateVars
    <3>2. \A h \in Goroutines : pc'[h] = IF h = g THEN "append" ELSE pc[h]
      BY <1>0, <3>1 DEF Base, TypeOK, CallTypes
    <3> QED
      BY <1>0, <3>1, <3>2 DEF Locking
  <2>2. CASE Finish(g)
    <3>1. pc' = [pc EXCEPT ![g] = After(Listed)] /\ owner = None /\ owner' = owner
      BY <2>2 DEF Finish, Free, lockVars
    <3>2. \A h \in Goroutines : pc'[h] = IF h = g THEN After(Listed) ELSE pc[h]
      BY <1>0, <3>1 DEF Base, TypeOK, CallTypes
    <3>3. After(Listed) \notin {"append", "copying"}
      BY AfterIs
    <3> QED
      BY <1>0, <3>1, <3>2, <3>3 DEF Locking
  <2>3. ASSUME NEW s \in 1..sequence, EndSpan(g, s) PROVE Locking'
    BY <1>0, <1>1, <2>3, AfterIs DEF EndSpan, EndOpen, stateVars, Positions
  <2>4. ASSUME NEW s \in 1..sequence, SpanError(g, s) PROVE Locking'
    BY <1>0, <1>1, <2>4 DEF SpanError, stateVars, lockVars, Positions
  <2>5. CASE FindCurrent(g)
    BY <1>0, <1>1, <2>5 DEF FindCurrent, stateVars, lockVars, Positions
  <2>6. CASE \/ \E p \in 0..sequence : StartSpan(g, p)
             \/ RefuseSpan(g) \/ RefuseLog(g) \/ TraceError(g)
             \/ \E s \in 1..sequence : SetDebug(g, s) \/ LogOnSpan(g, s)
             \/ \E s \in States : SetState(g, s)
    BY <1>2, <2>6 DEF StartSpan, RefuseSpan, RefuseLog, TraceError, SetDebug, LogOnSpan,
       SetState, stateVars, lockVars, callVars
  <2> QED
    BY <1>3, <2>1, <2>2, <2>3, <2>4, <2>5, <2>6 DEF Call
<1>4. ASSUME NEW g \in Threads, Continue(g) PROVE Locking'
  <2>1. CASE LogOnOpen(g)
    <3>1. pc' = [pc EXCEPT ![g] = "idle"] /\ pc[g] = "append" /\ owner' = None
          /\ finished' = finished
      BY <2>1 DEF LogOnOpen, At, stateVars
    <3>2. \A h \in Goroutines : pc'[h] = IF h = g THEN "idle" ELSE pc[h]
      BY <1>0, <3>1 DEF Base, TypeOK, CallTypes
    <3> QED
      BY <1>0, <3>1, <3>2 DEF Locking
  <2>2. CASE FilterDebugSpan(g)
    BY <1>0, <1>1, <2>2, AfterIs DEF FilterDebugSpan, At, stateVars
  <2>3. CASE Blame(g) \/ ErrorOnTrace(g)
    BY <1>0, <1>1, <2>3 DEF Blame, ErrorOnTrace, At, lockVars, Positions
  <2>4. CASE ErrorOnSpan(g)
    BY <1>0, <1>1, <2>4 DEF ErrorOnSpan, SpanError, stateVars, lockVars, Positions
  <2>5. CASE EndNext(g)
    <3>1. CASE EndOpen(g, Last(rest[g]), Front(rest[g]))
      BY <1>0, <1>1, <3>1, AfterIs DEF EndOpen, stateVars, Positions
    <3>2. CASE EndAgain(g, Last(rest[g]), Front(rest[g]))
      BY <1>0, <1>1, <3>2, AfterIs DEF EndAgain, stateVars, lockVars
    <3> QED
      BY <2>5, <3>1, <3>2 DEF EndNext
  <2> QED
    BY <1>4, <2>1, <2>2, <2>3, <2>4, <2>5 DEF Continue
<1>5. ASSUME NEW g \in Cloners, StartClone(g) \/ Clone(g) PROVE Locking'
  <2>1. CASE StartClone(g)
    <3>1. pc' = [pc EXCEPT ![g] = "copying"] /\ owner = None /\ owner' = g
          /\ finished' = finished
      BY <2>1 DEF StartClone, At, Free, stateVars
    <3>2. \A h \in Goroutines : pc'[h] = IF h = g THEN "copying" ELSE pc[h]
      BY <1>0, <3>1 DEF Base, TypeOK, CallTypes
    <3> QED
      BY <1>0, <3>1, <3>2 DEF Locking
  <2>2. CASE CopySpan(g)
    BY <1>2, <2>2 DEF CopySpan, stateVars, lockVars
  <2>3. CASE EndClone(g)
    <3>1. pc' = [pc EXCEPT ![g] = "copied"] /\ pc[g] = "copying" /\ owner' = None
          /\ finished' = finished
      BY <2>3 DEF EndClone, At, stateVars
    <3>2. \A h \in Goroutines : pc'[h] = IF h = g THEN "copied" ELSE pc[h]
      BY <1>0, <3>1 DEF Base, TypeOK, CallTypes
    <3> QED
      BY <1>0, <3>1, <3>2 DEF Locking
  <2>4. CASE DropClone(g)
    BY <1>0, <1>1, <2>4 DEF DropClone, At, stateVars, lockVars, Positions
  <2> QED
    BY <1>5, <2>1, <2>2, <2>3, <2>4 DEF Clone
<1>6. CASE UNCHANGED vars
  BY <1>2, <1>6 DEF vars, stateVars, lockVars, callVars
<1> QED
  BY <1>3, <1>4, <1>5, <1>6 DEF Next

(* A finished trace stands: the filter and Finish look at finished, new    *)
(* spans and lines are refused, and a line on its way holds the lock.      *)
LEMMA StepStands ==
  ASSUME Base, Locking, [Next]_vars, finished
  PROVE  UNCHANGED <<listVars, logVars, duration, finished>>
<1> USE DEF listVars, logVars, stateVars
<1>1. ASSUME NEW g \in Threads, Call(g)
      PROVE  UNCHANGED <<listVars, logVars, duration, finished>>
  <2>1. ~(\E p \in 0..sequence : StartSpan(g, p)) /\ ~RefuseSpan(g) /\ ~FindSpan(g)
        /\ ~RefuseLog(g) /\ ~Finish(g) /\ ~(\E s \in 1..sequence : LogOnSpan(g, s))
    BY DEF StartSpan, RefuseSpan, FindSpan, RefuseLog, Finish, LogOnSpan, MayLog, Takes
  <2> QED
    BY <1>1, <2>1 DEF Call, SetDebug, EndSpan, EndOpen, SpanError, SetState, TraceError,
       FindCurrent
<1>2. ASSUME NEW g \in Threads, Continue(g)
      PROVE  UNCHANGED <<listVars, logVars, duration, finished>>
  <2>1. ~LogOnOpen(g)
    BY DEF LogOnOpen, At, Locking
  <2> QED
    BY <1>2, <2>1 DEF Continue, FilterDebugSpan, Filter, Blame, ErrorOnSpan, SpanError,
       ErrorOnTrace, EndNext, EndOpen, EndAgain
<1>3. ASSUME NEW g \in Cloners, StartClone(g) \/ Clone(g)
      PROVE  UNCHANGED <<listVars, logVars, duration, finished>>
  BY <1>3 DEF StartClone, Clone, CopySpan, EndClone, DropClone
<1>4. CASE UNCHANGED vars
  BY <1>4 DEF vars
<1> QED
  BY <1>1, <1>2, <1>3, <1>4 DEF Next

LEMMA InitLocking == Init => Locking
BY DEF Init, Locking

(* What a finished trace lists stays as it is, whoever still records on it *)
(* (trace.go:132, 546-547, debug_span.go:37-49, log.go:21).                *)
THEOREM FinishedTraceStands == Spec => FinishedStands
<1>1. Base /\ Locking /\ [Next]_vars =>
        [finished => UNCHANGED <<listVars, logVars, duration, finished>>]_vars
  BY StepStands
<1>2. Init => Base /\ Locking
  BY InitBase, InitLocking
<1>3. Base /\ Locking /\ [Next]_vars => (Base /\ Locking)'
  BY StepBase, StepLocking
<1> QED
  BY <1>1, <1>2, <1>3, PTL DEF Spec, FinishedStands

-----------------------------------------------------------------------------
(* Errors. A span that failed is on its way to the trace, or the trace is  *)
(* in the error state, which it does not leave.                            *)
Failing ==
  /\ failed => state = Error
  /\ \A s \in 1..sequence :
       span[s].failed => failed \/ \E g \in Threads : pc[g] = "blame"
  /\ \A g \in Threads : pc[g] = "blame" => span[arg[g]].failed
  /\ cause # None => failed /\ span[cause].failed

(* The steps that mark a span, or take an error to the trace. *)
LEMMA MarkKeeps ==
  ASSUME Base, Failing, NEW g \in Threads, NEW s \in 1..sequence, SpanError(g, s)
  PROVE  Failing'
<1>1. s \in Ids /\ g \in Goroutines
  BY SpansNumbered DEF Base, TypeOK, Goroutines
<1>2. /\ UNCHANGED <<failed, state, cause, sequence>>
      /\ pc'[g] = "blame" /\ arg'[g] = s
      /\ \A h \in Threads \ {g} : pc'[h] = pc[h] /\ arg'[h] = arg[h]
  BY <1>1 DEF SpanError, stateVars, seenVars, listVars, Base, TypeOK, CallTypes, Goroutines
<1>3. /\ \A t \in Ids \ {s} : span'[t] = span[t]
      /\ span'[s].failed = TRUE
  BY <1>1 DEF SpanError, MarkSpan, Base, TypeOK, ListTypes, SpanRecord
<1>4. \A h \in Threads : pc[h] = "blame" => arg[h] \in Ids
  BY SpansNumbered DEF Goroutines, Base, TypeOK, Pointers, CallPointers, GoodCall
<1>5. cause # None => cause \in Ids
  BY SpansNumbered DEF Base, TypeOK, StateTypes
<1> QED
  BY <1>1, <1>2, <1>3, <1>4, <1>5, ZenonT(60) DEF Failing

(* A trace that records the error of a failed span, or of none. *)
LEMMA FailKeeps ==
  ASSUME Base, Failing, NEW s \in 0..sequence, Fail(s), s # None => span[s].failed,
         UNCHANGED <<span, sequence>>,
         \A g \in Threads : pc'[g] = "blame" => pc[g] = "blame" /\ arg'[g] = arg[g]
  PROVE  Failing'
<1>1. failed' = TRUE /\ state' = Error /\ cause' = s
  BY DEF Fail, Enter
<1> QED
  BY <1>1 DEF Failing

(* A step that marks no span and leaves the calls that blame alone. *)
LEMMA StillFailing ==
  ASSUME Base, Failing, UNCHANGED <<failed, cause>>, failed => state' = state,
         \A t \in 1..sequence' : span'[t].failed => t \in 1..sequence /\ span[t].failed,
         Grows,
         \A g \in Threads : /\ pc[g] = "blame" => pc'[g] = "blame"
                            /\ pc'[g] = "blame" => pc[g] = "blame" /\ arg'[g] = arg[g]
  PROVE  Failing'
<1>1. \A g \in Threads : pc[g] = "blame" => arg[g] \in 1..sequence
  BY DEF Base, Pointers, CallPointers, GoodCall, Goroutines
<1>2. cause # None => cause \in 1..sequence
  BY DEF Base, TypeOK, ListTypes, Pointers, ListPointers, None
<1> QED
  BY <1>1, <1>2 DEF Failing, Grows

LEMMA StepFailing == Base /\ Failing /\ [Next]_vars => Failing'
<1> SUFFICES ASSUME Base, Failing, [Next]_vars PROVE Failing'
  OBVIOUS
<1>0. Threads \subseteq Goroutines /\ Threads \cap Cloners = {} /\ Grows
      /\ pc \in [Goroutines -> Positions] /\ arg \in [Goroutines -> Ids \cup {None}]
      /\ sequence \in Nat
  BY RecordingAssumption, StepGrows DEF Goroutines, Base, TypeOK, CallTypes, ListTypes
(* A step of a goroutine that is not blaming and does not begin to. *)
<1>1. ASSUME NEW g \in Goroutines, pc[g] # "blame" \/ g \notin Threads,
             NEW to, to # "blame", pc' = [pc EXCEPT ![g] = to],
             \A h \in Goroutines \ {g} : arg'[h] = arg[h],
             UNCHANGED <<failed, cause>>, failed => state' = state,
             \A t \in 1..sequence' : span'[t].failed => t \in 1..sequence /\ span[t].failed
      PROVE  Failing'
  <2>1. \A h \in Goroutines : pc'[h] = IF h = g THEN to ELSE pc[h]
    BY <1>0, <1>1
  <2> QED
    BY <1>0, <1>1, <2>1, StillFailing
<1>2. ASSUME UNCHANGED <<failed, cause, pc, arg>>, failed => state' = state,
             \A t \in 1..sequence' : span'[t].failed => t \in 1..sequence /\ span[t].failed
      PROVE  Failing'
  BY <1>0, <1>2, StillFailing
<1>3. ASSUME UNCHANGED <<span, sequence>>
      PROVE  \A t \in 1..sequence' : span'[t].failed => t \in 1..sequence /\ span[t].failed
  BY <1>3
<1>4. ASSUME NEW g \in Threads, NEW s \in 1..sequence, NEW left, EndOpen(g, s, left),
             pc[g] # "blame"
      PROVE  Failing'
  <2>1. s \in Ids
    BY SpansNumbered DEF Base, TypeOK
  <2>2. \A t \in Ids : span'[t].failed = span[t].failed
    BY <1>4, <2>1 DEF EndOpen, Base, TypeOK, ListTypes, SpanRecord
  <2>3. \A t \in 1..sequence' : span'[t].failed => t \in 1..sequence /\ span[t].failed
    BY <1>4, <2>2, SpansNumbered DEF EndOpen, listVars, Base, TypeOK
  <2>4. \E to : to # "blame" /\ pc' = [pc EXCEPT ![g] = to]
    BY <1>4, AfterIs DEF EndOpen
  <2>5. \A h \in Goroutines \ {g} : arg'[h] = arg[h]
    BY <1>0, <1>4 DEF EndOpen
  <2> QED
    BY <1>0, <1>1, <1>4, <2>3, <2>4, <2>5 DEF EndOpen, stateVars, seenVars
<1>5. ASSUME NEW g \in Threads, Call(g) PROVE Failing'
  <2>0. pc[g] = "idle" \/ \E s \in States : SetState(g, s)
    BY <1>5 DEF Call, StartSpan, RefuseSpan, SetDebug, EndSpan, LogOnSpan, MayLog, TraceError,
       FindSpan, RefuseLog, FindCurrent, Finish, MayCall
  <2>1. ASSUME NEW p \in 0..sequence, StartSpan(g, p) PROVE Failing'
    <3>1. \A t \in 1..sequence' : span'[t].failed => t \in 1..sequence /\ span[t].failed
      <4>1. sequence' = sequence + 1 /\ sequence + 1 \in Ids
        BY <2>1, StepBase, Numbers DEF StartSpan, Base, TypeOK, ListTypes, Ids
      <4>2. /\ \A t \in Ids \ {sequence + 1} : span'[t] = span[t]
            /\ span'[sequence + 1].failed = FALSE
        BY <2>1, <4>1 DEF StartSpan, Unrecorded, Base, TypeOK, ListTypes
      <4>3. \A t \in 1..(sequence + 1) : t \in Ids
        BY <1>0, <4>1, Numbers DEF Ids
      <4> QED
        BY <1>0, <4>1, <4>2, <4>3
    <3> QED
      BY <1>2, <2>1, <3>1 DEF StartSpan, stateVars, callVars
  <2>2. ASSUME NEW s \in 1..sequence, SetDebug(g, s) PROVE Failing'
    <3>1. s \in Ids
      BY SpansNumbered DEF Base, TypeOK
    <3>2. \A t \in Ids : span'[t].failed = span[t].failed
      BY <2>2, <3>1 DEF SetDebug, Base, TypeOK, ListTypes, SpanRecord
    <3>3. \A t \in 1..sequence' : span'[t].failed => t \in 1..sequence /\ span[t].failed
      BY <2>2, <3>2, SpansNumbered DEF SetDebug, listVars, Base, TypeOK
    <3> QED
      BY <1>2, <2>2, <3>3 DEF SetDebug, stateVars, seenVars, callVars
  <2>3. ASSUME NEW s \in 1..sequence, EndSpan(g, s) PROVE Failing'
    BY <1>4, <2>3 DEF EndSpan, MayCall
  <2>4. CASE TraceError(g)
    <3>1. None \in 0..sequence
      BY <1>0 DEF None
    <3> QED
      BY <2>4, <3>1, FailKeeps DEF TraceError, spanVars, listVars, callVars
  <2>5. ASSUME NEW s \in States, SetState(g, s) PROVE Failing'
    <3>1. UNCHANGED <<failed, cause, pc, arg, span, sequence>>
      BY <2>5 DEF SetState, seenVars, spanVars, listVars, callVars
    <3>2. failed => state' = state
      BY <2>5 DEF SetState, MaySet, Enter, Failing
    <3> QED
      BY <1>2, <1>3, <3>1, <3>2
  <2>6. CASE FindSpan(g) \/ FindCurrent(g) \/ Finish(g)
    <3>1. UNCHANGED <<failed, cause, span, sequence, state>>
      BY <2>6 DEF FindSpan, FindCurrent, Finish, Enter, stateVars, seenVars, spanVars, listVars
    <3>2. \E to : to # "blame" /\ pc' = [pc EXCEPT ![g] = to]
      BY <2>6, AfterIs DEF FindSpan, FindCurrent, Finish
    <3>3. \A h \in Goroutines \ {g} : arg'[h] = arg[h]
      BY <1>0, <2>6 DEF FindSpan, FindCurrent, Finish
    <3>4. pc[g] # "blame"
      BY <2>6 DEF FindSpan, MayLog, FindCurrent, Finish, MayCall
    <3> QED
      BY <1>0, <1>1, <1>3, <3>1, <3>2, <3>3, <3>4
  <2>7. CASE RefuseSpan(g) \/ RefuseLog(g) \/ \E s \in 1..sequence : LogOnSpan(g, s)
    <3>1. UNCHANGED <<failed, cause, pc, arg, span, sequence, state>>
      BY <2>7 DEF RefuseSpan, RefuseLog, LogOnSpan, stateVars, seenVars, spanVars, listVars,
         callVars
    <3> QED
      BY <1>2, <1>3, <3>1
  <2> QED
    BY <1>5, <2>1, <2>2, <2>3, <2>4, <2>5, <2>6, <2>7, MarkKeeps DEF Call
<1>6. ASSUME NEW g \in Threads, Continue(g) PROVE Failing'
  <2>1. CASE ErrorOnSpan(g)
    <3>1. arg[g] \in 1..sequence
      BY <1>0, <2>1 DEF ErrorOnSpan, Base, TypeOK, ListTypes, None, Pointers, CallPointers,
                        GoodCall
    <3> QED
      BY <2>1, <3>1, MarkKeeps DEF ErrorOnSpan
  <2>2. CASE EndNext(g)
    <3>1. CASE EndOpen(g, Last(rest[g]), Front(rest[g]))
      <4>1. rest[g] \in Seq(Ids) /\ rest[g] # << >>
        BY <1>0, <2>2 DEF EndNext, Base, TypeOK, CallTypes, Pointers, CallPointers, GoodCall
      <4>2. Last(rest[g]) = rest[g][Len(rest[g])] /\ Len(rest[g]) \in DOMAIN rest[g]
        BY <4>1, FrontIs
      <4>3. Last(rest[g]) \in 1..sequence
        BY <1>0, <4>2 DEF Base, Pointers, CallPointers, GoodCall
      <4> QED
        BY <1>4, <2>2, <3>1, <4>3 DEF EndNext
    <3>2. CASE EndAgain(g, Last(rest[g]), Front(rest[g]))
      <4>1. UNCHANGED <<failed, cause, arg, span, sequence, state>>
        BY <3>2 DEF EndAgain, stateVars, seenVars, spanVars, listVars
      <4>2. \E to : to # "blame" /\ pc' = [pc EXCEPT ![g] = to]
        BY <3>2, AfterIs DEF EndAgain
      <4> QED
        BY <1>0, <1>1, <1>3, <2>2, <4>1, <4>2 DEF EndNext
    <3> QED
      BY <2>2, <3>1, <3>2 DEF EndNext
  <2>3. CASE Blame(g)
    <3>1. /\ pc[g] = "blame" /\ pc'[g] = "idle" /\ arg[g] \in 1..sequence
          /\ \A h \in Threads \ {g} : pc'[h] = pc[h] /\ arg'[h] = arg[h]
      BY <1>0, <2>3 DEF Blame, At, Base, Pointers, CallPointers, GoodCall
    <3>2. span[arg[g]].failed /\ arg[g] \in 0..sequence
      BY <3>1 DEF Failing
    <3> QED
      BY <2>3, <3>1, <3>2, FailKeeps DEF Blame, spanVars, listVars
  <2>4. CASE ErrorOnTrace(g)
    <3>1. pc'[g] = "idle" /\ None \in 0..sequence /\ UNCHANGED arg
          /\ \A h \in Threads \ {g} : pc'[h] = pc[h]
      BY <1>0, <2>4 DEF ErrorOnTrace, At, None
    <3> QED
      BY <2>4, <3>1, FailKeeps DEF ErrorOnTrace, spanVars, listVars
  <2>5. CASE FilterDebugSpan(g) \/ LogOnOpen(g)
    <3>1. UNCHANGED <<failed, cause, span, sequence, state>>
      BY <2>5 DEF FilterDebugSpan, LogOnOpen, stateVars, seenVars, spanVars, listVars
    <3>2. (\E to : to # "blame" /\ pc' = [pc EXCEPT ![g] = to]) /\ pc[g] # "blame"
      BY <2>5, AfterIs DEF FilterDebugSpan, LogOnOpen, At
    <3>3. \A h \in Goroutines \ {g} : arg'[h] = arg[h]
      BY <1>0, <2>5 DEF FilterDebugSpan, LogOnOpen
    <3> QED
      BY <1>0, <1>1, <1>3, <3>1, <3>2, <3>3
  <2> QED
    BY <1>6, <2>1, <2>2, <2>3, <2>4, <2>5 DEF Continue
<1>7. ASSUME NEW g \in Cloners, StartClone(g) \/ Clone(g) PROVE Failing'
  <2>0. g \in Goroutines /\ g \notin Threads
    BY <1>0 DEF Goroutines
  <2>1. UNCHANGED <<failed, cause, arg, span, sequence, state>>
    BY <1>7 DEF StartClone, Clone, CopySpan, EndClone, DropClone, stateVars, seenVars,
       spanVars, listVars
  <2>2. UNCHANGED pc \/ \E to : to # "blame" /\ pc' = [pc EXCEPT ![g] = to]
    BY <1>7 DEF StartClone, Clone, CopySpan, EndClone, DropClone, At
  <2> QED
    BY <1>1, <1>2, <1>3, <2>0, <2>1, <2>2
<1>8. CASE UNCHANGED vars
  BY <1>2, <1>3, <1>8 DEF vars, stateVars, seenVars, spanVars, listVars, callVars
<1> QED
  BY <1>5, <1>6, <1>7, <1>8 DEF Next

LEMMA InitFailing == Init => Failing
<1> SUFFICES ASSUME Init PROVE Failing
  OBVIOUS
<1>1. sequence = 0 /\ cause = None /\ failed = FALSE
  BY DEF Init
<1>2. 1..sequence = {}
  BY <1>1
<1>3. \A g \in Threads : g \in Goroutines
  BY DEF Goroutines
<1>4. \A g \in Threads : pc[g] # "blame"
  BY <1>3 DEF Init
<1> QED
  BY <1>1, <1>2, <1>4 DEF Failing

(* The error of a span reaches its trace, which stays in the error state   *)
(* whatever SetState and Finish do (span.go:84-96, trace.go:202).          *)
THEOREM FailuresReachTrace == Spec => []FailureReachesTrace
<1>1. Failing => FailureReachesTrace
  BY DEF Failing, FailureReachesTrace
<1> QED
  BY <1>1, InitBase, InitFailing, StepBase, StepFailing, PTL DEF Spec

-----------------------------------------------------------------------------
(* Clones. A clone under way or done names the span its error came from,   *)
(* and that span has failed since.                                         *)
ViewExplained(v) ==
  v.cause # None =>
    /\ v.failed
    /\ v.cause \in 1..sequence /\ span[v.cause].failed
    /\ v.cause \in DOMAIN v.span => v.span[v.cause].failed

Explaining ==
  \A g \in Cloners : pc[g] \in {"copying", "copied"} => ViewExplained(view[g])

(* The steps of the application leave the clones alone. *)
LEMMA ClonesApart ==
  ASSUME Base, [Next]_vars, ~(\E g \in Cloners : StartClone(g) \/ Clone(g))
  PROVE  UNCHANGED view /\ \A c \in Cloners : pc'[c] = pc[c]
<1>1. pc \in [Goroutines -> Positions]
  BY DEF Base, TypeOK, CallTypes
<1>2. ASSUME NEW g \in Threads, UNCHANGED pc \/ \E to : pc' = [pc EXCEPT ![g] = to]
      PROVE  \A c \in Cloners : pc'[c] = pc[c]
  BY <1>1, <1>2, RecordingAssumption DEF Goroutines
<1>3. ASSUME NEW g \in Threads, Call(g)
      PROVE  UNCHANGED view /\ \A c \in Cloners : pc'[c] = pc[c]
  BY <1>2, <1>3 DEF Call, StartSpan, RefuseSpan, SetDebug, EndSpan, EndOpen, SpanError,
     LogOnSpan, SetState, TraceError, FindSpan, RefuseLog, FindCurrent, Finish, callVars
<1>4. ASSUME NEW g \in Threads, Continue(g)
      PROVE  UNCHANGED view /\ \A c \in Cloners : pc'[c] = pc[c]
  BY <1>2, <1>4 DEF Continue, FilterDebugSpan, Blame, LogOnOpen, ErrorOnSpan, SpanError,
     ErrorOnTrace, EndNext, EndOpen, EndAgain, At
<1>5. CASE UNCHANGED vars
  BY <1>5 DEF vars, callVars
<1> QED
  BY <1>3, <1>4, <1>5 DEF Next

LEMMA StepExplaining == Base /\ Failing /\ Explaining /\ [Next]_vars => Explaining'
<1> SUFFICES ASSUME Base, Failing, Explaining, [Next]_vars,
                    NEW c \in Cloners, pc'[c] \in {"copying", "copied"}
             PROVE  ViewExplained(view[c])'
  BY DEF Explaining
<1>1. Grows /\ ListTypes /\ sequence \in Nat /\ sequence' \in Nat
  BY StepGrows, StepBase DEF Base, TypeOK, ListTypes
<1>2. ASSUME view'[c] = view[c], pc'[c] = pc[c] PROVE ViewExplained(view[c])'
  BY <1>1, <1>2 DEF Explaining, ViewExplained, Grows
<1>3. CASE ~(\E g \in Cloners : StartClone(g) \/ Clone(g))
  BY <1>2, <1>3, ClonesApart
<1>4. ASSUME NEW g \in Cloners, StartClone(g) \/ Clone(g) PROVE ViewExplained(view[c])'
  <2>0. UNCHANGED <<span, sequence>>
    BY <1>4 DEF StartClone, Clone, CopySpan, EndClone, DropClone, listVars, spanVars
  <2>1. CASE c # g
    <3>1. pc'[c] = pc[c]
      BY <1>4, <2>1 DEF StartClone, Clone, CopySpan, EndClone, DropClone, At, Base, TypeOK,
         CallTypes, Goroutines
    <3>2. view'[c] = view[c]
      BY <1>4, <2>1 DEF StartClone, Clone, CopySpan, EndClone, DropClone, Base, TypeOK,
         ViewTypes
    <3> QED
      BY <1>2, <3>1, <3>2
  <2>2. CASE c = g /\ StartClone(g)
    <3>1. view'[c].cause = cause /\ view'[c].failed = failed /\ DOMAIN view'[c].span = {}
      BY <2>2, StartCloneIs
    <3>2. cause # None => failed /\ span[cause].failed /\ cause \in 1..sequence
      BY DEF Failing, Base, TypeOK, StateTypes, Pointers, ListPointers, None
    <3> QED
      BY <2>0, <3>1, <3>2 DEF ViewExplained
  <2>3. CASE c = g /\ CopySpan(g)
    <3>1. PICK now \in Peeks, s \in 1..sequence :
            /\ s \in Ids /\ now \in Nat
            /\ view' = [view EXCEPT ![g] =
                         [view[g] EXCEPT !.span = WithCopy(view[g].span, s, now)]]
      BY <2>3, CopySpanIs
    <3>2. view[c] \in ViewRecord /\ view[c].span \in Copies
      BY DEF Base, TypeOK, ViewTypes, ViewRecord
    <3>3. /\ view'[c].cause = view[c].cause /\ view'[c].failed = view[c].failed
          /\ view'[c].span = WithCopy(view[c].span, s, now)
      BY <2>3, <3>1, <3>2 DEF Base, TypeOK, ViewTypes, ViewRecord
    <3>4. ViewExplained(view[c])
      BY <2>3 DEF CopySpan, Explaining
    <3>5. /\ DOMAIN view'[c].span = DOMAIN view[c].span \cup {s}
          /\ \A i \in DOMAIN view'[c].span :
               view'[c].span[i] = IF i = s THEN CopyOf(s, now) ELSE view[c].span[i]
      <4>1. PICK old : old = view[c].span
        OBVIOUS
      <4>0. ListTypes /\ old \in Copies /\ s \in Ids /\ now \in Nat
        BY <1>1, <3>1, <3>2, <4>1
      <4>2. /\ DOMAIN WithCopy(old, s, now) = DOMAIN old \cup {s}
            /\ \A i \in DOMAIN WithCopy(old, s, now) :
                 WithCopy(old, s, now)[i] = IF i = s THEN CopyOf(s, now) ELSE old[i]
        BY <4>0, WithCopyIs
      <4> QED
        BY <3>3, <4>1, <4>2
    <3>6. CopyOf(s, now).failed = span[s].failed
      BY <1>1, <3>1, CopyOfIs
    <3>7. ASSUME view[c].cause # None, view[c].cause \in DOMAIN view'[c].span
          PROVE  view'[c].span[view[c].cause].failed
      BY <3>4, <3>5, <3>6, <3>7 DEF ViewExplained
    <3> QED
      BY <2>0, <3>3, <3>4, <3>7 DEF ViewExplained
  <2>4. CASE c = g /\ EndClone(g)
    <3>1. PICK d \in Nat : view' = [view EXCEPT ![g] = [view[g] EXCEPT !.duration = d]]
      BY <2>4, EndCloneIs
    <3>2. /\ view'[c].cause = view[c].cause /\ view'[c].failed = view[c].failed
          /\ view'[c].span = view[c].span
      BY <2>4, <3>1 DEF Base, TypeOK, ViewTypes, ViewRecord
    <3>3. ViewExplained(view[c])
      BY <2>4 DEF EndClone, At, Explaining
    <3> QED
      BY <2>0, <3>2, <3>3 DEF ViewExplained
  <2>5. CASE c = g /\ DropClone(g)
    BY <2>5 DEF DropClone, At, Base, TypeOK, CallTypes, Goroutines
  <2> QED
    BY <1>4, <2>1, <2>2, <2>3, <2>4, <2>5 DEF Clone
<1> QED
  BY <1>3, <1>4

LEMMA InitExplaining == Init => Explaining
BY DEF Init, Explaining, Goroutines

(* A clone that names the span its error came from shows that span as      *)
(* failed, if the filter left it (span.go:84-96, trace.go:433-479).        *)
THEOREM ClonesExplainErrors == Spec => []CloneExplainsError
<1>1. Explaining => CloneExplainsError
  BY DEF Explaining, ViewExplained, CloneExplainsError
<1>2. Init => Base /\ Failing /\ Explaining
  BY InitBase, InitFailing, InitExplaining
<1>3. Base /\ Failing /\ Explaining /\ [Next]_vars => (Base /\ Failing /\ Explaining)'
  BY StepBase, StepFailing, StepExplaining
<1> QED
  BY <1>1, <1>2, <1>3, PTL DEF Spec

-----------------------------------------------------------------------------
(* Finish. What a finished trace lists has ended, or waits in the walk of  *)
(* the goroutine that finished it. Only that walk holds spans, and it goes *)
(* on over the filter.                                                     *)
Walking(g) == pc[g] \in {"finishing", "filter"}

Waits(s) == \E g \in Threads : \E k \in DOMAIN rest[g] : rest[g][k] = s

Ending ==
  /\ \A g \in Threads : ~Walking(g) => rest[g] = << >>
  /\ finished => \A n \in DOMAIN spans : span[spans[n]].ended \/ Waits(spans[n])

(* The steps that change what a walk holds, or finish the trace. *)
LEMMA RestSteps ==
  ASSUME Base, [Next]_vars
  PROVE  \/ \E g \in Threads : Finish(g) \/ EndNext(g)
                             \/ \E s \in 1..sequence : EndSpan(g, s)
         \/ UNCHANGED finished /\ \A g \in Threads : rest'[g] = rest[g]
<1> USE DEF callVars, stateVars
<1>1. ASSUME NEW g \in Threads, Call(g), ~Finish(g), ~(\E s \in 1..sequence : EndSpan(g, s))
      PROVE  UNCHANGED <<finished, rest>>
  BY <1>1 DEF Call, StartSpan, RefuseSpan, SetDebug, SpanError, LogOnSpan, SetState,
     TraceError, FindSpan, RefuseLog, FindCurrent
<1>2. ASSUME NEW g \in Threads, Continue(g), ~EndNext(g)
      PROVE  UNCHANGED <<finished, rest>>
  BY <1>2 DEF Continue, FilterDebugSpan, Blame, LogOnOpen, ErrorOnSpan, SpanError, ErrorOnTrace
<1>3. ASSUME NEW c \in Cloners, StartClone(c) \/ Clone(c)
      PROVE  UNCHANGED finished /\ \A g \in Threads : rest'[g] = rest[g]
  <2>1. \A g \in Threads : g \in Goroutines /\ g # c
    BY RecordingAssumption DEF Goroutines
  <2>2. UNCHANGED finished
    BY <1>3 DEF StartClone, Clone, CopySpan, EndClone, DropClone
  <2>3. UNCHANGED rest \/ \E q : rest' = [rest EXCEPT ![c] = q]
    BY <1>3 DEF StartClone, Clone, CopySpan, EndClone, DropClone
  <2> QED
    BY <2>1, <2>2, <2>3 DEF Base, TypeOK, CallTypes
<1>4. CASE UNCHANGED vars
  BY <1>4 DEF vars
<1> QED
  BY <1>1, <1>2, <1>3, <1>4 DEF Next

(* A call holds spans only while it walks. *)
LEMMA StepWalking ==
  ASSUME Base, Ending, [Next]_vars, NEW h \in Threads, ~Walking(h)'
  PROVE  rest'[h] = << >>
<1>0. h \in Goroutines /\ pc \in [Goroutines -> Positions] /\ rest \in [Goroutines -> Seq(Ids)]
  BY DEF Goroutines, Base, TypeOK, CallTypes
<1> USE DEF callVars, Walking, Ending
<1>1. ASSUME UNCHANGED rest, Walking(h) => pc'[h] = pc[h] PROVE rest'[h] = << >>
  BY <1>1
<1>2. ASSUME NEW g \in Threads, Call(g) PROVE rest'[h] = << >>
  <2>0. pc[g] = "idle"
    BY <1>2 DEF Call, StartSpan, RefuseSpan, SetDebug, EndSpan, LogOnSpan, SetState,
       TraceError, FindSpan, RefuseLog, FindCurrent, Finish, MayCall, MayLog
  <2>1. CASE Finish(g)
    BY <1>0, <2>0, <2>1 DEF Finish, Listed, After
  <2>2. ASSUME NEW s \in 1..sequence, EndSpan(g, s) PROVE rest'[h] = << >>
    <3>1. rest' = [rest EXCEPT ![g] = << >>]
      BY <2>2 DEF EndSpan, EndOpen
    <3>2. \E to : pc' = [pc EXCEPT ![g] = to]
      BY <2>2 DEF EndSpan, EndOpen
    <3> QED
      BY <1>0, <2>0, <3>1, <3>2
  <2>3. CASE ~Finish(g) /\ ~(\E s \in 1..sequence : EndSpan(g, s))
    <3>1. UNCHANGED rest
      BY <1>2, <2>3 DEF Call, StartSpan, RefuseSpan, SetDebug, SpanError, LogOnSpan,
         SetState, TraceError, FindSpan, RefuseLog, FindCurrent
    <3>2. UNCHANGED pc \/ \E to : pc' = [pc EXCEPT ![g] = to]
      BY <1>2, <2>3 DEF Call, StartSpan, RefuseSpan, SetDebug, SpanError, LogOnSpan,
         SetState, TraceError, FindSpan, RefuseLog, FindCurrent
    <3> QED
      BY <1>0, <1>1, <2>0, <3>1, <3>2
  <2> QED
    BY <2>1, <2>2, <2>3
<1>3. ASSUME NEW g \in Threads, Continue(g) PROVE rest'[h] = << >>
  <2>1. CASE FilterDebugSpan(g)
    BY <1>0, <2>1 DEF FilterDebugSpan, At, After
  <2>2. CASE EndNext(g)
    <3>1. PICK left \in Seq(Ids) :
            /\ rest' = [rest EXCEPT ![g] = left]
            /\ \/ pc' = [pc EXCEPT ![g] = "filter"]
               \/ pc' = [pc EXCEPT ![g] = After(left)]
      <4>1. rest[g] \in Seq(Ids) /\ rest[g] # << >>
        BY <2>2 DEF EndNext, Base, TypeOK, CallTypes, Pointers, CallPointers, GoodCall,
           Goroutines
      <4>2. Front(rest[g]) \in Seq(Ids)
        BY <4>1, FrontIs
      <4> QED
        BY <2>2, <4>2 DEF EndNext, EndOpen, EndAgain
    <3> QED
      BY <1>0, <2>2, <3>1 DEF EndNext, After
  <2>3. CASE Blame(g) \/ LogOnOpen(g) \/ ErrorOnTrace(g) \/ ErrorOnSpan(g)
    <3>1. UNCHANGED rest /\ ~Walking(g) /\ \E to : pc' = [pc EXCEPT ![g] = to]
      BY <2>3 DEF Blame, LogOnOpen, ErrorOnTrace, ErrorOnSpan, SpanError, At
    <3> QED
      BY <1>0, <1>1, <3>1
  <2> QED
    BY <1>3, <2>1, <2>2, <2>3 DEF Continue
<1>4. ASSUME NEW c \in Cloners, StartClone(c) \/ Clone(c) PROVE rest'[h] = << >>
  <2>1. h # c
    BY RecordingAssumption
  <2>2. UNCHANGED rest \/ \E q : rest' = [rest EXCEPT ![c] = q]
    BY <1>4 DEF StartClone, Clone, CopySpan, EndClone, DropClone
  <2>3. UNCHANGED pc \/ \E to : pc' = [pc EXCEPT ![c] = to]
    BY <1>4 DEF StartClone, Clone, CopySpan, EndClone, DropClone, At
  <2> QED
    BY <1>0, <2>1, <2>2, <2>3
<1>5. CASE UNCHANGED vars
  BY <1>1, <1>5 DEF vars
<1> QED
  BY <1>2, <1>3, <1>4, <1>5 DEF Next

(* A walk gives up a span only when that span has ended. *)
LEMMA WalkEnds ==
  ASSUME Base, NEW g \in Threads, EndNext(g)
  PROVE  /\ UNCHANGED finished /\ \A h \in Threads \ {g} : rest'[h] = rest[h]
         /\ \A k \in DOMAIN rest[g] :
              \/ span'[rest[g][k]].ended
              \/ k \in DOMAIN rest'[g] /\ rest'[g][k] = rest[g][k]
<1>0. g \in Goroutines /\ \A h \in Threads : h \in Goroutines
  BY DEF Goroutines
<1>1. /\ rest[g] \in Seq(Ids) /\ rest[g] # << >> /\ Len(rest[g]) \in Nat
      /\ \A k \in DOMAIN rest[g] : rest[g][k] \in 1..sequence
  BY <1>0 DEF EndNext, Base, TypeOK, CallTypes, Pointers, CallPointers, GoodCall
<1>2. PICK left : left = Front(rest[g])
  OBVIOUS
<1>3. PICK s : s = Last(rest[g])
  OBVIOUS
<1>4. /\ left \in Seq(Ids) /\ Len(left) = Len(rest[g]) - 1
      /\ \A m \in 1..(Len(rest[g]) - 1) : left[m] = rest[g][m]
      /\ s = rest[g][Len(rest[g])] /\ Len(rest[g]) \in DOMAIN rest[g]
  BY <1>1, <1>2, <1>3, FrontIs
<1>5. s \in Ids
  BY <1>1, <1>4
<1>6. EndOpen(g, s, left) \/ EndAgain(g, s, left)
  BY <1>2, <1>3 DEF EndNext
<1>7. UNCHANGED finished /\ rest' = [rest EXCEPT ![g] = left]
  BY <1>6 DEF EndOpen, EndAgain, stateVars
<1>8. span'[s].ended
  BY <1>5, <1>6 DEF EndOpen, EndAgain, spanVars, Base, TypeOK, ListTypes, SpanRecord
<1>9. rest'[g] = left /\ \A h \in Threads \ {g} : rest'[h] = rest[h]
  BY <1>0, <1>7 DEF Base, TypeOK, CallTypes
<1>10. ASSUME NEW k \in DOMAIN rest[g]
       PROVE  \/ span'[rest[g][k]].ended
              \/ k \in DOMAIN rest'[g] /\ rest'[g][k] = rest[g][k]
  <2>1. k \in 1..Len(rest[g])
    BY <1>1
  <2>2. CASE k = Len(rest[g])
    BY <1>4, <1>8, <2>2
  <2>3. CASE k # Len(rest[g])
    <3>1. k \in 1..(Len(rest[g]) - 1)
      BY <1>1, <2>1, <2>3
    <3> QED
      BY <1>4, <1>9, <3>1
  <2> QED
    BY <2>2, <2>3
<1> QED
  BY <1>7, <1>9, <1>10

LEMMA StepEnding == Base /\ Locking /\ Ending /\ [Next]_vars => Ending'
<1> SUFFICES ASSUME Base, Locking, Ending, [Next]_vars PROVE Ending'
  OBVIOUS
<1>1. \A h \in Threads : (~Walking(h) => rest[h] = << >>)'
  BY StepWalking
<1>2. ASSUME finished', NEW n \in DOMAIN spans'
      PROVE  (span[spans[n]].ended \/ Waits(spans[n]))'
  <2>0. Threads \subseteq Goroutines
    BY DEF Goroutines
  <2>1. ASSUME NEW g \in Threads, Finish(g) PROVE Waits(spans[n])'
    <3>1. UNCHANGED spans /\ rest'[g] = spans
      BY <2>0, <2>1 DEF Finish, Listed, listVars, Base, TypeOK, CallTypes
    <3> QED
      BY <3>1 DEF Waits
  <2>2. CASE finished
    <3>1. UNCHANGED spans
      BY <2>2, StepStands DEF listVars
    <3>2. PICK s : s = spans[n]
      OBVIOUS
    <3>3. s \in 1..sequence
      BY <3>1, <3>2 DEF Base, Pointers, ListPointers
    <3>4. span[s].ended => span'[s].ended
      BY <3>3, StepGrows DEF Grows
    <3>5. span[s].ended \/ Waits(s)
      BY <2>2, <3>1, <3>2 DEF Ending
    <3>6. ASSUME Waits(s) PROVE span'[s].ended \/ Waits(s)'
      <4>0. PICK h \in Threads : \E k \in DOMAIN rest[h] : rest[h][k] = s
        BY <3>6 DEF Waits
      <4>1. PICK k \in DOMAIN rest[h] : rest[h][k] = s
        BY <4>0
      <4>2. CASE rest'[h] = rest[h]
        BY <4>1, <4>2 DEF Waits
      <4>3. CASE EndNext(h)
        BY <4>1, <4>3, WalkEnds DEF Waits
      <4>4. ASSUME NEW g \in Threads, EndNext(g), g # h PROVE rest'[h] = rest[h]
        BY <4>4, WalkEnds
      <4>5. ASSUME NEW g \in Threads, NEW t \in 1..sequence, EndSpan(g, t)
            PROVE  rest'[h] = rest[h]
        <5>1. pc[g] = "idle" /\ rest' = [rest EXCEPT ![g] = << >>]
          BY <4>5 DEF EndSpan, EndOpen, MayCall
        <5>2. rest[g] = << >>
          BY <5>1 DEF Ending, Walking
        <5> QED
          BY <2>0, <5>1, <5>2 DEF Base, TypeOK, CallTypes
      <4>6. ~(\E g \in Threads : Finish(g))
        BY <2>2 DEF Finish
      <4> QED
        BY <4>2, <4>3, <4>4, <4>5, <4>6, RestSteps
    <3> QED
      BY <3>1, <3>2, <3>4, <3>5, <3>6
  <2>3. finished \/ \E g \in Threads : Finish(g)
    <3>1. ASSUME NEW g \in Threads, NEW s \in 1..sequence, EndSpan(g, s)
          PROVE  UNCHANGED finished
      BY <3>1 DEF EndSpan, EndOpen, stateVars
    <3> QED
      BY <1>2, <3>1, RestSteps, WalkEnds
  <2> QED
    BY <2>1, <2>2, <2>3
<1> QED
  BY <1>1, <1>2 DEF Ending

LEMMA InitEnding == Init => Ending
BY DEF Init, Ending, Goroutines

(* When Finish returned, all the trace lists has ended, although others    *)
(* end, filter and fail spans beside its walk (trace.go:545-553,           *)
(* debug_span.go:37-39).                                                   *)
THEOREM FinishEndsAll == Spec => []FinishEndsSpans
<1>1. Ending => FinishEndsSpans
  BY DEF Ending, Waits, FinishEndsSpans
<1>2. Init => Base /\ Locking /\ Ending
  BY InitBase, InitLocking, InitEnding
<1>3. Base /\ Locking /\ Ending /\ [Next]_vars => (Base /\ Locking /\ Ending)'
  BY StepBase, StepLocking, StepEnding
<1> QED
  BY <1>1, <1>2, <1>3, PTL DEF Spec

-----------------------------------------------------------------------------
(* Time. Spans start in the order of their numbers, log lines are written  *)
(* in the order of theirs, and neither is ahead of the clock.              *)
Started ==
  /\ \A s \in 1..sequence :
       /\ span[s].start <= last
       /\ span[s].parent \in 0..(s - 1)
       /\ span[s].ended => span[s].duration > 0
  /\ \A s, t \in 1..sequence : s < t => span[s].start < span[t].start

ListAscends == \A m, n \in DOMAIN spans : m < n => spans[m] < spans[n]

Lined ==
  /\ \A n \in DOMAIN logs :
       /\ logs[n].time <= last
       /\ logs[n].span \in 0..sequence
       /\ logs[n].span # None => span[logs[n].span].start < logs[n].time
  /\ \A m, n \in DOMAIN logs : m < n => logs[m].time < logs[n].time

LEMMA StepStarted == Base /\ Started /\ [Next]_vars => Started'
<1> SUFFICES ASSUME Base, Started, [Next]_vars PROVE Started'
  OBVIOUS
<1>1. /\ last \in Nat /\ last' \in Nat /\ last' >= last
      /\ sequence \in Nat /\ \A s \in 1..sequence : s \in Ids /\ span[s] \in SpanRecord
  BY SpansNumbered, StepGrows, StepBase DEF Base, TypeOK, StateTypes, ListTypes, Grows
<1>2. CASE UNCHANGED <<span, sequence>>
  BY <1>1, <1>2 DEF Started, SpanRecord
<1>3. ASSUME NEW g \in Threads, NEW p \in 0..sequence, StartSpan(g, p) PROVE Started'
  <2>1. last' > last
    BY <1>1, <1>3, ReadingsIncrease DEF StartSpan
  <2>2. sequence' = sequence + 1 /\ sequence + 1 \in Ids
    BY <1>1, <1>3, Numbers DEF StartSpan, Base, Pointers, ListPointers, TypeOK, ListTypes, Ids
  <2>3. /\ \A s \in 1..sequence : span'[s] = span[s]
        /\ span'[sequence + 1].start = last' /\ span'[sequence + 1].parent = p
        /\ span'[sequence + 1].ended = FALSE
    BY <1>1, <1>3, <2>2 DEF StartSpan, Unrecorded, Base, TypeOK, ListTypes
  <2>4. \A s \in 1..sequence' : s \in 1..sequence \/ s = sequence + 1
    BY <1>1, <2>2
  <2>5. \A s \in 1..sequence : span[s].start \in Nat /\ span[s].start <= last
    BY <1>1 DEF Started, SpanRecord
  <2>6. ASSUME NEW s \in 1..sequence', NEW t \in 1..sequence', s < t
        PROVE  span'[s].start < span'[t].start
    <3>1. s \in 1..sequence
      BY <1>1, <2>2, <2>6
    <3>2. CASE t \in 1..sequence
      BY <2>3, <2>6, <3>1, <3>2 DEF Started
    <3>3. CASE t = sequence + 1
      BY <1>1, <2>1, <2>3, <2>5, <3>1, <3>3
    <3> QED
      BY <2>4, <3>2, <3>3
  <2>7. ASSUME NEW s \in 1..sequence'
        PROVE  /\ span'[s].start <= last'
               /\ span'[s].parent \in 0..(s - 1)
               /\ span'[s].ended => span'[s].duration > 0
    <3>1. CASE s \in 1..sequence
      BY <1>1, <2>3, <2>5, <3>1 DEF Started
    <3>2. CASE s = sequence + 1
      BY <1>1, <2>3, <3>2
    <3> QED
      BY <2>4, <3>1, <3>2
  <2> QED
    BY <2>6, <2>7 DEF Started
<1>4. ASSUME NEW g \in Threads, NEW s \in 1..sequence,
             SetDebug(g, s) \/ SpanError(g, s) \/ \E left \in Seq(Ids) : EndOpen(g, s, left)
      PROVE  Started'
  <2>1. sequence' = sequence
    BY <1>4 DEF SetDebug, SpanError, EndOpen, listVars
  <2>2. \A t \in 1..sequence \ {s} : span'[t] = span[t]
    BY <1>1, <1>4 DEF SetDebug, SpanError, MarkSpan, EndOpen, Base, TypeOK, ListTypes
  <2>3. span'[s].start = span[s].start /\ span'[s].parent = span[s].parent
    BY <1>1, StepGrows DEF Grows
  <2>4. span'[s].ended => span'[s].duration > 0
    <3>1. CASE SetDebug(g, s)
      BY <1>1, <3>1 DEF SetDebug, Base, TypeOK, ListTypes, SpanRecord, Started
    <3>2. CASE SpanError(g, s)
      BY <1>1, <3>2 DEF SpanError, MarkSpan, Base, TypeOK, ListTypes, SpanRecord, Started
    <3>3. ASSUME NEW left \in Seq(Ids), EndOpen(g, s, left) PROVE span'[s].duration > 0
      <4>1. last' > last
        BY <1>1, <3>3, ReadingsIncrease DEF EndOpen
      <4>2. span'[s].duration = last' - span[s].start
        BY <1>1, <3>3 DEF EndOpen, Base, TypeOK, ListTypes, SpanRecord
      <4>3. span[s].start \in Nat /\ span[s].start <= last
        BY <1>1 DEF Started, SpanRecord
      <4> QED
        BY <1>1, <4>1, <4>2, <4>3
    <3> QED
      BY <1>4, <3>1, <3>2, <3>3
  <2>5. \A t \in 1..sequence :
          /\ span'[t].start = span[t].start /\ span'[t].parent = span[t].parent
          /\ span'[t].ended => span'[t].duration > 0
    BY <2>2, <2>3, <2>4 DEF Started
  <2> QED
    BY <1>1, <2>1, <2>5 DEF Started, SpanRecord
<1> QED
  BY <1>2, <1>3, <1>4, SpanSteps

(* The steps that change the list, and those that write a line. *)
LEMMA ListSteps ==
  ASSUME Base, [Next]_vars
  PROVE  \/ UNCHANGED spans
         \/ \E g \in Threads : FilterDebugSpan(g) \/ \E p \in 0..sequence : StartSpan(g, p)
<1> USE DEF listVars
<1>1. ASSUME NEW g \in Threads, Call(g), ~(\E p \in 0..sequence : StartSpan(g, p))
      PROVE  UNCHANGED spans
  BY <1>1 DEF Call, RefuseSpan, SetDebug, EndSpan, EndOpen, SpanError, LogOnSpan, SetState,
     TraceError, FindSpan, RefuseLog, FindCurrent, Finish
<1>2. ASSUME NEW g \in Threads, Continue(g), ~FilterDebugSpan(g)
      PROVE  UNCHANGED spans
  BY <1>2 DEF Continue, Blame, LogOnOpen, ErrorOnSpan, SpanError, ErrorOnTrace, EndNext,
     EndOpen, EndAgain
<1>3. ASSUME NEW g \in Cloners, StartClone(g) \/ Clone(g) PROVE UNCHANGED spans
  BY <1>3 DEF StartClone, Clone, CopySpan, EndClone, DropClone
<1>4. CASE UNCHANGED vars
  BY <1>4 DEF vars
<1> QED
  BY <1>1, <1>2, <1>3, <1>4 DEF Next

LEMMA LogSteps ==
  ASSUME Base, [Next]_vars
  PROVE  \/ UNCHANGED logs
         \/ \E s \in 0..sequence : Write(s) /\ UNCHANGED <<span, sequence>>
<1> USE DEF logVars, listVars, spanVars
<1>1. ASSUME NEW g \in Threads, Call(g), ~(\E s \in 1..sequence : LogOnSpan(g, s))
      PROVE  UNCHANGED logs
  BY <1>1 DEF Call, StartSpan, RefuseSpan, SetDebug, EndSpan, EndOpen, SpanError, SetState,
     TraceError, FindSpan, RefuseLog, FindCurrent, Finish
<1>2. ASSUME NEW g \in Threads, NEW s \in 1..sequence, LogOnSpan(g, s)
      PROVE  Write(s) /\ UNCHANGED <<span, sequence>>
  BY <1>2 DEF LogOnSpan
<1>3. ASSUME NEW g \in Threads, Continue(g), ~LogOnOpen(g)
      PROVE  UNCHANGED logs
  BY <1>3 DEF Continue, FilterDebugSpan, Blame, ErrorOnSpan, SpanError, ErrorOnTrace,
     EndNext, EndOpen, EndAgain
<1>4. ASSUME NEW g \in Threads, LogOnOpen(g)
      PROVE  arg[g] \in 0..sequence /\ Write(arg[g]) /\ UNCHANGED <<span, sequence>>
  BY <1>4 DEF LogOnOpen, At, Goroutines, Base, Pointers, CallPointers, GoodCall
<1>5. ASSUME NEW g \in Cloners, StartClone(g) \/ Clone(g) PROVE UNCHANGED logs
  BY <1>5 DEF StartClone, Clone, CopySpan, EndClone, DropClone
<1>6. CASE UNCHANGED vars
  BY <1>6 DEF vars
<1>7. sequence \in Nat
  BY DEF Base, TypeOK, ListTypes
<1>8. \A s \in 1..sequence : s \in 0..sequence
  BY <1>7
<1> QED
  BY <1>1, <1>2, <1>3, <1>4, <1>5, <1>6, <1>8 DEF Next

LEMMA StepAscends == Base /\ ListAscends /\ [Next]_vars => ListAscends'
<1> SUFFICES ASSUME Base, ListAscends, [Next]_vars PROVE ListAscends'
  OBVIOUS
<1>1. /\ spans \in Seq(Ids) /\ Len(spans) \in Nat /\ sequence \in Nat
      /\ \A n \in DOMAIN spans : spans[n] \in 1..sequence
  BY DEF Base, TypeOK, ListTypes, Pointers, ListPointers
<1>2. CASE UNCHANGED spans
  BY <1>2 DEF ListAscends
<1>3. ASSUME NEW g \in Threads, NEW p \in 0..sequence, StartSpan(g, p) PROVE ListAscends'
  <2>1. spans' = Append(spans, sequence + 1)
    BY <1>3 DEF StartSpan
  <2>2. \A n \in DOMAIN spans' :
          \/ n \in DOMAIN spans /\ spans'[n] = spans[n]
          \/ n = Len(spans) + 1 /\ spans'[n] = sequence + 1
    BY <1>1, <2>1
  <2> QED
    BY <1>1, <2>2 DEF ListAscends
<1>4. ASSUME NEW g \in Threads, FilterDebugSpan(g), spans' # spans PROVE ListAscends'
  <2>1. spans' = Without(arg[g])
    BY <1>4 DEF FilterDebugSpan, Filter
  <2>2. PICK n \in DOMAIN spans :
          /\ spans' \in Seq(Ids) /\ Len(spans') = Len(spans) - 1
          /\ \A m \in 1..(Len(spans) - 1) :
               spans'[m] = IF m < n THEN spans[m] ELSE spans[m + 1]
    BY <1>1, <1>4, <2>1, WithoutIs
  <2>3. ASSUME NEW i \in DOMAIN spans', NEW j \in DOMAIN spans', i < j
        PROVE  spans'[i] < spans'[j]
    <3>1. /\ i \in 1..(Len(spans) - 1) /\ j \in 1..(Len(spans) - 1)
          /\ i \in DOMAIN spans /\ i + 1 \in DOMAIN spans
          /\ j \in DOMAIN spans /\ j + 1 \in DOMAIN spans
      BY <1>1, <2>2
    <3>2. i \in Nat /\ j \in Nat /\ n \in Nat /\ i < j
      BY SMTT(30), <1>1, <2>3, <3>1
    <3>3. CASE j < n
      BY <2>2, <3>1, <3>2, <3>3 DEF ListAscends
    <3>4. CASE i < n /\ j >= n
      <4>1. spans'[i] = spans[i] /\ spans'[j] = spans[j + 1] /\ i < j + 1
        BY <2>2, <3>1, <3>2, <3>4
      <4> QED
        BY <3>1, <4>1 DEF ListAscends
    <3>5. CASE i >= n
      <4>1. spans'[i] = spans[i + 1] /\ spans'[j] = spans[j + 1] /\ i + 1 < j + 1
        BY <2>2, <3>1, <3>2, <3>5
      <4> QED
        BY <3>1, <4>1 DEF ListAscends
    <3> QED
      BY <3>2, <3>3, <3>4, <3>5
  <2> QED
    BY <2>3 DEF ListAscends
<1> QED
  BY <1>2, <1>3, <1>4, ListSteps

LEMMA StepLined == Base /\ Started /\ Lined /\ [Next]_vars => Lined'
<1> SUFFICES ASSUME Base, Started, Lined, [Next]_vars PROVE Lined'
  OBVIOUS
<1>0. Base' /\ Grows
  BY StepBase, StepGrows
<1>1. /\ last \in Nat /\ last' \in Nat /\ last' >= last
      /\ sequence \in Nat /\ sequence' \in Nat /\ sequence' >= sequence
      /\ \A s \in 1..sequence : span'[s].start = span[s].start /\ span[s].start \in Nat
  <2>1. last \in Nat /\ last' \in Nat /\ sequence \in Nat /\ sequence' \in Nat
    BY <1>0 DEF Base, TypeOK, StateTypes, ListTypes
  <2>2. \A s \in 1..sequence : s \in Ids /\ span[s] \in SpanRecord
    BY SpansNumbered DEF Base, TypeOK, ListTypes
  <2> QED
    BY <1>0, <2>1, <2>2 DEF Grows, SpanRecord
<1>2. Len(logs) \in Nat
      /\ \A n \in DOMAIN logs : logs[n].time \in Nat /\ logs[n].span \in Nat
  <2>1. logs \in Seq([span : Nat, time : Nat])
    BY DEF Base, TypeOK, LogTypes
  <2>2. \A n \in 1..Len(logs) : logs[n] \in [span : Nat, time : Nat]
    BY <2>1, ElementOfSeq
  <2>3. DOMAIN logs = 1..Len(logs)
    BY <2>1
  <2> QED
    BY <2>1, <2>2, <2>3
<1>3. CASE UNCHANGED logs
  <2>1. \A n \in DOMAIN logs :
          logs[n].time <= last' /\ logs[n].span \in 0..sequence'
    BY <1>1, <1>2 DEF Lined
  <2>2. \A n \in DOMAIN logs : logs[n].span # None =>
          span'[logs[n].span].start < logs[n].time
    BY <1>1, <1>2 DEF Lined, None
  <2> QED
    BY <1>3, <2>1, <2>2 DEF Lined
<1>4. ASSUME NEW s \in 0..sequence, Write(s), UNCHANGED <<span, sequence>> PROVE Lined'
  <2>1. last' > last /\ logs' = Append(logs, [span |-> s, time |-> last'])
    BY <1>4, WriteTypes
  <2>2. \A n \in DOMAIN logs' :
          \/ n \in DOMAIN logs /\ logs'[n] = logs[n]
          \/ n = Len(logs) + 1 /\ logs'[n] = [span |-> s, time |-> last']
    BY <1>2, <2>1
  <2>3. s # None => span[s].start < last'
    BY <1>1, <1>4, <2>1 DEF Started, None
  <2>4. ASSUME NEW n \in DOMAIN logs'
        PROVE  /\ logs'[n].time <= last'
               /\ logs'[n].span \in 0..sequence'
               /\ logs'[n].span # None => span'[logs'[n].span].start < logs'[n].time
    <3>1. CASE n \in DOMAIN logs /\ logs'[n] = logs[n]
      BY <1>1, <1>2, <1>4, <3>1 DEF Lined
    <3>2. CASE logs'[n] = [span |-> s, time |-> last']
      BY <1>1, <1>4, <2>3, <3>2
    <3> QED
      BY <2>2, <3>1, <3>2
  <2>5. ASSUME NEW m \in DOMAIN logs', NEW n \in DOMAIN logs', m < n
        PROVE  logs'[m].time < logs'[n].time
    <3>1. m \in DOMAIN logs /\ logs'[m] = logs[m]
      BY <1>2, <2>1, <2>2, <2>5
    <3>2. CASE n \in DOMAIN logs /\ logs'[n] = logs[n]
      BY <2>5, <3>1, <3>2 DEF Lined
    <3>3. CASE logs'[n] = [span |-> s, time |-> last']
      BY <1>1, <1>2, <2>1, <3>1, <3>3 DEF Lined
    <3> QED
      BY <2>2, <3>2, <3>3
  <2> QED
    BY <2>4, <2>5 DEF Lined
<1> QED
  BY <1>3, <1>4, LogSteps

LEMMA InitOrdered == Init => Started /\ ListAscends /\ Lined
<1> SUFFICES ASSUME Init PROVE Started /\ ListAscends /\ Lined
  OBVIOUS
<1>1. sequence = 0 /\ spans = << >> /\ logs = << >>
  BY DEF Init
<1> QED
  BY <1>1 DEF Started, ListAscends, Lined

(* Order and duration within a trace come from the clock's readings        *)
(* (clock.go:13-18, log.go:31-44): the list is in the order of its starts, *)
(* a child starts after its parent, a span that ended took time, and a     *)
(* line comes after the start of its span and after the lines before it.   *)
THEOREM OrderedByTheClock == Spec => []SpansOrdered
<1>1. ASSUME Base, Started, ListAscends, Lined PROVE SpansOrdered
  <2>1. sequence \in Nat /\ \A n \in DOMAIN spans : spans[n] \in 1..sequence
    BY <1>1 DEF Base, TypeOK, ListTypes, Pointers, ListPointers
  <2>2. \A s \in 1..sequence : span[s].parent # None =>
          span[s].parent \in 1..sequence /\ span[s].parent < s
    BY <1>1, <2>1 DEF Started, None
  <2>3. \A s \in 1..sequence : span[s].parent # None =>
          span[span[s].parent].start < span[s].start
    BY <1>1, <2>2 DEF Started
  <2>4. \A m, n \in DOMAIN spans : m < n =>
          spans[m] < spans[n] /\ span[spans[m]].start < span[spans[n]].start
    BY <1>1, <2>1 DEF ListAscends, Started
  <2> QED
    BY <1>1, <2>3, <2>4 DEF SpansOrdered, Started, Lined
<1>2. Init => Base /\ Started /\ ListAscends /\ Lined
  BY InitBase, InitOrdered
<1>3. Base /\ Started /\ ListAscends /\ Lined /\ [Next]_vars
        => (Base /\ Started /\ ListAscends /\ Lined)'
  BY StepBase, StepStarted, StepAscends, StepLined
<1> QED
  BY <1>1, <1>2, <1>3, PTL DEF Spec

-----------------------------------------------------------------------------
(* Extents. A span that ended did so by the last reading, and all spans of *)
(* a finished trace started before it finished.                            *)
Extents ==
  \A s \in 1..sequence :
    /\ span[s].ended => span[s].start + span[s].duration <= last
    /\ finished => span[s].start <= duration

(* What a clone shows of a span is what the span keeps. *)
Shows(v) ==
  \A s \in DOMAIN v.span :
    /\ s \in 1..sequence
    /\ v.span[s].start = span[s].start
    /\ v.span[s].ended => span[s].ended /\ v.span[s].duration = span[s].duration

Fits(v) ==
  \A s \in DOMAIN v.span :
    /\ v.span[s].start <= v.duration
    /\ ~v.finished /\ v.span[s].ended => v.span[s].start + v.span[s].duration <= v.duration

Fitting ==
  \A g \in Cloners :
    /\ pc[g] = "copying" => view[g].finished = finished
    /\ pc[g] \in {"copying", "copied"} => Shows(view[g])
    /\ pc[g] = "copied" => Fits(view[g])

(* Finish is the only step that finishes the trace or sets its duration. *)
LEMMA FinishSteps ==
  ASSUME Base, [Next]_vars
  PROVE  \/ UNCHANGED <<finished, duration>>
         \/ \E g \in Threads : Finish(g)
<1> USE DEF stateVars
<1>1. ASSUME NEW g \in Threads, Call(g), ~Finish(g) PROVE UNCHANGED <<finished, duration>>
  BY <1>1 DEF Call, StartSpan, RefuseSpan, SetDebug, EndSpan, EndOpen, SpanError, LogOnSpan,
     SetState, TraceError, FindSpan, RefuseLog, FindCurrent
<1>2. ASSUME NEW g \in Threads, Continue(g) PROVE UNCHANGED <<finished, duration>>
  BY <1>2 DEF Continue, FilterDebugSpan, Blame, LogOnOpen, ErrorOnSpan, SpanError,
     ErrorOnTrace, EndNext, EndOpen, EndAgain
<1>3. ASSUME NEW g \in Cloners, StartClone(g) \/ Clone(g)
      PROVE  UNCHANGED <<finished, duration>>
  BY <1>3 DEF StartClone, Clone, CopySpan, EndClone, DropClone
<1>4. CASE UNCHANGED vars
  BY <1>4 DEF vars
<1> QED
  BY <1>1, <1>2, <1>3, <1>4 DEF Next

LEMMA FinishIs ==
  ASSUME Base, NEW g \in Threads, Finish(g)
  PROVE  /\ last' > last /\ duration' = last' /\ UNCHANGED <<span, sequence>>
         /\ owner = None
<1>1. last' \in Readings /\ duration' = last' /\ owner = None
  BY DEF Finish, Enter, Free
<1>2. last' > last
  BY <1>1, ReadingsIncrease DEF Base, TypeOK, StateTypes
<1> QED
  BY <1>1, <1>2 DEF Finish, listVars, spanVars

LEMMA StepExtents == Base /\ Started /\ Extents /\ [Next]_vars => Extents'
<1> SUFFICES ASSUME Base, Started, Extents, [Next]_vars PROVE Extents'
  OBVIOUS
<1>0. Base' /\ Grows
  BY StepBase, StepGrows
<1>1. /\ last \in Nat /\ last' \in Nat /\ last' >= last /\ duration \in Nat
      /\ sequence \in Nat /\ sequence' \in Nat
  BY <1>0 DEF Base, TypeOK, StateTypes, ListTypes, Grows
<1>2. \A s \in 1..sequence : s \in Ids /\ span[s] \in SpanRecord
                             /\ span[s].start \in Nat /\ span[s].duration \in Int
  BY SpansNumbered DEF Base, TypeOK, ListTypes, SpanRecord
<1>3. CASE UNCHANGED <<span, sequence>>
  <2>1. CASE UNCHANGED <<finished, duration>>
    BY <1>1, <1>2, <1>3, <2>1 DEF Extents
  <2>2. ASSUME NEW g \in Threads, Finish(g) PROVE Extents'
    BY <1>1, <1>2, <1>3, <2>2, FinishIs DEF Extents, Started
  <2> QED
    BY <2>1, <2>2, FinishSteps
<1>4. ASSUME NEW g \in Threads, NEW p \in 0..sequence, StartSpan(g, p) PROVE Extents'
  <2>1. ~finished' /\ sequence' = sequence + 1
    BY <1>4 DEF StartSpan, Takes, stateVars
  <2>2. sequence + 1 \in Ids
    BY <1>1, <1>4, Numbers DEF StartSpan, Base, Pointers, ListPointers, TypeOK, ListTypes, Ids
  <2>3. /\ \A s \in 1..sequence : span'[s] = span[s]
        /\ ~span'[sequence + 1].ended
    BY <1>1, <1>4, <2>2 DEF StartSpan, Unrecorded, Base, TypeOK, ListTypes
  <2>4. \A s \in 1..sequence' : s \in 1..sequence \/ s = sequence + 1
    BY <1>1, <2>1
  <2> QED
    BY <1>1, <1>2, <2>1, <2>3, <2>4 DEF Extents
<1>5. ASSUME NEW g \in Threads, NEW s \in 1..sequence,
             SetDebug(g, s) \/ SpanError(g, s) \/ \E left \in Seq(Ids) : EndOpen(g, s, left)
      PROVE  Extents'
  <2>1. UNCHANGED <<sequence, finished, duration>>
    BY <1>5 DEF SetDebug, SpanError, EndOpen, listVars, stateVars
  <2>2. \A t \in 1..sequence \ {s} : span'[t] = span[t]
    BY <1>2, <1>5 DEF SetDebug, SpanError, MarkSpan, EndOpen, Base, TypeOK, ListTypes
  <2>3. span'[s].start = span[s].start
    BY <1>0 DEF Grows
  <2>4. span'[s].ended => span'[s].start + span'[s].duration <= last'
    <3>1. CASE SetDebug(g, s)
      BY <1>1, <1>2, <3>1 DEF SetDebug, Base, TypeOK, ListTypes, SpanRecord, Extents
    <3>2. CASE SpanError(g, s)
      BY <1>1, <1>2, <3>2 DEF SpanError, MarkSpan, Base, TypeOK, ListTypes, SpanRecord, Extents
    <3>3. ASSUME NEW left \in Seq(Ids), EndOpen(g, s, left)
          PROVE  span'[s].start + span'[s].duration = last'
      <4>1. span'[s].duration = last' - span[s].start
        BY <1>2, <3>3 DEF EndOpen, Base, TypeOK, ListTypes, SpanRecord
      <4> QED
        BY <1>1, <1>2, <2>3, <4>1
    <3> QED
      BY <1>1, <1>5, <3>1, <3>2, <3>3
  <2>5. ASSUME NEW t \in 1..sequence
        PROVE  /\ span'[t].ended => span'[t].start + span'[t].duration <= last'
               /\ finished => span'[t].start <= duration
    <3>1. CASE t = s
      BY <2>3, <2>4, <3>1 DEF Extents
    <3>2. CASE t # s
      BY <1>1, <1>2, <2>2, <3>2 DEF Extents
    <3> QED
      BY <3>1, <3>2
  <2> QED
    BY <2>1, <2>5 DEF Extents
<1> QED
  BY <1>3, <1>4, <1>5, SpanSteps

LEMMA StepFitting ==
  Base /\ Locking /\ Started /\ Extents /\ Fitting /\ [Next]_vars => Fitting'
<1> SUFFICES ASSUME Base, Locking, Started, Extents, Fitting, [Next]_vars, NEW c \in Cloners
             PROVE  /\ pc'[c] = "copying" => view'[c].finished = finished'
                    /\ pc'[c] \in {"copying", "copied"} => Shows(view[c])'
                    /\ pc'[c] = "copied" => Fits(view[c])'
  BY DEF Fitting
<1>0. Grows /\ ListTypes /\ sequence \in Nat /\ sequence' \in Nat /\ last \in Nat
      /\ c \in Goroutines /\ c # None
  BY StepGrows, StepBase, RecordingAssumption, SMTT(60)
  DEF Base, TypeOK, StateTypes, ListTypes, Goroutines
<1>1. ASSUME Shows(view[c]), view'[c].span = view[c].span PROVE Shows(view[c])'
  BY <1>0, <1>1 DEF Shows, Grows
<1>2. pc[c] = "copying" => UNCHANGED finished
  <2>1. pc[c] = "copying" => ~(\E g \in Threads : Finish(g))
    BY <1>0, FinishIs DEF Locking
  <2> QED
    BY <2>1, FinishSteps
<1>3. ASSUME view'[c] = view[c], pc'[c] = pc[c]
      PROVE  /\ pc'[c] = "copying" => view'[c].finished = finished'
             /\ pc'[c] \in {"copying", "copied"} => Shows(view[c])'
             /\ pc'[c] = "copied" => Fits(view[c])'
  BY <1>1, <1>2, <1>3 DEF Fitting, Fits
<1>4. CASE ~(\E g \in Cloners : StartClone(g) \/ Clone(g))
  BY <1>3, <1>4, ClonesApart
<1>5. ASSUME NEW g \in Cloners, StartClone(g) \/ Clone(g), c # g
      PROVE  view'[c] = view[c] /\ pc'[c] = pc[c]
  <2>1. pc'[c] = pc[c]
    BY <1>5 DEF StartClone, Clone, CopySpan, EndClone, DropClone, At, Base, TypeOK,
       CallTypes, Goroutines
  <2>2. view'[c] = view[c]
    BY <1>5 DEF StartClone, Clone, CopySpan, EndClone, DropClone, Base, TypeOK, ViewTypes
  <2> QED
    BY <2>1, <2>2
<1>6. CASE StartClone(c)
  <2>1. pc'[c] = "copying" /\ UNCHANGED finished
    BY <1>0, <1>6 DEF StartClone, At, stateVars, Base, TypeOK, CallTypes
  <2>2. view'[c].finished = finished /\ DOMAIN view'[c].span = {}
    BY <1>6, StartCloneIs
  <2> QED
    BY <2>1, <2>2 DEF Shows
<1>7. CASE CopySpan(c)
  <2>0. pc[c] = "copying" /\ pc'[c] = "copying" /\ UNCHANGED <<finished, span, sequence>>
    BY <1>7 DEF CopySpan, stateVars, spanVars, listVars
  <2>1. PICK now \in Peeks, s \in 1..sequence :
          /\ s \in Ids /\ now \in Nat
          /\ view' = [view EXCEPT ![c] =
                       [view[c] EXCEPT !.span = WithCopy(view[c].span, s, now)]]
    BY <1>7, CopySpanIs
  <2>2. view[c] \in ViewRecord /\ view[c].span \in Copies
    BY DEF Base, TypeOK, ViewTypes, ViewRecord
  <2>3. view'[c].finished = view[c].finished
        /\ view'[c].span = WithCopy(view[c].span, s, now)
    BY <2>1, <2>2 DEF Base, TypeOK, ViewTypes, ViewRecord
  <2>4. PICK old : old = view[c].span
    OBVIOUS
  <2>5. ListTypes /\ old \in Copies /\ s \in Ids /\ now \in Nat
    BY <1>0, <2>1, <2>2, <2>4
  <2>6. /\ DOMAIN WithCopy(old, s, now) = DOMAIN old \cup {s}
        /\ \A i \in DOMAIN WithCopy(old, s, now) :
             WithCopy(old, s, now)[i] = IF i = s THEN CopyOf(s, now) ELSE old[i]
    BY <2>5, WithCopyIs
  <2>7. /\ CopyOf(s, now).start = span[s].start
        /\ CopyOf(s, now).ended = span[s].ended
        /\ span[s].ended => CopyOf(s, now).duration = span[s].duration
    BY <2>5, CopyOfIs
  <2>8. ASSUME NEW i \in DOMAIN view'[c].span
        PROVE  /\ i \in 1..sequence
               /\ view'[c].span[i].start = span[i].start
               /\ view'[c].span[i].ended =>
                    span[i].ended /\ view'[c].span[i].duration = span[i].duration
    <3>1. CASE i = s
      BY <2>1, <2>3, <2>4, <2>6, <2>7, <3>1
    <3>2. CASE i # s
      <4>1. i \in DOMAIN old /\ view'[c].span[i] = old[i]
        BY <2>3, <2>4, <2>6, <2>8, <3>2
      <4>2. Shows(view[c])
        BY <2>0 DEF Fitting
      <4> QED
        BY <2>4, <4>1, <4>2 DEF Shows
    <3> QED
      BY <3>1, <3>2
  <2>9. Shows(view[c])'
    BY <2>0, <2>8 DEF Shows
  <2> QED
    BY <2>0, <2>3, <2>9 DEF Fitting
<1>8. CASE EndClone(c)
  <2>0. pc[c] = "copying" /\ pc'[c] = "copied" /\ UNCHANGED <<finished, span, sequence>>
    BY <1>0, <1>8 DEF EndClone, At, stateVars, spanVars, listVars, Base, TypeOK, CallTypes
  <2>1. PICK d \in Nat :
          /\ duration = 0 => d >= last
          /\ duration > 0 => d = duration
          /\ view' = [view EXCEPT ![c] = [view[c] EXCEPT !.duration = d]]
    BY <1>8, EndCloneIs
  <2>2. /\ view'[c].finished = view[c].finished /\ view'[c].span = view[c].span
        /\ view'[c].duration = d
    BY <2>1 DEF Base, TypeOK, ViewTypes, ViewRecord
  <2>3. Shows(view[c]) /\ view[c].finished = finished
    BY <2>0 DEF Fitting
  <2>4. ASSUME NEW s \in DOMAIN view[c].span
        PROVE  /\ view[c].span[s].start <= d
               /\ ~finished /\ view[c].span[s].ended =>
                    view[c].span[s].start + view[c].span[s].duration <= d
    <3>1. s \in 1..sequence /\ span[s].start \in Nat /\ span[s].duration \in Int
      BY <2>3, SpansNumbered DEF Shows, Base, TypeOK, ListTypes, SpanRecord
    <3>2. duration \in Nat /\ (finished <=> duration > 0)
      BY DEF Base, TypeOK, StateTypes, Clocked
    <3>3. span[s].start <= last /\ (finished => span[s].start <= duration)
          /\ (span[s].ended => span[s].start + span[s].duration <= last)
      BY <3>1 DEF Started, Extents
    <3>4. /\ view[c].span[s].start = span[s].start
          /\ view[c].span[s].ended =>
               span[s].ended /\ view[c].span[s].duration = span[s].duration
      BY <2>3 DEF Shows
    <3>5. CASE finished
      BY <2>1, <3>2, <3>3, <3>4, <3>5
    <3>6. CASE ~finished
      <4>1. d >= last
        BY <2>1, <3>2, <3>6
      <4> QED
        BY <1>0, <2>1, <3>1, <3>3, <3>4, <4>1
    <3> QED
      BY <3>5, <3>6
  <2>5. Fits(view[c])'
    BY <2>2, <2>3, <2>4 DEF Fits
  <2> QED
    BY <1>1, <2>0, <2>2, <2>3, <2>5
<1>9. CASE DropClone(c)
  BY <1>0, <1>9 DEF DropClone, At, Base, TypeOK, CallTypes
<1> QED
  BY <1>3, <1>4, <1>5, <1>6, <1>7, <1>8, <1>9 DEF Clone

LEMMA InitFitting == Init => Extents /\ Fitting
<1> SUFFICES ASSUME Init PROVE Extents /\ Fitting
  OBVIOUS
<1>1. sequence = 0 /\ \A g \in Cloners : pc[g] = "idle"
  BY DEF Init, Goroutines
<1> QED
  BY <1>1 DEF Extents, Fitting

(* A clone holds together in time although the clock runs while its spans  *)
(* are copied one by one (clock.go:36-39, trace.go:477-479): its spans     *)
(* start before it ends, and those that ended before the trace finished    *)
(* ended before the clone did.                                             *)
THEOREM ClonesFit == Spec => []CloneFits
<1>1. Fitting => CloneFits
  BY DEF Fitting, Fits, CloneFits
<1>2. Init => Base /\ Locking /\ Started /\ Extents /\ Fitting
  BY InitBase, InitLocking, InitOrdered, InitFitting
<1>3. Base /\ Locking /\ Started /\ Extents /\ Fitting /\ [Next]_vars
        => (Base /\ Locking /\ Started /\ Extents /\ Fitting)'
  BY StepBase, StepLocking, StepStarted, StepExtents, StepFitting
<1> QED
  BY <1>1, <1>2, <1>3, PTL DEF Spec

-----------------------------------------------------------------------------
(* Accounts. Whatever comes onto a list or off it is counted; a line on    *)
(* its way is that of the goroutine that holds the trace lock.             *)
ListKept ==
  /\ Len(spans) + dropped = asked
  /\ MaxSpans > 0 => Len(spans) <= MaxSpans

OnTheWay == {g \in Threads : pc[g] = "append"}

LogsKept == Len(logs) + droppedLogs + Cardinality(OnTheWay) = written

LEMMA StepListKept == Base /\ ListKept /\ [Next]_vars => ListKept'
<1> SUFFICES ASSUME Base, ListKept, [Next]_vars PROVE ListKept'
  OBVIOUS
<1>1. spans \in Seq(Ids) /\ Len(spans) \in Nat /\ dropped \in Nat /\ asked \in Nat
      /\ MaxSpans \in Nat
  BY RecordingAssumption DEF Base, TypeOK, ListTypes
<1>2. ASSUME UNCHANGED <<spans, dropped, asked>> PROVE ListKept'
  BY <1>2 DEF ListKept
<1>3. ASSUME NEW g \in Threads, Call(g) PROVE ListKept'
  <2>1. ASSUME NEW q \in 0..sequence, StartSpan(g, q) PROVE ListKept'
    <3>1. /\ spans' = Append(spans, sequence + 1) /\ dropped' = dropped /\ asked' = asked + 1
          /\ MaxSpans > 0 => Len(spans) < MaxSpans
      BY <2>1 DEF StartSpan, BelowLimit
    <3>2. Len(spans') = Len(spans) + 1
      BY <1>1, <3>1
    <3> QED
      BY <1>1, <3>1, <3>2 DEF ListKept
  <2>2. CASE RefuseSpan(g)
    BY <1>1, <2>2 DEF RefuseSpan, ListKept
  <2>3. CASE ~RefuseSpan(g) /\ ~(\E q \in 0..sequence : StartSpan(g, q))
    BY <1>2, <1>3, <2>3 DEF Call, SetDebug, EndSpan, EndOpen, SpanError, LogOnSpan,
       SetState, TraceError, FindSpan, RefuseLog, FindCurrent, Finish, listVars, seenVars
  <2> QED
    BY <2>1, <2>2, <2>3
<1>4. ASSUME NEW g \in Threads, Continue(g) PROVE ListKept'
  <2>1. ASSUME FilterDebugSpan(g), spans' # spans PROVE ListKept'
    <3>1. /\ spans' = Without(arg[g]) /\ dropped' = dropped + Len(spans) - Len(spans')
          /\ asked' = asked
      BY <2>1 DEF FilterDebugSpan, Filter, seenVars
    <3>2. Len(spans') = Len(spans) - 1
      BY <1>1, <2>1, <3>1, WithoutIs
    <3> QED
      BY <1>1, <3>1, <3>2 DEF ListKept
  <2>2. ASSUME FilterDebugSpan(g), spans' = spans PROVE ListKept'
    <3>1. dropped' = dropped + Len(spans) - Len(spans') \/ dropped' = dropped
      BY <2>2 DEF FilterDebugSpan, Filter
    <3> QED
      BY <1>1, <2>2, <3>1 DEF FilterDebugSpan, seenVars, ListKept
  <2>3. CASE ~FilterDebugSpan(g)
    BY <1>2, <1>4, <2>3 DEF Continue, Blame, LogOnOpen, ErrorOnSpan, SpanError,
       ErrorOnTrace, EndNext, EndOpen, EndAgain, listVars, seenVars
  <2> QED
    BY <2>1, <2>2, <2>3
<1>5. ASSUME NEW g \in Cloners, StartClone(g) \/ Clone(g) PROVE ListKept'
  BY <1>2, <1>5 DEF StartClone, Clone, CopySpan, EndClone, DropClone, listVars, seenVars
<1>6. CASE UNCHANGED vars
  BY <1>2, <1>6 DEF vars, listVars, seenVars
<1> QED
  BY <1>3, <1>4, <1>5, <1>6 DEF Next

LEMMA StepLogsKept == Base /\ Locking /\ LogsKept /\ [Next]_vars => LogsKept'
<1> SUFFICES ASSUME Base, Locking, LogsKept, [Next]_vars PROVE LogsKept'
  OBVIOUS
<1>0. /\ logs \in Seq([span : Nat, time : Nat]) /\ Len(logs) \in Nat
      /\ droppedLogs \in Nat /\ written \in Nat
      /\ pc \in [Goroutines -> Positions] /\ Threads \subseteq Goroutines
  BY DEF Base, TypeOK, LogTypes, CallTypes, Goroutines
<1>1. Cardinality({}) = 0 /\ \A x : Cardinality({x}) = 1
  BY FS_EmptySet, FS_Singleton
<1>2. ASSUME UNCHANGED <<logs, droppedLogs, written>>,
             \A h \in Threads : pc'[h] = "append" <=> pc[h] = "append"
      PROVE  LogsKept'
  <2>1. OnTheWay' = OnTheWay
    BY <1>2 DEF OnTheWay
  <2> QED
    BY <1>2, <2>1 DEF LogsKept
<1>3. ASSUME NEW g \in Goroutines, pc[g] # "append",
             UNCHANGED pc \/ \E to : to # "append" /\ pc' = [pc EXCEPT ![g] = to]
      PROVE  \A h \in Threads : pc'[h] = "append" <=> pc[h] = "append"
  BY <1>0, <1>3
<1>4. owner = None => OnTheWay = {}
  BY <1>0, RecordingAssumption DEF Locking, OnTheWay
<1>5. ASSUME NEW s \in 0..sequence, Write(s) PROVE Len(logs') = Len(logs) + 1
  <2>1. /\ [span |-> s, time |-> last'] \in [span : Nat, time : Nat]
        /\ logs' = Append(logs, [span |-> s, time |-> last'])
    BY <1>5, WriteTypes
  <2> QED
    BY <1>0, <2>1, AppendProperties
<1>6. ASSUME NEW g \in Threads, Call(g) PROVE LogsKept'
  <2>0. pc[g] = "idle" /\ g \in Goroutines
    BY <1>0, <1>6 DEF Call, StartSpan, RefuseSpan, SetDebug, EndSpan, LogOnSpan, SetState,
       TraceError, FindSpan, RefuseLog, FindCurrent, Finish, MayCall, MayLog
  <2>1. ASSUME NEW s \in 1..sequence, LogOnSpan(g, s) PROVE LogsKept'
    <3>1. s \in 0..sequence
      OBVIOUS
    <3>2. Len(logs') = Len(logs) + 1 /\ droppedLogs' = droppedLogs /\ written' = written + 1
      BY <1>5, <2>1, <3>1 DEF LogOnSpan
    <3>3. OnTheWay' = OnTheWay /\ OnTheWay = {}
      BY <1>4, <2>1 DEF LogOnSpan, MayLog, Free, callVars, OnTheWay
    <3> QED
      BY <1>0, <1>1, <3>2, <3>3 DEF LogsKept
  <2>2. CASE FindSpan(g)
    <3>1. /\ UNCHANGED <<logs, droppedLogs>> /\ written' = written + 1
          /\ pc' = [pc EXCEPT ![g] = "append"] /\ OnTheWay = {}
      BY <1>4, <2>2 DEF FindSpan, MayLog, Free, logVars
    <3>2. OnTheWay' = {g}
      BY <1>0, <3>1 DEF OnTheWay
    <3>3. Cardinality(OnTheWay) = 0 /\ Cardinality(OnTheWay') = 1
      BY <1>1, <3>1, <3>2
    <3> QED
      BY <1>0, <3>1, <3>3 DEF LogsKept
  <2>3. CASE RefuseLog(g)
    <3>1. UNCHANGED <<logs, pc>> /\ written' = written + 1 /\ droppedLogs' = droppedLogs + 1
          /\ OnTheWay = {}
      BY <1>4, <2>3 DEF RefuseLog, MayLog, Free, callVars
    <3>2. OnTheWay' = {}
      BY <3>1 DEF OnTheWay
    <3> QED
      BY <1>0, <1>1, <3>1, <3>2 DEF LogsKept
  <2>4. CASE ~FindSpan(g) /\ ~RefuseLog(g) /\ ~(\E s \in 1..sequence : LogOnSpan(g, s))
    <3>1. UNCHANGED <<logs, droppedLogs, written>>
      BY <1>6, <2>4 DEF Call, StartSpan, RefuseSpan, SetDebug, EndSpan, EndOpen, SpanError,
         SetState, TraceError, FindCurrent, Finish, logVars, seenVars
    <3>2. UNCHANGED pc \/ \E to : to # "append" /\ pc' = [pc EXCEPT ![g] = to]
      <4>1. CASE \E s \in 1..sequence : EndSpan(g, s) \/ SpanError(g, s)
        BY <4>1, AfterIs DEF EndSpan, EndOpen, SpanError
      <4>2. CASE Finish(g)
        BY <4>2, AfterIs DEF Finish
      <4> QED
        BY <1>6, <2>4, <4>1, <4>2 DEF Call, StartSpan, RefuseSpan, SetDebug, SetState,
           TraceError, FindCurrent, callVars
    <3> QED
      BY <1>2, <1>3, <2>0, <3>1, <3>2
  <2> QED
    BY <2>1, <2>2, <2>3, <2>4
<1>7. ASSUME NEW g \in Threads, Continue(g) PROVE LogsKept'
  <2>1. CASE LogOnOpen(g)
    <3>0. g \in Goroutines
      BY <1>0
    <3>1. /\ pc[g] = "append" /\ pc' = [pc EXCEPT ![g] = "idle"]
          /\ UNCHANGED <<droppedLogs, written>> /\ Write(arg[g])
      BY <2>1 DEF LogOnOpen, At, seenVars
    <3>2. arg[g] \in 0..sequence
      BY <1>0, <3>0, <3>1 DEF Base, Pointers, CallPointers, GoodCall
    <3>3. Len(logs') = Len(logs) + 1
      BY <1>5, <3>1, <3>2
    <3>4. OnTheWay = {g}
      BY <1>0, <3>1 DEF Locking, OnTheWay
    <3>5. OnTheWay' = {}
      BY <1>0, <3>1, <3>4 DEF OnTheWay
    <3>6. Cardinality(OnTheWay) = 1 /\ Cardinality(OnTheWay') = 0
      BY <1>1, <3>4, <3>5
    <3> QED
      BY <1>0, <3>1, <3>3, <3>6 DEF LogsKept
  <2>2. CASE ~LogOnOpen(g)
    <3>1. UNCHANGED <<logs, droppedLogs, written>>
      BY <1>7, <2>2 DEF Continue, FilterDebugSpan, Blame, ErrorOnSpan, SpanError,
         ErrorOnTrace, EndNext, EndOpen, EndAgain, logVars, seenVars
    <3>2. pc[g] # "append"
      BY <1>7, <2>2 DEF Continue, FilterDebugSpan, Blame, ErrorOnSpan, ErrorOnTrace,
         EndNext, At
    <3>3. \E to : to # "append" /\ pc' = [pc EXCEPT ![g] = to]
      BY <1>7, <2>2, AfterIs DEF Continue, FilterDebugSpan, Blame, ErrorOnSpan, SpanError,
         ErrorOnTrace, EndNext, EndOpen, EndAgain, At
    <3> QED
      BY <1>0, <1>2, <1>3, <3>1, <3>2, <3>3
  <2> QED
    BY <2>1, <2>2
<1>8. ASSUME NEW c \in Cloners, StartClone(c) \/ Clone(c) PROVE LogsKept'
  <2>1. UNCHANGED <<logs, droppedLogs, written>>
    BY <1>8 DEF StartClone, Clone, CopySpan, EndClone, DropClone, logVars, seenVars
  <2>2. UNCHANGED pc \/ \E to : pc' = [pc EXCEPT ![c] = to]
    BY <1>8 DEF StartClone, Clone, CopySpan, EndClone, DropClone, At
  <2>3. \A h \in Threads : pc'[h] = pc[h]
    BY <1>0, <2>2, RecordingAssumption
  <2> QED
    BY <1>2, <2>1, <2>3
<1>9. CASE UNCHANGED vars
  BY <1>2, <1>9 DEF vars, logVars, seenVars, callVars
<1> QED
  BY <1>6, <1>7, <1>8, <1>9 DEF Next

LEMMA InitKept == Init => ListKept /\ LogsKept
<1> SUFFICES ASSUME Init PROVE ListKept /\ LogsKept
  OBVIOUS
<1>1. /\ spans = << >> /\ dropped = 0 /\ asked = 0
      /\ logs = << >> /\ droppedLogs = 0 /\ written = 0
  BY DEF Init
<1>2. OnTheWay = {}
  BY DEF Init, OnTheWay, Goroutines
<1>3. Cardinality({}) = 0 /\ Len(<< >>) = 0
  BY FS_EmptySet
<1> QED
  BY <1>1, <1>2, <1>3, RecordingAssumption DEF ListKept, LogsKept

(* No span and no log line is lost without being counted, and the list     *)
(* keeps the limit, while spans come, fall to the filter and are refused   *)
(* (trace.go:135-138, debug_span.go:56-60, log.go:24-27).                  *)
THEOREM NothingUncounted == Spec => []SpansAccounted
<1>1. ListKept /\ LogsKept => SpansAccounted
  BY DEF ListKept, LogsKept, OnTheWay, SpansAccounted
<1>2. Init => Base /\ Locking /\ ListKept /\ LogsKept
  BY InitBase, InitLocking, InitKept
<1>3. Base /\ Locking /\ ListKept /\ LogsKept /\ [Next]_vars
        => (Base /\ Locking /\ ListKept /\ LogsKept)'
  BY StepBase, StepLocking, StepListKept, StepLogsKept
<1> QED
  BY <1>1, <1>2, <1>3, PTL DEF Spec

-----------------------------------------------------------------------------
(* Time per state. What was added to the states up to now is the time of   *)
(* the last change of state, and Finish is such a change.                  *)
Timed ==
  /\ SumFunction(stateTime) = changedAt
  /\ duration <= changedAt

LEMMA EnterSteps ==
  ASSUME Base, [Next]_vars
  PROVE  \/ UNCHANGED <<stateTime, changedAt, duration>>
         \/ /\ \E s \in States : Enter(s)
            /\ duration' \in {duration, last'}
<1> USE DEF stateVars
<1>1. ASSUME NEW s \in Ids \cup {None}, Fail(s) PROVE \E t \in States : Enter(t)
  BY <1>1, Numbers DEF Fail
<1>2. CASE \E g \in Threads : Call(g)
  <2>1. PICK g \in Threads : Call(g)
    BY <1>2
  <2>2. ASSUME NEW s \in States, SetState(g, s)
        PROVE  (\E t \in States : Enter(t)) /\ duration' = duration
    BY <2>2 DEF SetState
  <2>3. CASE TraceError(g)
    BY <1>1, <2>3 DEF TraceError
  <2>4. CASE Finish(g)
    BY <2>4 DEF Finish, Base, TypeOK, StateTypes
  <2>5. CASE ~TraceError(g) /\ ~Finish(g) /\ ~(\E s \in States : SetState(g, s))
    BY <2>1, <2>5 DEF Call, StartSpan, RefuseSpan, SetDebug, EndSpan, EndOpen, SpanError,
       LogOnSpan, FindSpan, RefuseLog, FindCurrent
  <2> QED
    BY <2>2, <2>3, <2>4, <2>5
<1>3. CASE \E g \in Threads : Continue(g)
  <2>1. PICK g \in Threads : Continue(g)
    BY <1>3
  <2>2. arg[g] \in Ids \cup {None}
    BY DEF Base, TypeOK, CallTypes, Goroutines
  <2>3. CASE Blame(g)
    BY <1>1, <2>2, <2>3 DEF Blame
  <2>4. CASE ErrorOnTrace(g)
    BY <1>1, <2>4 DEF ErrorOnTrace
  <2>5. CASE ~Blame(g) /\ ~ErrorOnTrace(g)
    BY <2>1, <2>5 DEF Continue, FilterDebugSpan, LogOnOpen, ErrorOnSpan, SpanError,
       EndNext, EndOpen, EndAgain
  <2> QED
    BY <2>3, <2>4, <2>5
<1>4. CASE \E g \in Cloners : StartClone(g) \/ Clone(g)
  BY <1>4 DEF StartClone, Clone, CopySpan, EndClone, DropClone
<1>5. CASE UNCHANGED vars
  BY <1>5 DEF vars
<1> QED
  BY <1>2, <1>3, <1>4, <1>5 DEF Next

LEMMA StateTimesFinite ==
  ASSUME Base
  PROVE  IsFiniteSet(States) /\ stateTime \in [States -> Int] /\ state \in States
BY RecordingAssumption DEF Base, TypeOK, StateTypes

(* With the time since the last change the account is that of a reading.   *)
LEMMA TimedAt ==
  ASSUME Base, Timed, NEW r \in Nat
  PROVE  SumFunction([stateTime EXCEPT ![state] = @ + (r - changedAt)]) = r
<1>1. changedAt \in Nat
  BY DEF Base, TypeOK, StateTypes
<1>2. PICK d \in Int : d = r - changedAt /\ changedAt + d = r
  BY <1>1
<1>3. SumFunction([stateTime EXCEPT ![state] = @ + d]) = SumFunction(stateTime) + d
  <2>1. IsFiniteSet(States) /\ stateTime \in [States -> Int] /\ state \in States
    BY StateTimesFinite
  <2> QED
    BY ZenonT(60), <2>1, SumChange
<1>4. SumFunction(stateTime) = changedAt
  BY DEF Timed
<1>5. SumFunction([stateTime EXCEPT ![state] = @ + d]) = r
  BY <1>2, <1>3, <1>4, Zenon
<1> QED
  BY <1>2, <1>5, Zenon

LEMMA StepTimed == Base /\ Timed /\ [Next]_vars => Timed'
<1> SUFFICES ASSUME Base, Timed, [Next]_vars PROVE Timed'
  OBVIOUS
<1>1. CASE UNCHANGED <<stateTime, changedAt, duration>>
  BY <1>1 DEF Timed
<1>2. ASSUME NEW s \in States, Enter(s), duration' \in {duration, last'}
      PROVE  Timed'
  <2>1. last' \in Nat /\ last' > last /\ changedAt' = last'
    BY <1>2, EnterTypes
  <2>2. stateTime' = [stateTime EXCEPT ![state] = @ + (last' - changedAt)]
    BY <1>2 DEF Enter
  <2>3. SumFunction(stateTime') = changedAt'
    BY <2>1, <2>2, TimedAt, Zenon
  <2>4. duration' <= changedAt'
    BY <1>2, <2>1 DEF Base, TypeOK, StateTypes, Clocked
  <2> QED
    BY <2>3, <2>4 DEF Timed
<1> QED
  BY <1>1, <1>2, EnterSteps

LEMMA InitTimed == Init => Timed
<1> SUFFICES ASSUME Init PROVE Timed
  OBVIOUS
<1>1. SumFunction(stateTime) = 0
  BY RecordingAssumption, SumZero DEF Init
<1> QED
  BY <1>1 DEF Init, Timed

(* The time a clone shows per state adds up to the time it shows for the   *)
(* trace, at every reading and in every state the trace may be left in by  *)
(* SetState, RecordError and Finish (trace.go:493-526, 544). A state       *)
(* entered again, or an error after Finish, takes nothing from it.         *)
THEOREM StateTimesSum == Spec => []StateTimesAddUp
<1>1. Base /\ Timed => StateTimesAddUp
  <2> SUFFICES ASSUME Base, Timed, NEW now \in Peeks
               PROVE  /\ ~finished => SumFunction(StateTimes(now)) = Elapsed(now)
                      /\ finished => /\ 0 < Elapsed(now)
                                     /\ Elapsed(now) <= SumFunction(StateTimes(now))
    BY DEF StateTimesAddUp
  <2>1. /\ now \in Nat /\ changedAt \in Nat /\ duration \in Nat
        /\ finished <=> duration > 0
    BY PeeksAhead DEF Base, TypeOK, StateTypes, Clocked
  <2>2. CASE finished
    BY <2>1, <2>2 DEF Timed, StateTimes, Elapsed
  <2>3. CASE ~finished
    <3>1. StateTimes(now) = [stateTime EXCEPT ![state] = @ + (now - changedAt)]
      BY <2>3 DEF StateTimes
    <3>2. SumFunction(StateTimes(now)) = now
      BY <2>1, <3>1, TimedAt, Zenon
    <3>3. Elapsed(now) = now
      BY <2>1, <2>3 DEF Elapsed
    <3> QED
      BY <2>3, <3>2, <3>3, Zenon
  <2> QED
    BY <2>2, <2>3
<1>2. Init => Base /\ Timed
  BY InitBase, InitTimed
<1>3. Base /\ Timed /\ [Next]_vars => (Base /\ Timed)'
  BY StepBase, StepTimed
<1> QED
  BY <1>1, <1>2, <1>3, PTL DEF Spec

-----------------------------------------------------------------------------
(* Progress. The trace lock is held only by a call that goes on without    *)
(* waiting for it, and no call keeps a span's lock between its steps: so   *)
(* whoever waits, the holder does not wait for him.                        *)
Holding ==
  /\ owner # None => owner \in Goroutines /\ pc[owner] \in {"append", "copying"}
  /\ \A i \in Ids : held[i] = None
  /\ \A g \in Threads : pc[g] \notin {"copying", "copied"}
  /\ \A g \in Cloners : pc[g] \in {"idle", "copying", "copied"}

LEMMA StepHolding == Base /\ Holding /\ [Next]_vars => Holding'
<1> SUFFICES ASSUME Base, Holding, [Next]_vars PROVE Holding'
  OBVIOUS
<1>0. /\ Threads \subseteq Goroutines /\ Cloners \subseteq Goroutines
      /\ \A g \in Goroutines : g # None
      /\ Threads \cap Cloners = {}
  BY Numbers, RecordingAssumption DEF Goroutines
<1>1. ASSUME UNCHANGED <<owner, held, pc>> PROVE Holding'
  BY <1>1 DEF Holding
(* A call of one who does not hold the trace lock, or gives it back.       *)
<1>2. ASSUME NEW g \in Goroutines, \A i \in Ids : held'[i] = None,
             owner' = None \/ (owner' = owner /\ pc[g] \notin {"append", "copying"}),
             NEW to \in Positions, pc' = [pc EXCEPT ![g] = to],
             g \in Threads => to \notin {"copying", "copied"},
             g \in Cloners => to \in {"idle", "copying", "copied"}
      PROVE  Holding'
  <2>1. \A h \in Goroutines : pc'[h] = IF h = g THEN to ELSE pc[h]
    BY <1>2 DEF Base, TypeOK, CallTypes
  <2> QED
    BY <1>0, <1>2, <2>1 DEF Holding
(* A call that takes the trace lock. *)
<1>3. ASSUME NEW g \in Goroutines, UNCHANGED held, owner' = g,
             NEW to \in {"append", "copying"}, pc' = [pc EXCEPT ![g] = to],
             g \in Threads => to = "append", g \in Cloners => to = "copying"
      PROVE  Holding'
  <2>1. \A h \in Goroutines : pc'[h] = IF h = g THEN to ELSE pc[h]
    BY <1>3 DEF Base, TypeOK, CallTypes
  <2> QED
    BY <1>0, <1>3, <2>1 DEF Holding
<1>4. \A i \in Ids : held[i] = None
  BY DEF Holding
<1>5. ASSUME NEW g \in Threads, Call(g) PROVE Holding'
  <2>1. CASE FindSpan(g)
    BY <1>0, <1>3, <2>1 DEF FindSpan
  <2>2. CASE Finish(g)
    <3>1. /\ pc' = [pc EXCEPT ![g] = After(Listed)] /\ UNCHANGED <<owner, held>>
          /\ pc[g] = "idle"
      BY <2>2 DEF Finish, MayCall, lockVars
    <3> QED
      BY <1>0, <1>2, <1>4, <3>1, AfterIs
  <2>3. ASSUME NEW s \in 1..sequence, EndSpan(g, s) PROVE Holding'
    <3>1. pc[g] = "idle" /\ UNCHANGED <<owner, held>>
      BY <2>3 DEF EndSpan, EndOpen, MayCall, LeaveLock
    <3>2. pc' = [pc EXCEPT ![g] = "filter"] \/ pc' = [pc EXCEPT ![g] = After(<< >>)]
      BY <2>3 DEF EndSpan, EndOpen
    <3> QED
      BY <1>0, <1>2, <1>4, <3>1, <3>2, AfterIs DEF Positions
  <2>4. ASSUME NEW s \in 1..sequence, MayCall(g), SpanError(g, s) PROVE Holding'
    BY <1>0, <1>2, <1>4, <2>4 DEF MayCall, SpanError, lockVars, Positions
  <2>5. CASE FindCurrent(g)
    BY <1>0, <1>2, <1>4, <2>5 DEF FindCurrent, MayCall, lockVars, Positions
  <2>6. CASE \/ \E p \in 0..sequence : StartSpan(g, p)
             \/ RefuseSpan(g) \/ RefuseLog(g) \/ TraceError(g)
             \/ \E s \in 1..sequence : SetDebug(g, s) \/ LogOnSpan(g, s)
             \/ \E s \in States : SetState(g, s)
    <3>1. ASSUME NEW s, \/ StartSpan(g, s) \/ SetDebug(g, s) \/ LogOnSpan(g, s)
                          \/ SetState(g, s) \/ RefuseSpan(g) \/ RefuseLog(g) \/ TraceError(g)
          PROVE  UNCHANGED <<owner, held, pc>>
      BY <3>1, Zenon DEF StartSpan, RefuseSpan, RefuseLog, TraceError, SetDebug, LogOnSpan,
         SetState, lockVars, callVars
    <3> QED
      BY <1>1, <2>6, <3>1
  <2> QED
    BY <1>5, <2>1, <2>2, <2>3, <2>4, <2>5, <2>6 DEF Call
<1>6. ASSUME NEW g \in Threads, Continue(g) PROVE Holding'
  <2>1. CASE LogOnOpen(g)
    BY <1>0, <1>2, <1>4, <2>1 DEF LogOnOpen, At, Positions
  <2>2. CASE FilterDebugSpan(g)
    <3>1. /\ pc' = [pc EXCEPT ![g] = After(rest[g])] /\ UNCHANGED owner
          /\ pc[g] = "filter" /\ held' = [held EXCEPT ![arg[g]] = None]
      BY <2>2 DEF FilterDebugSpan, At
    <3>2. \A i \in Ids : held'[i] = None
      BY <1>4, <3>1 DEF Base, TypeOK, CallTypes
    <3> QED
      BY <1>0, <1>2, <3>1, <3>2, AfterIs
  <2>3. CASE Blame(g) \/ ErrorOnTrace(g)
    BY <1>0, <1>2, <1>4, <2>3 DEF Blame, ErrorOnTrace, At, lockVars, Positions
  <2>4. CASE ErrorOnSpan(g)
    BY <1>0, <1>2, <1>4, <2>4 DEF ErrorOnSpan, SpanError, lockVars, Positions
  <2>5. CASE EndNext(g)
    <3>1. pc[g] = "finishing" /\ UNCHANGED <<owner, held>>
      BY <2>5 DEF EndNext, EndOpen, EndAgain, LeaveLock, lockVars
    <3>2. \/ pc' = [pc EXCEPT ![g] = "filter"]
          \/ pc' = [pc EXCEPT ![g] = After(Front(rest[g]))]
      BY <2>5 DEF EndNext, EndOpen, EndAgain
    <3> QED
      BY <1>0, <1>2, <1>4, <3>1, <3>2, AfterIs DEF Positions
  <2> QED
    BY <1>6, <2>1, <2>2, <2>3, <2>4, <2>5 DEF Continue
<1>7. ASSUME NEW g \in Cloners, StartClone(g) \/ Clone(g) PROVE Holding'
  <2>1. CASE StartClone(g)
    BY <1>0, <1>3, <2>1 DEF StartClone, At
  <2>2. CASE CopySpan(g)
    BY <1>1, <2>2 DEF CopySpan, lockVars
  <2>3. CASE EndClone(g)
    BY <1>0, <1>2, <1>4, <2>3 DEF EndClone, At, Positions
  <2>4. CASE DropClone(g)
    BY <1>0, <1>2, <1>4, <2>4 DEF DropClone, At, lockVars, Positions
  <2> QED
    BY <1>7, <2>1, <2>2, <2>3, <2>4 DEF Clone
<1>8. CASE UNCHANGED vars
  BY <1>1, <1>8 DEF vars, lockVars, callVars
<1> QED
  BY <1>5, <1>6, <1>7, <1>8 DEF Next

(* The locks a call under way needs for its next section are free, or it   *)
(* holds them: what the guards of Continue and Clone ask for.              *)
MayGoOn(g) ==
  \/ pc[g] \in {"filter", "blame"} /\ Free
  \/ pc[g] = "append"
  \/ pc[g] = "current" /\ IF arg[g] = None THEN Free ELSE SpanFree(arg[g])
  \/ pc[g] = "finishing" /\ SpanFree(Last(rest[g]))
  \/ pc[g] = "copying" /\ (rest[g] # << >> => SpanFree(Head(rest[g])))
  \/ pc[g] = "copied"

LEMMA GuardsAsk == \A g \in Goroutines : Continue(g) \/ Clone(g) => MayGoOn(g)
BY DEF Continue, FilterDebugSpan, Blame, Fail, LogOnOpen, ErrorOnSpan, SpanError, ErrorOnTrace,
   EndNext, EndOpen, EndAgain, Clone, CopySpan, EndClone, DropClone, At, MayGoOn

SomeoneGoesOn ==
  (\E g \in Goroutines : pc[g] # "idle") => \E g \in Goroutines : MayGoOn(g)

(* While a call is under way, one of the calls under way waits for no      *)
(* lock, for any number of goroutines and spans (span.go:70-75): what      *)
(* NoDeadlock says, with the guards of the steps in ENABLED's place.       *)
THEOREM NobodyWaitsForEver == Spec => []SomeoneGoesOn
<1>1. Base /\ Holding => SomeoneGoesOn
  <2> SUFFICES ASSUME Base, Holding, NEW g \in Goroutines, pc[g] # "idle"
               PROVE  \E h \in Goroutines : MayGoOn(h)
    BY DEF SomeoneGoesOn
  <2>1. \A i \in Ids : SpanFree(i)
    BY DEF Holding, SpanFree
  <2>2. GoodCall(g) /\ pc[g] \in Positions /\ rest[g] \in Seq(Ids) /\ arg[g] \in Ids \cup {None}
    BY DEF Base, TypeOK, CallTypes, Pointers, CallPointers
  <2>3. ASSUME NEW h \in Goroutines, pc[h] \in {"append", "copying"} PROVE MayGoOn(h)
    <3>1. rest[h] # << >> => Head(rest[h]) \in Ids
      BY DEF Base, TypeOK, CallTypes
    <3> QED
      BY <2>1, <2>3, <3>1 DEF MayGoOn
  <2>4. CASE owner # None
    BY <2>3, <2>4 DEF Holding
  <2>5. CASE owner = None
    <3>1. CASE pc[g] = "finishing"
      <4>1. rest[g] # << >>
        BY <2>2, <3>1 DEF GoodCall
      <4>2. Last(rest[g]) \in Ids
        BY <2>2, <4>1 DEF Last
      <4> QED
        BY <2>1, <3>1, <4>2 DEF MayGoOn
    <3>2. CASE pc[g] # "finishing"
      <4>1. pc[g] \in {"filter", "blame", "append", "current", "copying", "copied"}
        BY <2>2, <3>2 DEF Positions
      <4> QED
        BY <2>1, <2>2, <2>3, <2>5, <4>1 DEF MayGoOn, Free
    <3> QED
      BY <3>1, <3>2
  <2> QED
    BY <2>4, <2>5
<1>2. Init => Base /\ Holding
  BY InitBase DEF Init, Holding, Goroutines
<1>3. Base /\ Holding /\ [Next]_vars => (Base /\ Holding)'
  BY StepBase, StepHolding
<1> QED
  BY <1>1, <1>2, <1>3, PTL DEF Spec

(* Every value stays in its type: a span ID, a lock holder, a clone. *)
THEOREM RecordingType == Spec => []TypeOK
BY InitBase, StepBase, PTL DEF Spec, Base
=============================================================================
