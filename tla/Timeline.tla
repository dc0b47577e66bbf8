------------------------------ MODULE Timeline ------------------------------
(***************************************************************************)
(* What the detail page of one trace draws from its spans: the timeline of *)
(* innermost spans and its totals by kind, the depth first rows, the waves *)
(* and the graph of the memory readings (frontend/view/timeline.go,        *)
(* memory.go, model.go, page.go).                                          *)
(*                                                                         *)
(* Times are numbers from the start of the trace. A share of the trace is  *)
(* kept as the time it is a share of, so Length stands for a hundred per   *)
(* cent. Readings are bytes, with none below zero for a span without one.  *)
(***************************************************************************)
EXTENDS Integers, Sequences, FiniteSets, Functions, Retention

CONSTANTS
  Shapes,    \* [start, duration, memory] of the spans a trace may have
  SpanKinds,
  Length,    \* duration of the trace
  Limits,    \* memory limits a trace may report, negative for none
  MaxSpans   \* bound: spans of the trace

(* A parent that is not among the spans: dropped by the span limit.        *)
Lost == -1

NoReading == -1

ASSUME TimelineAssumption ==
  /\ Shapes \subseteq [start : Int, duration : Nat, memory : Nat \cup {NoReading}]
  /\ Limits \subseteq Int /\ Length \in Nat /\ MaxSpans \in Nat

VARIABLES
  spans, limit,
  shown,     \* whether the detail page was opened
  segments, rows, points   \* what it shows

timelineVars == <<spans, limit, shown, segments, rows, points>>

ParentDepth(parent) == IF parent \in DOMAIN spans THEN spans[parent].depth ELSE 0

TimelineInit ==
  /\ spans = <<>> /\ limit \in Limits
  /\ shown = FALSE /\ segments = <<>> /\ rows = <<>> /\ points = <<>>

(* A span of the finished trace. It may end after the trace, which Finish  *)
(* closes it past, and in a trace read back from disk after the clock was  *)
(* set back it may start before it.                                        *)
AddSpan(kind, parent, shape) ==
  /\ ~shown /\ Len(spans) < MaxSpans
  /\ spans' = Append(spans,
       [kind |-> kind, parent |-> parent, start |-> shape.start,
        duration |-> shape.duration, memory |-> shape.memory,
        depth |-> IF parent = 0 THEN 0 ELSE ParentDepth(parent) + 1])
  /\ UNCHANGED <<limit, shown, segments, rows, points>>

-----------------------------------------------------------------------------
(* The timeline.                                                           *)

End(i) == spans[i].start + spans[i].duration
From(i) == IF spans[i].start < 0 THEN 0 ELSE spans[i].start
To(i) == IF End(i) > Length THEN Length ELSE End(i)

Intervals ==
  {i \in DOMAIN spans :
     /\ spans[i].duration > 0
     /\ ~(spans[i].kind = "http" /\ spans[i].depth = 0)
     /\ From(i) < To(i)}

(* Sorted and compacted: a number's place is the count of those below it.  *)
Ascending(S) ==
  LET Place(a) == Cardinality({b \in S : b < a}) + 1
  IN [n \in 1..Cardinality(S) |-> CHOOSE a \in S : Place(a) = n]

Boundaries == Ascending({From(i) : i \in Intervals} \cup {To(i) : i \in Intervals})

ActiveAt(start) == {i \in Intervals : From(i) <= start /\ start < To(i)}

(* Deeper first, then the later started, then the earlier recorded.        *)
Inner(i, j) ==
  \/ spans[i].depth > spans[j].depth
  \/ spans[i].depth = spans[j].depth /\
     (From(i) > From(j) \/ (From(i) = From(j) /\ i <= j))

Innermost(S) == CHOOSE i \in S : \A j \in S : Inner(i, j)

Extend(drawn, next) ==
  LET last == drawn[Len(drawn)] IN
  IF /\ drawn # <<>>
     /\ last.kind = next.kind /\ last.offset + last.duration = next.offset
  THEN [drawn EXCEPT ![Len(drawn)].duration = @ + next.duration]
  ELSE Append(drawn, next)

Piece(edges, n) ==
  [kind |-> spans[Innermost(ActiveAt(edges[n]))].kind,
   offset |-> edges[n], duration |-> edges[n + 1] - edges[n]]

Timeline ==
  LET edges == Boundaries
      Drawn[n \in 0..(Len(edges) - 1)] ==
        IF n = 0 THEN <<>>
        ELSE IF ActiveAt(edges[n]) = {} THEN Drawn[n - 1]
        ELSE Extend(Drawn[n - 1], Piece(edges, n))
  IN IF Length <= 0 \/ Intervals = {} THEN <<>> ELSE Drawn[Len(edges) - 1]

(* Page.KindShares: the largest share first, ties in order of occurrence.  *)
KindTotal(kind) ==
  SumFunction([n \in {m \in DOMAIN segments : segments[m].kind = kind} |->
                 segments[n].duration])

FirstOfKind ==
  {n \in DOMAIN segments : \A m \in 1..(n - 1) : segments[m].kind # segments[n].kind}

KindShares ==
  LET order == Sifted([n \in DOMAIN segments |-> n], FirstOfKind)
      Kind(k) == segments[order[k]].kind
  IN StableSort([k \in DOMAIN order |-> [kind |-> Kind(k), duration |-> KindTotal(Kind(k))]],
                LAMBDA a, b : a.duration > b.duration)

-----------------------------------------------------------------------------
(* The rows: the numbers of the spans, depth first, then those whose       *)
(* parent is lost. A parent is recorded before its children.               *)

Children(walk, p) ==
  LET Siblings[i \in p..Len(spans)] ==
        IF i = p THEN <<>>
        ELSE IF spans[i].parent # p THEN Siblings[i - 1]
        ELSE Siblings[i - 1] \o <<i>> \o walk[i]
  IN Siblings[Len(spans)]

Walked ==
  LET Walk[p \in 0..Len(spans)] == Children(Walk, p) IN Walk[0]

SpanRows ==
  LET walked == Walked IN
  walked \o Sifted([i \in DOMAIN spans |-> i], DOMAIN spans \ Range(walked))

(* The drawing of the stack: every span whole, the request's own included. *)
Waves ==
  {[span |-> rows[n], start |-> spans[rows[n]].start, end |-> To(rows[n]),
    depth |-> spans[rows[n]].depth] :
     n \in {m \in DOMAIN rows : spans[rows[m]].duration > 0}}

-----------------------------------------------------------------------------
(* The memory graph.                                                       *)

Readings == {i \in DOMAIN spans : spans[i].memory # NoReading}

Peak ==
  LET found == {0} \cup {spans[i].memory : i \in Readings}
  IN CHOOSE peak \in found : \A bytes \in found : bytes <= peak

Limited == Peak > 0 /\ limit > 0 /\ limit <= 2 * Peak

Ceiling == IF Limited /\ limit > Peak THEN limit ELSE Peak

(* Ordered by when the spans ended. Mutant: by when they started. *)
TakenStart(i) == spans[i].start

Taken(i) == End(i)

(* Those taken together keep the order of their rows. *)
MemorySeries(drawn) ==
  LET read == Sifted(drawn, Readings)
      order == StableSort(read, LAMBDA i, j : Taken(i) < Taken(j))
  IN IF Peak <= 0 THEN <<>>
     ELSE [n \in DOMAIN order |-> [x |-> To(order[n]), bytes |-> spans[order[n]].memory]]

(* serveDetail. *)
Show ==
  /\ ~shown
  /\ shown' = TRUE
  /\ segments' = Timeline
  /\ rows' = SpanRows
  /\ points' = MemorySeries(SpanRows)
  /\ UNCHANGED <<spans, limit>>

TimelineNext ==
  \/ \E kind \in SpanKinds, parent \in {0, Lost} \cup DOMAIN spans, shape \in Shapes :
       AddSpan(kind, parent, shape)
  \/ Show

TimelineSpec == TimelineInit /\ [][TimelineNext]_timelineVars

Clamped(x) == IF x < 0 THEN 0 ELSE IF x > Length THEN Length ELSE x

HitX(n) == IF n = 1 THEN 0 ELSE Clamped(points[n - 1].x)

HitWidth(n) ==
  LET from == IF n = 1 THEN 0 ELSE points[n - 1].x
      to   == IF n = Len(points) THEN Length ELSE points[n].x
  IN Clamped(to - from)

(* MemorySeries.at: the readings up to the first one right of it.          *)
LevelAt(x) ==
  LET beyond == {n \in DOMAIN points : points[n].x > x}
      n == IF beyond = {} THEN Len(points)
           ELSE (CHOOSE m \in beyond : \A k \in beyond : m <= k) - 1
  IN IF points = <<>> THEN 0 ELSE points[IF n = 0 THEN 1 ELSE n].bytes

(* The plot, with a hover target for each reading, and its legend.         *)
Graph ==
  [hits |-> [n \in DOMAIN points |-> [x |-> HitX(n), width |-> HitWidth(n)]],
   limit |-> IF Limited THEN limit ELSE NoReading,
   start |-> LevelAt(0), middle |-> LevelAt(Length \div 2), end |-> LevelAt(Length)]

-----------------------------------------------------------------------------
Running(x) ==
  {i \in DOMAIN spans :
     /\ spans[i].start <= x /\ x < End(i)
     /\ ~(spans[i].kind = "http" /\ spans[i].depth = 0)}

Segments(x) ==
  {n \in DOMAIN segments :
     segments[n].offset <= x /\ x < segments[n].offset + segments[n].duration}

(* Each moment of the trace lies in one segment when a span other than the *)
(* request's own runs, and in none otherwise; the segment has the kind of  *)
(* a span as deep as any that runs, and of those of one that started last; *)
(* neighbours of one kind are one segment; the totals by kind add up to    *)
(* the time something ran; the stack drawn above them has every span that  *)
(* runs then, and nothing else (timeline.go:10-13, page.go:425-465).       *)
MomentsAttributed ==
  /\ \A x \in 0..(Length - 1) :
       /\ Cardinality(Segments(x)) = (IF Running(x) = {} THEN 0 ELSE 1)
       /\ {w.span : w \in {v \in Waves : v.start <= x /\ x < v.end}}
            = {i \in DOMAIN spans : spans[i].start <= x /\ x < End(i)}
       /\ \A n \in Segments(x) : \E i \in Running(x) :
            /\ segments[n].kind = spans[i].kind
            /\ \A j \in Running(x) :
                 /\ spans[j].depth <= spans[i].depth
                 /\ spans[j].depth = spans[i].depth => From(j) <= From(i)
  /\ \A n \in 1..(Len(segments) - 1) :
       LET next == segments[n + 1] stop == segments[n].offset + segments[n].duration IN
       stop < next.offset \/ (stop = next.offset /\ segments[n].kind # next.kind)
  /\ SumFunction([n \in DOMAIN KindShares |-> KindShares[n].duration])
       = Cardinality({x \in 0..(Length - 1) : Running(x) # {}})
  /\ \A n \in 1..(Len(KindShares) - 1) : KindShares[n].duration >= KindShares[n + 1].duration

(* Not below a lost parent. *)
Rooted[i \in DOMAIN spans] ==
  spans[i].parent = 0 \/ (spans[i].parent # Lost /\ Rooted[spans[i].parent])

(* Every span has one row, those with a lost parent too, after the row of  *)
(* its parent and of its elder siblings; between a span and the end of its *)
(* subtree stands nothing else (timeline.go:100-165).                      *)
RowsComplete ==
  /\ Len(rows) = Len(spans) /\ Range(rows) = DOMAIN spans
  /\ \A m, n \in DOMAIN rows :
       LET i == rows[m] j == rows[n] IN
       /\ spans[j].parent = i => m < n
       /\ spans[i].parent = spans[j].parent /\ i < j => m < n
       /\ spans[j].parent = i /\ Rooted[i] =>
            \A k \in (m + 1)..n : spans[rows[k]].depth > spans[i].depth

(* The readings are in the order they were taken and fit under the ceiling *)
(* with the limit that is drawn; without one before the trace starts, the  *)
(* hover targets tile the width; the level anywhere is the newest reading  *)
(* by then (memory.go:55-169).                                             *)
ReadingsPlaced ==
  /\ \A n \in 1..(Len(points) - 1) : points[n].x <= points[n + 1].x
  /\ \A n \in DOMAIN points : points[n].bytes <= Ceiling
  /\ Graph.limit <= Ceiling
  /\ points # <<>> /\ (\A n \in DOMAIN points : points[n].x >= 0) =>
       /\ \A n \in DOMAIN points :
            LET hit == Graph.hits[n] IN
            hit.x + hit.width = (IF n = Len(points) THEN Length ELSE Graph.hits[n + 1].x)
       /\ \A x \in 0..Length :
            LET By == {i \in Readings : To(i) <= x} IN
            By # {} => \E i \in By :
              spans[i].memory = LevelAt(x) /\ \A j \in By : End(j) <= End(i)
       /\ Graph.end = points[Len(points)].bytes /\ Graph.start \in {p.bytes : p \in Range(points)}

(* The three together are what the page of any trace shows. *)
TimelineHolds ==
  shown => MomentsAttributed /\ RowsComplete /\ ReadingsPlaced
=============================================================================
