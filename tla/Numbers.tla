------------------------------ MODULE Numbers ------------------------------
(***************************************************************************)
(* The fixed width arithmetic behind what is recorded and shown: numeric   *)
(* attributes, counter deltas of a trace, the pool estimate, the memory    *)
(* limit, sizes as text and the sampling period (model/attributes.go,      *)
(* model/trace.go:565-617, tracer.go:369-382, internal/memory_limit.go,    *)
(* internal/rate_sampler.go, frontend/view/funcs.go:150-173).              *)
(*                                                                         *)
(* Width stands for 64 bits and Narrow for 32; UnitBits for the ten bits   *)
(* of a binary unit.                                                       *)
(***************************************************************************)
EXTENDS Integers, FiniteSets

CONSTANTS
  Width, Narrow, UnitBits,
  NaN,
  Rates,      \* sampling rates, in per cent
  Questions   \* what is computed, see QuestionType

Unit == 2^UnitBits

(* The letters of the units, "KMGTPE" of 64 bits. *)
Letters == (Width - 1) \div UnitBits

VARIABLES
  question, \* what is computed
  rate,
  counter,  \* calls of the sampler, in its width
  gap,      \* ghost: calls since the last one that was sampled
  wrapped   \* ghost: whether the counter started over

numbersVars == <<question, rate, counter, gap, wrapped>>

MaxUint == 2^Width - 1
MaxInt  == 2^(Width - 1) - 1
MinInt  == -2^(Width - 1)

(* What may be asked: an attribute as it was recorded, a counter at both   *)
(* ends of a trace, the samples and the bounds of the pool, the limits in  *)
(* force, a size.                                                          *)
QuestionType ==
  [what : {"attribute"}, type : {"signed"}, n : MinInt..MaxInt]
  \cup [what : {"attribute"}, type : {"narrow"}, n : 0..(2^Narrow - 1)]
  \cup [what : {"attribute"}, type : {"unsigned"}, n : 0..MaxUint]
  \cup [what : {"attribute"}, type : {"float"}, n : Int \cup {NaN}]
  \cup [what : {"attribute"}, type : {"decimal", "other"}, n : Int]
  \cup [what : {"delta"}, after : 0..MaxUint, before : 0..MaxUint]
  \cup [what : {"pool"}, samples : 0..MaxUint, allocated : 0..MaxUint,
         from : 0..MaxUint, to : 0..MaxUint]
  \cup [what : {"limit"}, runtime : 0..MaxInt, groups : SUBSET (0..MaxUint),
         machine : SUBSET Nat]
  \cup [what : {"size"}, n : MinInt..MaxInt]

ASSUME NumbersAssumption ==
  /\ Narrow \in Nat \ {0} /\ Width \in Nat /\ Narrow < Width
  /\ UnitBits \in 1..Width
  /\ NaN \notin Int
  /\ Rates \subseteq Int /\ Questions \subseteq QuestionType

(* The powers of these widths, which follow from the above and which the   *)
(* provers do not compute.                                                 *)
ASSUME PowersAssumption ==
  /\ {2^Width, 2^(Width - 1), 2^Narrow, Unit} \subseteq Nat \ {0}
  /\ 2^Width = 2 * 2^(Width - 1)
  /\ 2^Narrow <= 2^(Width - 1)
  /\ Unit > 1 /\ Unit^0 = 1
  /\ \A k \in 0..Letters : Unit^k \in Nat \ {0} /\ Unit^(k + 1) = Unit * Unit^k
  /\ 2^(Width - 1) < Unit^(Letters + 1)

(* What a result comes to in its width. *)
Uint(n) == n % 2^Width
Signed(n) == LET u == Uint(n) IN IF u > MaxInt THEN u - 2^Width ELSE u

-----------------------------------------------------------------------------
(* Attributes.                                                             *)

ClampUint(v) == IF v > MaxInt THEN MaxInt ELSE Signed(v)

(* MaxInt64 is no float: it is compared as the power of two above it.      *)
ClampFloat(v) ==
  IF v = NaN THEN 0
  ELSE IF v >= MaxInt + 1 THEN MaxInt
  ELSE IF v <= MinInt THEN MinInt
  ELSE Signed(v)

(* Int64: [n, ok]. A type is how the value was recorded. *)
Int64(type, v) ==
  CASE type = "signed"   -> [n |-> v, ok |-> TRUE]
    [] type = "narrow"   -> [n |-> Signed(v), ok |-> TRUE]
    [] type = "unsigned" -> [n |-> ClampUint(v), ok |-> TRUE]
    [] type = "float"    -> [n |-> ClampFloat(v), ok |-> TRUE]
    [] type = "decimal"  ->
         [n |-> IF v > MaxInt THEN MaxInt ELSE IF v < MinInt THEN MinInt ELSE v,
          ok |-> v \in MinInt..MaxInt]
    [] OTHER             -> [n |-> 0, ok |-> FALSE]

-----------------------------------------------------------------------------
(* Deltas.                                                                 *)

Delta(after, before) == IF after < before THEN 0 ELSE Uint(after - before)

(* Mutant: converted without a look at its size. *)
SignedDeltaWraps(after, before) == Signed(after - before)

SignedDelta(after, before) ==
  IF after >= before
  THEN IF after - before > MaxInt THEN MaxInt ELSE after - before
  ELSE IF before - after > MaxInt THEN MinInt ELSE -(before - after)

(* RecordMemory, of one counter in each of its readings. *)
MemoryUse(after, before) ==
  [heap |-> SignedDelta(after, before), allocated |-> Delta(after, before),
   cycles |-> Delta(after, before) % 2^Narrow, pause |-> Signed(Delta(after, before))]

-----------------------------------------------------------------------------
(* The pool estimate and the memory limit.                                 *)

PoolEstimate(samples, allocated, from, to) ==
  LET average == IF samples > 0 THEN allocated \div samples ELSE 0 IN
  [average |-> average,
   fits |-> IF average > 0 /\ to > from THEN Uint(to - from) \div average ELSE 0]

(* Limits known: of the runtime, where it is set, of two files of the      *)
(* control group, where they hold a number, and of the machine.            *)
KnownLimits(runtime, groups, machine) ==
  {l \in {runtime} : l > 0 /\ l # MaxInt} \cup {l \in groups : l > 0}
    \cup {Uint(k * 2^UnitBits) : k \in machine}

MemoryLimit(runtime, groups, machine) ==
  LET known == KnownLimits(runtime, groups, machine) IN
  IF known = {} THEN 0 ELSE CHOOSE l \in known : \A m \in known : l <= m

-----------------------------------------------------------------------------
(* Sizes as text: how many units up and the divisor.                       *)

Scale(n) ==
  LET Climb[v \in 0..MaxUint] ==
        IF v >= Unit THEN [div |-> Climb[v \div Unit].div * Unit,
                           exp |-> Climb[v \div Unit].exp + 1]
        ELSE [div |-> Unit, exp |-> 0]
  IN IF n < Unit THEN [div |-> 1, exp |-> -1]
     ELSE [div |-> Uint(Climb[n \div Unit].div), exp |-> Climb[n \div Unit].exp]

(* The size signedBytesText shows, after its sign. *)
Magnitude(n) ==
  IF n < 0 THEN (IF n = MinInt THEN 2^(Width - 1) ELSE Uint(Signed(-n))) ELSE Uint(n)

-----------------------------------------------------------------------------
(* The rate sampler.                                                       *)

(* 100/rate rounded to the nearest. *)
Every(r) ==
  IF r >= 100 THEN 1
  ELSE IF r <= 0 THEN 0
  ELSE LET n == (200 + r) \div (2 * r) IN IF n < 1 THEN 1 ELSE n

Samples(n) == Every(rate) = 1 \/ (Every(rate) > 1 /\ n % Every(rate) = 0)

NumbersInit ==
  /\ question = [what |-> "none"]
  /\ rate \in Rates
  /\ counter = 0 /\ gap = 0 /\ wrapped = FALSE

Ask(q) ==
  /\ question.what = "none" /\ counter = 0
  /\ question' = q
  /\ UNCHANGED <<rate, counter, gap, wrapped>>

(* One request, whatever it is and wherever it runs: the counter is atomic *)
(* and counts only where the period is more than one.                      *)
Sample ==
  /\ question.what = "none" /\ ~wrapped
  /\ LET n == IF Every(rate) > 1 THEN Uint(counter + 1) ELSE counter IN
     /\ counter' = n
     /\ wrapped' = (Every(rate) > 1 /\ n = 0)
     /\ gap' = IF Samples(n) \/ Every(rate) = 0 THEN 0 ELSE gap + 1
  /\ UNCHANGED <<question, rate>>

NumbersNext == (\E q \in Questions : Ask(q)) \/ Sample

NumbersSpec == NumbersInit /\ [][NumbersNext]_numbersVars

-----------------------------------------------------------------------------
Nearest(n) == IF n > MaxInt THEN MaxInt ELSE IF n < MinInt THEN MinInt ELSE n

(* An attribute reads as the number it is, or the nearest one of its       *)
(* width, but for a decimal that does not fit, which is no number          *)
(* (attributes.go:32-90).                                                  *)
AttributeReads(q) ==
  LET read == Int64(q.type, q.n) IN
  /\ q.type \in {"signed", "narrow", "unsigned", "float"} =>
       read = [n |-> IF q.n = NaN THEN 0 ELSE Nearest(q.n), ok |-> TRUE]
  /\ q.type = "decimal" => read.ok = (q.n = Nearest(q.n)) /\ (read.ok => read.n = q.n)

(* A delta is the difference or the nearest number to it: a heap that      *)
(* shrank is negative, a counter that went back counts for nothing, and    *)
(* what fits the narrow width is kept (trace.go:594-617).                  *)
DeltaIsNearest(q) ==
  LET use == MemoryUse(q.after, q.before) IN
  /\ use.heap = Nearest(q.after - q.before)
  /\ q.after >= q.before => use.allocated = q.after - q.before
  /\ q.after < q.before => use.allocated = 0 /\ use.pause = 0
  /\ q.after - q.before \in 0..(2^Narrow - 1) => use.cycles = use.allocated
  /\ q.after - q.before <= MaxInt => use.pause >= 0

(* So many traces of the average size fit what is left, and not one more.  *)
EstimateFits(q) ==
  LET pool == PoolEstimate(q.samples, q.allocated, q.from, q.to)
      left == IF q.to > q.from THEN q.to - q.from ELSE 0
  IN pool.average > 0 =>
       pool.fits * pool.average <= left /\ left < (pool.fits + 1) * pool.average

(* The limit is one of those in force and no more than any other           *)
(* (memory_limit.go:12-46); of the machine's only while it fits the width. *)
LimitIsSmallest(q) ==
  LET limit == MemoryLimit(q.runtime, q.groups, q.machine) IN
  /\ \A l \in q.groups : l > 0 => limit <= l
  /\ q.runtime > 0 /\ q.runtime < MaxInt => limit <= q.runtime
  /\ \A k \in q.machine : k * Unit <= MaxUint => limit <= k * Unit
  /\ limit > 0 => limit \in KnownLimits(q.runtime, q.groups, q.machine)

(* A size is shown in the largest unit it fills, one there is a letter for *)
(* and whose divisor did not overflow, with its magnitude also for the one *)
(* number without a negative (funcs.go:150-173).                           *)
SizeShown(q) ==
  LET scale == Scale(Magnitude(q.n)) IN
  /\ Magnitude(q.n) = IF q.n < 0 THEN -q.n ELSE q.n
  /\ scale.exp < Letters
  /\ Magnitude(q.n) < Unit * scale.div
  /\ Magnitude(q.n) >= Unit => scale.div <= Magnitude(q.n) /\ scale.div = Unit^(scale.exp + 1)

(* Of any Every(rate) requests in a row one is traced, whenever the count  *)
(* starts over, and until it does no two are closer; at a rate of a        *)
(* hundred or more every request is, at none none (rate_sampler.go:10-48). *)
PeriodHolds ==
  /\ Every(rate) > 0 => gap < Every(rate)
  /\ ~wrapped /\ Every(rate) > 1 => gap = counter % Every(rate)
  /\ Every(rate) = 0 <=> rate <= 0
  /\ rate >= 100 => gap = 0

(* What is recorded, counted and shown.                                    *)
NumbersHold ==
  /\ question.what = "attribute" => AttributeReads(question)
  /\ question.what = "delta" => DeltaIsNearest(question)
  /\ question.what = "pool" => EstimateFits(question)
  /\ question.what = "limit" => LimitIsSmallest(question)
  /\ question.what = "size" => SizeShown(question)
  /\ PeriodHolds
=============================================================================
