---------------------------- MODULE TracerProofs ----------------------------
(***************************************************************************)
(* Proofs about Tracer for any number of units, readers and IDs, any       *)
(* retention limit and any number of resets; and, at the end, about the    *)
(* streams of LiveStream that read it.                                     *)
(***************************************************************************)
EXTENDS LiveStream, DataProofs

USE TracerAssumption

-----------------------------------------------------------------------------
(* Type correctness, one group of variables at a time.                     *)

LEMMA TypeInit == Init => TypeOK
<1> SUFFICES ASSUME Init PROVE TypeOK
  OBVIOUS
<1>1. \A w \in Work : w \in Ids
  BY DEF Ids
<1>2. EmptyView \in View
  BY DEF EmptyView, View
<1>3. TracerTypeOK /\ ResetTypeOK
  BY DEF Init, TracerTypeOK, ResetTypeOK
<1>4. UnitTypeOK
  BY <1>1 DEF Init, UnitTypeOK, Positions
<1>5. ReaderTypeOK
  BY <1>2 DEF Init, ReaderTypeOK
<1> QED
  BY <1>3, <1>4, <1>5 DEF TypeOK

(* What a step leaves alone keeps its type. *)
LEMMA TypeUnchanged ==
  /\ TracerTypeOK /\ UNCHANGED tracerVars => TracerTypeOK'
  /\ UnitTypeOK /\ UNCHANGED unitVars => UnitTypeOK'
  /\ ReaderTypeOK /\ UNCHANGED readerVars => ReaderTypeOK'
  /\ ResetTypeOK /\ UNCHANGED resetVars => ResetTypeOK'
<1>1. TracerTypeOK /\ UNCHANGED tracerVars => TracerTypeOK'
  BY DEF TracerTypeOK, tracerVars, counterVars
<1>2. UnitTypeOK /\ UNCHANGED unitVars => UnitTypeOK'
  BY DEF UnitTypeOK, unitVars, traceVars
<1>3. ReaderTypeOK /\ UNCHANGED readerVars => ReaderTypeOK'
  BY DEF ReaderTypeOK, readerVars
<1>4. ResetTypeOK /\ UNCHANGED resetVars => ResetTypeOK'
  BY DEF ResetTypeOK, resetVars
<1> QED
  BY <1>1, <1>2, <1>3, <1>4

LEMMA UnitTypeStep ==
  ASSUME TypeOK, NEW w \in Work, Unit(w)
  PROVE  UnitTypeOK' /\ UNCHANGED <<readerVars, resetVars>>
<1> USE DEF TypeOK, UnitTypeOK, At, Positions
<1>1. CASE PassThrough(w) \/ Admit(w) \/ CountUnsampled(w) \/ NotifyBegun(w)
  BY <1>1 DEF PassThrough, Admit, CountUnsampled, NotifyBegun, traceVars
<1>2. CASE Begin(w)
  BY <1>2 DEF Begin, IdChoices, Ids, Work
<1>3. CASE RecordError(w)
  BY <1>3 DEF RecordError
<1>4. CASE EndWork(w)
  <2> PICK e \in {"ok", "failed"} :
         /\ ended' = [ended EXCEPT ![w] = e]
         /\ err' = [err EXCEPT ![w] = ErrAfter(w, e)]
    BY <1>4 DEF EndWork
  <2>1. ErrAfter(w, e) \in BOOLEAN
    BY DEF ErrAfter
  <2> QED
    BY <1>4, <2>1 DEF EndWork
<1>5. CASE Judge(w)
  BY <1>5 DEF Judge
<1>6. CASE Settle(w)
  BY <1>6 DEF Settle
<1>7. CASE Save(w) \/ NotifyFinished(w) \/ Release(w) \/ Collect(w)
  BY <1>7 DEF Save, NotifyFinished, Release, Collect, traceVars
<1> QED
  BY <1>1, <1>2, <1>3, <1>4, <1>5, <1>6, <1>7 DEF Unit, Progress

LEMMA UnitTracerTypeStep ==
  ASSUME TypeOK, NEW w \in Work, Unit(w)
  PROVE  TracerTypeOK'
<1> USE DEF TypeOK, TracerTypeOK
<1>1. CASE PassThrough(w) \/ Admit(w) \/ RecordError(w) \/ EndWork(w)
           \/ Judge(w) \/ Release(w) \/ Collect(w)
  BY <1>1, TypeUnchanged
  DEF PassThrough, Admit, RecordError, EndWork, Judge, Release, Collect
<1>2. CASE CountUnsampled(w)
  BY <1>2 DEF CountUnsampled
<1>3. CASE Begin(w)
  BY <1>3 DEF Begin, Register, IdChoices, HostChoices, AllHosts, Ids, Work
<1>4. CASE NotifyBegun(w) \/ NotifyFinished(w)
  BY <1>4 DEF NotifyBegun, NotifyFinished, NotifyAll, counterVars
<1>5. CASE Settle(w)
  BY <1>5 DEF Settle, Unregister, UnitTypeOK
<1>6. CASE Save(w)
  <2>1. Clone(w) \in Entry
    BY DEF Clone, Entry, UnitTypeOK
  <2>2. Saved(log, Clone(w), Cap) \in Seq(Entry)
    BY <2>1, SavedEntries
  <2>3. Len(Saved(log, Clone(w), Cap)) = Smaller(Len(log) + 1, Cap)
    BY <2>1, SavedEntries
  <2>4. Smaller(Len(log) + 1, Cap) <= Cap
    BY DEF Smaller
  <2>5. log' \in Seq(Entry) /\ Len(log') <= Cap
    BY <1>6, <2>2, <2>3, <2>4 DEF Save, Retain
  <2> QED
    BY <1>6, <2>5 DEF Save, counterVars
<1> QED
  BY <1>1, <1>2, <1>3, <1>4, <1>5, <1>6 DEF Unit, Progress

LEMMA ReaderTypeStep ==
  ASSUME TypeOK, NEW r \in Readers, Reader(r)
  PROVE  ReaderTypeOK' /\ UNCHANGED <<tracerVars, unitVars, resetVars>>
<1> USE DEF TypeOK, ReaderTypeOK
<1>1. ASSUME NEW o \in {"Snapshot", "Live"}, StartRead(r, o)
      PROVE  ReaderTypeOK'
  <2> DEFINE v == [total |-> total, sampled |-> sampled,
                   unsampled |-> unsampled, failed |-> failed,
                   timed |-> timed, live |-> {}, log |-> << >>]
  <2>1. v \in View
    BY DEF View, TracerTypeOK
  <2>2. view' \in [Readers -> View]
    BY <1>1, <2>1 DEF StartRead
  <2>3. Registered \subseteq Work
    BY DEF Registered, TracerTypeOK
  <2> QED
    BY <1>1, <2>2, <2>3 DEF StartRead
<1>2. ASSUME NEW i \in Ids, LookupStored(r, i)
      PROVE  ReaderTypeOK'
  <2> PICK hit \in {IdInLog(i)} \cup (IF StorageMayFail THEN {FALSE} ELSE {}) :
         /\ rpc' = [rpc EXCEPT ![r] = IF hit THEN "done" ELSE "missed"]
         /\ found' = [found EXCEPT ![r] = hit]
    BY <1>2 DEF LookupStored
  <2>1. hit \in BOOLEAN
    BY DEF IdInLog
  <2>2. active[i] \in Work \cup {NoTrace}
    BY DEF TracerTypeOK
  <2> QED
    BY <1>2, <2>1, <2>2 DEF LookupStored
<1>3. CASE LookupActive(r)
  BY <1>3 DEF LookupActive, InFlight, TracerTypeOK
<1>4. ASSUME NEW w \in Work, CloneOne(r, w)
      PROVE  ReaderTypeOK'
  <2>1. Clone(w) \in Entry
    BY DEF Clone, Entry, UnitTypeOK
  <2>2. PICK v \in View : v = view[r]
    OBVIOUS
  <2> DEFINE t == IF op[r] = "Snapshot" THEN [v.timed EXCEPT ![w] = @ + 1]
                  ELSE v.timed
  <2>3. v.timed \in [Work -> Nat] /\ v.live \cup {Clone(w)} \in SUBSET Entry
    BY <2>1 DEF View
  <2>4. t \in [Work -> Nat]
    BY <2>3
  <2>5. WithClone(v, w, op[r]) = [v EXCEPT !.live = v.live \cup {Clone(w)},
                                          !.timed = t]
    BY SMTT(30) DEF WithClone, View
  <2> HIDE DEF t
  <2>6. WithClone(v, w, op[r]) \in View
    BY <2>3, <2>4, <2>5 DEF View
  <2>7. view' = [view EXCEPT ![r] = WithClone(v, w, op[r])]
    BY <1>4, <2>2 DEF CloneOne
  <2> QED
    BY <1>4, <2>6, <2>7 DEF CloneOne
<1>5. CASE Unlock(r)
  BY <1>5 DEF Unlock
<1>6. CASE ListLog(r)
  <2>1. PICK v \in View : v = view[r]
    OBVIOUS
  <2>2. [v EXCEPT !.log = log] \in View
    BY DEF View, TracerTypeOK
  <2>3. \/ view' = [view EXCEPT ![r] = [v EXCEPT !.log = log]]
        \/ view' = view
    BY <1>6, <2>1 DEF ListLog
  <2> QED
    BY <1>6, <2>2, <2>3 DEF ListLog
<1>7. CASE Return(r)
  <2>1. EmptyView \in View
    BY DEF EmptyView, View
  <2> QED
    BY <1>7, <2>1 DEF Return
<1>8. UNCHANGED <<tracerVars, unitVars, resetVars>>
  BY DEF Reader, StartRead, LookupStored, LookupActive, CloneOne, Unlock,
         ListLog, Return
<1> QED
  BY <1>1, <1>2, <1>3, <1>4, <1>5, <1>6, <1>7, <1>8 DEF Reader

LEMMA TypeStep == TypeOK /\ [Next]_vars => TypeOK'
<1> SUFFICES ASSUME TypeOK, [Next]_vars
             PROVE  TypeOK'
  OBVIOUS
<1>1. ASSUME NEW b \in BOOLEAN, SetEnabled(b)
      PROVE  TypeOK'
  <2>1. TracerTypeOK'
    BY <1>1 DEF SetEnabled, TypeOK, TracerTypeOK, counterVars
  <2> QED
    BY <1>1, <2>1, TypeUnchanged DEF SetEnabled, TypeOK
<1>2. ASSUME NEW w \in Work, Unit(w)
      PROVE  TypeOK'
  BY <1>2, UnitTypeStep, UnitTracerTypeStep, TypeUnchanged DEF TypeOK
<1>3. ASSUME NEW r \in Readers, Reader(r)
      PROVE  TypeOK'
  BY <1>3, ReaderTypeStep, TypeUnchanged DEF TypeOK
<1>4. CASE ResetStorage
  <2>1. log' \in Seq(Entry) /\ Len(log') <= Cap
    <3>1. << >> \in Seq(Entry) /\ Len(<< >>) <= Cap
      OBVIOUS
    <3>2. log' = << >> \/ log' = log
      BY <1>4 DEF ResetStorage
    <3>3. log \in Seq(Entry) /\ Len(log) <= Cap
      BY DEF TypeOK, TracerTypeOK
    <3> QED
      BY <3>1, <3>2, <3>3
  <2>2. TracerTypeOK'
    BY <1>4, <2>1 DEF ResetStorage, TypeOK, TracerTypeOK, counterVars
  <2>3. ResetTypeOK'
    BY <1>4 DEF ResetStorage, TypeOK, ResetTypeOK
  <2> QED
    BY <1>4, <2>2, <2>3, TypeUnchanged DEF ResetStorage, TypeOK
<1>5. CASE ResetCounters
  <2>1. TracerTypeOK' /\ ResetTypeOK'
    BY <1>5 DEF ResetCounters, ClearedRequests, TypeOK, TracerTypeOK,
                ResetTypeOK
  <2> QED
    BY <1>5, <2>1, TypeUnchanged DEF ResetCounters, TypeOK
<1>6. CASE UNCHANGED vars
  BY <1>6, TypeUnchanged DEF vars, TypeOK
<1> QED
  BY <1>1, <1>2, <1>3, <1>4, <1>5, <1>6 DEF Next

(* The variables of the tracer, its units and its readers keep their types *)
(* and the log never exceeds its limit.                                    *)
THEOREM TracerType == Spec => []TypeOK
BY TypeInit, TypeStep, PTL DEF Spec

-----------------------------------------------------------------------------
(* Registration, readers and retention.                                    *)
(*                                                                         *)
(* RegisteredIsOpen is inductive by itself; CloneSafe needs ReadersHold,   *)
(* because only the lock keeps the traces a reader has yet to clone        *)
(* registered; RetainedOnce needs LogIsSettled, because a trace saved      *)
(* again would have to pass Settle again.                                  *)

(* A reader that has traces left to clone holds the lock, and they are     *)
(* registered.                                                             *)
ReadersHold ==
  \A r \in Readers : \A w \in todo[r] : rpc[r] = "cloning" /\ w \in Registered

RegistryInv == TypeOK /\ RegisteredIsOpen /\ ReadersHold

LEMMA RegistryInit == Init => RegistryInv
<1> SUFFICES ASSUME Init PROVE RegistryInv
  OBVIOUS
<1>1. RegisteredIsOpen
  BY DEF Init, RegisteredIsOpen
<1>2. ReadersHold
  BY DEF Init, ReadersHold
<1> QED
  BY <1>1, <1>2, TypeInit DEF RegistryInv

(* A unit moves, and the registry is left alone or changed by Begin and    *)
(* Settle, which add and remove the unit under its own ID.                 *)
LEMMA UnitRegistryStep ==
  ASSUME RegistryInv, TypeOK', NEW w \in Work, Unit(w)
  PROVE  RegisteredIsOpen'
<1> USE DEF RegistryInv, TypeOK, TracerTypeOK, UnitTypeOK, RegisteredIsOpen, At
<1>1. ASSUME UNCHANGED <<active, id>>, pc' = [pc EXCEPT ![w] = pc'[w]],
             pc[w] \in Open => pc'[w] \in Open
      PROVE  RegisteredIsOpen'
  BY <1>1, ZenonT(60)
<1>2. CASE PassThrough(w) \/ Admit(w) \/ CountUnsampled(w)
  <2>1. UNCHANGED <<active, id>> /\ pc[w] \in {"idle", "admitted"}
    BY <1>2 DEF PassThrough, Admit, CountUnsampled, tracerVars, traceVars
  <2>2. pc' = [pc EXCEPT ![w] = pc'[w]]
    BY <1>2 DEF PassThrough, Admit, CountUnsampled
  <2> QED
    BY <1>1, <2>1, <2>2 DEF Open
<1>4. CASE Begin(w)
  <2> PICK i \in IdChoices(w) :
         id' = [id EXCEPT ![w] = i] /\ active' = [active EXCEPT ![i] = w]
    BY <1>4 DEF Begin, Register
  <2>1. i \in Ids
    BY DEF IdChoices, Ids, Work
  <2>2. \A k \in Ids : active[k] # w
    <3>1. pc[w] = "admitted" /\ "admitted" \notin Open
      BY <1>4 DEF Begin, Open
    <3>2. w # NoTrace
      OBVIOUS
    <3>3. \A k \in Ids : active[k] = w => pc[w] \in Open
      BY <3>2 DEF RegisteredIsOpen
    <3> QED
      BY <3>1, <3>3
  <2>3. pc' = [pc EXCEPT ![w] = "begun"] /\ "begun" \in Open
    BY <1>4 DEF Begin, Open
  <2> SUFFICES ASSUME NEW k \in Ids, active'[k] # NoTrace
               PROVE  id'[active'[k]] = k /\ pc'[active'[k]] \in Open
    BY DEF RegisteredIsOpen
  <2>4. CASE k = i
    BY <2>1, <2>3, <2>4
  <2>5. CASE k # i
    <3>1. active'[k] = active[k] /\ active[k] \in Work /\ active[k] # w
      BY <2>1, <2>2, <2>5
    <3> QED
      BY <3>1, <2>3
  <2> QED
    BY <2>4, <2>5
<1>5. CASE NotifyBegun(w) \/ EndWork(w) \/ Judge(w)
  <2>1. UNCHANGED <<active, id>>
    BY <1>5 DEF NotifyBegun, EndWork, Judge, tracerVars, traceVars
  <2>2. pc' = [pc EXCEPT ![w] = pc'[w]] /\ pc'[w] \in Open
    BY <1>5 DEF NotifyBegun, EndWork, Judge, Open
  <2> QED
    BY <1>1, <2>1, <2>2
<1>6. CASE RecordError(w)
  BY <1>6 DEF RecordError, tracerVars
<1>7. CASE Settle(w)
  <2>1. active' = [active EXCEPT ![id[w]] = NoTrace]
    BY <1>7 DEF Settle, Unregister
  <2>2. id' = id /\ pc' = [pc EXCEPT ![w] = "settled"]
    BY <1>7 DEF Settle
  <2> SUFFICES ASSUME NEW k \in Ids, active'[k] # NoTrace
               PROVE  id'[active'[k]] = k /\ pc'[active'[k]] \in Open
    BY DEF RegisteredIsOpen
  <2>3. k # id[w] /\ active'[k] = active[k] /\ active[k] \in Work
    BY <2>1
  <2>4. active[k] # w
    BY <2>3
  <2> QED
    BY <2>2, <2>3, <2>4
<1>8. CASE Save(w) \/ NotifyFinished(w) \/ Release(w) \/ Collect(w)
  <2>1. UNCHANGED <<active, id>> /\ pc[w] \in {"settled", "saved", "closed"}
    BY <1>8 DEF Save, NotifyFinished, Release, Collect, tracerVars, traceVars
  <2>2. pc' = [pc EXCEPT ![w] = pc'[w]]
    BY <1>8 DEF Save, NotifyFinished, Release, Collect
  <2> QED
    BY <1>1, <2>1, <2>2 DEF Open
<1> QED
  BY <1>2, <1>4, <1>5, <1>6, <1>7, <1>8 DEF Unit, Progress

(* The readers' lock stands between a trace to be cloned and the writers.  *)
LEMMA ReadersStep ==
  ASSUME RegistryInv, [Next]_vars
  PROVE  ReadersHold'
<1> USE DEF ReadersHold
<1>1. ASSUME UNCHANGED readerVars, UNCHANGED active
      PROVE  ReadersHold'
  BY <1>1 DEF readerVars, Registered, RegistryInv
<1>2. ASSUME UNCHANGED readerVars, Unlocked
      PROVE  ReadersHold'
  BY <1>2 DEF readerVars, Unlocked, RegistryInv
<1>3. ASSUME NEW w \in Work, Unit(w)
      PROVE  ReadersHold'
  <2>1. UNCHANGED readerVars /\ (UNCHANGED active \/ Unlocked)
    BY <1>3 DEF Unit, Progress, PassThrough, Admit, CountUnsampled, Begin,
                NotifyBegun, RecordError, EndWork, Judge, Settle, Save,
                NotifyFinished, Release, Collect, tracerVars
  <2> QED
    BY <2>1, <1>1, <1>2
<1>4. ASSUME NEW r \in Readers, Reader(r)
      PROVE  ReadersHold'
  <2>1. UNCHANGED active
    BY <1>4 DEF Reader, StartRead, LookupStored, LookupActive, CloneOne,
                Unlock, ListLog, Return, tracerVars
  <2>2. Registered' = Registered
    BY <2>1 DEF Registered
  <2> USE DEF RegistryInv, TypeOK, ReaderTypeOK
  <2>3. ASSUME NEW o \in {"Snapshot", "Live"}, StartRead(r, o)
        PROVE  ReadersHold'
    BY <2>2, <2>3 DEF StartRead
  <2>4. ASSUME NEW i \in Ids, LookupStored(r, i)
        PROVE  ReadersHold'
    BY <2>2, <2>4 DEF LookupStored
  <2>5. CASE LookupActive(r)
    <3>1. InFlight(want[r]) \subseteq Registered
      BY <2>5 DEF LookupActive, InFlight, Registered
    <3> QED
      BY <2>2, <2>5, <3>1 DEF LookupActive
  <2>6. ASSUME NEW w \in Work, CloneOne(r, w)
        PROVE  ReadersHold'
    BY <2>2, <2>6 DEF CloneOne
  <2>7. CASE Unlock(r) \/ ListLog(r) \/ Return(r)
    BY <2>2, <2>7 DEF Unlock, ListLog, Return
  <2> QED
    BY <1>4, <2>3, <2>4, <2>5, <2>6, <2>7 DEF Reader
<1>5. CASE \E b \in BOOLEAN : SetEnabled(b)
  BY <1>1, <1>5 DEF SetEnabled
<1>6. CASE ResetStorage \/ ResetCounters
  BY <1>1, <1>6 DEF ResetStorage, ResetCounters
<1>7. CASE UNCHANGED vars
  BY <1>1, <1>7 DEF vars, tracerVars
<1> QED
  BY <1>3, <1>4, <1>5, <1>6, <1>7 DEF Next

LEMMA RegistryStep == RegistryInv /\ [Next]_vars => RegistryInv'
<1> SUFFICES ASSUME RegistryInv, [Next]_vars
             PROVE  RegistryInv'
  OBVIOUS
<1>1. TypeOK'
  BY TypeStep DEF RegistryInv
<1>2. ReadersHold'
  BY ReadersStep
<1>3. ASSUME UNCHANGED <<active, id, pc>>
      PROVE  RegisteredIsOpen'
  BY <1>3 DEF RegistryInv, RegisteredIsOpen
<1>4. CASE \E w \in Work : Unit(w)
  BY <1>1, <1>2, <1>4, UnitRegistryStep DEF RegistryInv
<1>5. CASE \E r \in Readers : Reader(r)
  <2>1. UNCHANGED <<tracerVars, unitVars>>
    BY <1>5, ReaderTypeStep DEF RegistryInv
  <2> QED
    BY <2>1, <1>1, <1>2, <1>3 DEF RegistryInv, tracerVars, unitVars, traceVars
<1>6. CASE (\E b \in BOOLEAN : SetEnabled(b)) \/ ResetStorage \/ ResetCounters
  BY <1>1, <1>2, <1>3, <1>6
  DEF RegistryInv, SetEnabled, ResetStorage, ResetCounters, unitVars, traceVars
<1>7. CASE UNCHANGED vars
  BY <1>1, <1>2, <1>3, <1>7
  DEF RegistryInv, vars, tracerVars, unitVars, traceVars
<1> QED
  BY <1>4, <1>5, <1>6, <1>7 DEF Next

(* Whatever IDs clients choose and however units interleave, an ID never   *)
(* leads to a trace that has been finished (tracer.go:231-236, 258-271).   *)
THEOREM TracerRegistered == Spec => []RegisteredIsOpen
<1>1. RegistryInv => RegisteredIsOpen
  BY DEF RegistryInv
<1> QED
  BY <1>1, RegistryInit, RegistryStep, PTL DEF Spec

(* Snapshot, Live and Trace never clone a trace whose memory has gone back *)
(* to the pool, for any number of readers (tracer.go:329-331, 427-428).    *)
THEOREM TracerCloneSafe == Spec => []CloneSafe
<1>1. RegistryInv => CloneSafe
  <2> SUFFICES ASSUME RegistryInv, NEW r \in Readers, NEW w \in todo[r]
               PROVE  pc[w] # "released"
    BY DEF CloneSafe
  <2>1. PICK i \in Ids : active[i] = w /\ w # NoTrace
    BY DEF RegistryInv, ReadersHold, Registered
  <2> QED
    BY <2>1 DEF RegistryInv, RegisteredIsOpen, Open
<1> QED
  BY <1>1, RegistryInit, RegistryStep, PTL DEF Spec

(* The goroutines of the retained traces are past Save.                    *)
LogIsSettled ==
  \A n \in DOMAIN log : pc[log[n].of] \in {"saved", "closed", "released"}

LogIsUnique == \A m, n \in DOMAIN log : log[m].of = log[n].of => m = n

LogInv == RegistryInv /\ LogIsSettled /\ LogIsUnique

Settled == {"saved", "closed", "released"}

(* The first half of RetainedOnce follows from where the goroutines are.   *)
LEMMA SettledIsNotRegistered ==
  RegisteredIsOpen /\ LogIsSettled =>
    \A n \in DOMAIN log : log[n].of \notin Registered
<1> SUFFICES ASSUME RegisteredIsOpen, LogIsSettled,
                    NEW n \in DOMAIN log, log[n].of \in Registered
             PROVE  FALSE
  OBVIOUS
<1>1. PICK i \in Ids : active[i] = log[n].of /\ active[i] # NoTrace
  BY DEF Registered
<1>2. pc[log[n].of] \in Open
  BY <1>1 DEF RegisteredIsOpen
<1> QED
  BY <1>2 DEF LogIsSettled, Open

(* A save puts one entry in front of entries of other units.               *)
LEMMA SaveLogStep ==
  ASSUME LogInv, NEW w \in Work, Save(w)
  PROVE  LogIsSettled' /\ LogIsUnique'
<1>1. pc[w] = "settled" /\ pc' = [pc EXCEPT ![w] = "saved"]
  BY DEF Save, At
<1>2. pc \in [Work -> Positions] /\ log \in Seq(Entry) /\ Cap \in Nat
  BY DEF LogInv, RegistryInv, TypeOK, UnitTypeOK, TracerTypeOK
<1>3. \A n \in 1..Len(log) :
         /\ log[n].of \in Work
         /\ log[n].of # w
         /\ pc[log[n].of] \in Settled
  <2> SUFFICES ASSUME NEW n \in 1..Len(log)
               PROVE  /\ log[n].of \in Work
                      /\ log[n].of # w
                      /\ pc[log[n].of] \in Settled
    OBVIOUS
  <2>1. log[n] \in Entry /\ n \in DOMAIN log
    BY <1>2
  <2>2. log[n].of \in Work
    BY <2>1 DEF Entry
  <2>3. pc[log[n].of] \in Settled
    BY <2>1 DEF LogInv, LogIsSettled, Settled
  <2> QED
    BY <1>1, <2>2, <2>3 DEF Settled
<1>4. \A m, n \in 1..Len(log) : log[m].of = log[n].of => m = n
  BY <1>2 DEF LogInv, LogIsUnique
<1>5. CASE log' = log
  BY <1>1, <1>2, <1>3, <1>4, <1>5 DEF LogIsSettled, LogIsUnique, Settled
<1>6. CASE log' = Saved(log, Clone(w), Cap)
  <2>1. Clone(w) \in Entry /\ Clone(w).of = w
    BY DEF Clone, Entry, LogInv, RegistryInv, TypeOK, UnitTypeOK
  <2>2. /\ log' \in Seq(Entry)
        /\ Len(log') = Smaller(Len(log) + 1, Cap)
        /\ \A n \in 1..Len(log') :
             log'[n] = IF n = 1 THEN Clone(w) ELSE log[n - 1]
    BY <1>2, <1>6, <2>1, SavedEntries
  <2>3. Len(log') <= Len(log) + 1
    BY <1>2, <2>2 DEF Smaller
  <2>4. \A n \in 1..Len(log') :
           n = 1 \/ (n - 1 \in 1..Len(log) /\ log'[n] = log[n - 1])
    BY <1>2, <2>2, <2>3
  <2>5. \A n \in 1..Len(log') : n = 1 => log'[n].of = w
    BY <2>1, <2>2
  <2>6. \A n \in 1..Len(log') : pc'[log'[n].of] \in Settled
    BY <1>1, <1>2, <1>3, <2>4, <2>5 DEF Settled
  <2>7. \A m, n \in 1..Len(log') : log'[m].of = log'[n].of => m = n
    <3> SUFFICES ASSUME NEW m \in 1..Len(log'), NEW n \in 1..Len(log'),
                        log'[m].of = log'[n].of
                 PROVE  m = n
      OBVIOUS
    <3>1. CASE m = 1 \/ n = 1
      BY <1>3, <2>4, <2>5, <3>1
    <3>2. CASE m # 1 /\ n # 1
      <4>1. m - 1 = n - 1
        BY <1>4, <2>4, <3>2
      <4> QED
        BY <4>1
    <3> QED
      BY <3>1, <3>2
  <2>8. DOMAIN log' = 1..Len(log')
    BY <2>2
  <2> QED
    BY <2>6, <2>7, <2>8 DEF LogIsSettled, LogIsUnique, Settled
<1> QED
  BY <1>5, <1>6 DEF Save, Retain

LEMMA LogStep == LogInv /\ [Next]_vars => LogInv'
<1> SUFFICES ASSUME LogInv, [Next]_vars
             PROVE  LogInv'
  OBVIOUS
<1>1. RegistryInv'
  BY RegistryStep DEF LogInv
<1>3. ASSUME UNCHANGED <<log, pc>>
      PROVE  LogIsSettled' /\ LogIsUnique'
  BY <1>3 DEF LogInv, LogIsSettled, LogIsUnique
<1>4. ASSUME NEW w \in Work, Unit(w)
      PROVE  LogIsSettled' /\ LogIsUnique'
  <2>1. CASE Save(w)
    BY <2>1, SaveLogStep
  <2>2. CASE ~Save(w)
    <3>1. UNCHANGED log
      BY <1>4, <2>2
      DEF Unit, Progress, PassThrough, Admit, CountUnsampled, Begin,
          NotifyBegun, RecordError, EndWork, Judge, Settle, NotifyFinished,
          Release, Collect, tracerVars
    <3>2. pc \in [Work -> Positions]
      BY DEF LogInv, RegistryInv, TypeOK, UnitTypeOK
    <3>3. \A n \in DOMAIN log : log[n].of \in Work
      <4>1. log \in Seq(Entry)
        BY DEF LogInv, RegistryInv, TypeOK, TracerTypeOK
      <4>2. \A n \in DOMAIN log : log[n] \in Entry
        BY <4>1
      <4> QED
        BY <4>2 DEF Entry
    <3>4. /\ pc' = pc \/ pc' = [pc EXCEPT ![w] = pc'[w]]
          /\ pc[w] \in Settled => pc'[w] \in Settled
      BY <1>4, <2>2, <3>2
      DEF Unit, Progress, PassThrough, Admit, CountUnsampled, Begin,
          NotifyBegun, RecordError, EndWork, Judge, Settle, NotifyFinished,
          Release, Collect, At, Settled
    <3>5. LogIsSettled'
      BY <3>1, <3>2, <3>3, <3>4 DEF LogInv, LogIsSettled, Settled
    <3> QED
      BY <3>1, <3>5 DEF LogInv, LogIsUnique
  <2> QED
    BY <2>1, <2>2
<1>5. ASSUME NEW r \in Readers, Reader(r)
      PROVE  LogIsSettled' /\ LogIsUnique'
  <2>1. UNCHANGED <<tracerVars, unitVars>>
    BY <1>5, ReaderTypeStep DEF LogInv, RegistryInv
  <2> QED
    BY <2>1, <1>3 DEF tracerVars, unitVars
<1>6. ASSUME (\E b \in BOOLEAN : SetEnabled(b)) \/ ResetCounters
      PROVE  LogIsSettled' /\ LogIsUnique'
  BY <1>3, <1>6 DEF SetEnabled, ResetCounters, unitVars
<1>7. ASSUME ResetStorage
      PROVE  LogIsSettled' /\ LogIsUnique'
  <2>1. UNCHANGED pc /\ (log' = << >> \/ log' = log)
    BY <1>7 DEF ResetStorage, unitVars
  <2>2. CASE log' = << >>
    BY <2>2 DEF LogIsSettled, LogIsUnique
  <2> QED
    BY <2>1, <2>2, <1>3
<1>8. ASSUME UNCHANGED vars
      PROVE  LogIsSettled' /\ LogIsUnique'
  BY <1>3, <1>8 DEF vars, tracerVars, unitVars
<1>9. LogIsSettled' /\ LogIsUnique'
  BY <1>4, <1>5, <1>6, <1>7, <1>8 DEF Next
<1> QED
  BY <1>1, <1>9 DEF LogInv

(* No unit of work is retained twice, or both in flight and retained, for  *)
(* any retention limit and through every Reset (tracer.go:258-274).        *)
THEOREM TracerRetainedOnce == Spec => []RetainedOnce
<1>1. Init => LogInv
  BY RegistryInit
  DEF Init, LogInv, LogIsSettled, LogIsUnique
<1>2. LogInv => RetainedOnce
  BY SettledIsNotRegistered DEF LogInv, RegistryInv, LogIsUnique, RetainedOnce
<1> QED
  BY <1>1, <1>2, LogStep, PTL DEF Spec

-----------------------------------------------------------------------------
(* Lookups, when no client chooses an ID: then every unit is registered    *)
(* under its own, from Begin to Settle, and what Trace found under an ID   *)
(* is the unit of that ID until that unit has settled.                     *)
Early == {"idle", "untraced", "admitted"}

OwnIds == \A w \in Work : id[w] = w /\ (pc[w] \in Open => active[w] = w)

(* What reader r has of the trace it looks for. *)
Has(r) == \E c \in view[r].live : c.of = origin[r]

Tracks(r) ==
  /\ rpc[r] = "idle" => origin[r] = NoTrace
  /\ origin[r] # NoTrace =>
       /\ op[r] = "Trace" /\ rpc[r] \in {"missed", "cloning", "done"}
       /\ origin[r] = want[r] /\ pc[origin[r]] \notin Early
       /\ pc[origin[r]] \in Open =>
            /\ rpc[r] = "cloning" => origin[r] \in todo[r] \/ Has(r)
            /\ rpc[r] = "done" => found[r] \/ Has(r)

LookupInv == RegistryInv /\ OwnIds /\ \A r \in Readers : Tracks(r)

LEMMA LookupInit == Init => LookupInv
BY RegistryInit DEF Init, LookupInv, OwnIds, Tracks, Open

(* A unit becomes a trace in flight in Begin and is none after Settle.     *)
LEMMA UnitMoves ==
  ASSUME TypeOK, NEW w \in Work, Unit(w)
  PROVE  /\ UNCHANGED readerVars
         /\ \A v \in Work \ {w} : pc'[v] = pc[v]
         /\ pc[w] \notin Early => pc'[w] \notin Early
         /\ \/ Begin(w)
            \/ Settle(w)
            \/ UNCHANGED <<active, id>> /\ (pc'[w] \in Open => pc[w] \in Open)
BY DEF Unit, Progress, PassThrough, Admit, CountUnsampled, Begin, NotifyBegun, RecordError,
   EndWork, Judge, Settle, Save, NotifyFinished, Release, Collect, At, Open, Early, TypeOK,
   UnitTypeOK, tracerVars, traceVars

LEMMA UnitOwnIds ==
  ASSUME LookupInv, ClientIds = {}, NEW w \in Work, Unit(w)
  PROVE  OwnIds'
<1>0. /\ \A v \in Work : v \in Ids
      /\ pc \in [Work -> Positions] /\ id \in [Work -> Ids]
      /\ active \in [Ids -> Work \cup {NoTrace}]
  BY DEF Ids, LookupInv, RegistryInv, TypeOK, UnitTypeOK, TracerTypeOK
<1>1. \A v \in Work \ {w} : pc'[v] = pc[v]
  BY UnitMoves DEF LookupInv, RegistryInv
<1>2. CASE Begin(w)
  <2>1. id' = [id EXCEPT ![w] = w] /\ active' = [active EXCEPT ![w] = w]
    BY <1>2 DEF Begin, IdChoices, Register
  <2> QED
    BY <1>0, <1>1, <2>1 DEF LookupInv, OwnIds
<1>3. CASE Settle(w)
  <2>1. UNCHANGED id /\ active' = [active EXCEPT ![w] = NoTrace] /\ pc'[w] = "settled"
    BY <1>0, <1>3 DEF Settle, Unregister, At, LookupInv, OwnIds
  <2> QED
    BY <1>0, <1>1, <2>1 DEF LookupInv, OwnIds, Open
<1>4. CASE UNCHANGED <<active, id>> /\ (pc'[w] \in Open => pc[w] \in Open)
  BY <1>1, <1>4 DEF LookupInv, OwnIds
<1> QED
  BY <1>2, <1>3, <1>4, UnitMoves DEF LookupInv, RegistryInv

LEMMA UnitTracks ==
  ASSUME LookupInv, NEW w \in Work, Unit(w), NEW r \in Readers
  PROVE  Tracks(r)'
<1>1. /\ UNCHANGED readerVars
      /\ \A v \in Work \ {w} : pc'[v] = pc[v]
      /\ pc[w] \notin Early => pc'[w] \notin Early
  BY UnitMoves DEF LookupInv, RegistryInv
<1>2. pc[w] \notin Early /\ pc'[w] \in Open => pc[w] \in Open
  <2>1. CASE Begin(w)
    BY <2>1 DEF Begin, At, Early
  <2>2. CASE Settle(w)
    BY <2>2 DEF Settle, At, Open
  <2> QED
    BY <2>1, <2>2, UnitMoves DEF LookupInv, RegistryInv
<1>3. origin[r] \in Work \cup {NoTrace}
  BY DEF LookupInv, RegistryInv, TypeOK, ReaderTypeOK
<1>4. Tracks(r)
  BY DEF LookupInv
<1>5. UNCHANGED <<rpc, op, want, todo, view, found, origin>>
  BY <1>1 DEF readerVars
<1>6. \A o \in Work :
        /\ pc[o] \notin Early => pc'[o] \notin Early
        /\ pc[o] \notin Early /\ pc'[o] \in Open => pc[o] \in Open
  BY <1>1, <1>2
<1> QED
  BY <1>3, <1>4, <1>5, <1>6 DEF Tracks, Has

(* A step of reader r, seen by itself. *)
LEMMA ReaderTracks ==
  ASSUME LookupInv, NEW r \in Readers, Reader(r)
  PROVE  Tracks(r)'
<1>0. /\ UNCHANGED <<active, pc, id>> /\ Tracks(r) /\ OwnIds /\ RegisteredIsOpen
      /\ active \in [Ids -> Work \cup {NoTrace}]
      /\ rpc \in [Readers -> {"idle", "missed", "cloning", "listing", "done"}]
      /\ op \in [Readers -> {"none", "Snapshot", "Live", "Trace"}]
      /\ want \in [Readers -> Ids \cup {NoTrace}] /\ todo \in [Readers -> SUBSET Work]
      /\ view \in [Readers -> View] /\ found \in [Readers -> BOOLEAN]
      /\ origin \in [Readers -> Work \cup {NoTrace}]
  BY ReaderTypeStep DEF LookupInv, RegistryInv, TypeOK, TracerTypeOK, ReaderTypeOK,
     tracerVars, unitVars, traceVars
<1>1. ASSUME NEW o \in {"Snapshot", "Live"}, StartRead(r, o) PROVE Tracks(r)'
  <2>1. rpc'[r] = "cloning" /\ origin'[r] = NoTrace
    BY <1>0, <1>1 DEF StartRead, Tracks
  <2> QED
    BY <2>1 DEF Tracks
<1>2. ASSUME NEW i \in Ids, LookupStored(r, i) PROVE Tracks(r)'
  <2>1. /\ rpc'[r] \in {"missed", "done"} /\ op'[r] = "Trace" /\ want'[r] = i
        /\ origin'[r] = active[i]
        /\ rpc'[r] = "done" => found'[r]
    BY <1>0, <1>2 DEF LookupStored
  <2>2. active[i] # NoTrace => active[i] = i /\ pc[active[i]] \in Open
    BY <1>0 DEF RegisteredIsOpen, OwnIds
  <2> QED
    BY <1>0, <2>1, <2>2 DEF Tracks, Open, Early
<1>3. CASE LookupActive(r)
  <2>1. /\ rpc[r] = "missed" /\ rpc'[r] = "cloning" /\ UNCHANGED <<op, want, origin>>
        /\ todo'[r] = {active[want[r]]} \ {NoTrace}
    BY <1>0, <1>3 DEF LookupActive, InFlight
  <2>2. ASSUME origin[r] # NoTrace, pc[origin[r]] \in Open PROVE origin[r] \in todo'[r]
    BY <1>0, <2>1, <2>2 DEF Tracks, OwnIds
  <2> QED
    BY <1>0, <2>1, <2>2 DEF Tracks
<1>4. ASSUME NEW w \in Work, CloneOne(r, w) PROVE Tracks(r)'
  <2>1. /\ rpc[r] = "cloning" /\ UNCHANGED <<rpc, op, want, origin>>
        /\ todo'[r] = todo[r] \ {w}
    BY <1>0, <1>4 DEF CloneOne
  <2>2. view'[r] = WithClone(view[r], w, op[r])
    BY <1>0, <1>4 DEF CloneOne
  <2>3. view'[r].live = view[r].live \cup {Clone(w)}
    BY <1>0, <2>2 DEF WithClone, View
  <2>4. Clone(w).of = w
    BY DEF Clone
  <2>5. ASSUME origin[r] \in todo[r] \/ Has(r) PROVE origin[r] \in todo'[r] \/ Has(r)'
    BY <2>1, <2>3, <2>4, <2>5 DEF Has
  <2> QED
    BY <1>0, <2>1, <2>5 DEF Tracks
<1>5. CASE Unlock(r)
  <2>1. /\ rpc[r] = "cloning" /\ todo[r] = {} /\ UNCHANGED <<op, want, view, found, origin>>
        /\ rpc'[r] = IF op[r] = "Snapshot" THEN "listing" ELSE "done"
    BY <1>0, <1>5 DEF Unlock
  <2> QED
    BY <1>0, <2>1 DEF Tracks, Has
<1>6. CASE ListLog(r)
  <2>1. rpc[r] = "listing" /\ rpc'[r] = "done" /\ UNCHANGED origin
    BY <1>0, <1>6 DEF ListLog
  <2> QED
    BY <1>0, <2>1 DEF Tracks
<1>7. CASE Return(r)
  BY <1>0, <1>7 DEF Return, Tracks
<1> QED
  BY <1>1, <1>2, <1>3, <1>4, <1>5, <1>6, <1>7 DEF Reader

(* Readers do not disturb one another. *)
LEMMA ReadersApart ==
  ASSUME TypeOK, NEW q \in Readers, Reader(q), NEW r \in Readers \ {q}
  PROVE  /\ rpc'[r] = rpc[r] /\ op'[r] = op[r] /\ want'[r] = want[r] /\ todo'[r] = todo[r]
         /\ view'[r] = view[r] /\ found'[r] = found[r] /\ origin'[r] = origin[r]
<1> USE DEF TypeOK, ReaderTypeOK
<1>1. ASSUME NEW o \in {"Snapshot", "Live"}, StartRead(q, o)
      PROVE  /\ rpc'[r] = rpc[r] /\ op'[r] = op[r] /\ todo'[r] = todo[r]
             /\ view'[r] = view[r] /\ UNCHANGED <<want, found, origin>>
  BY <1>1 DEF StartRead
<1>2. ASSUME NEW i \in Ids, LookupStored(q, i)
      PROVE  /\ rpc'[r] = rpc[r] /\ op'[r] = op[r] /\ want'[r] = want[r]
             /\ found'[r] = found[r] /\ origin'[r] = origin[r] /\ UNCHANGED <<todo, view>>
  BY <1>2 DEF LookupStored
<1>3. CASE LookupActive(q)
  BY <1>3 DEF LookupActive
<1>4. ASSUME NEW w \in Work, CloneOne(q, w)
      PROVE  /\ todo'[r] = todo[r] /\ view'[r] = view[r]
             /\ UNCHANGED <<rpc, op, want, found, origin>>
  BY <1>4 DEF CloneOne
<1>5. CASE Unlock(q) \/ ListLog(q)
  BY <1>5 DEF Unlock, ListLog
<1>6. CASE Return(q)
  BY <1>6 DEF Return
<1> QED
  BY <1>1, <1>2, <1>3, <1>4, <1>5, <1>6 DEF Reader

LEMMA OtherTracks ==
  ASSUME LookupInv, NEW q \in Readers, Reader(q), NEW r \in Readers \ {q}
  PROVE  Tracks(r)'
<1>1. UNCHANGED pc /\ Tracks(r) /\ TypeOK
  BY ReaderTypeStep DEF LookupInv, RegistryInv, unitVars
<1> QED
  BY <1>1, ReadersApart DEF Tracks, Has

LEMMA LookupStep == LookupInv /\ ClientIds = {} /\ [Next]_vars => LookupInv'
<1> SUFFICES ASSUME LookupInv, ClientIds = {}, [Next]_vars PROVE LookupInv'
  OBVIOUS
<1>1. RegistryInv'
  BY RegistryStep DEF LookupInv
<1>2. ASSUME UNCHANGED <<active, id, pc>>, UNCHANGED readerVars
      PROVE  OwnIds' /\ \A r \in Readers : Tracks(r)'
  BY <1>2 DEF LookupInv, OwnIds, Tracks, Has, readerVars
<1>3. ASSUME NEW w \in Work, Unit(w) PROVE OwnIds' /\ \A r \in Readers : Tracks(r)'
  BY <1>3, UnitOwnIds, UnitTracks
<1>4. ASSUME NEW q \in Readers, Reader(q) PROVE OwnIds' /\ \A r \in Readers : Tracks(r)'
  <2>1. UNCHANGED <<active, id, pc>>
    BY <1>4, ReaderTypeStep DEF LookupInv, RegistryInv, tracerVars, unitVars, traceVars
  <2>2. OwnIds'
    BY <2>1 DEF LookupInv, OwnIds
  <2> QED
    BY <1>4, <2>2, ReaderTracks, OtherTracks
<1>5. ASSUME (\E b \in BOOLEAN : SetEnabled(b)) \/ ResetStorage \/ ResetCounters
      PROVE  OwnIds' /\ \A r \in Readers : Tracks(r)'
  <2>1. UNCHANGED readerVars
    BY <1>5 DEF SetEnabled, ResetStorage, ResetCounters
  <2>2. UNCHANGED <<active, id, pc>>
    BY <1>5 DEF SetEnabled, ResetStorage, ResetCounters, unitVars, traceVars
  <2> QED
    BY <1>2, <2>1, <2>2
<1>6. ASSUME UNCHANGED vars PROVE OwnIds' /\ \A r \in Readers : Tracks(r)'
  <2>1. UNCHANGED readerVars
    BY <1>6 DEF vars
  <2>2. UNCHANGED <<active, id, pc>>
    BY <1>6 DEF vars, tracerVars, unitVars, traceVars
  <2> QED
    BY <1>2, <2>1, <2>2
<1> QED
  BY <1>1, <1>3, <1>4, <1>5, <1>6 DEF Next, LookupInv

(* Unless clients choose IDs, Trace misses a trace in flight only when it  *)
(* has finished meanwhile, for any number of readers, a failing storage    *)
(* and any Reset (tracer.go:443-466).                                      *)
THEOREM TracerLookup == ASSUME ClientIds = {} PROVE Spec => []LookupFindsInFlight
<1>1. LookupInv => LookupFindsInFlight
  <2> SUFFICES ASSUME LookupInv, NEW r \in Readers,
                      rpc[r] = "done", op[r] = "Trace", origin[r] # NoTrace,
                      pc[origin[r]] \in Open
               PROVE  found[r] \/ \E c \in view[r].live : c.of = origin[r]
    BY DEF LookupFindsInFlight
  <2> QED
    BY DEF LookupInv, Tracks, Has
<1>2. LookupInv /\ [Next]_vars => LookupInv'
  BY LookupStep
<1> QED
  BY <1>1, <1>2, LookupInit, PTL DEF Spec

-----------------------------------------------------------------------------
(* The counters. Three sections and ResetCounters change them.             *)
LEMMA CounterSteps ==
  ASSUME TypeOK, [Next]_vars
  PROVE  \/ UNCHANGED counterVars
         \/ ResetCounters
         \/ \E w \in Work : CountUnsampled(w) \/ Begin(w) \/ Settle(w)
<1>1. ASSUME NEW w \in Work, Unit(w)
      PROVE  UNCHANGED counterVars \/ CountUnsampled(w) \/ Begin(w) \/ Settle(w)
  BY <1>1 DEF Unit, Progress, PassThrough, Admit, NotifyBegun, RecordError, EndWork, Judge,
     Save, NotifyFinished, Release, Collect, tracerVars
<1>2. ASSUME NEW r \in Readers, Reader(r)
      PROVE  UNCHANGED counterVars
  BY <1>2, ReaderTypeStep DEF tracerVars
<1>3. ASSUME (\E b \in BOOLEAN : SetEnabled(b)) \/ ResetStorage
      PROVE  UNCHANGED counterVars
  BY <1>3 DEF SetEnabled, ResetStorage
<1>4. ASSUME UNCHANGED vars
      PROVE  UNCHANGED counterVars
  BY <1>4 DEF vars, tracerVars
<1> QED
  BY <1>1, <1>2, <1>3, <1>4 DEF Next

LEMMA HostsFinite == IsFiniteSet(AllHosts)
BY FS_AddElement DEF AllHosts

Totals ==
  /\ total = sampled + unsampled
  /\ total = SumFunction(requests)

LEMMA TotalsInit == Init => Totals
<1> SUFFICES ASSUME Init PROVE Totals
  OBVIOUS
<1>1. SumFunction(requests) = 0
  BY HostsFinite, SumZero DEF Init
<1> QED
  BY <1>1 DEF Init, Totals

LEMMA TotalsStep == TypeOK /\ Totals /\ [Next]_vars => Totals'
<1> SUFFICES ASSUME TypeOK, Totals, [Next]_vars PROVE Totals'
  OBVIOUS
<1>0. /\ total \in Nat /\ sampled \in Nat /\ unsampled \in Nat
      /\ requests \in [AllHosts -> Nat]
  BY DEF TypeOK, TracerTypeOK
<1>1. CASE UNCHANGED counterVars
  BY <1>1 DEF counterVars, Totals
<1>2. CASE ResetCounters
  <2>1. SumFunction(requests') = 0
    BY <1>2, HostsFinite, SumZero DEF ResetCounters, ClearedRequests
  <2> QED
    BY <1>2, <2>1 DEF ResetCounters, Totals
<1>3. ASSUME NEW h \in AllHosts, requests' = [requests EXCEPT ![h] = @ + 1],
             total' = total + 1, sampled' + unsampled' = sampled + unsampled + 1
      PROVE  Totals'
  <2>1. SumFunction(requests') = SumFunction(requests) + 1
    BY <1>0, <1>3, HostsFinite, SumOneMore, Zenon
  <2> QED
    BY <1>0, <1>3, <2>1 DEF Totals
<1>4. ASSUME NEW w \in Work, CountUnsampled(w) PROVE Totals'
  <2>1. PICK h \in AllHosts : requests' = [requests EXCEPT ![h] = @ + 1]
    BY <1>4 DEF CountUnsampled
  <2>2. total' = total + 1 /\ sampled' + unsampled' = sampled + unsampled + 1
    BY <1>0, <1>4 DEF CountUnsampled
  <2> QED
    BY <1>3, <2>1, <2>2
<1>5. ASSUME NEW w \in Work, Begin(w) PROVE Totals'
  <2>1. PICK h \in AllHosts : requests' = [requests EXCEPT ![h] = @ + 1]
    BY <1>5 DEF Begin, HostChoices, AllHosts
  <2>2. total' = total + 1 /\ sampled' + unsampled' = sampled + unsampled + 1
    BY <1>0, <1>5 DEF Begin
  <2> QED
    BY <1>3, <2>1, <2>2
<1>6. ASSUME NEW w \in Work, Settle(w) PROVE Totals'
  BY <1>6 DEF Settle, Totals
<1> QED
  BY <1>1, <1>2, <1>4, <1>5, <1>6, CounterSteps

(* A unit that failed is in error, and is retained in error.               *)
FailuresKept ==
  /\ \A w \in Work : ended[w] = "failed" => err[w]
  /\ \A n \in DOMAIN log :
       /\ log[n].failed => err[log[n].of]
       /\ ended[log[n].of] = "failed" => log[n].failed

KeptInv == LogInv /\ FailuresKept

(* What a unit has recorded stays recorded, and it ends once.              *)
LEMMA UnitErrs ==
  ASSUME TypeOK, NEW w \in Work, Unit(w)
  PROVE  /\ \A v \in Work \ {w} : err'[v] = err[v] /\ ended'[v] = ended[v]
         /\ err[w] => err'[w]
         /\ ended'[w] = "failed" => ended[w] = "failed" \/ err'[w]
         /\ pc[w] \in Settled => ended'[w] = ended[w]
         /\ UNCHANGED log \/ Save(w)
<1> USE DEF TypeOK, UnitTypeOK
<1>1. CASE EndWork(w)
  <2>1. PICK e \in {"ok", "failed"} :
          /\ ended' = [ended EXCEPT ![w] = e]
          /\ err' = [err EXCEPT ![w] = ErrAfter(w, e)]
    BY <1>1 DEF EndWork
  <2>2. err'[w] = (err[w] \/ e = "failed") /\ ended'[w] = e
    BY <2>1 DEF ErrAfter
  <2>3. pc[w] \notin Settled /\ UNCHANGED log
    BY <1>1 DEF EndWork, At, Settled, tracerVars
  <2> QED
    BY <2>1, <2>2, <2>3
<1>2. CASE RecordError(w)
  <2>1. err' = [err EXCEPT ![w] = TRUE] /\ UNCHANGED <<ended, log>>
    BY <1>2 DEF RecordError, tracerVars
  <2> QED
    BY <2>1
<1>3. CASE ~EndWork(w) /\ ~RecordError(w)
  <2>1. UNCHANGED <<err, ended>>
    BY <1>3 DEF Unit, Progress, PassThrough, Admit, CountUnsampled, Begin, NotifyBegun,
       Judge, Settle, Save, NotifyFinished, Release, Collect, traceVars
  <2>2. UNCHANGED log \/ Save(w)
    BY <1>3 DEF Unit, Progress, PassThrough, Admit, CountUnsampled, Begin, NotifyBegun,
       Judge, Settle, NotifyFinished, Release, Collect, tracerVars
  <2> QED
    BY <2>1, <2>2
<1> QED
  BY <1>1, <1>2, <1>3

LEMMA LogUnits ==
  ASSUME TypeOK
  PROVE  \A n \in DOMAIN log : log[n].of \in Work
<1>1. \A n \in DOMAIN log : log[n] \in Entry
  BY DEF TypeOK, TracerTypeOK
<1> QED
  BY <1>1 DEF Entry

LEMMA UnitKeeps ==
  ASSUME KeptInv, NEW w \in Work, Unit(w)
  PROVE  FailuresKept'
<1>0. /\ TypeOK /\ LogIsSettled /\ FailuresKept
      /\ \A n \in DOMAIN log : log[n].of \in Work
  BY LogUnits DEF KeptInv, LogInv, RegistryInv
<1>1. \A v \in Work : ended'[v] = "failed" => err'[v]
  BY <1>0, UnitErrs DEF FailuresKept
<1>2. CASE UNCHANGED log
  <2>1. \A n \in DOMAIN log :
          /\ err[log[n].of] => err'[log[n].of]
          /\ ended'[log[n].of] = ended[log[n].of]
    BY <1>0, UnitErrs DEF LogIsSettled, Settled
  <2> QED
    BY <1>0, <1>1, <1>2, <2>1 DEF FailuresKept
<1>3. CASE Save(w) /\ log' = Saved(log, Clone(w), Cap)
  <2>1. Clone(w) \in Entry /\ Clone(w).of = w /\ Clone(w).failed = err[w]
    BY <1>0 DEF Clone, Entry, TypeOK, UnitTypeOK
  <2>2. log \in Seq(Entry) /\ Cap \in Nat /\ UNCHANGED <<err, ended>>
    BY <1>0, <1>3 DEF TypeOK, TracerTypeOK, Save, traceVars
  <2>3. /\ log' \in Seq(Entry)
        /\ Len(log') = Smaller(Len(log) + 1, Cap)
        /\ \A n \in 1..Len(log') :
             log'[n] = IF n = 1 THEN Clone(w) ELSE log[n - 1]
    BY <1>3, <2>1, <2>2, SavedEntries
  <2>4. \A n \in DOMAIN log' :
          log'[n] = Clone(w) \/ \E m \in DOMAIN log : log'[n] = log[m]
    <3> SUFFICES ASSUME NEW n \in DOMAIN log', n # 1
                 PROVE  n - 1 \in DOMAIN log /\ log'[n] = log[n - 1]
      BY <2>3
    <3>1. Len(log') <= Len(log) + 1
      BY <2>2, <2>3 DEF Smaller
    <3> QED
      BY <2>2, <2>3, <3>1
  <2>5. \A n \in DOMAIN log' :
          /\ log'[n].failed => err[log'[n].of]
          /\ ended[log'[n].of] = "failed" => log'[n].failed
    BY <1>0, <2>1, <2>4 DEF FailuresKept
  <2> QED
    BY <1>1, <2>2, <2>5 DEF FailuresKept
<1> QED
  BY <1>0, <1>2, <1>3, UnitErrs DEF Save, Retain

LEMMA KeptStep == KeptInv /\ [Next]_vars => KeptInv'
<1> SUFFICES ASSUME KeptInv, [Next]_vars PROVE FailuresKept'
  BY LogStep DEF KeptInv
<1>0. TypeOK /\ FailuresKept
  BY DEF KeptInv, LogInv, RegistryInv
<1>1. ASSUME UNCHANGED <<err, ended>>, log' = log \/ log' = << >>
      PROVE  FailuresKept'
  BY <1>0, <1>1 DEF FailuresKept
<1>2. ASSUME NEW w \in Work, Unit(w) PROVE FailuresKept'
  BY <1>2, UnitKeeps
<1>3. ASSUME NEW r \in Readers, Reader(r) PROVE FailuresKept'
  BY <1>0, <1>1, <1>3, ReaderTypeStep DEF tracerVars, unitVars, traceVars
<1>4. ASSUME (\E b \in BOOLEAN : SetEnabled(b)) \/ ResetStorage \/ ResetCounters
      PROVE  FailuresKept'
  BY <1>1, <1>4 DEF SetEnabled, ResetStorage, ResetCounters, unitVars, traceVars
<1>5. ASSUME UNCHANGED vars PROVE FailuresKept'
  BY <1>1, <1>5 DEF vars, tracerVars, unitVars, traceVars
<1> QED
  BY <1>2, <1>3, <1>4, <1>5 DEF Next

(* The units counted as failed since the start of the program are those    *)
(* that completed in error, unless one leaves a goroutine behind: that may *)
(* record an error after Finish has judged the trace.                      *)
Completed == {"settled", "saved", "closed", "released"}

FailedUnits == {w \in Work : pc[w] \in Completed /\ err[w]}

FailuresCounted ==
  /\ \A w \in Work : pc[w] = "judged" => judged[w] = err[w]
  /\ rstate = "cleared" => resets > 0
  /\ resets = 0 => failed = Cardinality(FailedUnits)

LEMMA FailedUnitsFinite ==
  IsFiniteSet(FailedUnits) /\ Cardinality(FailedUnits) \in Nat
BY FS_Subset, FS_CardinalityType DEF FailedUnits

LEMMA UnitFails ==
  ASSUME TypeOK, FailuresCounted, Outliving = {}, NEW w \in Work, Unit(w)
  PROVE  FailuresCounted'
<1>0. /\ pc \in [Work -> Positions] /\ err \in [Work -> BOOLEAN]
      /\ judged \in [Work -> BOOLEAN] /\ failed \in Nat
      /\ UNCHANGED resetVars
  BY UnitTypeStep DEF TypeOK, UnitTypeOK, TracerTypeOK
<1>1. \A v \in Work \ {w} : pc'[v] = pc[v] /\ err'[v] = err[v]
  BY UnitMoves, UnitErrs
<1>2. ASSUME UNCHANGED failed, \A v \in Work \ {w} : judged'[v] = judged[v],
             pc'[w] \in Completed /\ err'[w] <=> pc[w] \in Completed /\ err[w],
             pc'[w] = "judged" => judged'[w] = err'[w]
      PROVE  FailuresCounted'
  <2>1. FailedUnits' = FailedUnits
    BY <1>1, <1>2 DEF FailedUnits
  <2> QED
    BY <1>0, <1>1, <1>2, <2>1 DEF FailuresCounted, resetVars
<1>3. CASE Settle(w)
  <2>1. /\ pc[w] = "judged" /\ pc'[w] = "settled" /\ UNCHANGED err
        /\ failed' = IF judged[w] THEN failed + 1 ELSE failed
        /\ \A v \in Work \ {w} : judged'[v] = judged[v]
    BY <1>0, <1>3 DEF Settle, At
  <2>2. judged[w] = err[w]
    BY <2>1 DEF FailuresCounted
  <2>3. CASE ~err[w]
    BY <1>2, <2>1, <2>2, <2>3
  <2>4. CASE err[w]
    <3>1. w \notin FailedUnits /\ FailedUnits' = FailedUnits \cup {w}
      BY <1>1, <2>1, <2>4 DEF FailedUnits, Completed
    <3>2. Cardinality(FailedUnits') = Cardinality(FailedUnits) + 1
      BY <3>1, FailedUnitsFinite, FS_AddElement
    <3>3. \A v \in Work : pc'[v] = "judged" => judged'[v] = err'[v]
      BY <1>1, <2>1 DEF FailuresCounted
    <3> QED
      BY <1>0, <2>1, <2>2, <2>4, <3>2, <3>3 DEF FailuresCounted, resetVars
  <2> QED
    BY <2>3, <2>4
<1>4. CASE Judge(w)
  BY <1>0, <1>2, <1>4 DEF Judge, At, Completed, tracerVars, counterVars
<1>5. CASE RecordError(w) \/ EndWork(w)
  <2>1. /\ pc[w] = "running" /\ pc'[w] \in {"running", "ended"}
        /\ UNCHANGED <<failed, judged>>
    BY <1>0, <1>5 DEF RecordError, EndWork, At, tracerVars, counterVars
  <2> QED
    BY <1>2, <2>1 DEF Completed
<1>6. CASE ~Settle(w) /\ ~Judge(w) /\ ~RecordError(w) /\ ~EndWork(w)
  <2>1. UNCHANGED <<failed, err, judged>>
    BY <1>6 DEF Unit, Progress, PassThrough, Admit, CountUnsampled, Begin, NotifyBegun,
       Save, NotifyFinished, Release, Collect, tracerVars, counterVars, traceVars
  <2>2. (pc'[w] \in Completed <=> pc[w] \in Completed) /\ pc'[w] # "judged"
    BY <1>0, <1>6 DEF Unit, Progress, PassThrough, Admit, CountUnsampled, Begin,
       NotifyBegun, Save, NotifyFinished, Release, Collect, At, Completed
  <2> QED
    BY <1>2, <2>1, <2>2
<1> QED
  BY <1>3, <1>4, <1>5, <1>6

LEMMA FailuresStep ==
  TypeOK /\ Outliving = {} /\ FailuresCounted /\ [Next]_vars => FailuresCounted'
<1> SUFFICES ASSUME TypeOK, Outliving = {}, FailuresCounted, [Next]_vars
             PROVE  FailuresCounted'
  OBVIOUS
<1>1. ASSUME UNCHANGED <<pc, err, judged, failed, resetVars>> PROVE FailuresCounted'
  BY <1>1 DEF FailuresCounted, FailedUnits, resetVars
<1>2. ASSUME NEW w \in Work, Unit(w) PROVE FailuresCounted'
  BY <1>2, UnitFails
<1>3. ASSUME NEW r \in Readers, Reader(r) PROVE FailuresCounted'
  BY <1>1, <1>3, ReaderTypeStep DEF tracerVars, counterVars, unitVars, traceVars
<1>4. ASSUME NEW b \in BOOLEAN, SetEnabled(b) PROVE FailuresCounted'
  BY <1>1, <1>4 DEF SetEnabled, counterVars, unitVars, traceVars
<1>5. CASE ResetStorage
  <2>1. resets' = resets + 1 /\ resets \in Nat /\ UNCHANGED <<pc, err, judged>>
    BY <1>5 DEF ResetStorage, TypeOK, ResetTypeOK, unitVars, traceVars
  <2> QED
    BY <2>1 DEF FailuresCounted
<1>6. CASE ResetCounters
  <2>1. resets > 0 /\ resets \in Nat
    BY <1>6 DEF ResetCounters, FailuresCounted, TypeOK, ResetTypeOK
  <2>2. UNCHANGED <<pc, err, judged, resets>>
    BY <1>6 DEF ResetCounters, unitVars, traceVars
  <2> QED
    BY <2>1, <2>2 DEF FailuresCounted
<1>7. CASE UNCHANGED vars
  BY <1>1, <1>7 DEF vars, tracerVars, counterVars, unitVars, traceVars
<1> QED
  BY <1>2, <1>3, <1>4, <1>5, <1>6, <1>7 DEF Next

(* Each failure that is retained is that of another failed unit.           *)
LEMMA RetainedFailures ==
  ASSUME TypeOK, KeptInv
  PROVE  Cardinality({n \in DOMAIN log : log[n].failed}) <= Cardinality(FailedUnits)
<1> DEFINE N == {n \in DOMAIN log : log[n].failed}
           f == [n \in N |-> log[n].of]
<1>1. f \in [N -> FailedUnits]
  <2> SUFFICES ASSUME NEW n \in DOMAIN log, log[n].failed
               PROVE  log[n].of \in FailedUnits
    OBVIOUS
  <2>1. log[n].of \in Work
    BY LogUnits
  <2>2. err[log[n].of] /\ pc[log[n].of] \in Settled
    BY DEF KeptInv, LogInv, LogIsSettled, FailuresKept, Settled
  <2> QED
    BY <2>1, <2>2 DEF FailedUnits, Settled, Completed
<1>2. \A m, n \in N : f[m] = f[n] => m = n
  BY DEF KeptInv, LogInv, LogIsUnique
<1>3. f \in Injection(N, FailedUnits)
  BY <1>1, <1>2 DEF Injection, IsInjective
<1> QED
  BY <1>3, FailedUnitsFinite, FS_Injection

LEMMA CountersInit == Init => KeptInv /\ Totals /\ FailuresCounted
<1> SUFFICES ASSUME Init PROVE KeptInv /\ Totals /\ FailuresCounted
  OBVIOUS
<1>1. RegistryInv /\ Totals
  BY RegistryInit, TotalsInit
<1>2. KeptInv
  BY <1>1 DEF Init, KeptInv, LogInv, LogIsSettled, LogIsUnique, FailuresKept
<1>3. FailedUnits = {} /\ failed = 0 /\ resets = 0 /\ rstate = "idle"
  BY DEF Init, FailedUnits, Completed
<1>4. FailuresCounted
  BY <1>3, FS_EmptySet DEF Init, FailuresCounted
<1> QED
  BY <1>1, <1>2, <1>4

(* Every unit counted is counted once as sampled or not and once under a   *)
(* host, and a failed unit is never retained as a success, whatever is     *)
(* left behind, fails or is reset (tracer.go:230-236, 470-484, 524-531).   *)
THEOREM TracerTotals ==
  Spec => [](Totals /\ \A n \in DOMAIN log : ended[log[n].of] = "failed" => log[n].failed)
<1>1. KeptInv => \A n \in DOMAIN log : ended[log[n].of] = "failed" => log[n].failed
  BY DEF KeptInv, FailuresKept
<1>2. KeptInv /\ Totals /\ [Next]_vars => (KeptInv /\ Totals)'
  BY KeptStep, TotalsStep DEF KeptInv, LogInv, RegistryInv
<1> QED
  BY <1>1, <1>2, CountersInit, PTL DEF Spec

(* All of it together: unless a unit leaves a goroutine behind that still  *)
(* records, no more failures are retained than were counted, up to the     *)
(* first Reset (model.go:243, tracer.go:258-271).                          *)
THEOREM TracerCounters == ASSUME Outliving = {} PROVE Spec => []CountersAgree
<1> DEFINE Inv == KeptInv /\ Totals /\ FailuresCounted
<1>1. Inv => CountersAgree
  <2> SUFFICES ASSUME Inv PROVE CountersAgree
    OBVIOUS
  <2>1. TypeOK
    BY DEF KeptInv, LogInv, RegistryInv
  <2>2. resets = 0 => Cardinality({n \in DOMAIN log : log[n].failed}) <= failed
    BY <2>1, RetainedFailures DEF FailuresCounted
  <2> QED
    BY <2>2 DEF KeptInv, FailuresKept, Totals, CountersAgree
<1>2. Inv /\ [Next]_vars => Inv'
  BY KeptStep, TotalsStep, FailuresStep DEF KeptInv, LogInv, RegistryInv
<1> QED
  BY <1>1, <1>2, CountersInit, PTL DEF Spec

-----------------------------------------------------------------------------
(* The state times, when no client chooses an ID: those of a sampled unit  *)
(* are with the tracer from Settle on and with its registered trace before *)
(* it, so the two together are the sampled units since the program began.  *)
Unsettled == Early \cup Open

TimedOnce ==
  \A w \in Work : timed[w] <= 1 /\ (pc[w] \in Unsettled => timed[w] = 0)

Balanced ==
  /\ failed <= SumFunction(timed)
  /\ rstate = "cleared" => resets > 0
  /\ resets = 0 => sampled = SumFunction(timed) + Cardinality(Registered)

TimesInv == LookupInv /\ TimedOnce /\ Balanced

LEMMA RegisteredFinite ==
  ASSUME TypeOK
  PROVE  /\ Registered \in SUBSET Work /\ IsFiniteSet(Registered)
         /\ Cardinality(Registered) \in Nat
<1>1. Registered \in SUBSET Work
  BY DEF Registered, TypeOK, TracerTypeOK
<1> QED
  BY <1>1, FS_Subset, FS_CardinalityType

(* Begin registers the unit and Settle removes it. *)
LEMMA RegisteredBegin ==
  ASSUME LookupInv, ClientIds = {}, NEW w \in Work, Begin(w)
  PROVE  w \notin Registered /\ Registered' = Registered \cup {w}
<1>1. active \in [Ids -> Work \cup {NoTrace}] /\ w \in Ids
  BY DEF LookupInv, RegistryInv, TypeOK, TracerTypeOK, Ids
<1>2. active' = [active EXCEPT ![w] = w]
  BY DEF Begin, IdChoices, Register
<1>3. \A i \in Ids : active[i] # NoTrace => active[i] = i /\ pc[i] \in Open
  BY <1>1 DEF LookupInv, RegistryInv, RegisteredIsOpen, OwnIds
<1>4. pc[w] \notin Open
  BY DEF Begin, At, Open
<1>5. active[w] = NoTrace
  BY <1>1, <1>3, <1>4
<1> QED
  BY <1>1, <1>2, <1>3, <1>5 DEF Registered

LEMMA RegisteredSettle ==
  ASSUME LookupInv, NEW w \in Work, Settle(w)
  PROVE  w \in Registered /\ Registered' = Registered \ {w}
<1>1. active \in [Ids -> Work \cup {NoTrace}] /\ w \in Ids
  BY DEF LookupInv, RegistryInv, TypeOK, TracerTypeOK, Ids
<1>2. id[w] = w /\ active[w] = w
  BY DEF LookupInv, OwnIds, Settle, At, Open
<1>3. active' = [active EXCEPT ![w] = NoTrace]
  BY <1>2 DEF Settle, Unregister
<1>4. \A i \in Ids : active[i] # NoTrace => active[i] = i
  BY <1>1 DEF LookupInv, RegistryInv, RegisteredIsOpen, OwnIds
<1> QED
  BY <1>1, <1>2, <1>3, <1>4 DEF Registered

(* A unit that has settled does not go back. *)
LEMMA UnitSettles ==
  ASSUME TypeOK, NEW w \in Work, Unit(w), ~Settle(w)
  PROVE  /\ UNCHANGED timed
         /\ pc'[w] \in Unsettled => pc[w] \in Unsettled
BY DEF Unit, Progress, PassThrough, Admit, CountUnsampled, Begin, NotifyBegun, RecordError,
   EndWork, Judge, Save, NotifyFinished, Release, Collect, At, Open, Early, Unsettled, TypeOK,
   UnitTypeOK, tracerVars, counterVars

LEMMA UnitBalances ==
  ASSUME TimesInv, ClientIds = {}, NEW w \in Work, Unit(w)
  PROVE  TimedOnce' /\ Balanced'
<1>0. /\ TypeOK /\ sampled \in Nat /\ failed \in Nat /\ timed \in [Work -> Nat]
      /\ pc \in [Work -> Positions] /\ resets \in Nat /\ SumFunction(timed) \in Nat
      /\ Cardinality(Registered) \in Nat /\ IsFiniteSet(Registered)
      /\ UNCHANGED <<rstate, resets>>
  <2>1. TypeOK
    BY DEF TimesInv, LookupInv, RegistryInv
  <2>2. timed \in [Work -> Nat]
    BY <2>1 DEF TypeOK, TracerTypeOK
  <2>3. SumFunction(timed) \in Nat
    BY <2>2, SumNat
  <2> QED
    BY <2>1, <2>2, <2>3, RegisteredFinite, UnitTypeStep
    DEF TypeOK, TracerTypeOK, UnitTypeOK, ResetTypeOK, resetVars
<1>1. \A v \in Work \ {w} : pc'[v] = pc[v]
  BY <1>0, UnitMoves
<1>2. CASE Settle(w)
  <2>1. /\ pc[w] \in Unsettled /\ pc'[w] \notin Unsettled /\ UNCHANGED sampled
        /\ timed' = [timed EXCEPT ![w] = @ + 1] /\ failed' \in {failed, failed + 1}
    BY <1>0, <1>2 DEF Settle, At, Unsettled, Early, Open
  <2>2. TimedOnce'
    BY <1>0, <1>1, <2>1 DEF TimesInv, TimedOnce
  <2>3. SumFunction(timed') = SumFunction(timed) + 1
    BY <1>0, <2>1, SumOneMore, Zenon
  <2>4. Cardinality(Registered') = Cardinality(Registered) - 1
    <3>1. w \in Registered /\ Registered' = Registered \ {w}
      BY <1>2, RegisteredSettle DEF TimesInv
    <3> QED
      BY <1>0, <3>1, FS_RemoveElement
  <2> QED
    BY <1>0, <2>1, <2>2, <2>3, <2>4 DEF TimesInv, Balanced
<1>3. ASSUME ~Settle(w) PROVE TimedOnce' /\ SumFunction(timed') = SumFunction(timed)
  BY <1>0, <1>1, <1>3, UnitSettles DEF TimesInv, TimedOnce
<1>4. CASE Begin(w)
  <2>1. TimedOnce' /\ SumFunction(timed') = SumFunction(timed)
    BY <1>0, <1>3, <1>4 DEF Begin, Settle, At
  <2>2. sampled' = sampled + 1 /\ UNCHANGED failed
    BY <1>4 DEF Begin
  <2>3. Cardinality(Registered') = Cardinality(Registered) + 1
    <3>1. w \notin Registered /\ Registered' = Registered \cup {w}
      BY <1>4, RegisteredBegin DEF TimesInv
    <3> QED
      BY <1>0, <3>1, FS_AddElement
  <2> QED
    BY <1>0, <2>1, <2>2, <2>3 DEF TimesInv, Balanced
<1>5. CASE ~Begin(w) /\ ~Settle(w)
  <2>1. UNCHANGED <<active, sampled, failed>>
    BY <1>5 DEF Unit, Progress, PassThrough, Admit, CountUnsampled, NotifyBegun, RecordError,
       EndWork, Judge, Save, NotifyFinished, Release, Collect, tracerVars, counterVars
  <2>2. Registered' = Registered
    BY <2>1 DEF Registered
  <2> QED
    BY <1>0, <1>3, <1>5, <2>1, <2>2 DEF TimesInv, Balanced
<1> QED
  BY <1>2, <1>4, <1>5

LEMMA TimesStep == TimesInv /\ ClientIds = {} /\ [Next]_vars => TimesInv'
<1> SUFFICES ASSUME TimesInv, ClientIds = {}, [Next]_vars
             PROVE  TimedOnce' /\ Balanced'
  BY LookupStep DEF TimesInv
<1>0. TypeOK /\ TimedOnce /\ Balanced
  BY DEF TimesInv, LookupInv, RegistryInv
<1>1. ASSUME UNCHANGED <<active, pc, timed, failed, sampled, rstate, resets>>
      PROVE  TimedOnce' /\ Balanced'
  BY <1>0, <1>1 DEF TimedOnce, Balanced, Registered
<1>2. ASSUME NEW w \in Work, Unit(w) PROVE TimedOnce' /\ Balanced'
  BY <1>2, UnitBalances
<1>3. ASSUME NEW r \in Readers, Reader(r) PROVE TimedOnce' /\ Balanced'
  BY <1>0, <1>1, <1>3, ReaderTypeStep DEF tracerVars, counterVars, unitVars, resetVars
<1>4. ASSUME NEW b \in BOOLEAN, SetEnabled(b) PROVE TimedOnce' /\ Balanced'
  BY <1>1, <1>4 DEF SetEnabled, counterVars, unitVars, resetVars
<1>5. CASE ResetStorage
  <2>1. resets' = resets + 1 /\ resets \in Nat /\ UNCHANGED <<active, pc, counterVars>>
    BY <1>0, <1>5 DEF ResetStorage, TypeOK, ResetTypeOK, unitVars
  <2> QED
    BY <1>0, <2>1 DEF TimedOnce, Balanced, counterVars
<1>6. CASE ResetCounters
  <2>1. resets > 0 /\ resets' = resets /\ resets \in Nat /\ rstate' = "idle"
    BY <1>0, <1>6 DEF ResetCounters, Balanced, TypeOK, ResetTypeOK
  <2>2. failed' = 0 /\ timed' = [w \in Work |-> 0]
    BY <1>6 DEF ResetCounters
  <2>3. SumFunction(timed') = 0
    BY <2>2, SumZero
  <2> QED
    BY <2>1, <2>2, <2>3 DEF TimedOnce, Balanced
<1>7. CASE UNCHANGED vars
  BY <1>1, <1>7 DEF vars, tracerVars, counterVars, unitVars, resetVars
<1> QED
  BY <1>2, <1>3, <1>4, <1>5, <1>6, <1>7 DEF Next

(* What a Snapshot has copied and what it has yet to clone are together    *)
(* what the tracer and its registered traces had when it took the lock.    *)
Holds(v, left) ==
  /\ \A w \in Work : v.timed[w] <= 1 /\ (w \in left => v.timed[w] = 0)
  /\ v.sampled = SumFunction(v.timed) + Cardinality(left)
  /\ v.failed + Cardinality(v.live) + Cardinality(left) <= v.sampled

Balances(r) ==
  /\ rpc[r] = "missed" => op[r] = "Trace"
  /\ IsFiniteSet(view[r].live)
  /\ resets = 0 /\ op[r] = "Snapshot" /\ rpc[r] \in {"cloning", "listing", "done"} =>
       Holds(view[r], todo[r])

SnapshotInv == TimesInv /\ \A r \in Readers : Balances(r)

LEMMA SnapshotInit == Init => SnapshotInv
<1> SUFFICES ASSUME Init PROVE SnapshotInv
  OBVIOUS
<1>1. LookupInv
  BY LookupInit
<1>2. TimedOnce
  BY DEF Init, TimedOnce
<1>3. SumFunction(timed) = 0
  BY SumZero DEF Init
<1>4. Registered = {}
  BY DEF Init, Registered
<1>5. Balanced
  BY <1>3, <1>4, FS_EmptySet DEF Init, Balanced
<1>6. \A r \in Readers : Balances(r)
  BY FS_EmptySet DEF Init, Balances, EmptyView
<1> QED
  BY <1>1, <1>2, <1>5, <1>6 DEF SnapshotInv, TimesInv

LEMMA StartHolds ==
  ASSUME TimesInv, resets = 0, NEW v \in View,
         v.sampled = sampled, v.failed = failed, v.timed = timed, v.live = {}
  PROVE  Holds(v, Registered)
<1>0. /\ TypeOK /\ timed \in [Work -> Nat] /\ failed \in Nat /\ sampled \in Nat
      /\ active \in [Ids -> Work \cup {NoTrace}]
  BY DEF TimesInv, LookupInv, RegistryInv, TypeOK, TracerTypeOK
<1>1. SumFunction(timed) \in Nat /\ Cardinality(Registered) \in Nat
  BY <1>0, SumNat, RegisteredFinite
<1>2. \A w \in Registered : pc[w] \in Unsettled
  BY <1>0 DEF TimesInv, LookupInv, RegistryInv, RegisteredIsOpen, Registered, Unsettled
<1>3. \A w \in Work : v.timed[w] <= 1 /\ (w \in Registered => v.timed[w] = 0)
  BY <1>2 DEF TimesInv, TimedOnce
<1>4. v.sampled = SumFunction(v.timed) + Cardinality(Registered)
  BY DEF TimesInv, Balanced
<1>5. v.failed + Cardinality(v.live) + Cardinality(Registered) <= v.sampled
  BY <1>0, <1>1, FS_EmptySet DEF TimesInv, Balanced
<1> QED
  BY <1>3, <1>4, <1>5 DEF Holds

LEMMA CloneHolds ==
  ASSUME NEW v \in View, IsFiniteSet(v.live), NEW left \in SUBSET Work, NEW w \in left,
         NEW x \in View, Holds(v, left),
         x.sampled = v.sampled, x.failed = v.failed,
         x.timed = [v.timed EXCEPT ![w] = @ + 1], NEW c, x.live = v.live \cup {c}
  PROVE  Holds(x, left \ {w})
<1>0. v.timed \in [Work -> Nat] /\ v.sampled \in Nat /\ v.failed \in Nat
  BY DEF View
<1>1. IsFiniteSet(left) /\ Cardinality(left) \in Nat
  BY FS_Subset, FS_CardinalityType
<1>2. Cardinality(left \ {w}) = Cardinality(left) - 1
  BY <1>1, FS_RemoveElement
<1>3. /\ Cardinality(v.live) \in Nat
      /\ Cardinality(x.live) = Cardinality(v.live)
           \/ Cardinality(x.live) = Cardinality(v.live) + 1
  <2>1. PICK L : L = v.live
    OBVIOUS
  <2>2. Cardinality(L) \in Nat
    BY <2>1, FS_CardinalityType
  <2>3. Cardinality(L \cup {c}) = IF c \in L THEN Cardinality(L) ELSE Cardinality(L) + 1
    BY <2>1, FS_AddElement
  <2> QED
    BY <2>1, <2>2, <2>3
<1>4. /\ SumFunction(v.timed) \in Nat
      /\ SumFunction(x.timed) = SumFunction(v.timed) + 1
  <2>1. PICK t \in [Work -> Nat] : t = v.timed
    BY <1>0
  <2>2. SumFunction(t) \in Nat /\ SumFunction([t EXCEPT ![w] = @ + 1]) = SumFunction(t) + 1
    BY SumOneMore
  <2> QED
    BY <2>1, <2>2
<1>5. \A u \in Work : x.timed[u] <= 1 /\ (u \in left \ {w} => x.timed[u] = 0)
  BY <1>0 DEF Holds
<1>6. x.sampled = SumFunction(x.timed) + Cardinality(left \ {w})
  BY <1>0, <1>1, <1>2, <1>4 DEF Holds
<1>7. x.failed + Cardinality(x.live) + Cardinality(left \ {w}) <= x.sampled
  BY <1>0, <1>1, <1>2, <1>3 DEF Holds
<1> QED
  BY <1>5, <1>6, <1>7 DEF Holds

(* A step of reader r, seen by itself. *)
LEMMA ReaderBalances ==
  ASSUME SnapshotInv, NEW r \in Readers, Reader(r)
  PROVE  Balances(r)'
<1>0. /\ TypeOK /\ TypeOK' /\ TimesInv /\ Balances(r) /\ ReadersHold
      /\ UNCHANGED <<tracerVars, unitVars, resets>>
      /\ rpc \in [Readers -> {"idle", "missed", "cloning", "listing", "done"}]
      /\ op \in [Readers -> {"none", "Snapshot", "Live", "Trace"}]
      /\ todo \in [Readers -> SUBSET Work] /\ view \in [Readers -> View]
      /\ view' \in [Readers -> View]
  <2>1. TypeOK /\ TimesInv /\ Balances(r) /\ ReadersHold
    BY DEF SnapshotInv, TimesInv, LookupInv, RegistryInv
  <2>2. TypeOK'
    BY <2>1, TypeStep DEF Next
  <2>3. UNCHANGED <<tracerVars, unitVars, resets>>
    BY <2>1, ReaderTypeStep DEF resetVars
  <2> QED
    BY <2>1, <2>2, <2>3 DEF TypeOK, ReaderTypeOK
<1>1. ASSUME NEW o \in {"Snapshot", "Live"}, StartRead(r, o) PROVE Balances(r)'
  <2>1. op'[r] = o /\ todo'[r] = Registered /\ rpc'[r] = "cloning"
    BY <1>0, <1>1 DEF StartRead
  <2>2. CASE o = "Live"
    BY <1>0, <1>1, <2>1, <2>2 DEF StartRead, Balances
  <2>3. CASE o = "Snapshot"
    <3>1. /\ view'[r] \in View /\ view'[r].sampled = sampled /\ view'[r].failed = failed
          /\ view'[r].timed = timed /\ view'[r].live = {}
      BY <1>0, <1>1, <2>3 DEF StartRead
    <3>2. resets = 0 => Holds(view'[r], Registered)
      BY <1>0, <3>1, StartHolds
    <3>3. IsFiniteSet(view'[r].live)
      BY <3>1, FS_EmptySet
    <3> QED
      BY <1>0, <2>1, <3>2, <3>3 DEF Balances, Holds
  <2> QED
    BY <2>2, <2>3
<1>2. ASSUME NEW i \in Ids, LookupStored(r, i) PROVE Balances(r)'
  <2>1. op'[r] = "Trace" /\ UNCHANGED view
    BY <1>0, <1>2 DEF LookupStored
  <2> QED
    BY <1>0, <2>1 DEF Balances
<1>3. CASE LookupActive(r)
  <2>1. op'[r] = "Trace" /\ UNCHANGED view /\ rpc'[r] = "cloning"
    BY <1>0, <1>3 DEF LookupActive, Balances
  <2> QED
    BY <1>0, <2>1 DEF Balances
<1>4. ASSUME NEW w \in Work, CloneOne(r, w) PROVE Balances(r)'
  <2>1. /\ rpc[r] = "cloning" /\ UNCHANGED <<rpc, op>> /\ w \in todo[r]
        /\ todo'[r] = todo[r] \ {w} /\ view'[r] = WithClone(view[r], w, op[r])
    BY <1>0, <1>4 DEF CloneOne
  <2>2. PICK v \in View : v = view[r]
    BY <1>0
  <2>3. PICK x \in View : x = view'[r]
    BY <1>0
  <2>4. /\ x.live = v.live \cup {Clone(w)} /\ x.sampled = v.sampled /\ x.failed = v.failed
        /\ op[r] = "Snapshot" => x.timed = [v.timed EXCEPT ![w] = @ + 1]
    BY <2>1, <2>2, <2>3 DEF WithClone, View
  <2>5. IsFiniteSet(v.live) /\ IsFiniteSet(x.live)
    <3>1. PICK L : L = v.live
      OBVIOUS
    <3>2. IsFiniteSet(L) /\ IsFiniteSet(L \cup {Clone(w)})
      BY <1>0, <2>2, <3>1, FS_AddElement DEF Balances
    <3> QED
      BY <2>4, <3>1, <3>2
  <2>6. ASSUME resets = 0, op[r] = "Snapshot" PROVE Holds(x, todo[r] \ {w})
    <3>1. Holds(v, todo[r]) /\ todo[r] \in SUBSET Work
      BY <1>0, <2>1, <2>2, <2>6 DEF Balances
    <3> QED
      BY <2>1, <2>4, <2>5, <2>6, <3>1, CloneHolds
  <2> QED
    BY <1>0, <2>1, <2>3, <2>5, <2>6 DEF Balances, Holds
<1>5. CASE Unlock(r) \/ ListLog(r)
  <2>1. /\ rpc[r] \in {"cloning", "listing"} /\ rpc'[r] \in {"listing", "done"}
        /\ UNCHANGED <<op, todo>>
    BY <1>0, <1>5 DEF Unlock, ListLog
  <2>2. /\ view'[r].sampled = view[r].sampled /\ view'[r].failed = view[r].failed
        /\ view'[r].timed = view[r].timed /\ view'[r].live = view[r].live
    BY <1>0, <1>5 DEF Unlock, ListLog, View
  <2> QED
    BY <1>0, <2>1, <2>2 DEF Balances, Holds
<1>6. CASE Return(r)
  <2>1. rpc'[r] = "idle" /\ view'[r] = EmptyView
    BY <1>0, <1>6 DEF Return
  <2> QED
    BY <2>1, FS_EmptySet DEF Balances, EmptyView
<1> QED
  BY <1>1, <1>2, <1>3, <1>4, <1>5, <1>6 DEF Reader

LEMMA SnapshotStep == SnapshotInv /\ ClientIds = {} /\ [Next]_vars => SnapshotInv'
<1> SUFFICES ASSUME SnapshotInv, ClientIds = {}, [Next]_vars, NEW r \in Readers
             PROVE  Balances(r)'
  BY TimesStep DEF SnapshotInv
<1>0. Balances(r) /\ TypeOK /\ resets \in Nat
  BY DEF SnapshotInv, TimesInv, LookupInv, RegistryInv, TypeOK, ResetTypeOK
<1>1. ASSUME UNCHANGED readerVars, resets' = 0 => resets = 0 PROVE Balances(r)'
  BY <1>0, <1>1 DEF Balances, Holds, readerVars
<1>2. ASSUME NEW w \in Work, Unit(w) PROVE Balances(r)'
  BY <1>0, <1>1, <1>2, UnitTypeStep DEF resetVars
<1>3. ASSUME NEW q \in Readers, Reader(q) PROVE Balances(r)'
  <2>1. CASE q = r
    BY <1>3, <2>1, ReaderBalances
  <2>2. CASE q # r
    <3>1. /\ rpc'[r] = rpc[r] /\ op'[r] = op[r] /\ todo'[r] = todo[r]
          /\ view'[r] = view[r]
      BY <1>0, <1>3, <2>2, ReadersApart
    <3>2. resets' = resets
      BY <1>0, <1>3, ReaderTypeStep DEF resetVars
    <3> QED
      BY <1>0, <3>1, <3>2 DEF Balances, Holds
  <2> QED
    BY <2>1, <2>2
<1>4. ASSUME NEW b \in BOOLEAN, SetEnabled(b) PROVE Balances(r)'
  BY <1>1, <1>4 DEF SetEnabled, resetVars
<1>5. CASE ResetStorage \/ ResetCounters
  BY <1>0, <1>1, <1>5 DEF ResetStorage, ResetCounters
<1>6. CASE UNCHANGED vars
  BY <1>1, <1>6 DEF vars, resetVars
<1> QED
  BY <1>2, <1>3, <1>4, <1>5, <1>6 DEF Next

(* Unless clients choose IDs, a finished Snapshot has the state time of    *)
(* each sampled unit exactly once and counts no live trace as failed, up   *)
(* to the first Reset and for any number of readers and units that move    *)
(* from active to finished around its copy (tracer.go:324-350, 258-271).   *)
THEOREM TracerSnapshots == ASSUME ClientIds = {} PROVE Spec => []SnapshotBalances
<1>1. SnapshotInv => SnapshotBalances
  <2> SUFFICES ASSUME SnapshotInv, NEW r \in Readers,
                      rpc[r] = "done", op[r] = "Snapshot", resets = 0
               PROVE  /\ \A w \in Work : view[r].timed[w] <= 1
                      /\ view[r].sampled = SumFunction(view[r].timed)
                      /\ view[r].failed + Cardinality(view[r].live) <= view[r].sampled
    BY DEF SnapshotBalances
  <2>1. Holds(view[r], todo[r]) /\ IsFiniteSet(view[r].live)
    BY DEF SnapshotInv, Balances
  <2>2. todo[r] = {}
    BY DEF SnapshotInv, TimesInv, LookupInv, RegistryInv, ReadersHold
  <2>3. view[r] \in View
    BY DEF SnapshotInv, TimesInv, LookupInv, RegistryInv, TypeOK, ReaderTypeOK
  <2>4. /\ Cardinality(todo[r]) = 0 /\ Cardinality(view[r].live) \in Nat
        /\ SumFunction(view[r].timed) \in Nat /\ view[r].failed \in Nat
    <3>1. view[r].timed \in [Work -> Nat] /\ view[r].failed \in Nat
      BY <2>3 DEF View
    <3> QED
      BY <2>1, <2>2, <3>1, SumNat, FS_EmptySet, FS_CardinalityType
  <2> QED
    BY <2>1, <2>4 DEF Holds
<1>2. SnapshotInv /\ [Next]_vars => SnapshotInv'
  BY SnapshotStep
<1> QED
  BY <1>1, <1>2, SnapshotInit, PTL DEF Spec

-----------------------------------------------------------------------------
(* The tracer implements Recording. Type correctness is all it needs: that *)
(* a unit takes each step once is its goroutine's order, whatever is       *)
(* registered under its ID.                                                *)
stages == [w \in Work |-> Stage(pc[w])]

LEMMA RecordInit == Init => Record!Init
<1> SUFFICES ASSUME Init PROVE Record!Init
  OBVIOUS
<1>1. \A w \in Work : Stage(pc[w]) = "new"
  BY DEF Init, Stage
<1>2. stages = [w \in Work |-> "new"]
  BY <1>1 DEF stages
<1> QED
  BY <1>2 DEF Init, Record!Init, stages

LEMMA RecordStutters ==
  ASSUME UNCHANGED <<sampled, failed, log>>, \A w \in Work : Stage(pc'[w]) = Stage(pc[w])
  PROVE  UNCHANGED Record!vars
<1>1. stages' = stages
  BY DEF stages
<1> QED
  BY <1>1 DEF Record!vars, stages

(* A goroutine that moves on moves its unit, and no other. *)
LEMMA StageMoves ==
  ASSUME TypeOK, NEW w \in Work, NEW p, NEW q, At(w, p, q), Stage(p) # Stage(q)
  PROVE  Record!Moves(w, Stage(p), Stage(q))
<1>1. pc \in [Work -> Positions] /\ pc[w] = p /\ pc' = [pc EXCEPT ![w] = q]
  BY DEF TypeOK, UnitTypeOK, At
<1>2. stages[w] = Stage(p) /\ stages' = [stages EXCEPT ![w] = Stage(q)]
  BY <1>1 DEF stages
<1> QED
  BY <1>2 DEF Record!Moves, stages

LEMMA UnitRecords ==
  ASSUME TypeOK, NEW w \in Work, Unit(w)
  PROVE  [Record!Next]_Record!vars
<1>0. pc \in [Work -> Positions]
  BY DEF TypeOK, UnitTypeOK
<1>1. CASE Begin(w)
  <2>1. Record!Moves(w, "new", "inFlight")
    <3>1. At(w, "admitted", "begun") /\ Stage("admitted") = "new" /\ Stage("begun") = "inFlight"
      BY <1>1 DEF Begin, Stage, Open
    <3> QED
      BY <3>1, StageMoves
  <2>2. Record!Start(w)
    BY <1>1, <2>1 DEF Begin, Record!Start
  <2> QED
    BY <2>2 DEF Record!Next
<1>2. CASE Settle(w)
  <2>1. Record!Moves(w, "inFlight", "finished")
    <3>1. /\ At(w, "judged", "settled")
          /\ Stage("judged") = "inFlight" /\ Stage("settled") = "finished"
      BY <1>2 DEF Settle, Stage, Open
    <3> QED
      BY <3>1, StageMoves
  <2>2. Record!Finish(w)
    BY <1>2, <2>1 DEF Settle, Record!Finish
  <2> QED
    BY <2>2 DEF Record!Next
<1>3. CASE Save(w)
  <2>1. Record!Moves(w, "finished", "over")
    <3>1. At(w, "settled", "saved") /\ Stage("settled") = "finished" /\ Stage("saved") = "over"
      BY <1>3 DEF Save, Stage, Open
    <3> QED
      BY <3>1, StageMoves
  <2>2. Clone(w) \in Entry /\ Clone(w).of = w
    BY DEF Clone, Entry, TypeOK, UnitTypeOK
  <2>3. \/ log' = Record!Saved(log, Clone(w), Cap)
        \/ StorageMayFail /\ UNCHANGED log
    BY <1>3
    DEF Save, Retain, Saved, Newest, Smaller, Record!Saved, Record!Newest, Record!Smaller
  <2>4. UNCHANGED <<sampled, failed>>
    BY <1>3 DEF Save, counterVars
  <2>5. Record!Keep(w)
    BY <2>1, <2>2, <2>3, <2>4 DEF Record!Keep
  <2> QED
    BY <2>5 DEF Record!Next
<1>4. CASE ~Begin(w) /\ ~Settle(w) /\ ~Save(w)
  <2>1. /\ UNCHANGED <<sampled, failed, log>>
        /\ \/ UNCHANGED pc
           \/ \E p, q \in Positions :
                pc[w] = p /\ pc' = [pc EXCEPT ![w] = q] /\ Stage(p) = Stage(q)
    <3>1. UNCHANGED <<sampled, failed, log>>
      BY <1>4 DEF Unit, Progress, PassThrough, Admit, CountUnsampled, NotifyBegun, RecordError,
         EndWork, Judge, NotifyFinished, Release, Collect, tracerVars, counterVars
    <3>2. \/ UNCHANGED pc
          \/ At(w, "idle", "untraced") \/ At(w, "admitted", "untraced")
          \/ At(w, "idle", "admitted")
          \/ At(w, "begun", "running") \/ At(w, "running", "ended") \/ At(w, "ended", "judged")
          \/ At(w, "saved", "closed") \/ At(w, "closed", "released")
      BY <1>4 DEF Unit, Progress, PassThrough, Admit, CountUnsampled, NotifyBegun, RecordError,
         EndWork, Judge, NotifyFinished, Release, Collect, At
    <3>3. /\ Stage("idle") = Stage("untraced") /\ Stage("admitted") = Stage("untraced")
          /\ Stage("idle") = Stage("admitted") /\ Stage("begun") = Stage("running")
          /\ Stage("running") = Stage("ended") /\ Stage("ended") = Stage("judged")
          /\ Stage("saved") = Stage("closed") /\ Stage("closed") = Stage("released")
      BY DEF Stage, Open
    <3> QED
      BY <3>1, <3>2, <3>3 DEF At, Positions
  <2>2. \A v \in Work : Stage(pc'[v]) = Stage(pc[v])
    BY <1>0, <2>1
  <2> QED
    BY <2>1, <2>2, RecordStutters
<1> QED
  BY <1>1, <1>2, <1>3, <1>4

(* Reset's halves and the application's switch. *)
LEMMA ControlRecords ==
  ASSUME (\E b \in BOOLEAN : SetEnabled(b)) \/ ResetStorage \/ ResetCounters
  PROVE  [Record!Next]_Record!vars
<1>0. UNCHANGED pc /\ stages' = stages
  BY DEF SetEnabled, ResetStorage, ResetCounters, unitVars, stages
<1>1. CASE \E b \in BOOLEAN : SetEnabled(b)
  BY <1>0, <1>1, RecordStutters DEF SetEnabled, counterVars
<1>2. CASE ResetStorage
  <2>1. UNCHANGED <<sampled, failed>>
    BY <1>2 DEF ResetStorage, counterVars
  <2>2. CASE log' = << >>
    BY <1>0, <2>1, <2>2 DEF Record!Next, Record!DropKept, stages
  <2>3. CASE UNCHANGED log
    BY <1>0, <2>1, <2>3, RecordStutters
  <2> QED
    BY <1>2, <2>2, <2>3 DEF ResetStorage
<1>3. CASE ResetCounters
  BY <1>0, <1>3 DEF ResetCounters, Record!Next, Record!DropCounts, stages
<1> QED
  BY <1>1, <1>2, <1>3

LEMMA RecordStep == TypeOK /\ [Next]_vars => [Record!Next]_Record!vars
<1> SUFFICES ASSUME TypeOK, [Next]_vars PROVE [Record!Next]_Record!vars
  OBVIOUS
<1>1. ASSUME NEW r \in Readers, Reader(r) PROVE UNCHANGED Record!vars
  <2>1. UNCHANGED <<tracerVars, unitVars>>
    BY <1>1, ReaderTypeStep
  <2> QED
    BY <2>1, RecordStutters DEF tracerVars, unitVars, counterVars
<1>2. CASE UNCHANGED vars
  BY <1>2, RecordStutters DEF vars, tracerVars, unitVars, counterVars
<1> QED
  BY <1>1, <1>2, UnitRecords, ControlRecords DEF Next

(* For any units, readers, client-chosen IDs, limit and Resets, whatever   *)
(* fails: a sampled unit is counted, finished and offered to the storage   *)
(* once and in this order, as its own trace, and Reset takes none out of   *)
(* its course (tracer.go:222-277, 468-484).                                *)
THEOREM TracerImplementsRecording == Spec => ImplementsRecording
<1>1. Init => TypeOK
  BY TypeInit
<1>2. TypeOK /\ [Next]_vars => TypeOK'
  BY TypeStep
<1> QED
  BY <1>1, <1>2, RecordInit, RecordStep, PTL DEF Spec, ImplementsRecording, Record!Spec

(* What the tracer retains is a bounded log of the clones it saves, of the *)
(* limit the storage was made with; RingImplementsBoundedLog says that the *)
(* ring is one (tracer.go:273, memory_storage.go:28-40).                   *)
THEOREM TracerRetains == Spec => RetainsAsBoundedLog
<1>1. Init => Storage!Init
  BY DEF Init, Storage!Init
<1>2. TypeOK /\ [Next]_vars => [Storage!Next]_Storage!vars
  <2> SUFFICES ASSUME TypeOK, [Next]_vars PROVE [Storage!Next]_Storage!vars
    OBVIOUS
  <2>1. UNCHANGED log => UNCHANGED Storage!vars
    BY DEF Storage!vars
  <2>2. log' = << >> => Storage!Next
    BY DEF Storage!Next, Storage!Clear
  <2>3. ASSUME NEW w \in Work, log' = Saved(log, Clone(w), Cap)
        PROVE  Storage!Next
    <3>1. Clone(w) \in Entry
      BY DEF Clone, Entry, TypeOK, UnitTypeOK
    <3>2. log' = Storage!Saved(log, Clone(w), Cap)
      BY <2>3 DEF Saved, Newest, Smaller, Storage!Saved, Storage!Newest, Storage!Smaller
    <3> QED
      BY <3>1, <3>2 DEF Storage!Next, Storage!Save
  <2>4. \/ UNCHANGED log \/ log' = << >>
        \/ \E w \in Work : log' = Saved(log, Clone(w), Cap)
    <3>1. ASSUME NEW w \in Work, Unit(w)
          PROVE  UNCHANGED log \/ log' = Saved(log, Clone(w), Cap)
      BY <3>1 DEF Unit, Progress, PassThrough, Admit, CountUnsampled, Begin, NotifyBegun,
         RecordError, EndWork, Judge, Settle, Save, Retain, NotifyFinished, Release, Collect,
         tracerVars
    <3>2. ASSUME NEW r \in Readers, Reader(r) PROVE UNCHANGED log
      BY <3>2, ReaderTypeStep DEF tracerVars
    <3>3. ASSUME (\E b \in BOOLEAN : SetEnabled(b)) \/ ResetStorage \/ ResetCounters
          PROVE  UNCHANGED log \/ log' = << >>
      BY <3>3 DEF SetEnabled, ResetStorage, ResetCounters
    <3>4. UNCHANGED vars => UNCHANGED log
      BY DEF vars, tracerVars
    <3> QED
      BY <3>1, <3>2, <3>3, <3>4 DEF Next
  <2> QED
    BY <2>1, <2>2, <2>3, <2>4
<1> QED
  BY <1>1, <1>2, TypeInit, TypeStep, PTL DEF Spec, RetainsAsBoundedLog, Storage!Spec

-----------------------------------------------------------------------------
(* The live view's streams, on a storage that does not fail.               *)
(*                                                                         *)
(* Registration changes under the write lock alone, so what a stream has   *)
(* cloned and is yet to clone is what is registered until it unlocks. From *)
(* then on, and for the log from its listing on, what it has is current    *)
(* unless a notification is due or is in its channel: each step that       *)
(* changes what there is leaves one due, and each step that delivers one   *)
(* leaves every channel filled.                                            *)
Cloned(s) == {c.of : c \in view[s].live}

Retained(l) == [n \in DOMAIN l |-> l[n].of]

Behind(s) == signal[s] \/ NotificationDue \/ resets > 0

StreamTypeOK ==
  /\ spc \in [Streams -> {"closed", "rendering", "waiting", "pausing"}]
  /\ DOMAIN shown = Streams

Shows(s) ==
  /\ spc[s] # "rendering" => rpc[s] = "idle"
  /\ rpc[s] # "idle" => op[s] = "Snapshot" /\ rpc[s] # "missed"
  /\ rpc[s] = "cloning" => Cloned(s) \cup todo[s] = Registered
  /\ ~Behind(s) =>
       /\ rpc[s] \in {"listing", "done"} => Cloned(s) = Registered
       /\ rpc[s] = "done" => Retained(view[s].log) = Retained(log)
       /\ spc[s] = "waiting" => shown[s] = Current

LiveInv == TypeOK /\ StreamTypeOK /\ \A s \in Streams : Shows(s)

LEMMA LiveInitInv == LiveInit => LiveInv
<1> SUFFICES ASSUME LiveInit PROVE LiveInv
  OBVIOUS
<1>1. TypeOK
  BY TypeInit DEF LiveInit
<1>2. StreamTypeOK
  BY DEF LiveInit, StreamTypeOK
<1>3. \A s \in Streams : Shows(s)
  BY StreamAssumption DEF LiveInit, Init, Shows
<1> QED
  BY <1>1, <1>2, <1>3 DEF LiveInv

(* A page takes a Snapshot in the steps of a reader. *)
LEMMA RenderReads ==
  ASSUME NEW s \in Streams, Render(s)
  PROVE  s \in Readers /\ Reader(s)
BY StreamAssumption DEF Render, Reader

LEMMA LiveTypeStep ==
  ASSUME TypeOK, StreamTypeOK, [LiveNext]_liveVars
  PROVE  TypeOK' /\ StreamTypeOK'
<1>0. TypeOK /\ StreamTypeOK
  OBVIOUS
<1>a. ASSUME UNCHANGED allButSignal, signal' \in [Subscribers -> BOOLEAN]
      PROVE  TypeOK'
  BY <1>0, <1>a DEF allButSignal, counterVars, unitVars, traceVars, readerVars, resetVars,
     TypeOK, TracerTypeOK, UnitTypeOK, ReaderTypeOK, ResetTypeOK
<1>b. ASSUME UNCHANGED streamVars
      PROVE  StreamTypeOK'
  BY <1>0, <1>b DEF streamVars, StreamTypeOK
<1>1. CASE TracerStep
  <2>1. Next
    BY <1>1 DEF TracerStep, Next
  <2> QED
    BY <1>0, <1>1, <1>b, <2>1, TypeStep DEF TracerStep
<1>2. ASSUME NEW s \in Streams, Render(s)
      PROVE  TypeOK' /\ StreamTypeOK'
  <2>1. Next
    BY <1>2, RenderReads DEF Next
  <2> QED
    BY <1>0, <1>2, <1>b, <2>1, TypeStep DEF Render
<1>3. ASSUME NEW s \in Streams, Connect(s) \/ Wake(s) \/ Drain(s)
      PROVE  TypeOK' /\ StreamTypeOK'
  <2>1. UNCHANGED allButSignal /\ signal' = [signal EXCEPT ![s] = FALSE] /\ UNCHANGED shown
    BY <1>3 DEF Connect, Wake, Drain
  <2>2. signal' \in [Subscribers -> BOOLEAN]
    BY <1>0, <2>1 DEF TypeOK, TracerTypeOK
  <2>3. StreamTypeOK'
    BY <1>0, <1>3, <2>1 DEF Connect, Wake, Drain, MoveStream, StreamTypeOK
  <2> QED
    BY <1>a, <2>1, <2>2, <2>3
<1>4. ASSUME NEW s \in Streams, Write(s)
      PROVE  TypeOK' /\ StreamTypeOK'
  <2>1. EmptyView \in View
    BY DEF EmptyView, View
  <2>2. ReaderTypeOK'
    BY <1>0, <1>4, <2>1 DEF Write, TypeOK, ReaderTypeOK
  <2>3. TracerTypeOK' /\ UnitTypeOK' /\ ResetTypeOK'
    BY <1>0, <1>4, TypeUnchanged DEF Write, KeepSignal, tracerVars, TypeOK
  <2>4. StreamTypeOK'
    BY <1>0, <1>4 DEF Write, MoveStream, StreamTypeOK
  <2> QED
    BY <2>2, <2>3, <2>4 DEF TypeOK
<1>5. ASSUME NEW s \in Streams, Disconnect(s)
      PROVE  TypeOK' /\ StreamTypeOK'
  <2>1. TypeOK'
    BY <1>0, <1>5, TypeStep DEF Disconnect
  <2>2. StreamTypeOK'
    BY <1>0, <1>5 DEF Disconnect, MoveStream, StreamTypeOK
  <2> QED
    BY <2>1, <2>2
<1>6. CASE UNCHANGED liveVars
  BY <1>0, <1>6, <1>b, TypeStep DEF liveVars
<1> QED
  BY <1>1, <1>2, <1>3, <1>4, <1>5, <1>6 DEF LiveNext, StreamStep

(* A step of a unit after which a stream is not behind changed nothing     *)
(* that its page shows (tracer.go:231-238, 257-277).                       *)
LEMMA UnitNotifies ==
  ASSUME TypeOK, NEW w \in Work, Unit(w), NEW s \in Streams, ~Behind(s)'
  PROVE  ~Behind(s) /\ UNCHANGED <<active, log>>
<1> DEFINE Due == {"begun", "settled", "saved"}
<1>0. /\ s \in Subscribers /\ pc \in [Work -> Positions]
      /\ signal'[s] # TRUE /\ resets' = resets /\ ~(resets > 0)
      /\ \A v \in Work : pc'[v] \notin Due
  <2>1. resets' = resets
    BY UnitTypeStep DEF resetVars
  <2> QED
    BY <2>1, StreamAssumption DEF TypeOK, UnitTypeOK, Behind, NotificationDue
<1>1. ASSUME UNCHANGED <<active, log, signal>>, pc[w] \notin Due,
             \A v \in Work \ {w} : pc'[v] = pc[v]
      PROVE  ~Behind(s)
  BY <1>0, <1>1 DEF Behind, NotificationDue
<1>2. \A v \in Work \ {w} : pc'[v] = pc[v]
  BY UnitMoves
<1>3. CASE PassThrough(w) \/ Admit(w) \/ CountUnsampled(w) \/ RecordError(w) \/ EndWork(w)
           \/ Judge(w) \/ Release(w) \/ Collect(w)
  <2>1. UNCHANGED <<active, log, signal>>
    BY <1>3 DEF PassThrough, Admit, CountUnsampled, RecordError, EndWork, Judge, Release,
       Collect, tracerVars
  <2>2. pc[w] \notin Due
    BY <1>0, <1>3 DEF PassThrough, Admit, CountUnsampled, RecordError, EndWork, Judge,
       Release, Collect, At
  <2> QED
    BY <1>1, <1>2, <2>1, <2>2
<1>4. CASE Begin(w) \/ Settle(w) \/ Save(w)
  BY <1>0, <1>4 DEF Begin, Settle, Save, At
<1>5. CASE NotifyBegun(w) \/ NotifyFinished(w)
  BY <1>0, <1>5 DEF NotifyBegun, NotifyFinished, NotifyAll
<1> QED
  BY <1>3, <1>4, <1>5 DEF Unit, Progress

LEMMA UnitShows ==
  ASSUME LiveInv, NEW w \in Work, Unit(w), UNCHANGED streamVars, NEW s \in Streams
  PROVE  Shows(s)'
<1>0. TypeOK /\ Shows(s) /\ s \in Readers
  BY StreamAssumption DEF LiveInv
<1>1. UNCHANGED <<rpc, op, todo, view, spc, shown>>
  BY <1>0, UnitTypeStep DEF readerVars, streamVars
<1>2. rpc[s] = "cloning" => Registered' = Registered
  <2>1. UNCHANGED active \/ Unlocked
    BY DEF Unit, Progress, PassThrough, Admit, CountUnsampled, Begin, NotifyBegun,
       RecordError, EndWork, Judge, Settle, Save, NotifyFinished, Release, Collect, tracerVars
  <2> QED
    BY <1>0, <2>1 DEF Unlocked, Registered
<1>3. ~Behind(s)' => ~Behind(s) /\ UNCHANGED <<active, log>>
  BY <1>0, UnitNotifies
<1>4. ~Behind(s)' => Registered' = Registered /\ Current' = Current /\ log' = log
  BY <1>3 DEF Registered, Current
<1> QED
  BY <1>0, <1>1, <1>2, <1>3, <1>4 DEF Shows, Cloned, Retained

(* A step that leaves the tracer's and a stream's own variables alone.     *)
LEMMA ShowsKept ==
  ASSUME NEW s \in Streams, Shows(s), UNCHANGED <<active, log, pc>>,
         rpc'[s] = rpc[s], op'[s] = op[s], todo'[s] = todo[s], view'[s] = view[s],
         spc'[s] = spc[s], shown'[s] = shown[s],
         resets' > 0 \/ (resets' = resets /\ signal'[s] = signal[s])
  PROVE  Shows(s)'
<1>1. Registered' = Registered /\ Current' = Current
  BY DEF Registered, Current
<1>2. ~Behind(s)' => ~Behind(s)
  BY DEF Behind, NotificationDue
<1> QED
  BY <1>1, <1>2 DEF Shows, Cloned, Retained

(* A step of stream s, seen by itself.                                     *)
LEMMA OwnShows ==
  ASSUME LiveInv, ~StorageMayFail, NEW s \in Streams,
         Connect(s) \/ StreamStep(s) \/ Disconnect(s)
  PROVE  Shows(s)'
<1>0. /\ Shows(s) /\ s \in Readers /\ s \in Subscribers
      /\ rpc \in [Readers -> {"idle", "missed", "cloning", "listing", "done"}]
      /\ op \in [Readers -> {"none", "Snapshot", "Live", "Trace"}]
      /\ todo \in [Readers -> SUBSET Work] /\ view \in [Readers -> View]
      /\ spc \in [Streams -> {"closed", "rendering", "waiting", "pausing"}]
      /\ DOMAIN shown = Streams
  BY StreamAssumption DEF LiveInv, StreamTypeOK, TypeOK, ReaderTypeOK
<1>a. ASSUME Render(s)
      PROVE  /\ UNCHANGED <<active, log, pc, resets, signal, spc, shown>>
             /\ Registered' = Registered /\ Current' = Current /\ Behind(s)' = Behind(s)
             /\ spc[s] = "rendering"
  <2>1. UNCHANGED <<active, log, pc, resets, signal>>
    BY <1>a, RenderReads, ReaderTypeStep
    DEF LiveInv, tracerVars, unitVars, resetVars
  <2>2. UNCHANGED <<spc, shown>> /\ spc[s] = "rendering"
    BY <1>a DEF Render, streamVars
  <2>3. NotificationDue' = NotificationDue
    BY <2>1 DEF NotificationDue
  <2>4. Behind(s)' = Behind(s)
    BY <2>1, <2>3 DEF Behind
  <2> QED
    BY <2>1, <2>2, <2>4 DEF Registered, Current
<1>1. ASSUME Render(s), StartRead(s, "Snapshot")
      PROVE  Shows(s)'
  <2>1. /\ rpc'[s] = "cloning" /\ op'[s] = "Snapshot" /\ todo'[s] = Registered
        /\ view'[s].live = {}
    BY <1>0, <1>1 DEF StartRead
  <2> QED
    BY <1>1, <1>a, <2>1 DEF Shows, Cloned
<1>2. ASSUME Render(s), NEW w \in Work, CloneOne(s, w)
      PROVE  Shows(s)'
  <2>1. /\ rpc[s] = "cloning" /\ rpc'[s] = rpc[s] /\ op'[s] = op[s]
        /\ w \in todo[s] /\ todo'[s] = todo[s] \ {w}
        /\ view'[s] = WithClone(view[s], w, op[s])
    BY <1>0, <1>2 DEF CloneOne
  <2>2. view'[s].live = view[s].live \cup {Clone(w)} /\ Clone(w).of = w
    BY <1>0, <2>1 DEF WithClone, View, Clone
  <2>3. Cloned(s)' = Cloned(s) \cup {w}
    BY <2>2 DEF Cloned
  <2>4. Cloned(s)' \cup todo'[s] = Registered'
    BY <1>0, <1>2, <1>a, <2>1, <2>3 DEF Shows
  <2> QED
    BY <1>0, <1>2, <1>a, <2>1, <2>4 DEF Shows
<1>3. ASSUME Render(s), Unlock(s)
      PROVE  Shows(s)'
  <2>1. /\ rpc[s] = "cloning" /\ todo[s] = {} /\ op'[s] = op[s] /\ view'[s] = view[s]
        /\ rpc'[s] = "listing"
    BY <1>0, <1>3 DEF Unlock, Shows
  <2>2. Cloned(s)' = Registered'
    BY <1>0, <1>3, <1>a, <2>1 DEF Shows, Cloned
  <2> QED
    BY <1>0, <1>3, <1>a, <2>1, <2>2 DEF Shows
<1>4. ASSUME Render(s), ListLog(s)
      PROVE  Shows(s)'
  <2>1. /\ rpc[s] = "listing" /\ rpc'[s] = "done" /\ op'[s] = op[s]
        /\ view'[s] = [view[s] EXCEPT !.log = log]
    BY <1>0, <1>4 DEF ListLog
  <2>2. view'[s].live = view[s].live /\ view'[s].log = log
    BY <1>0, <2>1 DEF View
  <2>3. Cloned(s)' = Cloned(s) /\ Retained(view'[s].log) = Retained(log')
    BY <1>4, <1>a, <2>2 DEF Cloned
  <2> QED
    BY <1>0, <1>4, <1>a, <2>1, <2>3 DEF Shows
<1>5. CASE Write(s)
  <2>1. /\ rpc[s] = "done" /\ rpc'[s] = "idle" /\ shown'[s] = Page(view[s])
        /\ spc[s] = "rendering"
        /\ UNCHANGED <<active, log, pc, resets, signal>>
    BY <1>0, <1>5 DEF Write, MoveStream, KeepSignal, unitVars, resetVars
  <2>2. Current' = Current /\ Behind(s)' = Behind(s)
    BY <2>1 DEF Current, Registered, Behind, NotificationDue
  <2>3. ASSUME ~Behind(s)
        PROVE  Page(view[s]) = Current
    <3>1. Cloned(s) = Registered /\ Retained(view[s].log) = Retained(log)
      BY <1>0, <2>1, <2>3 DEF Shows
    <3> QED
      BY <3>1 DEF Page, Current, Cloned, Retained
  <2> QED
    BY <2>1, <2>2, <2>3 DEF Shows
<1>6. CASE Connect(s) \/ Wake(s) \/ Drain(s)
  <2>1. /\ rpc'[s] = rpc[s] /\ spc[s] # "rendering" /\ spc'[s] # "waiting"
    BY <1>0, <1>6 DEF Connect, Wake, Drain, MoveStream, allButSignal, readerVars
  <2> QED
    BY <1>0, <2>1 DEF Shows
<1>7. CASE Disconnect(s)
  <2>1. /\ rpc'[s] = rpc[s] /\ spc[s] # "rendering" /\ spc'[s] # "waiting"
    BY <1>0, <1>7 DEF Disconnect, MoveStream, vars, readerVars
  <2> QED
    BY <1>0, <2>1 DEF Shows
<1> QED
  BY <1>1, <1>2, <1>3, <1>4, <1>5, <1>6, <1>7 DEF StreamStep, Render

(* Streams do not disturb one another.                                     *)
LEMMA OtherShows ==
  ASSUME LiveInv, NEW t \in Streams, Connect(t) \/ StreamStep(t) \/ Disconnect(t),
         NEW s \in Streams \ {t}
  PROVE  Shows(s)'
<1>0. /\ Shows(s) /\ s \in Readers /\ t \in Readers
      /\ rpc \in [Readers -> {"idle", "missed", "cloning", "listing", "done"}]
      /\ op \in [Readers -> {"none", "Snapshot", "Live", "Trace"}]
      /\ todo \in [Readers -> SUBSET Work] /\ view \in [Readers -> View]
      /\ spc \in [Streams -> {"closed", "rendering", "waiting", "pausing"}]
      /\ DOMAIN shown = Streams /\ signal \in [Readers -> BOOLEAN]
  BY StreamAssumption DEF LiveInv, StreamTypeOK, TypeOK, ReaderTypeOK, TracerTypeOK
<1>1. CASE Render(t)
  <2>1. UNCHANGED <<active, log, pc, resets, signal, spc, shown>>
    BY <1>1, RenderReads, ReaderTypeStep
    DEF LiveInv, tracerVars, unitVars, resetVars, Render, streamVars
  <2>2. rpc'[s] = rpc[s] /\ op'[s] = op[s] /\ todo'[s] = todo[s] /\ view'[s] = view[s]
    BY <1>0, <1>1, ZenonT(60) DEF Render, StartRead, CloneOne, Unlock, ListLog
  <2> QED
    BY <1>0, <2>1, <2>2, ShowsKept
<1>2. CASE Write(t)
  <2>1. UNCHANGED <<active, log, pc, resets, signal, todo>>
    BY <1>2 DEF Write, KeepSignal, unitVars, resetVars
  <2>2. /\ rpc'[s] = rpc[s] /\ op'[s] = op[s] /\ view'[s] = view[s]
        /\ spc'[s] = spc[s] /\ shown'[s] = shown[s]
    BY <1>0, <1>2 DEF Write, MoveStream
  <2> QED
    BY <1>0, <2>1, <2>2, ShowsKept
<1>3. CASE Connect(t) \/ Wake(t) \/ Drain(t)
  <2>1. UNCHANGED <<active, log, pc, resets, rpc, op, todo, view, shown>>
    BY <1>3 DEF Connect, Wake, Drain, allButSignal, unitVars, readerVars, resetVars
  <2>2. signal'[s] = signal[s] /\ spc'[s] = spc[s]
    BY <1>0, <1>3 DEF Connect, Wake, Drain, MoveStream
  <2> QED
    BY <1>0, <2>1, <2>2, ShowsKept
<1>4. CASE Disconnect(t)
  <2>1. UNCHANGED <<active, log, pc, resets, signal, rpc, op, todo, view, shown>>
    BY <1>4 DEF Disconnect, vars, tracerVars, unitVars, readerVars, resetVars
  <2>2. spc'[s] = spc[s]
    BY <1>0, <1>4 DEF Disconnect, MoveStream
  <2> QED
    BY <1>0, <2>1, <2>2, ShowsKept
<1> QED
  BY <1>1, <1>2, <1>3, <1>4 DEF StreamStep

LEMMA LiveStep == LiveInv /\ ~StorageMayFail /\ [LiveNext]_liveVars => LiveInv'
<1> SUFFICES ASSUME LiveInv, ~StorageMayFail, [LiveNext]_liveVars
             PROVE  \A s \in Streams : Shows(s)'
  BY LiveTypeStep DEF LiveInv
<1>0. \A s \in Streams : Shows(s)
  BY DEF LiveInv
<1>1. ASSUME NEW t \in Streams, Connect(t) \/ StreamStep(t) \/ Disconnect(t)
      PROVE  \A s \in Streams : Shows(s)'
  BY <1>1, OwnShows, OtherShows
<1>2. ASSUME NEW w \in Work, Unit(w), UNCHANGED streamVars
      PROVE  \A s \in Streams : Shows(s)'
  BY <1>2, UnitShows
<1>3. ASSUME (\E b \in BOOLEAN : SetEnabled(b)) \/ ResetStorage \/ ResetCounters,
             UNCHANGED streamVars
      PROVE  \A s \in Streams : Shows(s)'
  <2>1. UNCHANGED <<active, pc, rpc, op, todo, view, signal, spc, shown>>
    BY <1>3 DEF SetEnabled, ResetStorage, ResetCounters, unitVars, readerVars, streamVars
  <2>2. resets' > 0 \/ (resets' = resets /\ log' = log)
    BY <1>3 DEF SetEnabled, ResetStorage, ResetCounters, resetVars, LiveInv, TypeOK,
       ResetTypeOK
  <2>3. CASE resets' = resets /\ log' = log
    BY <1>0, <2>1, <2>3, ShowsKept
  <2>4. CASE resets' > 0
    <3>1. Registered' = Registered /\ \A s \in Streams : Behind(s)' /\ Cloned(s)' = Cloned(s)
      BY <2>1, <2>4 DEF Registered, Behind, Cloned
    <3> QED
      BY <1>0, <2>1, <3>1 DEF Shows
  <2> QED
    BY <2>2, <2>3, <2>4
<1>4. CASE UNCHANGED liveVars
  <2>1. UNCHANGED <<active, log, pc, resets, signal, rpc, op, todo, view, spc, shown>>
    BY <1>4 DEF liveVars, streamVars, vars, tracerVars, unitVars, readerVars, resetVars
  <2> QED
    BY <1>0, <2>1, ShowsKept
<1> QED
  BY <1>1, <1>2, <1>3, <1>4 DEF LiveNext, TracerStep

(* A stream that waits with an empty channel shows what there is, for any  *)
(* number of streams, units and client-chosen IDs, on a storage that does  *)
(* not fail and up to the first Reset: no update is lost between a page,   *)
(* its pause and the drain (handler.go:303-321, tracer.go:231-277).        *)
THEOREM LiveWaiting == ASSUME ~StorageMayFail PROVE LiveSpec => []WaitingIsCurrent
<1>1. LiveInv => WaitingIsCurrent
  <2> SUFFICES ASSUME LiveInv, NEW s \in Streams, spc[s] = "waiting", ~signal[s],
                      ~NotificationDue, resets = 0
               PROVE  shown[s] = Current
    BY DEF WaitingIsCurrent
  <2>1. ~Behind(s)
    BY DEF Behind
  <2> QED
    BY <2>1 DEF LiveInv, Shows
<1>2. LiveInv /\ [LiveNext]_liveVars => LiveInv'
  BY LiveStep
<1> QED
  BY <1>1, <1>2, LiveInitInv, PTL DEF LiveSpec

(* Streams read the tracer and change nothing of what it records: with any *)
(* number of them, and whatever a client's page costs or leaves unread, it *)
(* still implements Recording (handler.go:282-330).                        *)
THEOREM LiveImplementsRecording == LiveSpec => ImplementsRecording
<1>1. LiveInit => TypeOK /\ StreamTypeOK
  BY LiveInitInv DEF LiveInv
<1>2. TypeOK /\ StreamTypeOK /\ [LiveNext]_liveVars => (TypeOK /\ StreamTypeOK)'
  BY LiveTypeStep
<1>3. LiveInit => Record!Init
  BY RecordInit DEF LiveInit
<1>4. TypeOK /\ StreamTypeOK /\ [LiveNext]_liveVars => [Record!Next]_Record!vars
  <2> SUFFICES ASSUME TypeOK, StreamTypeOK, [LiveNext]_liveVars
               PROVE  [Record!Next]_Record!vars
    OBVIOUS
  <2>1. ASSUME NEW s \in Streams, Connect(s) \/ StreamStep(s) \/ Disconnect(s)
        PROVE  UNCHANGED Record!vars
    <3>1. UNCHANGED <<pc, sampled, failed, log>>
      <4>1. CASE Render(s)
        BY <4>1, RenderReads, ReaderTypeStep DEF tracerVars, unitVars, counterVars
      <4>2. CASE Connect(s) \/ Write(s) \/ Wake(s) \/ Drain(s) \/ Disconnect(s)
        BY <4>2 DEF Connect, Write, Wake, Drain, Disconnect, KeepSignal, allButSignal, unitVars,
           counterVars, vars, tracerVars
      <4> QED
        BY <2>1, <4>1, <4>2 DEF StreamStep
    <3> QED
      BY <3>1, RecordStutters
  <2>2. CASE UNCHANGED liveVars
    BY <2>2, RecordStutters DEF liveVars, vars, tracerVars, unitVars, counterVars
  <2> QED
    BY <2>1, <2>2, UnitRecords, ControlRecords DEF LiveNext, TracerStep
<1> QED
  BY <1>1, <1>2, <1>3, <1>4, PTL DEF LiveSpec, ImplementsRecording, Record!Spec
=============================================================================
