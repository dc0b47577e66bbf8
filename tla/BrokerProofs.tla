---------------------------- MODULE BrokerProofs ----------------------------
(***************************************************************************)
(* Proofs about Broker for any number of channels, of Notify calls and of  *)
(* goroutines that call release functions.                                 *)
(***************************************************************************)
EXTENDS Broker, TLAPS

USE BrokerAssumption

(* A Notify has only subscribed channels before it, because a channel is   *)
(* taken out of subscribers under the lock it holds.                       *)
LeftIsSubscribed ==
  \A n \in Notifiers :
    /\ left[n] \subseteq subscribers
    /\ npc[n] # "sending" => left[n] = {}

(* A channel is closed after it was taken out, and for good, because it is *)
(* given out once.                                                         *)
ClosedIsReleased ==
  \A e \in Channels :
    /\ e \in subscribers => given[e] /\ ~closed[e]
    /\ once[e] # "ready" => given[e]
    /\ closed[e] => once[e] = "done"

(* One goroutine runs a release function.                                  *)
ReleasedByOne ==
  /\ \A r \in Releasers : rpc[r] \in {"deleting", "closing"} =>
       target[r] \in Channels /\ once[target[r]] = "running"
  /\ \A r \in Releasers : rpc[r] = "closing" => target[r] \notin subscribers
  /\ \A q, r \in Releasers :
       /\ rpc[q] \in {"deleting", "closing"}
       /\ rpc[r] \in {"deleting", "closing"}
       /\ target[q] = target[r]
       => q = r

Inv == TypeOK /\ LeftIsSubscribed /\ ClosedIsReleased /\ ReleasedByOne /\ NoPanic

LEMMA InvInit == Init => Inv
<1> SUFFICES ASSUME Init PROVE Inv
  OBVIOUS
<1>1. TypeOK
  BY DEF Init, TypeOK
<1>2. LeftIsSubscribed /\ NoPanic
  BY DEF Init, LeftIsSubscribed, NoPanic
<1>3. ClosedIsReleased
  BY DEF Init, ClosedIsReleased
<1>4. ReleasedByOne
  BY DEF Init, ReleasedByOne
<1> QED
  BY <1>1, <1>2, <1>3, <1>4 DEF Inv

LEMMA TypeStep == TypeOK /\ [Next]_vars => TypeOK'
<1> SUFFICES ASSUME TypeOK, [Next]_vars
             PROVE  TypeOK'
  OBVIOUS
<1> USE DEF TypeOK, channelVars, notifyVars, releaseVars
<1>1. ASSUME NEW e \in Channels, Subscribe(e)
      PROVE  TypeOK'
  BY <1>1 DEF Subscribe
<1>0. ASSUME NEW e \in Channels, Receive(e)
      PROVE  TypeOK'
  BY <1>0 DEF Receive, Settled
<1>2. ASSUME NEW n \in Notifiers, Call(n) \/ Again(n)
      PROVE  TypeOK'
  BY <1>2 DEF Call, Again
<1>3. ASSUME NEW n \in Notifiers, Lock(n)
      PROVE  TypeOK'
  BY <1>3 DEF Lock, Free
<1>4. ASSUME NEW n \in Notifiers, NEW e \in Channels, Send(n, e)
      PROVE  TypeOK'
  BY <1>4 DEF Send
<1>5. ASSUME NEW n \in Notifiers, Unlock(n)
      PROVE  TypeOK'
  BY <1>5 DEF Unlock
<1>6. ASSUME NEW r \in Releasers, NEW e \in Channels,
             Enter(r, e) \/ EnterAgain(r, e)
      PROVE  TypeOK'
  BY <1>6 DEF Enter, EnterAgain
<1>7. ASSUME NEW r \in Releasers, Awaited(r) \/ Delete(r)
      PROVE  TypeOK'
  BY <1>7 DEF Awaited, Delete, Settled
<1>8. ASSUME NEW r \in Releasers, Close(r)
      PROVE  TypeOK'
  <2>1. panicked' \in BOOLEAN
    BY <1>8 DEF Close
  <2> QED
    BY <1>8, <2>1 DEF Close
<1>9. CASE UNCHANGED vars
  BY <1>9 DEF vars
<1> QED
  BY <1>0, <1>1, <1>2, <1>3, <1>4, <1>5, <1>6, <1>7, <1>8, <1>9
  DEF Next, Notify, Release

LEMMA InvStep == Inv /\ [Next]_vars => Inv'
<1> SUFFICES ASSUME Inv, [Next]_vars
             PROVE  Inv'
  OBVIOUS
<1>t. TypeOK'
  BY TypeStep DEF Inv
<1> DEFINE Rest == LeftIsSubscribed /\ ClosedIsReleased /\ ReleasedByOne /\ NoPanic
<1> SUFFICES Rest'
  BY <1>t DEF Inv
<1> USE DEF Inv, TypeOK, LeftIsSubscribed, ClosedIsReleased, ReleasedByOne,
            NoPanic, channelVars, notifyVars, releaseVars
<1>1. ASSUME NEW e \in Channels, Subscribe(e)
      PROVE  Rest'
  BY <1>1 DEF Subscribe
<1>2. ASSUME NEW e \in Channels, Receive(e)
      PROVE  Rest'
  BY <1>2 DEF Receive
<1>3. ASSUME NEW n \in Notifiers, Call(n) \/ Again(n)
      PROVE  Rest'
  BY <1>3 DEF Call, Again
<1>4. ASSUME NEW n \in Notifiers, Lock(n)
      PROVE  Rest'
  BY <1>4 DEF Lock
<1>5. ASSUME NEW n \in Notifiers, NEW e \in Channels, Send(n, e)
      PROVE  Rest'
  BY <1>5 DEF Send
<1>6. ASSUME NEW n \in Notifiers, Unlock(n)
      PROVE  Rest'
  BY <1>6 DEF Unlock
<1>7. ASSUME NEW r \in Releasers, NEW e \in Channels, Enter(r, e)
      PROVE  Rest'
  BY <1>7 DEF Enter
<1>8. ASSUME NEW r \in Releasers, NEW e \in Channels, EnterAgain(r, e)
      PROVE  Rest'
  BY <1>8 DEF EnterAgain
<1>9. ASSUME NEW r \in Releasers, Awaited(r)
      PROVE  Rest'
  BY <1>9 DEF Awaited
<1>10. ASSUME NEW r \in Releasers, Delete(r)
       PROVE  Rest'
  BY <1>10 DEF Delete, MayDelete, Free
<1>11. ASSUME NEW r \in Releasers, Close(r)
       PROVE  Rest'
  BY <1>11 DEF Close
<1>12. CASE UNCHANGED vars
  BY <1>12 DEF vars
<1> QED
  BY <1>1, <1>2, <1>3, <1>4, <1>5, <1>6, <1>7, <1>8, <1>9, <1>10, <1>11, <1>12
  DEF Next, Notify, Release

(* No send hits a closed channel and no channel is closed twice, for any   *)
(* number of callers (broker.go:32-41, 50-58).                             *)
THEOREM BrokerNoPanic == Spec => []NoPanic
<1>1. Inv => NoPanic
  BY DEF Inv
<1> QED
  BY <1>1, InvInit, InvStep, PTL DEF Spec

(* What a Notify owes is before it while it sends, and there afterwards.   *)
OwedIsComing ==
  \A n \in Notifiers :
    /\ owed[n] \subseteq subscribers
    /\ npc[n] = "sending" => \A e \in owed[n] : e \in left[n] \/ pending[e]
    /\ npc[n] = "returned" => \A e \in owed[n] : pending[e]

LEMMA OwedStep == Inv /\ OwedIsComing /\ [Next]_vars => OwedIsComing'
<1> SUFFICES ASSUME Inv, OwedIsComing, [Next]_vars
             PROVE  OwedIsComing'
  OBVIOUS
<1> USE DEF Inv, TypeOK, OwedIsComing, channelVars, notifyVars, releaseVars
<1>1. ASSUME NEW e \in Channels, Subscribe(e)
      PROVE  OwedIsComing'
  BY <1>1 DEF Subscribe
<1>2. ASSUME NEW e \in Channels, Receive(e)
      PROVE  OwedIsComing'
  BY <1>2 DEF Receive, Settled
<1>3. ASSUME NEW n \in Notifiers, Call(n) \/ Again(n)
      PROVE  OwedIsComing'
  BY <1>3 DEF Call, Again
<1>4. ASSUME NEW n \in Notifiers, Lock(n)
      PROVE  OwedIsComing'
  BY <1>4 DEF Lock
<1>5. ASSUME NEW n \in Notifiers, NEW e \in Channels, Send(n, e)
      PROVE  OwedIsComing'
  <2>1. ~closed[e]
    BY <1>5 DEF Send, LeftIsSubscribed, ClosedIsReleased
  <2> QED
    BY <1>5, <2>1 DEF Send
<1>6. ASSUME NEW n \in Notifiers, Unlock(n)
      PROVE  OwedIsComing'
  BY <1>6 DEF Unlock, Sent
<1>7. ASSUME NEW r \in Releasers, Delete(r)
      PROVE  OwedIsComing'
  BY <1>7 DEF Delete, Settled
<1>8. ASSUME UNCHANGED <<subscribers, pending, notifyVars>>
      PROVE  OwedIsComing'
  BY <1>8
<1>9. ASSUME NEW r \in Releasers,
             \/ \E e \in Channels : Enter(r, e) \/ EnterAgain(r, e)
             \/ Awaited(r) \/ Close(r)
      PROVE  OwedIsComing'
  BY <1>8, <1>9 DEF Enter, EnterAgain, Awaited, Close
<1>10. CASE UNCHANGED vars
  BY <1>8, <1>10 DEF vars
<1> QED
  BY <1>1, <1>2, <1>3, <1>4, <1>5, <1>6, <1>7, <1>9, <1>10
  DEF Next, Notify, Release

(* A Notify that has returned left every subscriber a notification, for    *)
(* any number of subscribers that are behind (broker.go:44-58).            *)
THEOREM BrokerReaches == Spec => []NotifyReaches
<1>1. Init => OwedIsComing
  BY DEF Init, OwedIsComing
<1>2. OwedIsComing => NotifyReaches
  BY DEF OwedIsComing, NotifyReaches
<1> QED
  BY <1>1, <1>2, InvInit, InvStep, OwedStep, PTL DEF Spec
=============================================================================
