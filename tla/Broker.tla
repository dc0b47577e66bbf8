------------------------------- MODULE Broker -------------------------------
(***************************************************************************)
(* The broker behind Tracer.Subscribe (internal/broker.go): channels with  *)
(* one slot each, filled by Notify without blocking, emptied by their      *)
(* subscribers and closed by a release function that runs once.            *)
(*                                                                         *)
(* b.mu is held by a Notify while it goes through the channels, during     *)
(* which subscribers receive; the sections of Subscribe and of the release *)
(* function under it are single steps.                                     *)
(***************************************************************************)
EXTENDS FiniteSets

CONSTANTS
  Channels,    \* the channels handed out, each by one call of Subscribe
  Notifiers,   \* goroutines that call Notify, again and again
  Releasers,   \* goroutines that call a release function
  Nobody       \* no goroutine, no channel

ASSUME BrokerAssumption == Nobody \notin Channels \cup Notifiers \cup Releasers

VARIABLES
  subscribers,  \* b.subscribers
  mu,           \* the Notify that holds b.mu
  given,        \* whether Subscribe has handed out a channel
  pending,      \* whether a channel holds a notification
  closed,       \* whether a channel is closed
  npc, left,    \* a Notify's position, and the channels it has yet to visit
  owed,         \* observer: channels a Notify owes a notification
  rpc, target,  \* a releaser's position, and the channel it releases
  once,         \* the state of a release function's sync.Once
  panicked      \* whether a send or a close hit a closed channel

channelVars == <<given, pending, closed>>
notifyVars  == <<npc, left, owed>>
releaseVars == <<rpc, target, once>>
vars == <<subscribers, mu, channelVars, notifyVars, releaseVars, panicked>>

(* Mutant: nobody waits for b.mu. *)
AlwaysFree == TRUE

Free == mu = Nobody

Init ==
  /\ subscribers = {}
  /\ mu = Nobody
  /\ given = [e \in Channels |-> FALSE]
  /\ pending = [e \in Channels |-> FALSE]
  /\ closed = [e \in Channels |-> FALSE]
  /\ npc = [n \in Notifiers |-> "idle"]
  /\ left = [n \in Notifiers |-> {}]
  /\ owed = [n \in Notifiers |-> {}]
  /\ rpc = [r \in Releasers |-> "idle"]
  /\ target = [r \in Releasers |-> Nobody]
  /\ once = [e \in Channels |-> "ready"]
  /\ panicked = FALSE

-----------------------------------------------------------------------------
Subscribe(e) ==
  /\ ~given[e]
  /\ Free
  /\ given' = [given EXCEPT ![e] = TRUE]
  /\ subscribers' = subscribers \cup {e}
  /\ UNCHANGED <<mu, pending, closed, notifyVars, releaseVars, panicked>>

(* What a Notify that was called still owes, once e needs nothing from it. *)
Settled(e) == [n \in Notifiers |-> owed[n] \ {e}]

(* The subscriber takes a notification; a closed channel keeps its last.   *)
Receive(e) ==
  /\ pending[e]
  /\ pending' = [pending EXCEPT ![e] = FALSE]
  /\ owed' = Settled(e)
  /\ UNCHANGED <<subscribers, mu, given, closed, npc, left, releaseVars,
                 panicked>>

-----------------------------------------------------------------------------
(* Notify. *)

Call(n) ==
  /\ npc[n] = "idle"
  /\ npc' = [npc EXCEPT ![n] = "called"]
  /\ owed' = [owed EXCEPT ![n] = subscribers]
  /\ UNCHANGED <<subscribers, mu, channelVars, left, releaseVars, panicked>>

Lock(n) ==
  /\ npc[n] = "called"
  /\ Free
  /\ mu' = n
  /\ npc' = [npc EXCEPT ![n] = "sending"]
  /\ left' = [left EXCEPT ![n] = subscribers]
  /\ UNCHANGED <<subscribers, channelVars, owed, releaseVars, panicked>>

(* Mutant: the send waits for the slot to be free. *)
SendWaits(e) == ~pending[e]

(* The select has a default: a send never waits. *)
MaySend(e) == TRUE

(* A full slot is left as it is; a send on a closed channel panics. *)
Send(n, e) ==
  /\ npc[n] = "sending"
  /\ e \in left[n]
  /\ MaySend(e)
  /\ left' = [left EXCEPT ![n] = @ \ {e}]
  /\ IF closed[e]
     THEN panicked' = TRUE /\ UNCHANGED pending
     ELSE pending' = [pending EXCEPT ![e] = TRUE] /\ UNCHANGED panicked
  /\ UNCHANGED <<subscribers, mu, given, closed, npc, owed, releaseVars>>

(* Mutant: Notify returns after the first channel that took its send. *)
SentSome(n) == left[n] # subscribers \/ subscribers = {}

Sent(n) == left[n] = {}

Unlock(n) ==
  /\ npc[n] = "sending"
  /\ Sent(n)
  /\ mu' = Nobody
  /\ npc' = [npc EXCEPT ![n] = "returned"]
  /\ left' = [left EXCEPT ![n] = {}]
  /\ UNCHANGED <<subscribers, channelVars, owed, releaseVars, panicked>>

Again(n) ==
  /\ npc[n] = "returned"
  /\ npc' = [npc EXCEPT ![n] = "idle"]
  /\ owed' = [owed EXCEPT ![n] = {}]
  /\ UNCHANGED <<subscribers, mu, channelVars, left, releaseVars, panicked>>

-----------------------------------------------------------------------------
(* The release function, which several goroutines may call. *)

(* The first call runs the function. *)
Enter(r, e) ==
  /\ rpc[r] = "idle"
  /\ given[e]
  /\ once[e] = "ready"
  /\ once' = [once EXCEPT ![e] = "running"]
  /\ rpc' = [rpc EXCEPT ![r] = "deleting"]
  /\ target' = [target EXCEPT ![r] = e]
  /\ UNCHANGED <<subscribers, mu, channelVars, notifyVars, panicked>>

(* Any other waits until that call is done, and does nothing. *)
EnterAgain(r, e) ==
  /\ rpc[r] = "idle"
  /\ once[e] # "ready"
  /\ rpc' = [rpc EXCEPT ![r] = "waiting"]
  /\ target' = [target EXCEPT ![r] = e]
  /\ UNCHANGED <<subscribers, mu, channelVars, notifyVars, once, panicked>>

Awaited(r) ==
  /\ rpc[r] = "waiting"
  /\ once[target[r]] = "done"
  /\ rpc' = [rpc EXCEPT ![r] = "idle"]
  /\ target' = [target EXCEPT ![r] = Nobody]
  /\ UNCHANGED <<subscribers, mu, channelVars, notifyVars, once, panicked>>

(* Mutant: the deletion does not wait for b.mu. *)
DeleteUnlocked == TRUE

MayDelete == Free

Delete(r) ==
  /\ rpc[r] = "deleting"
  /\ MayDelete
  /\ subscribers' = subscribers \ {target[r]}
  /\ owed' = Settled(target[r])
  /\ rpc' = [rpc EXCEPT ![r] = "closing"]
  /\ UNCHANGED <<mu, channelVars, npc, left, target, once, panicked>>

Close(r) ==
  /\ rpc[r] = "closing"
  /\ panicked' = (panicked \/ closed[target[r]])
  /\ closed' = [closed EXCEPT ![target[r]] = TRUE]
  /\ once' = [once EXCEPT ![target[r]] = "done"]
  /\ rpc' = [rpc EXCEPT ![r] = "idle"]
  /\ target' = [target EXCEPT ![r] = Nobody]
  /\ UNCHANGED <<subscribers, mu, given, pending, notifyVars>>

-----------------------------------------------------------------------------
Notify(n) ==
  \/ Lock(n)
  \/ \E e \in Channels : Send(n, e)
  \/ Unlock(n)

Release(r) == Awaited(r) \/ Delete(r) \/ Close(r)

Next ==
  \/ \E e \in Channels : Subscribe(e) \/ Receive(e)
  \/ \E n \in Notifiers : Call(n) \/ Notify(n) \/ Again(n)
  \/ \E r \in Releasers :
       \/ \E e \in Channels : Enter(r, e) \/ EnterAgain(r, e)
       \/ Release(r)

Spec == Init /\ [][Next]_vars

(* A call goes on whenever it can; sync.Mutex does not starve a waiter.    *)
(* Nothing is assumed of subscribers: they may never receive.              *)
Fairness ==
  /\ \A n \in Notifiers : SF_vars(Notify(n))
  /\ \A r \in Releasers : SF_vars(Release(r))

FairSpec == Spec /\ Fairness

-----------------------------------------------------------------------------
TypeOK ==
  /\ subscribers \in SUBSET Channels
  /\ mu \in Notifiers \cup {Nobody}
  /\ \A n \in Notifiers : npc[n] = "sending" <=> mu = n
  /\ given \in [Channels -> BOOLEAN]
  /\ pending \in [Channels -> BOOLEAN]
  /\ closed \in [Channels -> BOOLEAN]
  /\ npc \in [Notifiers -> {"idle", "called", "sending", "returned"}]
  /\ left \in [Notifiers -> SUBSET Channels]
  /\ owed \in [Notifiers -> SUBSET Channels]
  /\ rpc \in [Releasers -> {"idle", "waiting", "deleting", "closing"}]
  /\ target \in [Releasers -> Channels \cup {Nobody}]
  /\ once \in [Channels -> {"ready", "running", "done"}]
  /\ panicked \in BOOLEAN

(* No Notify sends on a closed channel and no channel is closed twice,     *)
(* although the close happens outside the lock and release functions may   *)
(* be called by several goroutines (broker.go:32-41, 50-58).               *)
NoPanic == ~panicked

(* A Notify that has returned left a notification with every channel that  *)
(* was subscribed when it was called, unless the subscriber has received   *)
(* one since or was released: a change is never lost on a subscriber that  *)
(* is behind (broker.go:44-45).                                            *)
NotifyReaches ==
  \A n \in Notifiers : npc[n] = "returned" =>
    \A e \in owed[n] : pending[e]

(* Neither Notify nor a release function is held up by a subscriber that   *)
(* does not receive (broker.go:7-9).                                       *)
CallsReturn ==
  /\ \A n \in Notifiers : npc[n] = "called" ~> npc[n] = "returned"
  /\ \A r \in Releasers : rpc[r] # "idle" ~> rpc[r] = "idle"
=============================================================================
