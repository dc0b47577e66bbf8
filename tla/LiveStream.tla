----------------------------- MODULE LiveStream -----------------------------
(***************************************************************************)
(* The live view's stream of server sent events (frontend/handler.go,      *)
(* serveEvents) on top of the tracer: a stream subscribes, renders one     *)
(* Snapshot, and then renders another each time it was woken, after a      *)
(* pause that lets a burst of notifications pass.                          *)
(*                                                                         *)
(* A stream reads as the reader of the same name in Tracer and is woken by *)
(* the channel of the same name. A notification reaches every channel in   *)
(* one step: Broker models the steps of a Notify.                          *)
(***************************************************************************)
EXTENDS Tracer

CONSTANT Streams   \* the connections of browsers, each opened again and again

ASSUME StreamAssumption == Streams = Readers /\ Streams = Subscribers

VARIABLES
  spc,     \* a stream's position
  shown    \* what its browser shows: the traces in flight and the retained

streamVars == <<spc, shown>>
liveVars   == <<vars, streamVars>>

Nothing == [live |-> {}, log |-> << >>]

(* What a page shows of each trace is which one it is. *)
Page(v) == [live |-> {c.of : c \in v.live},
            log  |-> [n \in DOMAIN v.log |-> v.log[n].of]]

Current == [live |-> Registered, log |-> [n \in DOMAIN log |-> log[n].of]]

LiveInit ==
  /\ Init
  /\ spc = [s \in Streams |-> "closed"]
  /\ shown = [s \in Streams |-> Nothing]

MoveStream(s, from, to) == spc[s] = from /\ spc' = [spc EXCEPT ![s] = to]

(* All of Tracer's variables but the channels. *)
allButSignal == <<enabled, active, counterVars, log, unitVars, readerVars,
                  resetVars>>

-----------------------------------------------------------------------------
(* The stream subscribes before it renders the first time: an empty        *)
(* channel.                                                                *)
Connect(s) ==
  /\ MoveStream(s, "closed", "rendering")
  /\ signal' = [signal EXCEPT ![s] = FALSE]
  /\ UNCHANGED <<allButSignal, shown>>

(* writeLiveEvent takes a Snapshot, in the steps of Tracer's reader.       *)
Render(s) ==
  /\ spc[s] = "rendering"
  /\ \/ StartRead(s, "Snapshot")
     \/ \E w \in Work : CloneOne(s, w)
     \/ Unlock(s)
     \/ ListLog(s)
  /\ UNCHANGED streamVars

(* Mutant: the channel is drained once more when the page is written.      *)
SignalDrained(s) == signal' = [signal EXCEPT ![s] = FALSE]

KeepSignal(s) == UNCHANGED signal

(* The page is written; a failure to render or to write ends the stream.   *)
Write(s) ==
  /\ \/ MoveStream(s, "rendering", "waiting")
     \/ MoveStream(s, "rendering", "closed")
  /\ rpc[s] = "done"
  /\ rpc' = [rpc EXCEPT ![s] = "idle"]
  /\ op' = [op EXCEPT ![s] = "none"]
  /\ view' = [view EXCEPT ![s] = EmptyView]
  /\ shown' = [shown EXCEPT ![s] = Page(view[s])]
  /\ KeepSignal(s)
  /\ UNCHANGED <<enabled, active, counterVars, log, unitVars, want, todo,
                 found, origin, resetVars>>

(* A notification is received: the pause begins. *)
Wake(s) ==
  /\ signal[s]
  /\ MoveStream(s, "waiting", "pausing")
  /\ signal' = [signal EXCEPT ![s] = FALSE]
  /\ UNCHANGED <<allButSignal, shown>>

(* The pause is over: what arrived during it is drained, and covered by    *)
(* the next page.                                                          *)
Drain(s) ==
  /\ MoveStream(s, "pausing", "rendering")
  /\ signal' = [signal EXCEPT ![s] = FALSE]
  /\ UNCHANGED <<allButSignal, shown>>

(* The browser is gone, or a heartbeat cannot be written: the stream ends  *)
(* and its channel is released.                                            *)
Disconnect(s) ==
  /\ \/ MoveStream(s, "waiting", "closed")
     \/ MoveStream(s, "pausing", "closed")
  /\ UNCHANGED <<vars, shown>>

-----------------------------------------------------------------------------
StreamStep(s) == Render(s) \/ Write(s) \/ Wake(s) \/ Drain(s)

TracerStep ==
  /\ \/ \E b \in BOOLEAN : SetEnabled(b)
     \/ \E w \in Work : Unit(w)
     \/ ResetStorage
     \/ ResetCounters
  /\ UNCHANGED streamVars

LiveNext == TracerStep \/ \E s \in Streams : Connect(s) \/ StreamStep(s) \/ Disconnect(s)

LiveSpec == LiveInit /\ [][LiveNext]_liveVars

(* A goroutine of a unit that can go on does, and the traced code ends. A  *)
(* step that waits for the write lock is not starved by readers: a         *)
(* sync.RWMutex lets no new reader in while a writer waits. A stream goes  *)
(* on by itself, and gets the read lock: waiting readers are let in after  *)
(* each writer.                                                            *)
LiveFairness ==
  /\ \A w \in Work : SF_liveVars(Progress(w) /\ UNCHANGED streamVars)
  /\ \A s \in Streams : WF_liveVars(StreamStep(s))

LiveFairSpec == LiveSpec /\ LiveFairness

-----------------------------------------------------------------------------
(* A unit has changed what a page shows and is yet to notify.              *)
NotificationDue == \E w \in Work : pc[w] \in {"begun", "settled", "saved"}

(* A stream that waits with an empty channel shows what there is: no       *)
(* interleaving of Begin, Settle, Save and their notifications with the    *)
(* two reads of a Snapshot, the pause and the drain loses an update        *)
(* (handler.go:303-321, tracer.go:231-238, 257-277). Reset notifies        *)
(* nobody, so this is claimed up to the first one.                         *)
WaitingIsCurrent ==
  \A s \in Streams :
    /\ spc[s] = "waiting" /\ ~signal[s]
    /\ ~NotificationDue /\ resets = 0
    => shown[s] = Current

(* A page that shows a finished trace as in flight is not left standing:   *)
(* the stream ends, or comes to show the trace as finished.                *)
FinishedIsShown ==
  \A s \in Streams : \A w \in Work :
    w \in shown[s].live ~> spc[s] = "closed" \/ w \notin shown[s].live
=============================================================================
