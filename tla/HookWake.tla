------------------------------ MODULE HookWake ------------------------------
(***************************************************************************)
(* How the consumer thread of src/src/core/ModernKeyHook.cpp falls asleep  *)
(* and is woken: consumerThreadMain, enqueue, pokeConsumer and the wake    *)
(* that stop() sends.  The wake-up is a manual-reset event that a producer *)
(* signals only when it sees consumerParked_.                              *)
(*                                                                         *)
(* The ring is seen through its words: published (the slots' sequence      *)
(* words), head (head_, stored after them and read by empty()) and freed   *)
(* (slots handed back).  With StoreBuffers each thread's plain stores wait *)
(* in a FIFO buffer before other threads can see them, as on x86: release  *)
(* stores and acquire loads put no fence between a store and a later load  *)
(* of another word.  Atomic read-modify-writes and system calls drain the  *)
(* buffer of their thread.  Without StoreBuffers a store is seen at once,  *)
(* which is what the comment "Lost-wakeup analysis" (lines 673-681)        *)
(* reasons about.                                                          *)
(***************************************************************************)
EXTENDS Naturals, Sequences

CONSTANTS
  Capacity,      \* slots of the ring
  Batch,         \* how many events one drain takes, 64 in the code
  MaxEvents,     \* bound: events the hook callbacks enqueue
  MaxPokes,      \* bound: calls of pokeConsumer
  StoreBuffers   \* TRUE: stores are buffered; FALSE: seen at once

ASSUME WakeAssumption ==
  /\ Capacity \in Nat \ {0} /\ Batch \in Nat \ {0}
  /\ MaxEvents \in Nat /\ MaxPokes \in Nat
  /\ StoreBuffers \in BOOLEAN

VARIABLES
  published, head, freed,   \* the ring's words as every thread sees them
  parked,                   \* consumerParked_ as every thread sees it
  event,                    \* wakeEvent_: TRUE when signalled
  running,                  \* running_
  ppc,        \* the pump thread inside enqueue
  pushes,     \* pushes the pump made (its own head_)
  pbuf,       \* the pump's stores not yet visible
  offered,    \* stats_.pushed: events handed to enqueue
  dropped,    \* stats_.droppedOverflow
  cpc,        \* the consumer thread
  tail,       \* tail_, the consumer's own
  batch,      \* events popped and not yet handled
  cbuf,       \* the consumer's stores not yet visible
  spc,        \* the thread that calls stop()
  pokes       \* calls of pokeConsumer so far

ringVars == <<published, head, freed>>
pumpVars == <<ppc, pushes, pbuf, offered, dropped>>
consumerVars == <<cpc, tail, batch, cbuf>>
controlVars == <<spc, pokes>>
wakeVars == <<ringVars, parked, event, running, pumpVars, consumerVars, controlVars>>

WakeInit ==
  /\ published = 0 /\ head = 0 /\ freed = 0
  /\ parked = FALSE /\ event = FALSE /\ running = TRUE
  /\ ppc = "idle" /\ pushes = 0 /\ pbuf = <<>> /\ offered = 0 /\ dropped = 0
  /\ cpc = "loop" /\ tail = 0 /\ batch = 0 /\ cbuf = <<>>
  /\ spc = "running" /\ pokes = 0

(***************************************************************************)
(* Stores.  The pump stores a sequence word and head_; the consumer stores *)
(* a freed slot and consumerParked_.                                       *)
(***************************************************************************)
PumpStore(w) ==
  IF StoreBuffers
  THEN /\ pbuf' = Append(pbuf, w)
       /\ UNCHANGED <<published, head>>
  ELSE /\ published' = IF w = "seq" THEN published + 1 ELSE published
       /\ head' = IF w = "head" THEN head + 1 ELSE head
       /\ UNCHANGED pbuf

ConsumerStore(w) ==
  IF StoreBuffers
  THEN /\ cbuf' = Append(cbuf, w)
       /\ UNCHANGED <<freed, parked>>
  ELSE /\ freed' = IF w = "free" THEN freed + 1 ELSE freed
       /\ parked' = IF w = "free" THEN parked ELSE w = "park"
       /\ UNCHANGED cbuf

FlushPump ==
  /\ pbuf # <<>>
  /\ pbuf' = Tail(pbuf)
  /\ published' = IF Head(pbuf) = "seq" THEN published + 1 ELSE published
  /\ head' = IF Head(pbuf) = "head" THEN head + 1 ELSE head
  /\ UNCHANGED <<freed, parked, event, running, ppc, pushes, offered, dropped,
                 consumerVars, controlVars>>

FlushConsumer ==
  /\ cbuf # <<>>
  /\ cbuf' = Tail(cbuf)
  /\ freed' = IF Head(cbuf) = "free" THEN freed + 1 ELSE freed
  /\ parked' = IF Head(cbuf) = "free" THEN parked ELSE Head(cbuf) = "park"
  /\ UNCHANGED <<published, head, event, running, pumpVars, cpc, tail, batch, controlVars>>

(***************************************************************************)
(* The pump thread: enqueue.  stats_.pushed is an atomic increment.  An    *)
(* event that finds the ring full is dropped, its wake never is.           *)
(***************************************************************************)
EnqueueBegin ==
  /\ ppc = "idle" /\ offered < MaxEvents
  /\ pbuf = <<>>
  /\ offered' = offered + 1
  /\ ppc' = "push"
  /\ UNCHANGED <<ringVars, parked, event, running, pushes, pbuf, dropped,
                 consumerVars, controlVars>>

EnqueuePublish ==
  /\ ppc = "push"
  /\ pushes < freed + Capacity
  /\ PumpStore("seq")
  /\ pushes' = pushes + 1
  /\ ppc' = "head"
  /\ UNCHANGED <<freed, parked, event, running, offered, dropped, consumerVars, controlVars>>

EnqueueAdvance ==
  /\ ppc = "head"
  /\ PumpStore("head")
  /\ ppc' = "look"
  /\ UNCHANGED <<freed, parked, event, running, pushes, offered, dropped,
                 consumerVars, controlVars>>

BadEnqueueLook ==
  /\ ppc = "look"
  /\ ppc' = "idle"
  /\ UNCHANGED <<ringVars, parked, event, running, pushes, pbuf, offered, dropped,
                 consumerVars, controlVars>>

EnqueueLook ==
  /\ ppc = "look"
  /\ ppc' = IF parked THEN "signal" ELSE "idle"
  /\ UNCHANGED <<ringVars, parked, event, running, pushes, pbuf, offered, dropped,
                 consumerVars, controlVars>>

EnqueueDrop ==
  /\ ppc = "push"
  /\ pushes = freed + Capacity
  /\ dropped' = dropped + 1
  /\ ppc' = "signal"
  /\ UNCHANGED <<ringVars, parked, event, running, pushes, pbuf, offered,
                 consumerVars, controlVars>>

EnqueueSignal ==
  /\ ppc = "signal" /\ pbuf = <<>>
  /\ event' = TRUE
  /\ ppc' = "idle"
  /\ UNCHANGED <<ringVars, parked, running, pushes, pbuf, offered, dropped,
                 consumerVars, controlVars>>

(***************************************************************************)
(* The consumer thread.                                                    *)
(***************************************************************************)
\* queue_.empty(): head_ against the consumer's own tail_.
Empty == head = tail

ConsumerGoto(from, to) ==
  /\ cpc = from /\ cpc' = to
  /\ UNCHANGED <<ringVars, parked, event, running, pumpVars, tail, batch, cbuf, controlVars>>

\* while (running_ || !queue_.empty())
LoopRunning == running /\ ConsumerGoto("loop", "drain")
LoopStopping == ~running /\ ConsumerGoto("loop", "last")
BadLoopLast == ConsumerGoto("last", "drain")
LoopLast == ConsumerGoto("last", IF Empty THEN "exit" ELSE "drain")

\* try_pop_batch: one item per step while there are items and room.
Pop ==
  /\ cpc = "drain" /\ batch < Batch /\ tail < published
  /\ tail' = tail + 1
  /\ batch' = batch + 1
  /\ ConsumerStore("free")
  /\ UNCHANGED <<published, head, event, running, pumpVars, cpc, controlVars>>

PopDone ==
  /\ batch = Batch \/ tail = published
  /\ ConsumerGoto("drain", IF batch > 0 THEN "handle" ELSE "spin")

BadHandle ==
  /\ cpc = "handle"
  /\ batch' = batch - 1
  /\ cpc' = IF batch = 0 THEN "loop" ELSE "handle"
  /\ UNCHANGED <<ringVars, parked, event, running, pumpVars, tail, cbuf, controlVars>>

\* handler_(ev), which may throw; either way the event is done with.
Handle ==
  /\ cpc = "handle" /\ batch > 0
  /\ batch' = batch - 1
  /\ cpc' = IF batch = 1 THEN "loop" ELSE "handle"
  /\ UNCHANGED <<ringVars, parked, event, running, pumpVars, tail, cbuf, controlVars>>

\* The adaptive spin ends when the ring is not empty or the budget is spent.
Spin == ConsumerGoto("spin", "check")
Check == ConsumerGoto("check", IF Empty /\ running THEN "park" ELSE "loop")

BadPark == ConsumerGoto("park", "recheck")
Park ==
  /\ cpc = "park"
  /\ ConsumerStore("park")
  /\ cpc' = "recheck"
  /\ UNCHANGED <<published, head, event, running, pumpVars, tail, batch, controlVars>>

Recheck ==
  ConsumerGoto("recheck", IF Empty /\ running THEN "wait" ELSE "unpark")

Unpark ==
  /\ cpc = "unpark"
  /\ ConsumerStore("unpark")
  /\ cpc' = "loop"
  /\ UNCHANGED <<published, head, event, running, pumpVars, tail, batch, controlVars>>

\* WaitForSingleObject(wakeEvent_, INFINITE) returns; the event stays set.
Wake == event /\ cbuf = <<>> /\ ConsumerGoto("wait", "awake")

AwakeUnpark ==
  /\ cpc = "awake"
  /\ ConsumerStore("unpark")
  /\ cpc' = "reset"
  /\ UNCHANGED <<published, head, event, running, pumpVars, tail, batch, controlVars>>

AwakeReset ==
  /\ cpc = "reset" /\ cbuf = <<>>
  /\ event' = FALSE
  /\ cpc' = "loop"
  /\ UNCHANGED <<ringVars, parked, running, pumpVars, tail, batch, cbuf, controlVars>>

(***************************************************************************)
(* stop(): running_ is exchanged first, the event is signalled after.      *)
(***************************************************************************)
StopExchange ==
  /\ spc = "running"
  /\ running' = FALSE
  /\ spc' = "stopping"
  /\ UNCHANGED <<ringVars, parked, event, pumpVars, consumerVars, pokes>>

BadStopSignal ==
  /\ spc = "stopping"
  /\ event' = (event \/ parked)
  /\ spc' = "stopped"
  /\ UNCHANGED <<ringVars, parked, running, pumpVars, consumerVars, pokes>>

StopSignal ==
  /\ spc = "stopping"
  /\ event' = TRUE
  /\ spc' = "stopped"
  /\ UNCHANGED <<ringVars, parked, running, pumpVars, consumerVars, pokes>>

\* pokeConsumer(), from any thread.
Poke ==
  /\ pokes < MaxPokes
  /\ pokes' = pokes + 1
  /\ event' = TRUE
  /\ UNCHANGED <<ringVars, parked, running, pumpVars, consumerVars, spc>>

EnqueueStep ==
  \/ EnqueuePublish
  \/ EnqueueAdvance
  \/ EnqueueLook
  \/ EnqueueDrop
  \/ EnqueueSignal

ConsumerStep ==
  \/ LoopRunning \/ LoopStopping \/ LoopLast
  \/ Pop \/ PopDone \/ Handle
  \/ Spin \/ Check
  \/ Park \/ Recheck \/ Unpark
  \/ Wake \/ AwakeUnpark \/ AwakeReset

WakeNext ==
  \/ EnqueueBegin \/ EnqueueStep
  \/ ConsumerStep
  \/ FlushPump \/ FlushConsumer
  \/ StopExchange \/ StopSignal
  \/ Poke

WakeSpec == WakeInit /\ [][WakeNext]_wakeVars

WakeTypeOK ==
  /\ published \in Nat /\ head \in Nat /\ freed \in Nat
  /\ parked \in BOOLEAN /\ event \in BOOLEAN /\ running \in BOOLEAN
  /\ ppc \in {"idle", "push", "head", "look", "signal"}
  /\ pushes \in Nat /\ offered \in Nat /\ dropped \in Nat
  /\ pbuf \in Seq({"seq", "head"})
  /\ cpc \in {"loop", "last", "drain", "handle", "spin", "check", "park", "recheck",
              "unpark", "wait", "awake", "reset", "exit"}
  /\ tail \in Nat /\ batch \in Nat
  /\ cbuf \in Seq({"free", "park", "unpark"})
  /\ spc \in {"running", "stopping", "stopped"}
  /\ pokes \in Nat

(* The consumer never sleeps on work: if it is blocked and nobody is about *)
(* to signal it, the ring is empty (the claim of lines 642-644 and         *)
(* 673-681).                                                               *)
Asleep == cpc = "wait" /\ ~event
NoLostWakeup ==
  (Asleep /\ ppc = "idle" /\ pbuf = <<>>) => head = tail

(* Nor does it sleep through stop(): once stop() has signalled, a blocked  *)
(* consumer has a signal to wake up to.                                    *)
NoSleepPastStop ==
  Asleep => spc # "stopped"

(* A consumer that really blocks is seen as parked, so the next event that *)
(* arrives signals it: a lost wake-up cannot outlive the next event.       *)
SleepIsVisible ==
  (cpc = "wait" /\ cbuf = <<>>) => parked

(* Even where a wake-up can be lost, the event it was for is late and not  *)
(* lost: the next event that finds the consumer blocked has it handled,    *)
(* whether that event enters the ring or is dropped.                       *)
LateNotLost ==
  \A n \in 1 .. MaxEvents :
    (pushes >= n /\ Asleep /\ cbuf = <<>> /\ ppc = "push")
      ~> (cpc = "exit" \/ tail - batch >= n)

(* stop() is answered: the consumer thread drains and exits.               *)
StopIsAnswered == (spc = "stopped") ~> (cpc = "exit")
=============================================================================
