---------------------------- MODULE HookLifecycle ---------------------------
(***************************************************************************)
(* ModernKeyHook::start() and stop() of src/src/core/ModernKeyHook.cpp     *)
(* with the two threads they create: the pump that owns the hooks and the  *)
(* consumer.  stop() waits a bounded time; a thread that is stuck by then  *)
(* is detached and lives on.  Every start that spawns threads begins a new *)
(* session, so threads and queued events can be told apart by session.     *)
(***************************************************************************)
EXTENDS Naturals, Sequences

CONSTANTS
  MaxSessions,  \* bound: sessions
  RingCap,      \* bound: events waiting in the ring
  MayFail       \* hooks may fail to install

ASSUME LifecycleAssumption ==
  MaxSessions \in Nat \ {0} /\ RingCap \in Nat \ {0} /\ MayFail \in BOOLEAN

Sessions == 1 .. MaxSessions

VARIABLES
  mpc,            \* the thread that calls start() and stop()
  session,        \* sessions begun
  running, stuck, \* running_, stuckDetached_
  installed, tid, \* hooksInstalled_, hookThreadId_ (a session, 0 for none)
  pumpExited, consumerExited,   \* the acknowledgements
  handler,        \* handler_ is set
  quit,           \* sessions whose pump has WM_QUIT in its queue
  pump, consumer, \* the threads, by session
  hand,           \* the event each consumer handles (the session it is from)
  queue           \* the ring: sessions of the events in it

flags == <<running, stuck, installed, tid, pumpExited, consumerExited, handler>>
vars == <<mpc, session, flags, quit, pump, consumer, hand, queue>>

Init ==
  /\ mpc = "idle" /\ session = 0
  /\ running = FALSE /\ stuck = FALSE
  /\ installed = FALSE /\ tid = 0
  /\ pumpExited = FALSE /\ consumerExited = FALSE
  /\ handler = FALSE /\ quit = {}
  /\ pump = [s \in Sessions |-> "none"]
  /\ consumer = [s \in Sessions |-> "none"]
  /\ hand = [s \in Sessions |-> 0]
  /\ queue = <<>>

(***************************************************************************)
(* start(): refused while a detached thread may live, otherwise everything *)
(* is armed again, both threads are spawned and the handshake is awaited.  *)
(***************************************************************************)
BadStart ==
  /\ mpc = "idle" /\ ~running /\ session < MaxSessions
  /\ session' = session + 1
  /\ handler' = TRUE /\ running' = TRUE /\ stuck' = FALSE
  /\ installed' = FALSE /\ pumpExited' = FALSE /\ consumerExited' = FALSE
  /\ queue' = <<>>
  /\ pump' = [pump EXCEPT ![session'] = "begin"]
  /\ consumer' = [consumer EXCEPT ![session'] = "loop"]
  /\ mpc' = "handshake"
  /\ UNCHANGED <<tid, quit, hand>>

StaleStart ==
  /\ mpc = "idle" /\ ~running /\ ~stuck /\ session < MaxSessions
  /\ session' = session + 1
  /\ handler' = TRUE /\ running' = TRUE /\ stuck' = FALSE
  /\ installed' = FALSE /\ pumpExited' = FALSE /\ consumerExited' = FALSE
  /\ pump' = [pump EXCEPT ![session'] = "begin"]
  /\ consumer' = [consumer EXCEPT ![session'] = "loop"]
  /\ mpc' = "handshake"
  /\ UNCHANGED <<tid, quit, hand, queue>>

Start ==
  /\ mpc = "idle" /\ ~running /\ ~stuck /\ session < MaxSessions
  /\ session' = session + 1
  /\ handler' = TRUE /\ running' = TRUE /\ stuck' = FALSE
  /\ installed' = FALSE /\ pumpExited' = FALSE /\ consumerExited' = FALSE
  /\ queue' = <<>>
  /\ pump' = [pump EXCEPT ![session'] = "begin"]
  /\ consumer' = [consumer EXCEPT ![session'] = "loop"]
  /\ mpc' = "handshake"
  /\ UNCHANGED <<tid, quit, hand>>

Installed ==
  /\ mpc = "handshake" /\ installed
  /\ mpc' = "idle"
  /\ UNCHANGED <<session, flags, quit, pump, consumer, hand, queue>>

\* Two seconds without the handshake: start() rolls back through stop().
HandshakeTimeout ==
  /\ mpc = "handshake" /\ ~installed
  /\ mpc' = "stop"
  /\ UNCHANGED <<session, flags, quit, pump, consumer, hand, queue>>

(***************************************************************************)
(* stop().                                                                 *)
(***************************************************************************)
CallStop ==
  /\ mpc = "idle" /\ running
  /\ mpc' = "stop"
  /\ UNCHANGED <<session, flags, quit, pump, consumer, hand, queue>>

StopExchange ==
  /\ mpc = "stop"
  /\ running' = FALSE
  /\ mpc' = "post"
  /\ UNCHANGED <<session, stuck, installed, tid, pumpExited, consumerExited, handler,
                 quit, pump, consumer, hand, queue>>

BadPostQuit ==
  /\ mpc = "post"
  /\ quit' = quit \cup {tid}
  /\ mpc' = "await"
  /\ UNCHANGED <<session, flags, pump, consumer, hand, queue>>

\* WM_QUIT to the published thread, if any, and the wake of the consumer.
PostQuit ==
  /\ mpc = "post"
  /\ quit' = quit \cup ({tid} \ {0})
  /\ mpc' = "await"
  /\ UNCHANGED <<session, flags, pump, consumer, hand, queue>>

\* Both acknowledged: join them, clean up.
Join ==
  /\ mpc = "await" /\ pumpExited /\ consumerExited
  /\ handler' = FALSE
  /\ mpc' = "idle"
  /\ UNCHANGED <<session, running, stuck, installed, tid, pumpExited, consumerExited,
                 quit, pump, consumer, hand, queue>>

BadDetach ==
  /\ mpc = "await" /\ ~(pumpExited /\ consumerExited)
  /\ stuck' = TRUE /\ handler' = FALSE
  /\ mpc' = "idle"
  /\ UNCHANGED <<session, running, installed, tid, pumpExited, consumerExited,
                 quit, pump, consumer, hand, queue>>

JoinOneDetachBoth ==
  /\ mpc = "await" /\ ~pumpExited /\ ~consumerExited
  /\ stuck' = TRUE
  /\ mpc' = "idle"
  /\ UNCHANGED <<session, running, installed, tid, pumpExited, consumerExited, handler,
                 quit, pump, consumer, hand, queue>>

\* Three seconds are over: detach what is stuck and leave its handles alone.
Detach ==
  /\ mpc = "await" /\ ~(pumpExited /\ consumerExited)
  /\ stuck' = TRUE
  /\ mpc' = "idle"
  /\ UNCHANGED <<session, running, installed, tid, pumpExited, consumerExited, handler,
                 quit, pump, consumer, hand, queue>>

(***************************************************************************)
(* The pump thread.                                                        *)
(***************************************************************************)
PumpGoto(s, from, to) ==
  /\ pump[s] = from
  /\ pump' = [pump EXCEPT ![s] = to]
  /\ UNCHANGED <<mpc, session, running, stuck, handler, consumerExited, quit,
                 consumer, hand, queue>>

PublishTid(s) ==
  /\ PumpGoto(s, "begin", "install")
  /\ tid' = s
  /\ UNCHANGED <<installed, pumpExited>>

Install(s) ==
  /\ PumpGoto(s, "install", "check")
  /\ installed' \in {TRUE} \cup (IF MayFail THEN {FALSE} ELSE {})
  /\ UNCHANGED <<tid, pumpExited>>

\* for (;;): only WM_QUIT ends it, and WM_QUIT may have been lost.
BadLoopCheck(s) ==
  /\ PumpGoto(s, "check", "get")
  /\ UNCHANGED <<tid, installed, pumpExited>>

\* while (running_): then GetMessage blocks until a message or a timer tick.
LoopCheck(s) ==
  /\ PumpGoto(s, "check", IF running THEN "get" ELSE "unhook")
  /\ UNCHANGED <<tid, installed, pumpExited>>

GetQuit(s) ==
  /\ s \in quit
  /\ PumpGoto(s, "get", "unhook")
  /\ UNCHANGED <<tid, installed, pumpExited>>

\* The watchdog tick, or the 1 s fallback timer.
GetTick(s) ==
  /\ PumpGoto(s, "get", "check")
  /\ UNCHANGED <<tid, installed, pumpExited>>

\* A callback that runs while GetMessage pumps: mouse and foreground events
\* reach the ring also after stop() was asked for; keys only before.
Callback(s) ==
  /\ pump[s] = "get" /\ Len(queue) < RingCap
  /\ queue' = Append(queue, s)
  /\ UNCHANGED <<mpc, session, flags, quit, pump, consumer, hand>>

Unhook(s) ==
  /\ PumpGoto(s, "unhook", "leaving")
  /\ installed' = FALSE /\ tid' = 0
  /\ UNCHANGED pumpExited

PumpExit(s) ==
  /\ PumpGoto(s, "leaving", "gone")
  /\ pumpExited' = TRUE
  /\ UNCHANGED <<tid, installed>>

(***************************************************************************)
(* The consumer thread.  A handler call may be stuck for ever.             *)
(***************************************************************************)
ConsumerGoto(s, from, to) ==
  /\ consumer[s] = from
  /\ consumer' = [consumer EXCEPT ![s] = to]
  /\ UNCHANGED <<mpc, session, running, stuck, installed, tid, pumpExited, handler,
                 quit, pump>>

TakeEvent(s) ==
  /\ queue # <<>>
  /\ ConsumerGoto(s, "loop", "handling")
  /\ hand' = [hand EXCEPT ![s] = Head(queue)]
  /\ queue' = Tail(queue)
  /\ UNCHANGED consumerExited

Handled(s) ==
  /\ ConsumerGoto(s, "handling", "loop")
  /\ hand' = [hand EXCEPT ![s] = 0]
  /\ UNCHANGED <<queue, consumerExited>>

LoopEnds(s) ==
  /\ ~running /\ queue = <<>>
  /\ ConsumerGoto(s, "loop", "finalize")
  /\ UNCHANGED <<hand, queue, consumerExited>>

ConsumerExit(s) ==
  /\ ConsumerGoto(s, "finalize", "gone")
  /\ consumerExited' = TRUE
  /\ UNCHANGED <<hand, queue>>

MainStep ==
  \/ Installed \/ HandshakeTimeout
  \/ StopExchange \/ PostQuit \/ Join \/ Detach

PumpStep(s) ==
  \/ PublishTid(s) \/ Install(s)
  \/ LoopCheck(s) \/ GetQuit(s) \/ GetTick(s)
  \/ Unhook(s) \/ PumpExit(s)

Next ==
  \/ Start \/ CallStop \/ MainStep
  \/ \E s \in Sessions :
       \/ PumpStep(s) \/ Callback(s)
       \/ TakeEvent(s) \/ Handled(s) \/ LoopEnds(s) \/ ConsumerExit(s)

\* start() and stop() run on; the pump runs on, its timer ticks.  Nothing is
\* assumed of the consumer: a handler may be stuck for ever.
Fairness ==
  /\ WF_vars(MainStep)
  /\ \A s \in Sessions : WF_vars(PumpStep(s))

Spec == Init /\ [][Next]_vars
FairSpec == Spec /\ Fairness

TypeOK ==
  /\ mpc \in {"idle", "handshake", "stop", "post", "await"}
  /\ session \in 0 .. MaxSessions
  /\ running \in BOOLEAN /\ stuck \in BOOLEAN /\ installed \in BOOLEAN
  /\ tid \in 0 .. MaxSessions
  /\ pumpExited \in BOOLEAN /\ consumerExited \in BOOLEAN /\ handler \in BOOLEAN
  /\ quit \subseteq Sessions
  /\ pump \in [Sessions -> {"none", "begin", "install", "check", "get", "unhook",
                            "leaving", "gone"}]
  /\ consumer \in [Sessions -> {"none", "loop", "handling", "finalize", "gone"}]
  /\ hand \in [Sessions -> 0 .. MaxSessions]
  /\ queue \in Seq(Sessions)

(* The ring never has two producers or two consumers: no thread of an      *)
(* earlier session lives while another session has threads (the reason     *)
(* start() refuses after a detach, lines 125-131).                         *)
Alive(t) == {s \in Sessions : t[s] \notin {"none", "gone"}}
OneOfEach ==
  /\ \A s, r \in Alive(pump) : s = r
  /\ \A s, r \in Alive(consumer) : s = r
  /\ \A s \in Alive(pump) \cup Alive(consumer) : s = session

(* A consumer that handles an event finds its handler, also when stop()    *)
(* gave up waiting for it.                                                 *)
HandlerOutlivesCall == \A s \in Sessions : consumer[s] = "handling" => handler

(* An event is handled in the session it was captured in: what the pump    *)
(* put into the ring after its consumer left is not replayed (lines        *)
(* 165-171).                                                               *)
NoStaleReplay == \A s \in Sessions : hand[s] \in {0, s}

(* start() and stop() return, however stuck the consumer is.               *)
CallsReturn == (mpc # "idle") ~> (mpc = "idle")

(* A pump leaves after stop(), also when WM_QUIT missed it because its     *)
(* thread id was not published yet.                                        *)
PumpLeaves ==
  \A s \in Sessions : (session = s /\ mpc = "post") ~> (pump[s] = "gone")
=============================================================================
