---------------------------- MODULE ArcadeServer -----------------------------
(***************************************************************************)
(* The web bridge of src/src/core/ArcadeServer.cpp: its owner, which       *)
(* starts and stops it, the thread that ticks the game and the thread that *)
(* accepts a connection, answers it and feeds the event streams.  The two  *)
(* threads meet in the manager under m_gameMutex and in the list of        *)
(* streams under m_streamMutex; each critical section is one step.  A      *)
(* socket is a number that is not used again.                              *)
(***************************************************************************)
EXTENDS ArcadeManager

CONSTANT MaxSockets    \* bound: connections accepted

Sockets == 1 .. MaxSockets
NoSocket == 0

VARIABLES
  manager,       \* m_manager
  owner,         \* where start() and stop() are
  serving,       \* m_running
  stopRequested, \* m_stopRequested
  listening,     \* m_listenSocket is open
  accepting,     \* where the accept thread is
  ticking,       \* the tick thread lives
  client,        \* the connection being answered
  streams,       \* m_streamSockets
  sockets,       \* what the system knows of each socket
  twice,         \* history: sockets closed that were closed already
  late           \* history: streams handed over after stop() emptied the list

server == <<owner, serving, stopRequested, listening>>
threads == <<accepting, ticking, client>>
wires == <<streams, sockets, twice, late>>
bridgeVars == <<manager, server, threads, wires>>

BridgeInit ==
  /\ manager = Idle
  /\ owner = "idle" /\ serving = FALSE /\ stopRequested = FALSE /\ listening = FALSE
  /\ accepting = "none" /\ ticking = FALSE /\ client = NoSocket
  /\ streams = {} /\ sockets = [s \in Sockets |-> "unused"]
  /\ twice = {} /\ late = {}

\* closeSocket on each of a set
Close(closing) ==
  /\ sockets' = [s \in Sockets |-> IF s \in closing THEN "closed" ELSE sockets[s]]
  /\ twice' = twice \cup {s \in closing : sockets[s] = "closed"}

(***************************************************************************)
(* The owner                                                               *)
(***************************************************************************)
\* start, when every socket call succeeds; a failure closes the socket and
\* changes nothing else
StartBridge ==
  /\ owner = "idle" /\ ~ serving
  /\ serving' = TRUE /\ stopRequested' = FALSE /\ listening' = TRUE
  /\ accepting' = "select" /\ ticking' = TRUE
  /\ UNCHANGED <<manager, owner, client, wires>>

\* stop, up to the closed listener
StopListening ==
  /\ owner = "idle" /\ serving
  /\ stopRequested' = TRUE /\ serving' = FALSE /\ listening' = FALSE
  /\ owner' = "close"
  /\ UNCHANGED <<manager, threads, wires>>

\* stop, under m_streamMutex
\* Mutant: the list keeps the sockets it closed.
BadEmptied == streams
Emptied == {}

StopStreams ==
  /\ owner = "close" /\ owner' = "join"
  /\ Close(streams) /\ streams' = Emptied
  /\ UNCHANGED <<manager, serving, stopRequested, listening, threads, late>>

StopJoined ==
  /\ owner = "join" /\ accepting = "none" /\ ~ ticking
  /\ owner' = "idle"
  /\ UNCHANGED <<manager, serving, stopRequested, listening, threads, wires>>

(***************************************************************************)
(* The game: the server's own methods, each under m_gameMutex              *)
(***************************************************************************)
TickGame == manager' \in {Drain(u) : u \in Update(manager)}
SendInput == manager' \in {Drain(k) : k \in Key(manager)}
StartGame(t) == CanBegin(manager) /\ manager' = Launch(manager, t)
StopGame == manager' = Drain(Stop(manager))
TogglePause == Playing(manager) /\ manager' = [manager EXCEPT !.game.life = PauseKey(@)]
RestartTheGame == CanBegin(manager) /\ manager' = RestartGame(manager)

\* A new prepared text resets the game; a new granularity alone does not.
Preload ==
  /\ Playing(manager) /\ IsFlexing(manager) /\ CanBegin(manager)
  /\ manager' = ResetGame(manager)

(***************************************************************************)
(* The tick thread                                                         *)
(***************************************************************************)
\* Mutant: the thread plays the game to its end first.
BadTick ==
  /\ ticking
  /\ IF stopRequested /\ ~ Playing(manager)
     THEN ticking' = FALSE /\ UNCHANGED manager
     ELSE TickGame /\ UNCHANGED ticking
  /\ UNCHANGED <<server, accepting, client, wires>>
Tick ==
  /\ ticking
  /\ IF stopRequested
     THEN ticking' = FALSE /\ UNCHANGED manager
     ELSE TickGame /\ UNCHANGED ticking
  /\ UNCHANGED <<server, accepting, client, wires>>

(***************************************************************************)
(* The accept thread                                                       *)
(***************************************************************************)
AcceptAt(from, to) == accepting = from /\ accepting' = to

\* The head of the loop, and the wait of at most 200 ms
Select ==
  /\ AcceptAt("select", IF stopRequested \/ ~ listening THEN "none" ELSE "serve")
  /\ UNCHANGED <<manager, server, ticking, client, wires>>

\* serviceStreams: one state for all; a stream whose write fails is dropped.
ServeStreams ==
  /\ AcceptAt("serve", "accept")
  /\ \E dead \in SUBSET streams :
       /\ Close(dead) /\ streams' = streams \ dead
  /\ UNCHANGED <<manager, server, ticking, client, late>>

Accept ==
  /\ accepting = "accept"
  /\ \/ accepting' = "select" /\ UNCHANGED <<client, sockets>>
     \/ /\ listening
        /\ \E s \in Sockets :
             /\ sockets[s] = "unused" /\ \A t \in 1 .. s - 1 : sockets[t] # "unused"
             /\ client' = s /\ sockets' = [sockets EXCEPT ![s] = "open"]
        /\ accepting' = "answer"
  /\ UNCHANGED <<manager, server, ticking, streams, twice, late>>

\* handleRequest: a read and a refused request leave the game as it is.
Request ==
  \/ UNCHANGED manager
  \/ SendInput
  \/ \E t \in Types : StartGame(t)
  \/ StopGame \/ TogglePause \/ RestartTheGame \/ Preload

\* POST /api/config: the rebuild is asked of the run, not of the request.
Configure ==
  \E config \in Configs, applyNow \in BOOLEAN :
    LET stored == SetConfig(manager, config) IN
    /\ CanBegin(manager)
    /\ manager' = IF applyNow /\ RunNeedsRelaunch(stored) THEN Relaunch(stored) ELSE stored

\* handleConnection of a request that is answered and closed
Answer ==
  /\ AcceptAt("answer", "select")
  /\ Request \/ Configure
  /\ Close({client}) /\ client' = NoSocket
  /\ UNCHANGED <<server, ticking, streams, late>>

\* /api/text sends its characters one call at a time, frames between them.
SendText ==
  /\ accepting = "answer" /\ SendInput
  /\ UNCHANGED <<server, threads, wires>>

\* handleConnection of a stream: the header is written and the socket kept,
\* or the write fails.
Subscribe ==
  /\ accepting = "answer"
  /\ \/ accepting' = "keep" /\ UNCHANGED <<client, sockets, twice>>
     \/ accepting' = "select" /\ Close({client}) /\ client' = NoSocket
  /\ UNCHANGED <<manager, server, ticking, streams, late>>

\* The hand-over to the list, under m_streamMutex: nothing asks whether
\* stop() has emptied it.
Keep ==
  /\ AcceptAt("keep", "select")
  /\ streams' = streams \cup {client} /\ client' = NoSocket
  /\ late' = IF owner = "join" THEN late \cup {client} ELSE late
  /\ UNCHANGED <<manager, server, ticking, sockets, twice>>

AcceptThread == Select \/ ServeStreams \/ Accept \/ Answer \/ Subscribe \/ Keep

BridgeNext ==
  \/ StartBridge \/ StopListening \/ StopStreams \/ StopJoined
  \/ Tick
  \/ AcceptThread \/ SendText

\* The two threads run; a write to a stream returns, and a text ends.
BridgeFairness ==
  /\ WF_bridgeVars(AcceptThread) /\ WF_bridgeVars(Tick)
  /\ WF_bridgeVars(StopStreams) /\ WF_bridgeVars(StopJoined)

BridgeSpec == BridgeInit /\ [][BridgeNext]_bridgeVars /\ BridgeFairness

(***************************************************************************)
(* Properties                                                              *)
(***************************************************************************)
\* Every stream in the list is open and no longer the accept thread's, and
\* no socket is closed twice (its number may be another socket's by then).
StreamsOpen ==
  /\ twice = {}
  /\ client \notin streams
  /\ \A s \in streams : sockets[s] = "open"

\* When stop() has returned, no socket is open but a stream that was handed
\* over while it waited for the thread: the list keeps that one, and only a
\* later stop() closes it.
StopClosesAll ==
  owner = "idle" /\ ~ serving =>
    {s \in Sockets : sockets[s] = "open"} \subseteq late

\* A run that is out of date says so, and what can change live has changed.
ConfigIsHonest ==
  Playing(manager) => /\ RunNeedsRelaunch(manager) <=> manager.game.chart # manager.config.chart
                /\ manager.game.live = manager.config.live

BridgeIsSound ==
  /\ StreamsOpen /\ StopClosesAll /\ ConfigIsHonest
  /\ EndedIsReported(manager) /\ CreditedFairly(manager)

\* stop() returns.
StopReturns == owner = "close" ~> owner = "idle"
=============================================================================
