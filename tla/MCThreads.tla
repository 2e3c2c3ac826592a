----------------------------- MODULE MCThreads ------------------------------
(* What starts and ends, and the queue between the two hook threads.  The  *)
(* parts share no state: one of them, chosen at the start, runs while the  *)
(* others stay where they begin.                                           *)
(*                                                                         *)
(* The ring has two slots and makes two laps and a half, so every slot is  *)
(* used full, empty and re-armed.  Three sessions of the hook: one that is *)
(* detached or stopped, one that follows it and one that follows a session *)
(* that followed.  Three processes: one runs, two try to replace it.  Two  *)
(* runs of a game make a result that could be counted for the other; two   *)
(* sockets are a stream that is kept and one that is late or a request.    *)
EXTENDS HookLifecycle, SpscRing, ArcadeHub, ArcadeServer, Foreground, InstanceControl

VARIABLE part

MCExe == <<"chrome.exe", "code.exe", "game.exe">>
Answers(process, token, read, flag) ==
  [process |-> process, token |-> token, read |-> read, flag |-> flag]
MCProbes == <<{Answers(TRUE, TRUE, TRUE, FALSE)}, {Answers(TRUE, TRUE, TRUE, FALSE)},
              {Answers(FALSE, FALSE, FALSE, TRUE)}>>
MCOutputs == {<<0, 0>>, <<0, 2>>}

OthersStay ==
  /\ UNCHANGED part
  /\ part = "hook" \/ UNCHANGED vars
  /\ part = "ring" \/ UNCHANGED spscVars
  /\ part = "hub" \/ UNCHANGED hubVars
  /\ part = "bridge" \/ UNCHANGED bridgeVars
  /\ part = "policy" \/ UNCHANGED desktopVars
  /\ part = "programs" \/ UNCHANGED instanceVars

HookPart == part = "hook" /\ Next /\ OthersStay
RingPart == part = "ring" /\ RingNext /\ OthersStay
HubPart == part = "hub" /\ HubNext /\ OthersStay
BridgePart == part = "bridge" /\ BridgeNext /\ OthersStay
PolicyPart == part = "policy" /\ PolicyNext /\ OthersStay
ProgramsPart == part = "programs" /\ InstanceNext /\ OthersStay

ThreadsInit ==
  /\ part \in {"hook", "ring", "hub", "bridge", "policy", "programs"}
  /\ Init /\ RingInit /\ HubInit /\ BridgeInit /\ InstanceInit
  /\ PolicyInit /\ (part # "policy" => front = 1 /\ mode = 0 /\ strategy = 0)

ThreadsNext == HookPart \/ RingPart \/ HubPart \/ BridgePart \/ PolicyPart \/ ProgramsPart

threadsVars == <<part, vars, spscVars, hubVars, bridgeVars, desktopVars, instanceVars>>

\* A part that stays has no step to take, but for the program's start.
ThreadsSpec ==
  /\ ThreadsInit /\ [][ThreadsNext]_threadsVars
  /\ Fairness
  /\ WF_hubVars(NotifyTick)
  /\ BridgeFairness
  /\ WF_threadsVars(part = "policy" /\ UiStep /\ OthersStay)
  /\ WF_threadsVars(part = "policy" /\ HookStep /\ OthersStay)
  /\ InstanceFairness

(***************************************************************************)
(* Properties                                                              *)
(***************************************************************************)
\* Games played in the window and through the network bridge: none is left
\* without an owner, each is reported and credited once, and no socket leaks or
\* is closed twice (ArcadeWindow.cpp, ArcadeServer.cpp).
ArcadeIsSound ==
  /\ part = "hub" => HubIsSound
  /\ part = "bridge" => BridgeIsSound

\* What the program believes of the desktop: one process monitor pump, a cached
\* policy that belongs to the window in front, a probe flag only with a probe on
\* its way, and one instance that nobody ends while it is healthy.
DesktopIsSound ==
  /\ part = "policy" =>
       OnePump /\ RefreshIsEnough /\ PendingIsInFlight
  /\ part = "programs" => InstanceSound

\* The hook gets F9 back, and the bridge's stop() returns.
ArcadeLetsGo == KeysReturn /\ StopReturns

\* Every probe is answered and no launch stays half-way.
DesktopSettles == ProbesEnd /\ LaunchEnds
=============================================================================
