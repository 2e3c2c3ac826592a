--------------------------- MODULE ProcessMonitor ---------------------------
(***************************************************************************)
(* src/src/core/ProcessMonitor.cpp: what the program knows of the window   *)
(* in front.  A pump thread is told of every switch; the hook thread and   *)
(* the UI thread refresh on their own.  All of them run updateFromWindow,  *)
(* which asks the system first and publishes the answer later, under a     *)
(* lock that covers the publication only.                                  *)
(***************************************************************************)
EXTENDS Naturals, Sequences

CONSTANTS
  Windows,      \* windows that may be in front
  Exe,          \* the image name of the process that owns a window
  Covering,     \* windows that cover their monitor
  Probes,       \* by window: what the three elevation queries may answer
  MaxSwitches,  \* bound: switches of the window in front
  MaxStarts,    \* bound: calls of start()
  MayDrop       \* the system may refuse an answer

NoInfo == [hwnd |-> 0, kind |-> "Normal", exe |-> "unresolved", elevated |-> FALSE]

VARIABLES
  front, switches,  \* GetForegroundWindow(), and how often it changed
  told,             \* switches the pump has not been told of yet
  snapshot,         \* snapshot_
  asking,           \* by thread: the window it asks the system about, 0 for none
  pumpAt,           \* the pump thread: a place, or "none"
  starts, detached, \* calls of start(), and pumps left running by stop()
  caller,           \* the thread in start() or stop()
  monitoring, stuckPump, exited, hooked  \* running_, stuckDetached_, pumpExited_, hookInstalled_

pumpVars == <<pumpAt, starts, detached, caller, monitoring, stuckPump, exited, hooked>>
windowVars == <<front, switches, told>>
monitorVars == <<windowVars, snapshot, asking, pumpVars>>

Threads == {"pump", "hook", "ui"}

(***************************************************************************)
(* What the queries make of a window.                                      *)
(***************************************************************************)
Ides == {"code.exe", "devenv.exe", "notepad++.exe", "wt.exe"}
BrowserExes == {"chrome.exe", "msedge.exe", "firefox.exe"}
ShellExes == {"explorer.exe", "cmd.exe", "powershell.exe", "shellexperiencehost.exe"}

Classify(exe, fullscreen) ==
  CASE exe \in ShellExes -> "Shell"
    [] exe \in Ides -> "Ide"
    [] exe \in BrowserExes -> "Browser"
    [] exe \notin ShellExes \cup Ides \cup BrowserExes /\ fullscreen -> "Game"
    [] exe = "applicationframehost.exe" /\ ~fullscreen -> "Metro"
    [] OTHER -> "Normal"

\* A process or token that cannot be opened outranks this program; a token
\* that cannot be read says nothing.
TreatAsElevated(p) == ~p.process \/ ~p.token \/ (p.read /\ p.flag)

\* By the image name; by the application id, for the frame host and where
\* the image cannot be read; or not at all.
Named(w) ==
  {[exe |-> Exe[w], kind |-> Classify(Exe[w], w \in Covering)],
   [exe |-> "package", kind |-> "Metro"],
   [exe |-> "unresolved", kind |-> "Normal"]}

MayBeNamed(w) ==
  {n \in Named(w) :
     CASE Exe[w] = "applicationframehost.exe" -> n.kind \in {"Metro", "Normal"}
       [] \E p \in Probes[w] : ~p.process -> TRUE
       [] OTHER -> n.exe = Exe[w]}

Infos(w) ==
  {[hwnd |-> w, kind |-> n.kind, exe |-> n.exe, elevated |-> TreatAsElevated(p)] :
     n \in MayBeNamed(w), p \in Probes[w]}

AutoExcluded(info, switched) == info.kind \in {"Ide", "Game", "Shell"} \cap switched

(***************************************************************************)
(* updateFromWindow: the questions, then the publication.  The answer is   *)
(* dropped when the window has another owner by then, or without memory.   *)
(***************************************************************************)
Ask(t, w) ==
  /\ asking[t] = 0
  /\ asking' = [asking EXCEPT ![t] = w]

Publish(t) ==
  /\ asking[t] # 0
  /\ asking' = [asking EXCEPT ![t] = 0]
  /\ snapshot' \in Infos(asking[t])

Drop(t) ==
  /\ MayDrop /\ asking[t] # 0
  /\ asking' = [asking EXCEPT ![t] = 0]
  /\ UNCHANGED snapshot

(***************************************************************************)
(* start(): once; refused while a pump of an earlier stop() still lives.   *)
(***************************************************************************)
BadStartMonitor ==
  /\ caller = "idle" /\ ~monitoring /\ starts < MaxStarts
  /\ starts' = starts + 1
  /\ monitoring' = TRUE /\ exited' = FALSE /\ stuckPump' = FALSE /\ hooked' = FALSE
  /\ pumpAt' = "install"
  /\ caller' = "handshake"
  /\ UNCHANGED <<detached, windowVars, snapshot, asking>>

StartMonitor ==
  /\ caller = "idle" /\ ~monitoring /\ ~stuckPump /\ starts < MaxStarts
  /\ starts' = starts + 1
  /\ monitoring' = TRUE /\ exited' = FALSE /\ stuckPump' = FALSE /\ hooked' = FALSE
  /\ pumpAt' = "install"
  /\ caller' = "handshake"
  /\ UNCHANGED <<detached, windowVars, snapshot, asking>>

\* The handshake came: the caller asks about the window in front.
Seed ==
  /\ caller = "handshake" /\ hooked
  /\ Ask("ui", front)
  /\ caller' = "seed"
  /\ UNCHANGED <<windowVars, snapshot, pumpAt, starts, detached, monitoring, stuckPump, exited,
                 hooked>>

Seeded ==
  /\ caller = "seed" /\ (Publish("ui") \/ Drop("ui"))
  /\ caller' = "idle"
  /\ UNCHANGED <<windowVars, pumpAt, starts, detached, monitoring, stuckPump, exited, hooked>>

\* Two seconds without it, or the caller of stop(): the pump is asked to go.
AskPumpToGo ==
  /\ \/ caller = "handshake" /\ ~hooked
     \/ caller = "idle" /\ monitoring
  /\ monitoring' = FALSE
  /\ caller' = "await"
  /\ UNCHANGED <<windowVars, snapshot, asking, pumpAt, starts, detached, stuckPump, exited, hooked>>

JoinPump ==
  /\ caller = "await" /\ exited
  /\ caller' = "idle" /\ pumpAt' = "none"
  /\ UNCHANGED <<windowVars, snapshot, asking, starts, detached, monitoring, stuckPump, exited,
                 hooked>>

\* Two seconds more: what does not go is left alone.
DetachPump ==
  /\ caller = "await" /\ ~exited
  /\ caller' = "idle"
  /\ stuckPump' = TRUE /\ detached' = detached + 1
  /\ UNCHANGED <<windowVars, snapshot, asking, pumpAt, starts, monitoring, exited, hooked>>

(***************************************************************************)
(* The pump thread.  SetWinEventHook may fail; the loop ends with          *)
(* running_, which a timer makes it look at every second.                  *)
(***************************************************************************)
PumpInstalls ==
  /\ pumpAt = "install"
  /\ hooked' \in BOOLEAN
  /\ pumpAt' = "loop"
  /\ UNCHANGED <<windowVars, snapshot, asking, starts, detached, caller, monitoring, stuckPump,
                 exited>>

\* winEventProc, for every switch it is told of while it is hooked.
PumpAsks ==
  /\ pumpAt = "loop" /\ hooked /\ told # <<>>
  /\ Ask("pump", Head(told))
  /\ told' = Tail(told)
  /\ UNCHANGED <<front, switches, snapshot, pumpVars>>

PumpPublishes ==
  /\ pumpAt = "loop" /\ (Publish("pump") \/ Drop("pump"))
  /\ UNCHANGED <<windowVars, pumpVars>>

PumpQuits ==
  /\ pumpAt = "loop" /\ ~monitoring /\ asking["pump"] = 0
  /\ pumpAt' = "leaving" /\ hooked' = FALSE
  /\ UNCHANGED <<windowVars, snapshot, asking, starts, detached, caller, monitoring, stuckPump,
                 exited>>

PumpExits ==
  /\ pumpAt = "leaving"
  /\ pumpAt' = "gone" /\ exited' = TRUE
  /\ UNCHANGED <<windowVars, snapshot, asking, starts, detached, caller, monitoring, stuckPump,
                 hooked>>

\* The user brings another window to the front.
SwitchTo(w) ==
  /\ w # front /\ switches < MaxSwitches
  /\ front' = w /\ switches' = switches + 1
  /\ told' = IF hooked THEN Append(told, w) ELSE told

MonitorInit ==
  /\ front \in Windows /\ switches = 0 /\ told = <<>>
  /\ snapshot = NoInfo
  /\ asking = [t \in Threads |-> 0]
  /\ pumpAt = "none" /\ starts = 0 /\ detached = 0
  /\ caller = "idle"
  /\ monitoring = FALSE /\ stuckPump = FALSE /\ exited = FALSE /\ hooked = FALSE

MonitorStep ==
  \/ StartMonitor \/ Seed \/ Seeded \/ AskPumpToGo \/ JoinPump \/ DetachPump
  \/ PumpInstalls \/ PumpAsks \/ PumpPublishes \/ PumpQuits \/ PumpExits

(* start() never adds a second pump to one that stop() had to leave behind *)
(* (the reason it refuses, ProcessMonitor.cpp lines 286-295): a detached   *)
(* pump is the last one.                                                   *)
OnePump == detached > 0 => (detached = 1 /\ stuckPump /\ ~monitoring)
=============================================================================
