-------------------------- MODULE InstanceControl ---------------------------
(***************************************************************************)
(* One instance per session.  A process owns the singleton by being the    *)
(* first to create a named mutex; the object lives as long as anybody      *)
(* holds a handle to it.  A process that finds it wakes the one before     *)
(* (its tray icon may be lost), pings it, and takes over - terminates it   *)
(* by the pid it published - only when the ping goes unanswered.           *)
(***************************************************************************)
EXTENDS Naturals, FiniteSets

CONSTANTS
    Procs,          \* processes, by pid
    NoPid,          \* RunningPid when nobody published
    MayCrash,        \* processes may die on their own, and starts may fail
    StartsInTime,   \* a start takes less than the 3 s + 2 s a ping waits
    MaxHangs        \* bound: UI threads that stop answering

ASSUME InstanceAssumption == NoPid \notin Procs

VARIABLES
    pc,             \* where each process is
    handles,        \* processes with a handle on the mutex
    pid,            \* RunningPid
    hung,           \* processes whose UI thread does not answer
    event,          \* the wake event is signalled
    killed,         \* ghost: processes terminated by a takeover ...
    wronged,        \* ... and whether one of them was healthy
    hangs

instanceVars == <<pc, handles, pid, hung, event, killed, wronged, hangs>>

HasWindow(p) == pc[p] \in {"window", "running"}
Serves(p) == pc[p] = "running"              \* the wake watcher waits
Starting(p) == pc[p] \in {"claimed", "published", "window"}
Final == {"off", "gone", "dead"}
ProcessAlive(p) == pc[p] \notin Final
Instance(p) == Starting(p) \/ pc[p] \in {"running", "leaving", "cleared"}

Goto(p, label) == pc' = [pc EXCEPT ![p] = label]

InstanceInit ==
    /\ pc = [p \in Procs |-> "off"]
    /\ handles = {} /\ pid = NoPid /\ hung = {} /\ event = FALSE
    /\ killed = {} /\ wronged = FALSE /\ hangs = 0

\* CreateMutexW: everybody gets a handle, the first one the singleton.
Takes(p, otherwise) ==
    /\ handles' = handles \cup {p}
    /\ Goto(p, IF handles \ {p} = {} THEN "claimed" ELSE otherwise)

LaunchProcess(p) ==
    /\ pc[p] = "off"
    /\ Takes(p, "found")
    /\ UNCHANGED <<pid, hung, event, killed, wronged, hangs>>

\* signalRunningInstance: the event exists only while a watcher waits on it.
Signal(p) ==
    /\ pc[p] = "found"
    /\ event' = (event \/ \E q \in Procs : Serves(q))
    /\ Goto(p, "ping")
    /\ UNCHANGED <<handles, pid, hung, killed, wronged, hangs>>

\* runningInstanceResponsive: an answer ends this process.
Answered(p) ==
    /\ pc[p] = "ping"
    /\ \E q \in Procs : Serves(q) /\ q \notin hung
    /\ Goto(p, "gone") /\ handles' = handles \ {p}
    /\ UNCHANGED <<pid, hung, event, killed, wronged, hangs>>

\* No window within 3 s, or no answer within 2 s.
\* Mutant: the answer of a window is waited for without a limit.
BadUnanswered(p) ==
    /\ pc[p] = "ping"
    /\ \A q \in Procs : ~HasWindow(q)
    /\ Goto(p, "stale")
    /\ UNCHANGED <<handles, pid, hung, event, killed, wronged, hangs>>
Unanswered(p) ==
    /\ pc[p] = "ping"
    /\ \A q \in Procs : HasWindow(q) => q \in hung \/ Starting(q)
    /\ StartsInTime => \A q \in Procs : Starting(q) => q \in hung
    /\ Goto(p, "stale")
    /\ UNCHANGED <<handles, pid, hung, event, killed, wronged, hangs>>

Terminated(q) ==
    /\ killed' = killed \cup {q}
    /\ wronged' = (wronged \/ (q \notin hung /\ (Starting(q) \/ pc[q] = "running")))

\* terminateStaleInstance: the process RunningPid names, if it is one of ours
\* and may be opened.
terminateStaleInstance(p) ==
    /\ pc[p] = "stale"
    /\ \/ /\ pid \in Procs \ {p} /\ ProcessAlive(pid)
          /\ pc' = [pc EXCEPT ![pid] = "dead", ![p] = "close"]
          /\ handles' = handles \ {pid}
          /\ event' = (event /\ ~Serves(pid))
          /\ Terminated(pid)
       \/ /\ Goto(p, "close")
          /\ UNCHANGED <<handles, event, killed, wronged>>
    /\ UNCHANGED <<pid, hung, hangs>>

CloseHandle(p) ==
    /\ pc[p] = "close"
    /\ handles' = handles \ {p}
    /\ Goto(p, "retake")
    /\ UNCHANGED <<pid, hung, event, killed, wronged, hangs>>

\* The second CreateMutexW; a process that is refused says so in a box, and
\* holds its handle until the box is closed.
\* Mutant: after a takeover the mutex is not looked at again.
BadRetake(p) ==
    /\ pc[p] = "retake"
    /\ handles' = handles \cup {p}
    /\ Goto(p, "claimed")
    /\ UNCHANGED <<pid, hung, event, killed, wronged, hangs>>
Retake(p) ==
    /\ pc[p] = "retake"
    /\ Takes(p, "refused")
    /\ UNCHANGED <<pid, hung, event, killed, wronged, hangs>>

Dismiss(p) ==
    /\ pc[p] = "refused"
    /\ Goto(p, "gone") /\ handles' = handles \ {p}
    /\ UNCHANGED <<pid, hung, event, killed, wronged, hangs>>

writeRunningPid(p) ==
    /\ pc[p] = "claimed"
    /\ pid' = p
    /\ Goto(p, "published")
    /\ UNCHANGED <<handles, hung, event, killed, wronged, hangs>>

CreateWindow(p) ==
    /\ pc[p] = "published"
    /\ Goto(p, "window")
    /\ UNCHANGED <<handles, pid, hung, event, killed, wronged, hangs>>

\* Hook, tray icon, wake watcher; then the message loop answers.
EnterLoop(p) ==
    /\ pc[p] = "window"
    /\ Goto(p, "running")
    /\ UNCHANGED <<handles, pid, hung, event, killed, wronged, hangs>>

\* No window: nothing is left behind.
WindowFails(p) ==
    /\ MayCrash /\ pc[p] = "published"
    /\ pid' = NoPid
    /\ Goto(p, "cleared")
    /\ UNCHANGED <<handles, hung, event, killed, wronged, hangs>>

\* No hook, said in a box: nothing is left behind.
HookFails(p) ==
    /\ MayCrash /\ pc[p] = "window"
    /\ pid' = NoPid
    /\ Goto(p, "cleared")
    /\ UNCHANGED <<handles, hung, event, killed, wronged, hangs>>

\* wakeWatcherMain: the event resets itself; the UI thread restores the icon.
WakeWatcher(p) ==
    /\ Serves(p) /\ event
    /\ event' = FALSE
    /\ UNCHANGED <<pc, handles, pid, hung, killed, wronged, hangs>>

\* WM_QUIT: the window is gone and the watcher has left.
Leave(p) ==
    /\ pc[p] = "running" /\ p \notin hung
    /\ Goto(p, "leaving") /\ event' = FALSE
    /\ UNCHANGED <<handles, pid, hung, killed, wronged, hangs>>

\* Mutant: the mutex is released before the pid is cleared.
BadclearRunningPid(p) ==
    /\ pc[p] = "leaving"
    /\ handles' = handles \ {p}
    /\ Goto(p, "cleared")
    /\ UNCHANGED <<pid, hung, event, killed, wronged, hangs>>
clearRunningPid(p) ==
    /\ pc[p] = "leaving"
    /\ pid' = NoPid
    /\ Goto(p, "cleared")
    /\ UNCHANGED <<handles, hung, event, killed, wronged, hangs>>

ReleaseMutex(p) ==
    /\ pc[p] = "cleared"
    /\ handles' = handles \ {p}
    /\ Goto(p, "gone")
    /\ UNCHANGED <<pid, hung, event, killed, wronged, hangs>>

\* The UI thread stops answering, and does not recover.
Hang(p) ==
    /\ pc[p] = "running" /\ hangs < MaxHangs
    /\ hung' = hung \cup {p} /\ hangs' = hangs + 1
    /\ UNCHANGED <<pc, handles, pid, event, killed, wronged>>

\* The process dies; what it published stays.
Crash(p) ==
    /\ MayCrash /\ ProcessAlive(p)
    /\ handles' = handles \ {p}
    /\ event' = (event /\ ~Serves(p))
    /\ Goto(p, "dead")
    /\ UNCHANGED <<pid, hung, killed, wronged, hangs>>

Step(p) ==
    \/ Signal(p) \/ Answered(p) \/ Unanswered(p) \/ terminateStaleInstance(p)
    \/ CloseHandle(p) \/ Retake(p) \/ Dismiss(p) \/ writeRunningPid(p)
    \/ CreateWindow(p) \/ EnterLoop(p) \/ WakeWatcher(p)
    \/ clearRunningPid(p) \/ ReleaseMutex(p)

InstanceNext ==
    \E p \in Procs : \/ LaunchProcess(p) \/ Step(p) \/ WindowFails(p) \/ HookFails(p)
                    \/ Leave(p) \/ Hang(p) \/ Crash(p)

InstanceSpec == InstanceInit /\ [][InstanceNext]_instanceVars

\* Every process goes on with its start or its exit; nobody has to launch, to
\* quit, to hang or to crash.
InstanceFairness == \A p \in Procs : WF_instanceVars(Step(p))

-----------------------------------------------------------------------------
(* Properties                                                              *)

\* Two hooks on one keyboard would compose every key twice.
OneInstance == \A p, q \in Procs : Instance(p) /\ Instance(q) => p = q

\* The published pid never names a process that lives and is not the instance:
\* the next takeover would terminate it.
PidIsTheInstance ==
    \A p \in Procs : (pid = p /\ ProcessAlive(p)) => Instance(p)

\* While starts are quick enough, a takeover terminates a process only if its UI
\* thread hangs or it is on its way out (comment in runningInstanceResponsive).
HealthyIsSpared == StartsInTime => ~wronged

\* The singleton: one instance, found by its pid, and never ended while healthy.
InstanceSound == OneInstance /\ PidIsTheInstance /\ HealthyIsSpared

\* A launch does not stay half-way: in the end every process is the instance,
\* was never launched, or has ended.
LaunchEnds == <>[](\A p \in Procs : pc[p] \in {"off", "running"} \cup Final)

\* Nobody is left hanging: a hung instance that somebody tried to replace is
\* replaced ("terminate it ... and acquire the singleton ourselves").
HungIsReplaced ==
    (\E p \in Procs : pc[p] = "stale") ~> (\E p \in Procs : pc[p] = "running" /\ p \notin hung)

=============================================================================
