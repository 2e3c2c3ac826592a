----------------------------- MODULE Foreground -----------------------------
(***************************************************************************)
(* What src/src/app/main.cpp makes of the window in front: whether keys    *)
(* pass untouched (fgExcluded_), and whether edits may go through the text *)
(* services (fgUseTsf_), which a hung application would block.  The hook   *)
(* thread decides on every switch; the UI thread probes the new window,    *)
(* and decides again on settings, display changes and resume.              *)
(***************************************************************************)
EXTENDS ProcessMonitor

CONSTANTS
  MaxSettings,  \* bound: changes of the settings
  Outputs       \* choices of output that are tried: <<outputMode, strategyOutput>>

VARIABLES
  events,     \* switches the hook thread has not handled yet
  hook,       \* where the hook thread is in the handling of a switch
  ui,         \* where the UI thread is: [at, hwnd, fg]
  posted,     \* WM_APP_FGPROBE messages: the window each was posted for
  mode,       \* outputMode: 0 automatic, 1 text services, 2 inline
  strategy,   \* strategyOutput
  switched,   \* kinds the user excludes: setExcludeIde, ...Game, ...Shell
  settings,   \* changes of the settings so far
  fgExcluded, fgUseTsf, fgProbePending, fgHwnd,
  clean       \* history: the last switch was handled with no other query in flight

policyVars == <<fgExcluded, fgUseTsf, fgProbePending, fgHwnd>>
choiceVars == <<mode, strategy, switched, settings>>
desktopVars == <<monitorVars, events, hook, ui, posted, choiceVars, policyVars, clean>>

UiIdle == [at |-> "idle", hwnd |-> 0, fg |-> 0]
StartingUp == ui.at \in {"startup", "first"}   \* the keyboard is not hooked yet

Excluded == AutoExcluded(snapshot, switched) \/ snapshot.elevated

\* The radio button, then the performance profile, then the application.
Mode ==
  IF mode # 0 THEN mode
  ELSE CASE strategy = 1 -> 2
         [] strategy = 2 -> 1
         [] OTHER -> 0

IsFlickerProne(info) == info.kind = "Browser" \/ info.exe = "winword.exe"

UseTsf ==
  CASE Mode = 1 -> TRUE
    [] Mode = 2 -> FALSE
    [] OTHER -> IsFlickerProne(snapshot)

updateExclusionCache == fgExcluded' = Excluded
updateForegroundPolicy == fgUseTsf' = UseTsf /\ fgHwnd' = snapshot.hwnd

PolicyInit ==
  /\ MonitorInit
  /\ events = <<>> /\ hook = "idle" /\ posted = <<>>
  /\ \E o \in Outputs : mode = o[1] /\ strategy = o[2]
  /\ switched = {"Ide", "Game"} /\ settings = 0
  /\ fgExcluded = FALSE /\ fgUseTsf = FALSE /\ fgProbePending = FALSE /\ fgHwnd = 0
  /\ ui = [UiIdle EXCEPT !.at = "startup"]
  /\ clean = FALSE

\* Both pumps are told, in an order of their own.  (Bound: the user waits
\* until the program has started.)
Switch(w) ==
  /\ ~StartingUp
  /\ SwitchTo(w)
  /\ events' = Append(events, w)
  /\ clean' = FALSE
  /\ UNCHANGED <<snapshot, asking, pumpVars, hook, ui, posted, choiceVars, policyVars>>

Monitor ==
  /\ MonitorStep
  /\ clean' = (clean /\ asking' = asking /\ snapshot' = snapshot)
  /\ UNCHANGED <<events, hook, ui, posted, choiceVars, policyVars>>

(***************************************************************************)
(* The hook thread, ForegroundChanged: refreshNow, the exclusion, the      *)
(* policy, then the gate: no text services before the probe.               *)
(***************************************************************************)
HookGoto(from, to) ==
  /\ hook = from /\ hook' = to
  /\ UNCHANGED <<windowVars, pumpVars, ui, choiceVars>>

BadHookAsks ==
  /\ events # <<>>
  /\ HookGoto("idle", "exclude")
  /\ events' = Tail(events)
  /\ clean' = (events' = <<>> /\ \A t \in Threads : asking[t] = 0)
  /\ UNCHANGED <<snapshot, asking, posted, policyVars>>

HookAsks ==
  /\ events # <<>>
  /\ HookGoto("idle", "publish")
  /\ Ask("hook", front)
  /\ events' = Tail(events)
  /\ clean' = (events' = <<>> /\ \A t \in Threads : asking[t] = 0)
  /\ UNCHANGED <<snapshot, posted, policyVars>>

HookPublishes ==
  /\ HookGoto("publish", "exclude")
  /\ \/ Publish("hook") /\ clean' = clean
     \/ Drop("hook") /\ clean' = FALSE
  /\ UNCHANGED <<events, posted, policyVars>>

HookExcludes ==
  /\ HookGoto("exclude", "policy")
  /\ updateExclusionCache
  /\ UNCHANGED <<events, snapshot, asking, posted, fgUseTsf, fgProbePending, fgHwnd, clean>>

HookDecides ==
  /\ HookGoto("policy", "gate")
  /\ updateForegroundPolicy
  /\ UNCHANGED <<events, snapshot, asking, posted, fgExcluded, fgProbePending, clean>>

HookGates ==
  /\ HookGoto("gate", "idle")
  /\ IF fgUseTsf
     THEN /\ fgUseTsf' = FALSE /\ fgProbePending' = TRUE
          /\ posted' = Append(posted, snapshot.hwnd)
     ELSE UNCHANGED <<fgUseTsf, fgProbePending, posted>>
  /\ UNCHANGED <<events, snapshot, asking, fgExcluded, fgHwnd, clean>>

HookStep == HookAsks \/ HookPublishes \/ HookExcludes \/ HookDecides \/ HookGates

(***************************************************************************)
(* The UI thread.  The probe: only of the window the message names, for at *)
(* most 150 ms; a window that answers gets the policy of the snapshot.     *)
(***************************************************************************)
UiGoto(from, to) ==
  /\ ui.at = from /\ ui' = to
  /\ UNCHANGED <<windowVars, pumpVars, events, hook>>

ProbeBegins ==
  /\ posted # <<>>
  /\ UiGoto("idle", [at |-> "ping", hwnd |-> Head(posted), fg |-> snapshot.hwnd])
  /\ posted' = Tail(posted)
  /\ UNCHANGED <<snapshot, asking, choiceVars, policyVars, clean>>

Pinged == ui.fg # 0 /\ (ui.hwnd = 0 \/ ui.hwnd = ui.fg)

ProbePasses ==
  /\ Pinged
  /\ UiGoto("ping", UiIdle)
  /\ updateForegroundPolicy
  /\ fgProbePending' = FALSE
  /\ UNCHANGED <<snapshot, asking, posted, choiceVars, fgExcluded, clean>>

BadProbeFails ==
  /\ UiGoto("ping", UiIdle)
  /\ UNCHANGED <<snapshot, asking, posted, choiceVars, policyVars, clean>>

\* The window is hung, or the message is of an earlier switch.
ProbeFails ==
  /\ UiGoto("ping", UiIdle)
  /\ fgProbePending' = FALSE
  /\ UNCHANGED <<snapshot, asking, posted, choiceVars, fgExcluded, fgUseTsf, fgHwnd, clean>>

\* wWinMain: the monitor is started, or fails to, then refreshed.
Startup ==
  /\ starts > 0 /\ caller = "idle"
  /\ UiGoto("startup", [UiIdle EXCEPT !.at = "first"])
  /\ Ask("ui", front)
  /\ UNCHANGED <<snapshot, posted, choiceVars, policyVars, clean>>

\* WM_DISPLAYCHANGE, onLifecycleResume: refresh, exclusion, policy.
Refresh(resume) ==
  /\ caller = "idle" /\ settings < MaxSettings /\ settings' = settings + 1
  /\ UiGoto("idle", [UiIdle EXCEPT !.at = IF resume THEN "resume" ELSE "display"])
  /\ Ask("ui", front)
  /\ clean' = FALSE
  /\ UNCHANGED <<snapshot, posted, mode, strategy, switched, policyVars>>

Refreshed ==
  /\ ui.at \in {"first", "resume", "display"} /\ asking["ui"] # 0
  /\ Publish("ui") \/ Drop("ui")
  /\ UNCHANGED <<windowVars, pumpVars, events, hook, ui, posted, choiceVars, policyVars, clean>>

Redecided ==
  /\ ui.at \in {"first", "resume", "display"} /\ asking["ui"] = 0
  /\ ui' = UiIdle
  /\ updateExclusionCache
  /\ updateForegroundPolicy
  /\ fgProbePending' = (fgProbePending /\ ui.at # "resume")
  /\ UNCHANGED <<monitorVars, events, hook, posted, choiceVars, clean>>

\* Apply in the settings dialog; a tick at which the profile resolves to
\* another output (applyPerfStrategy).
Apply ==
  /\ settings < MaxSettings /\ settings' = settings + 1
  /\ UiGoto("idle", UiIdle)
  /\ \E o \in Outputs : mode' = o[1] /\ strategy' = o[2]
  /\ switched' \in {{"Ide", "Game"}, {}}
  /\ UNCHANGED <<snapshot, asking, posted, fgProbePending, clean>>
  /\ fgExcluded' = (AutoExcluded(snapshot, switched') \/ snapshot.elevated)
  /\ fgUseTsf' = (UseTsf)' /\ fgHwnd' = snapshot.hwnd

UiStep == Startup \/ ProbeBegins \/ ProbePasses \/ ProbeFails \/ Refreshed \/ Redecided

\* The consumer: a commit that took 100 ms ends the text services here.
SlowCommit ==
  /\ fgUseTsf /\ fgUseTsf' = FALSE
  /\ UNCHANGED <<monitorVars, events, hook, ui, posted, choiceVars,
                 fgExcluded, fgProbePending, fgHwnd, clean>>

PolicyNext ==
  \/ \E w \in Windows : Switch(w)
  \/ Monitor \/ HookStep \/ UiStep \/ Apply \/ SlowCommit
  \/ \E resume \in BOOLEAN : Refresh(resume)

PolicySpec == PolicyInit /\ [][PolicyNext]_desktopVars
FairPolicySpec == PolicySpec /\ WF_desktopVars(UiStep) /\ WF_desktopVars(HookStep)

Quiet == events = <<>> /\ hook = "idle" /\ ui.at = "idle"

(* A switch handled while no other query was in flight leaves the cached   *)
(* exclusion, and the window the layout is read from, those of the window  *)
(* in front (main.cpp lines 1779-1786: why the handler refreshes itself).  *)
RefreshIsEnough ==
  Quiet /\ clean =>
    snapshot.hwnd = front /\ fgHwnd = front /\ (fgExcluded <=> Excluded)

(* fgProbePending_ is set only while a probe is on its way: whoever waits  *)
(* for it waits for something (main.cpp lines 3461-3465).                  *)
PendingIsInFlight ==
  fgProbePending => posted # <<>> \/ ui.at = "ping"

(* A probe is answered, whatever the window does and however often the     *)
(* user switches meanwhile.                                                *)
ProbesEnd == (posted # <<>>) ~> (posted = <<>> /\ ui.at = "idle")

(* A probe arms the text services for the window it pinged and no other    *)
(* (main.cpp lines 3445-3450: "A stale probe result is simply discarded"). *)
ProbeArmsItsWindow ==
  [][ui.at = "ping" /\ ui'.at = "idle" /\ fgUseTsf' /\ ~fgUseTsf => fgHwnd' = ui.fg]_desktopVars

(* With the handler at rest the cached exclusion is that of the window in  *)
(* front (main.cpp lines 1779-1783).                                       *)
ExclusionIsCurrent ==
  Quiet /\ told = <<>> /\ asking = [t \in Threads |-> 0] /\ snapshot.hwnd = front
    => (fgExcluded <=> Excluded)
=============================================================================
