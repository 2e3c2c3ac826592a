---------------------------- MODULE HookWatchdog ----------------------------
(***************************************************************************)
(* Self-healing of the keyboard hook: HookWatchdog::check of               *)
(* src/src/core/win32_wrapper.hpp, called from the pump's 5 ms timer, with *)
(* what it looks at: the ticks the hooks and the emitter stamp, the        *)
(* system's last-input tick and the active probe.                          *)
(*                                                                         *)
(* One unit of time is one timer tick.  Ticks are unsigned numbers of a    *)
(* fixed width, compared by the sign of their difference, so clock wraps   *)
(* at TickRange (2^32 ms in the code, 49.7 days).                          *)
(***************************************************************************)
EXTENDS Integers

CONSTANTS
  TickRange,        \* number of tick values
  MissThreshold, MissesToRehook, ProbeInterval,   \* Config, in timer ticks
  Starts,           \* the tick at which the program starts
  FirstKeySeen,     \* TRUE: begin when the hook has seen its first key event
  Inputs,           \* what happens, of {"key", "hidden", "mouse", "inject", "die"}
  MayFail,          \* the hooks may fail to install again
  Horizon           \* bound: timer ticks

ASSUME WatchdogAssumption ==
  /\ TickRange \in Nat \ {0} /\ Starts \subseteq 0 .. TickRange - 1
  /\ MissThreshold \in Nat /\ MissesToRehook \in Nat \ {0} /\ ProbeInterval \in Nat
  /\ Inputs \subseteq {"key", "hidden", "mouse", "inject", "die"}
  /\ FirstKeySeen \in BOOLEAN /\ MayFail \in BOOLEAN /\ Horizon \in Nat

VARIABLES
  clock,               \* GetTickCount
  kbSeen, mouseSeen,   \* stamped by the hook callbacks
  selfSeen,            \* stamped by the emitter
  lastInput,           \* GetLastInputInfo
  lastProbe, misses,   \* the watchdog's own
  probing,             \* a probe is on its way to the hooks
  alive,               \* the system still calls the keyboard hook
  elapsed,             \* timer ticks so far
  unseen,              \* a key event passed the hook by since the last it saw
  overdue              \* timer ticks, counted from 1, since a key passed a dead
                       \* hook by more than MissThreshold after the last event
                       \* it saw, or since the last attempt to repair it

stamps == <<kbSeen, mouseSeen, selfSeen, lastInput>>
watchdog == <<lastProbe, misses>>
watchVars == <<clock, stamps, watchdog, probing, alive, elapsed, unseen, overdue>>

\* static_cast<int32_t>(a - b)
Since(a, b) ==
  LET d == (a - b) % TickRange IN IF d < TickRange \div 2 THEN d ELSE d - TickRange

WatchInit ==
  /\ clock \in Starts
  /\ kbSeen = IF FirstKeySeen THEN clock ELSE 0
  /\ mouseSeen = 0 /\ selfSeen = 0
  /\ lastInput = clock
  /\ lastProbe = 0 /\ misses = 0
  /\ probing = FALSE /\ alive = TRUE
  /\ elapsed = 0 /\ unseen = FALSE /\ overdue = 0

(***************************************************************************)
(* Input.  Every input moves the system's last-input tick; the keyboard    *)
(* hook stamps what it gets before it filters anything, a probe and the    *)
(* program's own SendInput included.                                       *)
(***************************************************************************)
KeyInput(reaches) ==
  /\ lastInput' = clock
  /\ kbSeen' = IF reaches THEN clock ELSE kbSeen
  /\ unseen' = ~reaches

Key ==
  /\ "key" \in Inputs
  /\ KeyInput(alive)
  /\ overdue' = IF ~alive /\ overdue = 0 /\ Since(clock, kbSeen) > MissThreshold
                THEN 1 ELSE overdue
  /\ UNCHANGED <<clock, mouseSeen, selfSeen, watchdog, probing, alive, elapsed>>

\* A key that goes to an elevated window: a live hook does not get it either.
HiddenKey ==
  /\ "hidden" \in Inputs
  /\ KeyInput(FALSE)
  /\ UNCHANGED <<clock, mouseSeen, selfSeen, watchdog, probing, alive, elapsed, overdue>>

Mouse ==
  /\ "mouse" \in Inputs
  /\ lastInput' = clock /\ mouseSeen' = clock
  /\ UNCHANGED <<clock, kbSeen, selfSeen, watchdog, probing, alive, elapsed, unseen, overdue>>

\* InlineEmitter: stamps its own tick and injects.
Inject ==
  /\ "inject" \in Inputs
  /\ selfSeen' = clock
  /\ KeyInput(alive)
  /\ UNCHANGED <<clock, mouseSeen, watchdog, probing, alive, elapsed, overdue>>

ProbeArrives ==
  /\ probing /\ probing' = FALSE
  /\ KeyInput(alive)
  /\ UNCHANGED <<clock, mouseSeen, selfSeen, watchdog, alive, elapsed, overdue>>

\* The system removes the keyboard hook without a word.
HookDies ==
  /\ "die" \in Inputs /\ alive
  /\ alive' = FALSE
  /\ UNCHANGED <<clock, stamps, watchdog, probing, elapsed, unseen, overdue>>

(***************************************************************************)
(* check(), at each timer tick.  A probe sent at one tick has gone through *)
(* the hooks by the next.                                                  *)
(***************************************************************************)
Fresh(stamp) == Since(clock, stamp) < MissThreshold
Masked == Fresh(mouseSeen) \/ Fresh(selfSeen)
BadSuspicious ==
  ~Fresh(kbSeen) /\ Since(lastInput, kbSeen) > MissThreshold /\ ~Masked
Suspicious == ~Fresh(kbSeen) /\ Since(lastInput, kbSeen) > MissThreshold

TimerTick ==
  /\ elapsed < Horizon /\ ~probing
  /\ elapsed' = elapsed + 1
  /\ clock' = (clock + 1) % TickRange
  /\ UNCHANGED stamps

BadProbe == UNCHANGED <<probing, lastProbe>>
Probe ==
  IF Masked /\ Since(clock, lastProbe) >= ProbeInterval
  THEN probing' = TRUE /\ lastProbe' = clock
  ELSE UNCHANGED <<probing, lastProbe>>

CheckQuiet ==
  /\ TimerTick /\ ~Suspicious
  /\ misses' = 0
  /\ overdue' = IF overdue = 0 THEN 0 ELSE overdue + 1
  /\ UNCHANGED <<lastProbe, probing, alive, unseen>>

BadMiss ==
  /\ TimerTick /\ Suspicious
  /\ Probe
  /\ misses' = misses + 1
  /\ overdue' = IF overdue = 0 THEN 0 ELSE overdue + 1
  /\ UNCHANGED <<alive, unseen>>

CheckMiss ==
  /\ TimerTick /\ Suspicious /\ misses + 1 < MissesToRehook
  /\ Probe
  /\ misses' = misses + 1
  /\ overdue' = IF overdue = 0 THEN 0 ELSE overdue + 1
  /\ UNCHANGED <<alive, unseen>>

\* reinstallHooksOnPump succeeds.
Rehook ==
  /\ TimerTick /\ Suspicious /\ misses + 1 >= MissesToRehook
  /\ Probe
  /\ misses' = 0
  /\ alive' = TRUE /\ overdue' = 0
  /\ UNCHANGED unseen

\* It fails, and leaves no keyboard hook.
RehookFails ==
  /\ MayFail
  /\ TimerTick /\ Suspicious /\ misses + 1 >= MissesToRehook
  /\ Probe
  /\ misses' = 0
  /\ alive' = FALSE
  /\ overdue' = IF overdue = 0 THEN 0 ELSE 1
  /\ UNCHANGED unseen

WatchNext ==
  \/ Key \/ HiddenKey \/ Mouse \/ Inject \/ ProbeArrives \/ HookDies
  \/ CheckQuiet \/ CheckMiss \/ Rehook \/ RehookFails

WatchSpec == WatchInit /\ [][WatchNext]_watchVars

WatchTypeOK ==
  /\ \A t \in {clock, kbSeen, mouseSeen, selfSeen, lastInput, lastProbe} :
       t \in 0 .. TickRange - 1
  /\ misses \in 0 .. MissesToRehook - 1
  /\ probing \in BOOLEAN /\ alive \in BOOLEAN /\ unseen \in BOOLEAN
  /\ elapsed \in 0 .. Horizon /\ overdue \in Nat

(* The hooks are installed again only if a key passed the keyboard hook by *)
(* since the last one it saw: mouse use, the program's own injection and   *)
(* idle time are no reason (lines 552-556; "mouse-only activity is not an  *)
(* unhook", tests/test_win32wrapper.cpp line 259).                         *)
RehooksForAReason == [][Rehook => unseen]_watchVars

(* A removed keyboard hook is repaired, or a repair tried again, a bounded *)
(* number of timer ticks after a key it should have seen, whatever the     *)
(* mouse and the emitter do in the meantime.                               *)
RepairIsPrompt == overdue <= MissesToRehook
=============================================================================
