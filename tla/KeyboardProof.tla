--------------------------- MODULE KeyboardProof ----------------------------
(***************************************************************************)
(* What the keyboard hook keeps about keys, the watchdog that installs the *)
(* hooks again, and the consumer that is woken for them. For every set of  *)
(* keys and any number of events, holds and resyncs: no application gets   *)
(* the KeyUp of a key whose KeyDown the hook kept from it, and the tracked *)
(* state of a modifier with one key is the system's. For every             *)
(* configuration of the watchdog: a removed hook is repaired promptly, on  *)
(* either side of the clock's wrap; and the hooks are installed again for  *)
(* a reason, as long as no stamp is older than half the clock's range. For *)
(* every capacity, batch and number of events and pokes: stop() always     *)
(* reaches the consumer, and a consumer that sleeps is seen as parked,     *)
(* with or without store buffers; and when stores are seen at once the     *)
(* parked protocol loses no wake-up.                                       *)
(***************************************************************************)
EXTENDS KeyStream, HookWatchdog, HookWake, DataFacts, TLAPS

(***************************************************************************)
(* NoPhantomUp looks at a KeyUp in flight; what makes it true is known     *)
(* from the KeyDown on.  A hold the hook saw begin and the application did *)
(* not is marked as suppressed, until its KeyUp is on its way, swallowed.  *)
(***************************************************************************)
UpInFlight(k) == kpc = "apply" /\ ev.up /\ ev.key = k /\ ev.swallowed
HiddenIsMarked ==
  \A k \in seen : k \in gotDown \/ k \in suppressed \/ UpInFlight(k)

\* A swallowed KeyDown in flight has its mark already, a KeyUp no longer.
MarkMatchesEvent ==
  kpc = "apply" => IF ev.up THEN ev.key \notin suppressed
                            ELSE ev.swallowed => ev.key \in suppressed

GuardInv == HiddenIsMarked /\ MarkMatchesEvent

LEMMA InitGuard == Init => GuardInv
BY DEF Init, GuardInv, HiddenIsMarked, MarkMatchesEvent

LEMMA StepGuard == GuardInv /\ [Next]_vars => GuardInv'
<1> SUFFICES ASSUME GuardInv, [Next]_vars PROVE GuardInv'
  OBVIOUS
<1> USE DEF GuardInv, HiddenIsMarked, MarkMatchesEvent, UpInFlight
<1>1. ASSUME NEW k \in Keys, NEW swallow \in BOOLEAN, Down(k, swallow) PROVE GuardInv'
  <2>1. /\ kpc = "idle" /\ kpc' = "apply"
        /\ ev' = [key |-> k, up |-> FALSE, swallowed |-> swallow]
        /\ UNCHANGED <<gotDown, seen>>
    BY <1>1 DEF Down
  <2>2. suppressed \subseteq suppressed' /\ (swallow => k \in suppressed')
    BY <1>1 DEF Down
  <2> QED  BY <2>1, <2>2
<1>2. ASSUME NEW k \in Keys, Up(k) PROVE GuardInv'
  <2>1. /\ kpc = "idle" /\ kpc' = "apply"
        /\ ev' = [key |-> k, up |-> TRUE, swallowed |-> k \in suppressed]
        /\ suppressed' = suppressed \ {k}
        /\ UNCHANGED <<gotDown, seen>>
    BY <1>2 DEF Up
  <2> QED  BY <2>1
<1>3. CASE ApplyDown
  BY <1>3 DEF ApplyDown
<1>4. CASE ApplyUp
  BY <1>4 DEF ApplyUp
<1>5. CASE GoBlind
  BY <1>5 DEF GoBlind
<1>6. CASE Return
  BY <1>6 DEF Return
<1>7. ASSUME NEW k \in Keys, BlindDown(k) PROVE GuardInv'
  BY <1>7 DEF BlindDown
<1>8. ASSUME NEW k \in Keys, BlindUp(k) PROVE GuardInv'
  BY <1>8 DEF BlindUp
<1>9. CASE ResyncRead
  BY <1>9 DEF ResyncRead
<1>10. CASE ResyncStore
  BY <1>10 DEF ResyncStore
<1>11. CASE UNCHANGED vars
  BY <1>11 DEF vars
<1> QED  BY <1>1, <1>2, <1>3, <1>4, <1>5, <1>6, <1>7, <1>8, <1>9, <1>10, <1>11 DEF Next

\* The guard of lines 864-867 keeps half keystrokes from the application.
THEOREM PhantomUpGuard == Spec => []NoPhantomUp
<1>1. GuardInv => NoPhantomUp
  BY DEF GuardInv, HiddenIsMarked, MarkMatchesEvent, UpInFlight, NoPhantomUp
<1> QED  BY <1>1, InitGuard, StepGuard, PTL DEF Spec

(***************************************************************************)
(* The tracked Shift.  A callback changes it before the system applies the *)
(* event, so what it is compared with is the keys held once the event in   *)
(* flight has been applied.  The pump goes blind between events only.      *)
(***************************************************************************)
HeldSoon ==
  IF kpc = "apply" THEN IF ev.up THEN held \ {ev.key} ELSE held \cup {ev.key}
  ELSE held

BlindIsIdle == blind => kpc = "idle"
ShiftIsHeld == ~blind /\ ~stale => (shiftBit <=> HeldSoon \cap Shifts # {})

ShiftInv == BlindIsIdle /\ ShiftIsHeld

LEMMA InitShift == Init => ShiftInv
BY DEF Init, ShiftInv, BlindIsIdle, ShiftIsHeld, HeldSoon

LEMMA StepShift ==
  ASSUME \A s, t \in Shifts : s = t
  PROVE  ShiftInv /\ [Next]_vars => ShiftInv'
<1> SUFFICES ASSUME ShiftInv, [Next]_vars PROVE ShiftInv'
  OBVIOUS
<1> USE DEF ShiftInv, BlindIsIdle, ShiftIsHeld, HeldSoon
<1>1. ASSUME NEW k \in Keys, NEW swallow \in BOOLEAN, Down(k, swallow) PROVE ShiftInv'
  BY <1>1 DEF Down, ModifierDown, system, resync
<1>2. ASSUME NEW k \in Keys, Up(k) PROVE ShiftInv'
  <2>1. CASE k \in Shifts  BY <1>2, <2>1 DEF Up, system, resync
  <2>2. CASE k \notin Shifts  BY <1>2, <2>2 DEF Up, system, resync
  <2> QED  BY <2>1, <2>2
<1>3. CASE ApplyDown
  BY <1>3 DEF ApplyDown, SystemDown, tracker, resync
<1>4. CASE ApplyUp
  BY <1>4 DEF ApplyUp, SystemUp, tracker, resync
<1>5. CASE GoBlind
  BY <1>5 DEF GoBlind
<1>6. CASE Return
  BY <1>6 DEF Return, Snapshot, system
<1>7. ASSUME NEW k \in Keys, BlindDown(k) PROVE ShiftInv'
  BY <1>7 DEF BlindDown
<1>8. ASSUME NEW k \in Keys, BlindUp(k) PROVE ShiftInv'
  BY <1>8 DEF BlindUp
<1>9. CASE ResyncRead
  BY <1>9 DEF ResyncRead, system, tracker
<1>10. CASE ResyncStore
  <2>1. shiftBit' = snap.shift /\ UNCHANGED <<held, kpc, ev, blind>>
    BY <1>10 DEF ResyncStore, system
  <2>2. ~stale' => snap = Snapshot /\ kpc # "apply"
    BY <1>10, Zenon DEF ResyncStore
  <2>3. Snapshot.shift = (held \cap Shifts # {})
    BY DEF Snapshot
  <2> QED  BY <2>1, <2>2, <2>3
<1>11. CASE UNCHANGED vars
  BY <1>11 DEF vars, system, tracker, resync
<1> QED  BY <1>1, <1>2, <1>3, <1>4, <1>5, <1>6, <1>7, <1>8, <1>9, <1>10, <1>11 DEF Next

\* A modifier with one key is tracked as the system has it, whatever the hook was
\* blind to, unless a resync stored a snapshot that was out of date. With a left and
\* a right key the release of one clears the bit both share (applyModifierDelta).
THEOREM ShiftIsTracked ==
  ASSUME \A s, t \in Shifts : s = t
  PROVE  Spec => []ShiftTracksSystem
<1>1. ShiftInv => ShiftTracksSystem
  BY DEF ShiftInv, ShiftIsHeld, HeldSoon, ShiftTracksSystem, Settled
<1>2. ShiftInv /\ [Next]_vars => ShiftInv'
  BY StepShift
<1> QED  BY <1>1, <1>2, InitShift, PTL DEF Spec


(***************************************************************************)
(* The clock.  Two ticks less than half the range apart are compared by    *)
(* their distance, on whichever side of the wrap they are.                 *)
(***************************************************************************)
Tick(s, i) == (s + i) % TickRange

LEMMA SinceIsDistance ==
  ASSUME NEW s \in Nat, NEW i \in Nat, NEW j \in Nat,
         j <= i, i - j < TickRange \div 2
  PROVE  Since(Tick(s, i), Tick(s, j)) = i - j
<1> DEFINE R == TickRange
           h == R \div 2
           a == Tick(s, i)
           b == Tick(s, j)
<1>1. R \in Nat \ {0}  BY WatchdogAssumption
<1>2. h \in Nat /\ 2 * h <= R /\ h < R  BY <1>1
<1>3. s + i \in Nat /\ s + j \in Nat  OBVIOUS
<1>4. PICK p \in Nat : s + i = (R * p) + ((s + i) % R)  BY <1>1, <1>3, ModQuotient
<1>5. PICK q \in Nat : s + j = (R * q) + ((s + j) % R)  BY <1>1, <1>3, ModQuotient
<1>6. a \in 0 .. R - 1 /\ b \in 0 .. R - 1  BY <1>1, <1>3, ModRange DEF Tick
<1>7. s + i = (R * p) + a /\ s + j = (R * q) + b  BY <1>4, <1>5 DEF Tick
<1> DEFINE x == R * p
           y == R * q
<1>8. x \in Nat /\ y \in Nat  BY <1>1
<1>9. (p >= q + 1 => x >= y + R) /\ (q >= p + 1 => y >= x + R)  BY <1>1, LapApart
<1>10. p >= q + 2 => x >= y + R + R
  <2> SUFFICES ASSUME p >= q + 2 PROVE x >= y + R + R
    OBVIOUS
  <2>1. R * (q + 1) = y + R /\ R * (q + 1) \in Nat  BY <1>1
  <2>2. x >= (R * (q + 1)) + R
    <3>1. q + 1 \in Nat /\ p >= (q + 1) + 1  OBVIOUS
    <3> QED  BY <1>1, <3>1, LapApart
  <2> HIDE DEF x, y
  <2> QED  BY <1>1, <1>8, <2>1, <2>2
<1>11. p = q => x = y  OBVIOUS
<1> HIDE DEF R, h, a, b, x, y
<1>12. s + i = x + a /\ s + j = y + b  BY <1>7 DEF x, y
<1>13. i - j < h  BY DEF h, R
<1>14. a - b = i - j \/ a - b = (i - j) - R
  <2>1. CASE p = q  BY <1>1, <1>6, <1>8, <1>11, <1>12, <2>1
  <2>2. CASE p = q + 1
    <3>1. x = y + R  BY <1>1, <2>2 DEF x, y
    <3> QED  BY <1>1, <1>6, <1>8, <1>12, <3>1
  <2>3. CASE p >= q + 2
    BY <1>1, <1>2, <1>6, <1>8, <1>10, <1>12, <1>13, <2>3
  <2>4. CASE q >= p + 1
    BY <1>1, <1>2, <1>6, <1>8, <1>9, <1>12, <2>4
  <2> QED  BY <2>1, <2>2, <2>3, <2>4
<1>15. i - j \in 0 .. R - 1  BY <1>1, <1>2, <1>13
<1>16. (a - b) % R = i - j
  <2>1. CASE a - b = i - j  BY <1>1, <1>15, <2>1, FirstLap
  <2>2. CASE a - b = (i - j) - R
    <3> DEFINE d == i - j
    <3>1. d \in 0 .. R - 1  BY <1>15
    <3> HIDE DEF d
    <3>2. (d - R) % R = d  BY <1>1, <3>1
    <3> QED  BY <2>2, <3>2 DEF d
  <2> QED  BY <1>14, <2>1, <2>2
<1> QED  BY <1>13, <1>16 DEF Since, a, b, h, R

(***************************************************************************)
(* Prompt repair.  The program has run for less than half the range of the *)
(* clock (24.8 days), and the hook has seen a key.                         *)
(***************************************************************************)
ShortRun == FirstKeySeen /\ Horizon < TickRange \div 2

\* The stamps are ticks of the run; a dead hook that let a key pass stays
\* suspicious, and each tick that finds it so counts a miss.
PromptAt(s, k, l) ==
  /\ clock = Tick(s, elapsed) /\ kbSeen = Tick(s, k) /\ lastInput = Tick(s, l)
  /\ k <= l /\ l <= elapsed
  /\ overdue # 0 => ~alive /\ l - k > MissThreshold /\ overdue <= misses + 1
PromptInv ==
  /\ elapsed \in 0 .. Horizon /\ overdue \in Nat
  /\ misses \in 0 .. MissesToRehook - 1 /\ alive \in BOOLEAN
  /\ \E s \in Starts : \E k \in Nat, l \in Nat : PromptAt(s, k, l)

LEMMA InitPrompt == ASSUME ShortRun, WatchInit PROVE PromptInv
<1>1. /\ elapsed = 0 /\ overdue = 0 /\ misses = 0 /\ alive
      /\ clock \in Starts /\ kbSeen = clock /\ lastInput = clock
  BY DEF WatchInit, ShortRun
<1>2. clock \in 0 .. TickRange - 1 /\ clock \in Nat  BY <1>1, WatchdogAssumption
<1>3. Tick(clock, 0) = clock
  <2>1. clock + 0 = clock  BY <1>2
  <2> QED  BY <1>2, <2>1, WatchdogAssumption, FirstLap DEF Tick
<1>4. PromptAt(clock, 0, 0)  BY <1>1, <1>3 DEF PromptAt
<1> QED  BY <1>1, <1>4, WatchdogAssumption DEF PromptInv

\* A tick of the timer moves the clock by one.
LEMMA NextTick ==
  ASSUME NEW s \in Nat, NEW i \in Nat, clock = Tick(s, i), clock' = (clock + 1) % TickRange
  PROVE  clock' = Tick(s, i + 1)
<1> DEFINE R == TickRange
           a == (s + i) % R
           b == (s + i + 1) % R
           c == (a + 1) % R
<1>1. R \in Nat \ {0} /\ s + i \in Nat /\ s + i + 1 \in Nat  BY WatchdogAssumption
<1>2. PICK p \in Nat : s + i = (R * p) + a  BY <1>1, ModQuotient
<1>3. a \in 0 .. R - 1 /\ a + 1 \in Nat  BY <1>1, ModRange
<1>4. PICK q \in Nat : s + i + 1 = (R * q) + b  BY <1>1, ModQuotient
<1>5. PICK t \in Nat : a + 1 = (R * t) + c  BY <1>1, <1>3, ModQuotient
<1>6. b \in 0 .. R - 1 /\ c \in 0 .. R - 1  BY <1>1, <1>3, ModRange
<1>7. R * (p + t) = (R * p) + (R * t) /\ p + t \in Nat  BY <1>1
<1>8. R * p \in Nat /\ R * t \in Nat /\ R * q \in Nat  BY <1>1
<1> HIDE DEF a, b, c, R
<1>9. (R * (p + t)) + c = (R * q) + b
  BY <1>1, <1>2, <1>3, <1>4, <1>5, <1>6, <1>7, <1>8
<1>10. b = c  BY <1>1, <1>6, <1>7, <1>9, RemainderUnique
<1>11. s + (i + 1) = s + i + 1  OBVIOUS
<1> QED  BY <1>10, <1>11 DEF Tick, a, b, c, R

LEMMA Distance ==
  ASSUME ShortRun, elapsed \in 0 .. Horizon, NEW s \in Starts, NEW k \in Nat, k <= elapsed,
         clock = Tick(s, elapsed), kbSeen = Tick(s, k)
  PROVE  Since(clock, kbSeen) = elapsed - k
<1>1. s \in Nat /\ elapsed \in Nat /\ Horizon \in Nat /\ TickRange \div 2 \in Nat
  BY WatchdogAssumption
<1>2. elapsed - k < TickRange \div 2  BY <1>1 DEF ShortRun
<1> QED  BY <1>1, <1>2, SinceIsDistance

\* An input: seen by a live hook or not, late for a dead one or not.
LEMMA InputPrompt ==
  ASSUME ShortRun, PromptInv, UNCHANGED <<clock, alive, elapsed, misses>>,
         lastInput' \in {lastInput, clock},
         (kbSeen' = clock /\ alive /\ lastInput' = clock) \/ kbSeen' = kbSeen,
         \/ overdue' = overdue
         \/ /\ overdue' = 1 /\ ~alive /\ kbSeen' = kbSeen /\ lastInput' = clock
            /\ Since(clock, kbSeen) > MissThreshold
  PROVE  PromptInv'
<1>1. PICK s \in Starts, k \in Nat, l \in Nat : PromptAt(s, k, l)  BY DEF PromptInv
<1>2. /\ elapsed \in Nat /\ overdue \in Nat /\ misses \in Nat /\ MissThreshold \in Nat
      /\ k <= l /\ l <= elapsed
      /\ clock = Tick(s, elapsed) /\ kbSeen = Tick(s, k) /\ lastInput = Tick(s, l)
  BY <1>1, WatchdogAssumption DEF PromptInv, PromptAt
<1>3. overdue # 0 => ~alive /\ l - k > MissThreshold /\ overdue <= misses + 1
  BY <1>1 DEF PromptAt
<1>4. CASE kbSeen' = clock /\ alive /\ lastInput' = clock
  <2>1. overdue' = 0  BY <1>3, <1>4
  <2>2. PromptAt(s, elapsed, elapsed)'  BY <1>2, <1>4, <2>1 DEF PromptAt
  <2> QED  BY <1>2, <2>1, <2>2 DEF PromptInv
<1>5. CASE kbSeen' = kbSeen /\ lastInput' = clock
  <2>1. overdue' = 1 => elapsed - k > MissThreshold \/ overdue' = overdue
    BY <1>2, Distance DEF PromptInv
  <2>2. overdue' # 0 => ~alive /\ elapsed - k > MissThreshold /\ overdue' <= misses + 1
    BY <1>2, <1>3, <2>1
  <2>3. PromptAt(s, k, elapsed)'  BY <1>2, <1>5, <2>2 DEF PromptAt
  <2>4. overdue' \in Nat  BY <1>2
  <2> QED  BY <1>2, <2>3, <2>4 DEF PromptInv
<1>6. CASE kbSeen' = kbSeen /\ lastInput' # clock
  <2>1. overdue' = overdue /\ lastInput' = lastInput  BY <1>6
  <2>2. PromptAt(s, k, l)'  BY <1>2, <1>3, <1>6, <2>1 DEF PromptAt
  <2> QED  BY <1>2, <2>1, <2>2 DEF PromptInv
<1> QED  BY <1>4, <1>5, <1>6

\* A tick: while a repair is overdue it finds the hook suspicious.
LEMMA TickPrompt ==
  ASSUME ShortRun, PromptInv, CheckQuiet \/ CheckMiss \/ Rehook \/ RehookFails
  PROVE  PromptInv'
<1>1. PICK s \in Starts, k \in Nat, l \in Nat : PromptAt(s, k, l)  BY DEF PromptInv
<1>2. /\ elapsed \in Nat /\ overdue \in Nat /\ misses \in Nat /\ MissThreshold \in Nat
      /\ MissesToRehook \in Nat \ {0} /\ Horizon \in Nat /\ s \in Nat
      /\ elapsed \in 0 .. Horizon
      /\ k <= l /\ l <= elapsed
      /\ clock = Tick(s, elapsed) /\ kbSeen = Tick(s, k) /\ lastInput = Tick(s, l)
  BY <1>1, WatchdogAssumption DEF PromptInv, PromptAt
<1>3. overdue # 0 => ~alive /\ l - k > MissThreshold /\ overdue <= misses + 1
  BY <1>1 DEF PromptAt
<1>4. TimerTick
  BY DEF CheckQuiet, CheckMiss, Rehook, RehookFails
<1>5. /\ elapsed' = elapsed + 1 /\ elapsed' \in 0 .. Horizon
      /\ kbSeen' = kbSeen /\ lastInput' = lastInput
      /\ clock' = Tick(s, elapsed + 1)
  BY <1>2, <1>4, NextTick DEF TimerTick, stamps
<1>6. overdue # 0 => Suspicious
  <2> SUFFICES ASSUME overdue # 0 PROVE Suspicious
    OBVIOUS
  <2>1. l - k > MissThreshold  BY <1>3
  <2>2. Since(clock, kbSeen) = elapsed - k  BY <1>2, Distance
  <2>3. Since(lastInput, kbSeen) = l - k
    <3>1. l - k < TickRange \div 2
      <4>1. TickRange \div 2 \in Nat  BY WatchdogAssumption
      <4> QED  BY <1>2, <4>1 DEF ShortRun
    <3> QED  BY <1>2, <3>1, SinceIsDistance
  <2> QED  BY <1>2, <2>1, <2>2, <2>3 DEF Suspicious, Fresh
<1>7. overdue' # 0 => ~alive' /\ overdue' <= misses' + 1 /\ l - k > MissThreshold
  <2>1. CASE CheckQuiet  BY <1>6, <2>1 DEF CheckQuiet
  <2>2. CASE CheckMiss  BY <1>2, <1>3, <2>2 DEF CheckMiss
  <2>3. CASE Rehook  BY <2>3 DEF Rehook
  <2>4. CASE RehookFails  BY <1>2, <1>3, <2>4 DEF RehookFails
  <2> QED  BY <2>1, <2>2, <2>3, <2>4
<1>8. /\ overdue' \in Nat /\ alive' \in BOOLEAN
      /\ misses' \in 0 .. MissesToRehook - 1
  <2>1. CASE CheckQuiet  BY <1>2, <1>6, <2>1 DEF CheckQuiet, PromptInv
  <2>2. CASE CheckMiss  BY <1>2, <2>2 DEF CheckMiss, PromptInv
  <2>3. CASE Rehook  BY <1>2, <2>3 DEF Rehook
  <2>4. CASE RehookFails
    <3>1. misses' = 0 /\ alive' = FALSE  BY <2>4 DEF RehookFails
    <3>2. overdue' = 0 \/ overdue' = 1  BY <2>4 DEF RehookFails
    <3>3. overdue' \in Nat  BY <3>2
    <3>4. misses' \in 0 .. MissesToRehook - 1  BY <1>2, <3>1
    <3> QED  BY <3>1, <3>3, <3>4
  <2> QED  BY <2>1, <2>2, <2>3, <2>4
<1>9. PromptAt(s, k, l)'  BY <1>2, <1>5, <1>7 DEF PromptAt
<1> QED  BY <1>5, <1>8, <1>9 DEF PromptInv

LEMMA StepPrompt == ASSUME ShortRun PROVE PromptInv /\ [WatchNext]_watchVars => PromptInv'
<1> SUFFICES ASSUME PromptInv, [WatchNext]_watchVars PROVE PromptInv'
  OBVIOUS
<1>1. CASE Key
  <2>1. alive \in BOOLEAN  BY DEF PromptInv
  <2> QED  BY <1>1, <2>1, InputPrompt DEF Key, KeyInput, watchdog
<1>2. CASE HiddenKey  BY <1>2, InputPrompt DEF HiddenKey, KeyInput, watchdog
<1>3. CASE Mouse  BY <1>3, InputPrompt DEF Mouse, watchdog
<1>4. CASE Inject  BY <1>4, InputPrompt DEF Inject, KeyInput, watchdog
<1>5. CASE ProbeArrives  BY <1>5, InputPrompt DEF ProbeArrives, KeyInput, watchdog
<1>6. CASE HookDies
  <2>1. PICK s \in Starts, k \in Nat, l \in Nat : PromptAt(s, k, l)  BY DEF PromptInv
  <2>2. PromptAt(s, k, l)'
    BY <1>6, <2>1 DEF HookDies, stamps, watchdog, PromptAt
  <2> QED  BY <1>6, <2>2 DEF HookDies, watchdog, PromptInv
<1>7. CASE CheckQuiet \/ CheckMiss \/ Rehook \/ RehookFails  BY <1>7, TickPrompt
<1>8. CASE UNCHANGED watchVars
  BY <1>8, InputPrompt DEF watchVars, stamps, watchdog
<1> QED  BY <1>1, <1>2, <1>3, <1>4, <1>5, <1>6, <1>7, <1>8 DEF WatchNext

(* A keyboard hook the system removed is repaired, or a repair is tried    *)
(* again, within MissesToRehook ticks after a key it should have seen, for *)
(* every configuration and every starting tick, before and behind the wrap *)
(* of the clock (HookWatchdog::check).                                     *)
THEOREM PromptRepair == ASSUME ShortRun PROVE WatchSpec => []RepairIsPrompt
<1>1. WatchInit => PromptInv  BY InitPrompt
<1>2. PromptInv => RepairIsPrompt
  BY WatchdogAssumption DEF PromptInv, PromptAt, RepairIsPrompt
<1> QED  BY <1>1, <1>2, StepPrompt, PTL DEF WatchSpec

(***************************************************************************)
(* A repair has a reason.  Here every stamp is a plain number: the machine *)
(* has been up for less than half the range of the clock.  The watchdog    *)
(* asks for two misses, and a probe that went out before the last key the  *)
(* hook saw may be repeated by the time the hook looks suspicious.         *)
(***************************************************************************)
YoungClock ==
  /\ FirstKeySeen
  /\ MissThreshold > 0 /\ MissesToRehook > 1 /\ ProbeInterval <= MissThreshold
  /\ \A s \in Starts : s + Horizon < TickRange \div 2

StampsArePast ==
  /\ \E s \in Starts : clock = s + elapsed
  /\ elapsed \in 0 .. Horizon /\ misses \in Nat
  /\ lastInput \in 0 .. clock /\ kbSeen \in 0 .. lastInput
  /\ \A t \in {mouseSeen, selfSeen, lastProbe} : t \in 0 .. clock

\* While the last key was seen: no probe is later than it, unless one is on its
\* way; nothing counts as a miss; only the mouse is later than it by much.
SeenIsKnown ==
  ~unseen =>
    /\ probing \/ lastProbe <= kbSeen
    /\ probing \/ misses = 0 \/ kbSeen = clock
    /\ probing \/ lastInput - kbSeen <= MissThreshold \/ mouseSeen = clock

ReasonInv == StampsArePast /\ SeenIsKnown /\ unseen \in BOOLEAN /\ probing \in BOOLEAN

LEMMA PlainSince ==
  ASSUME NEW a \in Nat, NEW b \in Nat, b <= a, a < TickRange \div 2
  PROVE  Since(a, b) = a - b
<1>1. TickRange \in Nat \ {0}  BY WatchdogAssumption
<1>2. a - b \in 0 .. TickRange - 1 /\ a - b < TickRange \div 2  BY <1>1
<1>3. (a - b) % TickRange = a - b  BY <1>1, <1>2, FirstLap
<1> QED  BY <1>2, <1>3 DEF Since

LEMMA InitReason == ASSUME YoungClock, WatchInit PROVE ReasonInv
<1>1. /\ clock \in Starts /\ kbSeen = clock /\ lastInput = clock /\ elapsed = 0 /\ misses = 0
      /\ mouseSeen = 0 /\ selfSeen = 0 /\ lastProbe = 0
      /\ probing = FALSE /\ unseen = FALSE
  BY DEF WatchInit, YoungClock
<1>2. clock \in Nat  BY <1>1, WatchdogAssumption
<1>3. clock = clock + elapsed  BY <1>1, <1>2
<1>4. StampsArePast  BY <1>1, <1>2, <1>3, WatchdogAssumption DEF StampsArePast
<1>5. lastInput - kbSeen = 0  BY <1>1, <1>2
<1>6. lastProbe <= kbSeen /\ lastInput - kbSeen <= MissThreshold
  BY <1>1, <1>2, <1>5, WatchdogAssumption
<1>7. SeenIsKnown  BY <1>1, <1>6 DEF SeenIsKnown
<1> QED  BY <1>1, <1>4, <1>7 DEF ReasonInv

\* What an input does: the tick stays, a key that is seen is the latest input.
LEMMA InputReason ==
  ASSUME YoungClock, ReasonInv, UNCHANGED <<clock, elapsed, watchdog>>,
         lastInput' \in {lastInput, clock},
         mouseSeen' \in {mouseSeen, clock}, selfSeen' \in {selfSeen, clock},
         probing' \in {probing, FALSE},
         \/ kbSeen' = clock /\ lastInput' = clock /\ unseen' = FALSE
         \/ kbSeen' = kbSeen /\ unseen' = TRUE
         \/ /\ UNCHANGED <<kbSeen, unseen, probing>>
            /\ mouseSeen' = clock \/ UNCHANGED <<mouseSeen, lastInput>>
  PROVE  ReasonInv'
<1>1. PICK s \in Starts : clock = s + elapsed  BY DEF ReasonInv, StampsArePast
<1>2. /\ clock \in Nat /\ lastInput \in 0 .. clock /\ kbSeen \in 0 .. lastInput
      /\ \A t \in {mouseSeen, selfSeen, lastProbe} : t \in 0 .. clock
      /\ clock' = clock /\ elapsed' = elapsed
      /\ misses' = misses /\ lastProbe' = lastProbe
  BY <1>1, WatchdogAssumption DEF ReasonInv, StampsArePast, watchdog
<1>3. lastInput' \in 0 .. clock /\ kbSeen' \in 0 .. lastInput'  BY <1>2
<1>4. mouseSeen' \in 0 .. clock /\ selfSeen' \in 0 .. clock
  <2>1. mouseSeen \in 0 .. clock /\ selfSeen \in 0 .. clock /\ clock \in 0 .. clock
    <3>1. mouseSeen \in 0 .. clock  BY <1>2
    <3>2. selfSeen \in 0 .. clock  BY <1>2
    <3>3. clock \in 0 .. clock  BY <1>2
    <3> QED  BY <3>1, <3>2, <3>3
  <2>2. mouseSeen' = mouseSeen \/ mouseSeen' = clock  OBVIOUS
  <2>3. selfSeen' = selfSeen \/ selfSeen' = clock  OBVIOUS
  <2> QED  BY <2>1, <2>2, <2>3
<1>5. StampsArePast'  BY <1>2, <1>3, <1>4 DEF ReasonInv, StampsArePast
<1>6. SeenIsKnown'
  <2>1. CASE kbSeen' = clock /\ lastInput' = clock /\ unseen' = FALSE
    <3>1. lastInput' - kbSeen' <= MissThreshold  BY <1>2, <2>1, WatchdogAssumption
    <3> QED  BY <1>2, <2>1, <3>1 DEF SeenIsKnown
  <2>2. CASE unseen' = TRUE  BY <2>2 DEF SeenIsKnown
  <2>3. CASE UNCHANGED <<kbSeen, unseen, probing>> /\ mouseSeen' = clock
    BY <1>2, <2>3 DEF ReasonInv, SeenIsKnown
  <2>4. CASE UNCHANGED <<kbSeen, unseen, probing, mouseSeen, lastInput>>
    BY <1>2, <2>4 DEF ReasonInv, SeenIsKnown
  <2> QED  BY <2>1, <2>2, <2>3, <2>4
<1> QED  BY <1>5, <1>6 DEF ReasonInv

\* The distances check() computes at a tick.
LEMMA PlainDistances ==
  ASSUME YoungClock, ReasonInv
  PROVE  /\ clock \in Nat /\ clock < TickRange \div 2
         /\ \A t \in {kbSeen, mouseSeen, selfSeen, lastProbe} :
              t \in 0 .. clock /\ Since(clock, t) = clock - t
         /\ lastInput \in 0 .. clock /\ kbSeen \in 0 .. lastInput
         /\ Since(lastInput, kbSeen) = lastInput - kbSeen
<1>1. PICK s \in Starts : clock = s + elapsed  BY DEF ReasonInv, StampsArePast
<1>2. s \in Nat /\ elapsed \in Nat /\ elapsed <= Horizon /\ Horizon \in Nat
      /\ TickRange \div 2 \in Nat
  BY WatchdogAssumption DEF ReasonInv, StampsArePast
<1>3. clock \in Nat /\ clock < TickRange \div 2  BY <1>1, <1>2 DEF YoungClock
<1>4. lastInput \in 0 .. clock /\ kbSeen \in 0 .. lastInput
  BY DEF ReasonInv, StampsArePast
<1>5. \A t \in {kbSeen, mouseSeen, selfSeen, lastProbe} : t \in 0 .. clock
  BY <1>3, <1>4 DEF ReasonInv, StampsArePast
<1>6. \A t \in 0 .. clock : Since(clock, t) = clock - t
  BY <1>3, PlainSince
<1>7. lastInput \in Nat /\ lastInput < TickRange \div 2 /\ kbSeen \in Nat /\ kbSeen <= lastInput
  BY <1>2, <1>3, <1>4
<1>8. Since(lastInput, kbSeen) = lastInput - kbSeen  BY <1>7, PlainSince
<1> QED  BY <1>3, <1>4, <1>5, <1>6, <1>8

\* A miss is counted only after a key the hook did not see; when the mouse alone
\* was later, the watchdog sends a probe.
LEMMA SuspicionHasAReason ==
  ASSUME YoungClock, ReasonInv, Suspicious, ~unseen, ~probing
  PROVE  misses = 0 /\ Masked /\ Since(clock, lastProbe) >= ProbeInterval
<1>1. /\ clock \in Nat /\ MissThreshold \in Nat /\ ProbeInterval \in Nat
      /\ MissThreshold > 0 /\ ProbeInterval <= MissThreshold
      /\ lastInput \in 0 .. clock /\ kbSeen \in 0 .. lastInput /\ lastProbe \in 0 .. clock
      /\ Since(clock, kbSeen) = clock - kbSeen
      /\ Since(clock, mouseSeen) = clock - mouseSeen
      /\ Since(clock, lastProbe) = clock - lastProbe
      /\ Since(lastInput, kbSeen) = lastInput - kbSeen
  BY PlainDistances, WatchdogAssumption DEF YoungClock
<1>2. clock - kbSeen >= MissThreshold /\ lastInput - kbSeen > MissThreshold
  BY <1>1 DEF Suspicious, Fresh
<1>3. misses = 0  BY <1>1, <1>2 DEF ReasonInv, SeenIsKnown
<1>4. mouseSeen = clock  BY <1>1, <1>2 DEF ReasonInv, SeenIsKnown
<1>5. Masked  BY <1>1, <1>4 DEF Masked, Fresh
<1>6. lastProbe <= kbSeen  BY DEF ReasonInv, SeenIsKnown
<1> QED  BY <1>1, <1>2, <1>3, <1>5, <1>6

LEMMA TickReason ==
  ASSUME YoungClock, ReasonInv, CheckQuiet \/ CheckMiss \/ Rehook \/ RehookFails
  PROVE  ReasonInv'
<1>1. TimerTick /\ unseen' = unseen
  BY DEF CheckQuiet, CheckMiss, Rehook, RehookFails
<1>2. PICK s \in Starts : clock = s + elapsed  BY DEF ReasonInv, StampsArePast
<1>3. /\ clock \in Nat /\ clock < TickRange \div 2 /\ s \in Nat /\ elapsed \in Nat
      /\ Horizon \in Nat /\ TickRange \in Nat \ {0} /\ TickRange \div 2 \in Nat
      /\ MissThreshold \in Nat /\ MissThreshold > 0 /\ MissesToRehook \in Nat
      /\ lastInput \in 0 .. clock /\ kbSeen \in 0 .. lastInput
      /\ mouseSeen \in 0 .. clock /\ selfSeen \in 0 .. clock /\ lastProbe \in 0 .. clock
      /\ Since(clock, kbSeen) = clock - kbSeen
      /\ Since(lastInput, kbSeen) = lastInput - kbSeen
      /\ misses \in Nat
  <2>1. /\ Horizon \in Nat /\ TickRange \in Nat \ {0} /\ TickRange \div 2 \in Nat
        /\ MissThreshold \in Nat /\ MissThreshold > 0 /\ MissesToRehook \in Nat /\ s \in Nat
    BY WatchdogAssumption DEF YoungClock
  <2>2. elapsed \in Nat /\ misses \in Nat  BY <2>1 DEF ReasonInv, StampsArePast
  <2> QED  BY <2>1, <2>2, PlainDistances
<1>4. /\ elapsed < Horizon /\ ~probing /\ elapsed' = elapsed + 1
      /\ clock' = (clock + 1) % TickRange
      /\ kbSeen' = kbSeen /\ lastInput' = lastInput
      /\ mouseSeen' = mouseSeen /\ selfSeen' = selfSeen
  BY <1>1 DEF TimerTick, stamps
<1>5. clock + 1 \in 0 .. TickRange - 1 /\ clock' = clock + 1 /\ elapsed' \in 0 .. Horizon
  <2>1. clock + 1 \in 0 .. TickRange - 1  BY <1>3
  <2> QED  BY <1>3, <1>4, <2>1, FirstLap
<1>6. clock' = s + elapsed'  BY <1>2, <1>3, <1>4, <1>5
<1>7. lastProbe' \in {lastProbe, clock} /\ (probing' = TRUE \/ probing' = FALSE)
  BY <1>4 DEF CheckQuiet, CheckMiss, Rehook, RehookFails, Probe, ReasonInv
<1>8. misses' \in Nat
  <2>1. misses' = 0 \/ misses' = misses + 1
    BY DEF CheckQuiet, CheckMiss, Rehook, RehookFails
  <2> QED  BY <1>3, <2>1
<1>9. StampsArePast'
  <2>1. \A t \in 0 .. clock : t \in 0 .. clock'  BY <1>3, <1>5
  <2>2. lastInput' \in 0 .. clock' /\ kbSeen' \in 0 .. lastInput'  BY <1>3, <1>4, <2>1
  <2>3. lastProbe' \in 0 .. clock  BY <1>3, <1>7
  <2>4. mouseSeen' \in 0 .. clock' /\ selfSeen' \in 0 .. clock' /\ lastProbe' \in 0 .. clock'
    BY <1>3, <1>4, <2>1, <2>3
  <2> QED  BY <1>5, <1>6, <1>8, <2>2, <2>4 DEF StampsArePast
<1>10. SeenIsKnown'
  <2> SUFFICES ASSUME ~unseen PROVE SeenIsKnown'
    BY <1>1 DEF SeenIsKnown
  <2>1. CASE CheckQuiet
    <3>1. misses' = 0 /\ lastProbe' = lastProbe /\ probing' = probing  BY <2>1 DEF CheckQuiet
    <3>2. clock - kbSeen < MissThreshold \/ lastInput - kbSeen <= MissThreshold
      BY <1>3, <2>1 DEF CheckQuiet, Suspicious, Fresh
    <3>3. lastInput - kbSeen <= MissThreshold  BY <1>3, <3>2
    <3>4. lastProbe <= kbSeen  BY <1>4 DEF ReasonInv, SeenIsKnown
    <3> QED  BY <1>4, <3>1, <3>3, <3>4 DEF SeenIsKnown
  <2>2. CASE CheckMiss \/ Rehook \/ RehookFails
    <3>1. Suspicious /\ Probe  BY <2>2 DEF CheckMiss, Rehook, RehookFails
    <3>2. probing' = TRUE  BY <1>4, <3>1, SuspicionHasAReason DEF Probe
    <3> QED  BY <3>2 DEF SeenIsKnown
  <2> QED  BY <2>1, <2>2
<1> QED  BY <1>1, <1>7, <1>9, <1>10 DEF ReasonInv

LEMMA StepReason == ASSUME YoungClock PROVE ReasonInv /\ [WatchNext]_watchVars => ReasonInv'
<1> SUFFICES ASSUME ReasonInv, [WatchNext]_watchVars PROVE ReasonInv'
  OBVIOUS
<1>1. CASE Key  BY <1>1, InputReason DEF Key, KeyInput, watchdog
<1>2. CASE HiddenKey  BY <1>2, InputReason DEF HiddenKey, KeyInput, watchdog
<1>3. CASE Mouse  BY <1>3, InputReason DEF Mouse, watchdog
<1>4. CASE Inject  BY <1>4, InputReason DEF Inject, KeyInput, watchdog
<1>5. CASE ProbeArrives  BY <1>5, InputReason DEF ProbeArrives, KeyInput, watchdog
<1>6. CASE HookDies  BY <1>6, InputReason DEF HookDies, stamps, watchdog
<1>7. CASE CheckQuiet \/ CheckMiss \/ Rehook \/ RehookFails  BY <1>7, TickReason
<1>8. CASE UNCHANGED watchVars
  BY <1>8, InputReason DEF watchVars, stamps, watchdog
<1> QED  BY <1>1, <1>2, <1>3, <1>4, <1>5, <1>6, <1>7, <1>8 DEF WatchNext

(* On a machine that has been up for less than 24.8 days the hooks are     *)
(* installed again only when a key passed the keyboard hook by: never for  *)
(* the mouse, the program's own keys or an idle user (HookWatchdog::check, *)
(* lines 552-556).                                                         *)
THEOREM RepairHasAReason == ASSUME YoungClock PROVE WatchSpec => RehooksForAReason
<1>1. WatchInit => ReasonInv  BY InitReason
<1>2. ASSUME ReasonInv, [WatchNext]_watchVars
      PROVE  [Rehook => unseen]_watchVars
  <2> SUFFICES ASSUME Rehook, ~unseen PROVE FALSE
    OBVIOUS
  <2>1. Suspicious /\ misses + 1 >= MissesToRehook /\ ~probing  BY DEF Rehook, TimerTick
  <2>2. misses = 0  BY <1>2, <2>1, SuspicionHasAReason
  <2> QED  BY <2>1, <2>2, WatchdogAssumption DEF YoungClock
<1> QED  BY <1>1, <1>2, StepReason, PTL DEF WatchSpec, RehooksForAReason

-----------------------------------------------------------------------------
(***************************************************************************)
(* stop().  The signal is sticky: once stop() has sent it, only a consumer *)
(* that is awake can clear it, and an awake consumer no longer goes to     *)
(* sleep because it has yet to look at running_.                           *)
(***************************************************************************)
StopInv ==
  /\ running = (spc = "running")
  /\ spc = "stopped" /\ cpc = "wait" => event
  /\ spc \in {"running", "stopping", "stopped"}

LEMMA InitStop == WakeInit => StopInv
BY DEF WakeInit, StopInv

LEMMA StepStop == StopInv /\ [WakeNext]_wakeVars => StopInv'
<1> SUFFICES ASSUME StopInv, [WakeNext]_wakeVars PROVE StopInv'
  OBVIOUS
<1> USE DEF StopInv, controlVars
<1>1. CASE EnqueueBegin  BY <1>1 DEF EnqueueBegin, consumerVars
<1>2. CASE EnqueueStep
  <2>1. CASE EnqueuePublish  BY <2>1 DEF EnqueuePublish, consumerVars
  <2>2. CASE EnqueueAdvance  BY <2>2 DEF EnqueueAdvance, consumerVars
  <2>3. CASE EnqueueLook  BY <2>3 DEF EnqueueLook, consumerVars
  <2>4. CASE EnqueueDrop  BY <2>4 DEF EnqueueDrop, consumerVars
  <2>5. CASE EnqueueSignal  BY <2>5 DEF EnqueueSignal, consumerVars
  <2> QED  BY <1>2, <2>1, <2>2, <2>3, <2>4, <2>5 DEF EnqueueStep
<1>3. CASE ConsumerStep
  <2> USE DEF ConsumerGoto
  <2>1. CASE LoopRunning \/ LoopStopping \/ LoopLast
    BY <2>1 DEF LoopRunning, LoopStopping, LoopLast
  <2>2. CASE Pop  BY <2>2 DEF Pop
  <2>3. CASE PopDone  BY <2>3 DEF PopDone
  <2>4. CASE Handle  BY <2>4 DEF Handle
  <2>5. CASE Spin \/ Check  BY <2>5 DEF Spin, Check
  <2>6. CASE Park \/ Unpark \/ AwakeUnpark  BY <2>6 DEF Park, Unpark, AwakeUnpark
  <2>7. CASE Recheck  BY <2>7 DEF Recheck
  <2>8. CASE Wake  BY <2>8 DEF Wake
  <2>9. CASE AwakeReset  BY <2>9 DEF AwakeReset
  <2> QED  BY <1>3, <2>1, <2>2, <2>3, <2>4, <2>5, <2>6, <2>7, <2>8, <2>9 DEF ConsumerStep
<1>4. CASE FlushPump \/ FlushConsumer  BY <1>4 DEF FlushPump, FlushConsumer, consumerVars
<1>5. CASE StopExchange \/ StopSignal  BY <1>5 DEF StopExchange, StopSignal, consumerVars
<1>6. CASE Poke  BY <1>6 DEF Poke, consumerVars
<1>7. CASE UNCHANGED wakeVars  BY <1>7 DEF wakeVars, consumerVars
<1> QED  BY <1>1, <1>2, <1>3, <1>4, <1>5, <1>6, <1>7 DEF WakeNext

(* A consumer blocked after stop() has signalled has a signal to wake to   *)
(* (ModernKeyHook::stop, step 2).                                          *)
THEOREM StopReachesSleeper == WakeSpec => []NoSleepPastStop
<1>1. StopInv => NoSleepPastStop
  BY DEF StopInv, NoSleepPastStop, Asleep
<1> QED  BY <1>1, InitStop, StepStop, PTL DEF WakeSpec

(***************************************************************************)
(* The parked protocol, stores seen at once.  The invariant says what the  *)
(* parked flag tells the pump, and that an unsignalled sleeper with work   *)
(* has the pump still on its way to the signal.                            *)
(***************************************************************************)
ParkedPcs == {"recheck", "unpark", "wait", "awake"}

WakeInv ==
  /\ pbuf = <<>> /\ cbuf = <<>>
  /\ parked <=> cpc \in ParkedPcs
  /\ Asleep => head = tail \/ ppc \in {"look", "signal"}

LEMMA InitWake == WakeInit => WakeInv
<1> SUFFICES ASSUME WakeInit PROVE WakeInv
  OBVIOUS
<1>1. cpc = "loop" /\ parked = FALSE /\ pbuf = <<>> /\ cbuf = <<>>
  BY DEF WakeInit
<1>2. parked <=> cpc \in ParkedPcs
  BY <1>1 DEF ParkedPcs
<1> QED  BY <1>1, <1>2 DEF WakeInv, Asleep

LEMMA StepWake == ASSUME ~StoreBuffers PROVE WakeInv /\ [WakeNext]_wakeVars => WakeInv'
<1> SUFFICES ASSUME WakeInv, [WakeNext]_wakeVars PROVE WakeInv'
  OBVIOUS
<1> USE DEF WakeInv, ParkedPcs, Asleep, ringVars
<1>1. CASE EnqueueBegin  BY <1>1 DEF EnqueueBegin, consumerVars
<1>2. CASE EnqueueStep
  <2>1. CASE EnqueuePublish  BY <2>1 DEF EnqueuePublish, PumpStore, consumerVars
  <2>2. CASE EnqueueAdvance  BY <2>2 DEF EnqueueAdvance, PumpStore, consumerVars
  <2>3. CASE EnqueueLook  BY <2>3 DEF EnqueueLook, consumerVars
  <2>4. CASE EnqueueDrop  BY <2>4 DEF EnqueueDrop, consumerVars
  <2>5. CASE EnqueueSignal  BY <2>5 DEF EnqueueSignal, consumerVars
  <2> QED  BY <1>2, <2>1, <2>2, <2>3, <2>4, <2>5 DEF EnqueueStep
<1>3. CASE ConsumerStep
  <2> USE DEF ConsumerGoto, pumpVars
  <2>1. CASE LoopRunning \/ LoopStopping \/ LoopLast
    BY <2>1 DEF LoopRunning, LoopStopping, LoopLast
  <2>2. CASE Pop  BY <2>2 DEF Pop, ConsumerStore
  <2>3. CASE PopDone  BY <2>3 DEF PopDone
  <2>4. CASE Handle  BY <2>4 DEF Handle
  <2>5. CASE Spin \/ Check  BY <2>5 DEF Spin, Check
  <2>6. CASE Park \/ Unpark \/ AwakeUnpark
    BY <2>6 DEF Park, Unpark, AwakeUnpark, ConsumerStore
  <2>7. CASE Recheck  BY <2>7 DEF Recheck, Empty
  <2>8. CASE Wake  BY <2>8 DEF Wake
  <2>9. CASE AwakeReset  BY <2>9 DEF AwakeReset
  <2> QED  BY <1>3, <2>1, <2>2, <2>3, <2>4, <2>5, <2>6, <2>7, <2>8, <2>9 DEF ConsumerStep
<1>4. CASE FlushPump \/ FlushConsumer  BY <1>4 DEF FlushPump, FlushConsumer
<1>5. CASE StopExchange \/ StopSignal
  BY <1>5 DEF StopExchange, StopSignal, consumerVars, pumpVars
<1>6. CASE Poke  BY <1>6 DEF Poke, consumerVars, pumpVars
<1>7. CASE UNCHANGED wakeVars  BY <1>7 DEF wakeVars, consumerVars, pumpVars
<1> QED  BY <1>1, <1>2, <1>3, <1>4, <1>5, <1>6, <1>7 DEF WakeNext

(* With stores seen at once the "Lost-wakeup analysis" of enqueue holds.   *)
THEOREM ParkedProtocol == ASSUME ~StoreBuffers PROVE WakeSpec => []NoLostWakeup
<1>1. WakeInv => NoLostWakeup
  BY DEF WakeInv, NoLostWakeup, Asleep
<1>2. WakeInv /\ [WakeNext]_wakeVars => WakeInv'
  BY StepWake
<1> QED  BY <1>1, <1>2, InitWake, PTL DEF WakeSpec

(***************************************************************************)
(* With store buffers.  What the pump will see of consumerParked_ once the *)
(* consumer's stores have reached memory is the last of them that is about *)
(* it, or what memory says if none is.  Between the parked store and the   *)
(* unparked one the consumer stores nothing else.                          *)
(***************************************************************************)
NoMarkFrom(i) == \A j \in i .. Len(cbuf) : cbuf[j] = "free"
SeenParkedSoon ==
  \/ parked /\ NoMarkFrom(1)
  \/ \E i \in 1 .. Len(cbuf) : cbuf[i] = "park" /\ NoMarkFrom(i + 1)

ParkInv ==
  /\ cbuf \in Seq({"free", "park", "unpark"})
  /\ ~StoreBuffers => cbuf = <<>>
  /\ cpc \in {"recheck", "unpark", "wait", "awake"} => SeenParkedSoon

LEMMA InitPark == WakeInit => ParkInv
BY DEF WakeInit, ParkInv

\* The parked store itself.
LEMMA ParkSeen == ParkInv /\ ConsumerStore("park") => SeenParkedSoon'
<1> SUFFICES ASSUME ParkInv, ConsumerStore("park") PROVE SeenParkedSoon'
  OBVIOUS
<1>1. CASE StoreBuffers
  <2>1. cbuf' = Append(cbuf, "park") /\ cbuf \in Seq({"free", "park", "unpark"})
    BY <1>1 DEF ConsumerStore, ParkInv
  <2>2. Len(cbuf') = Len(cbuf) + 1 /\ cbuf'[Len(cbuf')] = "park" /\ Len(cbuf) \in Nat
    BY <2>1
  <2> QED  BY <2>2 DEF SeenParkedSoon, NoMarkFrom
<1>2. CASE ~StoreBuffers
  <2>1. cbuf' = <<>> /\ parked'
    BY <1>2 DEF ConsumerStore, ParkInv
  <2> QED  BY <2>1 DEF SeenParkedSoon, NoMarkFrom
<1> QED  BY <1>1, <1>2

\* A store that reaches memory takes its place there.
LEMMA FlushSeen ==
  ParkInv /\ SeenParkedSoon /\ FlushConsumer => SeenParkedSoon'
<1> SUFFICES ASSUME ParkInv, SeenParkedSoon, FlushConsumer PROVE SeenParkedSoon'
  OBVIOUS
<1>1. /\ cbuf \in Seq({"free", "park", "unpark"}) /\ cbuf # <<>>
      /\ cbuf' = Tail(cbuf)
      /\ parked' = IF cbuf[1] = "free" THEN parked ELSE cbuf[1] = "park"
  BY DEF ParkInv, FlushConsumer
<1>2. /\ Len(cbuf) \in Nat \ {0} /\ Len(cbuf') = Len(cbuf) - 1
      /\ \A j \in 1 .. Len(cbuf') : cbuf'[j] = cbuf[j + 1]
  BY <1>1
<1>3. CASE parked /\ NoMarkFrom(1)
  <2>1. parked' /\ \A j \in 1 .. Len(cbuf') : cbuf'[j] = "free"
    BY <1>1, <1>2, <1>3 DEF NoMarkFrom
  <2> QED  BY <2>1 DEF SeenParkedSoon, NoMarkFrom
<1>4. CASE \E i \in 1 .. Len(cbuf) : cbuf[i] = "park" /\ NoMarkFrom(i + 1)
  <2>1. PICK i \in 1 .. Len(cbuf) : cbuf[i] = "park" /\ NoMarkFrom(i + 1)
    BY <1>4
  <2>2. CASE i = 1
    <3>1. cbuf[1] = "park" /\ \A j \in 2 .. Len(cbuf) : cbuf[j] = "free"
      BY <2>1, <2>2 DEF NoMarkFrom
    <3>2. parked'
      BY <1>1, <3>1
    <3>3. \A j \in 1 .. Len(cbuf') : cbuf'[j] = "free"
      BY <1>2, <3>1
    <3> QED  BY <3>2, <3>3 DEF SeenParkedSoon, NoMarkFrom
  <2>3. CASE i # 1
    <3>1. i - 1 \in 1 .. Len(cbuf') /\ cbuf'[i - 1] = "park"
      BY <1>2, <2>1, <2>3
    <3>2. \A j \in (i - 1) + 1 .. Len(cbuf') : cbuf'[j] = "free"
      BY <1>2, <2>1, <2>3 DEF NoMarkFrom
    <3> QED  BY <3>1, <3>2 DEF SeenParkedSoon, NoMarkFrom
  <2> QED  BY <2>2, <2>3
<1> QED  BY <1>3, <1>4 DEF SeenParkedSoon

LEMMA StepPark == ParkInv /\ [WakeNext]_wakeVars => ParkInv'
<1> SUFFICES ASSUME ParkInv, [WakeNext]_wakeVars PROVE ParkInv'
  OBVIOUS
<1> DEFINE Same == UNCHANGED <<cpc, cbuf, parked>>
<1>0. Same => ParkInv'
  BY DEF ParkInv, SeenParkedSoon, NoMarkFrom
<1>1. CASE EnqueueBegin \/ EnqueueStep \/ FlushPump
  BY <1>0, <1>1 DEF EnqueueBegin, EnqueueStep, EnqueuePublish, EnqueueAdvance, EnqueueLook,
     EnqueueDrop, EnqueueSignal, FlushPump, consumerVars
<1>2. CASE ConsumerStep
  <2> USE DEF ConsumerGoto
  <2>1. CASE LoopRunning \/ LoopStopping \/ LoopLast \/ PopDone \/ Handle \/ Spin \/ Check
    BY <2>1 DEF LoopRunning, LoopStopping, LoopLast, PopDone, Handle, Spin, Check, ParkInv
  <2>2. CASE Pop \/ Unpark \/ AwakeUnpark
    BY <2>2 DEF Pop, Unpark, AwakeUnpark, ConsumerStore, ParkInv
  <2>3. CASE Park
    <3>1. SeenParkedSoon'  BY <2>3, ParkSeen DEF Park
    <3> QED  BY <2>3, <3>1 DEF Park, ConsumerStore, ParkInv
  <2>4. CASE Recheck \/ Wake
    BY <2>4 DEF Recheck, Wake, ParkInv, SeenParkedSoon, NoMarkFrom
  <2>5. CASE AwakeReset  BY <2>5 DEF AwakeReset, ParkInv
  <2> QED  BY <1>2, <2>1, <2>2, <2>3, <2>4, <2>5 DEF ConsumerStep
<1>3. CASE FlushConsumer
  <2>1. cbuf' \in Seq({"free", "park", "unpark"}) /\ StoreBuffers /\ cpc' = cpc
    BY <1>3 DEF FlushConsumer, ParkInv
  <2>2. SeenParkedSoon => SeenParkedSoon'  BY <1>3, FlushSeen
  <2> QED  BY <2>1, <2>2 DEF ParkInv
<1>4. CASE StopExchange \/ StopSignal \/ Poke
  BY <1>0, <1>4 DEF StopExchange, StopSignal, Poke, consumerVars
<1>5. CASE UNCHANGED wakeVars
  BY <1>0, <1>5 DEF wakeVars, consumerVars
<1> QED  BY <1>1, <1>2, <1>3, <1>4, <1>5 DEF WakeNext

\* On x86 too the wake-up that is lost is the last one: a consumer that blocks is seen
\* as parked by the event after it (enqueue, lines 673-695).
THEOREM SleeperIsSeen == WakeSpec => []SleepIsVisible
<1>1. ParkInv => SleepIsVisible
  BY DEF ParkInv, SeenParkedSoon, NoMarkFrom, SleepIsVisible
<1> QED  BY <1>1, InitPark, StepPark, PTL DEF WakeSpec
=============================================================================
