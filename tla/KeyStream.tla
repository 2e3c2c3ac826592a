----------------------------- MODULE KeyStream ------------------------------
(***************************************************************************)
(* What the keyboard hook keeps about keys that are down:                  *)
(* keyboardProc, applyModifierDelta, resyncModifiersFromOs and the two     *)
(* bitmaps of src/src/core/ModernKeyHook.cpp.  The callback sees an event  *)
(* before the system applies it; with the hook blind (secure desktop,      *)
(* elevated window, a removed hook) the system applies events the hook     *)
(* never sees.  Coming back is a foreground change, whose handler reads    *)
(* the state from the system again; the UI thread does so too, when the    *)
(* engine is switched on.                                                  *)
(*                                                                         *)
(* Letters stand for the keys the engine may swallow, Shifts for one       *)
(* modifier with its left and right key, "caps" for the toggle keys.       *)
(***************************************************************************)
EXTENDS Naturals, FiniteSets

CONSTANTS
  Letters, Shifts,   \* keys
  WithCaps,          \* CapsLock is pressed too
  MaxKeys,           \* bound: key events
  MaxResyncs         \* bound: resyncs by the UI thread

ASSUME KeyAssumption ==
  /\ Letters \cap Shifts = {} /\ "caps" \notin Letters \cup Shifts
  /\ WithCaps \in BOOLEAN /\ MaxKeys \in Nat /\ MaxResyncs \in Nat

Keys == Letters \cup Shifts \cup (IF WithCaps THEN {"caps"} ELSE {})

VARIABLES
  held, capsLevel,      \* the system: keys that are down, CapsLock's level
  shiftBit, capsBit,    \* modifierBits_
  toggleDown,           \* toggleKeyDown_
  suppressed,           \* suppressedDown_
  kpc, ev,              \* a callback has returned and the system applies ev
  blind,                \* the hook sees nothing
  rpc, snap,            \* the UI thread inside resyncModifiersFromOs
  stale,                \* the UI thread stored over what happened after its read
  gotDown,              \* letters whose present hold the application saw begin
  seen,                 \* letters whose present hold the hook saw begin
  keys, resyncs         \* counters for the bounds

system == <<held, capsLevel>>
tracker == <<shiftBit, capsBit, toggleDown>>
resync == <<rpc, snap, resyncs, stale>>
vars == <<system, tracker, suppressed, kpc, ev, blind, resync, gotDown, seen, keys>>

Snapshot == [shift |-> held \cap Shifts # {}, caps |-> capsLevel]
NoEvent == [key |-> "caps", up |-> FALSE, swallowed |-> FALSE]

Init ==
  /\ held = {} /\ capsLevel \in BOOLEAN
  /\ shiftBit = FALSE /\ capsBit = capsLevel /\ toggleDown = FALSE
  /\ suppressed = {}
  /\ kpc = "idle" /\ ev = NoEvent
  /\ blind = FALSE
  /\ rpc = "idle" /\ snap = Snapshot /\ resyncs = 0 /\ stale = FALSE
  /\ gotDown = {} /\ seen = {} /\ keys = 0

(***************************************************************************)
(* The callback.                                                           *)
(***************************************************************************)
\* applyModifierDelta for a key that goes down (or repeats).
ModifierDown(k) ==
  /\ shiftBit' = (shiftBit \/ k \in Shifts)
  /\ IF k = "caps" /\ ~toggleDown
     THEN toggleDown' = TRUE /\ capsBit' = ~capsBit
     ELSE UNCHANGED <<toggleDown, capsBit>>

BadDown(k, swallow) ==
  /\ kpc = "idle" /\ ~blind /\ keys < MaxKeys
  /\ keys' = keys + 1
  /\ ModifierDown(k)
  /\ suppressed' = IF swallow THEN suppressed \cup {k} ELSE suppressed
  /\ ev' = [key |-> k, up |-> FALSE, swallowed |-> swallow]
  /\ kpc' = "apply"
  /\ UNCHANGED <<system, blind, resync, gotDown, seen>>

\* The engine may swallow a letter; it never swallows a modifier.
Down(k, swallow) ==
  /\ kpc = "idle" /\ ~blind /\ keys < MaxKeys
  /\ swallow => k \in Letters
  /\ keys' = keys + 1
  /\ ModifierDown(k)
  /\ suppressed' = IF swallow THEN suppressed \cup {k} ELSE suppressed
  /\ ev' = [key |-> k, up |-> FALSE, swallowed |-> swallow]
  /\ kpc' = "apply"
  /\ UNCHANGED <<system, blind, resync, gotDown, seen>>

\* The phantom-KeyUp guard.
BadUp(k) ==
  /\ kpc = "idle" /\ ~blind /\ k \in held
  /\ shiftBit' = (shiftBit /\ k \notin Shifts)
  /\ suppressed' = {}
  /\ ev' = [key |-> k, up |-> TRUE, swallowed |-> k \in suppressed]
  /\ kpc' = "apply"
  /\ UNCHANGED <<system, capsBit, toggleDown, blind, resync, gotDown, seen, keys>>

Up(k) ==
  /\ kpc = "idle" /\ ~blind /\ k \in held
  /\ shiftBit' = (shiftBit /\ k \notin Shifts)
  /\ suppressed' = suppressed \ {k}
  /\ ev' = [key |-> k, up |-> TRUE, swallowed |-> k \in suppressed]
  /\ kpc' = "apply"
  /\ UNCHANGED <<system, capsBit, toggleDown, blind, resync, gotDown, seen, keys>>

(***************************************************************************)
(* The system applies an event: a CapsLock press toggles the level, a      *)
(* repeat of it does not.                                                  *)
(***************************************************************************)
SystemDown(k) ==
  /\ held' = held \cup {k}
  /\ capsLevel' = IF k = "caps" /\ k \notin held THEN ~capsLevel ELSE capsLevel

SystemUp(k) == held' = held \ {k} /\ UNCHANGED capsLevel

ApplyDown ==
  /\ kpc = "apply" /\ ~ev.up
  /\ SystemDown(ev.key)
  /\ gotDown' = IF ev.swallowed THEN gotDown ELSE gotDown \cup ({ev.key} \cap Letters)
  /\ seen' = IF ev.key \in held THEN seen ELSE seen \cup ({ev.key} \cap Letters)
  /\ kpc' = "idle"
  /\ UNCHANGED <<tracker, suppressed, ev, blind, resync, keys>>

ApplyUp ==
  /\ kpc = "apply" /\ ev.up
  /\ SystemUp(ev.key)
  /\ gotDown' = gotDown \ {ev.key} /\ seen' = seen \ {ev.key}
  /\ kpc' = "idle"
  /\ UNCHANGED <<tracker, suppressed, ev, blind, resync, keys>>

(***************************************************************************)
(* Blind: events go to another desktop or window.                          *)
(***************************************************************************)
GoBlind ==
  /\ kpc = "idle" /\ ~blind
  /\ blind' = TRUE
  /\ UNCHANGED <<system, tracker, suppressed, kpc, ev, resync, gotDown, seen, keys>>

BlindDown(k) ==
  /\ blind /\ keys < MaxKeys
  /\ keys' = keys + 1
  /\ SystemDown(k)
  /\ UNCHANGED <<tracker, suppressed, kpc, ev, blind, resync, gotDown, seen>>

BlindUp(k) ==
  /\ blind /\ k \in held
  /\ SystemUp(k)
  /\ gotDown' = gotDown \ {k} /\ seen' = seen \ {k}
  /\ UNCHANGED <<tracker, suppressed, kpc, ev, blind, resync, keys>>

BadReturn ==
  /\ blind
  /\ blind' = FALSE
  /\ UNCHANGED <<system, tracker, suppressed, kpc, ev, resync, gotDown, seen, keys>>

\* ForegroundChanged: resyncModifiersFromOs on the pump thread.
Return ==
  /\ blind
  /\ blind' = FALSE
  /\ shiftBit' = Snapshot.shift /\ capsBit' = Snapshot.caps
  /\ toggleDown' = FALSE
  /\ stale' = FALSE
  /\ UNCHANGED <<system, suppressed, kpc, ev, rpc, snap, resyncs, gotDown, seen, keys>>

(***************************************************************************)
(* resyncModifiersFromOs from the UI thread: the keys are read, then the   *)
(* result is stored over modifierBits_.                                    *)
(***************************************************************************)
ResyncRead ==
  /\ rpc = "idle" /\ resyncs < MaxResyncs
  /\ resyncs' = resyncs + 1
  /\ snap' = Snapshot
  /\ rpc' = "store"
  /\ UNCHANGED <<system, tracker, suppressed, kpc, ev, blind, stale, gotDown, seen, keys>>

ResyncStore ==
  /\ rpc = "store"
  /\ shiftBit' = snap.shift /\ capsBit' = snap.caps
  /\ toggleDown' = FALSE
  /\ rpc' = "idle"
  /\ stale' = (snap # Snapshot \/ kpc = "apply")
  /\ UNCHANGED <<system, suppressed, kpc, ev, blind, snap, resyncs, gotDown, seen, keys>>

Next ==
  \/ \E k \in Keys : Down(k, TRUE) \/ Down(k, FALSE) \/ Up(k)
  \/ ApplyDown \/ ApplyUp
  \/ GoBlind \/ Return
  \/ \E k \in Keys : BlindDown(k) \/ BlindUp(k)
  \/ ResyncRead \/ ResyncStore

Spec == Init /\ [][Next]_vars

TypeOK ==
  /\ held \subseteq Keys /\ capsLevel \in BOOLEAN
  /\ shiftBit \in BOOLEAN /\ capsBit \in BOOLEAN /\ toggleDown \in BOOLEAN
  /\ suppressed \subseteq Letters
  /\ kpc \in {"idle", "apply"}
  /\ ev \in [key : Keys \cup {"caps"}, up : BOOLEAN, swallowed : BOOLEAN]
  /\ blind \in BOOLEAN
  /\ rpc \in {"idle", "store"} /\ snap \in [shift : BOOLEAN, caps : BOOLEAN]
  /\ gotDown \subseteq Letters /\ seen \subseteq Letters
  /\ stale \in BOOLEAN /\ keys \in Nat /\ resyncs \in Nat

(* The application never gets the KeyUp of a key whose KeyDown the hook    *)
(* kept from it (lines 864-867): if the hook saw the hold begin and every  *)
(* KeyDown of it was swallowed, the KeyUp is swallowed too, whatever       *)
(* happened to other keys and however often the hook was blind before.     *)
NoPhantomUp ==
  (kpc = "apply" /\ ev.up /\ ev.key \in seen /\ ~ev.swallowed) => ev.key \in gotDown

(* Between events the tracked Shift is the system's, also after the hook   *)
(* has missed events and come back, unless the UI thread has stored a      *)
(* snapshot that was out of date; the next foreground change ends that.    *)
Settled == kpc = "idle" /\ rpc = "idle" /\ ~blind
ShiftTracksSystem == Settled /\ ~stale => (shiftBit <=> held \cap Shifts # {})

(* Between events the tracked CapsLock level is the system's ("the tracked *)
(* level always matches the OS", ModernKeyHook.hpp lines 470-472).         *)
CapsTracksSystem == Settled => (capsBit <=> capsLevel)
=============================================================================
