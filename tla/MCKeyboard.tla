----------------------------- MODULE MCKeyboard -----------------------------
(* What the keyboard hook keeps about keys, the watchdog that installs the  *)
(* hooks again, and how the consumer of the events sleeps and is woken.     *)
(* The parts share no state: one of them, chosen at the start, runs while   *)
(* the others stay where they begin.                                        *)
(*                                                                          *)
(* Two letters are enough for one key's swallowed hold to overlap another's,*)
(* with Shift and CapsLock held across both; five key events and a resync   *)
(* by the UI thread leave room for a repeat and for events nobody saw.      *)
(*                                                                          *)
(* A timer tick is 5 ms.  The code's 60 ms, 2 misses and 20 ms become 3, 2  *)
(* and 2 ticks; TickRange is larger than twice every interval in a run, so  *)
(* only the starting tick decides on which side of the wrap a run is.       *)
(*                                                                          *)
(* A ring of two slots and a drain of two overflow with three events; the   *)
(* store buffers are those of x86.                                          *)
EXTENDS KeyStream, HookWatchdog, HookWake

VARIABLE part

keyboardVars == <<part, vars, watchVars, wakeVars>>

OthersStay ==
  /\ UNCHANGED part
  /\ part = "keys" \/ UNCHANGED vars
  /\ part = "watchdog" \/ UNCHANGED watchVars
  /\ part = "wake" \/ UNCHANGED wakeVars

KeysPart == part = "keys" /\ Next /\ OthersStay
WatchdogPart == part = "watchdog" /\ WatchNext /\ OthersStay
WakePart == part = "wake" /\ WakeNext /\ OthersStay

KeyboardInit ==
  /\ part \in {"keys", "watchdog", "wake"}
  /\ Init /\ WatchInit /\ WakeInit /\ (part # "keys" => ~capsLevel)

KeyboardNext == KeysPart \/ WatchdogPart \/ WakePart

\* Neither thread of the part that sleeps and wakes stops half-way, and buffered
\* stores reach memory.  The user need not type, and nobody need call stop() or
\* pokeConsumer().
Running(Step) == part = "wake" /\ Step /\ OthersStay
KeyboardSpec ==
  /\ KeyboardInit /\ [][KeyboardNext]_keyboardVars
  /\ WF_keyboardVars(Running(EnqueueStep))
  /\ WF_keyboardVars(Running(ConsumerStep))
  /\ WF_keyboardVars(Running(FlushPump))
  /\ WF_keyboardVars(Running(FlushConsumer))
  /\ WF_keyboardVars(Running(StopSignal))
=============================================================================
