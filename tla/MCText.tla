------------------------------- MODULE MCText -------------------------------
(* The text engine's session, the word it composes, and the live effects    *)
(* written over both.  The parts share no state: one of them, chosen at the *)
(* start, runs while the others stay where they begin.                      *)
(*                                                                          *)
(* A jump puts the caret behind a word that can be adopted; five letters    *)
(* overflow a buffer of four and fill the overflow, two entries fill the    *)
(* history, and a word of four is read back only in part.  The style        *)
(* toggles every other letter, so a cursor that is one off shows; three     *)
(* letters, one publication and one move are what a key can straddle.       *)
(* Four letters hold a group of three and its end, or two syllables; five   *)
(* keys make circumflex, horn and mark meet in groups open and closed (the  *)
(* w makes the horned u as well); one F9, from either style.                *)
EXTENDS TextSession, LiveEffects

MCElsewhere == {<<"t", "i">>}
MCStyles == {{0, 2}}
MCKeys == {"a", "o", "n", "s", "w"}

VARIABLES
  part,
  st, modern, shown, misled, front, behind, unplaced, switches

toneVars == <<st, modern, shown, misled, front, behind, unplaced, switches>>

Tone == INSTANCE ToneMark
  WITH Keys <- MCKeys, MaxWord <- 4, MaxSwitches <- 1, screen <- shown, astray <- misled

OthersStay ==
  /\ UNCHANGED part
  /\ part = "session" \/ UNCHANGED vars
  /\ part = "live" \/ UNCHANGED liveVars
  /\ part = "tone" \/ UNCHANGED toneVars

SessionPart == part = "session" /\ Next /\ OthersStay
LivePart == part = "live" /\ LiveNext /\ OthersStay
TonePart == part = "tone" /\ Tone!ToneNext /\ OthersStay

TextInit ==
  /\ part \in {"session", "live", "tone"}
  /\ Init /\ LiveInit
  /\ Tone!ToneInit /\ (part # "tone" => ~modern /\ front = "none")

TextNext == SessionPart \/ LivePart \/ TonePart

TextSpec == TextInit /\ [][TextNext]_<<part, vars, liveVars, toneVars>>

(***************************************************************************)
(* Properties                                                              *)
(***************************************************************************)
\* A word composed, corrected and switched in any order carries one mark, on the
\* vowel its style asks for, and the application shows the word the engine holds
\* (TextEngine.cpp, mainKeyBranch, checkGrammar and switchToneStyle).
WordIsComposed == Tone!OneMark /\ Tone!InPlace /\ Tone!ShownIsWord
=============================================================================
