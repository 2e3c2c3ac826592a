----------------------------- MODULE ChaosLab -------------------------------
(***************************************************************************)
(* The laboratory (src/src/app/ChaosLabWindow.cpp).                        *)
(*                                                                         *)
(* Its page shows what the Flexing game of src/src/core/Arcade.cpp types:  *)
(* any key types some characters of a prepared text into a buffer, the     *)
(* page takes the buffer and keeps what it took, to be sent to an          *)
(* application.  A character is its place in the text.                     *)
(*                                                                         *)
(* The laboratory types a text into the application the user came from, at *)
(* once, or in chunks on a timer.  The target is checked before every      *)
(* emission, but SendInput types into whatever window is in front when it  *)
(* runs, and the user may have changed that in between.  There a text is   *)
(* its number of chunks.                                                   *)
(***************************************************************************)
EXTENDS Integers, Sequences, SequencesExt, GameLife

CONSTANTS
  Length,      \* characters of the prepared text
  Spaces,      \* those of them that end a word
  NChars,      \* characters to a key, or to a frame of the automatic stream
  Cap          \* kCap: what the page keeps, 8192

ASSUME FlexAssumption ==
  Length \in Nat /\ Spaces \subseteq 1 .. Length /\ NChars \in Nat \ {0} /\ Cap \in Nat

VARIABLES
  cursor,      \* m_cursor
  emitted,     \* m_emittedBuffer
  gran,        \* m_gran
  flexLife,    \* m_completed is its over
  produced,    \* flexProduced, which the output box shows
  popped       \* history: characters taken since the last reset

flexVars == <<cursor, emitted, gran, flexLife, produced, popped>>

Granularities == {"char", "word", "chars", "stream"}

FreshText(c, e, p) == c = 0 /\ e = <<>> /\ p = 0

FlexInit ==
  /\ FreshText(cursor, emitted, popped)
  /\ gran = "char" /\ flexLife = Started /\ produced = <<>>

Upto(a, b) == [i \in 1 .. b - a |-> a + i]
Least(a, b) == IF a < b THEN a ELSE b

\* How far one key or one frame types
WordEnd ==
  LET ends == {s \in Spaces : s > cursor} IN
  IF ends = {} THEN Length ELSE CHOOSE s \in ends : \A t \in ends : s <= t

Reach(n) == Least(cursor + n, Length)

EmitTo(to) ==
  /\ cursor' = to
  /\ emitted' = emitted \o Upto(cursor, to)
  /\ flexLife' = IF to >= Length THEN Ended(flexLife) ELSE flexLife
  /\ UNCHANGED <<gran, produced, popped>>

\* handleKey of a key that plays: a stream is moved by the frames alone.
KeyTypes ==
  /\ Running(flexLife) /\ gran # "stream"
  /\ CASE gran = "word" -> EmitTo(WordEnd)
       [] gran = "chars" -> EmitTo(Reach(NChars))
       [] gran = "char" -> EmitTo(Reach(1))

\* update: 15 characters a second, carried over frames
FrameTypes ==
  /\ Running(flexLife) /\ gran = "stream" /\ cursor < Length
  /\ \E n \in 1 .. NChars : EmitTo(Reach(n))

\* setGranularity, in a run that goes on
SetGranularity ==
  /\ gran' \in Granularities
  /\ UNCHANGED <<cursor, emitted, flexLife, produced, popped>>

\* The restart key
FlexRestart ==
  /\ FreshText(cursor', emitted', popped') /\ flexLife' = Restarted(flexLife)
  /\ UNCHANGED <<gran, produced>>

\* The load button: a new prepared text, and the page is emptied.
Load ==
  /\ FreshText(cursor', emitted', popped') /\ flexLife' = Restarted(flexLife)
  /\ produced' = <<>>
  /\ UNCHANGED gran

\* What the page keeps when it takes a text: the tail of what it had
\* Mutant: the cut is a character short.
BadKept(taken) ==
  LET over == Len(produced) + Len(taken) - Cap IN
  IF over <= 0 THEN produced
  ELSE IF over >= Len(produced) THEN <<>> ELSE SubSeq(produced, over, Len(produced))
Kept(taken) ==
  LET over == Len(produced) + Len(taken) - Cap IN
  IF over <= 0 THEN produced
  ELSE IF over >= Len(produced) THEN <<>> ELSE SubSeq(produced, over + 1, Len(produced))

\* popEmittedOutput by pumpFlexing
pumpFlexing ==
  /\ emitted # <<>>
  /\ produced' = Kept(emitted) \o emitted
  /\ popped' = popped + Len(emitted) /\ emitted' = <<>>
  /\ UNCHANGED <<cursor, gran, flexLife>>

FlexLifeKey ==
  /\ flexLife' \in {ExitKey(flexLife), PauseKey(flexLife), Polled(flexLife)}
  /\ UNCHANGED <<cursor, emitted, gran, produced, popped>>

FlexNext ==
  /\ ~ flexLife.exiting
  /\ \/ KeyTypes \/ FrameTypes \/ SetGranularity \/ FlexRestart
     \/ Load \/ pumpFlexing \/ FlexLifeKey

FlexSpec == FlexInit /\ [][FlexNext]_flexVars

(***************************************************************************)
(* Properties                                                              *)
(***************************************************************************)
\* Nothing of the text is skipped or typed twice, whatever the granularity
\* was changed to on the way: what was taken, then what waits, is the text
\* up to the cursor; and the page ends in what was taken, within its cap
\* unless one piece alone is longer.
TextComesWhole ==
  /\ popped + Len(emitted) = cursor
  /\ emitted = Upto(popped, cursor)
  /\ LET shown == Least(popped, Len(produced)) IN
     SubSeq(produced, Len(produced) - shown + 1, Len(produced)) = Upto(popped - shown, popped)
  /\ Len(produced) <= (IF Cap < Length THEN Length ELSE Cap)

-----------------------------------------------------------------------------

CONSTANTS
  Apps,          \* windows of other processes
  Chunks,        \* chunks of a text
  MaxRequests    \* bound: texts asked to be sent

Own == "kieekey"
Nobody == "nobody"
Windows == Apps \cup {Own}
Idle == [request |-> 0]

ASSUME LabAssumption == Chunks \in Nat \ {0} /\ MaxRequests \in Nat /\ {Own, Nobody} \cap Apps = {}

VARIABLES
  alive,         \* the applications that have their window
  front,         \* the foreground window
  target,        \* target: the application in front when the window opened
  injection,     \* pendingInjection, injectionOffset, injectionTarget
  emission,      \* checks passed, SendInput not called yet: <<request, chunks>>
  status,        \* the outcome in the status row
  alerted,       \* statusAlerted
  requests,      \* history: texts asked to be sent
  labTyped,      \* history: what was typed: window, request and chunk
  outcome        \* history: the last outcome reported for each request

labVars == <<alive, front, target, injection, emission, status, alerted, requests, labTyped,
             outcome>>

LabInit ==
  /\ alive = Apps /\ front \in Windows /\ target = Nobody
  /\ injection = Idle /\ emission = <<>>
  /\ status = "none" /\ alerted = FALSE
  /\ requests = 0 /\ labTyped = <<>> /\ outcome = [r \in 1 .. MaxRequests |-> "none"]

Quiet == emission = <<>>

\* isExternalTarget
IsExternal(w) == w \in alive

\* open: the target is remembered when there is one
Open ==
  /\ Quiet
  /\ target' = IF IsExternal(front) THEN front ELSE target
  /\ front' = Own
  /\ UNCHANGED <<alive, injection, emission, status, alerted, requests, labTyped, outcome>>

\* reportSendOutcome; the dialog of a refused activation comes once
Report(r, o) ==
  /\ status' = o /\ outcome' = [outcome EXCEPT ![r] = o]
  /\ alerted' = (alerted \/ o = "denied")

\* typeIntoFocusApp begins by cancelling what is under way.
\* Mutant: only the text is replaced, not how far the last one came.
BadStartOf(r) ==
  [request |-> r, offset |-> IF injection = Idle THEN 0 ELSE injection.offset,
   target |-> target]
StartOf(r) == [request |-> r, offset |-> 0, target |-> target]

Send(perChunk) ==
  LET r == requests + 1 IN
  /\ Quiet /\ requests < MaxRequests /\ requests' = r
  /\ \/ /\ ~ IsExternal(target)                       \* also an empty text
        /\ Report(r, "untargeted") /\ injection' = Idle
        /\ UNCHANGED <<front, emission>>
     \/ /\ IsExternal(target)                         \* SetForegroundWindow refused
        /\ Report(r, "denied") /\ injection' = Idle
        /\ UNCHANGED <<front, emission>>
     \/ /\ IsExternal(target) /\ front' = target
        /\ IF perChunk
           THEN injection' = StartOf(r) /\ Report(r, "queued") /\ UNCHANGED emission
           ELSE /\ injection' = Idle /\ emission' = <<r, 1, Chunks>>
                /\ UNCHANGED <<status, alerted, outcome>>
  /\ UNCHANGED <<alive, target, labTyped>>

\* Mutant: a text that is given up stays under way.
BadGivenUp(r) == Report(r, "lost") /\ UNCHANGED injection
GivenUp(r) == Report(r, "lost") /\ injection' = Idle

\* pumpInjection up to the emission
pumpInjection ==
  /\ Quiet /\ injection # Idle
  /\ IF IsExternal(injection.target) /\ front = injection.target
     THEN /\ emission' = <<injection.request, injection.offset + 1, injection.offset + 1>>
          /\ UNCHANGED <<injection, status, alerted, outcome>>
     ELSE GivenUp(injection.request) /\ UNCHANGED emission
  /\ UNCHANGED <<alive, front, target, requests, labTyped>>

\* The emission and what follows it.  emitForChaosLab answers the length of
\* the text whatever SendInput did, so no emission is seen to fail.
emitForChaosLab ==
  LET r == emission[1] IN
  /\ ~ Quiet /\ emission' = <<>>
  /\ labTyped' = labTyped \o [i \in 1 .. emission[3] - emission[2] + 1 |->
                          <<front, r, emission[2] + i - 1>>]
  /\ IF emission[3] = Chunks
     THEN Report(r, "sent") /\ injection' = Idle
     ELSE /\ injection' = [injection EXCEPT !.offset = emission[3]]
          /\ UNCHANGED <<status, alerted, outcome>>
  /\ UNCHANGED <<alive, front, target, requests>>

\* close: what is under way is dropped without a word.
Close ==
  /\ Quiet /\ injection' = Idle
  /\ UNCHANGED <<alive, front, target, emission, status, alerted, requests, labTyped, outcome>>

\* The user and the applications
SwitchWindow ==
  /\ front' \in alive \cup {Own}
  /\ UNCHANGED <<alive, target, injection, emission, status, alerted, requests, labTyped,
                 outcome>>

AppCloses ==
  /\ \E a \in alive : alive' = alive \ {a} /\ front' \in (IF front = a THEN {Own} ELSE {front})
  /\ UNCHANGED <<target, injection, emission, status, alerted, requests, labTyped, outcome>>

LabNext ==
  \/ Open \/ Send(TRUE) \/ Send(FALSE) \/ pumpInjection \/ emitForChaosLab \/ Close
  \/ SwitchWindow \/ AppCloses

LabSpec == LabInit /\ [][LabNext]_labVars

(***************************************************************************)
(* Properties                                                              *)
(***************************************************************************)
\* What was typed of a text is its beginning, in order and once, whatever
\* was cancelled before it; texts never mix, and one called sent was typed
\* whole.
ComesInOrder(i) ==
  LET t == labTyped[i] IN
  IF t[3] = 1 THEN \A j \in 1 .. i - 1 : labTyped[j][2] < t[2]
  ELSE i > 1 /\ labTyped[i - 1][2] = t[2] /\ labTyped[i - 1][3] = t[3] - 1

LabIsSound ==
  /\ \A i \in DOMAIN labTyped : ComesInOrder(i)
  /\ \A r \in 1 .. requests :
       outcome[r] = "sent" <=> \E t \in ToSet(labTyped) : t[2] = r /\ t[3] = Chunks

\* The outcomes that end a text
Reported == {"lost", "denied", "untargeted", "sent"}

\* Nothing of a text is typed after its end was reported, so an emission after
\* a refused or a lost one never happens.
NothingAfterEnd ==
  [][\A i \in Len(labTyped) + 1 .. Len(labTyped') :
       outcome[labTyped'[i][2]] \notin Reported]_labVars
=============================================================================
