---------------------------- MODULE InlineEmitter ----------------------------
(***************************************************************************)
(* InlineEmitter::sendEdit of src/src/core/win32_wrapper.cpp: an edit is   *)
(* typed as input events, backspaces first, in one SendInput call or in    *)
(* several when it is longer than the slab.  The hook thread and the       *)
(* consumer may both emit; one mutex is held for the whole edit.  A call   *)
(* may be refused, or take only the first of its inputs.                   *)
(* Every key is two inputs, so input i of an edit is a release when i is   *)
(* even.                                                                   *)
(***************************************************************************)
EXTENDS Integers, Sequences, FiniteSetsExt

CONSTANTS
  Emitters,    \* threads that send edits
  SlabSize,    \* kMaxInlineInputs
  Shapes,      \* [back, len]: the edits there may be
  MaxSends     \* bound: edits sent

VARIABLES
  edits,       \* the edits begun
  hand,        \* of each thread: the edit it sends, and the inputs pushed so far
  holders,     \* of emitMtx
  stream,      \* what the system took: <<edit, input, call>>
  stamped,     \* length of the stream at the last stampInjected
  counters     \* sendInputCalls_, inputsInjected_, sendInputFailed_

emitterVars == <<edits, hand, holders, stream, stamped, counters>>

Resting == [edit |-> 0, pushed |-> 0]

EmitterInit ==
  /\ edits = <<>> /\ hand = [t \in Emitters |-> Resting] /\ holders = {}
  /\ stream = <<>> /\ stamped = 0
  /\ counters = [calls |-> 0, injected |-> 0, failed |-> 0]

Backs(e) == 2 * edits[e].back
Inputs(e) == 2 * (edits[e].back + edits[e].len)

\* Where the calls of an edit end: the slab is full, or half a slab of units
\* has been pushed behind the backspaces, or the edit is over.
CallEnds(e) ==
  {i \in 1 .. Inputs(e) :
     \/ i % SlabSize = 0 /\ i <= Backs(e) + SlabSize
     \/ i > Backs(e) /\ (i - Backs(e)) % SlabSize = 0
     \/ i = Inputs(e)}

SendEdit(t) ==
  /\ hand[t] = Resting /\ Len(edits) < MaxSends
  /\ \E shape \in Shapes : edits' = Append(edits, shape)
  /\ hand' = [hand EXCEPT ![t].edit = Len(edits) + 1]
  /\ UNCHANGED <<holders, stream, stamped, counters>>

\* Mutant: each thread emits as it pleases.
BadMutexFree == TRUE
MutexFree == holders = {}

Lock(t) ==
  /\ hand[t] # Resting /\ t \notin holders /\ MutexFree
  /\ holders' = holders \cup {t}
  /\ UNCHANGED <<edits, hand, stream, stamped, counters>>

\* flush: `sent` inputs of the slab are taken; only they are stamped.
Flush(t) ==
  LET e == hand[t].edit
      first == hand[t].pushed
      last == Min({i \in CallEnds(e) : i > first})
  IN  /\ t \in holders /\ first < Inputs(e)
      /\ \E sent \in 0 .. last - first :
           /\ stream' = stream \o [i \in 1 .. sent |-> <<e, first + i, counters.calls + 1>>]
           /\ stamped' = IF sent > 0 THEN Len(stream') ELSE stamped
           /\ counters' = [calls |-> counters.calls + 1,
                           injected |-> counters.injected + sent,
                           failed |-> counters.failed + last - first - sent]
      /\ hand' = [hand EXCEPT ![t].pushed = last]
      /\ UNCHANGED <<edits, holders>>

Unlock(t) ==
  /\ t \in holders /\ hand[t].pushed = Inputs(hand[t].edit)
  /\ holders' = holders \ {t} /\ hand' = [hand EXCEPT ![t] = Resting]
  /\ UNCHANGED <<edits, stream, stamped, counters>>

EmitterNext == \E t \in Emitters : SendEdit(t) \/ Lock(t) \/ Flush(t) \/ Unlock(t)

(***************************************************************************)
(* Properties                                                              *)
(***************************************************************************)
\* The inputs of two edits never mix, those of one keep their order, and a
\* call takes no more than the slab holds.
EditsStayWhole ==
  \A i, j \in DOMAIN stream :
    /\ i < j /\ stream[i][1] = stream[j][1] =>
         /\ stream[i][2] < stream[j][2]
         /\ \A k \in i .. j : stream[k][1] = stream[i][1]
    /\ stream[i][3] = stream[j][3] => j - i < SlabSize

\* The two inputs of a key travel in one call, so a release is refused alone
\* only when its call stopped between them.
KeysStayWhole ==
  \A i, j \in DOMAIN stream :
    /\ stream[i][1] = stream[j][1] /\ stream[j][2] = stream[i][2] + 1 /\ stream[j][2] % 2 = 0
    => stream[i][3] = stream[j][3]

\* The inputs <<edit, number>> that have been put into a slab and flushed.
PushedInputs ==
  {p \in UNION {{e} \X (1 .. Inputs(e)) : e \in DOMAIN edits} :
     \A t \in Emitters : hand[t].edit = p[1] => p[2] <= hand[t].pushed}

\* Every input pushed is counted as taken or as failed, and the stamp the
\* watchdog reads is of the last input the system took, never of a refused one.
InputsAccounted ==
  /\ counters.injected = Len(stream) /\ stamped = Len(stream)
  /\ counters.injected + counters.failed = Cardinality(PushedInputs)

EmitterIsSound == EditsStayWhole /\ KeysStayWhole /\ InputsAccounted
=============================================================================
