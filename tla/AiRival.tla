------------------------------ MODULE AiRival ------------------------------
(***************************************************************************)
(* The learned typing rhythm (core/AiRival.cpp) over its telemetry ring    *)
(* (core/SeqRing.hpp).  The hook thread pushes a sample per key while the  *)
(* user has opted in; a slot is a sequence lock over two words.  A trainer *)
(* - the 500 ms timer of the settings dialog, or the web bridge - copies   *)
(* what was pushed since the last batch and fits the profile under a lock. *)
(* Opting out purges the profile and the ring.  The profile is written to  *)
(* aiprofile.dat with the progression, and read at boot by a user who has  *)
(* opted in.                                                               *)
(*                                                                         *)
(* A sample is the number of its key, in either word: a sample whose words *)
(* differ is torn.  The profile is how often it has learned each key.      *)
(***************************************************************************)
EXTENDS Integers, Sequences, FiniteSets

CONSTANTS Trainers,   \* the threads that train: the UI timer, the web bridge
          Capacity,   \* kCapacity
          MinBatch,   \* fewer samples are not fitted (5)
          MaxSamples, MaxOptOuts, MaxTrains, MaxRivalStarts   \* bounds of the exploration

ASSUME RivalAssumption == Capacity \in Nat \ {0} /\ MaxSamples \in Nat

VARIABLES slots, head,   \* m_slots, m_head
          push,          \* where observeKeystroke stands
          optIn,         \* m_optIn
          trained,       \* m_trainedIndex
          reader,        \* where each trainBatch stands
          learned,       \* m_profile
          aiFile,        \* aiprofile.dat
          purging,       \* the ring is being reset
          counts,        \* the bounds
          forgotten      \* the keys pushed before the last purge

rivalVars == <<slots, head, push, optIn, trained, reader, learned, aiFile, purging,
               counts, forgotten>>

Keys == 1 .. MaxSamples
NoProfile == [k \in Keys |-> 0]
EmptySlots == [s \in 0 .. Capacity - 1 |-> [seq |-> 0, stamp |-> 0, payload |-> 0]]
IdlePush == [pc |-> "idle", index |-> 0, seq |-> 0]
IdleReader == [pc |-> "idle", index |-> 0, total |-> 0, seq |-> 0, stamp |-> 0,
               payload |-> 0, batch |-> <<>>]

RivalInit ==
  /\ slots = EmptySlots /\ head = 0 /\ push = IdlePush /\ optIn = FALSE /\ trained = 0
  /\ reader = [t \in Trainers |-> IdleReader]
  /\ learned = NoProfile /\ aiFile = NoProfile /\ purging = FALSE /\ forgotten = {}
  /\ counts = [keys |-> 0, outs |-> 0, trains |-> 0, boots |-> 0]

Slot(index) == index % Capacity

-----------------------------------------------------------------------------
(* observeKeystroke and SeqRing::push, on the hook thread.                 *)

PushStep(pc, to) == push.pc = pc /\ push' = [push EXCEPT !.pc = to]
Stored(field, value) == slots' = [slots EXCEPT ![Slot(push.index)][field] = value]
OthersWait == UNCHANGED <<optIn, trained, reader, learned, aiFile, purging, forgotten>>

observeKeystroke ==
  /\ push.pc = "idle" /\ optIn /\ counts.keys < MaxSamples
  /\ counts' = [counts EXCEPT !.keys = @ + 1]
  /\ push' = [pc |-> "odd", index |-> head, seq |-> slots[Slot(head)].seq]
  /\ OthersWait /\ UNCHANGED <<slots, head>>

PushOdd == PushStep("odd", "stamp") /\ Stored("seq", push.seq + 1)
           /\ OthersWait /\ UNCHANGED <<head, counts>>
PushStamp == PushStep("stamp", "payload") /\ Stored("stamp", counts.keys)
             /\ OthersWait /\ UNCHANGED <<head, counts>>
PushPayload == PushStep("payload", "even") /\ Stored("payload", counts.keys)
               /\ OthersWait /\ UNCHANGED <<head, counts>>
PushEven == PushStep("even", "head") /\ Stored("seq", push.seq + 2)
            /\ OthersWait /\ UNCHANGED <<head, counts>>
PushHead == PushStep("head", "idle") /\ head' = push.index + 1
            /\ OthersWait /\ UNCHANGED <<slots, counts>>

-----------------------------------------------------------------------------
(* trainBatch.                                                             *)

HookWaits == UNCHANGED <<slots, head, push, optIn, aiFile, purging, forgotten>>
UiIsIn(t) == t = "ui" /\ purging
Oldest == IF head > Capacity THEN head - Capacity ELSE 0

\* What is new since the last batch, as far as the ring still holds it.
trainBatch(t) ==
  LET first == IF trained < Oldest THEN Oldest ELSE trained
  IN /\ reader[t].pc = "idle" /\ ~UiIsIn(t) /\ (t = "ui" => optIn)
     /\ first < head /\ counts.trains < MaxTrains
     /\ counts' = [counts EXCEPT !.trains = @ + 1]
     /\ trained' = head
     /\ reader' = [reader EXCEPT ![t] = [IdleReader EXCEPT !.pc = "first", !.index = first,
                                                           !.total = head]]
     /\ HookWaits /\ UNCHANGED learned

ReaderStep(t, pc, new) ==
  /\ reader[t].pc = pc /\ reader' = [reader EXCEPT ![t] = new]
  /\ HookWaits /\ UNCHANGED <<trained, learned, counts>>

NextIndex(r) ==
  IF r.index + 1 < r.total THEN [r EXCEPT !.pc = "first", !.index = @ + 1]
                           ELSE [r EXCEPT !.pc = "blend"]

\* An odd number: the slot is being written and the sample is skipped.
ReadFirst(t) ==
  LET r == reader[t]  seq == slots[Slot(r.index)].seq
  IN ReaderStep(t, "first", IF seq % 2 = 1 THEN NextIndex(r)
                                           ELSE [r EXCEPT !.pc = "stamp", !.seq = seq])
ReadStamp(t) ==
  ReaderStep(t, "stamp", [reader[t] EXCEPT !.pc = "payload",
                                           !.stamp = slots[Slot(reader[t].index)].stamp])
ReadPayload(t) ==
  ReaderStep(t, "payload", [reader[t] EXCEPT !.pc = "second",
                                             !.payload = slots[Slot(reader[t].index)].payload])

\* Mutant: the sequence number is not read again.
BadUnchangedSince(r) == TRUE
UnchangedSince(r) == r.seq = slots[Slot(r.index)].seq

ReadSecond(t) ==
  LET r == reader[t]
      new == IF UnchangedSince(r)
             THEN [r EXCEPT !.batch = Append(@, [stamp |-> r.stamp, payload |-> r.payload])]
             ELSE r
  IN ReaderStep(t, "second", NextIndex(new))

Times(batch, k) == Cardinality({i \in DOMAIN batch : batch[i].stamp = k})

\* Too small a batch is dropped, and so is one without a usable interval.
Blend(t) ==
  LET batch == reader[t].batch
      fitted == [k \in Keys |-> learned[k] + Times(batch, k)]
  IN /\ reader[t].pc = "blend"
     /\ learned' \in IF Len(batch) < MinBatch THEN {learned} ELSE {learned, fitted}
     /\ reader' = [reader EXCEPT ![t] = IdleReader]
     /\ HookWaits /\ UNCHANGED <<trained, counts>>

-----------------------------------------------------------------------------
(* Consent, on the UI thread.                                              *)

UiFree == ~purging /\ reader["ui"].pc = "idle"

OptsIn ==
  /\ UiFree /\ ~optIn /\ optIn' = TRUE
  /\ UNCHANGED <<slots, head, push, trained, reader, learned, aiFile, purging, counts,
                 forgotten>>

\* Mutant: the profile goes, the samples stay.
BadRingReset == slots
RingReset == EmptySlots

\* setOptIn(false): the flag, then resetProfile up to the slots of the ring.
OptsOut ==
  /\ UiFree /\ optIn /\ counts.outs < MaxOptOuts
  /\ counts' = [counts EXCEPT !.outs = @ + 1]
  /\ optIn' = FALSE /\ learned' = NoProfile /\ slots' = RingReset /\ purging' = TRUE
  /\ forgotten' = {k \in Keys : k <= counts.keys - (IF push.pc = "idle" THEN 0 ELSE 1)}
  /\ UNCHANGED <<head, push, trained, reader, aiFile>>

\* ... and its head, and the training index.
PurgeEnds ==
  /\ purging /\ purging' = FALSE /\ head' = 0 /\ trained' = 0
  /\ UNCHANGED <<slots, push, optIn, reader, learned, aiFile, counts, forgotten>>

-----------------------------------------------------------------------------
(* The file.                                                               *)

\* saveProgressionAndAi: written by the sweep and at exit, while opted in.
SaveProfile ==
  /\ UiFree /\ optIn /\ aiFile # learned /\ aiFile' = learned
  /\ UNCHANGED <<slots, head, push, optIn, trained, reader, learned, purging, counts,
                 forgotten>>

\* The process ends, by a kill or an exit, and starts again; the consent is kept in
\* the registry, the profile is read by a user who has opted in.
Restart ==
  /\ counts.boots < MaxRivalStarts /\ ~purging
  /\ counts' = [counts EXCEPT !.boots = @ + 1]
  /\ slots' = EmptySlots /\ head' = 0 /\ push' = IdlePush /\ trained' = 0
  /\ reader' = [t \in Trainers |-> IdleReader]
  /\ learned' = IF optIn THEN aiFile ELSE NoProfile
  /\ UNCHANGED <<optIn, aiFile, purging, forgotten>>

RivalNext ==
  \/ observeKeystroke \/ PushOdd \/ PushStamp \/ PushPayload \/ PushEven \/ PushHead
  \/ \E t \in Trainers :
       trainBatch(t) \/ ReadFirst(t) \/ ReadStamp(t) \/ ReadPayload(t) \/ ReadSecond(t)
         \/ Blend(t)
  \/ OptsIn \/ OptsOut \/ PurgeEnds \/ SaveProfile \/ Restart

RivalSpec == RivalInit /\ [][RivalNext]_rivalVars

-----------------------------------------------------------------------------
(* Properties                                                              *)

\* A sample never joins the words of two keys, whatever the hook does meanwhile. (A
\* purge that meets a push leaves a sample with one word erased, which is accepted.)
SamplesAreWhole ==
  \A t \in Trainers : \A i \in 1 .. Len(reader[t].batch) :
    LET s == reader[t].batch[i] IN 0 \notin {s.stamp, s.payload} => s.stamp = s.payload

\* What was pushed before a purge is not learned after it, in the life of the
\* process that purged. (The key the hook was pushing just then is.)
PurgeHolds == counts.boots = 0 => \A k \in forgotten : learned[k] = 0

RivalSound == SamplesAreWhole /\ PurgeHolds

\* The comment of setOptIn: opting out purges everything. The file stays.
OptOutForgets == \A k \in forgotten : learned[k] = 0

\* The comment of trainBatch: each keystroke is learned exactly once. A batch that
\* is too small is marked as trained all the same.
LearnedOnce ==
  (\A t \in Trainers : reader[t].pc = "idle") /\ forgotten = {} /\ counts.boots = 0 =>
    \A k \in 1 .. trained : learned[k] = 1
=============================================================================
