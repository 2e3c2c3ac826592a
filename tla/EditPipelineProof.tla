------------------------- MODULE EditPipelineProof -------------------------
(***************************************************************************)
(* For every size of ring and batch, whatever fails and however the engine *)
(* is switched: the count of the barrier is the work there is, nothing is  *)
(* stranded when everybody rests, and every edit is in one place.          *)
(***************************************************************************)
EXTENDS EditPipeline, FiniteSetTheorems, SequenceTheorems, TLAPS

(***************************************************************************)
(* Places of a sequence that hold one of some values.                      *)
(***************************************************************************)
Occ(P, s) == {i \in DOMAIN s : s[i] \in P}

LEMMA OccFinite ==
  ASSUME NEW T, NEW s \in Seq(T), NEW P
  PROVE  IsFiniteSet(Occ(P, s)) /\ Cardinality(Occ(P, s)) \in Nat
<1>1. DOMAIN s = 1 .. Len(s) /\ Len(s) \in Nat
  OBVIOUS
<1>2. IsFiniteSet(1 .. Len(s))
  BY <1>1, FS_Interval
<1>3. Occ(P, s) \in SUBSET (1 .. Len(s))
  BY <1>1 DEF Occ
<1>4. IsFiniteSet(Occ(P, s))
  BY <1>2, <1>3, FS_Subset
<1> QED  BY <1>4, FS_CardinalityType

LEMMA OccConcat ==
  ASSUME NEW T, NEW s \in Seq(T), NEW t \in Seq(T), NEW P
  PROVE  Cardinality(Occ(P, s \o t)) = Cardinality(Occ(P, s)) + Cardinality(Occ(P, t))
<1> DEFINE A == Occ(P, s)
           B == Occ(P, t)
           C == {i + Len(s) : i \in B}
           f == [i \in B |-> i + Len(s)]
<1>1. /\ Len(s) \in Nat /\ Len(t) \in Nat /\ Len(s \o t) = Len(s) + Len(t)
      /\ DOMAIN s = 1 .. Len(s) /\ DOMAIN t = 1 .. Len(t) /\ DOMAIN (s \o t) = 1 .. Len(s \o t)
  OBVIOUS
<1>2. \A i \in DOMAIN (s \o t) :
        (s \o t)[i] = IF i <= Len(s) THEN s[i] ELSE t[i - Len(s)]
  OBVIOUS
<1>3. Occ(P, s \o t) = A \cup C
  <2>1. ASSUME NEW i \in Occ(P, s \o t) PROVE i \in A \cup C
    <3>1. CASE i <= Len(s)  BY <1>1, <1>2, <2>1, <3>1 DEF Occ
    <3>2. CASE ~(i <= Len(s))
      <4>1. i - Len(s) \in B  BY <1>1, <1>2, <2>1, <3>2 DEF Occ
      <4>2. i = (i - Len(s)) + Len(s)  BY <1>1, <2>1 DEF Occ
      <4> QED  BY <4>1, <4>2
    <3> QED  BY <3>1, <3>2
  <2>2. ASSUME NEW i \in A PROVE i \in Occ(P, s \o t)
    BY <1>1, <1>2, <2>2 DEF Occ
  <2>3. ASSUME NEW i \in C PROVE i \in Occ(P, s \o t)
    <3>1. PICK j \in B : i = j + Len(s)  BY <2>3
    <3> QED  BY <1>1, <1>2, <3>1 DEF Occ
  <2> QED  BY <2>1, <2>2, <2>3
<1>4. A \cap C = {}
  BY <1>1 DEF Occ
<1>5. f \in Bijection(B, C)
  <2>1. \A i \in B : i \in Int  BY <1>1 DEF Occ
  <2>2. f \in [B -> C]  OBVIOUS
  <2>3. \A i, j \in B : f[i] = f[j] => i = j  BY <1>1, <2>1
  <2>4. \A c \in C : \E i \in B : f[i] = c  OBVIOUS
  <2>5. f \in Injection(B, C)  BY <2>2, <2>3 DEF Injection, IsInjective
  <2>6. f \in Surjection(B, C)  BY <2>2, <2>4 DEF Surjection
  <2> QED  BY <2>5, <2>6 DEF Bijection
<1>6. IsFiniteSet(A) /\ IsFiniteSet(B) /\ Cardinality(A) \in Nat /\ Cardinality(B) \in Nat
  BY OccFinite
<1>7. IsFiniteSet(C) /\ Cardinality(C) = Cardinality(B)
  BY <1>5, <1>6, FS_Bijection DEF ExistsBijection
<1>8. Cardinality(A \cup C) = Cardinality(A) + Cardinality(C) - Cardinality(A \cap C)
  BY <1>6, <1>7, FS_Union
<1>9. Cardinality(A \cap C) = 0
  BY <1>4, FS_EmptySet
<1>10. Cardinality(A \cup C) = Cardinality(A) + Cardinality(B)
  BY <1>6, <1>7, <1>8, <1>9
<1> QED  BY <1>3, <1>10

LEMMA OccOne ==
  ASSUME NEW P, NEW x PROVE Cardinality(Occ(P, <<x>>)) = If1(x \in P)
<1>1. CASE x \in P
  <2>1. Occ(P, <<x>>) = {1}  BY <1>1 DEF Occ
  <2> QED  BY <1>1, <2>1, FS_Singleton DEF If1
<1>2. CASE x \notin P
  <2>1. Occ(P, <<x>>) = {}  BY <1>2 DEF Occ
  <2> QED  BY <1>2, <2>1, FS_EmptySet DEF If1
<1> QED  BY <1>1, <1>2

\* What a push or a pop changes.
LEMMA OccAppend ==
  ASSUME NEW T, NEW s \in Seq(T), NEW x \in T, NEW P
  PROVE  Cardinality(Occ(P, Append(s, x))) = Cardinality(Occ(P, s)) + If1(x \in P)
<1>1. Append(s, x) = s \o <<x>> /\ <<x>> \in Seq(T)
  OBVIOUS
<1> QED  BY <1>1, OccConcat, OccOne

LEMMA OccTail ==
  ASSUME NEW T, NEW s \in Seq(T), s # <<>>, NEW P
  PROVE  Cardinality(Occ(P, s)) = If1(Head(s) \in P) + Cardinality(Occ(P, Tail(s)))
<1>1. s = <<Head(s)>> \o Tail(s) /\ <<Head(s)>> \in Seq(T) /\ Tail(s) \in Seq(T)
  OBVIOUS
<1>2. Cardinality(Occ(P, <<Head(s)>> \o Tail(s)))
        = Cardinality(Occ(P, <<Head(s)>>)) + Cardinality(Occ(P, Tail(s)))
  BY <1>1, OccConcat
<1> QED  BY <1>1, <1>2, OccOne

(***************************************************************************)
(* The edits in the output ring.                                           *)
(***************************************************************************)
EditKinds == {"Edit", "InlineEdit"}
Item == [kind : EditKinds \cup {"ForegroundChanged", "Resync"}, id : Nat]
EditItems == {x \in Item : x.kind \in EditKinds}
InRing == Cardinality(RingEdits)

LEMMA RingOcc ==
  ASSUME outRing \in Seq(Item) PROVE RingEdits = Occ(EditItems, outRing)
<1>1. \A i \in DOMAIN outRing : outRing[i] \in Item
  OBVIOUS
<1> QED  BY <1>1 DEF RingEdits, Occ, EditItems, EditKinds

LEMMA RingCount ==
  ASSUME outRing \in Seq(Item)
  PROVE  /\ InRing \in Nat
         /\ InRing = 0 <=> RingEdits = {}
         /\ outRing = <<>> => RingEdits = {}
<1>1. IsFiniteSet(RingEdits) /\ InRing \in Nat
  BY RingOcc, OccFinite DEF InRing
<1>2. InRing = 0 <=> RingEdits = {}
  BY <1>1, FS_EmptySet DEF InRing
<1>3. outRing = <<>> => RingEdits = {}
  BY DEF RingEdits
<1> QED  BY <1>1, <1>2, <1>3

LEMMA RingPush ==
  ASSUME outRing \in Seq(Item), NEW x \in Item, outRing' = Append(outRing, x)
  PROVE  /\ outRing' \in Seq(Item)
         /\ InRing' = InRing + If1(x \in EditItems)
<1>1. outRing' \in Seq(Item)
  OBVIOUS
<1>2. RingEdits' = Occ(EditItems, outRing')
  <2>1. \A i \in DOMAIN outRing' : outRing'[i] \in Item
    BY <1>1
  <2> QED  BY <2>1 DEF RingEdits, Occ, EditItems, EditKinds
<1>3. InRing' = Cardinality(RingEdits')
  BY DEF InRing
<1>4. Cardinality(Occ(EditItems, Append(outRing, x)))
        = Cardinality(Occ(EditItems, outRing)) + If1(x \in EditItems)
  BY OccAppend
<1> QED  BY <1>1, <1>2, <1>3, <1>4, RingOcc DEF InRing

LEMMA RingPop ==
  ASSUME outRing \in Seq(Item), outRing # <<>>, outRing' = Tail(outRing)
  PROVE  /\ outRing' \in Seq(Item) /\ Head(outRing) \in Item
         /\ InRing' \in Nat
         /\ InRing = InRing' + If1(Head(outRing) \in EditItems)
<1>1. outRing' \in Seq(Item) /\ Head(outRing) \in Item
  OBVIOUS
<1>2. RingEdits' = Occ(EditItems, outRing')
  <2>1. \A i \in DOMAIN outRing' : outRing'[i] \in Item
    BY <1>1
  <2> QED  BY <2>1 DEF RingEdits, Occ, EditItems, EditKinds
<1>3. InRing' = Cardinality(RingEdits')
  BY DEF InRing
<1>4. Cardinality(Occ(EditItems, outRing))
        = If1(Head(outRing) \in EditItems) + Cardinality(Occ(EditItems, Tail(outRing)))
  BY OccTail
<1>5. InRing' \in Nat /\ InRing \in Nat
  BY <1>1, <1>2, <1>3, OccFinite, RingCount
<1>6. If1(Head(outRing) \in EditItems) \in Nat
  BY DEF If1
<1> QED  BY <1>1, <1>2, <1>3, <1>4, <1>5, <1>6, RingOcc DEF InRing

LEMMA RingSame ==
  ASSUME outRing' = outRing PROVE InRing' = InRing /\ RingEdits' = RingEdits
BY DEF InRing, RingEdits

(***************************************************************************)
(* The invariant.                                                          *)
(***************************************************************************)
Returns == {"pop", "idle", "inline", "resync", "refocus", "send"}
Commits == {"commit", "suffix", "release", "notify"}

PipeTypes ==
  /\ hid \in Nat /\ outRing \in Seq(Item) /\ batch \in Seq(Nat)
  /\ pending \in Nat /\ owed \in Nat /\ arrivals \in Nat

\* What the hook holds at a push is an edit; what the consumer holds as a
\* deferred edit it holds until it has sent it; it owes only on its way to a
\* release.
InHand ==
  /\ hpc = "push" => hkind \in EditKinds
  /\ cret \in Returns
  /\ item.kind = "InlineEdit" <=> cpc = "inline" \/ (cpc \in Commits /\ cret = "inline")
  /\ owed # 0 => cpc \in {"suffix", "release"}

\* The parts of Outstanding.
Pushing == If1(hpc = "push")
Deferring == If1(item.kind = "InlineEdit")
Batched == IF cpc = "suffix" THEN 0 ELSE Len(batch)
Work == Pushing + InRing + Deferring + owed + Batched
Counted == pending <= Work /\ (~quiesced => pending = Work)

\* Somebody will come for an edit in the ring, and for one in the batch.
Fetched ==
  /\ InRing # 0 =>
       \/ hpc = "enqueue" \/ wake
       \/ cpc \in {"pop", "inline", "send", "resync", "refocus"}
       \/ cpc \in Commits /\ cret # "idle"
  /\ batch # <<>> =>
       \/ cpc \in {"pop", "commit", "suffix", "send"}
       \/ cpc \in {"release", "notify"} /\ cret = "send"

PipeInv == PipeTypes /\ InHand /\ Counted /\ Fetched

LEMMA PartsNat ==
  ASSUME PipeTypes
  PROVE  /\ Pushing \in 0 .. 1 /\ InRing \in Nat /\ Deferring \in 0 .. 1
         /\ owed \in Nat /\ Batched \in Nat /\ Len(batch) \in Nat
         /\ Work \in Nat
<1>1. Pushing \in 0 .. 1  BY DEF Pushing, If1
<1>2. Deferring \in 0 .. 1  BY DEF Deferring, If1
<1>3. InRing \in Nat  BY RingCount DEF PipeTypes
<1>4. Len(batch) \in Nat  BY DEF PipeTypes
<1>5. Batched \in Nat  BY <1>4 DEF Batched
<1>6. owed \in Nat  BY DEF PipeTypes
<1>7. Work \in Nat  BY <1>1, <1>2, <1>3, <1>5, <1>6 DEF Work
<1> QED  BY <1>1, <1>2, <1>3, <1>4, <1>5, <1>6, <1>7

LEMMA InitPipe == Init => PipeInv
<1> SUFFICES ASSUME Init PROVE PipeInv
  OBVIOUS
<1>1. outRing \in Seq(Item) /\ batch \in Seq(Nat) /\ Len(batch) = 0
  BY DEF Init
<1>2. InRing = 0
  BY <1>1, RingCount DEF Init
<1>3. PipeTypes
  BY <1>1 DEF PipeTypes, Init
<1>4. Work = 0
  BY <1>1, <1>2 DEF Init, Work, Pushing, Deferring, Batched, If1, NoItem
<1> QED  BY <1>1, <1>2, <1>3, <1>4
     DEF Init, PipeInv, InHand, Counted, Fetched, Returns, Commits, NoItem

\* What releaseClamped leaves.
LEMMA Clamped ==
  ASSUME NEW n \in Nat, NEW m \in Nat, NEW w \in Nat
  PROVE  LET left == IF n < m THEN 0 ELSE n - m
         IN  left \in Nat /\ (n <= w + m => left <= w) /\ (n = w + m => left = w)
<1>1. CASE n < m  BY <1>1
<1>2. CASE ~(n < m)  BY <1>2
<1> QED  BY <1>1, <1>2

(***************************************************************************)
(* The steps of the hook thread.                                           *)
(***************************************************************************)
\* Steps that move the hook alone.
LEMMA HookMoves ==
  ASSUME PipeInv, hpc # "push", hpc' # "push",
         hpc = "enqueue" => wake', wake => wake',
         hid' \in Nat, arrivals' \in Nat,
         UNCHANGED <<outRing, pending, consumer, quiesced>>
  PROVE  PipeInv'
<1>1. outRing \in Seq(Item) /\ InRing \in Nat /\ InRing' = InRing
  BY RingCount, RingSame DEF PipeInv, PipeTypes
<1>2. PipeTypes'  BY DEF PipeInv, PipeTypes, consumer
<1>3. InHand'  BY DEF PipeInv, InHand, consumer
<1>4. Work' = Work  BY <1>1 DEF Work, Pushing, Deferring, Batched, consumer
<1>5. Counted'  BY <1>4 DEF PipeInv, Counted
<1>6. Fetched'  BY <1>1 DEF PipeInv, Fetched, consumer
<1> QED  BY <1>2, <1>3, <1>5, <1>6 DEF PipeInv

LEMMA HookGoes ==
  ASSUME PipeInv, hpc # "push", hpc' # "push",
         hpc = "enqueue" => wake', wake => wake', hid' = hid,
         UNCHANGED <<outRing, pending, consumer, arrivals, quiesced>>
  PROVE  PipeInv'
<1>1. hid' \in Nat /\ arrivals' \in Nat  BY DEF PipeInv, PipeTypes
<1> QED  BY <1>1, HookMoves

LEMMA ArriveStep == ASSUME PipeInv, NEW k \in Kinds, Arrive(k) PROVE PipeInv'
<1>1. hpc # "push" /\ hpc' # "push" /\ hpc # "enqueue"
  BY PipelineAssumption DEF Arrive
<1>2. hid' \in Nat /\ arrivals' \in Nat
  BY DEF Arrive, PipeInv, PipeTypes
<1>3. UNCHANGED <<outRing, pending, consumer, quiesced, wake>>
  BY DEF Arrive, barrier
<1> QED  BY <1>1, <1>2, <1>3, HookMoves

\* Steps that put something else than an edit into the ring.
LEMMA HookAsks ==
  ASSUME PipeInv, NEW kind \in {"ForegroundChanged", "Resync"},
         hpc # "push", hpc' = "enqueue", hid' = hid,
         \/ outRing' = Append(outRing, [kind |-> kind, id |-> hid])
         \/ outRing' = outRing,
         UNCHANGED <<wake, pending, consumer, arrivals, quiesced>>
  PROVE  PipeInv'
<1> DEFINE x == [kind |-> kind, id |-> hid]
<1>1. outRing \in Seq(Item) /\ InRing \in Nat
  BY RingCount DEF PipeInv, PipeTypes
<1>2. outRing' \in Seq(Item) /\ InRing' = InRing
  <2>1. CASE outRing' = outRing  BY <1>1, <2>1, RingSame
  <2>2. CASE outRing' = Append(outRing, x)
    <3>1. x \in Item /\ x \notin EditItems
      BY DEF Item, EditItems, EditKinds, PipeInv, PipeTypes
    <3>2. If1(x \in EditItems) = 0  BY <3>1 DEF If1
    <3> HIDE DEF x
    <3> QED  BY <1>1, <2>2, <3>1, <3>2, RingPush
  <2> QED  BY <2>1, <2>2
<1>3. PipeTypes'  BY <1>2 DEF PipeInv, PipeTypes, consumer
<1>4. InHand'  BY DEF PipeInv, InHand, consumer
<1>5. Work' = Work  BY <1>2 DEF Work, Pushing, Deferring, Batched, consumer
<1>6. Counted'  BY <1>5 DEF PipeInv, Counted
<1>7. Fetched'  BY <1>2 DEF PipeInv, Fetched, consumer
<1> QED  BY <1>3, <1>4, <1>6, <1>7 DEF PipeInv

LEMMA PushStep == ASSUME PipeInv, Push PROVE PipeInv'
<1> DEFINE x == [kind |-> hkind, id |-> hid]
<1>1. outRing \in Seq(Item) /\ InRing \in Nat
  BY RingCount DEF PipeInv, PipeTypes
<1>2. x \in Item /\ x \in EditItems
  BY DEF Push, HookGoto, Item, EditItems, EditKinds, PipeInv, PipeTypes, InHand
<1>3. If1(x \in EditItems) = 1  BY <1>2 DEF If1
<1>4. outRing' = Append(outRing, x)  BY DEF Push
<1>5. outRing' \in Seq(Item) /\ InRing' = InRing + 1
  <2> HIDE DEF x
  <2> QED  BY <1>1, <1>2, <1>3, <1>4, RingPush
<1>6. /\ UNCHANGED <<hid, wake, pending, consumer, arrivals, quiesced>>
      /\ hpc = "push" /\ hpc' = "enqueue"
  BY DEF Push, HookGoto, barrier, history
<1>7. PipeTypes'  BY <1>5, <1>6 DEF PipeInv, PipeTypes, consumer
<1>8. InHand'  BY <1>6 DEF PipeInv, InHand, consumer
<1>9. Work' = Work
  <2>1. Pushing = 1 /\ Pushing' = 0  BY <1>6 DEF Pushing, If1
  <2>2. UNCHANGED <<Deferring, Batched, owed>>  BY <1>6 DEF Deferring, Batched, consumer
  <2>3. PipeTypes  BY DEF PipeInv
  <2> QED  BY <1>5, <2>1, <2>2, <2>3, PartsNat DEF Work
<1>10. Counted'  BY <1>6, <1>9 DEF PipeInv, Counted
<1>11. Fetched'  BY <1>6 DEF PipeInv, Fetched, consumer
<1> QED  BY <1>7, <1>8, <1>10, <1>11 DEF PipeInv

LEMMA HookStepPipe == ASSUME PipeInv, HookStep PROVE PipeInv'
<1>1. CASE Focus  BY <1>1, HookAsks DEF Focus, HookGoto, barrier, history
<1>2. CASE DecideOff \/ DecidePass \/ DecideEdit
  BY <1>2, HookGoes DEF DecideOff, DecidePass, DecideEdit, HookGoto, barrier, history
<1>3. CASE OutputQueued
  <2>1. outRing \in Seq(Item) /\ InRing \in Nat /\ InRing' = InRing
    BY <1>3, RingCount, RingSame DEF OutputQueued, PipeInv, PipeTypes
  <2>2. /\ UNCHANGED <<outRing, hid, wake, consumer, arrivals, quiesced>>
        /\ hpc = "output" /\ hpc' = "push" /\ hkind' \in EditKinds
        /\ pending' = pending + 1
    BY <1>3 DEF OutputQueued, history, EditKinds
  <2>3. PipeTypes'  BY <2>1, <2>2 DEF PipeInv, PipeTypes, consumer
  <2>4. InHand'  BY <2>2 DEF PipeInv, InHand, consumer
  <2>5. Work' = Work + 1 /\ Work \in Nat
    <3>1. Pushing = 0 /\ Pushing' = 1  BY <2>2 DEF Pushing, If1
    <3>2. UNCHANGED <<InRing, Deferring, Batched, owed>>
      BY <2>1, <2>2 DEF Deferring, Batched, consumer
    <3>3. PipeTypes  BY DEF PipeInv
    <3>4. Pushing + InRing + Deferring + owed + Batched \in Nat
      BY <3>3, PartsNat
    <3> QED  BY <3>1, <3>2, <3>3, <3>4, PartsNat DEF Work
  <2>6. Counted'  BY <2>2, <2>5 DEF PipeInv, PipeTypes, Counted
  <2>7. Fetched'  BY <2>1, <2>2 DEF PipeInv, Fetched, consumer
  <2> QED  BY <2>3, <2>4, <2>6, <2>7 DEF PipeInv
<1>4. CASE OutputInline
  BY <1>4, HookGoes DEF OutputInline, HookGoto, barrier, history
<1>5. CASE Push  BY <1>5, PushStep
<1>6. CASE PushFull
  <2>1. outRing \in Seq(Item) /\ InRing \in Nat /\ InRing' = InRing
    BY <1>6, RingCount, RingSame DEF PushFull, PipeInv, PipeTypes
  <2>2. /\ UNCHANGED <<outRing, hid, wake, consumer, arrivals, quiesced>>
        /\ hpc = "push" /\ hpc' = "rolled"
        /\ pending' = IF pending < 1 THEN 0 ELSE pending - 1
    BY <1>6 DEF PushFull, HookGoto, ReleaseClamped, history
  <2>3. PipeTypes'  BY <2>1, <2>2 DEF PipeInv, PipeTypes, consumer
  <2>4. InHand'  BY <2>2 DEF PipeInv, InHand, consumer
  <2>5. Work = Work' + 1 /\ Work' \in Nat
    <3>1. Pushing = 1 /\ Pushing' = 0  BY <2>2 DEF Pushing, If1
    <3>2. UNCHANGED <<InRing, Deferring, Batched, owed>>
      BY <2>1, <2>2 DEF Deferring, Batched, consumer
    <3>3. PipeTypes  BY DEF PipeInv
    <3>4. Pushing + InRing + Deferring + owed + Batched \in Nat
      BY <3>3, PartsNat
    <3> QED  BY <3>1, <3>2, <3>3, <3>4, PartsNat DEF Work
  <2>6. Counted'  BY <2>2, <2>5, Clamped DEF PipeInv, PipeTypes, Counted
  <2>7. Fetched'  BY <2>1, <2>2 DEF PipeInv, Fetched, consumer
  <2> QED  BY <2>3, <2>4, <2>6, <2>7 DEF PipeInv
<1>7. CASE RollbackNotify \/ EmitInline \/ Enqueue
  BY <1>7, HookGoes DEF RollbackNotify, EmitInline, Enqueue, HookGoto, barrier, history
<1>8. CASE CheckDrained \/ CheckSleep \/ Awake \/ SleepEnds \/ GiveUp
  BY <1>8, HookGoes
  DEF CheckDrained, CheckSleep, Awake, SleepEnds, GiveUp, HookGoto, barrier, history
<1>9. CASE AskResync  BY <1>9, HookAsks DEF AskResync, HookGoto, barrier, history
<1>10. CASE Deliver  BY <1>10, HookGoes DEF Deliver, HookGoto, barrier, history
<1> QED  BY <1>1, <1>2, <1>3, <1>4, <1>5, <1>6, <1>7, <1>8, <1>9, <1>10 DEF HookStep

(***************************************************************************)
(* The steps of the consumer.                                              *)
(***************************************************************************)
\* What the consumer leaves alone, and what follows from it.
ConsumerKeeps == UNCHANGED <<hpc, hid, hkind, arrivals, quiesced>>

LEMMA ConsumerKept ==
  ASSUME PipeInv, ConsumerKeeps, outRing' \in Seq(Item), batch' \in Seq(Nat),
         InHand', Fetched', Work' \in Nat,
         \/ UNCHANGED pending /\ Work' = Work /\ owed' \in Nat
         \/ /\ pending' = IF pending < owed THEN 0 ELSE pending - owed
            /\ owed' = 0 /\ Work = Work' + owed
  PROVE  PipeInv'
<1>1. CASE UNCHANGED pending /\ Work' = Work /\ owed' \in Nat
  <2>1. PipeTypes'  BY <1>1 DEF PipeInv, PipeTypes, ConsumerKeeps
  <2>2. Counted'  BY <1>1 DEF PipeInv, Counted, ConsumerKeeps
  <2> QED  BY <2>1, <2>2 DEF PipeInv
<1>2. CASE /\ pending' = IF pending < owed THEN 0 ELSE pending - owed
           /\ owed' = 0 /\ Work = Work' + owed
  <2>1. pending \in Nat /\ owed \in Nat  BY DEF PipeInv, PipeTypes
  <2>2. /\ pending' \in Nat
        /\ pending <= Work => pending' <= Work'
        /\ pending = Work => pending' = Work'
    BY <1>2, <2>1, Clamped
  <2>3. PipeTypes'  BY <1>2, <2>2 DEF PipeInv, PipeTypes, ConsumerKeeps
  <2>4. Counted'  BY <2>2 DEF PipeInv, Counted, ConsumerKeeps
  <2> QED  BY <2>3, <2>4 DEF PipeInv
<1> QED  BY <1>1, <1>2

LEMMA StartDrainPipe == ASSUME PipeInv, StartDrain PROVE PipeInv'
<1>1. /\ ConsumerKeeps /\ UNCHANGED <<outRing, pending, cret, batch, item, owed>>
      /\ cpc = "idle" /\ cpc' = "pop"
  BY DEF StartDrain, ConsumerKeeps, hook, barrier, history
<1>2. InRing' = InRing  BY <1>1, RingSame
<1>3. PipeTypes /\ outRing' \in Seq(Item) /\ batch' \in Seq(Nat) /\ owed' \in Nat
  BY <1>1 DEF PipeInv, PipeTypes
<1>4. InHand'  BY <1>1 DEF PipeInv, InHand, ConsumerKeeps, Commits
<1>5. Fetched'  BY <1>1 DEF PipeInv, Fetched
<1>6. Work' = Work
  BY <1>1, <1>2 DEF Work, Pushing, Deferring, Batched, ConsumerKeeps
<1> QED  BY <1>1, <1>3, <1>4, <1>5, <1>6, PartsNat, ConsumerKept

LEMMA PopNothingPipe == ASSUME PipeInv, PopNothing PROVE PipeInv'
<1>1. /\ ConsumerKeeps /\ UNCHANGED <<outRing, pending, batch, item, owed>>
      /\ cpc = "pop" /\ cret' = "idle" /\ outRing = <<>>
      /\ cpc' = IF batch = <<>> THEN "idle" ELSE "commit"
  BY DEF PopNothing, ConsumerKeeps, hook, barrier, history
<1>2. PipeTypes /\ outRing' \in Seq(Item) /\ batch' \in Seq(Nat) /\ owed' \in Nat
  BY <1>1 DEF PipeInv, PipeTypes
<1>3. InRing' = InRing /\ InRing = 0
  BY <1>1, <1>2, RingSame, RingCount DEF PipeTypes
<1>4. InHand'  BY <1>1 DEF PipeInv, InHand, ConsumerKeeps, Commits, Returns
<1>5. Fetched'  BY <1>1, <1>3 DEF PipeInv, Fetched
<1>6. Work' = Work
  BY <1>1, <1>3 DEF Work, Pushing, Deferring, Batched, ConsumerKeeps
<1> QED  BY <1>1, <1>2, <1>4, <1>5, <1>6, PartsNat, ConsumerKept

LEMMA PopEditPipe == ASSUME PipeInv, PopEdit PROVE PipeInv'
<1>1. /\ ConsumerKeeps /\ UNCHANGED <<pending, item, owed>>
      /\ outRing # <<>> /\ outRing' = Tail(outRing) /\ Head(outRing).kind = "Edit"
      /\ batch' = Append(batch, Head(outRing).id)
      /\ cpc = "pop" /\ cpc' \in {"commit", "pop"} /\ cret' = "pop"
  BY DEF PopEdit, ConsumerKeeps, hook, barrier, history
<1>2. PipeTypes /\ outRing \in Seq(Item) /\ batch \in Seq(Nat)
  BY DEF PipeInv, PipeTypes
<1>3. outRing' \in Seq(Item) /\ Head(outRing) \in Item
  BY <1>1, <1>2, RingPop
<1>4. Head(outRing) \in EditItems /\ Head(outRing).id \in Nat
  BY <1>1, <1>3 DEF Item, EditItems, EditKinds
<1>5. InRing = InRing' + 1 /\ InRing' \in Nat
  BY <1>1, <1>2, <1>4, RingPop DEF If1
<1>6. batch' \in Seq(Nat) /\ Len(batch') = Len(batch) + 1 /\ Len(batch) \in Nat
  BY <1>1, <1>2, <1>4
<1>7. InHand'  BY <1>1 DEF PipeInv, InHand, ConsumerKeeps, Commits, Returns
<1>8. Fetched'  BY <1>1 DEF Fetched, Commits
<1>9. Work' = Work
  <2>1. UNCHANGED <<Pushing, Deferring, owed>>
    BY <1>1 DEF Pushing, Deferring, ConsumerKeeps
  <2>2. Batched' = Batched + 1  BY <1>1, <1>6 DEF Batched
  <2>3. Pushing \in Nat /\ Deferring \in Nat /\ owed \in Nat /\ Batched \in Nat
    BY <1>2, PartsNat
  <2> QED  BY <1>5, <2>1, <2>2, <2>3 DEF Work
<1>10. owed' \in Nat /\ Work' \in Nat  BY <1>1, <1>2, <1>9, PartsNat
<1> QED  BY <1>1, <1>3, <1>6, <1>7, <1>8, <1>9, <1>10, ConsumerKept

LEMMA PopEditOomPipe == ASSUME PipeInv, PopEditOom PROVE PipeInv'
<1>1. /\ ConsumerKeeps /\ UNCHANGED <<pending, batch>>
      /\ outRing # <<>> /\ outRing' = Tail(outRing) /\ Head(outRing).kind = "Edit"
      /\ item' = Head(outRing) /\ owed' = 1
      /\ cpc = "pop" /\ cpc' = "release" /\ cret' = "send"
  BY DEF PopEditOom, ConsumerKeeps, hook, barrier, history
<1>2. PipeTypes /\ outRing \in Seq(Item) /\ batch' \in Seq(Nat)
  BY <1>1 DEF PipeInv, PipeTypes
<1>3. outRing' \in Seq(Item) /\ Head(outRing) \in Item
  BY <1>1, <1>2, RingPop
<1>4. Head(outRing) \in EditItems
  BY <1>1, <1>3 DEF EditItems, EditKinds
<1>5. InRing = InRing' + 1 /\ InRing' \in Nat
  BY <1>1, <1>2, <1>4, RingPop DEF If1
<1>6. InHand'  BY <1>1 DEF PipeInv, InHand, ConsumerKeeps, Commits, Returns
<1>7. Fetched'  BY <1>1 DEF Fetched, Commits
<1>8. Work' = Work
  <2>1. owed = 0 /\ item.kind # "InlineEdit"
    BY <1>1 DEF PipeInv, InHand, Commits
  <2>2. UNCHANGED <<Pushing, Deferring, Batched>>
    BY <1>1, <2>1 DEF Pushing, Deferring, Batched, If1, ConsumerKeeps
  <2> QED  BY <1>1, <1>2, <1>5, <2>1, <2>2, PartsNat DEF Work
<1>9. Work' \in Nat  BY <1>2, <1>8, PartsNat
<1> QED  BY <1>1, <1>2, <1>3, <1>6, <1>7, <1>8, <1>9, ConsumerKept

LEMMA PopOtherPipe == ASSUME PipeInv, PopOther PROVE PipeInv'
<1>1. /\ ConsumerKeeps /\ UNCHANGED <<pending, batch, owed>>
      /\ outRing # <<>> /\ outRing' = Tail(outRing) /\ Head(outRing).kind # "Edit"
      /\ item' = Head(outRing)
      /\ cpc = "pop" /\ cpc' = IF batch = <<>> THEN cret' ELSE "commit"
  BY DEF PopOther, ConsumerKeeps, hook, barrier, history
<1>2. PipeTypes /\ outRing \in Seq(Item) /\ batch' \in Seq(Nat) /\ owed' \in Nat
  BY <1>1 DEF PipeInv, PipeTypes
<1>3. outRing' \in Seq(Item) /\ Head(outRing) \in Item
  BY <1>1, <1>2, RingPop
<1>4. Head(outRing).kind \in {"InlineEdit", "ForegroundChanged", "Resync"}
  BY <1>1, <1>3 DEF Item, EditKinds
<1>5. /\ cret' \in {"inline", "resync", "refocus"}
      /\ cret' = "inline" <=> item'.kind = "InlineEdit"
  <2>1. CASE Head(outRing).kind = "InlineEdit"  BY <1>1, <2>1 DEF PopOther
  <2>2. CASE Head(outRing).kind = "ForegroundChanged"  BY <1>1, <2>2 DEF PopOther
  <2>3. CASE Head(outRing).kind = "Resync"  BY <1>1, <2>3 DEF PopOther
  <2> QED  BY <1>4, <2>1, <2>2, <2>3
<1>6. InHand'  BY <1>1, <1>5 DEF PipeInv, InHand, ConsumerKeeps, Commits, Returns
<1>7. Fetched'  BY <1>1, <1>5 DEF Fetched, Commits
<1>8. Work' = Work
  <2>1. item.kind # "InlineEdit"  BY <1>1 DEF PipeInv, InHand, Commits
  <2>2. UNCHANGED <<Pushing, Batched, owed>>
    BY <1>1, <1>5 DEF Pushing, Batched, ConsumerKeeps
  <2>3. InRing + Deferring = InRing' + Deferring' /\ InRing' \in Nat /\ Deferring' \in Nat
    <3>1. Deferring = 0  BY <2>1 DEF Deferring, If1
    <3>2. CASE Head(outRing).kind = "InlineEdit"
      <4>1. If1(Head(outRing) \in EditItems) = 1
        BY <1>3, <3>2 DEF EditItems, EditKinds, If1
      <4>2. Deferring' = 1  BY <1>1, <3>2 DEF Deferring, If1
      <4>3. InRing' \in Nat /\ InRing = InRing' + 1
        BY <1>1, <1>2, <4>1, RingPop
      <4> QED  BY <3>1, <4>2, <4>3
    <3>3. CASE Head(outRing).kind # "InlineEdit"
      <4>1. If1(Head(outRing) \in EditItems) = 0
        BY <1>1, <3>3 DEF EditItems, EditKinds, If1
      <4>2. Deferring' = 0  BY <1>1, <3>3 DEF Deferring, If1
      <4>3. InRing' \in Nat /\ InRing = InRing' + 0
        BY <1>1, <1>2, <4>1, RingPop
      <4> QED  BY <3>1, <4>2, <4>3
    <3> QED  BY <3>2, <3>3
  <2> QED  BY <1>2, <2>2, <2>3, PartsNat DEF Work
<1>9. Work' \in Nat  BY <1>2, <1>8, PartsNat
<1> QED  BY <1>1, <1>2, <1>3, <1>6, <1>7, <1>8, <1>9, ConsumerKept

LEMMA CommitPipe == ASSUME PipeInv, NEW n \in 0 .. BatchCap, Commit(n) PROVE PipeInv'
<1>1. /\ ConsumerKeeps /\ UNCHANGED <<outRing, pending, item, cret>>
      /\ n \in 0 .. Len(batch) /\ batch' = SubSeq(batch, n + 1, Len(batch))
      /\ owed' = Len(batch)
      /\ cpc = "commit" /\ cpc' = IF n = Len(batch) THEN "release" ELSE "suffix"
  <2>1. Len(batch) \in Nat  BY DEF PipeInv, PipeTypes
  <2> QED  BY <2>1 DEF Commit, ConsumerKeeps, hook, barrier, history
<1>2. PipeTypes /\ outRing' \in Seq(Item) /\ batch \in Seq(Nat) /\ Len(batch) \in Nat
  BY <1>1 DEF PipeInv, PipeTypes
<1>3. batch' \in Seq(Nat) /\ owed' \in Nat /\ (n = Len(batch) => batch' = <<>>)
  BY <1>1, <1>2
<1>4. InRing' = InRing  BY <1>1, RingSame
<1>5. InHand'  BY <1>1 DEF PipeInv, InHand, ConsumerKeeps, Commits
<1>6. Fetched'  BY <1>1, <1>3, <1>4 DEF PipeInv, InHand, Fetched, Commits, ConsumerKeeps,
                                        Commit
<1>7. Work' = Work
  <2>1. owed = 0  BY <1>1 DEF PipeInv, InHand
  <2>2. UNCHANGED <<Pushing, Deferring>>
    BY <1>1 DEF Pushing, Deferring, ConsumerKeeps
  <2>3. Batched = Len(batch) /\ Batched' = 0
    <3>1. CASE n = Len(batch)
      <4>1. Len(batch') = 0  BY <1>3, <3>1
      <4> QED  BY <1>1, <3>1, <4>1 DEF Batched
    <3>2. CASE n # Len(batch)  BY <1>1, <3>2 DEF Batched
    <3> QED  BY <3>1, <3>2
  <2>4. Pushing \in Nat /\ InRing \in Nat /\ Deferring \in Nat
    BY <1>2, PartsNat
  <2> QED  BY <1>1, <1>2, <1>4, <2>1, <2>2, <2>3, <2>4 DEF Work
<1>8. Work' \in Nat  BY <1>2, <1>7, PartsNat
<1> QED  BY <1>1, <1>2, <1>3, <1>5, <1>6, <1>7, <1>8, ConsumerKept

LEMMA SendSuffixPipe == ASSUME PipeInv, SendSuffix PROVE PipeInv'
<1>1. /\ ConsumerKeeps /\ UNCHANGED <<outRing, wake, pending, item, owed, cret>>
      /\ batch # <<>> /\ batch' = Tail(batch)
      /\ cpc = "suffix" /\ cpc' = IF Len(batch) = 1 THEN "release" ELSE "suffix"
  BY DEF SendSuffix, ConsumerKeeps, hook, barrier, history
<1>2. /\ PipeTypes /\ outRing' \in Seq(Item) /\ batch \in Seq(Nat) /\ Len(batch) \in Nat
      /\ owed' \in Nat
  BY <1>1 DEF PipeInv, PipeTypes
<1>3. batch' \in Seq(Nat) /\ (Len(batch) = 1 => batch' = <<>> /\ Len(batch') = 0)
  BY <1>1, <1>2
<1>4. InRing' = InRing  BY <1>1, RingSame
<1>5. InHand'  BY <1>1 DEF PipeInv, InHand, ConsumerKeeps, Commits
<1>6. Fetched'  BY <1>1, <1>3, <1>4 DEF PipeInv, Fetched, Commits, ConsumerKeeps
<1>7. Work' = Work
  <2>1. UNCHANGED <<Pushing, Deferring, Batched>>
    BY <1>1, <1>3 DEF Pushing, Deferring, Batched, ConsumerKeeps
  <2> QED  BY <1>1, <1>4, <2>1 DEF Work
<1>8. Work' \in Nat  BY <1>2, <1>7, PartsNat
<1> QED  BY <1>1, <1>2, <1>3, <1>5, <1>6, <1>7, <1>8, ConsumerKept

LEMMA ReleasePipe == ASSUME PipeInv, ConsumerRelease PROVE PipeInv'
<1>1. /\ ConsumerKeeps /\ UNCHANGED <<outRing, wake, batch, item, cret>>
      /\ pending' = IF pending < owed THEN 0 ELSE pending - owed
      /\ owed' = 0 /\ cpc = "release" /\ cpc' = "notify"
  BY DEF ConsumerRelease, ReleaseClamped, ConsumerKeeps, hook, history
<1>2. PipeTypes /\ outRing' \in Seq(Item) /\ batch' \in Seq(Nat)
  BY <1>1 DEF PipeInv, PipeTypes
<1>3. InRing' = InRing  BY <1>1, RingSame
<1>4. InHand'  BY <1>1 DEF PipeInv, InHand, ConsumerKeeps, Commits
<1>5. Fetched'  BY <1>1, <1>3 DEF PipeInv, Fetched, Commits, ConsumerKeeps
<1>6. Work = Work' + owed /\ Work' \in Nat
  <2>1. UNCHANGED <<Pushing, Deferring, Batched>>
    BY <1>1 DEF Pushing, Deferring, Batched, ConsumerKeeps
  <2>2. /\ Pushing \in Nat /\ InRing \in Nat /\ Deferring \in Nat /\ owed \in Nat
        /\ Batched \in Nat
    BY <1>2, PartsNat
  <2> QED  BY <1>1, <1>3, <2>1, <2>2 DEF Work
<1> QED  BY <1>1, <1>2, <1>4, <1>5, <1>6, ConsumerKept

LEMMA NotifyPipe == ASSUME PipeInv, ConsumerNotify PROVE PipeInv'
<1>1. /\ ConsumerKeeps /\ UNCHANGED <<outRing, wake, pending, batch, item, owed, cret>>
      /\ cpc = "notify" /\ cpc' = cret /\ cret \in Returns
  BY DEF ConsumerNotify, ConsumerKeeps, hook, history, PipeInv, InHand
<1>2. /\ PipeTypes /\ outRing' \in Seq(Item) /\ batch' \in Seq(Nat) /\ owed' \in Nat
  BY <1>1 DEF PipeInv, PipeTypes
<1>3. InRing' = InRing  BY <1>1, RingSame
<1>4. InHand'  BY <1>1 DEF PipeInv, InHand, ConsumerKeeps, Commits, Returns
<1>5. Fetched'  BY <1>1, <1>3 DEF PipeInv, Fetched, Commits, ConsumerKeeps, Returns
<1>6. Work' = Work
  BY <1>1, <1>3 DEF Work, Pushing, Deferring, Batched, ConsumerKeeps, Returns
<1>7. Work' \in Nat  BY <1>2, <1>6, PartsNat
<1> QED  BY <1>1, <1>2, <1>4, <1>5, <1>6, <1>7, ConsumerKept

LEMMA SendDeferredPipe == ASSUME PipeInv, SendDeferred PROVE PipeInv'
<1>1. /\ ConsumerKeeps /\ UNCHANGED <<outRing, wake, pending, batch>>
      /\ item'.kind = "None" /\ owed' = 1
      /\ cpc = "inline" /\ cpc' = "release" /\ cret' = "pop"
  BY DEF SendDeferred, ConsumerKeeps, hook, barrier, history, NoItem
<1>2. PipeTypes /\ outRing' \in Seq(Item) /\ batch' \in Seq(Nat)
  BY <1>1 DEF PipeInv, PipeTypes
<1>3. InRing' = InRing  BY <1>1, RingSame
<1>4. InHand'  BY <1>1 DEF PipeInv, InHand, ConsumerKeeps, Commits, Returns
<1>5. Fetched'  BY <1>1 DEF PipeInv, Fetched, Commits, ConsumerKeeps
<1>6. Work' = Work
  <2>1. owed = 0 /\ item.kind = "InlineEdit"  BY <1>1 DEF PipeInv, InHand
  <2>2. Deferring = 1 /\ Deferring' = 0  BY <1>1, <2>1 DEF Deferring, If1
  <2>3. UNCHANGED <<Pushing, Batched>>  BY <1>1 DEF Pushing, Batched, ConsumerKeeps
  <2>4. Pushing \in Nat /\ InRing \in Nat /\ Batched \in Nat
    BY <1>2, PartsNat
  <2> QED  BY <1>1, <1>3, <2>1, <2>2, <2>3, <2>4 DEF Work
<1>7. owed' \in Nat /\ Work' \in Nat  BY <1>1, <1>2, <1>6, PartsNat
<1> QED  BY <1>1, <1>2, <1>4, <1>5, <1>6, <1>7, ConsumerKept

\* A direct send and the items that are no edits: the consumer goes on.
LEMMA GoOnPipe == ASSUME PipeInv, SendDirect \/ Refocus PROVE PipeInv'
<1>1. /\ ConsumerKeeps /\ UNCHANGED <<outRing, wake, pending, batch, owed, cret>>
      /\ item'.kind = "None"
      /\ cpc \in {"send", "refocus", "resync"} /\ cpc' = "pop"
  BY DEF SendDirect, Refocus, ConsumerKeeps, hook, barrier, history, NoItem
<1>2. PipeTypes /\ outRing' \in Seq(Item) /\ batch' \in Seq(Nat) /\ owed' \in Nat
  BY <1>1 DEF PipeInv, PipeTypes
<1>3. InRing' = InRing  BY <1>1, RingSame
<1>4. item.kind # "InlineEdit"  BY <1>1 DEF PipeInv, InHand, Commits
<1>5. InHand'  BY <1>1 DEF PipeInv, InHand, ConsumerKeeps, Commits
<1>6. Fetched'  BY <1>1 DEF Fetched
<1>7. Work' = Work
  BY <1>1, <1>3, <1>4 DEF Work, Pushing, Deferring, Batched, If1, ConsumerKeeps
<1>8. Work' \in Nat  BY <1>2, <1>7, PartsNat
<1> QED  BY <1>1, <1>2, <1>5, <1>6, <1>7, <1>8, ConsumerKept

LEMMA ConsumerStepPipe == ASSUME PipeInv, ConsumerStep PROVE PipeInv'
<1>1. CASE StartDrain  BY <1>1, StartDrainPipe
<1>2. CASE PopNothing  BY <1>2, PopNothingPipe
<1>3. CASE PopEdit  BY <1>3, PopEditPipe
<1>4. CASE PopEditOom  BY <1>4, PopEditOomPipe
<1>5. CASE PopOther  BY <1>5, PopOtherPipe
<1>6. ASSUME NEW n \in 0 .. BatchCap, Commit(n) PROVE PipeInv'  BY <1>6, CommitPipe
<1>7. CASE SendSuffix  BY <1>7, SendSuffixPipe
<1>8. CASE SendDeferred  BY <1>8, SendDeferredPipe
<1>9. CASE SendDirect \/ Refocus  BY <1>9, GoOnPipe
<1>10. CASE ConsumerRelease  BY <1>10, ReleasePipe
<1>11. CASE ConsumerNotify  BY <1>11, NotifyPipe
<1> QED  BY <1>1, <1>2, <1>3, <1>4, <1>5, <1>6, <1>7, <1>8, <1>9, <1>10, <1>11
         DEF ConsumerStep

(***************************************************************************)
(* The steps of the UI thread, and the theorems.                           *)
(***************************************************************************)
LEMMA Untouched ==
  ASSUME PipeInv, UNCHANGED <<hook, outRing, wake, consumer, arrivals>>,
         \/ UNCHANGED <<pending, quiesced>>
         \/ pending' = 0 /\ quiesced'
  PROVE  PipeInv'
<1>1. UNCHANGED <<hpc, hid, hkind, cpc, cret, batch, item, owed>>
  BY DEF hook, consumer
<1>2. InRing' = InRing  BY RingSame
<1>3. Work' = Work  BY <1>1, <1>2 DEF Work, Pushing, Deferring, Batched
<1>4. PipeTypes'  BY <1>1 DEF PipeInv, PipeTypes
<1>5. InHand'  BY <1>1 DEF PipeInv, InHand
<1>6. Work \in Nat  BY PartsNat DEF PipeInv
<1>7. Counted'  BY <1>3, <1>6 DEF PipeInv, Counted
<1>8. Fetched'  BY <1>1, <1>2 DEF PipeInv, Fetched
<1> QED  BY <1>4, <1>5, <1>7, <1>8 DEF PipeInv

LEMMA StepPipe == PipeInv /\ [Next]_vars => PipeInv'
<1> SUFFICES ASSUME PipeInv, [Next]_vars PROVE PipeInv'
  OBVIOUS
<1>1. ASSUME NEW k \in Kinds, Arrive(k) PROVE PipeInv'  BY <1>1, ArriveStep
<1>2. CASE HookStep  BY <1>2, HookStepPipe
<1>3. CASE ConsumerStep  BY <1>3, ConsumerStepPipe
<1>4. CASE BeginOff \/ TurnOn \/ BeginResume \/ Policy
  BY <1>4, Untouched DEF BeginOff, TurnOn, BeginResume, Policy, barrier, history
<1>5. CASE UiDrain
  BY <1>5, Untouched
  DEF UiDrain, StoreOff, DrainDone, DrainWait, DrainAwake, DrainEnds, DrainAgain,
      ForceQuiesce, QuiesceNotify, barrier, history
<1>6. CASE UNCHANGED vars
  BY <1>6, Untouched DEF vars, hook, consumer, barrier, history
<1> QED  BY <1>1, <1>2, <1>3, <1>4, <1>5, <1>6 DEF Next

\* The invariant holds of every reachable state, for every size of the ring
\* and of the batch and every choice of faults and transitions.
THEOREM PipelineInvariant == Spec => []PipeInv
BY InitPipe, StepPipe, PTL DEF Spec

LEMMA WorkIsOutstanding == ASSUME PipeTypes PROVE Work = Outstanding
<1>1. (IF cpc = "suffix" THEN 0 ELSE Len(batch)) = Batched  BY DEF Batched
<1> QED  BY <1>1 DEF Work, Outstanding, Pushing, Deferring, InRing

(* The pending count of the barrier is exactly the edits still to be       *)
(* applied until a lifecycle transition clears it, and never more than     *)
(* them afterwards (PendingEditCounter and its clamped releases).          *)
THEOREM CountIsExact == Spec => []CountIsWork
<1>1. PipeInv => CountIsWork
  BY WorkIsOutstanding DEF PipeInv, Counted, CountIsWork
<1> QED  BY <1>1, PipelineInvariant, PTL

LEMMA RestIsEmpty == PipeInv => NothingStranded
<1> SUFFICES ASSUME PipeInv, AtRest PROVE pending = 0 /\ RingEdits = {} /\ batch = <<>>
  BY DEF NothingStranded
<1>1. PipeTypes /\ hpc = "idle" /\ cpc = "idle" /\ ~wake
  BY DEF PipeInv, AtRest
<1>2. batch = <<>> /\ InRing = 0
  BY <1>1 DEF PipeInv, Fetched, Commits
<1>3. RingEdits = {}
  BY <1>1, <1>2, RingCount DEF PipeTypes
<1>4. Work = 0
  <2>1. owed = 0 /\ item.kind # "InlineEdit"  BY <1>1 DEF PipeInv, InHand, Commits
  <2>2. Pushing = 0 /\ Deferring = 0 /\ Batched = 0
    BY <1>1, <1>2, <2>1 DEF Pushing, Deferring, Batched, If1
  <2> QED  BY <1>2, <2>1, <2>2 DEF Work
<1>5. pending = 0
  BY <1>1, <1>4 DEF PipeInv, PipeTypes, Counted
<1> QED  BY <1>2, <1>3, <1>5

(* Whenever the hook and the consumer have nothing left to do, no edit is  *)
(* in the ring or in the batch and the barrier lets the next key through.  *)
THEOREM NobodyStrands == Spec => []NothingStranded
BY RestIsEmpty, PipelineInvariant, PTL

(***************************************************************************)
(* Where an edit may be.  Hands: the places of the hook's program where it *)
(* holds an edit; Asking: those where its event is none, or not yet one.   *)
(***************************************************************************)
Hands == {"output", "push", "rolled", "emit"}
Asking == {"focus", "decide", "check", "sleep", "last", "deliver"}

EditsOf(e) == {x \in Item : x.kind \in EditKinds /\ x.id = e}

OnScreen(e) == Cardinality(Occ({e}, doc))
InBatch(e) == Cardinality(Occ({e}, batch))
Queued(e) == Cardinality(Occ(EditsOf(e), outRing))
WithConsumer(e) == If1(item.id = e /\ item.kind \in EditKinds)
WithHook(e) == If1(hid = e /\ hpc \in Hands)
Places(e) == OnScreen(e) + InBatch(e) + Queued(e) + WithConsumer(e) + WithHook(e)
OnePlace == \A e \in edits : Places(e) = 1

\* Numbers are given in the order of arrival.
Numbered ==
  /\ doc \in Seq(Nat) /\ edits \in SUBSET Nat
  /\ hid <= arrivals
  /\ \A e \in edits : e <= arrivals
  /\ \A i \in DOMAIN doc : doc[i] <= arrivals

\* Whatever holds an edit holds one the engine decided on.
HeldAreEdits ==
  /\ \A i \in DOMAIN batch : batch[i] \in edits
  /\ \A i \in DOMAIN outRing : outRing[i].kind \in EditKinds => outRing[i].id \in edits
  /\ item.kind \in EditKinds => item.id \in edits
  /\ hpc \in Hands => hid \in edits

\* The hook sends to the application itself only what is no edit.
Undecided ==
  /\ hpc \in Asking => hid \notin edits
  /\ hpc = "decide" => \A i \in DOMAIN doc : doc[i] # hid
  /\ hpc = "enqueue" /\ hkind = "click" => hid \notin edits
  /\ hpc = "focus" => hkind = "focus"

\* An edit that did not fit into the batch stays in hand until it is sent.
InHandDirect ==
  /\ item.kind = "Edit" <=> cpc = "send" \/ (cpc \in Commits /\ cret = "send")
  /\ cpc \in {"commit", "suffix"} => cret # "send"

PlaceInv == Numbered /\ HeldAreEdits /\ Undecided /\ InHandDirect /\ OnePlace

LEMMA PlacesNat ==
  ASSUME PipeTypes, Numbered, NEW e
  PROVE  /\ OnScreen(e) \in Nat /\ InBatch(e) \in Nat /\ Queued(e) \in Nat
         /\ WithConsumer(e) \in Nat /\ WithHook(e) \in Nat
<1>1. OnScreen(e) \in Nat  BY OccFinite DEF Numbered, OnScreen
<1>2. InBatch(e) \in Nat  BY OccFinite DEF PipeTypes, InBatch
<1>3. Queued(e) \in Nat  BY OccFinite DEF PipeTypes, Queued
<1>4. WithConsumer(e) \in Nat /\ WithHook(e) \in Nat  BY DEF WithConsumer, WithHook, If1
<1> QED  BY <1>1, <1>2, <1>3, <1>4

\* What holds an edit holds one of edits: elsewhere there is none.
LEMMA NoneAstray ==
  ASSUME PipeTypes, HeldAreEdits, NEW e, e \notin edits
  PROVE  InBatch(e) = 0 /\ Queued(e) = 0 /\ WithConsumer(e) = 0 /\ WithHook(e) = 0
<1>1. Occ({e}, batch) = {}  BY DEF HeldAreEdits, Occ
<1>2. Occ(EditsOf(e), outRing) = {}  BY DEF HeldAreEdits, Occ, EditsOf
<1>3. InBatch(e) = 0 /\ Queued(e) = 0
  BY <1>1, <1>2, FS_EmptySet DEF InBatch, Queued
<1>4. WithConsumer(e) = 0 /\ WithHook(e) = 0
  BY DEF HeldAreEdits, WithConsumer, WithHook, If1
<1> QED  BY <1>3, <1>4

LEMMA InitPlace == Init => PlaceInv
<1> SUFFICES ASSUME Init PROVE PlaceInv
  OBVIOUS
<1>1. Numbered /\ HeldAreEdits /\ Undecided /\ OnePlace
  BY DEF Init, Numbered, HeldAreEdits, Undecided, OnePlace, NoItem, EditKinds, Hands, Asking
<1>2. InHandDirect
  BY DEF Init, InHandDirect, NoItem, Commits
<1> QED  BY <1>1, <1>2 DEF PlaceInv

(***************************************************************************)
(* The steps of the hook thread.                                           *)
(***************************************************************************)
\* Steps that move no event at all.
LEMMA PlaceMoves ==
  ASSUME PlaceInv, Undecided', hpc \in Hands <=> hpc' \in Hands,
         UNCHANGED <<hid, outRing, consumer, doc, arrivals, edits>>
  PROVE  PlaceInv'
<1>1. Numbered' /\ HeldAreEdits'
  BY DEF PlaceInv, Numbered, HeldAreEdits, consumer
<1>2. InHandDirect'
  BY DEF PlaceInv, InHandDirect, consumer
<1>3. ASSUME NEW e \in edits' PROVE Places(e)' = 1
  <2>1. UNCHANGED <<OnScreen(e), InBatch(e), Queued(e), WithConsumer(e), WithHook(e)>>
    BY DEF OnScreen, InBatch, Queued, WithConsumer, WithHook, If1, consumer
  <2> QED  BY <2>1 DEF PlaceInv, OnePlace, Places
<1> QED  BY <1>1, <1>2, <1>3 DEF PlaceInv, OnePlace

LEMMA ArrivePlace == ASSUME PipeInv, PlaceInv, NEW k \in Kinds, Arrive(k) PROVE PlaceInv'
<1>1. /\ UNCHANGED <<outRing, consumer, doc, edits>>
      /\ arrivals' = arrivals + 1 /\ hid' = arrivals + 1 /\ hkind' = k
      /\ hpc = "idle" /\ hpc' \in {"deliver", "decide", "check", "focus"}
      /\ hpc' = "focus" => hkind' = "focus"
      /\ arrivals \in Nat
  BY PipelineAssumption DEF Arrive, PipeInv, PipeTypes
<1>2. Numbered'  BY <1>1 DEF PlaceInv, Numbered
<1>3. HeldAreEdits'  BY <1>1 DEF PlaceInv, HeldAreEdits, consumer, Hands
<1>4. Undecided'
  <2>1. hid' \notin edits'  BY <1>1 DEF PlaceInv, Numbered
  <2>2. \A i \in DOMAIN doc' : doc'[i] # hid'  BY <1>1 DEF PlaceInv, Numbered
  <2> QED  BY <1>1, <2>1, <2>2 DEF Undecided
<1>5. InHandDirect'  BY <1>1 DEF PlaceInv, InHandDirect, consumer
<1>6. ASSUME NEW e \in edits' PROVE Places(e)' = 1
  <2>1. UNCHANGED <<OnScreen(e), InBatch(e), Queued(e), WithConsumer(e)>>
    BY <1>1 DEF OnScreen, InBatch, Queued, WithConsumer, consumer
  <2>2. WithHook(e) = 0 /\ WithHook(e)' = 0
    BY <1>1 DEF WithHook, Hands, If1
  <2> QED  BY <1>1, <2>1, <2>2 DEF PlaceInv, OnePlace, Places
<1> QED  BY <1>2, <1>3, <1>4, <1>5, <1>6 DEF PlaceInv, OnePlace

\* The engine makes an edit of the event it looked at.
LEMMA DecidePlace == ASSUME PipeInv, PlaceInv, DecideEdit PROVE PlaceInv'
<1>1. /\ UNCHANGED <<hid, outRing, consumer, doc, arrivals>>
      /\ hpc = "decide" /\ hpc' = "output" /\ edits' = edits \cup {hid}
      /\ hid \notin edits /\ hid \in Nat
  BY DEF DecideEdit, HookGoto, PlaceInv, Undecided, Asking, PipeInv, PipeTypes
<1>2. Numbered'  BY <1>1 DEF PlaceInv, Numbered
<1>3. HeldAreEdits'  BY <1>1 DEF PlaceInv, HeldAreEdits, consumer
<1>4. Undecided'  BY <1>1 DEF Undecided, Asking
<1>5. InHandDirect'  BY <1>1 DEF PlaceInv, InHandDirect, consumer
<1>6. ASSUME NEW e \in edits' PROVE Places(e)' = 1
  <2>1. UNCHANGED <<OnScreen(e), InBatch(e), Queued(e), WithConsumer(e)>>
    BY <1>1 DEF OnScreen, InBatch, Queued, WithConsumer, consumer
  <2>2. WithHook(e) = 0 /\ WithHook(e)' = If1(hid = e)
    BY <1>1 DEF WithHook, Hands, If1
  <2>3. CASE e = hid
    <3>1. InBatch(e) = 0 /\ Queued(e) = 0 /\ WithConsumer(e) = 0
      BY <1>1, <2>3, NoneAstray DEF PipeInv, PlaceInv
    <3>2. Occ({e}, doc) = {}  BY <1>1, <2>3 DEF PlaceInv, Undecided, Occ
    <3>3. OnScreen(e) = 0  BY <3>2, FS_EmptySet DEF OnScreen
    <3>4. WithHook(e)' = 1  BY <2>2, <2>3 DEF If1
    <3> QED  BY <2>1, <3>1, <3>3, <3>4 DEF Places
  <2>4. CASE e # hid
    <3>1. WithHook(e)' = WithHook(e) /\ e \in edits  BY <1>1, <2>2, <2>4 DEF If1
    <3> QED  BY <2>1, <3>1 DEF PlaceInv, OnePlace, Places
  <2> QED  BY <2>3, <2>4
<1> QED  BY <1>2, <1>3, <1>4, <1>5, <1>6 DEF PlaceInv, OnePlace

\* What a push, a pop and a character on screen change.
LEMMA QueuedPush ==
  ASSUME outRing \in Seq(Item), NEW x \in Item, outRing' = Append(outRing, x), NEW e
  PROVE  Queued(e)' = Queued(e) + If1(x.kind \in EditKinds /\ x.id = e)
<1>1. If1(x \in EditsOf(e)) = If1(x.kind \in EditKinds /\ x.id = e)  BY DEF EditsOf, If1
<1>2. Cardinality(Occ(EditsOf(e), Append(outRing, x)))
        = Cardinality(Occ(EditsOf(e), outRing)) + If1(x \in EditsOf(e))
  BY OccAppend
<1> QED  BY <1>1, <1>2 DEF Queued

LEMMA QueuedPop ==
  ASSUME outRing \in Seq(Item), outRing # <<>>, outRing' = Tail(outRing), NEW e
  PROVE  /\ Queued(e)' \in Nat
         /\ Queued(e) = If1(Head(outRing).kind \in EditKinds /\ Head(outRing).id = e)
                         + Queued(e)'
<1>1. Head(outRing) \in Item /\ outRing' \in Seq(Item)  OBVIOUS
<1>2. If1(Head(outRing) \in EditsOf(e))
        = If1(Head(outRing).kind \in EditKinds /\ Head(outRing).id = e)
  BY <1>1 DEF EditsOf, If1
<1>3. Cardinality(Occ(EditsOf(e), outRing))
        = If1(Head(outRing) \in EditsOf(e)) + Cardinality(Occ(EditsOf(e), Tail(outRing)))
  BY OccTail
<1>4. Queued(e)' \in Nat  BY <1>1, OccFinite DEF Queued
<1> QED  BY <1>2, <1>3, <1>4 DEF Queued

LEMMA ScreenPush ==
  ASSUME doc \in Seq(Nat), NEW x \in Nat, doc' = Append(doc, x), NEW e
  PROVE  /\ doc' \in Seq(Nat)
         /\ OnScreen(e)' = OnScreen(e) + If1(x = e)
         /\ \A i \in DOMAIN doc' : doc'[i] = x \/ (i \in DOMAIN doc /\ doc'[i] = doc[i])
<1>1. If1(x \in {e}) = If1(x = e)  BY DEF If1
<1>2. Cardinality(Occ({e}, Append(doc, x)))
        = Cardinality(Occ({e}, doc)) + If1(x \in {e})
  BY OccAppend
<1> QED  BY <1>1, <1>2 DEF OnScreen

\* The application receives an event that is no edit.
LEMMA ReceivePlace ==
  ASSUME PipeInv, PlaceInv, hid \notin edits, hpc \notin Hands, hpc' = "idle",
         doc' = Append(doc, hid),
         UNCHANGED <<hid, outRing, consumer, arrivals, edits>>
  PROVE  PlaceInv'
<1>1. doc \in Seq(Nat) /\ hid \in Nat  BY DEF PipeInv, PipeTypes, PlaceInv, Numbered
<1>2. /\ doc' \in Seq(Nat)
      /\ \A i \in DOMAIN doc' : doc'[i] = hid \/ (i \in DOMAIN doc /\ doc'[i] = doc[i])
  BY <1>1, ScreenPush
<1>3. Numbered'  BY <1>2 DEF PlaceInv, Numbered
<1>4. HeldAreEdits' /\ Undecided'
  BY DEF PlaceInv, HeldAreEdits, Undecided, consumer, Hands, Asking
<1>5. InHandDirect'  BY DEF PlaceInv, InHandDirect, consumer
<1>6. ASSUME NEW e \in edits' PROVE Places(e)' = 1
  <2>1. UNCHANGED <<InBatch(e), Queued(e), WithConsumer(e)>>
    BY DEF InBatch, Queued, WithConsumer, consumer
  <2>2. WithHook(e) = 0 /\ WithHook(e)' = 0  BY DEF WithHook, Hands, If1
  <2>3. If1(hid = e) = 0  BY DEF If1
  <2>4. OnScreen(e)' = OnScreen(e)
    BY <1>1, <2>3, ScreenPush, PlacesNat DEF PipeInv, PlaceInv
  <2> QED  BY <2>1, <2>2, <2>4 DEF PlaceInv, OnePlace, Places
<1> QED  BY <1>3, <1>4, <1>5, <1>6 DEF PlaceInv, OnePlace

\* emitInline, from inside the callback.
LEMMA EmitPlace == ASSUME PipeInv, PlaceInv, EmitInline PROVE PlaceInv'
<1>1. /\ UNCHANGED <<hid, outRing, consumer, arrivals, edits>>
      /\ doc \in Seq(Nat) /\ hid \in Nat /\ doc' = Append(doc, hid)
      /\ hpc = "emit" /\ hpc' = "idle"
  BY DEF EmitInline, HookGoto, history, PipeInv, PipeTypes, PlaceInv, Numbered
<1>2. /\ doc' \in Seq(Nat)
      /\ \A i \in DOMAIN doc' : doc'[i] = hid \/ (i \in DOMAIN doc /\ doc'[i] = doc[i])
  BY <1>1, ScreenPush
<1>3. Numbered'  BY <1>1, <1>2 DEF PlaceInv, Numbered
<1>4. HeldAreEdits' /\ Undecided'
  BY <1>1 DEF PlaceInv, HeldAreEdits, Undecided, consumer, Hands, Asking
<1>5. InHandDirect'  BY <1>1 DEF PlaceInv, InHandDirect, consumer
<1>6. ASSUME NEW e \in edits' PROVE Places(e)' = 1
  <2>1. UNCHANGED <<InBatch(e), Queued(e), WithConsumer(e)>>
    BY <1>1 DEF InBatch, Queued, WithConsumer, consumer
  <2>2. WithHook(e) = If1(hid = e) /\ WithHook(e)' = 0
    BY <1>1 DEF WithHook, Hands, If1
  <2>3. OnScreen(e)' = OnScreen(e) + If1(hid = e)
    BY <1>1, ScreenPush
  <2>4. /\ OnScreen(e) \in Nat /\ InBatch(e) \in Nat /\ Queued(e) \in Nat
        /\ WithConsumer(e) \in Nat /\ If1(hid = e) \in Nat
    BY PlacesNat DEF PipeInv, PlaceInv, If1
  <2>5. Places(e)' = Places(e)  BY <2>1, <2>2, <2>3, <2>4 DEF Places
  <2> QED  BY <1>1, <2>5 DEF PlaceInv, OnePlace
<1> QED  BY <1>3, <1>4, <1>5, <1>6 DEF PlaceInv, OnePlace

\* An edit goes from the hook's hand into the ring.
LEMMA PushPlace == ASSUME PipeInv, PlaceInv, Push PROVE PlaceInv'
<1> DEFINE x == [kind |-> hkind, id |-> hid]
<1>1. /\ UNCHANGED <<hid, hkind, consumer, doc, arrivals, edits>>
      /\ outRing \in Seq(Item) /\ hid \in Nat
      /\ hpc = "push" /\ hpc' = "enqueue" /\ hkind \in EditKinds /\ hid \in edits
      /\ outRing' = Append(outRing, x)
  BY DEF Push, HookGoto, history, PipeInv, PipeTypes, InHand, PlaceInv, HeldAreEdits, Hands
<1>2. x \in Item /\ x.kind = hkind /\ x.id = hid  BY <1>1 DEF Item
<1>3. Numbered'  BY <1>1 DEF PlaceInv, Numbered
<1>4. HeldAreEdits'
  <2>1. \A i \in DOMAIN outRing' :
          outRing'[i] = x \/ (i \in DOMAIN outRing /\ outRing'[i] = outRing[i])
    <3> HIDE DEF x
    <3> QED  BY <1>1, <1>2
  <2> QED  BY <1>1, <1>2, <2>1 DEF PlaceInv, HeldAreEdits, consumer, Hands
<1>5. Undecided'  BY <1>1 DEF Undecided, Asking, EditKinds
<1>6. InHandDirect'  BY <1>1 DEF PlaceInv, InHandDirect, consumer
<1>7. ASSUME NEW e \in edits' PROVE Places(e)' = 1
  <2>1. UNCHANGED <<OnScreen(e), InBatch(e), WithConsumer(e)>>
    BY <1>1 DEF OnScreen, InBatch, WithConsumer, consumer
  <2>2. WithHook(e) = If1(hid = e) /\ WithHook(e)' = 0
    BY <1>1 DEF WithHook, Hands, If1
  <2>3. Queued(e)' = Queued(e) + If1(x.kind \in EditKinds /\ x.id = e)
    <3> HIDE DEF x
    <3> QED  BY <1>1, <1>2, QueuedPush
  <2>4. Queued(e)' = Queued(e) + If1(hid = e)  BY <1>1, <2>3 DEF If1
  <2>5. /\ OnScreen(e) \in Nat /\ InBatch(e) \in Nat /\ Queued(e) \in Nat
        /\ WithConsumer(e) \in Nat /\ If1(hid = e) \in Nat
    BY PlacesNat DEF PipeInv, PlaceInv, If1
  <2>6. Places(e)' = Places(e)  BY <2>1, <2>2, <2>4, <2>5 DEF Places
  <2> QED  BY <1>1, <2>6 DEF PlaceInv, OnePlace
<1> QED  BY <1>3, <1>4, <1>5, <1>6, <1>7 DEF PlaceInv, OnePlace

\* Steps that put something else than an edit into the ring.
LEMMA AskPlace ==
  ASSUME PipeInv, PlaceInv, Undecided', NEW kind \in {"ForegroundChanged", "Resync"},
         hpc \notin Hands, hpc' \notin Hands, hid' = hid,
         \/ outRing' = Append(outRing, [kind |-> kind, id |-> hid])
         \/ outRing' = outRing,
         UNCHANGED <<consumer, doc, arrivals, edits>>
  PROVE  PlaceInv'
<1> DEFINE x == [kind |-> kind, id |-> hid]
<1>1. outRing \in Seq(Item) /\ x \in Item /\ x.kind = kind /\ kind \notin EditKinds
  BY DEF PipeInv, PipeTypes, Item, EditKinds
<1>2. CASE outRing' = outRing
  BY <1>2, PlaceMoves
<1>3. CASE outRing' = Append(outRing, x)
  <2>1. Numbered'  BY DEF PlaceInv, Numbered
  <2>2. HeldAreEdits'
    <3>1. \A i \in DOMAIN outRing' :
            outRing'[i] = x \/ (i \in DOMAIN outRing /\ outRing'[i] = outRing[i])
      <4> HIDE DEF x
      <4> QED  BY <1>1, <1>3
    <3> QED  BY <1>1, <3>1 DEF PlaceInv, HeldAreEdits, consumer
  <2>3. InHandDirect'  BY DEF PlaceInv, InHandDirect, consumer
  <2>4. ASSUME NEW e \in edits' PROVE Places(e)' = 1
    <3>1. UNCHANGED <<OnScreen(e), InBatch(e), WithConsumer(e)>>
      BY DEF OnScreen, InBatch, WithConsumer, consumer
    <3>2. WithHook(e) = 0 /\ WithHook(e)' = 0  BY DEF WithHook, If1
    <3>3. Queued(e)' = Queued(e) + If1(x.kind \in EditKinds /\ x.id = e)
      <4> HIDE DEF x
      <4> QED  BY <1>1, <1>3, QueuedPush
    <3>4. Queued(e)' = Queued(e) + 0  BY <1>1, <3>3 DEF If1
    <3>5. Queued(e) \in Nat  BY PlacesNat DEF PipeInv, PlaceInv
    <3> QED  BY <3>1, <3>2, <3>4, <3>5 DEF PlaceInv, OnePlace, Places
  <2> QED  BY <2>1, <2>2, <2>3, <2>4 DEF PlaceInv, OnePlace
<1> QED  BY <1>2, <1>3

LEMMA HookStepPlace == ASSUME PipeInv, PlaceInv, HookStep PROVE PlaceInv'
<1>0. Undecided  BY DEF PlaceInv
<1>1. CASE Focus
  BY <1>0, <1>1, AskPlace DEF Focus, HookGoto, history, Undecided, Asking, Hands
<1>2. CASE DecideOff \/ DecidePass \/ CheckDrained \/ CheckSleep \/ Awake \/ SleepEnds \/ GiveUp
  BY <1>0, <1>2, PlaceMoves
  DEF DecideOff, DecidePass, CheckDrained, CheckSleep, Awake, SleepEnds, GiveUp, HookGoto,
      history, Undecided, Asking, Hands
<1>3. CASE DecideEdit  BY <1>3, DecidePlace
<1>4. CASE OutputQueued \/ OutputInline \/ PushFull \/ RollbackNotify
  BY <1>4, PlaceMoves
  DEF OutputQueued, OutputInline, PushFull, RollbackNotify, HookGoto, history,
      Undecided, Asking, Hands
<1>5. CASE Push  BY <1>5, PushPlace
<1>6. CASE EmitInline  BY <1>6, EmitPlace
<1>7. CASE Enqueue
  <2>1. CASE hkind = "click"
    BY <1>0, <1>7, <2>1, ReceivePlace DEF Enqueue, HookGoto, history, Undecided, Hands
  <2>2. CASE hkind # "click"
    BY <1>0, <1>7, <2>2, PlaceMoves
    DEF Enqueue, HookGoto, history, Undecided, Asking, Hands
  <2> QED  BY <2>1, <2>2
<1>8. CASE AskResync
  BY <1>0, <1>8, AskPlace DEF AskResync, HookGoto, history, Undecided, Asking, Hands
<1>9. CASE Deliver
  BY <1>0, <1>9, ReceivePlace DEF Deliver, HookGoto, history, Undecided, Asking, Hands
<1> QED  BY <1>1, <1>2, <1>3, <1>4, <1>5, <1>6, <1>7, <1>8, <1>9 DEF HookStep

(***************************************************************************)
(* The steps of the consumer: each leaves every edit where it is or moves  *)
(* it to one other place.                                                  *)
(***************************************************************************)
LEMMA ConsumerPlace ==
  ASSUME PipeInv, PlaceInv, UNCHANGED <<hook, history>>,
         HeldAreEdits', InHandDirect', doc' \in Seq(Nat),
         \A i \in DOMAIN doc' :
           doc'[i] \in edits \/ (i \in DOMAIN doc /\ doc'[i] = doc[i]),
         \A e \in edits :
           OnScreen(e)' + InBatch(e)' + Queued(e)' + WithConsumer(e)'
             = OnScreen(e) + InBatch(e) + Queued(e) + WithConsumer(e)
  PROVE  PlaceInv'
<1>1. UNCHANGED <<hpc, hid, hkind, arrivals, edits>>  BY DEF hook, history
<1>2. Numbered'  BY <1>1 DEF PlaceInv, Numbered
<1>3. Undecided'  BY <1>1 DEF PlaceInv, Undecided, Asking
<1>4. ASSUME NEW e \in edits' PROVE Places(e)' = 1
  <2>1. WithHook(e)' = WithHook(e)  BY <1>1 DEF WithHook
  <2> QED  BY <1>1, <2>1 DEF PlaceInv, OnePlace, Places
<1> QED  BY <1>2, <1>3, <1>4 DEF PlaceInv, OnePlace

\* Steps that move no edit.
LEMMA RestPlace ==
  ASSUME PipeInv, PlaceInv, UNCHANGED <<hook, history, outRing, batch, item, doc>>,
         InHandDirect'
  PROVE  PlaceInv'
<1>1. HeldAreEdits'  BY DEF PlaceInv, HeldAreEdits, hook, history
<1>2. doc' \in Seq(Nat)  BY DEF PlaceInv, Numbered
<1>3. \A e : UNCHANGED <<OnScreen(e), InBatch(e), Queued(e), WithConsumer(e)>>
  BY DEF OnScreen, InBatch, Queued, WithConsumer
<1> QED  BY <1>1, <1>2, <1>3, ConsumerPlace

LEMMA StandsPlace ==
  ASSUME PipeInv, PlaceInv,
         StartDrain \/ PopNothing \/ ConsumerRelease \/ ConsumerNotify
  PROVE  PlaceInv'
<1>1. UNCHANGED <<hook, history, outRing, batch, item, doc>>
  BY DEF StartDrain, PopNothing, ConsumerRelease, ConsumerNotify
<1>2. InHandDirect'
  BY DEF StartDrain, PopNothing, ConsumerRelease, ConsumerNotify, PipeInv, InHand, PlaceInv,
         InHandDirect, Commits, Returns
<1> QED  BY <1>1, <1>2, RestPlace

\* From the ring into the batch.
LEMMA PopEditPlace == ASSUME PipeInv, PlaceInv, PopEdit PROVE PlaceInv'
<1> DEFINE h == Head(outRing)
<1>1. /\ UNCHANGED <<hook, history, item, doc>>
      /\ outRing \in Seq(Item) /\ outRing # <<>> /\ outRing' = Tail(outRing)
      /\ batch \in Seq(Nat) /\ batch' = Append(batch, h.id) /\ h.kind = "Edit"
      /\ cpc = "pop" /\ cpc' \in {"commit", "pop"} /\ cret' = "pop"
  BY DEF PopEdit, PipeInv, PipeTypes
<1>2. h \in Item /\ h.id \in Nat /\ h.id \in edits
  <2>1. h \in Item /\ 1 \in DOMAIN outRing /\ h = outRing[1]  BY <1>1
  <2> HIDE DEF h
  <2>2. h.id \in Nat  BY <2>1 DEF Item
  <2>3. h.id \in edits  BY <1>1, <2>1 DEF PlaceInv, HeldAreEdits, EditKinds
  <2> QED  BY <2>1, <2>2, <2>3
<1>3. HeldAreEdits'
  <2>1. \A i \in DOMAIN batch' : batch'[i] \in edits
    <3> HIDE DEF h
    <3> QED  BY <1>1, <1>2 DEF PlaceInv, HeldAreEdits
  <2>2. \A i \in DOMAIN outRing' : outRing'[i].kind \in EditKinds => outRing'[i].id \in edits
    BY <1>1 DEF PlaceInv, HeldAreEdits
  <2> QED  BY <1>1, <2>1, <2>2 DEF PlaceInv, HeldAreEdits, hook, history
<1>4. InHandDirect'
  BY <1>1 DEF PlaceInv, InHandDirect, Commits
<1>5. ASSUME NEW e \in edits
      PROVE  OnScreen(e)' + InBatch(e)' + Queued(e)' + WithConsumer(e)'
               = OnScreen(e) + InBatch(e) + Queued(e) + WithConsumer(e)
  <2>1. UNCHANGED <<OnScreen(e), WithConsumer(e)>>
    BY <1>1 DEF OnScreen, WithConsumer
  <2>2. Queued(e)' \in Nat /\ Queued(e) = If1(h.kind \in EditKinds /\ h.id = e) + Queued(e)'
    BY <1>1, QueuedPop
  <2>3. If1(h.kind \in EditKinds /\ h.id = e) = If1(h.id \in {e})
    BY <1>1 DEF If1, EditKinds
  <2>4. InBatch(e)' = InBatch(e) + If1(h.id \in {e})
    <3> HIDE DEF h
    <3> QED  BY <1>1, <1>2, OccAppend DEF InBatch
  <2>5. OnScreen(e) \in Nat /\ InBatch(e) \in Nat /\ WithConsumer(e) \in Nat
    BY PlacesNat DEF PipeInv, PlaceInv
  <2>6. If1(h.id \in {e}) \in Nat  BY DEF If1
  <2> HIDE DEF h
  <2> QED  BY <2>1, <2>2, <2>3, <2>4, <2>5, <2>6
<1>6. doc' \in Seq(Nat)  BY <1>1 DEF PlaceInv, Numbered
<1> QED  BY <1>1, <1>3, <1>4, <1>5, <1>6, ConsumerPlace

\* From the ring into the consumer's hand.
LEMMA TakePlace == ASSUME PipeInv, PlaceInv, PopEditOom \/ PopOther PROVE PlaceInv'
<1> DEFINE h == Head(outRing)
<1>1. /\ UNCHANGED <<hook, history, batch, doc>>
      /\ outRing \in Seq(Item) /\ outRing # <<>> /\ outRing' = Tail(outRing)
      /\ item' = h /\ cpc = "pop"
  BY DEF PopEditOom, PopOther, PipeInv, PipeTypes
<1>2. h \in Item  BY <1>1
<1>3. HeldAreEdits'
  BY <1>1 DEF PlaceInv, HeldAreEdits, hook, history
<1>4. InHandDirect'
  <2>1. CASE PopEditOom  BY <1>1, <2>1 DEF PopEditOom, InHandDirect, Commits
  <2>2. CASE PopOther
    <3>1. h.kind \in {"InlineEdit", "ForegroundChanged", "Resync"} /\ item'.kind # "Edit"
      BY <1>1, <1>2, <2>2 DEF PopOther, Item, EditKinds
    <3>2. cret' \in {"inline", "resync", "refocus"} /\ cpc' \in {cret', "commit"}
      BY <1>1, <2>2, <3>1 DEF PopOther
    <3> HIDE DEF h
    <3> QED  BY <3>1, <3>2 DEF InHandDirect, Commits
  <2> QED  BY <2>1, <2>2
<1>5. item.kind \notin EditKinds
  BY <1>1 DEF PipeInv, InHand, PlaceInv, InHandDirect, EditKinds, Commits
<1>6. ASSUME NEW e \in edits
      PROVE  OnScreen(e)' + InBatch(e)' + Queued(e)' + WithConsumer(e)'
               = OnScreen(e) + InBatch(e) + Queued(e) + WithConsumer(e)
  <2>1. UNCHANGED <<OnScreen(e), InBatch(e)>>
    BY <1>1 DEF OnScreen, InBatch
  <2>2. Queued(e)' \in Nat /\ Queued(e) = If1(h.kind \in EditKinds /\ h.id = e) + Queued(e)'
    BY <1>1, QueuedPop
  <2>3. WithConsumer(e) = 0  BY <1>5 DEF WithConsumer, If1
  <2>4. WithConsumer(e)' = If1(h.kind \in EditKinds /\ h.id = e)
    BY <1>1 DEF WithConsumer, If1
  <2>5. OnScreen(e) \in Nat /\ InBatch(e) \in Nat
    BY PlacesNat DEF PipeInv, PlaceInv
  <2>6. If1(h.kind \in EditKinds /\ h.id = e) \in Nat  BY DEF If1
  <2> HIDE DEF h
  <2> QED  BY <2>1, <2>2, <2>3, <2>4, <2>5, <2>6
<1>7. doc' \in Seq(Nat)  BY <1>1 DEF PlaceInv, Numbered
<1> QED  BY <1>1, <1>3, <1>4, <1>6, <1>7, ConsumerPlace

\* A sequence cut in two, and two put together.
LEMMA SplitAt ==
  ASSUME NEW T, NEW s \in Seq(T), NEW n \in 0 .. Len(s)
  PROVE  LET q == SubSeq(s, 1, n)
             r == SubSeq(s, n + 1, Len(s))
         IN  /\ q \in Seq(T) /\ Len(q) = n /\ \A i \in 1 .. n : q[i] = s[i]
             /\ r \in Seq(T) /\ Len(r) = Len(s) - n
             /\ \A i \in 1 .. Len(s) - n : r[i] = s[n + i]
             /\ s = q \o r
<1> DEFINE q == SubSeq(s, 1, n)
           r == SubSeq(s, n + 1, Len(s))
<1>1. q \in Seq(T) /\ Len(q) = n /\ \A i \in 1 .. n : q[i] = s[i]
  BY SubSeqProperties
<1>2. r \in Seq(T) /\ Len(r) = Len(s) - n /\ \A i \in 1 .. Len(s) - n : r[i] = s[n + i]
  BY SubSeqProperties
<1>3. s = q \o r
  <2> HIDE DEF q, r
  <2>1. q \o r \in Seq(T) /\ Len(q \o r) = Len(s)
    <3>1. Len(q \o r) = Len(q) + Len(r)  BY <1>1, <1>2, ConcatProperties
    <3>2. Len(s) \in Nat /\ n \in Nat  OBVIOUS
    <3>3. Len(q \o r) = Len(s)  BY <1>1, <1>2, <3>1, <3>2
    <3> QED  BY <1>1, <1>2, <3>3
  <2>2. ASSUME NEW i \in 1 .. Len(s) PROVE s[i] = (q \o r)[i]
    <3>1. CASE i <= n  BY <1>1, <1>2, <3>1
    <3>2. CASE ~(i <= n)
      <4>1. (q \o r)[i] = r[i - n] /\ i - n \in 1 .. Len(s) - n  BY <1>1, <1>2, <3>2
      <4> QED  BY <1>2, <4>1
    <3> QED  BY <3>1, <3>2
  <2> QED  BY <2>1, <2>2, SeqEqual
<1> QED  BY <1>1, <1>2, <1>3

LEMMA Joined ==
  ASSUME NEW T, NEW s \in Seq(T), NEW q \in Seq(T), NEW i \in DOMAIN (s \o q)
  PROVE  \/ i \in DOMAIN s /\ (s \o q)[i] = s[i]
         \/ i - Len(s) \in DOMAIN q /\ (s \o q)[i] = q[i - Len(s)]
<1>1. Len(s \o q) = Len(s) + Len(q) /\ i \in 1 .. Len(s \o q)
  OBVIOUS
<1>2. CASE i <= Len(s)  BY <1>1, <1>2
<1>3. CASE ~(i <= Len(s))  BY <1>1, <1>3
<1> QED  BY <1>2, <1>3

\* From the batch to the application.
LEMMA CommitPlace ==
  ASSUME PipeInv, PlaceInv, NEW n \in 0 .. BatchCap, Commit(n) PROVE PlaceInv'
<1> DEFINE q == SubSeq(batch, 1, n)
           r == SubSeq(batch, n + 1, Len(batch))
<1>1. /\ UNCHANGED <<hook, history, outRing, item, cret>>
      /\ batch \in Seq(Nat) /\ doc \in Seq(Nat) /\ n \in 0 .. Len(batch)
      /\ doc' = doc \o q /\ batch' = r
      /\ cpc = "commit" /\ cpc' \in {"release", "suffix"}
  BY DEF Commit, PipeInv, PipeTypes, PlaceInv, Numbered
<1>2. /\ q \in Seq(Nat) /\ Len(q) = n /\ \A i \in 1 .. n : q[i] = batch[i]
      /\ r \in Seq(Nat) /\ Len(r) = Len(batch) - n
      /\ \A i \in 1 .. Len(batch) - n : r[i] = batch[n + i]
      /\ batch = q \o r
  BY <1>1, SplitAt
<1> HIDE DEF q, r
<1>3. /\ \A i \in DOMAIN q : q[i] \in edits
      /\ \A i \in DOMAIN r : r[i] \in edits
  <2>1. \A i \in 1 .. Len(batch) : batch[i] \in edits
    BY <1>1 DEF PlaceInv, HeldAreEdits
  <2>2. ASSUME NEW i \in DOMAIN q PROVE q[i] \in edits
    <3>1. i \in 1 .. n /\ i \in 1 .. Len(batch)  BY <1>1, <1>2, <2>2
    <3> QED  BY <1>2, <2>1, <3>1
  <2>3. ASSUME NEW i \in DOMAIN r PROVE r[i] \in edits
    <3>1. i \in 1 .. Len(batch) - n /\ n + i \in 1 .. Len(batch)  BY <1>1, <1>2, <2>3
    <3> QED  BY <1>2, <2>1, <3>1
  <2> QED  BY <2>2, <2>3
<1>4. HeldAreEdits'
  BY <1>1, <1>3 DEF PlaceInv, HeldAreEdits, hook, history
<1>5. InHandDirect'
  BY <1>1 DEF PlaceInv, InHandDirect, Commits
<1>6. /\ doc' \in Seq(Nat)
      /\ \A i \in DOMAIN doc' :
           doc'[i] \in edits \/ (i \in DOMAIN doc /\ doc'[i] = doc[i])
  <2>1. doc' \in Seq(Nat)  BY <1>1, <1>2
  <2>2. ASSUME NEW i \in DOMAIN doc'
        PROVE  doc'[i] \in edits \/ (i \in DOMAIN doc /\ doc'[i] = doc[i])
    <3>1. \/ i \in DOMAIN doc /\ doc'[i] = doc[i]
          \/ i - Len(doc) \in DOMAIN q /\ doc'[i] = q[i - Len(doc)]
      BY <1>1, <1>2, <2>2, Joined
    <3> QED  BY <1>3, <3>1
  <2> QED  BY <2>1, <2>2
<1>7. ASSUME NEW e \in edits
      PROVE  OnScreen(e)' + InBatch(e)' + Queued(e)' + WithConsumer(e)'
               = OnScreen(e) + InBatch(e) + Queued(e) + WithConsumer(e)
  <2>1. UNCHANGED <<Queued(e), WithConsumer(e)>>
    BY <1>1 DEF Queued, WithConsumer
  <2>2. OnScreen(e)' = OnScreen(e) + Cardinality(Occ({e}, q))
    BY <1>1, <1>2, OccConcat DEF OnScreen
  <2>3. InBatch(e) = Cardinality(Occ({e}, q)) + InBatch(e)'
    BY <1>1, <1>2, OccConcat DEF InBatch
  <2>4. Cardinality(Occ({e}, q)) \in Nat /\ Cardinality(Occ({e}, r)) \in Nat
    BY <1>2, OccFinite
  <2>5. InBatch(e)' \in Nat  BY <1>1, <2>4 DEF InBatch
  <2>6. /\ OnScreen(e) \in Nat /\ InBatch(e) \in Nat /\ Queued(e) \in Nat
        /\ WithConsumer(e) \in Nat
    BY PlacesNat DEF PipeInv, PlaceInv
  <2> QED  BY <2>1, <2>2, <2>3, <2>4, <2>5, <2>6
<1> QED  BY <1>1, <1>4, <1>5, <1>6, <1>7, ConsumerPlace

LEMMA SendSuffixPlace == ASSUME PipeInv, PlaceInv, SendSuffix PROVE PlaceInv'
<1> DEFINE h == Head(batch)
<1>1. /\ UNCHANGED <<hook, history, outRing, item, cret>>
      /\ batch \in Seq(Nat) /\ doc \in Seq(Nat) /\ batch # <<>>
      /\ doc' = Append(doc, h) /\ batch' = Tail(batch)
      /\ cpc = "suffix" /\ cpc' \in {"release", "suffix"}
  BY DEF SendSuffix, PipeInv, PipeTypes, PlaceInv, Numbered
<1>2. h \in Nat /\ h \in edits /\ batch' \in Seq(Nat)
  BY <1>1 DEF PlaceInv, HeldAreEdits
<1>3. \A i \in DOMAIN batch' : batch'[i] \in edits
  BY <1>1 DEF PlaceInv, HeldAreEdits
<1> HIDE DEF h
<1>4. HeldAreEdits'
  BY <1>1, <1>3 DEF PlaceInv, HeldAreEdits, hook, history
<1>5. InHandDirect'
  BY <1>1 DEF PlaceInv, InHandDirect, Commits
<1>6. /\ doc' \in Seq(Nat)
      /\ \A i \in DOMAIN doc' :
           doc'[i] \in edits \/ (i \in DOMAIN doc /\ doc'[i] = doc[i])
  BY <1>1, <1>2, ScreenPush
<1>7. ASSUME NEW e \in edits
      PROVE  OnScreen(e)' + InBatch(e)' + Queued(e)' + WithConsumer(e)'
               = OnScreen(e) + InBatch(e) + Queued(e) + WithConsumer(e)
  <2>1. UNCHANGED <<Queued(e), WithConsumer(e)>>
    BY <1>1 DEF Queued, WithConsumer
  <2>2. OnScreen(e)' = OnScreen(e) + If1(h = e)
    BY <1>1, <1>2, ScreenPush
  <2>3. InBatch(e) = If1(h \in {e}) + InBatch(e)'
    BY <1>1, OccTail DEF InBatch, h
  <2>4. InBatch(e)' \in Nat  BY <1>2, OccFinite DEF InBatch
  <2>5. /\ OnScreen(e) \in Nat /\ InBatch(e) \in Nat /\ Queued(e) \in Nat
        /\ WithConsumer(e) \in Nat
    BY PlacesNat DEF PipeInv, PlaceInv
  <2>6. If1(h \in {e}) = If1(h = e) /\ If1(h = e) \in Nat  BY DEF If1
  <2> QED  BY <2>1, <2>2, <2>3, <2>4, <2>5, <2>6
<1> QED  BY <1>1, <1>4, <1>5, <1>6, <1>7, ConsumerPlace

\* From the consumer's hand to the application.
LEMMA SendPlace == ASSUME PipeInv, PlaceInv, SendDeferred \/ SendDirect PROVE PlaceInv'
<1>1. /\ UNCHANGED <<hook, history, outRing, batch>>
      /\ doc \in Seq(Nat) /\ doc' = Append(doc, item.id) /\ item'.kind = "None"
      /\ item.kind \in EditKinds
  BY DEF SendDeferred, SendDirect, NoItem, PipeInv, InHand, PlaceInv, Numbered, InHandDirect,
         EditKinds, Commits
<1>2. item.id \in edits /\ item.id \in Nat
  BY <1>1 DEF PlaceInv, Numbered, HeldAreEdits
<1>3. HeldAreEdits'
  BY <1>1 DEF PlaceInv, HeldAreEdits, EditKinds, hook, history
<1>4. InHandDirect'
  BY <1>1 DEF SendDeferred, SendDirect, PlaceInv, InHandDirect, Commits
<1>5. /\ doc' \in Seq(Nat)
      /\ \A i \in DOMAIN doc' :
           doc'[i] \in edits \/ (i \in DOMAIN doc /\ doc'[i] = doc[i])
  BY <1>1, <1>2, ScreenPush
<1>6. ASSUME NEW e \in edits
      PROVE  OnScreen(e)' + InBatch(e)' + Queued(e)' + WithConsumer(e)'
               = OnScreen(e) + InBatch(e) + Queued(e) + WithConsumer(e)
  <2>1. UNCHANGED <<Queued(e), InBatch(e)>>
    BY <1>1 DEF Queued, InBatch
  <2>2. OnScreen(e)' = OnScreen(e) + If1(item.id = e)
    BY <1>1, <1>2, ScreenPush
  <2>3. WithConsumer(e) = If1(item.id = e) /\ WithConsumer(e)' = 0
    BY <1>1 DEF WithConsumer, If1, EditKinds
  <2>4. OnScreen(e) \in Nat /\ InBatch(e) \in Nat /\ Queued(e) \in Nat
    BY PlacesNat DEF PipeInv, PlaceInv
  <2>5. If1(item.id = e) \in Nat  BY DEF If1
  <2> QED  BY <2>1, <2>2, <2>3, <2>4, <2>5
<1> QED  BY <1>1, <1>3, <1>4, <1>5, <1>6, ConsumerPlace

LEMMA RefocusPlace == ASSUME PipeInv, PlaceInv, Refocus PROVE PlaceInv'
<1>1. /\ UNCHANGED <<hook, history, outRing, batch, doc>>
      /\ item'.kind = "None" /\ item.kind \notin EditKinds
  BY DEF Refocus, NoItem, PipeInv, InHand, PlaceInv, InHandDirect, EditKinds, Commits
<1>2. HeldAreEdits'
  BY <1>1 DEF PlaceInv, HeldAreEdits, EditKinds, hook, history
<1>3. InHandDirect'
  BY <1>1 DEF Refocus, InHandDirect, Commits
<1>4. doc' \in Seq(Nat)  BY <1>1 DEF PlaceInv, Numbered
<1>5. \A e : UNCHANGED <<OnScreen(e), InBatch(e), Queued(e), WithConsumer(e)>>
  BY <1>1 DEF OnScreen, InBatch, Queued, WithConsumer, If1, EditKinds
<1> QED  BY <1>1, <1>2, <1>3, <1>4, <1>5, ConsumerPlace

LEMMA StepPlace == PipeInv /\ PlaceInv /\ [Next]_vars => PlaceInv'
<1> SUFFICES ASSUME PipeInv, PlaceInv, [Next]_vars PROVE PlaceInv'
  OBVIOUS
<1>1. ASSUME NEW k \in Kinds, Arrive(k) PROVE PlaceInv'  BY <1>1, ArrivePlace
<1>2. CASE HookStep  BY <1>2, HookStepPlace
<1>3. CASE ConsumerStep
  <2>1. ASSUME NEW n \in 0 .. BatchCap, Commit(n) PROVE PlaceInv'  BY <2>1, CommitPlace
  <2> QED  BY <1>3, <2>1, StandsPlace, PopEditPlace, TakePlace, SendSuffixPlace, SendPlace,
              RefocusPlace DEF ConsumerStep
<1>4. CASE \/ BeginOff \/ TurnOn \/ BeginResume \/ Policy \/ UiDrain
           \/ UNCHANGED vars
  <2>1. UNCHANGED <<hook, outRing, consumer, doc, arrivals, edits>>
    BY <1>4
    DEF BeginOff, TurnOn, BeginResume, Policy, UiDrain, StoreOff, DrainDone, DrainWait,
        DrainAwake, DrainEnds, DrainAgain, ForceQuiesce, QuiesceNotify, history, vars
  <2>2. Undecided'  BY <2>1 DEF PlaceInv, Undecided, hook
  <2> QED  BY <2>1, <2>2, PlaceMoves DEF hook
<1> QED  BY <1>1, <1>2, <1>3, <1>4 DEF Next

LEMMA PlacesAreApart ==
  ASSUME outRing \in Seq(Item), OnePlace PROVE EditInOnePlace
<1> SUFFICES ASSUME NEW e \in edits
    PROVE  1 = Copies(e, doc) + Copies(e, batch)
               + Cardinality({i \in RingEdits : outRing[i].id = e})
               + If1(item.id = e /\ item.kind \in {"Edit", "InlineEdit"})
               + If1(hid = e /\ hpc \in {"output", "push", "rolled", "emit"})
  BY DEF EditInOnePlace
<1>1. Copies(e, doc) = OnScreen(e) /\ Copies(e, batch) = InBatch(e)
  <2>1. Occ({e}, doc) = {i \in DOMAIN doc : doc[i] = e}  BY DEF Occ
  <2>2. Occ({e}, batch) = {i \in DOMAIN batch : batch[i] = e}  BY DEF Occ
  <2> QED  BY <2>1, <2>2 DEF Copies, OnScreen, InBatch
<1>2. Cardinality({i \in RingEdits : outRing[i].id = e}) = Queued(e)
  <2>1. \A i \in DOMAIN outRing : outRing[i] \in Item  OBVIOUS
  <2>2. {i \in RingEdits : outRing[i].id = e} = Occ(EditsOf(e), outRing)
    BY <2>1 DEF RingEdits, Occ, EditsOf, EditKinds
  <2> QED  BY <2>2 DEF Queued
<1>3. Places(e) = 1  BY DEF OnePlace
<1> QED  BY <1>1, <1>2, <1>3 DEF Places, WithConsumer, WithHook, EditKinds, Hands

\* Both invariants together.
THEOREM PlaceInvariant == Spec => [](PipeInv /\ PlaceInv)
<1>1. Init => PipeInv /\ PlaceInv  BY InitPipe, InitPlace
<1>2. PipeInv /\ PlaceInv /\ [Next]_vars => (PipeInv /\ PlaceInv)'
  BY StepPipe, StepPlace
<1> QED  BY <1>1, <1>2, PTL DEF Spec

(* An edit the engine decided on is never lost and never doubled: it is in *)
(* exactly one of the hook's hand, the ring, the batch, the consumer's     *)
(* hand and the application, whatever commit fails half-way, whichever     *)
(* allocation throws and however often the engine is switched.             *)
THEOREM EachEditOnce == Spec => []EditInOnePlace
<1>1. PipeInv /\ PlaceInv => EditInOnePlace
  BY PlacesAreApart DEF PipeInv, PipeTypes, PlaceInv
<1> QED  BY <1>1, PlaceInvariant, PTL

(* The promise of the edit pipeline as one invariant: no edit is lost or   *)
(* doubled, no count is wrong and nothing is left behind.                  *)
THEOREM NothingIsLost == Spec => []NoEditLost
BY EachEditOnce, CountIsExact, NobodyStrands, PTL DEF NoEditLost

(***************************************************************************)
(* Order.  The order of typing is kept where every edit takes the way      *)
(* through the ring and the ring holds what is typed: no edit is sent from *)
(* the callback or past the batch, and no transition clears the count.     *)
(***************************************************************************)
OrderedPath ==
  /\ Deferred /\ "long" \notin Faults /\ "oom" \notin Faults
  /\ UiKinds \subseteq {"policy"}
  /\ MaxEvents <= RingCap

\* Places of the hook's program where its event is still to be sent or queued.
Coming == Asking \cup {"output", "push"}
Held == hpc \in Coming \/ (hpc = "enqueue" /\ hkind = "click")

BatchIds == {batch[i] : i \in DOMAIN batch}
RingIds == {outRing[i].id : i \in RingEdits}
Waiting == BatchIds \cup RingIds \cup {x \in {item.id} : item.kind = "InlineEdit"}

\* x may go to the application now: what is there is older, or gave up.
Due(x) == \A i \in DOMAIN doc : doc[i] < x \/ doc[i] \in gaveUp

OneWay ==
  /\ ~quiesced /\ enabled /\ upc = "idle"
  /\ hpc \notin {"rolled", "emit"} /\ item.kind # "Edit"
  /\ cpc = "suffix" => owed # 0
  /\ arrivals <= MaxEvents /\ hid <= arrivals
  /\ Len(outRing) <= hid /\ (hpc \in Coming => Len(outRing) < hid)

Sorted ==
  /\ \A i, j \in DOMAIN batch : i < j => batch[i] < batch[j]
  /\ \A i, j \in RingEdits : i < j => outRing[i].id < outRing[j].id
  /\ \A x \in BatchIds, y \in RingIds : x < y
  /\ item.kind = "InlineEdit" =>
       (\A x \in BatchIds : x < item.id) /\ (\A y \in RingIds : item.id < y)

Ahead ==
  /\ \A x \in Waiting : Due(x)
  /\ Held => Due(hid) /\ \A x \in Waiting : x < hid

\* The callback lets an event go once nothing waits, or when it gives up.
LetGo == hpc = "deliver" \/ (hpc = "enqueue" /\ hkind = "click")
           => hid \in gaveUp \/ Waiting = {}

OrderInv == OneWay /\ Sorted /\ Ahead /\ LetGo /\ InOrder

LEMMA InitOrder == ASSUME Init PROVE OrderInv
<1>1. batch = <<>> /\ outRing = <<>> /\ doc = <<>> /\ item.kind = "None" /\ hpc = "idle"
  BY DEF Init, NoItem
<1>2. RingEdits = {} /\ DOMAIN batch = {}  BY <1>1 DEF RingEdits
<1>3. RingIds = {} /\ BatchIds = {} /\ Waiting = {}
  BY <1>1, <1>2 DEF RingIds, BatchIds, Waiting
<1>4. OneWay  BY <1>1, PipelineAssumption DEF Init, OneWay, Coming, Asking
<1>5. Sorted  BY <1>1, <1>2, <1>3 DEF Sorted
<1>6. Ahead /\ LetGo /\ InOrder
  BY <1>1, <1>3 DEF Ahead, Held, Coming, Asking, LetGo, InOrder
<1> QED  BY <1>4, <1>5, <1>6 DEF OrderInv

\* More text on screen: what is due stays due behind it, and order is kept.
LEMMA DueLater ==
  ASSUME doc \in Seq(Nat), NEW q \in Seq(Nat), doc' = doc \o q, gaveUp \subseteq gaveUp',
         NEW x, Due(x), \A i \in DOMAIN q : q[i] < x \/ q[i] \in gaveUp'
  PROVE  \A i \in DOMAIN doc' : doc'[i] < x \/ doc'[i] \in gaveUp'
<1> SUFFICES ASSUME NEW i \in DOMAIN doc' PROVE doc'[i] < x \/ doc'[i] \in gaveUp'
  OBVIOUS
<1>1. \/ i \in DOMAIN doc /\ doc'[i] = doc[i]
      \/ i - Len(doc) \in DOMAIN q /\ doc'[i] = q[i - Len(doc)]
  BY Joined
<1> QED  BY <1>1 DEF Due

LEMMA OrderLater ==
  ASSUME doc \in Seq(Nat), NEW q \in Seq(Nat), doc' = doc \o q, gaveUp \subseteq gaveUp',
         InOrder, \A i \in DOMAIN q : Due(q[i]),
         \A i, j \in DOMAIN q : i < j => q[i] < q[j]
  PROVE  InOrder'
<1> SUFFICES ASSUME NEW i \in DOMAIN doc', NEW j \in DOMAIN doc', i < j, doc'[i] > doc'[j]
             PROVE  doc'[i] \in gaveUp'
  BY DEF InOrder
<1>1. \/ i \in DOMAIN doc /\ doc'[i] = doc[i]
      \/ i - Len(doc) \in DOMAIN q /\ doc'[i] = q[i - Len(doc)]
  BY Joined
<1>2. \/ j \in DOMAIN doc /\ doc'[j] = doc[j]
      \/ j - Len(doc) \in DOMAIN q /\ doc'[j] = q[j - Len(doc)]
  BY Joined
<1>3. /\ DOMAIN doc = 1 .. Len(doc) /\ DOMAIN q = 1 .. Len(q)
      /\ Len(doc) \in Nat /\ i \in Nat /\ j \in Nat
      /\ \A k \in DOMAIN doc : doc[k] \in Nat
      /\ \A k \in DOMAIN q : q[k] \in Nat
  OBVIOUS
<1>4. CASE i \in DOMAIN doc /\ j \in DOMAIN doc
  <2>1. doc'[i] = doc[i] /\ doc'[j] = doc[j]  BY <1>1, <1>2, <1>3, <1>4
  <2> QED  BY <1>4, <2>1 DEF InOrder
<1>5. CASE i \in DOMAIN doc /\ j \notin DOMAIN doc
  <2>1. doc'[i] = doc[i] /\ j - Len(doc) \in DOMAIN q /\ doc'[j] = q[j - Len(doc)]
    BY <1>1, <1>2, <1>3, <1>5
  <2>2. doc[i] < doc'[j] \/ doc[i] \in gaveUp  BY <1>5, <2>1 DEF Due
  <2>3. ~(doc[i] < doc'[j])  BY <1>3, <1>5, <2>1
  <2> QED  BY <2>1, <2>2, <2>3
<1>6. CASE i \notin DOMAIN doc
  <2>1. j \notin DOMAIN doc  BY <1>1, <1>3, <1>6
  <2>2. /\ i - Len(doc) \in DOMAIN q /\ doc'[i] = q[i - Len(doc)]
        /\ j - Len(doc) \in DOMAIN q /\ doc'[j] = q[j - Len(doc)]
    BY <1>1, <1>2, <1>6, <2>1
  <2>3. i - Len(doc) < j - Len(doc)  BY <1>3
  <2>4. doc'[i] < doc'[j]  BY <2>2, <2>3
  <2> QED  BY <1>3, <2>2, <2>4
<1> QED  BY <1>4, <1>5, <1>6

\* An edit that waits was decided on, and is no younger than the last event.
LEMMA WaitingEdits ==
  ASSUME PipeInv, PlaceInv PROVE \A x \in Waiting : x \in edits /\ x \in Nat /\ x <= arrivals
<1>1. \A x \in Waiting : x \in edits
  BY DEF PlaceInv, HeldAreEdits, Waiting, BatchIds, RingIds, RingEdits, EditKinds
<1> QED  BY <1>1 DEF PlaceInv, Numbered

(***************************************************************************)
(* The steps of the hook thread.                                           *)
(***************************************************************************)
\* Steps that touch neither what waits nor the text.
LEMMA OrderMoves ==
  ASSUME PipeInv, PlaceInv, OrderInv, LetGo',
         UNCHANGED <<hid, outRing, consumer, doc, enabled, upc, arrivals, quiesced>>,
         gaveUp \subseteq gaveUp', Held' => Held,
         hpc' \in Coming => hpc \in Coming, hpc' \notin {"rolled", "emit"}
  PROVE  OrderInv'
<1>1. UNCHANGED <<BatchIds, RingIds, Waiting, RingEdits>>
  BY DEF BatchIds, RingIds, Waiting, RingEdits, consumer
<1>2. OneWay'  BY DEF OrderInv, OneWay, consumer
<1>3. Sorted'  BY <1>1 DEF OrderInv, Sorted, consumer
<1>4. Ahead'  BY <1>1 DEF OrderInv, Ahead, Due
<1>5. InOrder'  BY DEF OrderInv, InOrder
<1> QED  BY <1>2, <1>3, <1>4, <1>5 DEF OrderInv

LEMMA ArriveOrder ==
  ASSUME PipeInv, PlaceInv, OrderInv, NEW k \in Kinds, Arrive(k) PROVE OrderInv'
<1>1. /\ UNCHANGED <<outRing, consumer, doc, enabled, upc, quiesced, gaveUp>>
      /\ arrivals' = arrivals + 1 /\ hid' = arrivals + 1 /\ hkind' = k
      /\ hpc = "idle" /\ hpc' \in {"decide", "check", "focus"}
      /\ arrivals \in Nat /\ arrivals < MaxEvents /\ MaxEvents \in Nat
  BY PipelineAssumption DEF Arrive, policy, ui, PipeInv, PipeTypes, OrderInv, OneWay
<1>2. UNCHANGED <<BatchIds, RingIds, Waiting, RingEdits>>
  BY <1>1 DEF BatchIds, RingIds, Waiting, RingEdits, consumer
<1>3. OneWay'
  <2>1. Len(outRing) \in Nat /\ Len(outRing) <= hid /\ hid <= arrivals /\ hid \in Nat
    BY DEF PipeInv, PipeTypes, OrderInv, OneWay
  <2>2. Len(outRing') < hid'  BY <1>1, <2>1
  <2> QED  BY <1>1, <2>1, <2>2 DEF OrderInv, OneWay, consumer
<1>4. Sorted'  BY <1>1, <1>2 DEF OrderInv, Sorted, consumer
<1>5. Ahead'
  <2>1. \A x \in Waiting' : x < hid'
    BY <1>1, <1>2, WaitingEdits
  <2>2. \A i \in DOMAIN doc' : doc'[i] < hid'
    BY <1>1 DEF PlaceInv, Numbered
  <2> QED  BY <1>1, <1>2, <2>1, <2>2 DEF OrderInv, Ahead, Due
<1>6. LetGo' /\ InOrder'  BY <1>1 DEF LetGo, OrderInv, InOrder
<1> QED  BY <1>3, <1>4, <1>5, <1>6 DEF OrderInv

\* The barrier found the count at zero: nothing waits.
LEMMA OpenBarrier == ASSUME PipeInv, OrderInv, pending = 0 PROVE Waiting = {}
<1>1. PipeTypes /\ Work = 0  BY DEF PipeInv, Counted, OrderInv, OneWay
<1>2. InRing = 0 /\ Deferring = 0 /\ owed = 0 /\ Batched = 0
  BY <1>1, PartsNat DEF Work
<1>3. RingEdits = {}  BY <1>1, <1>2, RingCount DEF PipeTypes
<1>4. item.kind # "InlineEdit"  BY <1>2 DEF Deferring, If1
<1>5. batch = <<>>
  <2>1. cpc # "suffix"  BY <1>2 DEF OrderInv, OneWay
  <2>2. Len(batch) = 0  BY <1>2, <2>1 DEF Batched
  <2> QED  BY <1>1, <2>2 DEF PipeTypes
<1> QED  BY <1>3, <1>4, <1>5 DEF Waiting, BatchIds, RingIds

\* The application receives the hook's own event.
LEMMA ReceiveOrder ==
  ASSUME PipeInv, PlaceInv, OrderInv, hpc' = "idle", doc' = Append(doc, hid),
         hpc = "deliver" \/ (hpc = "enqueue" /\ hkind = "click"),
         UNCHANGED <<hid, outRing, consumer, enabled, upc, history>>
  PROVE  OrderInv'
<1> DEFINE q == <<hid>>
<1>1. doc \in Seq(Nat) /\ hid \in Nat  BY DEF PipeInv, PipeTypes, PlaceInv, Numbered
<1>2. /\ q \in Seq(Nat) /\ doc' = doc \o q
      /\ DOMAIN q = {1} /\ q[1] = hid
      /\ \A i, j \in DOMAIN q : i < j => q[i] < q[j]
  BY <1>1
<1>3. Held /\ Due(hid) /\ (hid \in gaveUp \/ Waiting = {})
  BY DEF OrderInv, Ahead, LetGo, Held, Coming, Asking
<1>4. gaveUp' = gaveUp /\ quiesced' = quiesced /\ arrivals' = arrivals  BY DEF history
<1> HIDE DEF q
<1>5. InOrder'  BY <1>1, <1>2, <1>3, <1>4, OrderLater DEF OrderInv
<1>6. UNCHANGED <<BatchIds, RingIds, Waiting, RingEdits>>
  BY DEF BatchIds, RingIds, Waiting, RingEdits, consumer
<1>7. OneWay'  BY <1>4 DEF OrderInv, OneWay, Coming, Asking, consumer
<1>8. Sorted'  BY <1>6 DEF OrderInv, Sorted, consumer
<1>9. ~Held' /\ LetGo'  BY DEF Held, Coming, Asking, LetGo
<1>10. Ahead'
  <2>1. ASSUME NEW x \in Waiting'
        PROVE  \A i \in DOMAIN doc' : doc'[i] < x \/ doc'[i] \in gaveUp'
    <3>1. Due(x) /\ hid \in gaveUp'  BY <1>3, <1>4, <1>6, <2>1 DEF OrderInv, Ahead
    <3> QED  BY <1>1, <1>2, <1>4, <3>1, DueLater
  <2> QED  BY <1>9, <2>1 DEF Ahead, Due
<1> QED  BY <1>5, <1>7, <1>8, <1>9, <1>10 DEF OrderInv

\* An edit, the youngest of all, goes to the end of the ring.
LEMMA PushOrder == ASSUME PipeInv, PlaceInv, OrderInv, Push PROVE OrderInv'
<1> DEFINE x == [kind |-> hkind, id |-> hid]
           n == Len(outRing) + 1
<1>1. /\ UNCHANGED <<hid, hkind, consumer, doc, enabled, upc, history>>
      /\ outRing \in Seq(Item) /\ hid \in Nat
      /\ hpc = "push" /\ hpc' = "enqueue" /\ hkind \in EditKinds
      /\ outRing' = Append(outRing, x)
  BY DEF Push, HookGoto, policy, ui, PipeInv, PipeTypes, InHand
<1>2. x \in Item /\ x.kind \in EditKinds /\ x.id = hid  BY <1>1 DEF Item
<1>3. gaveUp' = gaveUp /\ quiesced' = quiesced /\ arrivals' = arrivals  BY <1>1 DEF history
<1> HIDE DEF x
<1>4. /\ Len(outRing) \in Nat /\ n \in Nat /\ Len(outRing') = n
      /\ DOMAIN outRing = 1 .. Len(outRing) /\ DOMAIN outRing' = 1 .. n
      /\ \A i \in 1 .. Len(outRing) : outRing'[i] = outRing[i]
      /\ outRing'[n] = x
  BY <1>1, <1>2
<1>5. /\ RingEdits' = RingEdits \cup {n}
      /\ \A i \in RingEdits : i < n /\ outRing'[i] = outRing[i]
  BY <1>2, <1>4 DEF RingEdits, EditKinds
<1>6. BatchIds' = BatchIds /\ RingIds' = RingIds \cup {hid} /\ Waiting' = Waiting \cup {hid}
  <2>1. BatchIds' = BatchIds  BY <1>1 DEF BatchIds, consumer
  <2>2. RingIds' = RingIds \cup {hid}
    BY <1>2, <1>4, <1>5 DEF RingIds
  <2> QED  BY <1>1, <2>1, <2>2 DEF Waiting, consumer
<1>7. Due(hid) /\ \A y \in Waiting : y < hid
  BY <1>1 DEF OrderInv, Ahead, Held, Coming
<1>8. OneWay'
  <2>1. Len(outRing) < hid  BY <1>1 DEF OrderInv, OneWay, Coming
  <2>2. Len(outRing') <= hid  BY <1>1, <1>4, <2>1
  <2> QED  BY <1>1, <1>3, <2>2 DEF OrderInv, OneWay, Coming, Asking, consumer
<1>9. Sorted'
  <2>1. UNCHANGED <<batch, item>> /\ Sorted  BY <1>1 DEF OrderInv, consumer
  <2>2. \A i \in RingEdits : outRing[i].id < hid  BY <1>7 DEF Waiting, RingIds
  <2>3. \A i, j \in RingEdits' : i < j => outRing'[i].id < outRing'[j].id
    <3> SUFFICES ASSUME NEW i \in RingEdits', NEW j \in RingEdits', i < j
                 PROVE  outRing'[i].id < outRing'[j].id
      OBVIOUS
    <3>1. i \in RingEdits  BY <1>4, <1>5 DEF RingEdits
    <3>2. CASE j \in RingEdits
      BY <1>5, <2>1, <3>1, <3>2 DEF Sorted
    <3>3. CASE j = n  BY <1>2, <1>4, <1>5, <2>2, <3>1, <3>3
    <3> QED  BY <1>5, <3>2, <3>3
  <2>4. \A y \in BatchIds', z \in RingIds' : y < z
    BY <1>6, <1>7, <2>1 DEF Sorted, Waiting
  <2>5. item'.kind = "InlineEdit" =>
          (\A y \in BatchIds' : y < item'.id) /\ (\A y \in RingIds' : item'.id < y)
    BY <1>6, <1>7, <2>1 DEF Sorted, Waiting
  <2> QED  BY <2>1, <2>3, <2>4, <2>5 DEF Sorted
<1>10. Ahead'
  BY <1>1, <1>3, <1>6, <1>7 DEF OrderInv, Ahead, Due, Held, Coming, Asking, EditKinds
<1>11. LetGo'  BY <1>1 DEF LetGo, EditKinds
<1>12. InOrder'  BY <1>1, <1>3 DEF OrderInv, InOrder
<1> QED  BY <1>8, <1>9, <1>10, <1>11, <1>12 DEF OrderInv

\* Something that is no edit goes to the end of the ring.
LEMMA AskOrder ==
  ASSUME PipeInv, PlaceInv, OrderInv, LetGo', NEW kind \in {"ForegroundChanged", "Resync"},
         hpc \in Coming, hpc' = "enqueue", hid' = hid,
         \/ outRing' = Append(outRing, [kind |-> kind, id |-> hid])
         \/ outRing' = outRing,
         UNCHANGED <<consumer, doc, enabled, upc, history>>
  PROVE  OrderInv'
<1> DEFINE x == [kind |-> kind, id |-> hid]
           n == Len(outRing) + 1
<1>0. gaveUp' = gaveUp /\ quiesced' = quiesced /\ arrivals' = arrivals  BY DEF history
<1>1. outRing \in Seq(Item) /\ hid \in Nat /\ x \in Item /\ x.kind \notin EditKinds
  BY DEF PipeInv, PipeTypes, Item, EditKinds
<1>2. CASE outRing' = outRing
  BY <1>0, <1>2, OrderMoves DEF Held, Coming, Asking
<1>3. CASE outRing' = Append(outRing, x)
  <2> HIDE DEF x
  <2>1. /\ Len(outRing) \in Nat /\ Len(outRing') = n
        /\ DOMAIN outRing = 1 .. Len(outRing) /\ DOMAIN outRing' = 1 .. n
        /\ \A i \in 1 .. Len(outRing) : outRing'[i] = outRing[i]
        /\ outRing'[n] = x
    BY <1>1, <1>3
  <2>2. RingEdits' = RingEdits /\ \A i \in RingEdits : outRing'[i] = outRing[i]
    BY <1>1, <2>1 DEF RingEdits, EditKinds
  <2>3. UNCHANGED <<BatchIds, RingIds, Waiting>>
    BY <2>2 DEF BatchIds, RingIds, Waiting, consumer
  <2>4. OneWay'
    <3>1. Len(outRing) < hid  BY DEF OrderInv, OneWay
    <3>2. Len(outRing') <= hid  BY <1>1, <2>1, <3>1
    <3> QED  BY <1>0, <3>2 DEF OrderInv, OneWay, Coming, Asking, consumer
  <2>5. Sorted'  BY <2>2, <2>3 DEF OrderInv, Sorted, consumer
  <2>6. Ahead'  BY <1>0, <2>3 DEF OrderInv, Ahead, Due, Held
  <2>7. InOrder'  BY <1>0 DEF OrderInv, InOrder
  <2> QED  BY <2>4, <2>5, <2>6, <2>7 DEF OrderInv
<1> QED  BY <1>2, <1>3

LEMMA HookStepOrder ==
  ASSUME OrderedPath, PipeInv, PlaceInv, OrderInv, HookStep PROVE OrderInv'
<1>0. LetGo /\ OneWay  BY DEF OrderInv
<1>1. CASE Focus
  BY <1>0, <1>1, AskOrder
  DEF Focus, HookGoto, LetGo, PlaceInv, Undecided, Coming, Asking, ui
<1>2. CASE DecideOff \/ DecidePass \/ DecideEdit \/ CheckSleep \/ Awake \/ SleepEnds
  BY <1>0, <1>2, OrderMoves
  DEF DecideOff, DecidePass, DecideEdit, CheckSleep, Awake, SleepEnds, HookGoto, LetGo,
      Held, Coming, Asking, policy, ui, history
<1>3. CASE OutputQueued
  BY <1>0, <1>3, OrderMoves DEF OutputQueued, LetGo, Held, Coming, Asking, policy, ui, history
<1>4. CASE CheckDrained
  <2>1. Waiting = {}  BY <1>4, OpenBarrier DEF CheckDrained
  <2>2. Waiting' = Waiting
    BY <1>4 DEF CheckDrained, Waiting, BatchIds, RingIds, RingEdits, consumer
  <2> QED  BY <1>4, <2>1, <2>2, OrderMoves
           DEF CheckDrained, LetGo, Held, Coming, Asking, policy, ui, history
<1>5. CASE GiveUp
  BY <1>5, OrderMoves DEF GiveUp, HookGoto, LetGo, Held, Coming, Asking, policy, ui
<1>6. CASE Push  BY <1>6, PushOrder
<1>7. CASE OutputInline  BY <1>7 DEF OutputInline, OrderedPath
<1>8. CASE PushFull \/ RollbackNotify \/ EmitInline
  <2>1. ~(RollbackNotify \/ EmitInline)
    BY <1>0 DEF OneWay, RollbackNotify, EmitInline, HookGoto
  <2>2. ~PushFull
    <3>1. hpc = "push" => Len(outRing) < hid /\ hid <= arrivals /\ arrivals <= MaxEvents
      BY <1>0 DEF OneWay, Coming
    <3>2. Len(outRing) \in Nat /\ hid \in Nat /\ arrivals \in Nat
      BY DEF PipeInv, PipeTypes
    <3> QED  BY <3>1, <3>2, PipelineAssumption DEF PushFull, HookGoto, OrderedPath
  <2> QED  BY <1>8, <2>1, <2>2
<1>9. CASE Enqueue
  <2>1. CASE hkind = "click"
    BY <1>9, <2>1, ReceiveOrder DEF Enqueue, HookGoto, policy, ui
  <2>2. CASE hkind # "click"
    BY <1>9, <2>2, OrderMoves
    DEF Enqueue, HookGoto, LetGo, Held, Coming, Asking, policy, ui, history
  <2> QED  BY <2>1, <2>2
<1>10. CASE AskResync
  <2>1. UNCHANGED <<BatchIds, hid, hkind, item, gaveUp>>
    BY <1>10 DEF AskResync, HookGoto, BatchIds, consumer, history
  <2>2. hpc = "deliver" /\ hpc' = "enqueue" /\ hid \in Nat
    BY <1>10 DEF AskResync, HookGoto, PipeInv, PipeTypes
  <2>3. Waiting = {} => Waiting' = {}
    <3> DEFINE x == [kind |-> "Resync", id |-> hid]
    <3>1. outRing \in Seq(Item) /\ x \in Item /\ x.kind \notin EditKinds
      BY <2>2 DEF PipeInv, PipeTypes, Item, EditKinds
    <3>2. outRing' = Append(outRing, x)  BY <1>10 DEF AskResync
    <3> HIDE DEF x
    <3>3. RingEdits' = RingEdits /\ \A i \in RingEdits : outRing'[i] = outRing[i]
      BY <3>1, <3>2 DEF RingEdits, EditKinds
    <3> QED  BY <2>1, <3>3 DEF Waiting, RingIds
  <2>4. LetGo'  BY <1>0, <2>1, <2>2, <2>3 DEF LetGo
  <2> QED  BY <1>10, <2>2, <2>4, AskOrder
           DEF AskResync, HookGoto, Coming, Asking, policy, ui
<1>11. CASE Deliver
  BY <1>11, ReceiveOrder DEF Deliver, HookGoto, policy, ui
<1> QED  BY <1>1, <1>2, <1>3, <1>4, <1>5, <1>6, <1>7, <1>8, <1>9, <1>10, <1>11 DEF HookStep

(***************************************************************************)
(* The steps of the consumer.                                              *)
(***************************************************************************)
\* The next edits that wait go to the application.
LEMMA SendsOrder ==
  ASSUME PipeInv, PlaceInv, OrderInv, OneWay', Sorted', UNCHANGED <<hook, history>>,
         NEW q \in Seq(Nat), doc' = doc \o q,
         \A i \in DOMAIN q : q[i] \in Waiting,
         \A i, j \in DOMAIN q : i < j => q[i] < q[j],
         Waiting' \subseteq Waiting,
         \A i \in DOMAIN q : \A x \in Waiting' : q[i] < x
  PROVE  OrderInv'
<1>1. /\ UNCHANGED <<hpc, hid, hkind, gaveUp>> /\ doc \in Seq(Nat)
      /\ Held' = Held
  BY DEF hook, history, PlaceInv, Numbered, Held
<1>2. Ahead /\ InOrder /\ LetGo  BY DEF OrderInv
<1>3. InOrder'
  <2>1. \A i \in DOMAIN q : Due(q[i])  BY <1>2 DEF Ahead
  <2> QED  BY <1>1, <1>2, <2>1, OrderLater
<1>4. ASSUME NEW x \in Waiting'
      PROVE  \A i \in DOMAIN doc' : doc'[i] < x \/ doc'[i] \in gaveUp'
  <2>1. Due(x)  BY <1>2, <1>4 DEF Ahead
  <2> QED  BY <1>1, <1>4, <2>1, DueLater
<1>5. ASSUME Held
      PROVE  /\ \A i \in DOMAIN doc' : doc'[i] < hid \/ doc'[i] \in gaveUp'
             /\ \A x \in Waiting' : x < hid
  <2>1. Due(hid) /\ \A x \in Waiting : x < hid  BY <1>2, <1>5 DEF Ahead
  <2>2. \A i \in DOMAIN q : q[i] < hid  BY <2>1
  <2>3. \A i \in DOMAIN doc' : doc'[i] < hid \/ doc'[i] \in gaveUp'
    BY <1>1, <2>1, <2>2, DueLater
  <2> QED  BY <2>1, <2>3
<1>6. Ahead'  BY <1>1, <1>4, <1>5 DEF Ahead, Due
<1>7. LetGo'  BY <1>1, <1>2 DEF LetGo
<1> QED  BY <1>3, <1>6, <1>7 DEF OrderInv

\* Steps that send nothing.
LEMMA KeepsOrder ==
  ASSUME PipeInv, PlaceInv, OrderInv, OneWay', Sorted', UNCHANGED <<hook, history, doc>>,
         Waiting' \subseteq Waiting
  PROVE  OrderInv'
<1> DEFINE q == <<>>
<1>1. doc \in Seq(Nat)  BY DEF PlaceInv, Numbered
<1>2. q \in Seq(Nat) /\ doc' = doc \o q /\ DOMAIN q = {}  BY <1>1
<1> HIDE DEF q
<1> QED  BY <1>2, SendsOrder

LEMMA StandsOrder ==
  ASSUME PipeInv, PlaceInv, OrderInv,
         StartDrain \/ PopNothing \/ ConsumerRelease \/ ConsumerNotify \/ Refocus
  PROVE  OrderInv'
<1>1. /\ UNCHANGED <<hook, history, outRing, batch, doc, enabled, upc>>
      /\ cpc' \in {"idle", "pop", "commit", "notify", cret}
  BY DEF StartDrain, PopNothing, ConsumerRelease, ConsumerNotify, Refocus, policy, ui
<1>2. UNCHANGED <<BatchIds, RingIds, RingEdits>>  BY <1>1 DEF BatchIds, RingIds, RingEdits
<1>3. item' = item \/ item'.kind = "None"
  BY DEF StartDrain, PopNothing, ConsumerRelease, ConsumerNotify, Refocus, NoItem
<1>4. cret # "suffix"  BY DEF PipeInv, InHand, Returns
<1>5. OneWay'  BY <1>1, <1>3, <1>4 DEF OrderInv, OneWay, hook, history
<1>6. Sorted'
  BY <1>1, <1>2, <1>3 DEF OrderInv, Sorted
<1>7. Waiting' \subseteq Waiting  BY <1>2, <1>3 DEF Waiting
<1> QED  BY <1>1, <1>5, <1>6, <1>7, KeepsOrder

\* What the ring holds once its first item is gone.
LEMMA RingShift ==
  ASSUME outRing \in Seq(Item), outRing # <<>>, outRing' = Tail(outRing)
  PROVE  /\ \A i \in RingEdits' :
               i \in Nat /\ i + 1 \in RingEdits /\ 1 < i + 1 /\ outRing'[i] = outRing[i + 1]
         /\ Head(outRing) = outRing[1] /\ Head(outRing) \in Item
         /\ Head(outRing).kind \in EditKinds => 1 \in RingEdits
         /\ RingIds' \subseteq RingIds
         /\ Len(outRing') < Len(outRing)
<1>1. /\ Len(outRing) \in Nat /\ Len(outRing') = Len(outRing) - 1
      /\ DOMAIN outRing = 1 .. Len(outRing) /\ DOMAIN outRing' = 1 .. Len(outRing) - 1
      /\ \A i \in 1 .. Len(outRing) - 1 : outRing'[i] = outRing[i + 1]
      /\ Head(outRing) = outRing[1] /\ Head(outRing) \in Item /\ 1 \in DOMAIN outRing
  OBVIOUS
<1>2. \A i \in RingEdits' :
        i \in Nat /\ i + 1 \in RingEdits /\ 1 < i + 1 /\ outRing'[i] = outRing[i + 1]
  BY <1>1 DEF RingEdits
<1>3. Head(outRing).kind \in EditKinds => 1 \in RingEdits
  BY <1>1 DEF RingEdits, EditKinds
<1>4. RingIds' \subseteq RingIds  BY <1>2 DEF RingIds
<1>5. Len(outRing') < Len(outRing)  BY <1>1
<1> QED  BY <1>1, <1>2, <1>3, <1>4, <1>5

\* The head of the ring is older than the edits behind it.
LEMMA HeadFirst ==
  ASSUME outRing \in Seq(Item), outRing # <<>>, outRing' = Tail(outRing), Sorted
  PROVE  /\ \A i, j \in RingEdits' : i < j => outRing'[i].id < outRing'[j].id
         /\ Head(outRing).kind \in EditKinds =>
              /\ Head(outRing).id \in RingIds
              /\ \A y \in RingIds' : Head(outRing).id < y
<1>1. /\ \A i \in RingEdits' :
           i \in Nat /\ i + 1 \in RingEdits /\ 1 < i + 1 /\ outRing'[i] = outRing[i + 1]
      /\ Head(outRing) = outRing[1]
      /\ Head(outRing).kind \in EditKinds => 1 \in RingEdits
  BY RingShift
<1>2. ASSUME NEW i \in RingEdits', NEW j \in RingEdits', i < j
      PROVE  outRing'[i].id < outRing'[j].id
  <2>1. i + 1 < j + 1 /\ i + 1 \in RingEdits /\ j + 1 \in RingEdits  BY <1>1, <1>2
  <2> QED  BY <1>1, <2>1 DEF Sorted
<1>3. ASSUME Head(outRing).kind \in EditKinds
      PROVE  /\ Head(outRing).id \in RingIds
             /\ \A y \in RingIds' : Head(outRing).id < y
  <2>1. Head(outRing).id \in RingIds  BY <1>1, <1>3 DEF RingIds
  <2>2. ASSUME NEW y \in RingIds' PROVE Head(outRing).id < y
    <3>1. PICK i \in RingEdits' : y = outRing'[i].id  BY <2>2 DEF RingIds
    <3> QED  BY <1>1, <1>3, <3>1 DEF Sorted
  <2> QED  BY <2>1, <2>2
<1> QED  BY <1>2, <1>3

LEMMA PopEditOrder == ASSUME PipeInv, PlaceInv, OrderInv, PopEdit PROVE OrderInv'
<1> DEFINE h == Head(outRing)
<1>1. /\ UNCHANGED <<hook, history, item, doc, enabled, upc>>
      /\ outRing \in Seq(Item) /\ outRing # <<>> /\ outRing' = Tail(outRing)
      /\ batch \in Seq(Nat) /\ batch' = Append(batch, h.id) /\ h.kind \in EditKinds
      /\ cpc = "pop" /\ cpc' \in {"commit", "pop"} /\ Sorted
  BY DEF PopEdit, PipeInv, PipeTypes, EditKinds, policy, ui, OrderInv
<1>2. item.kind # "InlineEdit" /\ item'.kind # "InlineEdit"
  BY <1>1 DEF PipeInv, InHand, Commits
<1>3. /\ \A i, j \in RingEdits' : i < j => outRing'[i].id < outRing'[j].id
      /\ h.id \in RingIds /\ \A y \in RingIds' : h.id < y
  BY <1>1, HeadFirst
<1>4. h \in Item /\ RingIds' \subseteq RingIds /\ Len(outRing') < Len(outRing)
  BY <1>1, RingShift
<1>5. h.id \in Nat  BY <1>4 DEF Item
<1> HIDE DEF h
<1>6. /\ DOMAIN batch = 1 .. Len(batch) /\ Len(batch) \in Nat
      /\ DOMAIN batch' = 1 .. Len(batch) + 1
      /\ \A i \in 1 .. Len(batch) : batch'[i] = batch[i]
      /\ batch'[Len(batch) + 1] = h.id
  BY <1>1, <1>5
<1>7. BatchIds' = BatchIds \cup {h.id}  BY <1>6 DEF BatchIds
<1>8. Sorted'
  <2>1. ASSUME NEW i \in DOMAIN batch', NEW j \in DOMAIN batch', i < j
        PROVE  batch'[i] < batch'[j]
    <3>1. i \in 1 .. Len(batch) /\ batch'[i] = batch[i] /\ batch[i] \in BatchIds
      BY <1>6, <2>1 DEF BatchIds
    <3>2. CASE j \in 1 .. Len(batch)  BY <1>1, <1>6, <2>1, <3>1, <3>2 DEF Sorted
    <3>3. CASE j = Len(batch) + 1  BY <1>1, <1>3, <1>6, <3>1, <3>3 DEF Sorted
    <3> QED  BY <1>6, <3>2, <3>3
  <2>2. \A x \in BatchIds', y \in RingIds' : x < y
    BY <1>1, <1>3, <1>4, <1>7 DEF Sorted
  <2> QED  BY <1>2, <1>3, <2>1, <2>2 DEF Sorted
<1>9. OneWay'
  <2>1. Len(outRing) \in Nat /\ Len(outRing') \in Nat /\ hid \in Nat
    BY <1>1 DEF PipeInv, PipeTypes
  <2> QED  BY <1>1, <1>4, <2>1 DEF OrderInv, OneWay, hook, history
<1>10. Waiting' \subseteq Waiting  BY <1>2, <1>3, <1>4, <1>7 DEF Waiting
<1> QED  BY <1>1, <1>8, <1>9, <1>10, KeepsOrder

LEMMA PopOtherOrder == ASSUME PipeInv, PlaceInv, OrderInv, PopOther PROVE OrderInv'
<1> DEFINE h == Head(outRing)
<1>1. /\ UNCHANGED <<hook, history, batch, doc, enabled, upc>>
      /\ outRing \in Seq(Item) /\ outRing # <<>> /\ outRing' = Tail(outRing)
      /\ item' = h /\ cpc = "pop" /\ h.kind # "Edit" /\ Sorted
      /\ cpc' \in {cret', "commit"}
  BY DEF PopOther, PipeInv, PipeTypes, policy, ui, OrderInv
<1>2. /\ \A i, j \in RingEdits' : i < j => outRing'[i].id < outRing'[j].id
      /\ h.kind \in EditKinds => h.id \in RingIds /\ \A y \in RingIds' : h.id < y
  BY <1>1, HeadFirst
<1>3. h \in Item /\ RingIds' \subseteq RingIds /\ Len(outRing') < Len(outRing)
  BY <1>1, RingShift
<1>4. cpc' # "suffix"
  <2>1. h.kind \in {"InlineEdit", "ForegroundChanged", "Resync"}
    BY <1>1, <1>3 DEF Item, EditKinds
  <2> QED  BY <2>1 DEF PopOther
<1> HIDE DEF h
<1>5. BatchIds' = BatchIds  BY <1>1 DEF BatchIds
<1>6. Sorted'
  <2>1. \A x \in BatchIds', y \in RingIds' : x < y  BY <1>1, <1>3, <1>5 DEF Sorted
  <2>2. item'.kind = "InlineEdit" =>
          (\A x \in BatchIds' : x < item'.id) /\ (\A y \in RingIds' : item'.id < y)
    BY <1>1, <1>2, <1>5 DEF Sorted, EditKinds
  <2> QED  BY <1>1, <1>2, <2>1, <2>2 DEF Sorted
<1>7. OneWay'
  <2>1. Len(outRing) \in Nat /\ Len(outRing') \in Nat /\ hid \in Nat
    BY <1>1 DEF PipeInv, PipeTypes
  <2> QED  BY <1>1, <1>3, <1>4, <2>1 DEF OrderInv, OneWay, hook, history
<1>8. Waiting' \subseteq Waiting
  BY <1>1, <1>2, <1>3, <1>5 DEF Waiting, EditKinds
<1> QED  BY <1>1, <1>6, <1>7, <1>8, KeepsOrder

LEMMA CommitOrder ==
  ASSUME PipeInv, PlaceInv, OrderInv, NEW n \in 0 .. BatchCap, Commit(n) PROVE OrderInv'
<1> DEFINE q == SubSeq(batch, 1, n)
           r == SubSeq(batch, n + 1, Len(batch))
<1>1. /\ UNCHANGED <<hook, history, outRing, item, enabled, upc>>
      /\ batch \in Seq(Nat) /\ n \in 0 .. Len(batch)
      /\ doc' = doc \o q /\ batch' = r /\ owed' = Len(batch)
      /\ cpc' = IF n = Len(batch) THEN "release" ELSE "suffix"
      /\ Sorted
  BY DEF Commit, PipeInv, PipeTypes, ui, OrderInv
<1>2. /\ q \in Seq(Nat) /\ Len(q) = n /\ \A i \in 1 .. n : q[i] = batch[i]
      /\ r \in Seq(Nat) /\ Len(r) = Len(batch) - n
      /\ \A i \in 1 .. Len(batch) - n : r[i] = batch[n + i]
  BY <1>1, SplitAt
<1> HIDE DEF q, r
<1>3. /\ DOMAIN batch = 1 .. Len(batch) /\ Len(batch) \in Nat /\ n \in Nat
      /\ DOMAIN q = 1 .. n /\ DOMAIN batch' = 1 .. Len(batch) - n
      /\ \A i \in DOMAIN q : i \in DOMAIN batch /\ i <= n /\ q[i] = batch[i]
      /\ \A i \in DOMAIN batch' :
           n + i \in DOMAIN batch /\ n < n + i /\ batch'[i] = batch[n + i]
  <2>1. DOMAIN batch = 1 .. Len(batch) /\ Len(batch) \in Nat  BY <1>1
  <2>2. n \in Nat /\ n <= Len(batch)  BY <1>1, <2>1
  <2>3. DOMAIN q = 1 .. n /\ DOMAIN batch' = 1 .. Len(batch) - n
    BY <1>1, <1>2, <2>1, <2>2
  <2>4. \A i \in 1 .. n : i \in 1 .. Len(batch) /\ i <= n /\ q[i] = batch[i]
    BY <1>2, <2>1, <2>2
  <2>5. \A i \in 1 .. Len(batch) - n :
          n + i \in 1 .. Len(batch) /\ n < n + i /\ batch'[i] = batch[n + i]
    BY <1>1, <1>2, <2>1, <2>2
  <2> QED  BY <2>1, <2>2, <2>3, <2>4, <2>5
<1>4. UNCHANGED <<RingIds, RingEdits>>  BY <1>1 DEF RingIds, RingEdits
<1>5. BatchIds' \subseteq BatchIds  BY <1>3 DEF BatchIds
<1>6. Waiting' \subseteq Waiting  BY <1>1, <1>4, <1>5 DEF Waiting
<1>7. Sorted'
  <2>1. ASSUME NEW i \in DOMAIN batch', NEW j \in DOMAIN batch', i < j
        PROVE  batch'[i] < batch'[j]
    <3>1. n + i < n + j  BY <1>3, <2>1
    <3> QED  BY <1>1, <1>3, <3>1 DEF Sorted
  <2> QED  BY <1>1, <1>4, <1>5, <2>1 DEF Sorted
<1>8. OneWay'
  <2>1. cpc' = "suffix" => owed' # 0  BY <1>1, <1>3
  <2> QED  BY <1>1, <2>1 DEF OrderInv, OneWay, hook, history
<1>9. \A i \in DOMAIN q : q[i] \in BatchIds /\ q[i] \in Waiting
  BY <1>3 DEF BatchIds, Waiting
<1>10. \A i, j \in DOMAIN q : i < j => q[i] < q[j]  BY <1>1, <1>3 DEF Sorted
<1>11. ASSUME NEW i \in DOMAIN q, NEW x \in Waiting' PROVE q[i] < x
  <2>1. CASE x \in BatchIds'
    <3>1. PICK j \in DOMAIN batch' : x = batch'[j]  BY <2>1 DEF BatchIds
    <3>2. i < n + j  BY <1>3, <3>1
    <3> QED  BY <1>1, <1>3, <3>1, <3>2 DEF Sorted
  <2>2. CASE x \in RingIds'  BY <1>1, <1>4, <1>9, <2>2 DEF Sorted
  <2>3. CASE item'.kind = "InlineEdit" /\ x = item'.id
    BY <1>1, <1>9, <2>3 DEF Sorted
  <2> QED  BY <1>11, <2>1, <2>2, <2>3 DEF Waiting
<1> QED  BY <1>1, <1>2, <1>6, <1>7, <1>8, <1>9, <1>10, <1>11, SendsOrder

LEMMA SendSuffixOrder == ASSUME PipeInv, PlaceInv, OrderInv, SendSuffix PROVE OrderInv'
<1> DEFINE h == Head(batch)
           q == <<h>>
<1>1. /\ UNCHANGED <<hook, history, outRing, item, enabled, upc, owed>>
      /\ batch \in Seq(Nat) /\ doc \in Seq(Nat) /\ batch # <<>>
      /\ doc' = Append(doc, h) /\ batch' = Tail(batch)
      /\ cpc = "suffix" /\ cpc' \in {"release", "suffix"} /\ Sorted
  BY DEF SendSuffix, PipeInv, PipeTypes, PlaceInv, Numbered, policy, ui, OrderInv
<1>2. /\ DOMAIN batch = 1 .. Len(batch) /\ Len(batch) \in Nat /\ 1 \in DOMAIN batch
      /\ h = batch[1] /\ h \in Nat
      /\ DOMAIN batch' = 1 .. Len(batch) - 1
      /\ \A i \in DOMAIN batch' :
           i \in Nat /\ i + 1 \in DOMAIN batch /\ 1 < i + 1 /\ batch'[i] = batch[i + 1]
  <2>1. DOMAIN batch = 1 .. Len(batch) /\ Len(batch) \in Nat \ {0}  BY <1>1
  <2>2. h = batch[1] /\ h \in Nat  BY <1>1
  <2>3. DOMAIN batch' = 1 .. Len(batch) - 1  BY <1>1
  <2>4. \A i \in 1 .. Len(batch) - 1 : batch'[i] = batch[i + 1]  BY <1>1
  <2> QED  BY <2>1, <2>2, <2>3, <2>4
<1> HIDE DEF h
<1>3. /\ q \in Seq(Nat) /\ doc' = doc \o q /\ DOMAIN q = {1} /\ q[1] = h
      /\ \A i, j \in DOMAIN q : i < j => q[i] < q[j]
  BY <1>1, <1>2
<1> HIDE DEF q
<1>4. UNCHANGED <<RingIds, RingEdits>>  BY <1>1 DEF RingIds, RingEdits
<1>5. BatchIds' \subseteq BatchIds /\ h \in BatchIds  BY <1>2 DEF BatchIds
<1>6. Waiting' \subseteq Waiting /\ h \in Waiting  BY <1>1, <1>4, <1>5 DEF Waiting
<1>7. Sorted'
  <2>1. ASSUME NEW i \in DOMAIN batch', NEW j \in DOMAIN batch', i < j
        PROVE  batch'[i] < batch'[j]
    <3>1. i + 1 < j + 1  BY <1>2, <2>1
    <3> QED  BY <1>1, <1>2, <3>1 DEF Sorted
  <2> QED  BY <1>1, <1>4, <1>5, <2>1 DEF Sorted
<1>8. OneWay'  BY <1>1 DEF OrderInv, OneWay, hook, history
<1>9. ASSUME NEW x \in Waiting' PROVE h < x
  <2>1. CASE x \in BatchIds'
    <3>1. PICK j \in DOMAIN batch' : x = batch'[j]  BY <2>1 DEF BatchIds
    <3> QED  BY <1>1, <1>2, <3>1 DEF Sorted
  <2>2. CASE x \in RingIds'  BY <1>1, <1>4, <1>5, <2>2 DEF Sorted
  <2>3. CASE item'.kind = "InlineEdit" /\ x = item'.id
    BY <1>1, <1>5, <2>3 DEF Sorted
  <2> QED  BY <1>9, <2>1, <2>2, <2>3 DEF Waiting
<1> QED  BY <1>1, <1>3, <1>6, <1>7, <1>8, <1>9, SendsOrder

LEMMA SendDeferredOrder == ASSUME PipeInv, PlaceInv, OrderInv, SendDeferred PROVE OrderInv'
<1> DEFINE q == <<item.id>>
<1>1. /\ UNCHANGED <<hook, history, outRing, batch, enabled, upc>>
      /\ doc \in Seq(Nat) /\ doc' = Append(doc, item.id)
      /\ item'.kind = "None" /\ cpc = "inline" /\ cpc' = "release" /\ Sorted
  BY DEF SendDeferred, PlaceInv, Numbered, policy, ui, NoItem, OrderInv
<1>2. item.kind = "InlineEdit" /\ batch = <<>>
  BY <1>1 DEF PipeInv, InHand, Fetched, Commits
<1>3. item.id \in Waiting /\ item.id \in Nat
  BY <1>2, WaitingEdits DEF Waiting
<1>4. /\ q \in Seq(Nat) /\ doc' = doc \o q /\ DOMAIN q = {1} /\ q[1] = item.id
      /\ \A i, j \in DOMAIN q : i < j => q[i] < q[j]
  BY <1>1, <1>3
<1> HIDE DEF q
<1>5. UNCHANGED <<RingIds, RingEdits, BatchIds>> /\ BatchIds = {}
  BY <1>1, <1>2 DEF RingIds, RingEdits, BatchIds
<1>6. Waiting' = RingIds /\ Waiting' \subseteq Waiting  BY <1>1, <1>5 DEF Waiting
<1>7. Sorted'  BY <1>1, <1>5 DEF Sorted
<1>8. OneWay'  BY <1>1 DEF OrderInv, OneWay, hook, history
<1>9. \A x \in Waiting' : item.id < x  BY <1>1, <1>2, <1>6 DEF Sorted
<1> QED  BY <1>1, <1>3, <1>4, <1>6, <1>7, <1>8, <1>9, SendsOrder

LEMMA StepOrder ==
  ASSUME OrderedPath
  PROVE  PipeInv /\ PlaceInv /\ OrderInv /\ [Next]_vars => OrderInv'
<1> SUFFICES ASSUME PipeInv, PlaceInv, OrderInv, [Next]_vars PROVE OrderInv'
  OBVIOUS
<1>1. ASSUME NEW k \in Kinds, Arrive(k) PROVE OrderInv'  BY <1>1, ArriveOrder
<1>2. CASE HookStep  BY <1>2, HookStepOrder
<1>3. CASE ConsumerStep
  <2>1. ASSUME NEW n \in 0 .. BatchCap, Commit(n) PROVE OrderInv'  BY <2>1, CommitOrder
  <2>2. ~PopEditOom  BY DEF PopEditOom, OrderedPath
  <2>3. ~SendDirect
    BY DEF SendDirect, OrderInv, OneWay, PlaceInv, InHandDirect
  <2> QED  BY <1>3, <2>1, <2>2, <2>3, StandsOrder, PopEditOrder, PopOtherOrder,
              SendSuffixOrder, SendDeferredOrder DEF ConsumerStep
<1>4. CASE Policy \/ UNCHANGED vars
  <2>1. UNCHANGED <<hook, outRing, consumer, doc, enabled, upc, arrivals, quiesced, gaveUp>>
    BY <1>4 DEF Policy, history, vars, policy, ui
  <2>2. UNCHANGED <<Waiting, hpc, hid, hkind>>
    BY <2>1 DEF hook, consumer, Waiting, BatchIds, RingIds, RingEdits
  <2>3. LetGo' /\ Held' = Held  BY <2>1, <2>2 DEF OrderInv, LetGo, Held
  <2>4. hpc' \notin {"rolled", "emit"}  BY <2>2 DEF OrderInv, OneWay
  <2> QED  BY <2>1, <2>2, <2>3, <2>4, OrderMoves
<1>5. CASE BeginOff \/ TurnOn \/ BeginResume \/ UiDrain
  <2>1. upc = "idle"  BY DEF OrderInv, OneWay
  <2>2. ~(BeginOff \/ TurnOn \/ BeginResume)
    BY <2>1 DEF BeginOff, TurnOn, BeginResume, OrderedPath
  <2>3. ~UiDrain
    BY <2>1 DEF UiDrain, StoreOff, DrainDone, DrainWait, DrainAwake, DrainEnds, DrainAgain,
                ForceQuiesce, QuiesceNotify, UiGoto
  <2> QED  BY <1>5, <2>2, <2>3
<1> QED  BY <1>1, <1>2, <1>3, <1>4, <1>5 DEF Next

(* On the way through the ring what was typed reaches the application in   *)
(* the order typed, whichever commits fail half-way and however the policy *)
(* changes under it; only a key whose wait ran out comes before an edit.   *)
THEOREM TypedOrder == ASSUME OrderedPath PROVE Spec => []InOrder
<1>1. Init => PipeInv /\ PlaceInv /\ OrderInv
  BY InitPipe, InitPlace, InitOrder
<1>2. PipeInv /\ PlaceInv /\ OrderInv /\ [Next]_vars => (PipeInv /\ PlaceInv /\ OrderInv)'
  BY StepPipe, StepPlace, StepOrder
<1>3. PipeInv /\ PlaceInv /\ OrderInv => InOrder  BY DEF OrderInv
<1> QED  BY <1>1, <1>2, <1>3, PTL DEF Spec
=============================================================================
