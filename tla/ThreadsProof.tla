---------------------------- MODULE ThreadsProof ----------------------------
(***************************************************************************)
(* What starts and ends, and the queue between the two hook threads, for   *)
(* every value of the constants.                                           *)
(*                                                                         *)
(* The ring: RingInv is inductive, FIFO order and the absence of data      *)
(* races follow from it, and the ring implements the bounded queue.        *)
(* The hook: start() and stop() never let two producers or two consumers   *)
(* meet on the ring, a handler outlives its call, and no event crosses     *)
(* from one session to the next.                                           *)
(* The programs: one is the instance, and a healthy one is not ended.      *)
(* The arcade: whatever the windows and the web bridge do with the one     *)
(* game, each run is counted once; ManagerInv is what every function of    *)
(* the manager keeps, and it serves both front-ends.                       *)
(* The window in front: what is cached of it belongs to it.                *)
(***************************************************************************)
EXTENDS MCThreads, DataFacts, SequenceTheorems, FiniteSetTheorems

(***************************************************************************)
(* The ring.                                                               *)
(***************************************************************************)
(* The three facts about slots the invariant needs.                        *)
LEMMA SlotRange == \A n \in Nat : SlotOf(n) \in Slots
BY RingAssumption, ModRange DEF SlotOf, Slots

LEMMA SlotsApart ==
  ASSUME NEW m \in Nat, NEW n \in Nat, m # n, m < n + Capacity, n < m + Capacity
  PROVE  SlotOf(m) # SlotOf(n)
<1>1. CASE m < n  BY <1>1, RingAssumption, DistinctSlots DEF SlotOf
<1>2. CASE n < m  BY <1>2, RingAssumption, DistinctSlots DEF SlotOf
<1> QED  BY <1>1, <1>2

LEMMA SlotLap == \A n \in Nat : SlotOf(n + Capacity) = SlotOf(n)
BY RingAssumption, SameSlotNextLap DEF SlotOf

LEMMA ArmedInOrder == \A n \in Slots : SlotOf(n) = n
BY RingAssumption, FirstLap DEF SlotOf, Slots

(* What appending one item changes, and what it leaves.                    *)
LEMMA AppendOne ==
  ASSUME NEW S, NEW s \in Seq(S), NEW x \in S
  PROVE  /\ Append(s, x) \in Seq(S)
         /\ Len(Append(s, x)) = Len(s) + 1
         /\ Append(s, x)[Len(s) + 1] = x
         /\ \A i \in 1 .. Len(s) : Append(s, x)[i] = s[i]
OBVIOUS

LEMMA InitInv == RingInit => RingInv
<1> SUFFICES ASSUME RingInit PROVE RingInv
  OBVIOUS
<1> USE RingAssumption
<1>1. RingTypeOK
  BY DEF RingInit, RingTypeOK, Armed, Slots
<1>2. Occupancy /\ ProducerOwns /\ ConsumerOwns /\ FifoOrder
  BY DEF RingInit, Occupancy, Published, Released, ProducerOwns, ConsumerOwns, FifoOrder
<1>3. SlotsFull
  BY DEF RingInit, SlotsFull, Published, Released
<1>4. SlotsFree
  BY ArmedInOrder DEF RingInit, SlotsFree, Published, Released, Armed, Slots
<1> QED  BY <1>1, <1>2, <1>3, <1>4 DEF RingInv

LEMMA StepInv == RingInv /\ [RingNext]_spscVars => RingInv'
<1> SUFFICES ASSUME RingInv, [RingNext]_spscVars PROVE RingInv'
  OBVIOUS
<1> DEFINE lo == Released
           hi == Published
<1>0. RingTypeOK /\ Capacity \in Nat \ {0, 1}
  BY RingAssumption DEF RingInv
<1>1. /\ lo \in Nat /\ hi \in Nat /\ lo <= hi /\ hi <= lo + Capacity
      /\ Len(sent) = hi /\ Len(got) = lo
  BY <1>0 DEF RingInv, RingTypeOK, Occupancy, Released, Published
<1>2. CASE PushFull
  BY <1>2 DEF PushFull, ringVars, consumerVars, RingInv, RingTypeOK, Occupancy, SlotsFull,
     SlotsFree, ProducerOwns, ConsumerOwns, FifoOrder, Published, Released
<1>3. ASSUME NEW x \in Items, PushClaim(x) PROVE RingInv'
  <2>1. head = hi /\ seq[SlotOf(head)] = head
    BY <1>3, <1>0 DEF PushClaim, CanPush, Published, RingTypeOK
  <2>2. hi # lo + Capacity
    <3>1. SUFFICES ASSUME hi = lo + Capacity PROVE FALSE
      OBVIOUS
    <3>2. SlotOf(head) = SlotOf(lo)
      BY <1>1, <2>1, <3>1, SlotLap
    <3>3. seq[SlotOf(lo)] = lo + 1
      BY <1>0, <1>1, <3>1 DEF RingInv, SlotsFull
    <3> QED  BY <1>0, <1>1, <2>1, <3>1, <3>2, <3>3
  <2>3. head < Released + Capacity
    BY <1>0, <1>1, <2>1, <2>2
  <2> QED
    BY <1>3, <2>3 DEF PushClaim, ringVars, consumerVars, RingInv, RingTypeOK, Occupancy, SlotsFull,
       SlotsFree, ProducerOwns, ConsumerOwns, FifoOrder, Published, Released
<1>4. CASE PushWrite
  <2>1. head = hi /\ hi < lo + Capacity /\ SlotOf(head) \in Slots
    BY <1>4, <1>0, SlotRange DEF PushWrite, Published, RingTypeOK, RingInv, ProducerOwns
  <2>2. RingTypeOK' /\ Occupancy' /\ SlotsFree' /\ FifoOrder' /\ lo' = lo /\ hi' = hi
    BY <1>4, <1>0 DEF PushWrite, consumerVars, RingInv, RingTypeOK, Occupancy,
       SlotsFree, FifoOrder, Published, Released
  <2>3. \A n \in lo .. hi - 1 : SlotOf(n) # SlotOf(head)
    BY <1>0, <1>1, <2>1, SlotsApart
  <2>4. SlotsFull'
    BY <1>4, <1>0, <1>1, <2>2, <2>3, SlotRange DEF PushWrite, consumerVars, RingInv, SlotsFull, RingTypeOK
  <2>5. ProducerOwns' /\ ConsumerOwns'
    BY <1>4, <1>0, <2>1, <2>2 DEF PushWrite, consumerVars, RingInv, ProducerOwns, ConsumerOwns, RingTypeOK
  <2> QED  BY <2>2, <2>4, <2>5 DEF RingInv
<1>5. CASE PushPublish
  <2>1. /\ head = hi /\ hi < lo + Capacity /\ SlotOf(head) \in Slots
        /\ pitem \in Items /\ data[SlotOf(head)] = pitem
    BY <1>5, <1>0, SlotRange DEF PushPublish, Published, RingTypeOK, RingInv, ProducerOwns
  <2>2. lo' = lo /\ hi' = hi + 1 /\ Len(sent') = Len(sent) + 1 /\ sent'[hi + 1] = pitem
    <3>1. lo' = lo /\ hi' = hi + 1
      BY <1>5, <1>0 DEF PushPublish, consumerVars, Published, Released, RingTypeOK
    <3> QED  BY <1>5, <1>0, <1>1, <3>1, AppendOne DEF PushPublish, RingTypeOK
  <2>3. \A i \in 1 .. hi : sent'[i] = sent[i]
    BY <1>5, <1>0, <1>1, AppendOne DEF PushPublish, RingTypeOK
  <2>4. RingTypeOK'
    BY <1>5, <1>0, <2>1 DEF PushPublish, consumerVars, RingTypeOK
  <2>5. Occupancy'
    BY <1>5, <1>0, <1>1, <2>1, <2>2 DEF PushPublish, consumerVars, Occupancy
  <2>6. \A n \in lo .. lo + Capacity - 1 : n # head => SlotOf(n) # SlotOf(head)
    BY <1>0, <1>1, <2>1, SlotsApart
  <2>7. \A n \in lo .. lo + Capacity - 1 : n # head => seq'[SlotOf(n)] = seq[SlotOf(n)]
    BY <1>5, <1>0, <1>1, <2>6, SlotRange DEF PushPublish, RingTypeOK
  <2>8. seq'[SlotOf(head)] = head + 1 /\ data' = data
    BY <1>5, <1>0, <2>1 DEF PushPublish, RingTypeOK
  <2>9. SlotsFull'
    <3> SUFFICES ASSUME NEW n \in lo .. hi
                 PROVE  seq'[SlotOf(n)] = n + 1 /\ data[SlotOf(n)] = sent'[n + 1]
      BY <1>1, <2>2, <2>8 DEF SlotsFull
    <3>1. CASE n = hi  BY <3>1, <2>1, <2>2, <2>8
    <3>2. CASE n < hi  BY <3>2, <1>0, <1>1, <2>1, <2>3, <2>7 DEF RingInv, SlotsFull
    <3> QED  BY <3>1, <3>2, <1>1
  <2>10. SlotsFree'
    BY <1>0, <1>1, <2>1, <2>2, <2>7 DEF RingInv, SlotsFree
  <2>11. ProducerOwns'
    BY <1>5 DEF PushPublish, ProducerOwns
  <2>12. ConsumerOwns'
    <3>1. cpc \in {"read", "release"} => tail < hi /\ tail \in Nat
      BY <1>0 DEF RingInv, ConsumerOwns, RingTypeOK
    <3> QED
      BY <1>5, <1>0, <1>1, <2>2, <2>3, <3>1
         DEF PushPublish, consumerVars, RingInv, ConsumerOwns
  <2>13. FifoOrder'
    <3>1. \A i \in 1 .. lo : got[i] = sent'[i]
      BY <1>1, <2>3 DEF RingInv, FifoOrder
    <3> QED  BY <1>5, <1>1, <2>2, <3>1 DEF PushPublish, consumerVars, FifoOrder
  <2> QED  BY <2>4, <2>5, <2>9, <2>10, <2>11, <2>12, <2>13 DEF RingInv
<1>6. CASE PushAdvance
  <2>1. lo' = lo /\ hi' = hi
    BY <1>6, <1>0 DEF PushAdvance, consumerVars, Published, Released, RingTypeOK
  <2> QED
    BY <1>6, <1>0, <2>1 DEF PushAdvance, consumerVars, RingInv, RingTypeOK, Occupancy, SlotsFull,
       SlotsFree, ProducerOwns, ConsumerOwns, FifoOrder
<1>7. CASE PopEmpty
  BY <1>7 DEF PopEmpty, ringVars, producerVars, RingInv, RingTypeOK, Occupancy, SlotsFull,
     SlotsFree, ProducerOwns, ConsumerOwns, FifoOrder, Published, Released
<1>8. CASE PopClaim
  <2>1. tail = lo /\ seq[SlotOf(tail)] = tail + 1
    BY <1>8, <1>0 DEF PopClaim, CanPop, Released, RingTypeOK
  <2>2. lo < hi
    BY <1>0, <1>1, <2>1 DEF RingInv, SlotsFree
  <2> QED
    BY <1>8, <2>1, <2>2 DEF PopClaim, ringVars, producerVars, RingInv, RingTypeOK, Occupancy, SlotsFull,
       SlotsFree, ProducerOwns, ConsumerOwns, FifoOrder, Published, Released
<1>9. CASE PopRead
  <2>1. tail = lo /\ lo < hi /\ SlotOf(tail) \in Slots
    BY <1>9, <1>0, SlotRange DEF PopRead, Released, RingTypeOK, RingInv, ConsumerOwns
  <2>2. out' = sent[tail + 1]
    BY <1>9, <1>1, <2>1 DEF PopRead, RingInv, SlotsFull
  <2>3. RingTypeOK' /\ lo' = lo /\ hi' = hi
    BY <1>9, <1>0, <2>1 DEF PopRead, ringVars, producerVars, RingTypeOK, Published, Released
  <2> QED
    BY <1>9, <2>1, <2>2, <2>3 DEF PopRead, ringVars, producerVars, RingInv, Occupancy, SlotsFull,
       SlotsFree, ProducerOwns, ConsumerOwns, FifoOrder
<1>10. CASE PopRelease
  <2>1. /\ tail = lo /\ lo < hi /\ SlotOf(tail) \in Slots
        /\ out = sent[tail + 1]
    BY <1>10, <1>0, SlotRange DEF PopRelease, Released, RingTypeOK, RingInv, ConsumerOwns
  <2>2. lo' = lo + 1 /\ hi' = hi /\ Len(got') = Len(got) + 1 /\ got'[lo + 1] = out
    <3>1. lo' = lo + 1 /\ hi' = hi
      BY <1>10, <1>0 DEF PopRelease, producerVars, Published, Released, RingTypeOK
    <3> QED  BY <1>10, <1>0, <1>1, <3>1, AppendOne DEF PopRelease, RingTypeOK
  <2>3. \A i \in 1 .. lo : got'[i] = got[i]
    BY <1>10, <1>0, <1>1, AppendOne DEF PopRelease, RingTypeOK
  <2>4. RingTypeOK'
    <3>1. got' \in Seq(Items \cup {NoItem})
      BY <1>10, <1>0, AppendOne DEF PopRelease, RingTypeOK
    <3>2. Rearm(tail) \in Nat
      BY <1>0 DEF RingTypeOK, Rearm
    <3>3. seq' \in [Slots -> Nat]
      BY <1>10, <1>0, <3>2 DEF PopRelease, RingTypeOK
    <3> QED  BY <1>10, <1>0, <3>1, <3>3 DEF PopRelease, producerVars, RingTypeOK
  <2>5. Occupancy'
    BY <1>10, <1>0, <1>1, <2>1, <2>2 DEF PopRelease, producerVars, Occupancy
  <2>6. \A n \in lo + 1 .. lo + Capacity - 1 : SlotOf(n) # SlotOf(tail)
    BY <1>0, <1>1, <2>1, SlotsApart
  <2>7. \A n \in lo + 1 .. lo + Capacity - 1 : seq'[SlotOf(n)] = seq[SlotOf(n)]
    BY <1>10, <1>0, <1>1, <2>6, SlotRange DEF PopRelease, RingTypeOK
  <2>8. seq'[SlotOf(lo + Capacity)] = lo + Capacity
    BY <1>10, <1>0, <1>1, <2>1, SlotLap DEF PopRelease, RingTypeOK, Rearm
  <2>9. SlotsFull'
    BY <1>10, <1>0, <1>1, <2>1, <2>2, <2>7 DEF PopRelease, producerVars, RingInv, SlotsFull
  <2>10. SlotsFree'
    <3> SUFFICES ASSUME NEW n \in hi .. lo + Capacity PROVE seq'[SlotOf(n)] = n
      BY <1>0, <1>1, <2>2 DEF SlotsFree
    <3>1. CASE n = lo + Capacity  BY <3>1, <2>8
    <3>2. CASE n < lo + Capacity  BY <3>2, <1>0, <1>1, <2>1, <2>7 DEF RingInv, SlotsFree
    <3> QED  BY <3>1, <3>2, <1>0, <1>1
  <2>11. ProducerOwns' /\ ConsumerOwns'
    BY <1>10, <1>0, <1>1, <2>1, <2>2
       DEF PopRelease, producerVars, RingInv, ProducerOwns, ConsumerOwns, RingTypeOK
  <2>12. FifoOrder'
    BY <1>10, <1>0, <1>1, <2>1, <2>2, <2>3 DEF PopRelease, producerVars, RingInv, FifoOrder
  <2> QED  BY <2>4, <2>5, <2>9, <2>10, <2>11, <2>12 DEF RingInv
<1>11. CASE PopAdvance
  <2>1. lo' = lo /\ hi' = hi
    BY <1>11, <1>0 DEF PopAdvance, producerVars, Published, Released, RingTypeOK
  <2> QED
    BY <1>11, <1>0, <2>1 DEF PopAdvance, producerVars, RingInv, RingTypeOK, Occupancy, SlotsFull,
       SlotsFree, ProducerOwns, ConsumerOwns, FifoOrder
<1>12. CASE ResetQuiescent
  <2>1. RingTypeOK' /\ lo' = 0 /\ hi' = 0
    BY <1>12, <1>0 DEF ResetQuiescent, RingTypeOK, Armed, Slots, Published, Released
  <2>2. SlotsFree'
    BY <1>12, <1>0, <2>1, ArmedInOrder DEF ResetQuiescent, SlotsFree, Armed, Slots
  <2> QED
    BY <1>12, <1>0, <2>1, <2>2 DEF ResetQuiescent, RingInv, Occupancy, SlotsFull,
       ProducerOwns, ConsumerOwns, FifoOrder
<1>13. CASE UNCHANGED spscVars
  BY <1>13 DEF spscVars, RingInv, RingTypeOK, Occupancy, SlotsFull,
     SlotsFree, ProducerOwns, ConsumerOwns, FifoOrder, Published, Released
<1> QED
  BY <1>2, <1>3, <1>4, <1>5, <1>6, <1>7, <1>8, <1>9, <1>10, <1>11, <1>12, <1>13
     DEF RingNext, Producer, Consumer

(* What each side may rely on, at every step of either.                    *)
THEOREM RingCorrect == RingSpec => []RingInv
BY InitInv, StepInv, PTL DEF RingSpec

(* What the consumer pops is, item for item, what the producer pushed      *)
(* (SPSCRing::try_push and try_pop).                                       *)
THEOREM RingIsFifo == RingSpec => []FifoOrder
<1>1. RingInv => FifoOrder
  BY DEF RingInv
<1> QED  BY <1>1, RingCorrect, PTL

(* The unsynchronised payload of a slot is never written and read at the   *)
(* same time.                                                              *)
THEOREM RingIsRaceFree == RingSpec => []NoDataRace
<1>1. RingInv => NoDataRace
  <2> SUFFICES ASSUME RingInv, ppc = "write", cpc = "read", SlotOf(head) = SlotOf(tail)
               PROVE  FALSE
    BY DEF NoDataRace
  <2>1. head \in Nat /\ tail \in Nat /\ tail < head /\ head < tail + Capacity
    BY DEF RingInv, RingTypeOK, ProducerOwns, ConsumerOwns, Published, Released
  <2> QED  BY <2>1, RingAssumption, SlotsApart
<1> QED  BY <1>1, RingCorrect, PTL

(* Both, for every capacity and every set of items, through any number of  *)
(* laps and quiescent resets (SPSCRing).                                   *)
THEOREM RingSafe == RingSpec => []RingIsSound
BY RingCorrect, RingIsRaceFree, PTL DEF RingIsSound

(***************************************************************************)
(* Refinement.  The items between the last one released and the last one   *)
(* published are the abstract queue.                                       *)
(***************************************************************************)
Pending == SubSeq(sent, Len(got) + 1, Len(sent))

LEMMA PendingLength ==
  ASSUME RingInv
  PROVE  /\ Pending \in Seq(Items \cup {NoItem})
         /\ Len(Pending) = Published - Released
         /\ Released \in Nat /\ Published \in Nat
         /\ Len(sent) = Published /\ Len(got) = Released
         /\ Released <= Published /\ Published <= Released + Capacity
<1>1. /\ Released \in Nat /\ Published \in Nat
      /\ Len(sent) = Published /\ Len(got) = Released /\ sent \in Seq(Items \cup {NoItem})
      /\ Released <= Published /\ Published <= Released + Capacity
  BY DEF RingInv, RingTypeOK, Occupancy, Released, Published
<1>2. \A i \in Len(got) + 1 .. Len(sent) : sent[i] \in Items \cup {NoItem}
  BY <1>1
<1>3. /\ Pending \in Seq(Items \cup {NoItem})
      /\ Len(Pending) = IF Len(got) + 1 <= Len(sent) THEN Len(sent) - (Len(got) + 1) + 1 ELSE 0
  BY <1>1, <1>2, SubSeqProperties DEF Pending
<1> QED  BY <1>1, <1>3

LEMMA PendingAppend ==
  ASSUME NEW S, NEW s \in Seq(S), NEW k \in 0 .. Len(s), NEW x \in S
  PROVE  SubSeq(Append(s, x), k + 1, Len(s) + 1) = Append(SubSeq(s, k + 1, Len(s)), x)
<1> DEFINE t == Append(s, x)
           u == SubSeq(t, k + 1, Len(s) + 1)
           v == SubSeq(s, k + 1, Len(s))
<1>1. /\ t \in Seq(S) /\ Len(t) = Len(s) + 1 /\ t[Len(s) + 1] = x
      /\ \A i \in 1 .. Len(s) : t[i] = s[i]
  BY AppendOne
<1>2. Len(s) \in Nat /\ k \in Nat
  OBVIOUS
<1>3. \A i \in k + 1 .. Len(s) + 1 : t[i] \in S
  BY <1>1, <1>2
<1>4. \A i \in k + 1 .. Len(s) : s[i] \in S
  BY <1>2
<1> HIDE DEF t
<1>5. /\ u \in Seq(S) /\ Len(u) = Len(s) + 1 - k
      /\ \A i \in 1 .. Len(s) + 1 - k : u[i] = t[k + i]
  BY <1>2, <1>3, SubSeqProperties
<1>6. /\ v \in Seq(S) /\ Len(v) = Len(s) - k
      /\ \A i \in 1 .. Len(s) - k : v[i] = s[k + i]
  BY <1>2, <1>4, SubSeqProperties
<1> HIDE DEF u, v
<1>7. /\ Append(v, x) \in Seq(S) /\ Len(Append(v, x)) = Len(v) + 1
      /\ Append(v, x)[Len(v) + 1] = x
      /\ \A i \in 1 .. Len(v) : Append(v, x)[i] = v[i]
  BY <1>6, AppendOne
<1>8. ASSUME NEW i \in 1 .. Len(u) PROVE u[i] = Append(v, x)[i]
  <2>1. u[i] = t[k + i]
    BY <1>2, <1>5
  <2>2. CASE i <= Len(v)
    <3>1. k + i \in 1 .. Len(s) /\ i \in 1 .. Len(v) /\ i \in 1 .. Len(s) - k
      BY <1>2, <1>5, <1>6, <2>2
    <3>2. t[k + i] = s[k + i] /\ v[i] = s[k + i] /\ Append(v, x)[i] = v[i]
      BY <1>1, <1>6, <1>7, <3>1
    <3> QED  BY <2>1, <3>2
  <2>3. CASE i = Len(v) + 1
    <3>1. k + i = Len(s) + 1
      BY <1>2, <1>6, <2>3
    <3> QED  BY <1>1, <1>7, <2>1, <2>3, <3>1
  <2> QED  BY <1>2, <1>5, <1>6, <2>2, <2>3
<1>9. u = Append(v, x)
  BY <1>2, <1>5, <1>6, <1>7, <1>8, SeqEqual, SMTT(30)
<1> QED  BY <1>9 DEF u, v, t

LEMMA InitRefines == RingInit => Fifo!FifoInit
BY DEF RingInit, Fifo!FifoInit

LEMMA StepRefines == RingInv /\ [RingNext]_spscVars => [Fifo!FifoNext]_(Fifo!fifoVars)
<1> SUFFICES ASSUME RingInv, [RingNext]_spscVars PROVE [Fifo!FifoNext]_(Fifo!fifoVars)
  OBVIOUS
<1> DEFINE lo == Released
           hi == Published
<1>0. RingTypeOK /\ Capacity \in Nat \ {0, 1}
  BY RingAssumption DEF RingInv
<1>1. /\ Pending \in Seq(Items \cup {NoItem}) /\ Len(Pending) = hi - lo
      /\ lo \in Nat /\ hi \in Nat /\ Len(sent) = hi /\ Len(got) = lo
      /\ lo <= hi /\ hi <= lo + Capacity
  BY PendingLength
<1>2. CASE PushFull
  <2>1. head = hi /\ seq[SlotOf(head)] # head
    BY <1>2, <1>0 DEF PushFull, CanPush, Published, RingTypeOK
  <2>2. hi = lo + Capacity
    BY <1>0, <1>1, <2>1 DEF RingInv, SlotsFree
  <2>3. Len(Pending) = Capacity
    BY <1>0, <1>1, <2>2
  <2>4. Pending' = Pending /\ pushed' = FALSE /\ popped' = popped
    BY <1>2 DEF PushFull, consumerVars, Pending
  <2> QED  BY <2>3, <2>4 DEF Pending, Fifo!FifoNext, Fifo!Refuse
<1>3. CASE PushPublish
  <2>1. pitem \in Items /\ hi < lo + Capacity
    BY <1>3, <1>0 DEF PushPublish, RingInv, ProducerOwns, Published, RingTypeOK
  <2>2. sent' = Append(sent, pitem) /\ got' = got /\ Len(sent') = Len(sent) + 1
        /\ sent \in Seq(Items \cup {NoItem}) /\ pitem \in Items \cup {NoItem}
    BY <1>3, <1>0, <2>1, AppendOne DEF PushPublish, consumerVars, RingTypeOK
  <2>3. Len(got) \in 0 .. Len(sent)
    BY <1>1
  <2>4. Pending' = Append(Pending, pitem)
    BY <2>2, <2>3, PendingAppend DEF Pending
  <2>5. Fifo!Enqueue(pitem)
    BY <1>3, <1>0, <1>1, <2>1, <2>4 DEF PushPublish, consumerVars, Pending, Fifo!Enqueue
  <2> QED  BY <2>1, <2>5 DEF Fifo!FifoNext
<1>4. CASE PopEmpty
  <2>1. tail = lo /\ seq[SlotOf(tail)] # tail + 1
    BY <1>4, <1>0 DEF PopEmpty, CanPop, Released, RingTypeOK
  <2>2. lo = hi
    BY <1>0, <1>1, <2>1 DEF RingInv, SlotsFull
  <2>3. Pending = <<>>
    BY <1>1, <2>2, SubSeqEmpty DEF Pending
  <2>4. Pending' = Pending /\ popped' = NoItem /\ pushed' = pushed
    BY <1>4 DEF PopEmpty, producerVars, Pending
  <2> QED  BY <2>3, <2>4 DEF Pending, Fifo!FifoNext, Fifo!FindEmpty
<1>5. CASE PopRelease
  <2>1. tail = lo /\ lo < hi /\ out = sent[tail + 1]
    BY <1>5, <1>0 DEF PopRelease, RingInv, ConsumerOwns, Released, RingTypeOK
  <2>2. got' = Append(got, out) /\ Len(got') = lo + 1 /\ sent' = sent /\ popped' = out
        /\ pushed' = pushed /\ sent \in Seq(Items \cup {NoItem})
    BY <1>5, <1>0, <1>1, AppendOne DEF PopRelease, producerVars, RingTypeOK
  <2>3. Head(Pending) = out /\ Tail(Pending) = Pending'
    <3>1. lo + 1 \in 1 .. Len(sent) /\ Len(sent) \in lo + 1 .. Len(sent)
      BY <1>1, <2>1
    <3>2. /\ Head(SubSeq(sent, lo + 1, Len(sent))) = sent[lo + 1]
          /\ Tail(SubSeq(sent, lo + 1, Len(sent))) = SubSeq(sent, (lo + 1) + 1, Len(sent))
      BY <2>2, <3>1, HeadTailOfSubSeq
    <3> QED  BY <1>1, <2>1, <2>2, <3>2 DEF Pending
  <2>4. Pending # <<>>
    BY <1>1, <2>1
  <2>5. Fifo!Dequeue
    BY <2>2, <2>3, <2>4 DEF Pending, Fifo!Dequeue
  <2> QED  BY <2>5 DEF Fifo!FifoNext
<1>6. CASE ResetQuiescent
  <2>1. Pending' = <<>>
    BY <1>6 DEF ResetQuiescent, Pending
  <2> QED  BY <1>6, <2>1 DEF ResetQuiescent, Pending, Fifo!FifoNext, Fifo!Forget
<1>7. ASSUME NEW x \in Items, PushClaim(x) PROVE UNCHANGED Fifo!fifoVars
  BY <1>7 DEF PushClaim, consumerVars, Fifo!fifoVars
<1>8. CASE PushWrite \/ PushAdvance
  BY <1>8 DEF PushWrite, PushAdvance, consumerVars, Fifo!fifoVars
<1>9. CASE PopClaim \/ PopRead \/ PopAdvance
  BY <1>9 DEF PopClaim, PopRead, PopAdvance, producerVars, Fifo!fifoVars
<1>10. CASE UNCHANGED spscVars
  BY <1>10 DEF spscVars, Fifo!fifoVars
<1> QED
  BY <1>2, <1>3, <1>4, <1>5, <1>6, <1>7, <1>8, <1>9, <1>10 DEF RingNext, Producer, Consumer

(* The ring implements the bounded queue of BoundedFifo: a push is refused *)
(* only when Capacity items are pending, a pop only when none is, and a    *)
(* quiescent reset leaves nothing behind for the next session.             *)
THEOREM RingImplementsFifo == RingSpec => ImplementsFifo
<1>1. RingSpec => []RingInv
  BY RingCorrect
<1> QED  BY <1>1, InitRefines, StepRefines, PTL DEF RingSpec, ImplementsFifo, Fifo!FifoSpec

(***************************************************************************)
(* The life of the threads.                                                *)
(***************************************************************************)
PumpStates == {"none", "begin", "install", "check", "get", "unhook", "leaving", "gone"}
ConsumerStates == {"none", "loop", "handling", "finalize", "gone"}

(***************************************************************************)
(* Types.                                                                  *)
(***************************************************************************)
FlagTypes ==
  /\ mpc \in {"idle", "handshake", "stop", "post", "await"}
  /\ running \in BOOLEAN /\ stuck \in BOOLEAN /\ installed \in BOOLEAN
  /\ pumpExited \in BOOLEAN /\ consumerExited \in BOOLEAN /\ handler \in BOOLEAN
NumberTypes == session \in 0 .. MaxSessions /\ tid \in 0 .. MaxSessions /\ quit \subseteq Sessions
ThreadTypes ==
  /\ pump \in [Sessions -> PumpStates] /\ consumer \in [Sessions -> ConsumerStates]
  /\ hand \in [Sessions -> 0 .. MaxSessions] /\ queue \in Seq(Sessions)

LEMMA TypeParts == TypeOK <=> FlagTypes /\ NumberTypes /\ ThreadTypes
BY DEF TypeOK, FlagTypes, NumberTypes, ThreadTypes, PumpStates, ConsumerStates

LEMMA InitType == Init => TypeOK
<1> SUFFICES ASSUME Init PROVE TypeOK
  OBVIOUS
<1>1. MaxSessions \in Nat  BY LifecycleAssumption
<1>2. FlagTypes  BY DEF Init, FlagTypes
<1>3. NumberTypes  BY <1>1 DEF Init, NumberTypes
<1>4. ThreadTypes  BY <1>1 DEF Init, ThreadTypes, PumpStates, ConsumerStates
<1> QED  BY <1>2, <1>3, <1>4, TypeParts

LEMMA StepFlags == FlagTypes /\ [Next]_vars => FlagTypes'
<1> SUFFICES ASSUME FlagTypes, [Next]_vars PROVE FlagTypes'
  OBVIOUS
<1> USE DEF FlagTypes, flags
<1>1. CASE Start  BY <1>1 DEF Start
<1>2. CASE CallStop  BY <1>2 DEF CallStop
<1>3. CASE MainStep
  BY <1>3 DEF MainStep, Installed, HandshakeTimeout, StopExchange, PostQuit, Join, Detach
<1>4. ASSUME NEW s \in Sessions, PumpStep(s) PROVE FlagTypes'
  BY <1>4 DEF PumpStep, PublishTid, Install, LoopCheck, GetQuit, GetTick, Unhook, PumpExit,
              PumpGoto
<1>5. ASSUME NEW s \in Sessions, Callback(s) PROVE FlagTypes'
  BY <1>5 DEF Callback
<1>6. ASSUME NEW s \in Sessions,
             TakeEvent(s) \/ Handled(s) \/ LoopEnds(s) \/ ConsumerExit(s)
      PROVE FlagTypes'
  BY <1>6 DEF TakeEvent, Handled, LoopEnds, ConsumerExit, ConsumerGoto
<1>7. CASE UNCHANGED vars  BY <1>7 DEF vars
<1> QED  BY <1>1, <1>2, <1>3, <1>4, <1>5, <1>6, <1>7 DEF Next

LEMMA StepNumbers == NumberTypes /\ [Next]_vars => NumberTypes'
<1> SUFFICES ASSUME NumberTypes, [Next]_vars PROVE NumberTypes'
  OBVIOUS
<1> USE DEF NumberTypes, flags
<1>0. MaxSessions \in Nat  BY LifecycleAssumption
<1>1. CASE Start  BY <1>0, <1>1 DEF Start
<1>2. CASE CallStop  BY <1>2 DEF CallStop
<1>3. CASE MainStep
  <2>1. CASE PostQuit
    <3>1. {tid} \ {0} \subseteq Sessions  BY <1>0 DEF Sessions
    <3> QED  BY <2>1, <3>1 DEF PostQuit
  <2>2. CASE Installed \/ HandshakeTimeout \/ StopExchange \/ Join \/ Detach
    BY <2>2 DEF Installed, HandshakeTimeout, StopExchange, Join, Detach
  <2> QED  BY <1>3, <2>1, <2>2 DEF MainStep
<1>4. ASSUME NEW s \in Sessions, PumpStep(s) PROVE NumberTypes'
  <2>1. s \in 0 .. MaxSessions /\ 0 \in 0 .. MaxSessions  BY <1>0 DEF Sessions
  <2> QED
    BY <1>4, <2>1 DEF PumpStep, PublishTid, Install, LoopCheck, GetQuit, GetTick, Unhook,
                     PumpExit, PumpGoto
<1>5. ASSUME NEW s \in Sessions, Callback(s) PROVE NumberTypes'
  BY <1>5 DEF Callback
<1>6. ASSUME NEW s \in Sessions,
             TakeEvent(s) \/ Handled(s) \/ LoopEnds(s) \/ ConsumerExit(s)
      PROVE NumberTypes'
  BY <1>6 DEF TakeEvent, Handled, LoopEnds, ConsumerExit, ConsumerGoto
<1>7. CASE UNCHANGED vars  BY <1>7 DEF vars
<1> QED  BY <1>1, <1>2, <1>3, <1>4, <1>5, <1>6, <1>7 DEF Next

LEMMA StepThreads == ThreadTypes /\ [Next]_vars => ThreadTypes'
<1> SUFFICES ASSUME ThreadTypes, [Next]_vars PROVE ThreadTypes'
  OBVIOUS
<1> USE DEF ThreadTypes, flags
<1>1. CASE Start
  <2>1. pump' \in [Sessions -> PumpStates]  BY <1>1 DEF Start, PumpStates
  <2>2. consumer' \in [Sessions -> ConsumerStates]  BY <1>1 DEF Start, ConsumerStates
  <2>3. hand' = hand /\ queue' \in Seq(Sessions)  BY <1>1 DEF Start
  <2> QED  BY <2>1, <2>2, <2>3
<1>2. CASE CallStop  BY <1>2 DEF CallStop
<1>3. CASE MainStep
  BY <1>3 DEF MainStep, Installed, HandshakeTimeout, StopExchange, PostQuit, Join, Detach
<1>4. ASSUME NEW s \in Sessions, PumpStep(s) PROVE ThreadTypes'
  BY <1>4 DEF PumpStep, PublishTid, Install, LoopCheck, GetQuit, GetTick, Unhook, PumpExit,
              PumpGoto, PumpStates
<1>5. ASSUME NEW s \in Sessions, Callback(s) PROVE ThreadTypes'
  BY <1>5 DEF Callback
<1>6. ASSUME NEW s \in Sessions, TakeEvent(s) PROVE ThreadTypes'
  <2>1. Head(queue) \in Sessions /\ queue' \in Seq(Sessions)
    BY <1>6 DEF TakeEvent
  <2>2. Head(queue) \in 0 .. MaxSessions  BY <2>1, LifecycleAssumption DEF Sessions
  <2> QED  BY <1>6, <2>1, <2>2 DEF TakeEvent, ConsumerGoto, ConsumerStates
<1>7. ASSUME NEW s \in Sessions, Handled(s) \/ LoopEnds(s) \/ ConsumerExit(s)
      PROVE ThreadTypes'
  <2>1. 0 \in 0 .. MaxSessions  BY LifecycleAssumption
  <2> QED  BY <1>7, <2>1 DEF Handled, LoopEnds, ConsumerExit, ConsumerGoto, ConsumerStates
<1>8. CASE UNCHANGED vars  BY <1>8 DEF vars
<1> QED  BY <1>1, <1>2, <1>3, <1>4, <1>5, <1>6, <1>7, <1>8 DEF Next

LEMMA StepType == TypeOK /\ [Next]_vars => TypeOK'
<1>1. TypeOK' <=> FlagTypes' /\ NumberTypes' /\ ThreadTypes'
  BY DEF TypeOK, FlagTypes, NumberTypes, ThreadTypes, PumpStates, ConsumerStates
<1> QED  BY <1>1, TypeParts, StepFlags, StepNumbers, StepThreads

\* Every variable keeps its type.
THEOREM LifecycleTypes == Spec => []TypeOK
BY InitType, StepType, PTL DEF Spec

(***************************************************************************)
(* The session.  OneOfEach is not inductive: start() must find nobody      *)
(* alive.  It does, because stop() either saw both acknowledgements, each  *)
(* the last act of its thread, or set the flag that forbids a start.       *)
(***************************************************************************)
Resting(t, s) == t[s] \in {"none", "gone"}
OnlyPresent == \A s \in Sessions : s # session => Resting(pump, s) /\ Resting(consumer, s)
AcksAreLast ==
  /\ pumpExited => \A s \in Sessions : Resting(pump, s)
  /\ consumerExited => \A s \in Sessions : Resting(consumer, s)
NobodyLeft ==
  mpc = "idle" /\ ~running /\ ~stuck =>
    \A s \in Sessions : Resting(pump, s) /\ Resting(consumer, s)
StartedRuns == mpc = "handshake" => running
HandlerSet == \A s \in Sessions : Resting(consumer, s) \/ handler
RingIsPresent ==
  /\ \A i \in DOMAIN queue : queue[i] = session
  /\ \A s \in Sessions : hand[s] \in {0, s}

SessionInv ==
  OnlyPresent /\ AcksAreLast /\ NobodyLeft /\ StartedRuns /\ HandlerSet /\ RingIsPresent

LEMMA InitSession == Init => SessionInv
BY DEF Init, SessionInv, OnlyPresent, AcksAreLast, NobodyLeft, StartedRuns, HandlerSet,
       RingIsPresent, Resting

LEMMA StepSession == TypeOK /\ SessionInv /\ [Next]_vars => SessionInv'
<1> SUFFICES ASSUME TypeOK, SessionInv, [Next]_vars PROVE SessionInv'
  OBVIOUS
<1> USE DEF SessionInv, OnlyPresent, AcksAreLast, NobodyLeft, StartedRuns, HandlerSet,
            RingIsPresent, Resting, flags
<1>t. /\ pump \in [Sessions -> PumpStates] /\ consumer \in [Sessions -> ConsumerStates]
      /\ hand \in [Sessions -> 0 .. MaxSessions] /\ queue \in Seq(Sessions)
      /\ session \in 0 .. MaxSessions
  BY DEF TypeOK, PumpStates, ConsumerStates
<1>1. CASE Start
  <2>1. \A s \in Sessions : Resting(pump, s) /\ Resting(consumer, s)
    BY <1>1 DEF Start
  <2>2. \A s \in Sessions : s # session' =>
          pump'[s] = pump[s] /\ consumer'[s] = consumer[s]
    BY <1>1, <1>t DEF Start
  <2>3. OnlyPresent'  BY <2>1, <2>2
  <2>4. RingIsPresent'  BY <1>1 DEF Start
  <2> QED  BY <1>1, <2>3, <2>4 DEF Start
<1>2. CASE CallStop  BY <1>2 DEF CallStop
<1>3. CASE MainStep
  BY <1>3 DEF MainStep, Installed, HandshakeTimeout, StopExchange, PostQuit, Join, Detach
<1>4. ASSUME NEW s \in Sessions, PumpStep(s) PROVE SessionInv'
  <2>1. PICK from, to \in PumpStates \ {"none"} :
          PumpGoto(s, from, to) /\ from # "gone"
    BY <1>4 DEF PumpStep, PublishTid, Install, LoopCheck, GetQuit, GetTick, Unhook,
                PumpExit, PumpStates, PumpGoto
  <2>2. s = session /\ ~pumpExited
    BY <2>1, <1>t DEF PumpGoto, PumpStates
  <2>3. /\ \A r \in Sessions : r # s => pump'[r] = pump[r]
        /\ \A r \in Sessions : r # s => Resting(pump, r)
    BY <2>1, <2>2, <1>t DEF PumpGoto
  <2>4. pumpExited' => pump'[s] = "gone"
    BY <1>4, <1>t, <2>2 DEF PumpStep, PublishTid, Install, LoopCheck, GetQuit, GetTick, Unhook,
                       PumpExit, PumpGoto
  <2>5. ~(mpc = "idle" /\ ~running /\ ~stuck)
    BY <2>1 DEF PumpGoto, PumpStates
  <2>6. UNCHANGED <<mpc, session, running, stuck, handler, consumerExited, consumer, hand,
                    queue>>
    BY <2>1 DEF PumpGoto
  <2> QED  BY <2>2, <2>3, <2>4, <2>5, <2>6
<1>5. ASSUME NEW s \in Sessions, Callback(s) PROVE SessionInv'
  <2>1. s = session  BY <1>5 DEF Callback
  <2>2. \A i \in DOMAIN queue' : queue'[i] = session
    BY <1>5, <1>t, <2>1 DEF Callback
  <2> QED  BY <1>5, <2>2 DEF Callback
<1>6. ASSUME NEW s \in Sessions,
             TakeEvent(s) \/ Handled(s) \/ LoopEnds(s) \/ ConsumerExit(s)
      PROVE SessionInv'
  <2>1. PICK from, to \in ConsumerStates \ {"none"} :
          ConsumerGoto(s, from, to) /\ from # "gone"
    BY <1>6 DEF TakeEvent, Handled, LoopEnds, ConsumerExit, ConsumerGoto, ConsumerStates
  <2>2. s = session /\ ~consumerExited /\ handler
    BY <2>1, <1>t DEF ConsumerGoto, ConsumerStates
  <2>3. /\ \A r \in Sessions : r # s => consumer'[r] = consumer[r]
        /\ \A r \in Sessions : r # s => Resting(consumer, r)
    BY <2>1, <2>2, <1>t DEF ConsumerGoto
  <2>4. consumerExited' => consumer'[s] = "gone"
    BY <1>6, <1>t, <2>2 DEF TakeEvent, Handled, LoopEnds, ConsumerExit, ConsumerGoto
  <2>5. ~(mpc = "idle" /\ ~running /\ ~stuck)
    BY <2>1 DEF ConsumerGoto, ConsumerStates
  <2>6. UNCHANGED <<mpc, session, running, stuck, handler, pumpExited, pump>>
    BY <2>1 DEF ConsumerGoto
  <2>7. RingIsPresent'
    <3>1. CASE TakeEvent(s)
      <4>1. Head(queue) = session
        BY <3>1, <1>t DEF TakeEvent
      <4>2. \A i \in DOMAIN queue' : queue'[i] = session
        BY <3>1, <1>t DEF TakeEvent
      <4> QED  BY <3>1, <4>1, <4>2, <2>2, <2>6, <1>t DEF TakeEvent
    <3>2. CASE Handled(s)  BY <3>2, <2>6, <1>t DEF Handled
    <3>3. CASE LoopEnds(s) \/ ConsumerExit(s)  BY <3>3, <2>6 DEF LoopEnds, ConsumerExit
    <3> QED  BY <1>6, <3>1, <3>2, <3>3
  <2> QED  BY <2>2, <2>3, <2>4, <2>5, <2>6, <2>7
<1>7. CASE UNCHANGED vars  BY <1>7 DEF vars
<1> QED  BY <1>1, <1>2, <1>3, <1>4, <1>5, <1>6, <1>7 DEF Next

LEMMA SessionAlways == Spec => [](TypeOK /\ SessionInv)
BY InitType, StepType, InitSession, StepSession, PTL DEF Spec

\* A detached thread may still run when the next start() is asked for: the
\* ring has one producer and one consumer all the same.
THEOREM OneThreadPerSide == Spec => []OneOfEach
<1>1. SessionInv => OneOfEach
  BY DEF SessionInv, OnlyPresent, Resting, OneOfEach, Alive
<1> QED  BY <1>1, SessionAlways, PTL

\* stop() clears the handler only when no consumer can be inside it.
THEOREM HandlerStays == Spec => []HandlerOutlivesCall
<1>1. SessionInv => HandlerOutlivesCall
  BY DEF SessionInv, HandlerSet, Resting, HandlerOutlivesCall
<1> QED  BY <1>1, SessionAlways, PTL

\* An event left behind by a session is cleared before the next one begins.
THEOREM NothingReplayed == Spec => []NoStaleReplay
<1>1. SessionInv => NoStaleReplay
  BY DEF SessionInv, RingIsPresent, NoStaleReplay
<1> QED  BY <1>1, SessionAlways, PTL

(***************************************************************************)
(* The singleton, for any number of processes: one instance, found by its  *)
(* pid, and never ended while it is healthy.                               *)
(***************************************************************************)
Labels ==
  {"off", "found", "ping", "stale", "close", "retake", "refused", "claimed",
   "published", "window", "running", "leaving", "cleared", "gone", "dead"}

Places == pc \in [Procs -> Labels]

\* Whoever is alive holds a handle, but for the moment between giving back the
\* old one and asking again.
Holding == \A p \in Procs : ProcessAlive(p) /\ pc[p] # "retake" => p \in handles

\* The pid is published by an instance, and nobody is launched twice.
PidPublished ==
  \A p \in Procs : pid = p =>
    pc[p] \in {"published", "window", "running", "leaving", "cleared", "gone", "dead"}

\* A process that hangs neither starts nor leaves.
HungStays == \A p \in Procs : p \in hung => pc[p] \in {"running", "dead"}

\* A process about to terminate another holds a handle, so nobody starts, and
\* its ping has shown that whoever runs hangs.
StaleIsHung ==
  StartsInTime =>
    /\ ~wronged
    /\ \A p, q \in Procs :
         pc[p] = "stale" => ~Starting(q) /\ (pc[q] = "running" => q \in hung)

InstanceInv ==
  /\ Places /\ Holding /\ OneInstance /\ PidPublished /\ HungStays /\ StaleIsHung

LEMMA InitInstance == InstanceInit => InstanceInv
BY InstanceAssumption
   DEF InstanceInit, InstanceInv, Places, Labels, Holding, ProcessAlive, Final, OneInstance,
       Instance, Starting, PidPublished, HungStays, StaleIsHung

\* CreateMutexW, the first time and again after a takeover: the singleton is
\* for a process that nobody else's handle stands beside.
LEMMA TakeKeeps ==
  ASSUME InstanceInv, NEW p \in Procs, NEW otherwise \in {"found", "refused"},
         pc[p] \in {"off", "retake"}, Takes(p, otherwise),
         UNCHANGED <<pid, hung, event, killed, wronged, hangs>>
  PROVE  InstanceInv'
<1> USE DEF InstanceInv, Places, ProcessAlive, Final, Instance, Starting
<1>1. /\ pc' = [pc EXCEPT ![p] = IF handles \ {p} = {} THEN "claimed" ELSE otherwise]
      /\ handles' = handles \cup {p}
  BY DEF Takes, Goto
<1>2. Places'  BY <1>1 DEF Labels
<1>3. Holding'  BY <1>1 DEF Holding
<1>4. handles \ {p} = {} => \A q \in Procs \ {p} : ~Instance(q) /\ pc[q] # "stale"
  BY DEF Holding
<1>5. OneInstance'  BY <1>1, <1>4 DEF OneInstance
<1>6. PidPublished' /\ HungStays'  BY <1>1 DEF PidPublished, HungStays
<1>7. StaleIsHung'  BY <1>1, <1>4 DEF StaleIsHung
<1> QED  BY <1>2, <1>3, <1>5, <1>6, <1>7

\* Every step keeps the invariant.
LEMMA StepInstance == InstanceInv /\ [InstanceNext]_instanceVars => InstanceInv'
<1> SUFFICES ASSUME InstanceInv, [InstanceNext]_instanceVars PROVE InstanceInv'
  OBVIOUS
<1>1. ASSUME NEW p \in Procs, LaunchProcess(p) PROVE InstanceInv'
  BY <1>1, TakeKeeps DEF LaunchProcess
<1>2. ASSUME NEW p \in Procs, Retake(p) PROVE InstanceInv'
  BY <1>2, TakeKeeps DEF Retake
<1> USE DEF InstanceInv, Places, Labels, Holding, OneInstance, PidPublished, HungStays,
            StaleIsHung, ProcessAlive, Final, Instance, Starting, Goto
<1>3. ASSUME NEW p \in Procs, Signal(p) \/ Answered(p) \/ CloseHandle(p) \/ Dismiss(p)
      PROVE InstanceInv'
  BY <1>3 DEF Signal, Answered, CloseHandle, Dismiss
<1>4. ASSUME NEW p \in Procs, Unanswered(p) PROVE InstanceInv'
  BY <1>4 DEF Unanswered, HasWindow
<1>5. ASSUME NEW p \in Procs, terminateStaleInstance(p) PROVE InstanceInv'
  <2>1. CASE /\ pid \in Procs \ {p} /\ ProcessAlive(pid)
             /\ pc' = [pc EXCEPT ![pid] = "dead", ![p] = "close"]
             /\ handles' = handles \ {pid} /\ Terminated(pid)
    <3>1. pc[p] = "stale" /\ UNCHANGED <<pid, hung>>
      BY <1>5 DEF terminateStaleInstance
    <3>2. pc' \in [Procs -> Labels] /\ pc'[pid] = "dead" /\ pc'[p] = "close"
          /\ \A q \in Procs \ {p, pid} : pc'[q] = pc[q]
      BY <2>1
    <3>3. StartsInTime => ~wronged'
      BY <2>1, <3>1 DEF Terminated
    <3> QED  BY <2>1, <3>1, <3>2, <3>3
  <2>2. CASE Goto(p, "close") /\ UNCHANGED <<handles, event, killed, wronged>>
    BY <1>5, <2>2 DEF terminateStaleInstance
  <2> QED  BY <1>5, <2>1, <2>2 DEF terminateStaleInstance
<1>6. ASSUME NEW p \in Procs, writeRunningPid(p) PROVE InstanceInv'
  BY <1>6 DEF writeRunningPid
<1>7. ASSUME NEW p \in Procs, CreateWindow(p) \/ EnterLoop(p) PROVE InstanceInv'
  BY <1>7 DEF CreateWindow, EnterLoop
<1>8. ASSUME NEW p \in Procs, WindowFails(p) \/ HookFails(p) \/ clearRunningPid(p)
      PROVE InstanceInv'
  BY <1>8, InstanceAssumption DEF WindowFails, HookFails, clearRunningPid
<1>9. ASSUME NEW p \in Procs, Leave(p) \/ ReleaseMutex(p) \/ Crash(p) PROVE InstanceInv'
  BY <1>9 DEF Leave, ReleaseMutex, Crash
<1>10. ASSUME NEW p \in Procs, WakeWatcher(p) \/ Hang(p) PROVE InstanceInv'
  BY <1>10 DEF WakeWatcher, Hang
<1>11. CASE UNCHANGED instanceVars
  BY <1>11 DEF instanceVars
<1> QED
  BY <1>1, <1>2, <1>3, <1>4, <1>5, <1>6, <1>7, <1>8, <1>9, <1>10, <1>11 DEF InstanceNext, Step

\* The places of the processes say what is published and who was ended.
LEMMA InstanceHolds == InstanceInv => InstanceSound
BY DEF InstanceInv, Places, PidPublished, StaleIsHung, InstanceSound, PidIsTheInstance,
   HealthyIsSpared, ProcessAlive, Final, Instance, Starting

\* However many processes are launched, hang, crash and take over from one another,
\* one is the instance, the published pid is nobody else's, and while starts are
\* quick enough nobody healthy is terminated (wWinMain, terminateStaleInstance).
THEOREM Singleton == InstanceSpec => []InstanceSound
<1>1. InstanceInv => InstanceSound
  BY InstanceHolds
<1>2. InstanceInv /\ [InstanceNext]_instanceVars => InstanceInv'
  BY StepInstance
<1> QED  BY <1>1, <1>2, InitInstance, PTL DEF InstanceSpec

(***************************************************************************)
(* The manager.                                                            *)
(***************************************************************************)
GameStates ==
  [type : Types, run : Runs, life : LifeState, scored : BOOLEAN, chart : BOOLEAN, live : BOOLEAN]
ManagerStates ==
  [game : GameStates \cup {None}, results : Seq(Runs), collected : BOOLEAN,
   config : Configs, runChart : BOOLEAN, runs : 0 .. MaxRuns, credits : [Runs -> Nat],
   ended : SUBSET Runs, hurried : SUBSET Runs, lost : SUBSET Runs, leftLate : SUBSET Runs]

\* The run being played is the last one begun; it has been counted only if it
\* reached its end and a poll has taken the result.
CurrentRun(m) ==
  Playing(m) =>
    /\ m.game.run = m.runs
    /\ m.game.life.pending => m.game.life.over
    /\ m.game.life.over /\ ~m.game.life.pending => m.collected
    /\ Times(m, m.runs) <= IF m.game.life.over /\ ~m.game.life.pending THEN 1 ELSE 0

\* What the game was built from is what the manager remembers of it.
BuiltFrom(m) ==
  Playing(m) => (m.runChart <=> m.game.chart) /\ (m.game.live <=> m.config.live)

NotYet(m) == \A r \in Runs : r > m.runs => Times(m, r) = 0

ManagerInv(m) ==
  /\ m \in ManagerStates
  /\ CurrentRun(m) /\ BuiltFrom(m) /\ NotYet(m)
  /\ CreditedFairly(m) /\ EndedIsReported(m)

\* What is counted of a queue that grows by one.
LEMMA OccurrencesAre ==
  ASSUME NEW S, NEW s \in Seq(S), NEW r
  PROVE  /\ Occurrences(s, r) \in Nat
         /\ Occurrences(s, r) = 0 <=> \A i \in DOMAIN s : s[i] # r
<1> DEFINE At == {i \in DOMAIN s : s[i] = r}
<1>1. IsFiniteSet(At)
  <2>1. IsFiniteSet(1 .. Len(s)) /\ At \subseteq 1 .. Len(s)  BY FS_Interval
  <2> QED  BY <2>1, FS_Subset
<1>2. Cardinality(At) \in Nat /\ (Cardinality(At) = 0 <=> At = {})
  BY <1>1, FS_CardinalityType, FS_EmptySet
<1> QED  BY <1>2 DEF Occurrences

\* Nothing is counted of an empty queue.
LEMMA OccurrencesNone == ASSUME NEW r PROVE Occurrences(<<>>, r) = 0
<1>1. {i \in DOMAIN <<>> : <<>>[i] = r} = {}  OBVIOUS
<1> QED  BY <1>1, FS_EmptySet DEF Occurrences

\* One more is counted of the run that is added, and of no other.
LEMMA OccurrencesAppend ==
  ASSUME NEW S, NEW s \in Seq(S), NEW x \in S, NEW r
  PROVE  Occurrences(Append(s, x), r) = Occurrences(s, r) + IF x = r THEN 1 ELSE 0
<1> DEFINE At == {i \in DOMAIN s : s[i] = r}
           New == {i \in DOMAIN Append(s, x) : Append(s, x)[i] = r}
           k == Len(s) + 1
<1>1. IsFiniteSet(At) /\ k \notin At
  <2>1. IsFiniteSet(1 .. Len(s)) /\ At \subseteq 1 .. Len(s)  BY FS_Interval
  <2> QED  BY <2>1, FS_Subset
<1>2. New = IF x = r THEN At \cup {k} ELSE At
  OBVIOUS
<1>3. Cardinality(At) \in Nat /\ Cardinality(At \cup {k}) = Cardinality(At) + 1
  BY <1>1, FS_CardinalityType, FS_AddElement
<1> HIDE DEF At, New, k
<1>4. Cardinality(New) = Cardinality(At) + IF x = r THEN 1 ELSE 0
  BY <1>2, <1>3
<1> QED  BY <1>4 DEF Occurrences, At, New

\* A result counts where it waits and where it was credited.
LEMMA TimesAre ==
  ASSUME NEW m \in ManagerStates, NEW r \in Runs
  PROVE  Times(m, r) \in Nat /\ (r \in Reported(m) <=> Times(m, r) > 0)
<1>1. m.results \in Seq(Runs) /\ m.credits[r] \in Nat
  BY DEF ManagerStates
<1>2. Occurrences(m.results, r) \in Nat
      /\ (Occurrences(m.results, r) = 0 <=> r \notin Queued(m))
  BY <1>1, OccurrencesAre DEF Queued, ToSet
<1> QED  BY <1>1, <1>2 DEF Times, Reported

\* Only the queue and the credits count.
LEMMA TimesSame ==
  ASSUME NEW m, NEW n, n.results = m.results, n.credits = m.credits, NEW r
  PROVE  Times(n, r) = Times(m, r)
BY DEF Times

\* A push counts its run once, or loses it.
LEMMA PushKeeps ==
  ASSUME NEW m \in ManagerStates, NEW x \in Runs
  PROVE  /\ Push(m, x) \in ManagerStates
         /\ \A r \in Runs :
              Times(Push(m, x), r) =
                Times(m, r) + IF r = x /\ Len(m.results) < MaxResults THEN 1 ELSE 0
         /\ \A r \in Runs : r \in Push(m, x).lost <=>
              r \in m.lost \/ (r = x /\ ~(Len(m.results) < MaxResults))
         /\ Push(m, x) = [m EXCEPT !.results = Push(m, x).results, !.lost = Push(m, x).lost]
<1>1. m.results \in Seq(Runs) /\ m.lost \in SUBSET Runs /\ m.credits \in [Runs -> Nat]
  BY DEF ManagerStates
<1>2. CASE Len(m.results) < MaxResults
  <2>1. Push(m, x) = [m EXCEPT !.results = Append(@, x)]  BY <1>2 DEF Push
  <2>2. ASSUME NEW r \in Runs
        PROVE Times(Push(m, x), r) = Times(m, r) + IF r = x THEN 1 ELSE 0
    <3>1. Push(m, x).results = Append(m.results, x) /\ Push(m, x).credits = m.credits
      BY <2>1 DEF ManagerStates
    <3>2. Occurrences(Append(m.results, x), r) =
            Occurrences(m.results, r) + IF x = r THEN 1 ELSE 0
      BY <1>1, OccurrencesAppend
    <3>3. Occurrences(m.results, r) \in Nat /\ m.credits[r] \in Nat
      BY <1>1, OccurrencesAre
    <3> QED  BY <3>1, <3>2, <3>3 DEF Times
  <2>3. Push(m, x) \in ManagerStates
    <3>1. Append(m.results, x) \in Seq(Runs)  BY <1>1
    <3> HIDE DEF Runs
    <3> QED  BY <2>1, <3>1 DEF ManagerStates
  <2>4. Push(m, x).lost = m.lost  BY <2>1 DEF ManagerStates
  <2>5. Push(m, x) = [m EXCEPT !.results = Push(m, x).results, !.lost = Push(m, x).lost]
    BY <2>1 DEF ManagerStates
  <2> QED  BY <1>2, <2>2, <2>3, <2>4, <2>5
<1>3. CASE ~(Len(m.results) < MaxResults)
  <2>1. Push(m, x) = [m EXCEPT !.lost = @ \cup {x}]  BY <1>3 DEF Push
  <2>2. Push(m, x).results = m.results /\ Push(m, x).credits = m.credits
        /\ Push(m, x).lost = m.lost \cup {x}
    BY <2>1 DEF ManagerStates
  <2>3. \A r \in Runs : Times(Push(m, x), r) = Times(m, r) + 0
    BY <2>2, TimesSame, TimesAre
  <2>4. Push(m, x) \in ManagerStates
    <3>1. m.lost \cup {x} \in SUBSET Runs  BY <1>1
    <3> QED  BY <2>1, <3>1 DEF ManagerStates
  <2>5. Push(m, x) = [m EXCEPT !.results = Push(m, x).results, !.lost = Push(m, x).lost]
    BY <2>1, <2>2 DEF ManagerStates
  <2> QED  BY <1>3, <2>2, <2>3, <2>4, <2>5
<1> QED  BY <1>2, <1>3

\* Crediting moves every result from the queue to the credits.
LEMMA DrainKeeps ==
  ASSUME NEW m \in ManagerStates
  PROVE  /\ Drain(m) \in ManagerStates
         /\ \A r \in Runs : Times(Drain(m), r) = Times(m, r)
         /\ Drain(m) = [m EXCEPT !.results = Drain(m).results, !.credits = Drain(m).credits]
<1>1. m.results \in Seq(Runs) /\ m.credits \in [Runs -> Nat]
  BY DEF ManagerStates
<1>2. \A r \in Runs : Occurrences(m.results, r) \in Nat
  BY <1>1, OccurrencesAre
<1> DEFINE credited == [r \in Runs |-> m.credits[r] + Occurrences(m.results, r)]
<1>3. Drain(m) = [m EXCEPT !.results = <<>>, !.credits = credited]
  BY DEF Drain, ManagerStates
<1>4. credited \in [Runs -> Nat]
  BY <1>1, <1>2
<1>5. \A r \in Runs : credited[r] + 0 = m.credits[r] + Occurrences(m.results, r)
  BY <1>1, <1>2
<1> HIDE DEF credited
<1>6. Drain(m).results = <<>> /\ Drain(m).credits = credited
  BY <1>3 DEF ManagerStates
<1>7. \A r \in Runs : Times(Drain(m), r) = Times(m, r)
  BY <1>5, <1>6, OccurrencesNone DEF Times
<1>8. Drain(m) \in ManagerStates
  <2>1. <<>> \in Seq(Runs)  OBVIOUS
  <2> QED  BY <1>3, <1>4, <2>1 DEF ManagerStates
<1> QED  BY <1>3, <1>6, <1>7, <1>8

\* What a frame, a poll and a key of the game leave as it was.
SameGame(m, n) ==
  /\ n.config = m.config /\ n.runChart = m.runChart
  /\ Playing(n) <=> Playing(m)
  /\ n.game.type = m.game.type
  /\ Playing(m) => n.game.chart = m.game.chart /\ n.game.live = m.game.live

\* A game is there, or it is none: its type tells.
LEMMA PlayingIs ==
  ASSUME NEW m \in ManagerStates
  PROVE  /\ Playing(m) <=> m.game \in GameStates
         /\ ~Playing(m) <=> m.game = None
         /\ Playing(m) <=> m.game.type \in Types
         /\ IsFlexing(m) => Playing(m)
<1>1. None \notin GameStates /\ None.type \notin Types
  BY DEF None, GameStates, Types
<1>2. m.game \in GameStates \cup {None}
  BY DEF ManagerStates
<1>3. m.game \in GameStates => m.game.type \in Types
  BY DEF GameStates
<1> QED  BY <1>1, <1>2, <1>3 DEF Playing, IsFlexing, None, Types

\* A poll takes the result of a run that ended.
LEMMA CollectKeeps ==
  ASSUME NEW m, ManagerInv(m)
  PROVE  /\ ManagerInv(Collect(m)) /\ SameGame(m, Collect(m))
         /\ Collect(m).runs = m.runs
         /\ Playing(m) => ~Collect(m).game.life.pending
<1>1. m \in ManagerStates  BY DEF ManagerInv
<1>2. CASE ~(Playing(m) /\ m.game.life.pending)
  <2>1. Collect(m) = m  BY <1>2 DEF Collect
  <2> QED  BY <1>2, <2>1 DEF SameGame
<1>3. CASE Playing(m) /\ m.game.life.pending
  <2> DEFINE x == m.game.run
             p == Push(m, x)
             n == Collect(m)
  <2>1. m.game \in GameStates /\ x \in Runs /\ x = m.runs /\ m.game.life \in LifeState
        /\ m.game.life.over
    BY <1>1, <1>3, PlayingIs DEF ManagerInv, CurrentRun, GameStates
  <2>2. /\ p \in ManagerStates
        /\ \A r \in Runs : Times(p, r) =
             Times(m, r) + IF r = x /\ Len(m.results) < MaxResults THEN 1 ELSE 0
        /\ \A r \in Runs : r \in p.lost <=>
             r \in m.lost \/ (r = x /\ ~(Len(m.results) < MaxResults))
        /\ p = [m EXCEPT !.results = p.results, !.lost = p.lost]
    BY <1>1, <2>1, PushKeeps
  <2>3. n = [p EXCEPT !.collected = TRUE, !.game.life = Polled(@)]
    BY <1>3 DEF Collect
  <2> HIDE DEF p, n
  <2>4. n.game = [m.game EXCEPT !.life = [m.game.life EXCEPT !.pending = FALSE]]
        /\ n.collected = TRUE /\ n.results = p.results /\ n.lost = p.lost
        /\ n.credits = m.credits /\ n.runs = m.runs /\ n.config = m.config
        /\ n.runChart = m.runChart /\ n.ended = m.ended /\ n.hurried = m.hurried
        /\ n.leftLate = m.leftLate /\ p.credits = m.credits
    BY <1>1, <2>2, <2>3 DEF ManagerStates, Polled
  <2>5. n.game \in GameStates /\ n.game.run = x /\ n.game.life.over /\ ~n.game.life.pending
        /\ n.game.type = m.game.type /\ n.game.chart = m.game.chart /\ n.game.live = m.game.live
    <3>1. [m.game.life EXCEPT !.pending = FALSE] \in LifeState
          /\ [m.game.life EXCEPT !.pending = FALSE].over
          /\ ~[m.game.life EXCEPT !.pending = FALSE].pending
      BY <2>1 DEF LifeState
    <3> HIDE DEF x
    <3>2. n.game.life = [m.game.life EXCEPT !.pending = FALSE] /\ n.game \in GameStates
          /\ n.game.run = m.game.run /\ n.game.type = m.game.type
          /\ n.game.chart = m.game.chart /\ n.game.live = m.game.live
      BY <2>1, <2>4, <3>1 DEF GameStates
    <3> QED  BY <3>1, <3>2 DEF x
  <2>6. n \in ManagerStates
    BY <2>2, <2>3, <2>4, <2>5 DEF ManagerStates
  <2>7. \A r \in Runs : Times(n, r) = Times(p, r)
    BY <2>4, TimesSame
  <2>8. Playing(n)
    BY <2>5, <2>6, PlayingIs
  <2>9. SameGame(m, n)
    BY <1>3, <2>4, <2>5, <2>8 DEF SameGame
  <2>10. Times(m, x) = 0
    BY <1>1, <1>3, <2>1, TimesAre DEF ManagerInv, CurrentRun
  <2>11. CurrentRun(n)
    BY <2>1, <2>2, <2>4, <2>5, <2>7, <2>10 DEF CurrentRun
  <2>12. BuiltFrom(n) /\ NotYet(n)
    <3>1. BuiltFrom(n)
      BY <1>3, <2>4, <2>5 DEF ManagerInv, BuiltFrom
    <3>2. ASSUME NEW r \in Runs, r > n.runs PROVE Times(n, r) = 0
      <4>1. r > m.runs /\ r # x /\ Times(m, r) = 0
        BY <2>1, <2>4, <3>2 DEF ManagerInv, NotYet, Runs
      <4> QED  BY <2>2, <2>7, <4>1
    <3> QED  BY <3>1, <3>2 DEF NotYet
  <2>13. CreditedFairly(n)
    BY <1>1, <2>2, <2>4, <2>7, <2>10, TimesAre DEF ManagerInv, CreditedFairly
  <2>14. EndedIsReported(n)
    <3> SUFFICES ASSUME NEW r \in n.ended \ (n.hurried \cup n.lost)
                 PROVE r \in Reported(n)
      BY DEF EndedIsReported
    <3>1. r \in Runs /\ r \in m.ended \ (m.hurried \cup m.lost)
          /\ (r = x => Len(m.results) < MaxResults)
      BY <1>1, <2>2, <2>4 DEF ManagerStates
    <3>2. r \in Reported(m) \/ r = x
      BY <3>1 DEF ManagerInv, EndedIsReported
    <3>3. Times(n, r) > 0
      BY <1>1, <2>2, <2>7, <3>1, <3>2, TimesAre
    <3> QED  BY <2>6, <3>1, <3>3, TimesAre
  <2> QED  BY <2>4, <2>5, <2>6, <2>9, <2>11, <2>12, <2>13, <2>14 DEF ManagerInv, n
<1> QED  BY <1>2, <1>3

\* The game moves on: it may reach its end, which makes a result.
LEMMA MoveKeeps ==
  ASSUME NEW m, ManagerInv(m), Playing(m), NEW g \in GameStates, NEW e,
         g.type = m.game.type, g.run = m.game.run, g.chart = m.game.chart, g.live = m.game.live,
         g.life.over <=> m.game.life.over \/ g.life.pending,
         m.game.life.pending => g.life.pending,
         g.life.pending => ~m.game.life.over \/ m.game.life.pending,
         e = m.ended \/ (e = m.ended \cup {m.game.run} /\ g.life.pending)
  PROVE  LET n == [m EXCEPT !.game = g, !.ended = e] IN
         ManagerInv(n) /\ SameGame(m, n) /\ n.runs = m.runs
<1> DEFINE n == [m EXCEPT !.game = g, !.ended = e]
<1>1. m \in ManagerStates /\ m.game \in GameStates /\ m.game.run \in Runs
  BY PlayingIs DEF ManagerInv, GameStates
<1>2. /\ n.game = g /\ n.ended = e /\ n.results = m.results /\ n.credits = m.credits
      /\ n.lost = m.lost /\ n.hurried = m.hurried /\ n.leftLate = m.leftLate
      /\ n.config = m.config /\ n.runChart = m.runChart /\ n.runs = m.runs
      /\ n.collected = m.collected
  BY <1>1 DEF ManagerStates
<1>3. e \in SUBSET Runs  BY <1>1 DEF ManagerStates
<1>4. n \in ManagerStates  BY <1>1, <1>3 DEF ManagerStates
<1> HIDE DEF n
<1>5. \A r : Times(n, r) = Times(m, r)  BY <1>2, TimesSame
<1>6. Playing(n)  BY <1>2, <1>4, PlayingIs
<1>7. SameGame(m, n)  BY <1>2, <1>6 DEF SameGame
<1>8. CurrentRun(n)
  BY <1>2, <1>5 DEF ManagerInv, CurrentRun
<1>9. BuiltFrom(n)
  BY <1>2 DEF ManagerInv, BuiltFrom
<1>10. NotYet(n)
  BY <1>2, <1>5 DEF ManagerInv, NotYet
<1>11. CreditedFairly(n)
  BY <1>2, <1>5 DEF ManagerInv, CreditedFairly
<1>12. EndedIsReported(n)
  <2> SUFFICES ASSUME NEW r \in n.ended \ (n.hurried \cup n.lost)
               PROVE r \in Reported(n) \/ (n.game.run = r /\ n.game.life.pending)
    BY <1>6 DEF EndedIsReported
  <2>1. CASE r = m.game.run /\ g.life.pending  BY <1>2, <2>1
  <2>2. CASE r \in m.ended
    <3>1. r \in Runs  BY <1>1, <2>2 DEF ManagerStates
    <3>2. r \in Reported(m) \/ (m.game.run = r /\ m.game.life.pending)
      BY <1>2, <2>2 DEF ManagerInv, EndedIsReported
    <3> QED  BY <1>1, <1>2, <1>4, <1>5, <3>1, <3>2, TimesAre
  <2> QED  BY <1>2, <2>1, <2>2
<1> QED  BY <1>2, <1>4, <1>7, <1>8, <1>9, <1>10, <1>11, <1>12 DEF ManagerInv, n

\* A score changes what stop() reports, not what is counted.
LEMMA ScoresKeep ==
  ASSUME NEW m, ManagerInv(m)
  PROVE  ManagerInv(Scores(m)) /\ SameGame(m, Scores(m)) /\ Scores(m).runs = m.runs
<1>1. m \in ManagerStates  BY DEF ManagerInv
<1>2. CASE ~(Playing(m) /\ Running(m.game.life))
  <2>1. Scores(m) = m  BY <1>2 DEF Scores
  <2> QED  BY <2>1 DEF SameGame
<1>3. CASE Playing(m) /\ Running(m.game.life)
  <2> DEFINE g == [m.game EXCEPT !.scored = TRUE]
  <2>1. m.game \in GameStates  BY <1>1, <1>3, PlayingIs
  <2>2. g \in GameStates /\ g.type = m.game.type /\ g.run = m.game.run
        /\ g.chart = m.game.chart /\ g.live = m.game.live /\ g.life = m.game.life
    BY <2>1 DEF GameStates
  <2>3. Scores(m) = [m EXCEPT !.game = g, !.ended = m.ended]
    BY <1>1, <1>3 DEF Scores, ManagerStates
  <2>4. m.game.life.pending => m.game.life.over
    BY <1>3 DEF ManagerInv, CurrentRun
  <2>5. m.game.life.pending \in BOOLEAN /\ m.game.life.over \in BOOLEAN
    BY <2>1 DEF GameStates, LifeState
  <2> HIDE DEF g
  <2>6. /\ g.life.over <=> m.game.life.over \/ g.life.pending
        /\ m.game.life.pending => g.life.pending
        /\ g.life.pending => ~m.game.life.over \/ m.game.life.pending
    BY <1>3, <2>2, <2>4, <2>5 DEF Running
  <2>7. LET n == [m EXCEPT !.game = g, !.ended = m.ended] IN
        ManagerInv(n) /\ SameGame(m, n) /\ n.runs = m.runs
    BY <1>3, <2>2, <2>6, MoveKeeps, Zenon
  <2> QED  BY <2>3, <2>7, Zenon
<1> QED  BY <1>2, <1>3

\* The end of a run leaves its result pending.
LEMMA EndsKeep ==
  ASSUME NEW m, ManagerInv(m)
  PROVE  ManagerInv(Ends(m)) /\ SameGame(m, Ends(m)) /\ Ends(m).runs = m.runs
<1>1. m \in ManagerStates  BY DEF ManagerInv
<1>2. CASE ~(Playing(m) /\ Running(m.game.life))
  <2>1. Ends(m) = m  BY <1>2 DEF Ends
  <2> QED  BY <2>1 DEF SameGame
<1>3. CASE Playing(m) /\ Running(m.game.life)
  <2> DEFINE l == [m.game.life EXCEPT !.over = TRUE, !.pending = TRUE]
             g == [m.game EXCEPT !.life = l]
  <2>1. m.game \in GameStates /\ m.game.life \in LifeState
    BY <1>1, <1>3, PlayingIs DEF GameStates
  <2>2. l \in LifeState /\ l.over /\ l.pending  BY <2>1 DEF LifeState
  <2> HIDE DEF l
  <2>3. g \in GameStates /\ g.type = m.game.type /\ g.run = m.game.run
        /\ g.chart = m.game.chart /\ g.live = m.game.live /\ g.life = l
    BY <2>1, <2>2 DEF GameStates
  <2>4. Ends(m) = [m EXCEPT !.game = g, !.ended = m.ended \cup {m.game.run}]
    BY <1>1, <1>3 DEF Ends, Ended, ManagerStates, l
  <2>5. ~m.game.life.over  BY <1>3 DEF Running
  <2> HIDE DEF g
  <2>6. /\ g.life.over <=> m.game.life.over \/ g.life.pending
        /\ m.game.life.pending => g.life.pending
        /\ g.life.pending => ~m.game.life.over \/ m.game.life.pending
        /\ g.life.pending
    BY <2>2, <2>3, <2>5
  <2>7. LET n == [m EXCEPT !.game = g, !.ended = m.ended \cup {m.game.run}] IN
        ManagerInv(n) /\ SameGame(m, n) /\ n.runs = m.runs
    BY <1>3, <2>3, <2>6, MoveKeeps, Zenon
  <2> QED  BY <2>4, <2>7, Zenon
<1> QED  BY <1>2, <1>3

\* The pause key
LEMMA PauseKeeps ==
  ASSUME NEW m, ManagerInv(m), Playing(m)
  PROVE  LET n == [m EXCEPT !.game.life = PauseKey(@)] IN
         ManagerInv(n) /\ SameGame(m, n) /\ n.runs = m.runs
<1> DEFINE l == [m.game.life EXCEPT !.paused = ~ @]
           g == [m.game EXCEPT !.life = l]
<1>1. m \in ManagerStates /\ m.game \in GameStates /\ m.game.life \in LifeState
  BY PlayingIs DEF GameStates, ManagerInv
<1>2. l \in LifeState /\ (l.over <=> m.game.life.over) /\ (l.pending <=> m.game.life.pending)
  BY <1>1 DEF LifeState
<1>3. [m EXCEPT !.game.life = PauseKey(@)] = [m EXCEPT !.game = g, !.ended = m.ended]
  BY <1>1 DEF PauseKey, ManagerStates, LifeState
<1> HIDE DEF l
<1>4. g \in GameStates /\ g.type = m.game.type /\ g.run = m.game.run
      /\ g.chart = m.game.chart /\ g.live = m.game.live /\ g.life = l
  BY <1>1, <1>2 DEF GameStates
<1>5. m.game.life.pending => m.game.life.over
  BY DEF ManagerInv, CurrentRun
<1> HIDE DEF g
<1>6. /\ g.life.over <=> m.game.life.over \/ g.life.pending
      /\ m.game.life.pending => g.life.pending
      /\ g.life.pending => ~m.game.life.over \/ m.game.life.pending
  BY <1>2, <1>4, <1>5
<1>7. LET n == [m EXCEPT !.game = g, !.ended = m.ended] IN
      ManagerInv(n) /\ SameGame(m, n) /\ n.runs = m.runs
  BY <1>4, <1>6, MoveKeeps, Zenon
<1> QED  BY <1>3, <1>7, Zenon

\* A frame, or a key the game plays with
LEMMA PlaysKeep ==
  ASSUME NEW m, ManagerInv(m), NEW n \in Plays(m)
  PROVE  ManagerInv(n) /\ SameGame(m, n) /\ n.runs = m.runs
<1>1. n = m \/ n = Scores(m) \/ n = Ends(m) \/ n = Ends(Scores(m))
  BY DEF Plays
<1>2. SameGame(m, m)  BY DEF SameGame
<1>3. ManagerInv(Ends(Scores(m))) /\ SameGame(Scores(m), Ends(Scores(m)))
      /\ Ends(Scores(m)).runs = Scores(m).runs
  BY ScoresKeep, EndsKeep
<1>4. SameGame(m, Ends(Scores(m)))
  BY <1>3, ScoresKeep DEF SameGame
<1> QED  BY <1>1, <1>2, <1>3, <1>4, ScoresKeep, EndsKeep

\* Crediting the results that wait
LEMMA CreditsKeep ==
  ASSUME NEW m, ManagerInv(m)
  PROVE  ManagerInv(Drain(m)) /\ SameGame(m, Drain(m)) /\ Drain(m).runs = m.runs
<1> DEFINE n == Drain(m)
<1>1. m \in ManagerStates  BY DEF ManagerInv
<1>2. /\ n \in ManagerStates
      /\ \A r \in Runs : Times(n, r) = Times(m, r)
      /\ n = [m EXCEPT !.results = n.results, !.credits = n.credits]
  BY <1>1, DrainKeeps
<1> HIDE DEF n
<1>3. /\ n.game = m.game /\ n.ended = m.ended /\ n.lost = m.lost /\ n.hurried = m.hurried
      /\ n.leftLate = m.leftLate /\ n.config = m.config /\ n.runChart = m.runChart
      /\ n.runs = m.runs /\ n.collected = m.collected
  BY <1>1, <1>2 DEF ManagerStates
<1>4. Playing(n) <=> Playing(m)  BY <1>3 DEF Playing
<1>5. SameGame(m, n) /\ BuiltFrom(n)
  BY <1>3, <1>4 DEF SameGame, ManagerInv, BuiltFrom
<1>6. CurrentRun(n)
  <2> SUFFICES ASSUME Playing(m) PROVE CurrentRun(n)
    BY <1>4 DEF CurrentRun
  <2>1. m.runs \in Runs  BY <1>1, PlayingIs DEF ManagerInv, CurrentRun, GameStates
  <2> QED  BY <1>2, <1>3, <2>1 DEF ManagerInv, CurrentRun
<1>7. NotYet(n)  BY <1>2, <1>3 DEF ManagerInv, NotYet
<1>8. CreditedFairly(n)  BY <1>2, <1>3 DEF ManagerInv, CreditedFairly
<1>9. EndedIsReported(n)
  <2> SUFFICES ASSUME NEW r \in m.ended \ (m.hurried \cup m.lost)
               PROVE r \in Reported(n) \/ (Playing(m) /\ m.game.run = r /\ m.game.life.pending)
    BY <1>3, <1>4 DEF EndedIsReported
  <2>1. r \in Runs  BY <1>1 DEF ManagerStates
  <2>2. r \in Reported(m) \/ (Playing(m) /\ m.game.run = r /\ m.game.life.pending)
    BY DEF ManagerInv, EndedIsReported
  <2> QED  BY <1>1, <1>2, <2>1, <2>2, TimesAre
<1> QED  BY <1>2, <1>3, <1>5, <1>6, <1>7, <1>8, <1>9 DEF ManagerInv, n

\* A frame reports and credits the run it ends.
LEMMA UpdateKeeps ==
  ASSUME NEW m, ManagerInv(m), NEW n \in Update(m)
  PROVE  ManagerInv(n) /\ SameGame(m, n) /\ n.runs = m.runs
<1>1. CASE ~Playing(m)
  <2>1. n = m  BY <1>1 DEF Update
  <2> QED  BY <2>1 DEF SameGame
<1>2. CASE Playing(m)
  <2>1. PICK p \in Plays(m) : n = Drain(Collect(p))  BY <1>2 DEF Update
  <2>2. ManagerInv(p) /\ SameGame(m, p) /\ p.runs = m.runs
    BY <2>1, PlaysKeep
  <2>3. ManagerInv(Collect(p)) /\ SameGame(p, Collect(p)) /\ Collect(p).runs = p.runs
    BY <2>2, CollectKeeps
  <2>4. ManagerInv(n) /\ SameGame(Collect(p), n) /\ n.runs = Collect(p).runs
    BY <2>1, <2>3, CreditsKeep
  <2> QED  BY <2>2, <2>3, <2>4 DEF SameGame
<1> QED  BY <1>1, <1>2

\* A new run in the place of the one played, or of none
LEMMA NextRunKeeps ==
  ASSUME NEW m, ManagerInv(m), CanBegin(m), NEW g \in GameStates, NEW n \in ManagerStates,
         g.run = m.runs + 1, ~g.life.over, ~g.life.pending,
         n.game = g, n.runs = m.runs + 1, n.results = m.results, n.credits = m.credits,
         n.lost = m.lost, n.ended = m.ended, n.leftLate = m.leftLate,
         n.runChart <=> g.chart, g.live <=> n.config.live,
         n.hurried = IF Playing(m) /\ m.game.life.pending
                     THEN m.hurried \cup {m.game.run} ELSE m.hurried
  PROVE  ManagerInv(n) /\ Playing(n)
<1>1. m \in ManagerStates  BY DEF ManagerInv
<1>2. m.runs \in 0 .. MaxRuns /\ m.runs < MaxRuns /\ m.runs + 1 \in Runs
  BY <1>1, ArcadeAssumption DEF ManagerStates, CanBegin, Runs
<1>3. \A r : Times(n, r) = Times(m, r)  BY TimesSame
<1>4. Playing(n)  BY PlayingIs
<1>5. Times(m, m.runs + 1) = 0  BY <1>2 DEF ManagerInv, NotYet
<1>6. CurrentRun(n)  BY <1>3, <1>5 DEF CurrentRun
<1>7. BuiltFrom(n)  BY DEF BuiltFrom
<1>8. NotYet(n)
  <2> SUFFICES ASSUME NEW r \in Runs, r > n.runs PROVE Times(n, r) = 0
    BY DEF NotYet
  <2>1. r > m.runs  BY <1>2 DEF Runs
  <2> QED  BY <1>3, <2>1 DEF ManagerInv, NotYet
<1>9. CreditedFairly(n)  BY <1>3 DEF ManagerInv, CreditedFairly
<1>10. EndedIsReported(n)
  <2> SUFFICES ASSUME NEW r \in m.ended \ (n.hurried \cup m.lost) PROVE r \in Reported(n)
    BY DEF EndedIsReported
  <2>1. r \in Runs /\ r \in m.ended \ (m.hurried \cup m.lost)
        /\ ~(Playing(m) /\ m.game.life.pending /\ m.game.run = r)
    BY <1>1 DEF ManagerStates
  <2>2. r \in Reported(m)  BY <2>1 DEF ManagerInv, EndedIsReported
  <2> QED  BY <1>1, <1>3, <2>1, <2>2, TimesAre
<1> QED  BY <1>4, <1>6, <1>7, <1>8, <1>9, <1>10 DEF ManagerInv

\* The number of the next run is one.
LEMMA BeginsTyped ==
  ASSUME NEW m, ManagerInv(m), CanBegin(m)
  PROVE  m.runs + 1 \in Runs /\ m.runs + 1 \in 0 .. MaxRuns
BY ArcadeAssumption DEF ManagerInv, ManagerStates, CanBegin, Runs

\* launchGame
LEMMA LaunchKeeps ==
  ASSUME NEW m, ManagerInv(m), CanBegin(m), NEW t \in Types
  PROVE  LET n == Launch(m, t) IN
         /\ ManagerInv(n) /\ Playing(n) /\ n.game.type = t
         /\ n.config = m.config /\ n.game.chart = m.config.chart
<1> DEFINE c == Collect(m)
           n == Launch(m, t)
           g == MakeGame(t, c.runs + 1, c.config)
<1>1. ManagerInv(c) /\ c.config = m.config /\ c.runs = m.runs /\ (Playing(c) <=> Playing(m))
      /\ ~(Playing(c) /\ c.game.life.pending)
  BY CollectKeeps DEF SameGame
<1>2. n = [c EXCEPT !.game = g, !.runs = @ + 1, !.collected = FALSE, !.runChart = c.config.chart]
  BY DEF Launch
<1> HIDE DEF c
<1>3. CanBegin(c)  BY <1>1 DEF CanBegin
<1>4. c \in ManagerStates /\ c.runs + 1 \in Runs /\ c.runs + 1 \in 0 .. MaxRuns
      /\ c.config \in Configs
  BY <1>1, <1>3, BeginsTyped DEF ManagerInv, ManagerStates
<1>5. /\ g.type = t /\ g.run = c.runs + 1 /\ g.life = Started
      /\ g.chart = c.config.chart /\ g.live = c.config.live /\ g.scored = FALSE
      /\ g \in GameStates
  BY <1>4 DEF MakeGame, ApplyFull, GameStates, Configs, Started, LifeState
<1> HIDE DEF g, n
<1>6. /\ n.game = g /\ n.runs = c.runs + 1 /\ n.results = c.results /\ n.credits = c.credits
      /\ n.lost = c.lost /\ n.ended = c.ended /\ n.leftLate = c.leftLate
      /\ n.runChart = c.config.chart /\ n.config = c.config /\ n.hurried = c.hurried
  BY <1>2, <1>4 DEF ManagerStates
<1>7. n \in ManagerStates
  BY <1>2, <1>4, <1>5 DEF ManagerStates, Configs
<1>8. ~g.life.over /\ ~g.life.pending  BY <1>5 DEF Started
<1>9. n.hurried = IF Playing(c) /\ c.game.life.pending
                  THEN c.hurried \cup {c.game.run} ELSE c.hurried
  BY <1>1, <1>6
<1>10. (n.runChart <=> g.chart) /\ (g.live <=> n.config.live)
  BY <1>5, <1>6
<1>11. ManagerInv(n) /\ Playing(n)
  BY <1>1, <1>3, <1>5, <1>6, <1>7, <1>8, <1>9, <1>10, NextRunKeeps, Zenon
<1> QED  BY <1>1, <1>5, <1>6, <1>11 DEF n

\* The restart key, and a new text
LEMMA ResetKeeps ==
  ASSUME NEW m, ManagerInv(m), CanBegin(m), Playing(m)
  PROVE  LET n == ResetGame(m) IN ManagerInv(n) /\ SameGame(m, n)
<1> DEFINE n == ResetGame(m)
           l == Restarted(m.game.life)
           g == [m.game EXCEPT !.run = m.runs + 1, !.life = l, !.scored = FALSE]
           h == IF m.game.life.pending THEN m.hurried \cup {m.game.run} ELSE m.hurried
<1>1. m \in ManagerStates /\ m.game \in GameStates /\ m.game.life \in LifeState
      /\ m.game.run \in Runs
  BY PlayingIs DEF GameStates, ManagerInv
<1>2. m.runs + 1 \in Runs /\ m.runs + 1 \in 0 .. MaxRuns  BY BeginsTyped
<1>3. l \in LifeState /\ ~l.over /\ ~l.pending
  BY <1>1 DEF LifeState, Restarted, Started
<1>4. n = [m EXCEPT !.game = g, !.runs = @ + 1, !.hurried = h]
  BY <1>1 DEF ResetGame, ManagerStates, GameStates
<1> HIDE DEF l
<1>5. g \in GameStates /\ g.type = m.game.type /\ g.run = m.runs + 1 /\ g.life = l
      /\ g.chart = m.game.chart /\ g.live = m.game.live
  BY <1>1, <1>2, <1>3 DEF GameStates
<1>6. h \in SUBSET Runs  BY <1>1 DEF ManagerStates
<1>7. h = IF Playing(m) /\ m.game.life.pending THEN m.hurried \cup {m.game.run} ELSE m.hurried
  OBVIOUS
<1> HIDE DEF g, h, n
<1>8. /\ n.game = g /\ n.runs = m.runs + 1 /\ n.results = m.results /\ n.credits = m.credits
      /\ n.lost = m.lost /\ n.ended = m.ended /\ n.leftLate = m.leftLate
      /\ n.runChart = m.runChart /\ n.config = m.config /\ n.hurried = h
  BY <1>1, <1>4 DEF ManagerStates
<1>9. n \in ManagerStates
  BY <1>1, <1>2, <1>4, <1>5, <1>6 DEF ManagerStates
<1>10. (n.runChart <=> g.chart) /\ (g.live <=> n.config.live)
  BY <1>5, <1>8 DEF ManagerInv, BuiltFrom
<1>11. ManagerInv(n) /\ Playing(n)
  BY <1>3, <1>5, <1>7, <1>8, <1>9, <1>10, NextRunKeeps, Zenon
<1>12. SameGame(m, n)
  BY <1>5, <1>8, <1>11 DEF SameGame
<1> QED  BY <1>11, <1>12 DEF n

\* restartGame
LEMMA RestartKeeps ==
  ASSUME NEW m, ManagerInv(m), CanBegin(m)
  PROVE  ManagerInv(RestartGame(m)) /\ SameGame(m, RestartGame(m))
<1>1. CASE ~Playing(m)
  <2>1. RestartGame(m) = m  BY <1>1 DEF RestartGame
  <2> QED  BY <2>1 DEF SameGame
<1>2. CASE Playing(m)
  <2> DEFINE c == Collect(m)
             q == ResetGame(c)
             n == RestartGame(m)
             g == [q.game EXCEPT !.life = Started]
  <2>1. ManagerInv(c) /\ SameGame(m, c) /\ c.runs = m.runs  BY CollectKeeps
  <2> HIDE DEF c
  <2>2. CanBegin(c) /\ Playing(c)  BY <1>2, <2>1 DEF CanBegin, SameGame
  <2>3. ManagerInv(q) /\ SameGame(c, q) /\ Playing(q)
    BY <2>1, <2>2, ResetKeeps DEF SameGame
  <2>4. n = [q EXCEPT !.collected = FALSE, !.game.life = Started]
    BY <1>2 DEF RestartGame, c
  <2>5. q.game.life = Restarted(c.game.life)
    <3>1. c \in ManagerStates /\ c.game \in GameStates
      BY <2>1, <2>2, PlayingIs DEF ManagerInv
    <3> QED  BY <3>1 DEF ResetGame, ManagerStates, GameStates
  <2> HIDE DEF q
  <2>6. q \in ManagerStates /\ q.game \in GameStates
    BY <2>3, PlayingIs DEF ManagerInv
  <2>7. ~q.game.life.over /\ ~q.game.life.pending
    BY <2>5 DEF Restarted, Started
  <2>8. g \in GameStates /\ g.type = q.game.type /\ g.run = q.game.run /\ g.life = Started
        /\ g.chart = q.game.chart /\ g.live = q.game.live
    BY <2>6 DEF GameStates, Started, LifeState
  <2>9. n = [q EXCEPT !.collected = FALSE, !.game = g]
    BY <2>4, <2>6 DEF ManagerStates
  <2> HIDE DEF g, n
  <2>10. n \in ManagerStates
    BY <2>6, <2>8, <2>9 DEF ManagerStates
  <2>11. /\ n.game = g /\ n.ended = q.ended /\ n.results = q.results /\ n.credits = q.credits
         /\ n.lost = q.lost /\ n.hurried = q.hurried /\ n.leftLate = q.leftLate
         /\ n.config = q.config /\ n.runChart = q.runChart /\ n.runs = q.runs
    BY <2>6, <2>9 DEF ManagerStates
  <2>12. Playing(n) /\ ~Started.over /\ ~Started.pending
    BY <2>8, <2>10, <2>11, PlayingIs DEF Started
  <2>13. \A r : Times(n, r) = Times(q, r)  BY <2>11, TimesSame
  <2>14. CurrentRun(n)
    BY <2>3, <2>7, <2>8, <2>11, <2>12, <2>13 DEF ManagerInv, CurrentRun
  <2>15. BuiltFrom(n)  BY <2>3, <2>8, <2>11 DEF ManagerInv, BuiltFrom
  <2>16. NotYet(n)  BY <2>3, <2>11, <2>13 DEF ManagerInv, NotYet
  <2>17. CreditedFairly(n)  BY <2>3, <2>11, <2>13 DEF ManagerInv, CreditedFairly
  <2>18. EndedIsReported(n)
    <3> SUFFICES ASSUME NEW r \in q.ended \ (q.hurried \cup q.lost) PROVE r \in Reported(n)
      BY <2>11 DEF EndedIsReported
    <3>1. r \in Runs  BY <2>6 DEF ManagerStates
    <3>2. r \in Reported(q)  BY <2>3, <2>7 DEF ManagerInv, EndedIsReported
    <3> QED  BY <2>6, <2>10, <2>13, <3>1, <3>2, TimesAre
  <2>19. SameGame(m, n)
    BY <2>1, <2>3, <2>8, <2>11, <2>12, <2>2 DEF SameGame
  <2> QED  BY <2>10, <2>14, <2>15, <2>16, <2>17, <2>18, <2>19 DEF ManagerInv, n
<1> QED  BY <1>1, <1>2

\* What remains when the game is gone.  Its run is counted once more by who
\* ends it, if at all.
LEMMA GoneKeeps ==
  ASSUME NEW m, NEW n \in ManagerStates, NEW p \in ManagerStates, ManagerInv(m), Playing(m),
         \/ \A r \in Runs : Times(p, r) = Times(m, r) /\ (r \in p.lost <=> r \in m.lost)
         \/ \A r \in Runs :
              /\ Times(p, r) = Times(m, r)
                   + IF r = m.runs /\ Len(m.results) < MaxResults THEN 1 ELSE 0
              /\ r \in p.lost <=> r \in m.lost \/ (r = m.runs /\ ~(Len(m.results) < MaxResults)),
         \A r \in Runs : Times(p, r) <= IF r \in n.leftLate THEN 2 ELSE 1,
         m.game.life.pending => \E r \in Runs : r = m.runs /\ (Times(p, r) > 0 \/ r \in p.lost),
         n = [p EXCEPT !.game = None, !.leftLate = n.leftLate, !.collected = n.collected],
         p.ended = m.ended, p.hurried = m.hurried, p.runs = m.runs
  PROVE  ManagerInv(n) /\ ~Playing(n)
<1>1. m \in ManagerStates /\ m.game.run = m.runs
  BY DEF ManagerInv, CurrentRun
<1>2. m.runs \in Runs  BY <1>1, PlayingIs DEF GameStates
<1>3. /\ n.game = None /\ n.results = p.results /\ n.credits = p.credits /\ n.lost = p.lost
      /\ n.ended = m.ended /\ n.hurried = m.hurried /\ n.runs = m.runs
  BY DEF ManagerStates
<1>4. \A r : Times(n, r) = Times(p, r)  BY <1>3, TimesSame
<1>5. ~Playing(n)  BY <1>3 DEF Playing
<1>6. CurrentRun(n) /\ BuiltFrom(n)  BY <1>5 DEF CurrentRun, BuiltFrom
<1>7. NotYet(n)
  <2> SUFFICES ASSUME NEW r \in Runs, r > n.runs PROVE Times(n, r) = 0
    BY DEF NotYet
  <2>1. r # m.runs /\ Times(m, r) = 0  BY <1>2, <1>3 DEF ManagerInv, NotYet, Runs
  <2> QED  BY <1>4, <2>1
<1>8. CreditedFairly(n)  BY <1>4 DEF CreditedFairly
<1>9. EndedIsReported(n)
  <2> SUFFICES ASSUME NEW r \in m.ended \ (m.hurried \cup p.lost) PROVE r \in Reported(n)
    BY <1>3 DEF EndedIsReported
  <2>1. r \in Runs /\ r \in m.ended \ (m.hurried \cup m.lost)
    BY <1>1 DEF ManagerStates
  <2>2. r \in Reported(m) \/ (m.game.run = r /\ m.game.life.pending)
    BY <2>1 DEF ManagerInv, EndedIsReported
  <2>3. Times(p, r) > 0
    BY <1>1, <2>1, <2>2, TimesAre
  <2> QED  BY <1>4, <2>1, <2>3, TimesAre
<1> QED  BY <1>5, <1>6, <1>7, <1>8, <1>9 DEF ManagerInv

\* stopGame
LEMMA StopKeeps ==
  ASSUME NEW m, ManagerInv(m)
  PROVE  /\ ManagerInv(Stop(m)) /\ ~Playing(Stop(m))
<1>1. CASE ~Playing(m)
  <2>1. Stop(m) = m  BY <1>1 DEF Stop
  <2> QED  BY <1>1, <2>1
<1>2. CASE Playing(m)
  <2> DEFINE c == Collect(m)
             p == IF c.game.scored /\ ~ c.collected THEN Push(c, c.game.run) ELSE c
             n == Stop(m)
  <2>1. ManagerInv(c) /\ Playing(c) /\ ~c.game.life.pending
    BY <1>2, CollectKeeps DEF SameGame
  <2>2. n = [p EXCEPT !.game = None]  BY <1>2 DEF Stop
  <2> HIDE DEF c
  <2>3. c \in ManagerStates /\ c.game \in GameStates /\ c.game.run = c.runs /\ c.runs \in Runs
        /\ c.game.life \in LifeState
    BY <2>1, PlayingIs DEF ManagerInv, CurrentRun, GameStates
  <2>4. CASE c.game.scored /\ ~ c.collected
    <3>1. p = Push(c, c.runs)  BY <2>3, <2>4
    <3> HIDE DEF p
    <3>2. /\ p \in ManagerStates
          /\ \A r \in Runs : Times(p, r) =
               Times(c, r) + IF r = c.runs /\ Len(c.results) < MaxResults THEN 1 ELSE 0
          /\ \A r \in Runs : r \in p.lost <=>
               r \in c.lost \/ (r = c.runs /\ ~(Len(c.results) < MaxResults))
          /\ p = [c EXCEPT !.results = p.results, !.lost = p.lost]
      <4> DEFINE Pushed(q) ==
            /\ q \in ManagerStates
            /\ \A r \in Runs : Times(q, r) =
                 Times(c, r) + IF r = c.runs /\ Len(c.results) < MaxResults THEN 1 ELSE 0
            /\ \A r \in Runs : r \in q.lost <=>
                 r \in c.lost \/ (r = c.runs /\ ~(Len(c.results) < MaxResults))
            /\ q = [c EXCEPT !.results = q.results, !.lost = q.lost]
      <4>1. Pushed(Push(c, c.runs))
        BY <2>3, PushKeeps, Zenon
      <4> HIDE DEF Pushed
      <4>2. Pushed(p)  BY <3>1, <4>1
      <4> QED  BY <4>2 DEF Pushed
    <3>3. Times(c, c.runs) = 0
      BY <2>1, <2>3, <2>4, TimesAre DEF ManagerInv, CurrentRun, LifeState
    <3>4. p.ended = c.ended /\ p.hurried = c.hurried /\ p.runs = c.runs
          /\ p.leftLate = c.leftLate /\ p.collected = c.collected
      BY <2>3, <3>2 DEF ManagerStates
    <3>5. n \in ManagerStates /\ n.leftLate = p.leftLate /\ n.collected = p.collected
      BY <2>2, <3>2 DEF ManagerStates
    <3>6. n = [p EXCEPT !.game = None, !.leftLate = n.leftLate, !.collected = n.collected]
      BY <2>2, <3>2, <3>5 DEF ManagerStates
    <3>7. \A r \in Runs : Times(p, r) <= IF r \in n.leftLate THEN 2 ELSE 1
      BY <2>1, <2>3, <3>2, <3>3, <3>4, <3>5, TimesAre DEF ManagerInv, CreditedFairly
    <3>8. c.game.life.pending => \E r \in Runs : r = c.runs /\ (Times(p, r) > 0 \/ r \in p.lost)
      BY <2>1
    <3> HIDE DEF n
    <3>9. ManagerInv(n) /\ ~Playing(n)
      BY <2>1, <3>2, <3>4, <3>5, <3>6, <3>7, <3>8, GoneKeeps, Zenon
    <3> QED  BY <3>9 DEF n
  <2>5. CASE ~(c.game.scored /\ ~ c.collected)
    <3>1. p = c  BY <2>5
    <3> HIDE DEF p
    <3>2. n \in ManagerStates /\ n.leftLate = c.leftLate /\ n.collected = c.collected
      BY <2>2, <2>3, <3>1 DEF ManagerStates
    <3>3. n = [c EXCEPT !.game = None, !.leftLate = n.leftLate, !.collected = n.collected]
      BY <2>2, <2>3, <3>1, <3>2 DEF ManagerStates
    <3>4. \A r \in Runs : Times(c, r) <= IF r \in n.leftLate THEN 2 ELSE 1
      BY <2>1, <3>2 DEF ManagerInv, CreditedFairly
    <3>5. c.game.life.pending => \E r \in Runs : r = c.runs /\ (Times(c, r) > 0 \/ r \in c.lost)
      BY <2>1
    <3>6. \A r \in Runs : Times(c, r) = Times(c, r) /\ (r \in c.lost <=> r \in c.lost)
      OBVIOUS
    <3> HIDE DEF n
    <3>7. ManagerInv(n) /\ ~Playing(n)
      BY <2>1, <2>3, <3>2, <3>3, <3>4, <3>5, <3>6, GoneKeeps, Zenon
    <3> QED  BY <3>7 DEF n
  <2> QED  BY <2>4, <2>5
<1> QED  BY <1>1, <1>2

\* Escape leaves the game: its run is counted, for the second time if it was
\* reported before.
LEMMA EscapeKeeps ==
  ASSUME NEW m, ManagerInv(m), Playing(m)
  PROVE  ManagerInv(Escape(m)) /\ ~Playing(Escape(m))
<1> DEFINE x == m.runs
           l == [m.game.life EXCEPT !.exiting = TRUE, !.pending = TRUE]
           lateRuns == IF m.collected /\ ~ m.game.life.pending
                   THEN m.leftLate \cup {m.game.run} ELSE m.leftLate
           leaving == [m EXCEPT !.game.life = ExitKey(@), !.leftLate = lateRuns]
           p == Push(m, x)
           n == Escape(m)
<1>1. m \in ManagerStates /\ m.game \in GameStates /\ m.game.run = x /\ x \in Runs
      /\ m.game.life \in LifeState
  BY PlayingIs DEF ManagerInv, CurrentRun, GameStates
<1>2. l \in LifeState /\ l.pending  BY <1>1 DEF LifeState
<1>3. lateRuns \in SUBSET Runs  BY <1>1 DEF ManagerStates
<1>4. leaving = [m EXCEPT !.game = [m.game EXCEPT !.life = l], !.leftLate = lateRuns]
  BY <1>1 DEF ManagerStates, ExitKey
<1>5. n = [Collect(leaving) EXCEPT !.game = None]
  BY DEF Escape, ManagerStates
<1> HIDE DEF l, lateRuns, leaving
<1>6. [m.game EXCEPT !.life = l] \in GameStates
      /\ [m.game EXCEPT !.life = l].life = l /\ [m.game EXCEPT !.life = l].run = x
  BY <1>1, <1>2 DEF GameStates
<1>7. leaving \in ManagerStates /\ leaving.game = [m.game EXCEPT !.life = l]
      /\ leaving.results = m.results /\ leaving.lost = m.lost
  BY <1>1, <1>3, <1>4, <1>6 DEF ManagerStates
<1>8. Playing(leaving) /\ leaving.game.life.pending /\ leaving.game.run = x
  BY <1>2, <1>6, <1>7, PlayingIs
<1>9. n = [Push(leaving, x) EXCEPT !.game = None, !.collected = TRUE]
  <2>1. Push(leaving, x) \in ManagerStates  BY <1>1, <1>7, PushKeeps
  <2> QED  BY <1>5, <1>8, <2>1 DEF Collect, ManagerStates
<1>10. /\ p \in ManagerStates
       /\ \A r \in Runs : Times(p, r) =
            Times(m, r) + IF r = x /\ Len(m.results) < MaxResults THEN 1 ELSE 0
       /\ \A r \in Runs : r \in p.lost <=>
            r \in m.lost \/ (r = x /\ ~(Len(m.results) < MaxResults))
       /\ p = [m EXCEPT !.results = p.results, !.lost = p.lost]
  BY <1>1, PushKeeps
<1>11. Push(leaving, x) = [p EXCEPT !.game = leaving.game, !.leftLate = lateRuns]
  <2>1. CASE Len(m.results) < MaxResults
    BY <1>1, <1>4, <1>7, <2>1 DEF Push, ManagerStates
  <2>2. CASE ~(Len(m.results) < MaxResults)
    BY <1>1, <1>4, <1>7, <2>2 DEF Push, ManagerStates
  <2> QED  BY <2>1, <2>2
<1> HIDE DEF p, n
<1>12. n = [p EXCEPT !.game = None, !.leftLate = lateRuns, !.collected = TRUE]
  BY <1>9, <1>10, <1>11 DEF ManagerStates
<1>13. n \in ManagerStates /\ n.leftLate = lateRuns /\ n.collected = TRUE
  BY <1>3, <1>10, <1>12 DEF ManagerStates
<1>14. n = [p EXCEPT !.game = None, !.leftLate = n.leftLate, !.collected = n.collected]
  BY <1>12, <1>13
<1>15. p.ended = m.ended /\ p.hurried = m.hurried /\ p.runs = m.runs
  BY <1>1, <1>10 DEF ManagerStates
<1>16. \A r \in Runs : Times(p, r) <= IF r \in n.leftLate THEN 2 ELSE 1
  <2>1. m.leftLate \subseteq lateRuns  BY DEF lateRuns
  <2>2. ASSUME NEW r \in Runs, r # x PROVE Times(p, r) <= IF r \in n.leftLate THEN 2 ELSE 1
    <3>1. Times(p, r) = Times(m, r) /\ Times(m, r) \in Nat
      BY <1>1, <1>10, <2>2, TimesAre
    <3>2. Times(m, r) <= IF r \in m.leftLate THEN 2 ELSE 1
      BY DEF ManagerInv, CreditedFairly
    <3> QED  BY <1>13, <2>1, <3>1, <3>2
  <2>3. CASE m.game.life.over /\ ~m.game.life.pending
    <3>1. x \in lateRuns /\ Times(m, x) <= 1 /\ Times(m, x) \in Nat
      BY <1>1, <2>3, TimesAre DEF ManagerInv, CurrentRun, lateRuns
    <3>2. Times(p, x) <= 2  BY <1>1, <1>10, <3>1
    <3> QED  BY <1>13, <2>2, <3>1, <3>2
  <2>4. CASE ~(m.game.life.over /\ ~m.game.life.pending)
    <3>1. Times(m, x) = 0  BY <1>1, <2>4, TimesAre DEF ManagerInv, CurrentRun
    <3>2. Times(p, x) <= 1  BY <1>1, <1>10, <3>1
    <3>3. Times(p, x) <= IF x \in n.leftLate THEN 2 ELSE 1
      <4>1. Times(p, x) \in Nat  BY <1>1, <1>10, TimesAre
      <4> QED  BY <3>2, <4>1
    <3> QED  BY <2>2, <3>3
  <2> QED  BY <2>3, <2>4
<1>17. m.game.life.pending => \E r \in Runs : r = m.runs /\ (Times(p, r) > 0 \/ r \in p.lost)
  <2>1. Times(m, x) \in Nat  BY <1>1, TimesAre
  <2>2. Times(p, x) > 0 \/ x \in p.lost  BY <1>1, <1>10, <2>1
  <2> QED  BY <1>1, <2>2
<1>18. ManagerInv(n) /\ ~Playing(n)
  BY <1>10, <1>13, <1>14, <1>15, <1>16, <1>17, GoneKeeps, Zenon
<1> QED  BY <1>18 DEF n

\* handleKey
LEMMA KeyKeeps ==
  ASSUME NEW m, ManagerInv(m), NEW n \in Key(m)
  PROVE  ManagerInv(n) /\ (SameGame(m, n) \/ ~Playing(n))
<1>1. CASE ~Playing(m)
  <2>1. n = m  BY <1>1 DEF Key
  <2> QED  BY <1>1, <2>1
<1>2. CASE Playing(m)
  <2>1. \/ n \in Plays(m)
        \/ n = Escape(m)
        \/ n = [m EXCEPT !.game.life = PauseKey(@)]
        \/ CanBegin(m) /\ n = ResetGame(m)
    BY <1>2 DEF Key
  <2>2. CASE n \in Plays(m)  BY <2>2, PlaysKeep
  <2>3. CASE n = Escape(m)  BY <1>2, <2>3, EscapeKeeps
  <2>4. CASE n = [m EXCEPT !.game.life = PauseKey(@)]  BY <1>2, <2>4, PauseKeeps, Zenon
  <2>5. CASE CanBegin(m) /\ n = ResetGame(m)  BY <1>2, <2>5, ResetKeeps, Zenon
  <2> QED  BY <2>1, <2>2, <2>3, <2>4, <2>5
<1> QED  BY <1>1, <1>2

\* What can change live changes in the running game.
LEMMA SetConfigKeeps ==
  ASSUME NEW m, ManagerInv(m), NEW config \in Configs
  PROVE  LET n == SetConfig(m, config) IN
         /\ ManagerInv(n) /\ n.config = config /\ n.runs = m.runs /\ n.runChart = m.runChart
         /\ Playing(n) <=> Playing(m)
         /\ n.game.type = m.game.type
         /\ Playing(m) => n.game.chart = m.game.chart
<1> DEFINE n == SetConfig(m, config)
<1>1. m \in ManagerStates  BY DEF ManagerInv
<1>2. PICK g \in GameStates \cup {None} :
        /\ n = [m EXCEPT !.config = config, !.game = g]
        /\ Playing(m) => /\ g \in GameStates /\ g.type = m.game.type /\ g.run = m.game.run
                         /\ g.life = m.game.life /\ g.chart = m.game.chart
                         /\ g.live = config.live
        /\ ~Playing(m) => g = m.game
  <2>1. CASE Playing(m)
    <3> DEFINE h == [m.game EXCEPT !.live = config.live]
    <3>1. m.game \in GameStates  BY <1>1, <2>1, PlayingIs
    <3>2. h \in GameStates /\ h.type = m.game.type /\ h.run = m.game.run
          /\ h.life = m.game.life /\ h.chart = m.game.chart /\ h.live = config.live
      BY <3>1 DEF GameStates, Configs
    <3>3. n = [m EXCEPT !.config = config, !.game = h]
      BY <1>1, <2>1 DEF SetConfig, ApplyLive, ManagerStates
    <3> HIDE DEF h, n
    <3> QED  BY <2>1, <3>2, <3>3
  <2>2. CASE ~Playing(m)
    <3>1. n = [m EXCEPT !.config = config, !.game = m.game]
      BY <1>1, <2>2 DEF SetConfig, ManagerStates
    <3>2. m.game \in GameStates \cup {None}  BY <1>1 DEF ManagerStates
    <3> HIDE DEF n
    <3> QED  BY <2>2, <3>1, <3>2
  <2> QED  BY <2>1, <2>2
<1> HIDE DEF n
<1>3. /\ n.game = g /\ n.ended = m.ended /\ n.results = m.results /\ n.credits = m.credits
      /\ n.lost = m.lost /\ n.hurried = m.hurried /\ n.leftLate = m.leftLate
      /\ n.config = config /\ n.runChart = m.runChart /\ n.runs = m.runs
      /\ n.collected = m.collected
  BY <1>1, <1>2 DEF ManagerStates
<1>4. n \in ManagerStates  BY <1>1, <1>2 DEF ManagerStates
<1>5. Playing(n) <=> Playing(m)
  BY <1>1, <1>2, <1>3, <1>4, PlayingIs
<1>6. \A r : Times(n, r) = Times(m, r)  BY <1>3, TimesSame
<1>7. CurrentRun(n)  BY <1>2, <1>3, <1>5, <1>6 DEF ManagerInv, CurrentRun
<1>8. BuiltFrom(n)  BY <1>2, <1>3, <1>5 DEF ManagerInv, BuiltFrom
<1>9. NotYet(n)  BY <1>3, <1>6 DEF ManagerInv, NotYet
<1>10. CreditedFairly(n)  BY <1>3, <1>6 DEF ManagerInv, CreditedFairly
<1>11. EndedIsReported(n)
  <2> SUFFICES ASSUME NEW r \in m.ended \ (m.hurried \cup m.lost)
               PROVE r \in Reported(n) \/ (Playing(n) /\ n.game.run = r /\ n.game.life.pending)
    BY <1>3 DEF EndedIsReported
  <2>1. r \in Runs  BY <1>1 DEF ManagerStates
  <2>2. r \in Reported(m) \/ (Playing(m) /\ m.game.run = r /\ m.game.life.pending)
    BY DEF ManagerInv, EndedIsReported
  <2> QED  BY <1>1, <1>2, <1>3, <1>4, <1>5, <1>6, <2>1, <2>2, TimesAre
<1>12. n.game.type = m.game.type /\ (Playing(m) => n.game.chart = m.game.chart)
  BY <1>2, <1>3
<1> QED  BY <1>3, <1>4, <1>5, <1>7, <1>8, <1>9, <1>10, <1>11, <1>12 DEF ManagerInv, n

\* relaunchCurrentGame
LEMMA RelaunchKeeps ==
  ASSUME NEW m, ManagerInv(m), CanBegin(m)
  PROVE  LET n == Relaunch(m) IN
         /\ ManagerInv(n) /\ (Playing(n) <=> Playing(m)) /\ n.config = m.config
         /\ n.game.type = m.game.type
         /\ Playing(n) => n.game.chart = m.config.chart
<1>1. CASE Playing(m)
  <2>1. m.game.type \in Types  BY <1>1, PlayingIs DEF ManagerInv
  <2> QED  BY <1>1, <2>1, LaunchKeeps, Zenon DEF Relaunch
<1>2. CASE ~Playing(m)
  BY <1>2 DEF Relaunch
<1> QED  BY <1>1, <1>2

\* The manager before its first game
LEMMA IdleKeeps == ManagerInv(Idle) /\ ~Playing(Idle)
<1>1. Idle \in ManagerStates
  <2>1. <<>> \in Seq(Runs) /\ [r \in Runs |-> 0] \in [Runs -> Nat]  OBVIOUS
  <2> QED  BY <2>1, ArcadeAssumption DEF Idle, ManagerStates, Configs, None
<1>2. ~Playing(Idle)  BY DEF Idle, Playing
<1>3. \A r \in Runs : Times(Idle, r) = 0  BY OccurrencesNone DEF Times, Idle
<1>4. CurrentRun(Idle) /\ BuiltFrom(Idle)  BY <1>2 DEF CurrentRun, BuiltFrom
<1>5. NotYet(Idle) /\ CreditedFairly(Idle)  BY <1>3 DEF NotYet, CreditedFairly
<1>6. EndedIsReported(Idle)  BY DEF EndedIsReported, Idle
<1> QED  BY <1>1, <1>2, <1>4, <1>5, <1>6 DEF ManagerInv

(***************************************************************************)
(* The windows of the desktop.                                             *)
(***************************************************************************)
ChartInForce(m) == Playing(m) => (m.game.chart <=> m.config.chart)

HubInv ==
  /\ ManagerInv(arcade) /\ ChartInForce(arcade)
  /\ hub \in BOOLEAN /\ lab \in BOOLEAN /\ owns \in BOOLEAN
  /\ NoOrphanGame

\* A step that moves the game and no window.
LEMMA GameMoves ==
  ASSUME HubInv, ManagerInv(arcade'), SameGame(arcade, arcade'), UNCHANGED <<hub, lab, owns>>
  PROVE  HubInv'
<1>1. ChartInForce(arcade')
  BY DEF HubInv, ChartInForce, SameGame
<1>2. NoOrphanGame'
  BY DEF HubInv, NoOrphanGame, SameGame, IsFlexing
<1> QED  BY <1>1, <1>2 DEF HubInv

\* A step after which no game runs.
LEMMA GameGone ==
  ASSUME HubInv, ManagerInv(arcade'), ~Playing(arcade'),
         hub' \in BOOLEAN, lab' \in BOOLEAN, owns' \in BOOLEAN
  PROVE  HubInv'
<1>1. ~Playing(arcade)'  OBVIOUS
<1> QED  BY <1>1 DEF HubInv, ChartInForce, NoOrphanGame

\* The Flexing run the laboratory lets go, and no other.
LEMMA FlexingStops ==
  ASSUME HubInv, owns, lab' \in BOOLEAN, owns' \in BOOLEAN, UNCHANGED hub, StopIfFlexing
  PROVE  HubInv'
<1>1. CASE IsFlexing(arcade)
  <2>1. arcade' = Stop(arcade)  BY <1>1 DEF StopIfFlexing
  <2>2. ManagerInv(Stop(arcade)) /\ ~Playing(Stop(arcade))  BY StopKeeps DEF HubInv
  <2>3. ManagerInv(arcade') /\ ~Playing(arcade')  BY <2>1, <2>2
  <2>4. hub' \in BOOLEAN  BY DEF HubInv
  <2> QED  BY <2>3, <2>4, GameGone
<1>2. CASE ~IsFlexing(arcade)
  <2>1. arcade' = arcade  BY <1>2 DEF StopIfFlexing
  <2> QED  BY <1>2, <2>1 DEF HubInv, NoOrphanGame
<1> QED  BY <1>1, <1>2

\* Before the first window
LEMMA HubBegins == HubInit => HubInv
<1> SUFFICES ASSUME HubInit PROVE HubInv  OBVIOUS
<1>1. arcade = Idle /\ hub = FALSE /\ lab = FALSE /\ owns = FALSE  BY DEF HubInit
<1> QED  BY <1>1, IdleKeeps DEF HubInv, ChartInForce, NoOrphanGame

\* A game the hub opens is the hub's.
LEMMA HubLaunches ==
  ASSUME HubInv, CanBegin(arcade), NEW t \in Types, arcade' = Launch(arcade, t),
         hub', hub' \in BOOLEAN, UNCHANGED <<lab, owns>>
  PROVE  HubInv'
<1>1. /\ ManagerInv(arcade') /\ arcade'.config = arcade.config
      /\ arcade'.game.chart = arcade.config.chart
  BY LaunchKeeps DEF HubInv
<1> QED  BY <1>1 DEF HubInv, ChartInForce, NoOrphanGame

\* One step of the proof for each action of a window, a timer or the dialog.
LEMMA HubSteps == HubInv /\ [HubNext]_hubVars => HubInv'
<1> SUFFICES ASSUME HubInv, [HubNext]_hubVars PROVE HubInv'
  OBVIOUS
<1>0. ManagerInv(arcade) /\ ChartInForce(arcade)
      /\ hub \in BOOLEAN /\ lab \in BOOLEAN /\ owns \in BOOLEAN /\ NoOrphanGame
  BY DEF HubInv
<1>1. ASSUME OpenHub PROVE HubInv'
  <2>1. hub' /\ hub' \in BOOLEAN /\ UNCHANGED <<lab, owns>>  BY <1>1 DEF OpenHub
  <2>2. CASE UNCHANGED arcade
    BY <1>0, <2>1, <2>2 DEF HubInv, NoOrphanGame
  <2>3. CASE CanBegin(arcade) /\ \E t \in Types : arcade' = Launch(arcade, t)
    BY <2>1, <2>3, HubLaunches
  <2> QED  BY <1>1, <2>2, <2>3 DEF OpenHub
<1>2. ASSUME CloseHub PROVE HubInv'
  <2>1. UNCHANGED <<lab, owns>> /\ hub' \in BOOLEAN  BY <1>2 DEF CloseHub
  <2>2. CASE LabKeeps
    <3>1. arcade' = arcade  BY <1>2, <2>2 DEF CloseHub
    <3> QED  BY <1>0, <2>1, <2>2, <3>1 DEF HubInv, NoOrphanGame, LabKeeps
  <2>3. CASE ~LabKeeps
    <3>1. arcade' = Stop(arcade)  BY <1>2, <2>3 DEF CloseHub
    <3>2. ManagerInv(arcade') /\ ~Playing(arcade')  BY <1>0, <3>1, StopKeeps
    <3>3. lab' \in BOOLEAN /\ owns' \in BOOLEAN  BY <1>0, <2>1
    <3> QED  BY <2>1, <3>2, <3>3, GameGone
  <2> QED  BY <2>2, <2>3
<1>3. ASSUME HubClick PROVE HubInv'
  <2>1. PICK t \in Types : arcade' = Launch(arcade, t)  BY <1>3 DEF HubClick
  <2>2. CanBegin(arcade) /\ hub' /\ hub' \in BOOLEAN /\ UNCHANGED <<lab, owns>>
    BY <1>0, <1>3 DEF HubClick
  <2> QED  BY <2>1, <2>2, HubLaunches
<1>4. ASSUME HubKey PROVE HubInv'
  <2>1. arcade' \in Key(arcade) /\ UNCHANGED <<hub, lab, owns>>  BY <1>4 DEF HubKey
  <2>2. ManagerInv(arcade') /\ (SameGame(arcade, arcade') \/ ~Playing(arcade'))
    BY <1>0, <2>1, KeyKeeps
  <2>3. hub' \in BOOLEAN /\ lab' \in BOOLEAN /\ owns' \in BOOLEAN  BY <1>0, <2>1
  <2> QED  BY <2>1, <2>2, <2>3, GameMoves, GameGone
<1>5. ASSUME HubTimer PROVE HubInv'
  <2>1. UNCHANGED <<hub, lab, owns>>  BY <1>5 DEF HubTimer
  <2>2. PICK u \in Update(arcade) : arcade' = Drain(u)  BY <1>5 DEF HubTimer
  <2>3. ManagerInv(u) /\ SameGame(arcade, u)  BY <1>0, <2>2, UpdateKeeps
  <2>4. ManagerInv(arcade') /\ SameGame(u, arcade')  BY <2>2, <2>3, CreditsKeep
  <2>5. SameGame(arcade, arcade')  BY <2>3, <2>4 DEF SameGame
  <2> QED  BY <2>1, <2>4, <2>5, GameMoves
<1>6. ASSUME OpenLab PROVE HubInv'
  <2>1. lab' = TRUE /\ UNCHANGED <<arcade, hub, owns>>  BY <1>6 DEF OpenLab
  <2> QED  BY <1>0, <2>1 DEF HubInv, NoOrphanGame
<1>7. ASSUME CloseLab PROVE HubInv'
  <2>1. lab' \in BOOLEAN /\ owns' \in BOOLEAN /\ UNCHANGED hub  BY <1>7 DEF CloseLab
  <2>2. CASE owns
    <3>1. StopIfFlexing  BY <1>7, <2>2 DEF CloseLab
    <3> QED  BY <2>1, <2>2, <3>1, FlexingStops
  <2>3. CASE ~owns
    <3>1. arcade' = arcade  BY <1>7, <2>3 DEF CloseLab
    <3> QED  BY <1>0, <2>1, <2>3, <3>1 DEF HubInv, NoOrphanGame
  <2> QED  BY <2>2, <2>3
<1>8. ASSUME FlexOn PROVE HubInv'
  <2>1. CanBegin(arcade) /\ lab /\ owns' = TRUE /\ UNCHANGED <<hub, lab>>  BY <1>8 DEF FlexOn
  <2>2. ManagerInv(arcade') /\ ChartInForce(arcade') /\ IsFlexing(arcade')
    <3>1. CASE IsFlexing(arcade)
      <4>1. arcade' = ResetGame(arcade)  BY <1>8, <3>1 DEF FlexOn
      <4>2. Playing(arcade)  BY <1>0, <3>1, PlayingIs DEF ManagerInv
      <4>3. ManagerInv(arcade') /\ SameGame(arcade, arcade')
        BY <1>0, <2>1, <4>1, <4>2, ResetKeeps
      <4> QED  BY <1>0, <3>1, <4>3 DEF SameGame, ChartInForce, IsFlexing
    <3>2. CASE ~IsFlexing(arcade)
      <4>1. arcade' = Launch(arcade, "flexing")  BY <1>8, <3>2 DEF FlexOn
      <4>2. "flexing" \in Types  BY DEF Types
      <4>3. /\ ManagerInv(arcade') /\ arcade'.game.type = "flexing"
            /\ arcade'.config = arcade.config /\ arcade'.game.chart = arcade.config.chart
        BY <1>0, <2>1, <4>1, <4>2, LaunchKeeps
      <4> QED  BY <4>3 DEF ChartInForce, IsFlexing
    <3> QED  BY <3>1, <3>2
  <2> QED  BY <1>0, <2>1, <2>2 DEF HubInv, NoOrphanGame
<1>9. ASSUME FlexOff PROVE HubInv'
  <2>1. owns /\ lab' \in BOOLEAN /\ owns' \in BOOLEAN /\ UNCHANGED hub /\ StopIfFlexing
    BY <1>0, <1>9 DEF FlexOff
  <2> QED  BY <2>1, FlexingStops
<1>10. ASSUME LabType PROVE HubInv'
  <2>1. arcade' \in Plays(arcade) /\ UNCHANGED <<hub, lab, owns>>  BY <1>10 DEF LabType
  <2>2. ManagerInv(arcade') /\ SameGame(arcade, arcade')  BY <1>0, <2>1, PlaysKeep
  <2> QED  BY <2>1, <2>2, GameMoves
<1>11. ASSUME LabTimer PROVE HubInv'
  <2>1. UNCHANGED <<hub, lab>>  BY <1>11 DEF LabTimer
  <2>2. CASE IsFlexing(arcade)
    <3>1. arcade' \in Update(arcade) /\ UNCHANGED owns  BY <1>11, <2>2 DEF LabTimer
    <3>2. ManagerInv(arcade') /\ SameGame(arcade, arcade')  BY <1>0, <3>1, UpdateKeeps
    <3> QED  BY <2>1, <3>1, <3>2, GameMoves
  <2>3. CASE ~IsFlexing(arcade)
    <3>1. owns' = FALSE /\ arcade' = arcade  BY <1>11, <2>3 DEF LabTimer
    <3> QED  BY <1>0, <2>1, <2>3, <3>1 DEF HubInv, NoOrphanGame
  <2> QED  BY <2>2, <2>3
<1>12. ASSUME ApplyConfig PROVE HubInv'
  <2> DEFINE stored(config) == SetConfig(arcade, config)
  <2>1. PICK config \in Configs :
          /\ CanBegin(arcade)
          /\ arcade' = IF ConfigNeedsRelaunch(arcade, config)
                       THEN Relaunch(stored(config)) ELSE stored(config)
          /\ UNCHANGED <<hub, lab, owns>>
    BY <1>12 DEF ApplyConfig
  <2> DEFINE s == SetConfig(arcade, config)
  <2>2. /\ ManagerInv(s) /\ s.config = config /\ s.runs = arcade.runs
        /\ Playing(s) <=> Playing(arcade)
        /\ s.game.type = arcade.game.type
        /\ Playing(arcade) => s.game.chart = arcade.game.chart
    BY <1>0, SetConfigKeeps
  <2>3. /\ arcade' = IF ConfigNeedsRelaunch(arcade, config) THEN Relaunch(s) ELSE s
        /\ CanBegin(arcade) /\ UNCHANGED <<hub, lab, owns>>
    BY <2>1
  <2> HIDE DEF s
  <2>4. /\ ManagerInv(arcade') /\ ChartInForce(arcade')
        /\ Playing(arcade') <=> Playing(arcade)
        /\ arcade'.game.type = arcade.game.type
    <3>1. CASE ConfigNeedsRelaunch(arcade, config)
      <4>1. CanBegin(s)  BY <2>2, <2>3 DEF CanBegin
      <4>2. /\ ManagerInv(arcade') /\ (Playing(arcade') <=> Playing(s))
            /\ arcade'.config = s.config /\ arcade'.game.type = s.game.type
            /\ Playing(arcade') => arcade'.game.chart = s.config.chart
        BY <2>2, <2>3, <3>1, <4>1, RelaunchKeeps
      <4> QED  BY <2>2, <4>2 DEF ChartInForce
    <3>2. CASE ~ConfigNeedsRelaunch(arcade, config)
      <4>1. arcade' = s  BY <2>3, <3>2
      <4>2. config.chart = arcade.config.chart  BY <3>2 DEF ConfigNeedsRelaunch
      <4> QED  BY <1>0, <2>2, <4>1, <4>2 DEF ChartInForce
    <3> QED  BY <3>1, <3>2
  <2>5. NoOrphanGame'  BY <1>0, <2>3, <2>4 DEF NoOrphanGame, IsFlexing
  <2> QED  BY <1>0, <2>3, <2>4, <2>5 DEF HubInv
<1>13. ASSUME SettingsTimer PROVE HubInv'
  <2>1. arcade' = Drain(arcade) /\ UNCHANGED <<hub, lab, owns>>  BY <1>13 DEF SettingsTimer
  <2>2. ManagerInv(arcade') /\ SameGame(arcade, arcade')  BY <1>0, <2>1, CreditsKeep
  <2> QED  BY <2>1, <2>2, GameMoves
<1>14. CASE NotifyTick \/ SwitchWindow \/ UNCHANGED hubVars
  <2>1. UNCHANGED <<arcade, hub, lab, owns>>
    BY <1>14 DEF NotifyTick, SwitchWindow, hubVars
  <2> QED  BY <1>0, <2>1 DEF HubInv, NoOrphanGame
<1> QED
  BY <1>1, <1>2, <1>3, <1>4, <1>5, <1>6, <1>7, <1>8, <1>9, <1>10, <1>11, <1>12, <1>13, <1>14
  DEF HubNext

\* On the desktop a game runs only with a window to close it, plays with the
\* settings in force, and is reported when it ends, once.
LEMMA HubHolds == HubInv => HubIsSound
<1> SUFFICES ASSUME HubInv PROVE HubIsSound  OBVIOUS
<1>1. KnobsInForce
  <2> SUFFICES ASSUME Playing(arcade)
               PROVE  arcade.game.chart = arcade.config.chart
                      /\ arcade.game.live = arcade.config.live
    BY DEF KnobsInForce
  <2>1. arcade \in ManagerStates /\ arcade.game \in GameStates
    BY PlayingIs DEF HubInv, ManagerInv
  <2>2. (arcade.game.chart <=> arcade.config.chart) /\ (arcade.game.live <=> arcade.config.live)
    BY DEF HubInv, ManagerInv, ChartInForce, BuiltFrom
  <2>3. arcade.game.chart \in BOOLEAN /\ arcade.game.live \in BOOLEAN
        /\ arcade.config.chart \in BOOLEAN /\ arcade.config.live \in BOOLEAN
    BY <2>1 DEF ManagerStates, GameStates, Configs
  <2> QED  BY <2>2, <2>3
<1> QED  BY <1>1 DEF HubInv, ManagerInv, HubIsSound, ScoresReported

\* However the windows, the tray's keys and the settings dialog take turns with the
\* one game, it has a window, plays with the settings in force and is reported.
THEOREM HubSafe == HubSpec => []HubIsSound
<1>1. HubInit => HubInv  BY HubBegins
<1>2. HubInv /\ [HubNext]_hubVars => HubInv'  BY HubSteps
<1>3. HubInv => HubIsSound  BY HubHolds
<1> QED  BY <1>1, <1>2, <1>3, PTL DEF HubSpec

(***************************************************************************)
(* The web bridge.                                                         *)
(***************************************************************************)
BridgeTypes ==
  /\ owner \in {"idle", "close", "join"} /\ serving \in BOOLEAN
  /\ accepting \in {"none", "select", "serve", "accept", "answer", "keep"}
  /\ streams \in SUBSET Sockets /\ late \in SUBSET Sockets
  /\ sockets \in [Sockets -> {"unused", "open", "closed"}]

\* The connection in the accept thread's hands
Held(s) == accepting \in {"answer", "keep"} /\ client = s

SocketsInv ==
  /\ twice = {}
  /\ IF accepting \in {"answer", "keep"} THEN client \in Sockets ELSE client = NoSocket
  /\ \A s \in Sockets : Held(s) => s \notin streams
  /\ \A s \in Sockets : sockets[s] = "open" <=> s \in streams \/ Held(s)

OwnerInv ==
  /\ owner = "idle" /\ ~serving => accepting = "none"
  /\ owner = "join" \/ (owner = "idle" /\ ~serving) => streams \subseteq late

BridgeInv == ManagerInv(manager) /\ BridgeTypes /\ SocketsInv /\ OwnerInv

\* Before the first start()
LEMMA BridgeBegins == BridgeInit => BridgeInv
<1> SUFFICES ASSUME BridgeInit PROVE BridgeInv  OBVIOUS
<1>1. ManagerInv(manager)  BY IdleKeeps DEF BridgeInit
<1>2. BridgeTypes  BY DEF BridgeInit, BridgeTypes
<1>3. SocketsInv  BY DEF BridgeInit, SocketsInv, Held
<1>4. OwnerInv  BY DEF BridgeInit, OwnerInv
<1> QED  BY <1>1, <1>2, <1>3, <1>4 DEF BridgeInv

\* A tick or an input, credited with the frame
LEMMA GameStep ==
  ASSUME NEW m, ManagerInv(m), NEW n
  PROVE  /\ n \in {Drain(u) : u \in Update(m)} => ManagerInv(n)
         /\ n \in {Drain(k) : k \in Key(m)} => ManagerInv(n)
<1>1. ASSUME NEW u \in Update(m), n = Drain(u) PROVE ManagerInv(n)
  <2>1. ManagerInv(u)  BY <1>1, UpdateKeeps
  <2> QED  BY <1>1, <2>1, CreditsKeep
<1>2. ASSUME NEW k \in Key(m), n = Drain(k) PROVE ManagerInv(n)
  <2>1. ManagerInv(k)  BY <1>2, KeyKeeps
  <2> QED  BY <1>2, <2>1, CreditsKeep
<1> QED  BY <1>1, <1>2

\* A request leaves the manager in order.
LEMMA RequestKeeps == ManagerInv(manager) /\ Request => ManagerInv(manager')
<1> SUFFICES ASSUME ManagerInv(manager), Request PROVE ManagerInv(manager')
  OBVIOUS
<1>1. CASE UNCHANGED manager  BY <1>1
<1>2. CASE SendInput  BY <1>2, GameStep DEF SendInput
<1>3. ASSUME NEW t \in Types, StartGame(t) PROVE ManagerInv(manager')
  BY <1>3, LaunchKeeps DEF StartGame
<1>4. CASE StopGame
  <2>1. ManagerInv(Stop(manager))  BY StopKeeps
  <2> QED  BY <1>4, <2>1, CreditsKeep DEF StopGame
<1>5. CASE TogglePause  BY <1>5, PauseKeeps DEF TogglePause
<1>6. CASE RestartTheGame  BY <1>6, RestartKeeps DEF RestartTheGame
<1>7. CASE Preload  BY <1>7, ResetKeeps DEF Preload
<1> QED  BY <1>1, <1>2, <1>3, <1>4, <1>5, <1>6, <1>7 DEF Request

\* A change of the configuration, with the rebuild it asks for
LEMMA ConfigureKeeps == ManagerInv(manager) /\ Configure => ManagerInv(manager')
<1> SUFFICES ASSUME ManagerInv(manager), Configure PROVE ManagerInv(manager')
  OBVIOUS
<1>1. PICK config \in Configs, applyNow \in BOOLEAN :
        /\ CanBegin(manager)
        /\ manager' = IF applyNow /\ RunNeedsRelaunch(SetConfig(manager, config))
                      THEN Relaunch(SetConfig(manager, config)) ELSE SetConfig(manager, config)
  BY DEF Configure
<1> DEFINE s == SetConfig(manager, config)
<1>2. ManagerInv(s) /\ s.runs = manager.runs  BY SetConfigKeeps
<1>3. manager' = Relaunch(s) \/ manager' = s  BY <1>1
<1> HIDE DEF s
<1>4. CanBegin(s)  BY <1>1, <1>2 DEF CanBegin
<1> QED  BY <1>2, <1>3, <1>4, RelaunchKeeps

\* One step of the proof for each action of the owner and the two threads.
LEMMA BridgeSteps == BridgeInv /\ [BridgeNext]_bridgeVars => BridgeInv'
<1> SUFFICES ASSUME BridgeInv, [BridgeNext]_bridgeVars PROVE BridgeInv'
  OBVIOUS
<1>0. ManagerInv(manager) /\ BridgeTypes /\ SocketsInv /\ OwnerInv  BY DEF BridgeInv
<1>1. ASSUME UNCHANGED manager, BridgeTypes' /\ SocketsInv' /\ OwnerInv' PROVE BridgeInv'
  BY <1>0, <1>1 DEF BridgeInv
<1>2. ASSUME StartBridge PROVE BridgeInv'
  <2>1. UNCHANGED manager  BY <1>2 DEF StartBridge
  <2>2. BridgeTypes'  BY <1>0, <1>2 DEF StartBridge, BridgeTypes, wires
  <2>3. SocketsInv'  BY <1>0, <1>2 DEF StartBridge, SocketsInv, OwnerInv, Held, wires
  <2>4. OwnerInv'  BY <1>2 DEF StartBridge, OwnerInv
  <2> QED  BY <1>1, <2>1, <2>2, <2>3, <2>4
<1>3. ASSUME StopListening PROVE BridgeInv'
  <2>1. UNCHANGED manager  BY <1>3 DEF StopListening
  <2>2. BridgeTypes'  BY <1>0, <1>3 DEF StopListening, BridgeTypes, wires, threads
  <2>3. SocketsInv'  BY <1>0, <1>3 DEF StopListening, SocketsInv, Held, wires, threads
  <2>4. OwnerInv'  BY <1>3 DEF StopListening, OwnerInv
  <2> QED  BY <1>1, <2>1, <2>2, <2>3, <2>4
<1>4. ASSUME StopStreams PROVE BridgeInv'
  <2>1. UNCHANGED manager  BY <1>4 DEF StopStreams
  <2>2. BridgeTypes'  BY <1>0, <1>4 DEF StopStreams, BridgeTypes, Close, Emptied, threads
  <2>3. SocketsInv'
    <3>1. \A s \in streams : sockets[s] # "closed"  BY <1>0 DEF SocketsInv, BridgeTypes
    <3>2. twice' = {}  BY <1>0, <1>4, <3>1 DEF StopStreams, Close, SocketsInv
    <3> QED
      BY <1>0, <1>4, <3>2
      DEF StopStreams, SocketsInv, BridgeTypes, Close, Emptied, Held, threads
  <2>4. OwnerInv'  BY <1>4 DEF StopStreams, OwnerInv, Emptied
  <2> QED  BY <1>1, <2>1, <2>2, <2>3, <2>4
<1>5. ASSUME StopJoined PROVE BridgeInv'
  <2>1. UNCHANGED manager  BY <1>5 DEF StopJoined
  <2>2. BridgeTypes'  BY <1>0, <1>5 DEF StopJoined, BridgeTypes, wires, threads
  <2>3. SocketsInv'  BY <1>0, <1>5 DEF StopJoined, SocketsInv, Held, wires, threads
  <2>4. OwnerInv'  BY <1>0, <1>5 DEF StopJoined, OwnerInv, wires, threads
  <2> QED  BY <1>1, <2>1, <2>2, <2>3, <2>4
<1>6. ASSUME Tick \/ SendText PROVE BridgeInv'
  <2>1. ManagerInv(manager')
    BY <1>0, <1>6, GameStep DEF Tick, TickGame, SendText, SendInput
  <2>2. UNCHANGED <<owner, serving, accepting, client, streams, sockets, twice, late>>
    BY <1>6 DEF Tick, SendText, server, threads, wires
  <2> QED  BY <1>0, <2>1, <2>2 DEF BridgeInv, BridgeTypes, SocketsInv, OwnerInv, Held
<1>7. ASSUME Select PROVE BridgeInv'
  <2>1. UNCHANGED manager  BY <1>7 DEF Select
  <2>2. BridgeTypes'  BY <1>0, <1>7 DEF Select, AcceptAt, BridgeTypes, wires, server
  <2>3. SocketsInv'  BY <1>0, <1>7 DEF Select, AcceptAt, SocketsInv, Held, wires
  <2>4. OwnerInv'  BY <1>0, <1>7 DEF Select, AcceptAt, OwnerInv, wires, server
  <2> QED  BY <1>1, <2>1, <2>2, <2>3, <2>4
<1>8. ASSUME ServeStreams PROVE BridgeInv'
  <2>1. UNCHANGED manager  BY <1>8 DEF ServeStreams
  <2>2. PICK dead \in SUBSET streams : Close(dead) /\ streams' = streams \ dead
    BY <1>8 DEF ServeStreams
  <2>3. accepting = "serve" /\ accepting' = "accept" /\ UNCHANGED <<owner, serving, client, late>>
    BY <1>8 DEF ServeStreams, AcceptAt, server
  <2>4. BridgeTypes'  BY <1>0, <2>2, <2>3 DEF BridgeTypes, Close
  <2>5. SocketsInv'
    <3>1. \A s \in dead : sockets[s] # "closed"  BY <1>0, <2>2 DEF SocketsInv, BridgeTypes
    <3>2. twice' = {}  BY <1>0, <2>2, <3>1 DEF Close, SocketsInv
    <3> QED  BY <1>0, <2>2, <2>3, <3>2 DEF SocketsInv, BridgeTypes, Close, Held
  <2>6. OwnerInv'  BY <1>0, <2>2, <2>3 DEF OwnerInv
  <2> QED  BY <1>1, <2>1, <2>4, <2>5, <2>6
<1>9. ASSUME Accept PROVE BridgeInv'
  <2>1. UNCHANGED manager  BY <1>9 DEF Accept
  <2>2. CASE accepting' = "select" /\ UNCHANGED <<client, sockets>>
    <3>1. accepting = "accept" /\ UNCHANGED <<owner, serving, streams, twice, late>>
      BY <1>9 DEF Accept, server
    <3>2. BridgeTypes'  BY <1>0, <2>2, <3>1 DEF BridgeTypes
    <3>3. SocketsInv'  BY <1>0, <2>2, <3>1 DEF SocketsInv, Held
    <3>4. OwnerInv'  BY <1>0, <2>2, <3>1 DEF OwnerInv
    <3> QED  BY <1>1, <2>1, <3>2, <3>3, <3>4
  <2>3. ASSUME NEW s \in Sockets, sockets[s] = "unused", client' = s,
               sockets' = [sockets EXCEPT ![s] = "open"], accepting' = "answer"
        PROVE  BridgeInv'
    <3>1. accepting = "accept" /\ UNCHANGED <<owner, serving, streams, twice, late>>
      BY <1>9 DEF Accept, server
    <3>2. BridgeTypes'  BY <1>0, <2>3, <3>1 DEF BridgeTypes
    <3>3. s \notin streams  BY <1>0, <2>3 DEF SocketsInv
    <3>4. SocketsInv'  BY <1>0, <2>3, <3>1, <3>3 DEF SocketsInv, BridgeTypes, Held
    <3>5. OwnerInv'  BY <1>0, <2>3, <3>1 DEF OwnerInv
    <3> QED  BY <1>1, <2>1, <3>2, <3>4, <3>5
  <2> QED  BY <1>9, <2>2, <2>3 DEF Accept
<1>10. ASSUME accepting = "answer", accepting' = "select", Close({client}), client' = NoSocket,
              UNCHANGED <<owner, serving, streams, late>>
       PROVE  BridgeTypes' /\ SocketsInv' /\ OwnerInv'
  <2>1. client \in Sockets /\ sockets[client] = "open" /\ client \notin streams
    BY <1>0, <1>10 DEF SocketsInv, Held
  <2>2. twice' = {}  BY <1>0, <1>10, <2>1 DEF Close, SocketsInv
  <2>3. BridgeTypes'  BY <1>0, <1>10 DEF BridgeTypes, Close
  <2>4. SocketsInv'  BY <1>0, <1>10, <2>1, <2>2 DEF SocketsInv, BridgeTypes, Close, Held
  <2>5. OwnerInv'  BY <1>0, <1>10 DEF OwnerInv
  <2> QED  BY <2>3, <2>4, <2>5
<1>11. ASSUME Answer PROVE BridgeInv'
  <2>1. ManagerInv(manager')
    BY <1>0, <1>11, RequestKeeps, ConfigureKeeps DEF Answer
  <2>2. BridgeTypes' /\ SocketsInv' /\ OwnerInv'
    BY <1>10, <1>11 DEF Answer, AcceptAt, server
  <2> QED  BY <2>1, <2>2 DEF BridgeInv
<1>12. ASSUME Subscribe PROVE BridgeInv'
  <2>1. UNCHANGED <<manager, owner, serving, streams, late>> /\ accepting = "answer"
    BY <1>12 DEF Subscribe, server
  <2>2. CASE accepting' = "keep" /\ UNCHANGED <<client, sockets, twice>>
    <3>1. BridgeTypes'  BY <1>0, <2>1, <2>2 DEF BridgeTypes
    <3>2. SocketsInv'  BY <1>0, <2>1, <2>2 DEF SocketsInv, Held
    <3>3. OwnerInv'  BY <1>0, <2>1, <2>2 DEF OwnerInv
    <3> QED  BY <1>1, <2>1, <3>1, <3>2, <3>3
  <2>3. CASE accepting' = "select" /\ Close({client}) /\ client' = NoSocket
    BY <1>1, <1>10, <2>1, <2>3
  <2> QED  BY <1>12, <2>2, <2>3 DEF Subscribe
<1>13. ASSUME Keep PROVE BridgeInv'
  <2>1. /\ accepting = "keep" /\ accepting' = "select"
        /\ UNCHANGED <<manager, owner, serving, sockets, twice>>
        /\ streams' = streams \cup {client} /\ client' = NoSocket
        /\ late' = IF owner = "join" THEN late \cup {client} ELSE late
    BY <1>13 DEF Keep, AcceptAt, server
  <2>2. client \in Sockets /\ sockets[client] = "open"
    BY <1>0, <2>1 DEF SocketsInv, Held
  <2>3. BridgeTypes'  BY <1>0, <2>1, <2>2 DEF BridgeTypes
  <2>4. SocketsInv'  BY <1>0, <2>1, <2>2 DEF SocketsInv, Held
  <2>5. OwnerInv'  BY <1>0, <2>1 DEF OwnerInv
  <2> QED  BY <1>1, <2>1, <2>3, <2>4, <2>5
<1>14. CASE UNCHANGED bridgeVars
  BY <1>0, <1>14
  DEF BridgeInv, BridgeTypes, SocketsInv, OwnerInv, Held, bridgeVars, server, threads, wires
<1> QED
  BY <1>2, <1>3, <1>4, <1>5, <1>6, <1>7, <1>8, <1>9, <1>11, <1>12, <1>13, <1>14
  DEF BridgeNext, AcceptThread

\* With the owner at rest the accept thread is gone, so what is open is a late stream.
LEMMA BridgeHolds == BridgeInv => BridgeIsSound
<1> SUFFICES ASSUME BridgeInv PROVE BridgeIsSound  OBVIOUS
<1>1. StreamsOpen
  <2>1. NoSocket \notin Sockets  BY DEF NoSocket, Sockets
  <2> QED  BY <2>1 DEF BridgeInv, SocketsInv, BridgeTypes, Held, StreamsOpen
<1>2. StopClosesAll
  BY DEF BridgeInv, SocketsInv, OwnerInv, Held, StopClosesAll
<1>3. ConfigIsHonest
  <2> SUFFICES ASSUME Playing(manager)
               PROVE  /\ RunNeedsRelaunch(manager) <=> manager.game.chart # manager.config.chart
                      /\ manager.game.live = manager.config.live
    BY DEF ConfigIsHonest
  <2>1. manager \in ManagerStates /\ manager.game \in GameStates
    BY PlayingIs DEF BridgeInv, ManagerInv
  <2>2. (manager.runChart <=> manager.game.chart) /\ (manager.game.live <=> manager.config.live)
    BY DEF BridgeInv, ManagerInv, BuiltFrom
  <2>3. manager.game.chart \in BOOLEAN /\ manager.game.live \in BOOLEAN
        /\ manager.config.chart \in BOOLEAN /\ manager.config.live \in BOOLEAN
        /\ manager.runChart \in BOOLEAN
    BY <2>1 DEF ManagerStates, GameStates, Configs
  <2>4. manager.runChart = manager.game.chart /\ manager.game.live = manager.config.live
    BY <2>2, <2>3
  <2> QED  BY <2>4 DEF RunNeedsRelaunch
<1> QED  BY <1>1, <1>2, <1>3 DEF BridgeInv, ManagerInv, BridgeIsSound

\* However requests, the tick thread and stop() interleave, no socket leaks or is
\* closed twice, a run out of date says so, and each run is counted once.
THEOREM BridgeSafe == BridgeSpec => []BridgeIsSound
<1>1. BridgeInit => BridgeInv  BY BridgeBegins
<1>2. BridgeInv /\ [BridgeNext]_bridgeVars => BridgeInv'  BY BridgeSteps
<1>3. BridgeInv => BridgeIsSound  BY BridgeHolds
<1> QED  BY <1>1, <1>2, <1>3, PTL DEF BridgeSpec

(***************************************************************************)
(* The window in front.                                                    *)
(***************************************************************************)
Shown == Windows \cup {0}

WindowTypes ==
  /\ front \in Windows
  /\ told \in Seq(Windows) /\ events \in Seq(Windows) /\ posted \in Seq(Shown)
  /\ asking \in [Threads -> Shown]
  /\ snapshot.hwnd \in Shown
  /\ hook \in {"idle", "publish", "exclude", "policy", "gate"}

\* Whoever waits for a pump to go has none left behind, and none that runs.
PumpInv ==
  /\ detached \in Nat
  /\ OnePump
  /\ caller \in {"handshake", "seed", "await"} => detached = 0
  /\ caller = "await" => ~monitoring

\* What is true of the window in front, at each place of the handler of a
\* switch that nothing disturbed
RefreshInv ==
  /\ StartingUp => ~clean /\ events = <<>> /\ hook = "idle"
  /\ clean =>
       /\ events = <<>> /\ asking["ui"] = 0
       /\ IF hook = "publish" THEN asking["hook"] = front ELSE snapshot.hwnd = front
       /\ hook \in {"policy", "gate", "idle"} => (fgExcluded <=> Excluded)
       /\ hook \in {"gate", "idle"} => fgHwnd = front

PolicyInv == WindowTypes /\ PumpInv /\ RefreshInv /\ PendingIsInFlight

\* Before the monitor is started
LEMMA PolicyBegins == PolicyInit => PolicyInv
<1> SUFFICES ASSUME PolicyInit PROVE PolicyInv  OBVIOUS
<1>1. MonitorInit  BY DEF PolicyInit
<1>2. WindowTypes  BY <1>1 DEF PolicyInit, MonitorInit, WindowTypes, Shown, NoInfo
<1>3. PumpInv  BY <1>1 DEF MonitorInit, PumpInv, OnePump
<1>4. RefreshInv /\ PendingIsInFlight
  BY DEF PolicyInit, RefreshInv, PendingIsInFlight
<1> QED  BY <1>2, <1>3, <1>4 DEF PolicyInv

\* An answer is about the window that was asked about.
LEMMA AnswersAre ==
  ASSUME WindowTypes, NEW t \in Threads, Publish(t) \/ Drop(t)
  PROVE  /\ asking[t] # 0 /\ asking' = [asking EXCEPT ![t] = 0]
         /\ asking' \in [Threads -> Shown] /\ snapshot'.hwnd \in Shown
         /\ Publish(t) => snapshot'.hwnd = asking[t]
<1>1. asking[t] # 0 /\ asking' = [asking EXCEPT ![t] = 0]  BY DEF Publish, Drop
<1>2. asking' \in [Threads -> Shown] /\ asking[t] \in Shown  BY <1>1 DEF WindowTypes, Shown
<1>3. CASE Publish(t)
  <2>1. snapshot' \in Infos(asking[t])  BY <1>3 DEF Publish
  <2>2. snapshot'.hwnd = asking[t]  BY <2>1 DEF Infos
  <2> QED  BY <1>1, <1>2, <2>2
<1>4. CASE ~Publish(t)
  <2>1. snapshot' = snapshot  BY <1>4 DEF Drop
  <2> QED  BY <1>1, <1>2, <1>4, <2>1 DEF WindowTypes
<1> QED  BY <1>3, <1>4

\* A thread asks about one window at a time.
LEMMA QuestionsAre ==
  ASSUME WindowTypes, NEW t \in Threads, NEW w \in Windows, Ask(t, w)
  PROVE  asking' = [asking EXCEPT ![t] = w] /\ asking' \in [Threads -> Shown]
BY DEF Ask, WindowTypes, Shown

\* The monitor moves no window, and publishes only what it was asked.
LEMMA MonitorTypes == WindowTypes /\ MonitorStep =>
  /\ UNCHANGED front
  /\ told' \in Seq(Windows) /\ asking' \in [Threads -> Shown] /\ snapshot'.hwnd \in Shown
<1> SUFFICES ASSUME WindowTypes, MonitorStep
             PROVE  /\ UNCHANGED front
                    /\ told' \in Seq(Windows) /\ asking' \in [Threads -> Shown]
                    /\ snapshot'.hwnd \in Shown
  OBVIOUS
<1>1. told \in Seq(Windows) /\ asking \in [Threads -> Shown] /\ snapshot.hwnd \in Shown
      /\ front \in Windows /\ "ui" \in Threads /\ "pump" \in Threads
  BY DEF WindowTypes, Threads
<1>2. CASE Seed
  <2>1. Ask("ui", front) /\ UNCHANGED <<front, told, snapshot>>  BY <1>2 DEF Seed, windowVars
  <2> QED  BY <1>1, <2>1, QuestionsAre
<1>3. CASE Seeded
  <2>1. (Publish("ui") \/ Drop("ui")) /\ UNCHANGED <<front, told>>  BY <1>3 DEF Seeded, windowVars
  <2> QED  BY <1>1, <2>1, AnswersAre
<1>4. CASE PumpPublishes
  <2>1. (Publish("pump") \/ Drop("pump")) /\ UNCHANGED <<front, told>>
    BY <1>4 DEF PumpPublishes, windowVars
  <2> QED  BY <1>1, <2>1, AnswersAre
<1>5. CASE PumpAsks
  <2>1. /\ told # <<>> /\ Ask("pump", Head(told)) /\ told' = Tail(told)
        /\ UNCHANGED <<front, snapshot>>
    BY <1>5 DEF PumpAsks
  <2>2. Head(told) \in Windows /\ Tail(told) \in Seq(Windows)  BY <1>1, <2>1
  <2> QED  BY <1>1, <2>1, <2>2, QuestionsAre
<1>6. CASE StartMonitor \/ AskPumpToGo \/ JoinPump \/ DetachPump \/ PumpInstalls \/ PumpQuits
           \/ PumpExits
  <2>1. UNCHANGED <<front, told, asking, snapshot>>
    BY <1>6
    DEF StartMonitor, AskPumpToGo, JoinPump, DetachPump, PumpInstalls, PumpQuits, PumpExits,
        windowVars
  <2> QED  BY <1>1, <2>1
<1> QED  BY <1>2, <1>3, <1>4, <1>5, <1>6 DEF MonitorStep

\* start() finds no pump that was left behind, and stop() leaves one at most.
LEMMA PumpKeeps == PumpInv /\ (MonitorStep \/ UNCHANGED pumpVars) => PumpInv'
<1> SUFFICES ASSUME PumpInv, MonitorStep \/ UNCHANGED pumpVars PROVE PumpInv'
  OBVIOUS
<1>1. CASE StartMonitor
  <2>1. detached = 0  BY <1>1 DEF StartMonitor, PumpInv, OnePump
  <2> QED  BY <1>1, <2>1 DEF StartMonitor, PumpInv, OnePump
<1>2. CASE DetachPump
  BY <1>2 DEF DetachPump, PumpInv, OnePump
<1>3. CASE AskPumpToGo
  <2>1. detached = 0  BY <1>3 DEF AskPumpToGo, PumpInv, OnePump
  <2> QED  BY <1>3, <2>1 DEF AskPumpToGo, PumpInv, OnePump
<1>4. CASE Seed \/ Seeded \/ JoinPump
  BY <1>4 DEF Seed, Seeded, JoinPump, PumpInv, OnePump
<1>5. CASE PumpInstalls \/ PumpAsks \/ PumpPublishes \/ PumpQuits \/ PumpExits
           \/ UNCHANGED pumpVars
  <2>1. UNCHANGED <<detached, stuckPump, monitoring, caller>>
    BY <1>5 DEF PumpInstalls, PumpAsks, PumpPublishes, PumpQuits, PumpExits, pumpVars
  <2> QED  BY <2>1 DEF PumpInv, OnePump
<1> QED  BY <1>1, <1>2, <1>3, <1>4, <1>5 DEF MonitorStep

\* A step that leaves the queues, the queries and the handler alone.
LEMMA ChoiceKeeps ==
  ASSUME PolicyInv, UNCHANGED <<front, told, events, asking, snapshot, hook, pumpVars, clean>>,
         posted' \in Seq(Shown), StartingUp' => StartingUp,
         PendingIsInFlight',
         \/ UNCHANGED <<fgExcluded, switched>>
         \/ fgExcluded' <=> Excluded',
         UNCHANGED fgHwnd \/ fgHwnd' = snapshot.hwnd
  PROVE  PolicyInv'
<1>1. WindowTypes'  BY DEF PolicyInv, WindowTypes
<1>2. PumpInv'  BY PumpKeeps DEF PolicyInv
<1>3. clean /\ hook \in {"policy", "gate", "idle"} => (fgExcluded' <=> Excluded')
  BY DEF PolicyInv, RefreshInv, Excluded
<1>4. clean /\ hook \in {"gate", "idle"} => fgHwnd' = front
  BY DEF PolicyInv, RefreshInv
<1>5. RefreshInv'
  <2>1. StartingUp' => ~clean' /\ events' = <<>> /\ hook' = "idle"
    BY DEF PolicyInv, RefreshInv
  <2>2. clean' =>
          /\ events' = <<>> /\ asking'["ui"] = 0
          /\ IF hook' = "publish" THEN asking'["hook"] = front' ELSE snapshot'.hwnd = front'
    BY DEF PolicyInv, RefreshInv
  <2> QED  BY <1>3, <1>4, <2>1, <2>2 DEF RefreshInv
<1> QED  BY <1>1, <1>2, <1>5 DEF PolicyInv

\* A switch disturbs the handling of the one before it.
LEMMA SwitchKeeps == ASSUME PolicyInv, NEW w \in Windows, Switch(w) PROVE PolicyInv'
<1>1. ~StartingUp /\ SwitchTo(w) /\ events' = Append(events, w) /\ clean' = FALSE
      /\ UNCHANGED <<snapshot, asking, pumpVars, hook, ui, posted, fgProbePending>>
  BY DEF Switch, policyVars
<1>2. front' = w /\ told' \in Seq(Windows)
  BY <1>1 DEF SwitchTo, PolicyInv, WindowTypes
<1>3. WindowTypes'  BY <1>1, <1>2 DEF PolicyInv, WindowTypes
<1>4. PumpInv'  BY <1>1, PumpKeeps DEF PolicyInv
<1>5. RefreshInv' /\ PendingIsInFlight'
  BY <1>1 DEF PolicyInv, RefreshInv, PendingIsInFlight, StartingUp
<1> QED  BY <1>3, <1>4, <1>5 DEF PolicyInv

\* So does whatever the pump or a start of the monitor asks or publishes.
LEMMA MonitorKeeps == PolicyInv /\ Monitor => PolicyInv'
<1> SUFFICES ASSUME PolicyInv, Monitor PROVE PolicyInv'  OBVIOUS
<1>1. /\ MonitorStep /\ clean' = (clean /\ asking' = asking /\ snapshot' = snapshot)
      /\ UNCHANGED <<events, hook, ui, posted, switched, fgExcluded, fgProbePending, fgHwnd>>
  BY DEF Monitor, choiceVars, policyVars
<1>2. /\ UNCHANGED front
      /\ told' \in Seq(Windows) /\ asking' \in [Threads -> Shown] /\ snapshot'.hwnd \in Shown
  BY <1>1, MonitorTypes DEF PolicyInv
<1>3. WindowTypes'  BY <1>1, <1>2 DEF PolicyInv, WindowTypes
<1>4. PumpInv'  BY <1>1, PumpKeeps DEF PolicyInv
<1>5. clean' => clean /\ asking' = asking /\ snapshot' = snapshot  BY <1>1
<1>6. RefreshInv'
  BY <1>1, <1>2, <1>5 DEF PolicyInv, RefreshInv, StartingUp, Excluded
<1>7. PendingIsInFlight'  BY <1>1 DEF PolicyInv, PendingIsInFlight
<1> QED  BY <1>3, <1>4, <1>6, <1>7 DEF PolicyInv

\* The five places of the handler, each of which leaves what the next relies on.
LEMMA HookKeeps == PolicyInv /\ HookStep => PolicyInv'
<1> SUFFICES ASSUME PolicyInv, HookStep PROVE PolicyInv'  OBVIOUS
<1>0. WindowTypes /\ PumpInv /\ RefreshInv /\ PendingIsInFlight /\ "hook" \in Threads
  BY DEF PolicyInv, Threads
<1>1. ASSUME NEW from, NEW to, HookGoto(from, to)
      PROVE  /\ hook = from /\ hook' = to /\ UNCHANGED <<front, told, ui, switched>>
             /\ PumpInv'
  BY <1>0, <1>1, PumpKeeps DEF HookGoto, windowVars, choiceVars
<1>2. CASE HookAsks
  <2>1. /\ hook = "idle" /\ hook' = "publish" /\ UNCHANGED <<front, told, ui, switched>>
        /\ PumpInv'
    BY <1>1, <1>2 DEF HookAsks
  <2>2. /\ events # <<>> /\ Ask("hook", front) /\ events' = Tail(events)
        /\ clean' = (events' = <<>> /\ \A t \in Threads : asking[t] = 0)
        /\ UNCHANGED <<snapshot, posted, fgProbePending>>
    BY <1>2 DEF HookAsks, policyVars
  <2>3. asking' = [asking EXCEPT !["hook"] = front] /\ asking' \in [Threads -> Shown]
    <3>1. front \in Windows  BY <1>0 DEF WindowTypes
    <3> QED  BY <1>0, <2>2, <3>1, QuestionsAre
  <2>4. WindowTypes'  BY <1>0, <2>1, <2>2, <2>3 DEF WindowTypes
  <2>5. clean' => events' = <<>> /\ asking'["ui"] = 0 /\ asking'["hook"] = front
    <3>1. asking \in [Threads -> Shown]  BY <1>0 DEF WindowTypes
    <3> QED  BY <2>2, <2>3, <3>1 DEF Threads
  <2>6. RefreshInv'  BY <1>0, <2>1, <2>2, <2>5 DEF RefreshInv, StartingUp
  <2>7. PendingIsInFlight'  BY <1>0, <2>1, <2>2 DEF PendingIsInFlight
  <2> QED  BY <2>1, <2>4, <2>6, <2>7 DEF PolicyInv
<1>3. CASE HookPublishes
  <2>1. /\ hook = "publish" /\ hook' = "exclude" /\ UNCHANGED <<front, told, ui, switched>>
        /\ PumpInv'
    BY <1>1, <1>3 DEF HookPublishes
  <2>2. /\ \/ Publish("hook") /\ clean' = clean
           \/ Drop("hook") /\ clean' = FALSE
        /\ UNCHANGED <<events, posted, fgProbePending>>
    BY <1>3 DEF HookPublishes, policyVars
  <2>3. /\ asking' = [asking EXCEPT !["hook"] = 0]
        /\ asking' \in [Threads -> Shown] /\ snapshot'.hwnd \in Shown
        /\ Publish("hook") => snapshot'.hwnd = asking["hook"]
    BY <1>0, <2>2, AnswersAre
  <2>4. WindowTypes'  BY <1>0, <2>1, <2>2, <2>3 DEF WindowTypes
  <2>5. clean' => clean /\ snapshot'.hwnd = front /\ asking'["ui"] = asking["ui"]
    <3>1. asking \in [Threads -> Shown]  BY <1>0 DEF WindowTypes
    <3> QED  BY <1>0, <2>1, <2>2, <2>3, <3>1 DEF RefreshInv, Threads
  <2>6. RefreshInv'  BY <1>0, <2>1, <2>2, <2>5 DEF RefreshInv, StartingUp
  <2>7. PendingIsInFlight'  BY <1>0, <2>1, <2>2 DEF PendingIsInFlight
  <2> QED  BY <2>1, <2>4, <2>6, <2>7 DEF PolicyInv
<1>4. CASE HookExcludes
  <2>1. /\ hook = "exclude" /\ hook' = "policy" /\ UNCHANGED <<front, told, ui, switched>>
        /\ PumpInv'
    BY <1>1, <1>4 DEF HookExcludes
  <2>2. fgExcluded' = Excluded
        /\ UNCHANGED <<events, snapshot, asking, posted, fgProbePending, clean>>
    BY <1>4 DEF HookExcludes, updateExclusionCache
  <2>3. WindowTypes'  BY <1>0, <2>1, <2>2 DEF WindowTypes
  <2>4. fgExcluded' <=> Excluded'  BY <2>1, <2>2 DEF Excluded
  <2>5. RefreshInv'  BY <1>0, <2>1, <2>2, <2>4 DEF RefreshInv, StartingUp
  <2>6. PendingIsInFlight'  BY <1>0, <2>1, <2>2 DEF PendingIsInFlight
  <2> QED  BY <2>1, <2>3, <2>5, <2>6 DEF PolicyInv
<1>5. CASE HookDecides
  <2>1. /\ hook = "policy" /\ hook' = "gate" /\ UNCHANGED <<front, told, ui, switched>>
        /\ PumpInv'
    BY <1>1, <1>5 DEF HookDecides
  <2>2. fgHwnd' = snapshot.hwnd
        /\ UNCHANGED <<events, snapshot, asking, posted, fgExcluded, fgProbePending, clean>>
    BY <1>5 DEF HookDecides, updateForegroundPolicy
  <2>3. WindowTypes'  BY <1>0, <2>1, <2>2 DEF WindowTypes
  <2>4. RefreshInv'  BY <1>0, <2>1, <2>2 DEF RefreshInv, StartingUp, Excluded
  <2>5. PendingIsInFlight'  BY <1>0, <2>1, <2>2 DEF PendingIsInFlight
  <2> QED  BY <2>1, <2>3, <2>4, <2>5 DEF PolicyInv
<1>6. CASE HookGates
  <2>1. /\ hook = "gate" /\ hook' = "idle" /\ UNCHANGED <<front, told, ui, switched>>
        /\ PumpInv'
    BY <1>1, <1>6 DEF HookGates
  <2>2. UNCHANGED <<events, snapshot, asking, fgExcluded, fgHwnd, clean>>
    BY <1>6 DEF HookGates
  <2>3. \/ posted' = Append(posted, snapshot.hwnd)
        \/ UNCHANGED <<posted, fgProbePending>>
    BY <1>6 DEF HookGates
  <2>4. posted \in Seq(Shown) /\ snapshot.hwnd \in Shown  BY <1>0 DEF WindowTypes
  <2>5. posted' \in Seq(Shown) /\ PendingIsInFlight'
    <3>1. CASE posted' = Append(posted, snapshot.hwnd)
      <4>1. posted' # <<>> /\ posted' \in Seq(Shown)  BY <2>4, <3>1
      <4> QED  BY <4>1 DEF PendingIsInFlight
    <3>2. CASE UNCHANGED <<posted, fgProbePending>>
      BY <1>0, <2>1, <2>4, <3>2 DEF PendingIsInFlight
    <3> QED  BY <2>3, <3>1, <3>2
  <2>6. WindowTypes'  BY <1>0, <2>1, <2>2, <2>5 DEF WindowTypes
  <2>7. RefreshInv'  BY <1>0, <2>1, <2>2 DEF RefreshInv, StartingUp, Excluded
  <2> QED  BY <2>1, <2>5, <2>6, <2>7 DEF PolicyInv
<1> QED  BY <1>2, <1>3, <1>4, <1>5, <1>6 DEF HookStep

\* The UI thread decides from the snapshot it finds.
LEMMA UiKeeps == PolicyInv /\ (UiStep \/ Apply \/ \E r \in BOOLEAN : Refresh(r)) => PolicyInv'
<1> SUFFICES ASSUME PolicyInv, UiStep \/ Apply \/ \E r \in BOOLEAN : Refresh(r)
             PROVE  PolicyInv'
  OBVIOUS
<1>0. WindowTypes /\ PumpInv /\ RefreshInv /\ PendingIsInFlight /\ "ui" \in Threads
      /\ front \in Windows /\ posted \in Seq(Shown)
  BY DEF PolicyInv, Threads, WindowTypes
<1>1. ASSUME NEW from, NEW to, UiGoto(from, to)
      PROVE  /\ ui.at = from /\ ui' = to /\ UNCHANGED <<front, told, pumpVars, events, hook>>
  BY <1>1 DEF UiGoto, windowVars
<1>2. CASE ProbeBegins
  <2>1. /\ ui' = [at |-> "ping", hwnd |-> Head(posted), fg |-> snapshot.hwnd]
        /\ UNCHANGED <<front, told, pumpVars, events, hook>>
    BY <1>1, <1>2 DEF ProbeBegins
  <2>2. posted # <<>> /\ posted' = Tail(posted)
        /\ UNCHANGED <<snapshot, asking, clean, switched, fgExcluded, fgHwnd>>
    BY <1>2 DEF ProbeBegins, choiceVars, policyVars
  <2>3. posted' \in Seq(Shown)  BY <1>0, <2>2
  <2>4. PendingIsInFlight' /\ ~StartingUp'
    BY <2>1 DEF PendingIsInFlight, StartingUp
  <2> QED  BY <2>1, <2>2, <2>3, <2>4, ChoiceKeeps
<1>3. CASE ProbePasses \/ ProbeFails
  <2>1. ui' = UiIdle /\ UNCHANGED <<front, told, pumpVars, events, hook>>
    BY <1>1, <1>3 DEF ProbePasses, ProbeFails
  <2>2. /\ fgProbePending' = FALSE
        /\ UNCHANGED <<snapshot, asking, posted, clean, switched, fgExcluded>>
        /\ UNCHANGED fgHwnd \/ fgHwnd' = snapshot.hwnd
    BY <1>3 DEF ProbePasses, ProbeFails, choiceVars, updateForegroundPolicy
  <2>3. PendingIsInFlight' /\ ~StartingUp'
    BY <2>1, <2>2 DEF PendingIsInFlight, StartingUp, UiIdle
  <2> QED  BY <1>0, <2>1, <2>2, <2>3, ChoiceKeeps
<1>4. ASSUME NEW from, NEW to, UiGoto(from, to), Ask("ui", front),
             UNCHANGED <<snapshot, posted, fgProbePending>>,
             from # "ping", ~clean',
             to.at \in {"startup", "first"} => events = <<>> /\ hook = "idle"
      PROVE  PolicyInv'
  <2>1. ui.at = from /\ ui' = to /\ UNCHANGED <<front, told, pumpVars, events, hook>>
    BY <1>1, <1>4
  <2>2. asking' \in [Threads -> Shown]  BY <1>0, <1>4, QuestionsAre
  <2>3. WindowTypes'  BY <1>0, <1>4, <2>1, <2>2 DEF WindowTypes
  <2>4. PumpInv'  BY <1>0, <2>1, PumpKeeps
  <2>5. RefreshInv'  BY <1>4, <2>1 DEF RefreshInv, StartingUp
  <2>6. PendingIsInFlight'  BY <1>0, <1>4, <2>1 DEF PendingIsInFlight
  <2> QED  BY <2>3, <2>4, <2>5, <2>6 DEF PolicyInv
<1>5. CASE Startup
  <2>1. /\ UiGoto("startup", [UiIdle EXCEPT !.at = "first"]) /\ Ask("ui", front)
        /\ UNCHANGED <<snapshot, posted, fgProbePending, clean>>
    BY <1>5 DEF Startup, policyVars
  <2>2. StartingUp  BY <1>1, <2>1 DEF StartingUp
  <2>3. ~clean' /\ events = <<>> /\ hook = "idle"  BY <1>0, <2>1, <2>2 DEF RefreshInv
  <2> QED  BY <1>4, <2>1, <2>3
<1>6. ASSUME NEW r \in BOOLEAN, Refresh(r) PROVE PolicyInv'
  <2> DEFINE to == [UiIdle EXCEPT !.at = IF r THEN "resume" ELSE "display"]
  <2>1. /\ UiGoto("idle", to) /\ Ask("ui", front) /\ ~clean'
        /\ UNCHANGED <<snapshot, posted, fgProbePending>>
    BY <1>6 DEF Refresh, policyVars
  <2>2. to.at \notin {"startup", "first"}  BY DEF UiIdle
  <2> HIDE DEF to
  <2> QED  BY <1>4, <2>1, <2>2
<1>7. CASE Refreshed
  <2>1. /\ asking["ui"] # 0 /\ (Publish("ui") \/ Drop("ui"))
        /\ UNCHANGED <<front, told, pumpVars, events, hook, ui, posted, fgProbePending, clean>>
    BY <1>7 DEF Refreshed, windowVars, policyVars
  <2>2. asking' \in [Threads -> Shown] /\ snapshot'.hwnd \in Shown  BY <1>0, <2>1, AnswersAre
  <2>3. WindowTypes'  BY <1>0, <2>1, <2>2 DEF WindowTypes
  <2>4. PumpInv'  BY <1>0, <2>1, PumpKeeps
  <2>5. ~clean'  BY <1>0, <2>1 DEF RefreshInv
  <2>6. RefreshInv'  BY <1>0, <2>1, <2>5 DEF RefreshInv, StartingUp
  <2>7. PendingIsInFlight'  BY <1>0, <2>1 DEF PendingIsInFlight
  <2> QED  BY <2>3, <2>4, <2>6, <2>7 DEF PolicyInv
<1>8. CASE Redecided
  <2>1. /\ ui.at # "ping" /\ ui' = UiIdle /\ fgExcluded' = Excluded /\ fgHwnd' = snapshot.hwnd
        /\ fgProbePending' => fgProbePending
        /\ UNCHANGED <<front, told, pumpVars, asking, snapshot, events, hook, posted, switched,
                       clean>>
    BY <1>8
    DEF Redecided, updateExclusionCache, updateForegroundPolicy, monitorVars, windowVars, choiceVars
  <2>2. PendingIsInFlight' /\ ~StartingUp'
    BY <1>0, <2>1 DEF PendingIsInFlight, StartingUp, UiIdle
  <2>3. fgExcluded' <=> Excluded'  BY <2>1 DEF Excluded
  <2> QED  BY <1>0, <2>1, <2>2, <2>3, ChoiceKeeps
<1>9. CASE Apply
  <2>1. ui.at = "idle" /\ ui' = UiIdle /\ UNCHANGED <<front, told, pumpVars, events, hook>>
    BY <1>1, <1>9 DEF Apply
  <2>2. /\ fgExcluded' = (AutoExcluded(snapshot, switched') \/ snapshot.elevated)
        /\ fgHwnd' = snapshot.hwnd
        /\ UNCHANGED <<snapshot, asking, posted, fgProbePending, clean>>
    BY <1>9 DEF Apply
  <2>3. fgExcluded' <=> Excluded'  BY <2>2 DEF Excluded
  <2>4. PendingIsInFlight' /\ ~StartingUp'
    BY <1>0, <2>1, <2>2 DEF PendingIsInFlight, StartingUp, UiIdle
  <2> QED  BY <1>0, <2>1, <2>2, <2>3, <2>4, ChoiceKeeps
<1> QED  BY <1>2, <1>3, <1>5, <1>6, <1>7, <1>8, <1>9 DEF UiStep

\* A commit that took too long touches the text services only.
LEMMA PolicySteps == PolicyInv /\ [PolicyNext]_desktopVars => PolicyInv'
<1> SUFFICES ASSUME PolicyInv, [PolicyNext]_desktopVars PROVE PolicyInv'
  OBVIOUS
<1>1. CASE SlowCommit \/ UNCHANGED desktopVars
  <2>1. UNCHANGED <<front, told, events, asking, snapshot, hook, pumpVars, clean, ui, posted,
                    switched, fgExcluded, fgProbePending, fgHwnd>>
    BY <1>1 DEF SlowCommit, desktopVars, monitorVars, windowVars, choiceVars, policyVars
  <2>2. PendingIsInFlight' /\ posted' \in Seq(Shown) /\ (StartingUp' => StartingUp)
    BY <2>1 DEF PolicyInv, WindowTypes, PendingIsInFlight, StartingUp
  <2> QED  BY <2>1, <2>2, ChoiceKeeps
<1> QED  BY <1>1, SwitchKeeps, MonitorKeeps, HookKeeps, UiKeeps DEF PolicyNext

\* With the handler at rest the handling of the last switch is complete.
LEMMA PolicyHolds == PolicyInv => OnePump /\ RefreshIsEnough /\ PendingIsInFlight
BY DEF PolicyInv, PumpInv, RefreshInv, RefreshIsEnough, Quiet

\* However the three threads that ask about the window in front interleave, there
\* is one pump, an undisturbed switch leaves the cached policy that of the window in
\* front, and a pending probe is on its way.
THEOREM PolicySafe == PolicySpec => [](OnePump /\ RefreshIsEnough /\ PendingIsInFlight)
<1>1. PolicyInit => PolicyInv  BY PolicyBegins
<1>2. PolicyInv /\ [PolicyNext]_desktopVars => PolicyInv'  BY PolicySteps
<1>3. PolicyInv => OnePump /\ RefreshIsEnough /\ PendingIsInFlight  BY PolicyHolds
<1> QED  BY <1>1, <1>2, <1>3, PTL DEF PolicySpec

(***************************************************************************)
(* The parts together.                                                     *)
(***************************************************************************)
\* The part that runs takes a step of its own; the others stay.
LEMMA EachStays ==
  [ThreadsNext]_threadsVars =>
    /\ [Next]_vars /\ [RingNext]_spscVars /\ [HubNext]_hubVars
    /\ [BridgeNext]_bridgeVars /\ [PolicyNext]_desktopVars /\ [InstanceNext]_instanceVars
<1> SUFFICES ASSUME [ThreadsNext]_threadsVars
             PROVE  /\ [Next]_vars /\ [RingNext]_spscVars /\ [HubNext]_hubVars
                    /\ [BridgeNext]_bridgeVars /\ [PolicyNext]_desktopVars
                    /\ [InstanceNext]_instanceVars
  OBVIOUS
<1>1. CASE UNCHANGED threadsVars  BY <1>1 DEF threadsVars
<1>2. CASE ThreadsNext
  BY <1>2
  DEF ThreadsNext, HookPart, RingPart, HubPart, BridgePart, PolicyPart, ProgramsPart, OthersStay
<1> QED  BY <1>1, <1>2

\* Games played in the window and through the web bridge, whatever the bounds on
\* runs, results and sockets: no game without an owner, no socket lost, and each run
\* counted once.
THEOREM ArcadeSafe == ThreadsSpec => []ArcadeIsSound
<1>1. ThreadsInit => HubInv /\ BridgeInv  BY HubBegins, BridgeBegins DEF ThreadsInit
<1>2. HubInv /\ [ThreadsNext]_threadsVars => HubInv'  BY HubSteps, EachStays
<1>3. BridgeInv /\ [ThreadsNext]_threadsVars => BridgeInv'  BY BridgeSteps, EachStays
<1>4. HubInv /\ BridgeInv => ArcadeIsSound  BY HubHolds, BridgeHolds DEF ArcadeIsSound
<1> QED  BY <1>1, <1>2, <1>3, <1>4, PTL DEF ThreadsSpec

\* One pump, a policy of the window in front, a probe on its way and one instance,
\* whatever the windows, the answers of the system and the processes.
THEOREM DesktopSafe == ThreadsSpec => []DesktopIsSound
<1>1. ThreadsInit => PolicyInv /\ InstanceInv  BY PolicyBegins, InitInstance DEF ThreadsInit
<1>2. PolicyInv /\ [ThreadsNext]_threadsVars => PolicyInv'  BY PolicySteps, EachStays
<1>3. InstanceInv /\ [ThreadsNext]_threadsVars => InstanceInv'  BY StepInstance, EachStays
<1>4. PolicyInv /\ InstanceInv => DesktopIsSound  BY PolicyHolds, InstanceHolds DEF DesktopIsSound
<1> QED  BY <1>1, <1>2, <1>3, <1>4, PTL DEF ThreadsSpec

=============================================================================
