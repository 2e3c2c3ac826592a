------------------------------ MODULE SpscRing ------------------------------
(***************************************************************************)
(* The single-producer single-consumer ring of                             *)
(* src/src/core/LockFreeQueue.hpp: the hook pump pushes key events and     *)
(* edits, the consumer thread pops them.  Every load and store of a shared *)
(* word is a step of its own, so the two threads interleave between any    *)
(* two of them.  A slot's sequence word says who owns it: seq = i means    *)
(* "free for push number i", seq = i + 1 means "holds push number i".      *)
(*                                                                         *)
(* The indices count from 0 without wrapping: they are 64-bit words moved  *)
(* once per keystroke.  MaxPush bounds how many pushes one lifetime makes. *)
(***************************************************************************)
EXTENDS Naturals, Sequences

CONSTANTS Items,      \* the values that are pushed
          Capacity,   \* the number of slots
          MaxPush,    \* bound: pushes between two resets
          NoItem      \* what the consumer's buffer holds before a pop

ASSUME RingAssumption ==
  /\ Capacity \in Nat \ {0, 1}     \* the static_assert of line 69
  /\ MaxPush \in Nat
  /\ NoItem \notin Items

VARIABLES
  seq,      \* seq[i]: the sequence word of slot i
  data,     \* data[i]: the payload of slot i
  head,     \* head_: written by the producer alone
  tail,     \* tail_: written by the consumer alone
  ppc,      \* where the producer is in try_push
  pitem,    \* the item of the push in progress
  pushed,   \* the answer of the latest try_push
  cpc,      \* where the consumer is in try_pop
  out,      \* the consumer's copy of the payload
  popped,   \* the answer of the latest try_pop
  sent,     \* history: the items whose push was published, in order
  got       \* history: the items whose pop was released, in order

spscVars == <<seq, data, head, tail, ppc, pitem, pushed, cpc, out, popped, sent, got>>
ringVars == <<seq, data, head, tail>>
producerVars == <<ppc, pitem, pushed, sent>>
consumerVars == <<cpc, out, popped, got>>

Slots == 0 .. Capacity - 1
SlotOf(n) == n % Capacity

(***************************************************************************)
(* The constructor, and reset_quiescent, arm slot i for push number i.     *)
(* The operators named Bad... are slips this code could have; the runs     *)
(* show that the properties notice them.                                   *)
(***************************************************************************)
BadArmed == [i \in 0 .. Capacity |-> i]
Armed == [i \in Slots |-> i]

(* The word that offers a slot to push n, and the one that offers it to    *)
(* pop n; a released slot waits for the push one lap later.                *)
BadCanPush == seq[SlotOf(head)] # head + 1
CanPush == seq[SlotOf(head)] = head
CanPop == seq[SlotOf(tail)] = tail + 1
BadRearm(n) == n + 1
Rearm(n) == n + Capacity

RingInit ==
  /\ seq = Armed
  /\ data = [i \in Slots |-> NoItem]
  /\ head = 0 /\ tail = 0
  /\ ppc = "idle" /\ pitem = NoItem /\ pushed = TRUE
  /\ cpc = "idle" /\ out = NoItem /\ popped = NoItem
  /\ sent = <<>> /\ got = <<>>

(***************************************************************************)
(* try_push: load the slot's sequence word; refuse when the slot is still  *)
(* owned by the consumer, else write the payload, publish it with the      *)
(* sequence word, and only then move head_.                                *)
(***************************************************************************)
PushFull ==
  /\ ppc = "idle"
  /\ ~CanPush
  /\ pushed' = FALSE
  /\ UNCHANGED <<ringVars, consumerVars, ppc, pitem, sent>>

BadPushClaim(x) ==
  /\ ppc = "idle" /\ head < MaxPush
  /\ CanPush
  /\ ppc' = "publish" /\ pitem' = x
  /\ UNCHANGED <<ringVars, consumerVars, pushed, sent>>

PushClaim(x) ==
  /\ ppc = "idle" /\ head < MaxPush
  /\ CanPush
  /\ ppc' = "write" /\ pitem' = x
  /\ UNCHANGED <<ringVars, consumerVars, pushed, sent>>

PushWrite ==
  /\ ppc = "write"
  /\ data' = [data EXCEPT ![SlotOf(head)] = pitem]
  /\ ppc' = "publish"
  /\ UNCHANGED <<seq, head, tail, pitem, pushed, sent, consumerVars>>

PushPublish ==
  /\ ppc = "publish"
  /\ seq' = [seq EXCEPT ![SlotOf(head)] = head + 1]
  /\ sent' = Append(sent, pitem)
  /\ pushed' = TRUE
  /\ ppc' = "advance"
  /\ UNCHANGED <<data, head, tail, pitem, consumerVars>>

PushAdvance ==
  /\ ppc = "advance"
  /\ head' = head + 1
  /\ ppc' = "idle"
  /\ UNCHANGED <<seq, data, tail, pitem, pushed, sent, consumerVars>>

(***************************************************************************)
(* try_pop: the mirror image; the slot is re-armed for the push one lap    *)
(* later, t + Capacity.                                                    *)
(***************************************************************************)
PopEmpty ==
  /\ cpc = "idle"
  /\ ~CanPop
  /\ popped' = NoItem
  /\ UNCHANGED <<ringVars, producerVars, cpc, out, got>>

PopClaim ==
  /\ cpc = "idle"
  /\ CanPop
  /\ cpc' = "read"
  /\ UNCHANGED <<ringVars, producerVars, out, popped, got>>

PopRead ==
  /\ cpc = "read"
  /\ out' = data[SlotOf(tail)]
  /\ cpc' = "release"
  /\ UNCHANGED <<ringVars, producerVars, popped, got>>

PopRelease ==
  /\ cpc = "release"
  /\ seq' = [seq EXCEPT ![SlotOf(tail)] = Rearm(tail)]
  /\ got' = Append(got, out)
  /\ popped' = out
  /\ cpc' = "advance"
  /\ UNCHANGED <<data, head, tail, out, producerVars>>

PopAdvance ==
  /\ cpc = "advance"
  /\ tail' = tail + 1
  /\ cpc' = "idle"
  /\ UNCHANGED <<seq, data, head, out, popped, got, producerVars>>

(***************************************************************************)
(* reset_quiescent: "no producer may be mid-push and no consumer mid-pop"; *)
(* ModernKeyHook::start runs it before either thread exists.  The payloads *)
(* stay where they are.                                                    *)
(***************************************************************************)
ResetQuiescent ==
  /\ ppc = "idle" /\ cpc = "idle"
  /\ head' = 0 /\ tail' = 0
  /\ seq' = Armed
  /\ sent' = <<>> /\ got' = <<>>
  /\ pushed' = TRUE /\ popped' = NoItem
  /\ UNCHANGED <<data, ppc, pitem, cpc, out>>

Producer ==
  \/ PushFull
  \/ \E x \in Items : PushClaim(x)
  \/ PushWrite
  \/ PushPublish
  \/ PushAdvance

Consumer ==
  \/ PopEmpty
  \/ PopClaim
  \/ PopRead
  \/ PopRelease
  \/ PopAdvance

RingNext == Producer \/ Consumer \/ ResetQuiescent

RingSpec == RingInit /\ [][RingNext]_spscVars

(***************************************************************************)
(* What the properties speak of.                                           *)
(***************************************************************************)
Published == head + (IF ppc = "advance" THEN 1 ELSE 0)
Released  == tail + (IF cpc = "advance" THEN 1 ELSE 0)

RingTypeOK ==
  /\ seq \in [Slots -> Nat]
  /\ data \in [Slots -> Items \cup {NoItem}]
  /\ head \in Nat /\ tail \in Nat
  /\ ppc \in {"idle", "write", "publish", "advance"}
  /\ cpc \in {"idle", "read", "release", "advance"}
  /\ pitem \in Items \cup {NoItem}
  /\ out \in Items \cup {NoItem}
  /\ popped \in Items \cup {NoItem}
  /\ pushed \in BOOLEAN
  /\ sent \in Seq(Items \cup {NoItem}) /\ got \in Seq(Items \cup {NoItem})

(* The consumer received exactly the items that were published, in order,  *)
(* none twice and none torn: what try_pop hands out is a prefix of what    *)
(* try_push accepted (LockFreeQueue.hpp:86-111).                           *)
FifoOrder ==
  /\ Len(got) <= Len(sent)
  /\ \A i \in 1 .. Len(got) : got[i] = sent[i]

(* The payload is plain memory, not an atomic: the producer is never inside *)
(* its write of a slot while the consumer is inside its read of that slot  *)
(* (LockFreeQueue.hpp:94 against :107).                                    *)
NoDataRace ==
  ~ (/\ ppc = "write"
     /\ cpc = "read"
     /\ SlotOf(head) = SlotOf(tail))

(* No accepted item is overwritten before it is released, and no slot is   *)
(* given up unused: published minus released stays within the capacity,    *)
(* although head_ and tail_ each lag behind the sequence words             *)
(* (LockFreeQueue.hpp:95-96, 108-109).                                     *)
Occupancy ==
  /\ Released <= Published
  /\ Published <= Released + Capacity
  /\ Len(sent) = Published
  /\ Len(got) = Released

(***************************************************************************)
(* The inductive invariant: slots Released .. Published-1 hold the         *)
(* published items, the other slots are armed for the pushes that will     *)
(* reach them, and a thread past its check still owns its slot.            *)
(***************************************************************************)
SlotsFull ==
  \A n \in Released .. Published - 1 :
    /\ seq[SlotOf(n)] = n + 1
    /\ data[SlotOf(n)] = sent[n + 1]

SlotsFree ==
  \A n \in Published .. Released + Capacity - 1 : seq[SlotOf(n)] = n

ProducerOwns ==
  /\ ppc \in {"write", "publish"} => head < Released + Capacity /\ pitem \in Items
  /\ ppc = "publish" => data[SlotOf(head)] = pitem

ConsumerOwns ==
  /\ cpc \in {"read", "release"} => tail < Published
  /\ cpc = "release" => out = sent[tail + 1]

RingInv ==
  /\ RingTypeOK
  /\ Occupancy
  /\ SlotsFull
  /\ SlotsFree
  /\ ProducerOwns
  /\ ConsumerOwns
  /\ FifoOrder

(* What the two threads rely on at every step: an accepted item keeps its   *)
(* slot until it is released, what is popped is what was pushed, in order, *)
(* and neither thread is ever inside the slot of the other.                *)
RingIsSound == RingInv /\ NoDataRace

(***************************************************************************)
(* The ring implements the bounded queue: a push takes effect when the     *)
(* sequence word is published, a pop when the slot is released.            *)
(***************************************************************************)
Fifo == INSTANCE BoundedFifo
          WITH Size <- Capacity,
               queue <- SubSeq(sent, Len(got) + 1, Len(sent)),
               pushed <- pushed,
               popped <- popped

(* Every step of the two threads is a step of the bounded queue, or none:  *)
(* try_push is refused only by a full ring and try_pop only by an empty    *)
(* one, although both decide on one sequence word alone.                   *)
ImplementsFifo == Fifo!FifoSpec
=============================================================================
