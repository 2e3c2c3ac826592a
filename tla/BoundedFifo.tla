----------------------------- MODULE BoundedFifo -----------------------------
(***************************************************************************)
(* What a bounded queue with one producer and one consumer promises its    *)
(* callers (src/src/core/LockFreeQueue.hpp, SPSCRing): items leave in the  *)
(* order they entered, a push is refused only when the queue holds Size    *)
(* items, a pop is refused only when it holds none, and a quiescent reset  *)
(* forgets what was left.  SpscRing is shown to implement this module.     *)
(***************************************************************************)
EXTENDS Naturals, Sequences

CONSTANTS Items,     \* what may be queued
          Size,      \* how many items fit
          NoItem     \* a pop that returned nothing

VARIABLES queue,     \* the items in the queue, oldest first
          pushed,    \* the answer of the latest push: TRUE or FALSE
          popped     \* the answer of the latest pop: an item, or NoItem

fifoVars == <<queue, pushed, popped>>

FifoInit ==
  /\ queue = <<>>
  /\ pushed = TRUE
  /\ popped = NoItem

Enqueue(x) ==
  /\ Len(queue) < Size
  /\ queue' = Append(queue, x)
  /\ pushed' = TRUE
  /\ UNCHANGED popped

Refuse ==
  /\ Len(queue) = Size
  /\ pushed' = FALSE
  /\ UNCHANGED <<queue, popped>>

Dequeue ==
  /\ queue # <<>>
  /\ popped' = Head(queue)
  /\ queue' = Tail(queue)
  /\ UNCHANGED pushed

FindEmpty ==
  /\ queue = <<>>
  /\ popped' = NoItem
  /\ UNCHANGED <<queue, pushed>>

Forget ==
  /\ queue' = <<>>
  /\ pushed' = TRUE
  /\ popped' = NoItem

FifoNext ==
  \/ \E x \in Items : Enqueue(x)
  \/ Refuse
  \/ Dequeue
  \/ FindEmpty
  \/ Forget

FifoSpec == FifoInit /\ [][FifoNext]_fifoVars
=============================================================================
