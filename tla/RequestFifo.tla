----------------------------- MODULE RequestFifo -----------------------------
(***************************************************************************)
(* What server/queue.h promises, used by remove_from_queue: a sequence of  *)
(* requests that grows at the end, shrinks at the front, and from which    *)
(* the requests of one id may be dropped, the others keeping their order.  *)
(***************************************************************************)
EXTENDS Naturals, Sequences

CONSTANTS Ids   \* the ids requests carry

VARIABLES fifo,  \* the requests in the queue, oldest first
          taken  \* the requests popped so far, oldest first

fifoVars == <<fifo, taken>>

FifoInit == fifo = <<>> /\ taken = <<>>

Enqueue(r) == fifo' = Append(fifo, r) /\ UNCHANGED taken

Dequeue ==
  /\ fifo # <<>>
  /\ taken' = Append(taken, Head(fifo)) /\ fifo' = Tail(fifo)

(* One request of the given id leaves, wherever it is.                     *)
Drop(id) ==
  /\ \E i \in 1..Len(fifo) :
       /\ fifo[i].id = id
       /\ fifo' = SubSeq(fifo, 1, i - 1) \o SubSeq(fifo, i + 1, Len(fifo))
  /\ UNCHANGED taken

FifoNext ==
  \/ fifo' # <<>> /\ Enqueue(fifo'[Len(fifo')])
  \/ Dequeue
  \/ \E id \in Ids : Drop(id)

FifoSpec == FifoInit /\ [][FifoNext]_fifoVars
=============================================================================
