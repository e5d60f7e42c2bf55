------------------------------ MODULE RingQueue ------------------------------
(***************************************************************************)
(* The resizable ring buffer of src/server/queue.c and its most delicate   *)
(* user, remove_from_queue of request.c, which pours the request queue     *)
(* into a temporary one and back, leaving out the requests of one id.      *)
(***************************************************************************)
EXTENDS Naturals, Sequences

CONSTANTS
  Ids,       \* ids of requests
  NoRequest, \* contents of memory that was never written
  InitCap,   \* capacity the request queue is created with
  MaxPush    \* bound: requests ever pushed

ASSUME InitCapAssumption == InitCap \in Nat \ {0}
ASSUME MaxPushAssumption == MaxPush \in Nat

VARIABLES
  queue, tmp,  \* the two queues (tmp is only meaningful inside remove_from_queue)
  removing,    \* the id remove_from_queue works on, or "none"
  phase,       \* "idle", or the loop of remove_from_queue that runs
  pushed,      \* number of requests pushed
  popped       \* requests run so far, in order

queueVars == <<queue, tmp, removing, phase, pushed, popped>>

(* init_queue *)
InitQueue(cap) ==
  [data |-> [i \in 0..(cap - 1) |-> NoRequest], pointer |-> 0, len |-> 0, capacity |-> cap]

(* queue_is_empty; the element queue_pop returns, and what it leaves.      *)
QueueIsEmpty(q) == q.len = 0
QueueFront(q) == q.data[q.pointer]
Pop(q) == [q EXCEPT !.len = @ - 1, !.pointer = (@ + 1) % q.capacity]

(* Mutant: the array grows, its contents stay where they are. *)
ResizeInPlace(q) ==
  [q EXCEPT !.capacity = 2 * @,
            !.data = [i \in 0..(2 * q.capacity - 1) |-> IF i < q.capacity THEN q.data[i] ELSE NoRequest]]

(* resize_queue: realloc to twice the size, and the elements from the      *)
(* pointer to the end of the old array are copied to the end of the new.   *)
ResizeQueue(q) ==
  LET new_p == q.capacity + q.pointer IN
  [data |-> [i \in 0..(2 * q.capacity - 1) |->
               IF i >= new_p THEN q.data[i - q.capacity]
               ELSE IF i < q.capacity THEN q.data[i] ELSE NoRequest],
   pointer |-> new_p, len |-> q.len, capacity |-> 2 * q.capacity]

(* simple_push, queue_push *)
SimplePush(q, e) ==
  [q EXCEPT !.data[(q.pointer + q.len) % q.capacity] = e, !.len = @ + 1]
Push(q, e) == SimplePush(IF q.len = q.capacity THEN ResizeQueue(q) ELSE q, e)

(* What a queue holds, oldest first.                                       *)
Contents(q) == [i \in 1..q.len |-> q.data[(q.pointer + i - 1) % q.capacity]]

-----------------------------------------------------------------------------
QueueInit ==
  /\ queue = InitQueue(InitCap) /\ tmp = InitQueue(InitCap)
  /\ removing = "none" /\ phase = "idle" /\ pushed = 0 /\ popped = <<>>

(* handle_msg queues a request, schedule_new_jobs takes the oldest.        *)
QueuePush ==
  /\ phase = "idle" /\ pushed < MaxPush
  /\ \E id \in Ids : queue' = Push(queue, [n |-> pushed + 1, id |-> id])
  /\ pushed' = pushed + 1
  /\ UNCHANGED <<tmp, removing, phase, popped>>

QueuePop ==
  /\ phase = "idle" /\ ~QueueIsEmpty(queue)
  /\ popped' = Append(popped, QueueFront(queue))
  /\ queue' = Pop(queue)
  /\ UNCHANGED <<tmp, removing, phase, pushed>>

(* remove_from_queue: the temporary queue has the capacity of the queue;   *)
(* the first loop empties the queue, the second fills it again, and the    *)
(* temporary one is freed (free_queue asserts that it is empty).           *)
RemoveFromQueue(id) ==
  /\ phase = "idle"
  /\ tmp' = InitQueue(queue.capacity)
  /\ removing' = id /\ phase' = "drain"
  /\ UNCHANGED <<queue, pushed, popped>>

(* Mutant: only the matching requests at the front are dropped. *)
DrainPrefix ==
  /\ phase = "drain" /\ ~QueueIsEmpty(queue)
  /\ IF QueueFront(queue).id # removing THEN queue' = queue /\ phase' = "refill"
                                   ELSE queue' = Pop(queue) /\ UNCHANGED phase
  /\ UNCHANGED <<tmp, removing, pushed, popped>>

DrainOne ==
  /\ phase = "drain" /\ ~QueueIsEmpty(queue)
  /\ queue' = Pop(queue)
  /\ tmp' = IF QueueFront(queue).id # removing THEN Push(tmp, QueueFront(queue)) ELSE tmp
  /\ UNCHANGED <<removing, phase, pushed, popped>>

DrainDone ==
  /\ phase = "drain" /\ QueueIsEmpty(queue)
  /\ phase' = "refill"
  /\ UNCHANGED <<queue, tmp, removing, pushed, popped>>

RefillOne ==
  /\ phase = "refill" /\ ~QueueIsEmpty(tmp)
  /\ queue' = Push(queue, QueueFront(tmp)) /\ tmp' = Pop(tmp)
  /\ UNCHANGED <<removing, phase, pushed, popped>>

RefillDone ==
  /\ phase = "refill" /\ QueueIsEmpty(tmp)
  /\ phase' = "idle" /\ removing' = "none"
  /\ tmp' = InitQueue(InitCap)   \* free_queue: nothing is left of it
  /\ UNCHANGED <<queue, pushed, popped>>

QueueNext == \/ QueuePush \/ QueuePop \/ DrainOne \/ DrainDone \/ RefillOne \/ RefillDone
        \/ \E id \in Ids : RemoveFromQueue(id)

QueueSpec == QueueInit /\ [][QueueNext]_queueVars

-----------------------------------------------------------------------------
(* The requests the server still has to run: during remove_from_queue they *)
(* are spread over both queues.                                            *)
Held == CASE phase = "idle"   -> Contents(queue)
          [] phase = "drain"  -> Contents(tmp) \o Contents(queue)
          [] phase = "refill" -> Contents(queue) \o Contents(tmp)

Fifo == INSTANCE RequestFifo WITH fifo <- Held, taken <- popped

(* The ring buffer is a FIFO queue across wrap-around and resizing, and    *)
(* remove_from_queue only drops requests of its id: nothing else is lost,  *)
(* duplicated or reordered, and no uninitialised slot is ever returned.    *)
RefinesFifo == Fifo!FifoSpec

(* remove_from_queue removes every request of the id: when the first loop  *)
(* is over, none is left.                                                  *)
RemovalComplete ==
  phase = "refill" => \A i \in 1..Len(Held) : Held[i].id # removing
=============================================================================
