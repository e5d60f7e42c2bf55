------------------------------ MODULE JobPool -------------------------------
(***************************************************************************)
(* What the prover server promises, without clients, descriptors, poll(),  *)
(* pids or signals: jobs are submitted once, wait or run, run once, and    *)
(* a job starts only while fewer than `limit' jobs run                     *)
(* (src/server/README.server).                                             *)
(***************************************************************************)
EXTENDS Naturals, FiniteSets

VARIABLES
  submitted,  \* jobs ever submitted
  waiting,    \* jobs waiting for a slot
  running,    \* jobs that run
  limit       \* how many may be started

poolVars == <<submitted, waiting, running, limit>>

PoolInit ==
  /\ submitted = {} /\ waiting = {} /\ running = {}
  /\ limit \in Nat \ {0}

Room == Cardinality(running) < limit

(* A new job waits, or starts at once when there is room.                  *)
Submit(j) ==
  /\ j \notin submitted
  /\ submitted' = submitted \cup {j}
  /\ \/ waiting' = waiting \cup {j} /\ UNCHANGED running
     \/ Room /\ running' = running \cup {j} /\ UNCHANGED waiting
  /\ UNCHANGED limit

Start(j) ==
  /\ j \in waiting /\ Room
  /\ waiting' = waiting \ {j} /\ running' = running \cup {j}
  /\ UNCHANGED <<submitted, limit>>

(* Waiting jobs may be given up: interrupted, or their client is gone.     *)
GiveUp(J) ==
  /\ J # {} /\ J \subseteq waiting
  /\ waiting' = waiting \ J
  /\ UNCHANGED <<submitted, running, limit>>

Finish(j) ==
  /\ j \in running
  /\ running' = running \ {j}
  /\ UNCHANGED <<submitted, waiting, limit>>

SetLimit(n) ==
  /\ n >= 1
  /\ limit' = n
  /\ UNCHANGED <<submitted, waiting, running>>

PoolNext ==
  \/ \E j \in submitted' \ submitted : Submit(j)
  \/ \E j \in waiting : Start(j)
  \/ GiveUp(waiting \ waiting')
  \/ \E j \in running : Finish(j)
  \/ SetLimit(limit')

PoolSpec == PoolInit /\ [][PoolNext]_poolVars
=============================================================================
