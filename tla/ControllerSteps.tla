--------------------------- MODULE ControllerSteps ---------------------------
(***************************************************************************)
(* Lemmas about the scheduler of proof attempts: where the attempts are,   *)
(* which messages are on the way, what the counters count, and that every  *)
(* step keeps it so.  ControllerProofs combines them with the session.     *)
(***************************************************************************)
EXTENDS Controller, FiniteFacts, TLAPS

(* The attempts: where each of them is, and what its callback was told.    *)
PCs == DOMAIN Strategy \cup {NoStrategy}
Attempts == [id : Nat, goal : Nat, pc : PCs]
Calling == [id : Nat, goal : Nat, pc : PCs, started : BOOLEAN]
QueueIds == {queue[i].id : i \in DOMAIN queue}

Standing(a) ==
  IF a \in DOMAIN tasks /\ tasks[a].started THEN "Running"
  ELSE IF a \in DOMAIN tasks \cup QueueIds THEN "Scheduled"
  ELSE "Over"

AttemptInv ==
  /\ told \in Seq({"Scheduled", "Running", "Over"})
  /\ queue \in Seq(Attempts)
  /\ tasks \in [DOMAIN tasks -> Calling] /\ DOMAIN tasks \subseteq DOMAIN told
  /\ \A a \in DOMAIN tasks : tasks[a].id = a
  /\ \A i \in DOMAIN queue : queue[i].id \in DOMAIN told \ DOMAIN tasks
  /\ \A i, j \in DOMAIN queue : queue[i].id = queue[j].id => i = j
  /\ \A a \in DOMAIN told : told[a] = Standing(a)

(* The messages: a call is sent once, starts once and ends once, and its   *)
(* answers are on the way at most once, in the socket or just read.        *)
Requests == [kind : {"run", "interrupt", "parallel"}, arg : Nat \cup MaxTasks]
Messages == [kind : {"S", "F"}, id : Nat, valid : BOOLEAN]
Same(m, n) == m.kind = n.kind /\ m.id = n.id
NoTwice(q) == \A i, j \in DOMAIN q : Same(q[i], q[j]) => i = j

Sent(m) ==
  /\ m.id \in submitted \ waiting
  /\ m.kind = "F" => m.id \notin proving
  /\ m.kind = "S" /\ m.id \in DOMAIN tasks => ~tasks[m.id].started

ToRun(i) == i \in DOMAIN requests /\ requests[i].kind = "run"

PoolInv ==
  /\ waiting \subseteq submitted /\ proving \subseteq submitted /\ waiting \cap proving = {}
  /\ submitted \subseteq DOMAIN told \ QueueIds
  /\ waiting \subseteq saved /\ proving \subseteq saved
  /\ \A a \in DOMAIN tasks : tasks[a].started => a \in submitted \ waiting

RequestInv ==
  /\ requests \in Seq(Requests)
  /\ \A i \in DOMAIN requests : ToRun(i) =>
       requests[i].arg \in (DOMAIN told \ (submitted \cup QueueIds)) \cap saved
  /\ \A i, j \in DOMAIN requests : ToRun(i) /\ ToRun(j) /\ requests[i].arg = requests[j].arg => i = j

AnswerInv ==
  /\ fetched \in Seq(Messages) /\ answers \in Seq(Messages)
  /\ \A i \in DOMAIN answers : answers[i].kind = "F" => answers[i].id \in saved
  /\ \A i \in DOMAIN fetched : Sent(fetched[i])
  /\ \A i \in DOMAIN answers : Sent(answers[i])
  /\ NoTwice(fetched) /\ NoTwice(answers)
  /\ \A i \in DOMAIN fetched, j \in DOMAIN answers : ~Same(fetched[i], answers[j])

MessageInv == PoolInv /\ RequestInv /\ AnswerInv

(* The counters.                                                           *)
GoalBags == UNION {[D -> Nat \ {0}] : D \in SUBSET Nat}
StartedTasks == {a \in DOMAIN tasks : tasks[a].started}

CountInv ==
  /\ running \in GoalBags
  /\ IsFiniteSet(Pending) /\ IsFiniteSet(DOMAIN tasks)
  /\ \A g \in Nat : Copies(running, g) = Cardinality(PendingOn(g))
  /\ nrunning = Cardinality(StartedTasks)

-----------------------------------------------------------------------------
(* Sequences that lose one element or gain one.                            *)
LEMMA SeqTail ==
  ASSUME NEW S, NEW q \in Seq(S), q # <<>>
  PROVE  /\ Len(q) \in Nat \ {0} /\ 1 \in DOMAIN q /\ Head(q) = q[1]
         /\ Tail(q) \in Seq(S) /\ DOMAIN Tail(q) = 1 .. Len(q) - 1
         /\ \A i \in DOMAIN Tail(q) : Tail(q)[i] = q[i + 1] /\ i + 1 \in DOMAIN q
  OBVIOUS

LEMMA SeqAppend ==
  ASSUME NEW S, NEW q \in Seq(S), NEW x \in S
  PROVE  /\ Append(q, x) \in Seq(S) /\ Len(q) \in Nat /\ DOMAIN Append(q, x) = 1 .. Len(q) + 1
         /\ DOMAIN q = 1 .. Len(q)
         /\ \A i \in DOMAIN q : Append(q, x)[i] = q[i]
         /\ Append(q, x)[Len(q) + 1] = x
  OBVIOUS

LEMMA SeqConcat ==
  ASSUME NEW S, NEW a \in Seq(S), NEW b \in Seq(S)
  PROVE  /\ a \o b \in Seq(S) /\ Len(a \o b) = Len(a) + Len(b)
         /\ \A k \in 1 .. Len(a) : (a \o b)[k] = a[k]
         /\ \A k \in 1 .. Len(b) : (a \o b)[Len(a) + k] = b[k]
  OBVIOUS

Cut(q, i) == SubSeq(q, 1, i - 1) \o SubSeq(q, i + 1, Len(q))
Before(i, k) == IF k < i THEN k ELSE k + 1

LEMMA SeqRemove ==
  ASSUME NEW S, NEW q \in Seq(S), NEW i \in DOMAIN q
  PROVE  /\ Cut(q, i) \in Seq(S)
         /\ \A k \in DOMAIN Cut(q, i) :
              Before(i, k) \in DOMAIN q \ {i} /\ Cut(q, i)[k] = q[Before(i, k)]
<1> DEFINE a == SubSeq(q, 1, i - 1)
           b == SubSeq(q, i + 1, Len(q))
           r == a \o b
<1>1. Len(q) \in Nat /\ i \in 1 .. Len(q) /\ DOMAIN q = 1 .. Len(q) /\ \A k \in 1 .. Len(q) : q[k] \in S
  OBVIOUS
<1>2. a \in Seq(S) /\ Len(a) = i - 1 /\ \A k \in 1 .. i - 1 : a[k] = q[k]
  BY <1>1
<1>3. b \in Seq(S) /\ Len(b) = Len(q) - i /\ \A k \in 1 .. Len(q) - i : b[k] = q[k + i]
  BY <1>1
<1> HIDE DEF a, b
<1>4. r \in Seq(S) /\ Len(r) = Len(q) - 1
  <2>1. r \in Seq(S) /\ Len(r) = Len(a) + Len(b)
    BY <1>2, <1>3, SeqConcat
  <2>2. QED
    BY <1>1, <1>2, <1>3, <2>1
<1>5. DOMAIN r = 1 .. Len(q) - 1
  BY <1>4
<1>6. ASSUME NEW k \in 1 .. Len(q) - 1 PROVE r[k] = q[IF k < i THEN k ELSE k + 1]
  <2>1. CASE k < i
    BY <1>1, <1>2, <1>3, <2>1
  <2>2. CASE ~(k < i)
    <3> DEFINE l == k - (i - 1)
    <3>1. l \in 1 .. Len(b) /\ l + i = k + 1 /\ Len(a) + l = k /\ l \in 1 .. Len(q) - i
      BY <1>1, <1>2, <1>3, <2>2
    <3> HIDE DEF l
    <3>2. r[k] = b[l]
      <4>1. r[Len(a) + l] = b[l]
        <5>1. a \in Seq(S) /\ b \in Seq(S)
          BY <1>2, <1>3
        <5>2. \A m \in 1 .. Len(b) : r[Len(a) + m] = b[m]
          BY ONLY <5>1, SeqConcat
        <5>3. QED
          BY <3>1, <5>2
      <4>2. QED
        BY <3>1, <4>1
    <3>3. b[l] = q[k + 1]
      BY <1>3, <3>1
    <3>4. QED
      BY <2>2, <3>2, <3>3
  <2>3. QED
    BY Zenon, <2>1, <2>2
<1> HIDE DEF r
<1>7. \A k \in DOMAIN r : (IF k < i THEN k ELSE k + 1) \in DOMAIN q \ {i}
  BY <1>1, <1>5
<1>8. QED
  BY <1>4, <1>5, <1>6, <1>7 DEF r, a, b, Cut, Before

LEMMA SeqSplit ==
  ASSUME NEW S, NEW q \in Seq(S), NEW n \in 1 .. Len(q)
  PROVE  LET a == SubSeq(q, 1, n)
             b == SubSeq(q, n + 1, Len(q))
         IN  /\ a \in Seq(S) /\ b \in Seq(S)
             /\ \A k \in DOMAIN a : k \in DOMAIN q /\ k <= n /\ a[k] = q[k]
             /\ \A k \in DOMAIN b : k + n \in DOMAIN q /\ k > 0 /\ b[k] = q[k + n]
             /\ DOMAIN a \subseteq Nat /\ DOMAIN b \subseteq Nat
  OBVIOUS

-----------------------------------------------------------------------------
(* What a step does to the attempts, their calls and the session.          *)
tableVars == <<running, told, queue, tasks, nrunning>>
wireVars == <<fetched, saved, requests, answers, submitted, waiting, proving>>

AttemptMade ==
  /\ \E g \in Goals(ses), pc \in PCs : schedule_proof_attempt(g, pc)
  /\ UNCHANGED <<tasks, nrunning, wireVars>>

TransfApplied ==
  /\ \E g \in Goals(ses), n \in Nat : ses' = update_trans_node(graft_transf(ses, g, n), ses.next)
  /\ UNCHANGED <<tableVars, wireVars>>

NodesChanged == remove_node \/ clean \/ reset_proofs \/ mark_as_obsolete

CallMade ==
  /\ queue # <<>>
  /\ LET t == Head(queue)
     IN  /\ call_on_file(t.id)
         /\ tasks' = Extend(tasks, {t.id},
                            [id |-> t.id, goal |-> t.goal, pc |-> t.pc, started |-> FALSE])
  /\ queue' = Tail(queue)
  /\ UNCHANGED <<ses, running, told, nrunning, fetched, answers, submitted, waiting, proving>>

CallFails ==
  /\ queue # <<>>
  /\ saved' = saved \/ saved' = saved \cup {Head(queue).id}
  /\ Ended(Head(queue), ses)
  /\ queue' = Tail(queue)
  /\ UNCHANGED <<tasks, nrunning, fetched, requests, answers, submitted, waiting, proving>>

LimitSet ==
  /\ \E n \in MaxTasks : requests' = requests \/ requests' = Append(requests, Request("parallel", n))
  /\ UNCHANGED <<ses, tableVars, fetched, saved, answers, submitted, waiting, proving>>

Rests == UNCHANGED <<ses, tableVars, wireVars>>

LEMMA StrategyStep ==
  ASSUME NEW pc, NEW g, NEW rest, exec_strategy(pc, g, rest),
         UNCHANGED <<tasks, nrunning, fetched, saved, requests, answers, serverVars>>
  PROVE  AttemptMade \/ Rests
<1> DEFINE at == Landing(pc)
           op == IF at \in DOMAIN Strategy /\ g \in Goals(ses) THEN Strategy[at].op ELSE "halt"
<1>1. CASE op = "prove" /\ schedule_proof_attempt(g, at)
  <2>1. at \in DOMAIN Strategy /\ g \in Goals(ses)
    BY <1>1
  <2>2. QED
    BY <1>1, <2>1 DEF AttemptMade, PCs, wireVars, serverVars
<1>2. CASE UNCHANGED <<sessionVars, queue, idleOn>>
  BY <1>2 DEF Rests, sessionVars, tableVars, wireVars, serverVars
<1>3. QED
  BY <1>1, <1>2 DEF exec_strategy

LEMMA JobStep == RunIdleJob => AttemptMade \/ TransfApplied \/ Rests
<1> SUFFICES ASSUME RunIdleJob PROVE AttemptMade \/ TransfApplied \/ Rests
  OBVIOUS
<1> DEFINE j == Head(jobs)
           rest == Tail(jobs)
           t == ses.next
<1>1. UNCHANGED <<tasks, nrunning, fetched, saved, requests, answers, serverVars>>
  BY Zenon DEF RunIdleJob
<1>2. CASE exec_strategy(j.pc, j.goal, rest)
  BY <1>1, <1>2, StrategyStep
<1>3. CASE /\ j.goal \in Goals(ses)
           /\ \E n \in Subtasks : ses' = update_trans_node(graft_transf(ses, j.goal, n), t)
           /\ UNCHANGED <<running, told, queue, idleOn>>
  BY <1>1, <1>3, SubtasksAssumption DEF TransfApplied, tableVars, wireVars, serverVars
<1>4. CASE UNCHANGED <<sessionVars, queue, idleOn>>
  BY <1>1, <1>4 DEF Rests, sessionVars, tableVars, wireVars, serverVars
<1>5. QED
  BY Zenon, <1>2, <1>3, <1>4 DEF RunIdleJob

LEMMA IdleStep == idle_handler => CallMade \/ CallFails \/ Rests
<1> SUFFICES ASSUME idle_handler PROVE CallMade \/ CallFails \/ Rests
  OBVIOUS
<1>1. UNCHANGED <<maxTasks, nrunning, jobs, fetched, answers, serverVars>>
  BY DEF idle_handler
<1>2. CASE queue = <<>>
  BY <1>1, <1>2 DEF idle_handler, Rests, sessionVars, tableVars, wireVars, serverVars
<1>3. CASE queue # <<>>
  <2>1. build_prover_call(Head(queue)) /\ queue' = Tail(queue)
    BY <1>3 DEF idle_handler
  <2>2. QED
    BY <1>1, <1>3, <2>1 DEF build_prover_call, CallMade, CallFails, sessionVars, serverVars
<1>4. QED
  BY <1>2, <1>3

LEMMA StepKinds ==
  ASSUME [Next]_vars
  PROVE  \/ AttemptMade \/ TransfApplied \/ NodesChanged \/ CallMade \/ CallFails
         \/ timeout_handler \/ (\E i \in DOMAIN fetched : HandleResult(i)) \/ interrupt \/ LimitSet
         \/ ServerReads \/ ServerStarts \/ ProverEnds \/ ServerDies \/ Rests
<1>1. ASSUME NEW g \in Goals(ses), Prove(g) PROVE AttemptMade
  BY <1>1 DEF Prove, AttemptMade, PCs, wireVars, serverVars
<1>2. ASSUME NEW g \in Goals(ses), run_strategy_on_goal(g) PROVE AttemptMade \/ Rests
  BY <1>2, StrategyStep DEF run_strategy_on_goal
<1>3. ASSUME NEW g \in Goals(ses), schedule_transformation(g) PROVE Rests
  BY <1>3 DEF schedule_transformation, Rests, sessionVars, tableVars, wireVars, serverVars
<1>4. ASSUME NEW n \in MaxTasks, set_session_max_tasks(n) PROVE LimitSet
  BY <1>4 DEF set_session_max_tasks, set_max_running_provers, LimitSet, sessionVars, tableVars, serverVars
<1>5. ASSUME UNCHANGED vars PROVE Rests
  BY <1>5 DEF vars, sessionVars, clientVars, serverVars, Rests, tableVars, wireVars
<1>6. User => \/ AttemptMade \/ LimitSet \/ Rests \/ interrupt \/ NodesChanged
  BY <1>1, <1>2, <1>3, <1>4 DEF User, NodesChanged
<1>7. QED
  BY <1>5, <1>6, JobStep, IdleStep DEF Next, Client, TimeoutHandler, Server

-----------------------------------------------------------------------------
(* Where the attempts are.                                                 *)
LEMMA PendingFacts ==
  ASSUME AttemptInv
  PROVE  /\ PendingIds = QueueIds \cup DOMAIN tasks
         /\ Pending \subseteq [id : Nat, goal : Nat]
         /\ \A p, q \in Pending : p.id = q.id => p = q
<1>1. /\ queue \in Seq(Attempts) /\ tasks \in [DOMAIN tasks -> Calling]
      /\ \A a \in DOMAIN tasks : tasks[a].id = a
      /\ \A i \in DOMAIN queue : queue[i].id \notin DOMAIN tasks
      /\ \A i, j \in DOMAIN queue : queue[i].id = queue[j].id => i = j
  BY DEF AttemptInv
<1>2. /\ \A i \in DOMAIN queue : queue[i] \in Attempts
      /\ \A a \in DOMAIN tasks : tasks[a] \in Calling
  BY <1>1
<1>3. \A p \in Pending : \/ \E i \in DOMAIN queue : p = Entry(queue[i])
                         \/ \E a \in DOMAIN tasks : p = Entry(tasks[a])
  BY DEF Pending
<1>4. \A i \in DOMAIN queue : Entry(queue[i]) \in [id : Nat, goal : Nat] /\ Entry(queue[i]).id = queue[i].id
  BY <1>2 DEF Entry, Attempts
<1>5. \A a \in DOMAIN tasks : Entry(tasks[a]) \in [id : Nat, goal : Nat] /\ Entry(tasks[a]).id = a
  BY <1>1, <1>2 DEF Entry, Calling
<1>6. Pending \subseteq [id : Nat, goal : Nat]
  BY <1>3, <1>4, <1>5
<1>7. ASSUME NEW p \in Pending, NEW q \in Pending, p.id = q.id PROVE p = q
  BY <1>1, <1>3, <1>4, <1>5, <1>7
<1>8. PendingIds \subseteq QueueIds \cup DOMAIN tasks
  BY <1>3, <1>4, <1>5 DEF PendingIds, QueueIds
<1>9. QueueIds \cup DOMAIN tasks \subseteq PendingIds
  BY <1>4, <1>5 DEF PendingIds, QueueIds, Pending
<1>10. QED
  BY <1>6, <1>7, <1>8, <1>9

LEMMA AttemptMadeInv ==
  ASSUME AttemptInv, Goals(ses) \subseteq Nat, AttemptMade
  PROVE  AttemptInv' /\ DOMAIN told' = DOMAIN told \cup {Len(told) + 1}
         /\ QueueIds' = QueueIds \cup {Len(told) + 1}
<1>1. PICK g \in Goals(ses), pc \in PCs :
        /\ queue' = Append(queue, [id |-> Len(told) + 1, goal |-> g, pc |-> pc])
        /\ told' = Append(told, "Scheduled") /\ tasks' = tasks
  BY DEF AttemptMade, schedule_proof_attempt
<1> DEFINE n == Len(told) + 1
           m == Len(queue) + 1
           t == [id |-> n, goal |-> g, pc |-> pc]
<1>2. /\ told \in Seq({"Scheduled", "Running", "Over"}) /\ queue \in Seq(Attempts)
      /\ tasks \in [DOMAIN tasks -> Calling] /\ DOMAIN tasks \subseteq DOMAIN told
      /\ \A i \in DOMAIN queue : queue[i].id \in DOMAIN told \ DOMAIN tasks
      /\ \A i, j \in DOMAIN queue : queue[i].id = queue[j].id => i = j
      /\ \A a \in DOMAIN told : told[a] = Standing(a)
      /\ \A a \in DOMAIN tasks : tasks[a].id = a
  BY DEF AttemptInv
<1>3. n \in Nat /\ DOMAIN told = 1 .. Len(told) /\ n \notin DOMAIN told /\ t \in Attempts
  BY <1>2 DEF Attempts
<1>4. /\ told' \in Seq({"Scheduled", "Running", "Over"}) /\ DOMAIN told' = DOMAIN told \cup {n}
      /\ \A a \in DOMAIN told : told'[a] = told[a]
      /\ told'[n] = "Scheduled"
  BY <1>1, <1>2, <1>3, SeqAppend
<1>5. /\ queue' \in Seq(Attempts) /\ DOMAIN queue' = DOMAIN queue \cup {m} /\ m \notin DOMAIN queue
      /\ \A i \in DOMAIN queue : queue'[i] = queue[i]
      /\ queue'[m] = t /\ t.id = n
  BY <1>1, <1>2, <1>3, SeqAppend
<1> HIDE DEF n, m, t
<1>6. QueueIds' = QueueIds \cup {n}
  BY <1>5 DEF QueueIds
<1>7. ASSUME NEW a \in DOMAIN told' PROVE told'[a] = Standing(a)'
  BY <1>1, <1>2, <1>3, <1>4, <1>6 DEF Standing
<1>8. \A i \in DOMAIN queue' : queue'[i].id \in DOMAIN told' \ DOMAIN tasks'
  BY <1>1, <1>2, <1>3, <1>4, <1>5
<1>9. \A i, j \in DOMAIN queue' : queue'[i].id = queue'[j].id => i = j
  BY <1>2, <1>3, <1>5
<1>10. AttemptInv'
  BY <1>1, <1>2, <1>4, <1>5, <1>7, <1>8, <1>9 DEF AttemptInv
<1>11. QED
  BY <1>4, <1>6, <1>10 DEF n

(* The queue loses its first attempt.                                      *)
LEMMA QueueTail ==
  ASSUME AttemptInv, queue # <<>>, queue' = Tail(queue)
  PROVE  /\ queue' \in Seq(Attempts) /\ Head(queue) \in Attempts
         /\ Head(queue).id \in QueueIds /\ QueueIds' = QueueIds \ {Head(queue).id}
         /\ \A i, j \in DOMAIN queue' : queue'[i].id = queue'[j].id => i = j
         /\ {Entry(queue[i]) : i \in DOMAIN queue}
              = {Entry(queue'[i]) : i \in DOMAIN queue'} \cup {Entry(Head(queue))}
         /\ Entry(Head(queue)) \notin {Entry(queue'[i]) : i \in DOMAIN queue'}
<1> DEFINE q == Tail(queue)
           h == Head(queue)
<1>1. queue \in Seq(Attempts) /\ \A i, j \in DOMAIN queue : queue[i].id = queue[j].id => i = j
  BY DEF AttemptInv
<1>2. /\ Len(queue) \in Nat \ {0} /\ 1 \in DOMAIN queue /\ h = queue[1]
      /\ q \in Seq(Attempts) /\ DOMAIN q = 1 .. Len(queue) - 1
      /\ \A i \in DOMAIN q : q[i] = queue[i + 1] /\ i + 1 \in DOMAIN queue
  BY <1>1, SeqTail
<1>3. DOMAIN queue = 1 .. Len(queue) /\ h \in Attempts
  BY <1>1, <1>2
<1>4. \A i \in DOMAIN queue : i # 1 => i - 1 \in DOMAIN q /\ q[i - 1] = queue[i]
  BY <1>2, <1>3
<1>5. \A i \in DOMAIN q : i + 1 # 1
  BY <1>2
<1>6. \A i, j \in DOMAIN q : q[i].id = q[j].id => i = j
  BY <1>1, <1>2
<1> HIDE DEF q, h
<1>7. h.id \in QueueIds
  BY <1>2 DEF QueueIds
<1>8. QueueIds' \subseteq QueueIds \ {h.id}
  BY <1>1, <1>2, <1>5 DEF QueueIds, q
<1>9. ASSUME NEW a \in QueueIds \ {h.id} PROVE a \in QueueIds'
  <2>1. PICK i \in DOMAIN queue : a = queue[i].id
    BY DEF QueueIds
  <2>2. i - 1 \in DOMAIN queue' /\ queue'[i - 1].id = a
    BY <1>2, <1>4, <2>1 DEF q
  <2>3. QED
    BY <2>2 DEF QueueIds
<1>10. {Entry(queue[i]) : i \in DOMAIN queue} \subseteq {Entry(q[i]) : i \in DOMAIN q} \cup {Entry(h)}
  BY <1>2, <1>4
<1>11. {Entry(q[i]) : i \in DOMAIN q} \cup {Entry(h)} \subseteq {Entry(queue[i]) : i \in DOMAIN queue}
  BY <1>2
<1>12. ASSUME NEW i \in DOMAIN q PROVE Entry(q[i]) # Entry(h)
  <2>1. q[i].id # h.id
    BY <1>1, <1>2, <1>5
  <2>2. QED
    BY <2>1 DEF Entry
<1>13. QED
  BY <1>2, <1>3, <1>6, <1>7, <1>8, <1>9, <1>10, <1>11, <1>12 DEF q, h

LEMMA CallMadeInv ==
  ASSUME AttemptInv, CallMade
  PROVE  /\ AttemptInv' /\ Pending' = Pending
         /\ DOMAIN tasks' = DOMAIN tasks \cup {Head(queue).id} /\ Head(queue).id \notin DOMAIN tasks
         /\ \A a \in DOMAIN tasks : tasks'[a] = tasks[a]
         /\ ~tasks'[Head(queue).id].started
<1> DEFINE h == Head(queue)
           t == [id |-> h.id, goal |-> h.goal, pc |-> h.pc, started |-> FALSE]
<1>1. queue # <<>> /\ queue' = Tail(queue) /\ told' = told /\ tasks' = Extend(tasks, {h.id}, t)
  BY DEF CallMade
<1>2. /\ told \in Seq({"Scheduled", "Running", "Over"})
      /\ tasks \in [DOMAIN tasks -> Calling] /\ DOMAIN tasks \subseteq DOMAIN told
      /\ \A i \in DOMAIN queue : queue[i].id \in DOMAIN told \ DOMAIN tasks
      /\ \A a \in DOMAIN told : told[a] = Standing(a)
      /\ \A a \in DOMAIN tasks : tasks[a].id = a
  BY DEF AttemptInv
<1>3. /\ queue' \in Seq(Attempts) /\ h \in Attempts
      /\ h.id \in QueueIds /\ QueueIds' = QueueIds \ {h.id}
      /\ \A i, j \in DOMAIN queue' : queue'[i].id = queue'[j].id => i = j
      /\ {Entry(queue[i]) : i \in DOMAIN queue}
           = {Entry(queue'[i]) : i \in DOMAIN queue'} \cup {Entry(h)}
  BY <1>1, QueueTail
<1>4. t \in Calling /\ t.id = h.id /\ t.started = FALSE /\ Entry(t) = Entry(h)
  BY <1>3 DEF Attempts, Calling, Entry
<1>5. QueueIds \subseteq DOMAIN told \ DOMAIN tasks
  BY <1>2 DEF QueueIds
<1> HIDE DEF h, t
<1>6. /\ DOMAIN tasks' = DOMAIN tasks \cup {h.id} /\ tasks'[h.id] = t
      /\ \A a \in DOMAIN tasks : tasks'[a] = tasks[a]
  BY <1>1, <1>3, <1>5 DEF Extend
<1>7. tasks' \in [DOMAIN tasks' -> Calling]
  BY <1>1, <1>2, <1>4 DEF Extend
<1>8. \A i \in DOMAIN queue' : queue'[i].id \in QueueIds'
  BY DEF QueueIds
<1>9. \A a \in DOMAIN tasks' : tasks'[a].id = a
  BY <1>2, <1>4, <1>6
<1>10. ASSUME NEW a \in DOMAIN told' PROVE told'[a] = Standing(a)'
  BY Zenon, <1>1, <1>2, <1>3, <1>4, <1>5, <1>6 DEF Standing
<1>11. {Entry(tasks'[a]) : a \in DOMAIN tasks'} = {Entry(tasks[a]) : a \in DOMAIN tasks} \cup {Entry(h)}
  BY <1>4, <1>6
<1>12. Pending' = Pending
  BY Zenon, <1>3, <1>11 DEF Pending
<1>13. \A i \in DOMAIN queue' : queue'[i].id \in DOMAIN told' \ DOMAIN tasks'
  BY <1>1, <1>3, <1>5, <1>6, <1>8
<1>14. AttemptInv'
  <2>1. DOMAIN tasks' \subseteq DOMAIN told' /\ told' \in Seq({"Scheduled", "Running", "Over"})
    BY <1>1, <1>2, <1>3, <1>5, <1>6
  <2>2. QED
    BY <1>3, <1>7, <1>9, <1>10, <1>13, <2>1 DEF AttemptInv
<1>15. QED
  BY <1>3, <1>4, <1>5, <1>6, <1>12, <1>14 DEF h

(* The callback of one attempt is told something.                          *)
LEMMA ToldOne ==
  ASSUME AttemptInv, NEW a \in DOMAIN told, NEW st \in {"Running", "Over"},
         told[a] = "Scheduled" \/ (told[a] = "Running" /\ st = "Over"), told' = Told(a, st)
  PROVE  /\ told' \in Seq({"Scheduled", "Running", "Over"}) /\ DOMAIN told' = DOMAIN told
         /\ told'[a] = st /\ \A b \in DOMAIN told : b # a => told'[b] = told[b]
<1>1. told \in Seq({"Scheduled", "Running", "Over"})
  BY DEF AttemptInv
<1>2. told' = [told EXCEPT ![a] = st]
  BY DEF Told, Telling
<1>3. QED
  BY <1>1, <1>2

LEMMA CallFailsInv ==
  ASSUME AttemptInv, CallFails
  PROVE  /\ AttemptInv' /\ Pending' = Pending \ {Entry(Head(queue))} /\ Entry(Head(queue)) \in Pending
         /\ DOMAIN told' = DOMAIN told
<1> DEFINE h == Head(queue)
<1>1. queue # <<>> /\ queue' = Tail(queue) /\ told' = Told(h.id, "Over") /\ tasks' = tasks
  BY DEF CallFails, Ended
<1>2. /\ told \in Seq({"Scheduled", "Running", "Over"})
      /\ tasks \in [DOMAIN tasks -> Calling] /\ DOMAIN tasks \subseteq DOMAIN told
      /\ \A i \in DOMAIN queue : queue[i].id \in DOMAIN told \ DOMAIN tasks
      /\ \A a \in DOMAIN told : told[a] = Standing(a)
      /\ \A a \in DOMAIN tasks : tasks[a].id = a
  BY DEF AttemptInv
<1>3. /\ queue' \in Seq(Attempts) /\ h \in Attempts
      /\ h.id \in QueueIds /\ QueueIds' = QueueIds \ {h.id}
      /\ \A i, j \in DOMAIN queue' : queue'[i].id = queue'[j].id => i = j
      /\ {Entry(queue[i]) : i \in DOMAIN queue}
           = {Entry(queue'[i]) : i \in DOMAIN queue'} \cup {Entry(h)}
      /\ Entry(h) \notin {Entry(queue'[i]) : i \in DOMAIN queue'}
  BY <1>1, QueueTail
<1>4. QueueIds \subseteq DOMAIN told \ DOMAIN tasks
  BY <1>2 DEF QueueIds
<1> HIDE DEF h
<1>5. told[h.id] = "Scheduled"
  BY <1>2, <1>3, <1>4 DEF Standing
<1>6. /\ told' \in Seq({"Scheduled", "Running", "Over"}) /\ DOMAIN told' = DOMAIN told
      /\ told'[h.id] = "Over" /\ \A b \in DOMAIN told : b # h.id => told'[b] = told[b]
  BY <1>1, <1>3, <1>4, <1>5, ToldOne
<1>7. \A i \in DOMAIN queue' : queue'[i].id \in QueueIds'
  BY DEF QueueIds
<1>8. ASSUME NEW a \in DOMAIN told' PROVE told'[a] = Standing(a)'
  BY <1>1, <1>2, <1>3, <1>4, <1>6 DEF Standing
<1>9. \A i \in DOMAIN queue' : queue'[i].id \in DOMAIN told' \ DOMAIN tasks'
  BY <1>1, <1>3, <1>4, <1>6, <1>7
<1>10. AttemptInv'
  BY <1>1, <1>2, <1>3, <1>6, <1>8, <1>9 DEF AttemptInv
<1>11. ASSUME NEW a \in DOMAIN tasks PROVE Entry(tasks[a]) # Entry(h)
  BY <1>2, <1>3, <1>4 DEF Entry
<1>12. Pending' = Pending \ {Entry(h)} /\ Entry(h) \in Pending
  <2> DEFINE T == {Entry(tasks[a]) : a \in DOMAIN tasks}
             Q == {Entry(queue[i]) : i \in DOMAIN queue}
             R == {Entry(queue'[i]) : i \in DOMAIN queue'}
  <2>1. Pending = Q \cup T /\ Pending' = R \cup T
    BY <1>1 DEF Pending
  <2>2. Entry(h) \notin T
    BY <1>11
  <2>3. Q = R \cup {Entry(h)} /\ Entry(h) \notin R
    BY Zenon, <1>3
  <2> HIDE DEF T, Q, R
  <2>4. QED
    BY <2>1, <2>2, <2>3
<1>13. QED
  BY <1>6, <1>10, <1>12 DEF h

(* What the handling of one result does to the tables.                     *)
ResultIgnored(i) == fetched[i].id \notin DOMAIN tasks /\ UNCHANGED <<ses, tableVars>>

StartHandled(i) ==
  LET a == fetched[i].id
  IN  /\ a \in DOMAIN tasks /\ fetched[i].kind = "S"
      /\ ses' = update_goal_node(ses, tasks[a].goal)
      /\ told' = Told(a, "Running")
      /\ nrunning' = nrunning + 1
      /\ tasks' = [tasks EXCEPT ![a].started = TRUE]
      /\ UNCHANGED <<running, queue>>

EndHandled(i) ==
  LET a == fetched[i].id
  IN  /\ a \in DOMAIN tasks /\ fetched[i].kind = "F"
      /\ tasks' = Without(tasks, {a})
      /\ nrunning' = IF tasks[a].started THEN nrunning - 1 ELSE nrunning
      /\ Ended(tasks[a], update_proof_attempt(ses, tasks[a].goal, fetched[i].valid))
      /\ UNCHANGED queue

LEMMA ResultKinds ==
  ASSUME NEW i \in DOMAIN fetched, HandleResult(i)
  PROVE  /\ ResultIgnored(i) \/ StartHandled(i) \/ EndHandled(i)
         /\ fetched' = SubSeq(fetched, 1, i - 1) \o SubSeq(fetched, i + 1, Len(fetched))
         /\ UNCHANGED <<saved, requests, answers, submitted, waiting, proving>>
  BY DEF HandleResult, ResultIgnored, StartHandled, EndHandled, sessionVars, tableVars, serverVars

LEMMA StartHandledInv ==
  ASSUME AttemptInv, NEW i, StartHandled(i), ~tasks[fetched[i].id].started
  PROVE  /\ AttemptInv' /\ Pending' = Pending /\ DOMAIN told' = DOMAIN told
         /\ DOMAIN tasks' = DOMAIN tasks /\ tasks'[fetched[i].id].started
         /\ \A a \in DOMAIN tasks : a # fetched[i].id => tasks'[a] = tasks[a]
<1> DEFINE a == fetched[i].id
<1>1. a \in DOMAIN tasks /\ told' = Told(a, "Running") /\ queue' = queue
  BY DEF StartHandled
<1>2. /\ told \in Seq({"Scheduled", "Running", "Over"}) /\ queue \in Seq(Attempts)
      /\ tasks \in [DOMAIN tasks -> Calling] /\ DOMAIN tasks \subseteq DOMAIN told
      /\ \A k \in DOMAIN queue : queue[k].id \in DOMAIN told \ DOMAIN tasks
      /\ \A k, j \in DOMAIN queue : queue[k].id = queue[j].id => k = j
      /\ \A b \in DOMAIN told : told[b] = Standing(b)
      /\ \A b \in DOMAIN tasks : tasks[b].id = b
  BY DEF AttemptInv
<1>3. /\ tasks' \in [DOMAIN tasks -> Calling] /\ DOMAIN tasks' = DOMAIN tasks
      /\ tasks'[a].started = TRUE /\ tasks'[a].id = tasks[a].id /\ tasks'[a].goal = tasks[a].goal
      /\ \A b \in DOMAIN tasks : b # a => tasks'[b] = tasks[b]
  BY Zenon, <1>1, <1>2 DEF StartHandled, Calling
<1>4. ~tasks[a].started
  OBVIOUS
<1> HIDE DEF a
<1>5. told[a] = "Scheduled"
  BY <1>1, <1>2, <1>4 DEF Standing
<1>6. /\ told' \in Seq({"Scheduled", "Running", "Over"}) /\ DOMAIN told' = DOMAIN told
      /\ told'[a] = "Running" /\ \A b \in DOMAIN told : b # a => told'[b] = told[b]
  BY <1>1, <1>2, <1>5, ToldOne
<1>7. QueueIds' = QueueIds
  BY <1>1 DEF QueueIds
<1>8. ASSUME NEW b \in DOMAIN told' PROVE told'[b] = Standing(b)'
  BY <1>1, <1>2, <1>3, <1>6, <1>7 DEF Standing
<1>9. AttemptInv'
  BY <1>1, <1>2, <1>3, <1>6, <1>8 DEF AttemptInv
<1>10. \A b \in DOMAIN tasks : Entry(tasks'[b]) = Entry(tasks[b])
  BY <1>3 DEF Entry
<1>11. Pending' = Pending
  BY <1>1, <1>3, <1>10 DEF Pending
<1>12. QED
  BY <1>3, <1>6, <1>9, <1>11 DEF a

LEMMA EndHandledInv ==
  ASSUME AttemptInv, NEW i, EndHandled(i)
  PROVE  /\ AttemptInv' /\ DOMAIN told' = DOMAIN told
         /\ Pending' = Pending \ {Entry(tasks[fetched[i].id])} /\ Entry(tasks[fetched[i].id]) \in Pending
         /\ DOMAIN tasks' = DOMAIN tasks \ {fetched[i].id}
         /\ \A a \in DOMAIN tasks' : tasks'[a] = tasks[a]
<1> DEFINE a == fetched[i].id
<1>1. a \in DOMAIN tasks /\ told' = Told(tasks[a].id, "Over") /\ queue' = queue /\ tasks' = Without(tasks, {a})
  BY DEF EndHandled, Ended
<1>2. /\ told \in Seq({"Scheduled", "Running", "Over"}) /\ queue \in Seq(Attempts)
      /\ tasks \in [DOMAIN tasks -> Calling] /\ DOMAIN tasks \subseteq DOMAIN told
      /\ \A k \in DOMAIN queue : queue[k].id \in DOMAIN told \ DOMAIN tasks
      /\ \A k, j \in DOMAIN queue : queue[k].id = queue[j].id => k = j
      /\ \A b \in DOMAIN told : told[b] = Standing(b)
      /\ \A b \in DOMAIN tasks : tasks[b].id = b
  BY DEF AttemptInv
<1> HIDE DEF a
<1>3. /\ tasks' \in [DOMAIN tasks' -> Calling] /\ DOMAIN tasks' = DOMAIN tasks \ {a}
      /\ \A b \in DOMAIN tasks' : tasks'[b] = tasks[b]
  BY <1>1, <1>2 DEF Without
<1>4. told[a] \in {"Scheduled", "Running"} /\ tasks[a].id = a
  BY <1>1, <1>2 DEF Standing
<1>5. /\ told' \in Seq({"Scheduled", "Running", "Over"}) /\ DOMAIN told' = DOMAIN told
      /\ told'[a] = "Over" /\ \A b \in DOMAIN told : b # a => told'[b] = told[b]
  BY <1>1, <1>2, <1>4, ToldOne
<1>6. QueueIds' = QueueIds /\ a \notin QueueIds
  BY <1>1, <1>2 DEF QueueIds
<1>7. ASSUME NEW b \in DOMAIN told' PROVE told'[b] = Standing(b)'
  BY Zenon, <1>1, <1>2, <1>3, <1>5, <1>6 DEF Standing
<1>8. AttemptInv'
  BY <1>1, <1>2, <1>3, <1>5, <1>7 DEF AttemptInv
<1>9. Entry(tasks[a]) \in Pending
  BY <1>1 DEF Pending
<1>10. \A p \in Pending : p.id = a => p = Entry(tasks[a])
  BY <1>4, <1>9, PendingFacts DEF Entry
<1>11. Pending' \subseteq Pending \ {Entry(tasks[a])}
  <2>1. \A k \in DOMAIN queue : Entry(queue[k]) # Entry(tasks[a])
    BY <1>1, <1>2 DEF Entry
  <2>2. \A b \in DOMAIN tasks' : Entry(tasks'[b]) # Entry(tasks[a]) /\ Entry(tasks'[b]) = Entry(tasks[b])
    BY <1>1, <1>2, <1>3 DEF Entry
  <2>3. QED
    BY <1>1, <1>3, <2>1, <2>2 DEF Pending
<1>12. Pending \ {Entry(tasks[a])} \subseteq Pending'
  BY <1>1, <1>3 DEF Pending
<1>13. QED
  BY <1>3, <1>5, <1>8, <1>9, <1>11, <1>12 DEF a

LEMMA InterruptInv ==
  ASSUME AttemptInv, interrupt
  PROVE  AttemptInv' /\ Pending' = {} /\ DOMAIN told' = DOMAIN told /\ tasks' = <<>> /\ queue' = <<>>
<1>1. /\ queue' = <<>> /\ tasks' = <<>>
      /\ told' = [a \in DOMAIN told |-> IF a \in PendingIds THEN Telling(told[a], "Over") ELSE told[a]]
  BY DEF interrupt, EndAll
<1>2. /\ told \in Seq({"Scheduled", "Running", "Over"})
      /\ \A b \in DOMAIN told : told[b] = Standing(b)
  BY DEF AttemptInv
<1>3. PendingIds = QueueIds \cup DOMAIN tasks
  BY PendingFacts
<1>4. told' = [a \in 1 .. Len(told) |-> "Over"] /\ Len(told) \in Nat /\ DOMAIN told = 1 .. Len(told)
  BY <1>1, <1>2, <1>3 DEF Telling, Standing
<1>5. told' \in Seq({"Scheduled", "Running", "Over"}) /\ DOMAIN told' = DOMAIN told
  BY <1>4
<1>6. DOMAIN queue' = {} /\ DOMAIN tasks' = {} /\ queue' \in Seq(Attempts) /\ tasks' \in [{} -> Calling]
  BY <1>1
<1>7. Pending' = {} /\ QueueIds' = {}
  BY <1>6 DEF Pending, QueueIds
<1>8. \A a \in DOMAIN told' : told'[a] = Standing(a)'
  BY <1>4, <1>5, <1>6, <1>7 DEF Standing
<1>9. AttemptInv'
  BY <1>5, <1>6, <1>8 DEF AttemptInv
<1>10. QED
  BY <1>1, <1>5, <1>7, <1>9

-----------------------------------------------------------------------------
(* The messages.                                                           *)
LEMMA MessagesRest ==
  ASSUME MessageInv, UNCHANGED <<told, queue, tasks, wireVars>>
  PROVE  MessageInv'
<1>1. QueueIds' = QueueIds
  BY DEF QueueIds
<1>2. PoolInv' /\ RequestInv' /\ AnswerInv'
  BY <1>1 DEF MessageInv, PoolInv, RequestInv, AnswerInv, wireVars, ToRun, Sent, NoTwice
<1>3. QED
  BY <1>2 DEF MessageInv

(* Requests are kept when calls leave the queue, or new ones enter it.     *)
LEMMA RequestsRest ==
  ASSUME RequestInv, requests' = requests, DOMAIN told \subseteq DOMAIN told',
         QueueIds' \cap DOMAIN told \subseteq QueueIds, submitted' = submitted, saved \subseteq saved'
  PROVE  RequestInv'
<1>1. \A i : ToRun(i)' <=> ToRun(i)
  BY DEF ToRun
<1>2. QED
  BY <1>1 DEF RequestInv

LEMMA RequestAdded ==
  ASSUME RequestInv, NEW r \in Requests, requests' = Append(requests, r),
         r.kind = "run" => /\ r.arg \in (DOMAIN told \ (submitted \cup QueueIds')) \cap saved'
                           /\ \A i \in DOMAIN requests : ToRun(i) => requests[i].arg # r.arg,
         DOMAIN told' = DOMAIN told, QueueIds' \subseteq QueueIds, submitted' = submitted,
         saved \subseteq saved'
  PROVE  RequestInv'
<1> DEFINE n == Len(requests) + 1
<1>1. /\ requests \in Seq(Requests)
      /\ \A i \in DOMAIN requests : ToRun(i) =>
           requests[i].arg \in (DOMAIN told \ (submitted \cup QueueIds)) \cap saved
      /\ \A i, j \in DOMAIN requests : ToRun(i) /\ ToRun(j) /\ requests[i].arg = requests[j].arg => i = j
  BY DEF RequestInv
<1>2. /\ requests' \in Seq(Requests) /\ DOMAIN requests' = DOMAIN requests \cup {n} /\ n \notin DOMAIN requests
      /\ \A i \in DOMAIN requests : requests'[i] = requests[i]
      /\ requests'[n] = r
  BY <1>1, SeqAppend
<1> HIDE DEF n
<1>3. /\ \A i \in DOMAIN requests : ToRun(i) <=> requests[i].kind = "run"
      /\ \A i \in DOMAIN requests' : ToRun(i)' <=> requests'[i].kind = "run"
  BY DEF ToRun
<1>4. ASSUME NEW i \in DOMAIN requests', ToRun(i)'
      PROVE  requests'[i].arg \in (DOMAIN told' \ (submitted' \cup QueueIds')) \cap saved'
  BY <1>1, <1>2, <1>3, <1>4
<1>5. ASSUME NEW i \in DOMAIN requests', NEW j \in DOMAIN requests', ToRun(i)', ToRun(j)',
             requests'[i].arg = requests'[j].arg
      PROVE  i = j
  BY <1>1, <1>2, <1>3, <1>5
<1>6. QED
  BY <1>2, <1>4, <1>5 DEF RequestInv

LEMMA AnswersRest ==
  ASSUME AnswerInv, UNCHANGED <<fetched, answers, submitted, waiting, proving>>, saved \subseteq saved',
         \A a \in submitted : a \in DOMAIN tasks' /\ tasks'[a].started =>
            a \in DOMAIN tasks /\ tasks[a].started
  PROVE  AnswerInv'
<1>1. \A m : Sent(m) => Sent(m)'
  BY DEF Sent
<1>2. QED
  BY <1>1 DEF AnswerInv, NoTwice

LEMMA AttemptMadeMessages ==
  ASSUME AttemptInv, MessageInv, Goals(ses) \subseteq Nat, AttemptMade
  PROVE  MessageInv'
<1>1. DOMAIN told' = DOMAIN told \cup {Len(told) + 1} /\ QueueIds' = QueueIds \cup {Len(told) + 1}
  BY AttemptMadeInv
<1>2. Len(told) + 1 \notin DOMAIN told
  BY DEF AttemptInv
<1>3. UNCHANGED <<tasks, wireVars>>
  BY DEF AttemptMade
<1>4. RequestInv'
  BY <1>1, <1>2, <1>3, RequestsRest DEF MessageInv, wireVars
<1>5. AnswerInv'
  BY <1>3, AnswersRest DEF MessageInv, wireVars
<1>6. PoolInv'
  BY <1>1, <1>2, <1>3 DEF MessageInv, PoolInv, wireVars
<1>7. QED
  BY <1>4, <1>5, <1>6 DEF MessageInv

LEMMA CallMadeMessages ==
  ASSUME AttemptInv, MessageInv, CallMade
  PROVE  MessageInv'
<1> DEFINE h == Head(queue)
<1>1. /\ queue # <<>> /\ queue' = Tail(queue) /\ told' = told
      /\ saved' = saved \cup {h.id} /\ requests' = Append(requests, Request("run", h.id))
      /\ UNCHANGED <<fetched, answers, submitted, waiting, proving>>
  BY DEF CallMade, call_on_file
<1>2. h \in Attempts /\ h.id \in QueueIds /\ QueueIds' = QueueIds \ {h.id}
  BY <1>1, QueueTail
<1>3. /\ DOMAIN tasks' = DOMAIN tasks \cup {h.id} /\ h.id \notin DOMAIN tasks
      /\ \A a \in DOMAIN tasks : tasks'[a] = tasks[a]
      /\ ~tasks'[h.id].started
  BY CallMadeInv
<1>4. h.id \in DOMAIN told
  BY <1>2 DEF QueueIds, AttemptInv
<1>5. h.id \in Nat
  BY <1>2 DEF Attempts
<1> HIDE DEF h
<1>6. submitted \subseteq DOMAIN told \ QueueIds
  BY DEF MessageInv, PoolInv
<1>7. Request("run", h.id) \in Requests /\ Request("run", h.id).arg = h.id
  BY <1>5 DEF Request, Requests
<1>8. \A i \in DOMAIN requests : ToRun(i) => requests[i].arg # h.id
  BY <1>2 DEF MessageInv, RequestInv
<1>9. RequestInv'
  <2>1. /\ RequestInv /\ DOMAIN told' = DOMAIN told /\ QueueIds' \subseteq QueueIds
        /\ submitted' = submitted /\ saved \subseteq saved'
    BY <1>1, <1>2 DEF MessageInv
  <2>2. h.id \in (DOMAIN told \ (submitted \cup QueueIds')) \cap saved'
    BY <1>1, <1>2, <1>4, <1>6
  <2>3. QED
    BY <1>1, <1>7, <1>8, <2>1, <2>2, RequestAdded
<1>10. AnswerInv'
  BY <1>1, <1>3, AnswersRest DEF MessageInv
<1>11. PoolInv'
  BY <1>1, <1>2, <1>3 DEF MessageInv, PoolInv
<1>12. QED
  BY <1>9, <1>10, <1>11 DEF MessageInv

LEMMA CallFailsMessages ==
  ASSUME AttemptInv, MessageInv, CallFails
  PROVE  MessageInv'
<1>1. /\ queue # <<>> /\ queue' = Tail(queue) /\ saved \subseteq saved'
      /\ UNCHANGED <<tasks, fetched, requests, answers, submitted, waiting, proving>>
  BY DEF CallFails
<1>2. QueueIds' \subseteq QueueIds
  BY <1>1, QueueTail
<1>3. DOMAIN told' = DOMAIN told
  BY CallFailsInv
<1>4. RequestInv'
  BY <1>1, <1>2, <1>3, RequestsRest DEF MessageInv
<1>5. AnswerInv'
  BY <1>1, AnswersRest DEF MessageInv
<1>6. PoolInv'
  BY <1>1, <1>2, <1>3 DEF MessageInv, PoolInv
<1>7. QED
  BY <1>4, <1>5, <1>6 DEF MessageInv

LEMMA ReadMessages ==
  ASSUME MessageInv, timeout_handler
  PROVE  MessageInv'
<1>1. PICK n \in 1 .. Len(answers) :
        /\ fetched' = SubSeq(answers, 1, n)
        /\ answers' = SubSeq(answers, n + 1, Len(answers))
        /\ saved' = saved \ {fetched'[i].id : i \in {k \in DOMAIN fetched' : fetched'[k].kind = "F"}}
  BY DEF timeout_handler, get_new_results, handle_answer
<1>2. UNCHANGED <<told, queue, tasks, requests, submitted, waiting, proving>>
  BY DEF timeout_handler, sessionVars, serverVars
<1>3. /\ answers \in Seq(Messages) /\ NoTwice(answers)
      /\ \A i \in DOMAIN answers : answers[i].kind = "F" => answers[i].id \in saved
      /\ \A i \in DOMAIN answers : Sent(answers[i])
  BY DEF MessageInv, AnswerInv
<1>4. /\ fetched' \in Seq(Messages) /\ answers' \in Seq(Messages)
      /\ DOMAIN fetched' \subseteq Nat /\ DOMAIN answers' \subseteq Nat
      /\ \A k \in DOMAIN fetched' : k \in DOMAIN answers /\ k <= n /\ fetched'[k] = answers[k]
      /\ \A k \in DOMAIN answers' : k + n \in DOMAIN answers /\ k > 0 /\ answers'[k] = answers[k + n]
  BY <1>1, <1>3, SeqSplit
<1>5. QueueIds' = QueueIds /\ \A m : Sent(m)' <=> Sent(m)
  BY <1>2 DEF QueueIds, Sent
<1>6. \A i \in DOMAIN fetched', j \in DOMAIN answers' : ~Same(fetched'[i], answers'[j])
  <2> SUFFICES ASSUME NEW i \in DOMAIN fetched', NEW j \in DOMAIN answers',
                      Same(answers[i], answers[j + n])
               PROVE  FALSE
    BY <1>4
  <2>1. i = j + n
    BY <1>3, <1>4 DEF NoTwice
  <2>2. QED
    BY <1>4, <2>1
<1>7. NoTwice(fetched') /\ NoTwice(answers')
  <2>1. ASSUME NEW i \in DOMAIN answers', NEW j \in DOMAIN answers', Same(answers'[i], answers'[j])
        PROVE  i = j
    <3>1. i + n = j + n
      BY <1>3, <1>4, <2>1 DEF NoTwice
    <3>2. QED
      BY <1>4, <3>1
  <2>2. QED
    BY <1>3, <1>4, <2>1 DEF NoTwice
<1>8. \A a \in saved : a \notin saved' => \E i \in DOMAIN fetched' : fetched'[i].kind = "F" /\ fetched'[i].id = a
  BY <1>1
<1>9. \A a \in saved : a \notin saved' => a \in submitted /\ a \notin waiting /\ a \notin proving
  BY <1>3, <1>4, <1>8 DEF Sent
<1>10. \A i \in DOMAIN answers' : answers'[i].kind = "F" => answers'[i].id \in saved'
  <2> SUFFICES ASSUME NEW i \in DOMAIN answers', answers'[i].kind = "F", answers'[i].id \notin saved'
               PROVE  FALSE
    OBVIOUS
  <2>1. answers'[i].id \in saved
    <3>1. answers[i + n].id \in saved
      BY <1>3, <1>4
    <3>2. QED
      BY <1>4, <3>1
  <2>2. PICK k \in DOMAIN fetched' : fetched'[k].kind = "F" /\ fetched'[k].id = answers'[i].id
    BY <1>8, <2>1
  <2>3. QED
    BY <1>6, <2>2 DEF Same
<1>11. AnswerInv'
  <2>1. \A i \in DOMAIN fetched' : Sent(fetched'[i])
    BY <1>3, <1>4
  <2>2. \A i \in DOMAIN answers' : Sent(answers'[i])
    BY <1>3, <1>4
  <2>3. (\A i \in DOMAIN fetched : Sent(fetched[i]))' /\ (\A i \in DOMAIN answers : Sent(answers[i]))'
    BY <1>2, <2>1, <2>2 DEF Sent
  <2>4. NoTwice(fetched)' /\ NoTwice(answers)'
    BY Zenon, <1>7 DEF NoTwice
  <2>5. QED
    BY <1>4, <1>6, <1>10, <2>3, <2>4 DEF AnswerInv
<1>12. RequestInv'
  <2>1. \A i : ToRun(i)' <=> ToRun(i)
    BY <1>2 DEF ToRun
  <2>2. QED
    BY <1>2, <1>5, <1>9, <2>1 DEF MessageInv, RequestInv
<1>13. PoolInv'
  BY <1>2, <1>5, <1>9 DEF MessageInv, PoolInv
<1>14. QED
  BY <1>11, <1>12, <1>13 DEF MessageInv

(* A result is handled: a task has started or is gone.                     *)
LEMMA ResultMessages ==
  ASSUME AttemptInv, MessageInv, NEW i \in DOMAIN fetched, HandleResult(i)
  PROVE  MessageInv'
<1> DEFINE old(k) == Before(i, k)
           b == fetched[i].id
<1>1. /\ fetched' = Cut(fetched, i)
      /\ UNCHANGED <<saved, requests, answers, submitted, waiting, proving>>
      /\ ResultIgnored(i) \/ StartHandled(i) \/ EndHandled(i)
  BY Zenon, ResultKinds DEF Cut
<1>2. /\ fetched \in Seq(Messages) /\ NoTwice(fetched) /\ Sent(fetched[i])
  BY DEF MessageInv, AnswerInv
<1>3. /\ fetched' \in Seq(Messages)
      /\ \A k \in DOMAIN fetched' : old(k) \in DOMAIN fetched \ {i} /\ fetched'[k] = fetched[old(k)]
  BY <1>1, <1>2, SeqRemove
<1>4. /\ DOMAIN told' = DOMAIN told /\ queue' = queue
      /\ \A a \in DOMAIN tasks' : a \in DOMAIN tasks /\ (tasks'[a] = tasks[a] \/ (fetched[i].kind = "S" /\ a = b))
  <2>1. CASE ResultIgnored(i)
    BY <2>1 DEF ResultIgnored, tableVars
  <2>2. CASE StartHandled(i)
    <3>1. ~tasks[b].started /\ fetched[i].kind = "S" /\ queue' = queue
      BY <1>2, <2>2 DEF Sent, StartHandled
    <3>2. QED
      BY <2>2, <3>1, StartHandledInv
  <2>3. CASE EndHandled(i)
    <3>1. queue' = queue
      BY <2>3 DEF EndHandled
    <3>2. QED
      BY Zenon, <2>3, <3>1, EndHandledInv
  <2>4. QED
    BY <1>1, <2>1, <2>2, <2>3
<1>5. QueueIds' = QueueIds
  BY <1>4 DEF QueueIds
<1>6. ASSUME NEW m, Sent(m), ~Same(m, fetched[i]) PROVE Sent(m)'
  BY <1>1, <1>4, <1>6 DEF Sent, Same
<1>7. ASSUME NEW k \in DOMAIN fetched' PROVE Sent(fetched'[k]) /\ ~Same(fetched'[k], fetched[i])
  <2>1. old(k) \in DOMAIN fetched /\ old(k) # i /\ fetched'[k] = fetched[old(k)]
    BY <1>3
  <2> HIDE DEF old
  <2>2. QED
    BY <1>2, <2>1 DEF NoTwice, MessageInv, AnswerInv
<1>8. ASSUME NEW k \in DOMAIN answers PROVE Sent(answers[k]) /\ ~Same(answers[k], fetched[i])
  BY DEF MessageInv, AnswerInv, Same
<1>9. ASSUME NEW k \in DOMAIN fetched', NEW l \in DOMAIN fetched', Same(fetched'[k], fetched'[l]) PROVE k = l
  <2>1. old(k) = old(l)
    <3>1. /\ old(k) \in DOMAIN fetched /\ fetched'[k] = fetched[old(k)]
          /\ old(l) \in DOMAIN fetched /\ fetched'[l] = fetched[old(l)]
      BY <1>3
    <3> HIDE DEF old
    <3>2. QED
      BY <1>2, <1>9, <3>1 DEF NoTwice
  <2>2. k \in Nat /\ l \in Nat /\ i \in Nat
    BY <1>2, <1>3
  <2>3. QED
    BY <2>1, <2>2 DEF Before
<1>10. \A k \in DOMAIN fetched', j \in DOMAIN answers : ~Same(fetched'[k], answers[j])
  <2> HIDE DEF old
  <2>1. QED
    BY Zenon, <1>3 DEF MessageInv, AnswerInv
<1> HIDE DEF old, b
<1>11. AnswerInv'
  <2>1. ASSUME NEW k \in DOMAIN fetched' PROVE Sent(fetched[k])'
    BY <1>1, <1>4, <1>7 DEF Sent, Same, b
  <2>2. ASSUME NEW k \in DOMAIN answers' PROVE Sent(answers[k])'
    BY Zenon, <1>1, <1>4, <1>8 DEF Sent, Same, b
  <2>3. NoTwice(fetched)' /\ NoTwice(answers)'
    BY <1>1, <1>9 DEF NoTwice, MessageInv, AnswerInv
  <2>4. QED
    BY <1>1, <1>3, <1>10, <2>1, <2>2, <2>3 DEF AnswerInv, MessageInv
<1>12. RequestInv'
  BY Zenon, <1>1, <1>4, <1>5, RequestsRest DEF MessageInv
<1>13. PoolInv'
  BY <1>1, <1>2, <1>4, <1>5 DEF MessageInv, PoolInv, Sent, b
<1>14. QED
  BY <1>11, <1>12, <1>13 DEF MessageInv

LEMMA InterruptMessages ==
  ASSUME FiniteSetFacts, AttemptInv, MessageInv, IsFiniteSet(DOMAIN tasks), interrupt
  PROVE  MessageInv'
<1> DEFINE n == Cardinality(DOMAIN tasks)
<1>1. n \in Nat
  BY DEF FiniteSetFacts, FiniteCount
<1>2. PICK calls \in [1 .. n -> DOMAIN tasks] :
        requests' = requests \o [i \in 1 .. Len(calls) |-> Request("interrupt", calls[i])]
  BY Zenon DEF interrupt, EndAll, Orders, interrupt_call
<1> DEFINE new == [i \in 1 .. n |-> Request("interrupt", calls[i])]
<1>3. /\ DOMAIN told' = DOMAIN told /\ tasks' = <<>> /\ queue' = <<>>
      /\ UNCHANGED <<fetched, saved, answers, submitted, waiting, proving>>
  BY InterruptInv DEF interrupt, EndAll, serverVars
<1>4. QueueIds' = {} /\ DOMAIN tasks' = {}
  BY <1>3 DEF QueueIds
<1>5. Len(calls) = n
  BY <1>1
<1>6. DOMAIN tasks \subseteq Nat
  BY DEF AttemptInv
<1>7. new \in [1 .. n -> Requests] /\ \A i \in 1 .. n : new[i].kind = "interrupt"
  BY <1>6 DEF Request, Requests
<1>8. requests' = requests \o new /\ requests \in Seq(Requests)
  BY <1>2, <1>5 DEF MessageInv, RequestInv
<1> HIDE DEF new, n
<1>9. /\ requests' \in Seq(Requests) /\ Len(requests) \in Nat /\ DOMAIN requests' = 1 .. Len(requests) + n
      /\ DOMAIN requests = 1 .. Len(requests)
      /\ \A k \in DOMAIN requests : requests'[k] = requests[k]
      /\ \A k \in 1 .. n : requests'[Len(requests) + k] = new[k]
  <2>1. requests \in Seq(Requests) /\ new \in Seq(Requests) /\ Len(new) = n
    BY <1>1, <1>7, <1>8
  <2>2. /\ requests' \in Seq(Requests) /\ Len(requests') = Len(requests) + Len(new)
        /\ \A k \in 1 .. Len(requests) : requests'[k] = requests[k]
        /\ \A k \in 1 .. Len(new) : requests'[Len(requests) + k] = new[k]
    BY <1>8, <2>1, SeqConcat
  <2>3. DOMAIN requests = 1 .. Len(requests) /\ Len(requests) \in Nat /\ DOMAIN requests' = 1 .. Len(requests')
    BY ONLY <2>1, <2>2
  <2>4. QED
    BY ONLY <2>1, <2>2, <2>3
<1>10. ASSUME NEW k \in DOMAIN requests', k \notin DOMAIN requests PROVE requests'[k].kind # "run"
  <2>1. k - Len(requests) \in 1 .. n /\ Len(requests) + (k - Len(requests)) = k
    BY <1>1, <1>9, <1>10
  <2>2. requests'[k] = new[k - Len(requests)]
    BY <1>9, <2>1
  <2>3. QED
    BY <1>7, <2>1, <2>2
<1>11. \A k : ToRun(k)' <=> ToRun(k)
  <2>1. \A k \in DOMAIN requests : k \in DOMAIN requests'
    BY <1>1, <1>9
  <2>2. QED
    BY <1>9, <1>10, <2>1 DEF ToRun
<1>12. \A k : ToRun(k) => k \in DOMAIN requests
  BY DEF ToRun
<1>13. RequestInv'
  BY <1>3, <1>4, <1>9, <1>11, <1>12 DEF RequestInv, MessageInv
<1>14. AnswerInv'
  BY <1>3, <1>4, AnswersRest DEF MessageInv
<1>15. PoolInv'
  BY <1>3, <1>4 DEF PoolInv, MessageInv
<1>16. QED
  BY <1>13, <1>14, <1>15 DEF MessageInv

LEMMA LimitMessages ==
  ASSUME MessageInv, LimitSet
  PROVE  MessageInv'
<1>1. PICK n \in MaxTasks : requests' = requests \/ requests' = Append(requests, Request("parallel", n))
  BY DEF LimitSet
<1>2. UNCHANGED <<told, queue, tasks, fetched, saved, answers, submitted, waiting, proving>>
  BY DEF LimitSet, tableVars
<1>3. QueueIds' = QueueIds
  BY <1>2 DEF QueueIds
<1>4. Request("parallel", n) \in Requests /\ Request("parallel", n).kind # "run"
  BY DEF Request, Requests
<1>5. RequestInv /\ QueueIds' \subseteq QueueIds
  BY <1>3 DEF MessageInv
<1>6. RequestInv'
  <2>1. CASE requests' = requests
    BY <1>2, <1>3, <1>5, <2>1, RequestsRest
  <2>2. CASE requests' = Append(requests, Request("parallel", n))
    BY <1>2, <1>3, <1>4, <1>5, <2>2, RequestAdded
  <2>3. QED
    BY <1>1, <2>1, <2>2
<1>7. AnswerInv'
  BY <1>2, AnswersRest DEF MessageInv
<1>8. PoolInv'
  BY <1>2, <1>3 DEF MessageInv, PoolInv
<1>9. QED
  BY <1>6, <1>7, <1>8 DEF MessageInv

(* The server takes a request, or adds an answer.                          *)
LEMMA RequestTaken ==
  ASSUME RequestInv, requests # <<>>, requests' = Tail(requests), UNCHANGED <<told, queue, saved>>,
         \A j \in submitted' : j \in submitted \/ (Head(requests).kind = "run" /\ j = Head(requests).arg)
  PROVE  /\ RequestInv'
         /\ Head(requests).kind = "run" =>
              Head(requests).arg \in (DOMAIN told \ (submitted \cup QueueIds)) \cap saved
<1> DEFINE r == Head(requests)
<1>1. /\ requests \in Seq(Requests)
      /\ \A i \in DOMAIN requests : ToRun(i) =>
           requests[i].arg \in (DOMAIN told \ (submitted \cup QueueIds)) \cap saved
      /\ \A i, j \in DOMAIN requests : ToRun(i) /\ ToRun(j) /\ requests[i].arg = requests[j].arg => i = j
  BY DEF RequestInv
<1>2. /\ requests' \in Seq(Requests) /\ DOMAIN requests' \subseteq Nat \ {0}
      /\ 1 \in DOMAIN requests /\ r = requests[1]
      /\ \A i \in DOMAIN requests' : requests'[i] = requests[i + 1] /\ i + 1 \in DOMAIN requests
  BY <1>1, SeqTail
<1> HIDE DEF r
<1>3. QueueIds' = QueueIds /\ DOMAIN told' = DOMAIN told
  BY DEF QueueIds
<1>4. /\ \A i \in DOMAIN requests : ToRun(i) <=> requests[i].kind = "run"
      /\ \A i \in DOMAIN requests' : ToRun(i)' <=> requests'[i].kind = "run"
  BY DEF ToRun
<1>5. \A i \in DOMAIN requests' : ToRun(i)' <=> ToRun(i + 1)
  BY <1>2, <1>4
<1>6. ASSUME NEW i \in DOMAIN requests', ToRun(i)'
      PROVE  requests'[i].arg \in (DOMAIN told' \ (submitted' \cup QueueIds')) \cap saved'
  <2>1. requests'[i] = requests[i + 1] /\ i + 1 \in DOMAIN requests /\ ToRun(i + 1) /\ i + 1 # 1
    BY <1>2, <1>5, <1>6
  <2>2. r.kind = "run" => requests[i + 1].arg # r.arg
    BY <1>1, <1>2, <1>4, <2>1
  <2>3. QED
    BY <1>1, <1>3, <2>1, <2>2 DEF r
<1>7. ASSUME NEW i \in DOMAIN requests', NEW j \in DOMAIN requests', ToRun(i)', ToRun(j)',
             requests'[i].arg = requests'[j].arg
      PROVE  i = j
  <2>1. i + 1 = j + 1
    BY <1>1, <1>2, <1>5, <1>7
  <2>2. QED
    BY <1>2, <2>1
<1>8. RequestInv'
  BY Zenon, <1>2, <1>6, <1>7 DEF RequestInv
<1>9. QED
  BY <1>1, <1>2, <1>4, <1>8 DEF r

LEMMA AnswersAsBefore ==
  ASSUME AnswerInv, UNCHANGED <<fetched, answers, saved>>,
         \A i \in DOMAIN fetched : Sent(fetched[i])',
         \A i \in DOMAIN answers : Sent(answers[i])'
  PROVE  AnswerInv'
  BY Zenon DEF AnswerInv, NoTwice

LEMMA AnswerAdded ==
  ASSUME AnswerInv, NEW m \in Messages, answers' = Append(answers, m), UNCHANGED <<fetched, saved>>,
         \A i \in DOMAIN fetched : Sent(fetched[i])' /\ ~Same(fetched[i], m),
         \A i \in DOMAIN answers : Sent(answers[i]) /\ ~Same(answers[i], m),
         \A i \in DOMAIN answers' : Sent(answers[i])',
         m.kind = "F" => m.id \in saved
  PROVE  AnswerInv'
<1> DEFINE n == Len(answers) + 1
<1>1. /\ answers \in Seq(Messages) /\ fetched \in Seq(Messages) /\ NoTwice(answers) /\ NoTwice(fetched)
      /\ \A i \in DOMAIN answers : answers[i].kind = "F" => answers[i].id \in saved
      /\ \A i \in DOMAIN fetched, j \in DOMAIN answers : ~Same(fetched[i], answers[j])
  BY Zenon DEF AnswerInv
<1>2. /\ answers' \in Seq(Messages) /\ DOMAIN answers' = DOMAIN answers \cup {n} /\ n \notin DOMAIN answers
      /\ \A i \in DOMAIN answers : answers'[i] = answers[i]
      /\ answers'[n] = m
  BY <1>1, SeqAppend
<1> HIDE DEF n
<1>3. NoTwice(answers)'
  <2>1. \A i, j \in DOMAIN answers' : Same(answers'[i], answers'[j]) => i = j
    BY <1>1, <1>2 DEF NoTwice, Same
  <2>2. QED
    BY Zenon, <2>1 DEF NoTwice
<1>4. \A i \in DOMAIN fetched, j \in DOMAIN answers' : ~Same(fetched[i], answers'[j])
  BY Zenon, <1>1, <1>2
<1>5. \A i \in DOMAIN answers' : answers'[i].kind = "F" => answers'[i].id \in saved
  BY Zenon, <1>1, <1>2
<1>6. NoTwice(fetched)'
  BY <1>1 DEF NoTwice
<1>7. QED
  BY Zenon, <1>1, <1>2, <1>3, <1>4, <1>5, <1>6 DEF AnswerInv

(* A call that has no answer yet waits, or starts.                         *)
LEMMA CallPlaced ==
  ASSUME PoolInv, AnswerInv, NEW j, j \notin submitted \ waiting,
         j \in DOMAIN told \ QueueIds, j \in saved, j \in Nat, submitted' = submitted \cup {j},
         UNCHANGED <<told, queue, tasks, fetched, saved>>,
         \/ waiting' = waiting \cup {j} /\ UNCHANGED <<proving, answers>>
         \/ /\ waiting' = waiting \ {j} /\ proving' = proving \cup {j}
            /\ answers' = Append(answers, Answer("S", j, FALSE))
  PROVE  PoolInv' /\ AnswerInv'
<1>1. /\ waiting \subseteq submitted /\ proving \subseteq submitted /\ waiting \cap proving = {}
      /\ submitted \subseteq DOMAIN told \ QueueIds
      /\ \A a \in DOMAIN tasks : tasks[a].started => a \in submitted \ waiting
  BY DEF PoolInv
<1>2. QueueIds' = QueueIds
  BY DEF QueueIds
<1>3. PoolInv'
  BY Zenon, <1>1, <1>2 DEF PoolInv
<1>4. /\ \A i \in DOMAIN fetched : Sent(fetched[i])
      /\ \A i \in DOMAIN answers : Sent(answers[i])
  BY DEF AnswerInv
<1>5. \A i \in DOMAIN fetched : fetched[i].id # j /\ Sent(fetched[i])'
  BY Zenon, <1>1, <1>4 DEF Sent
<1>6. CASE waiting' = waiting \cup {j} /\ UNCHANGED <<proving, answers>>
  <2>1. \A i \in DOMAIN answers : Sent(answers[i])'
    BY <1>4, <1>6 DEF Sent
  <2>2. QED
    BY Zenon, <1>3, <1>5, <1>6, <2>1, AnswersAsBefore
<1>7. CASE /\ waiting' = waiting \ {j} /\ proving' = proving \cup {j}
           /\ answers' = Append(answers, Answer("S", j, FALSE))
  <2> DEFINE m == Answer("S", j, FALSE)
             n == Len(answers) + 1
  <2>1. m \in Messages /\ m.kind = "S" /\ m.id = j
    BY DEF Answer, Messages
  <2>2. answers' = Append(answers, m)
    BY <1>7
  <2> HIDE DEF m
  <2>3. \A i \in DOMAIN answers : answers[i].id # j
    BY <1>1, <1>4 DEF Sent
  <2>4. answers \in Seq(Messages)
    BY DEF AnswerInv
  <2>5. /\ DOMAIN answers' = DOMAIN answers \cup {n} /\ answers'[n] = m
        /\ \A i \in DOMAIN answers : answers'[i] = answers[i]
    BY <2>1, <2>2, <2>4, SeqAppend
  <2> HIDE DEF n
  <2>6. ASSUME NEW i \in DOMAIN answers' PROVE Sent(answers[i])'
    <3>1. CASE i = n
      BY Zenon, <1>1, <1>7, <2>1, <2>5, <3>1 DEF Sent
    <3>2. CASE i \in DOMAIN answers
      BY Zenon, <1>4, <1>7, <2>3, <2>5, <3>2 DEF Sent
    <3>3. QED
      BY Zenon, <2>5, <3>1, <3>2
  <2>7. /\ \A i \in DOMAIN fetched : ~Same(fetched[i], m)
        /\ \A i \in DOMAIN answers : ~Same(answers[i], m)
    BY Zenon, <1>5, <2>1, <2>3 DEF Same
  <2>8. AnswerInv'
    BY <1>4, <1>5, <2>1, <2>2, <2>6, <2>7, AnswerAdded
  <2>9. QED
    BY <1>3, <2>8
<1>8. QED
  BY Zenon, <1>6, <1>7

LEMMA ServerReadsMessages ==
  ASSUME AttemptInv, MessageInv, ServerReads
  PROVE  MessageInv'
<1> DEFINE r == Head(requests)
<1>1. requests # <<>> /\ requests' = Tail(requests) /\ UNCHANGED <<told, queue, tasks, fetched, saved>>
  BY Zenon DEF ServerReads, sessionVars, clientVars
<1>2. PoolInv /\ RequestInv /\ AnswerInv /\ QueueIds' = QueueIds
  BY <1>1 DEF MessageInv, QueueIds
<1>3. CASE r.kind = "run" /\ Pool!Submit(r.arg) /\ StartTold(r.arg)
  <2> DEFINE j == r.arg
  <2>1. j \notin submitted /\ submitted' = submitted \cup {j}
    BY <1>3 DEF Pool!Submit
  <2>2. RequestInv' /\ j \in (DOMAIN told \ (submitted \cup QueueIds)) \cap saved
    BY <1>1, <1>2, <1>3, <2>1, RequestTaken
  <2>3. j \in Nat
    BY <2>2 DEF AttemptInv
  <2>4. \/ waiting' = waiting \cup {j} /\ UNCHANGED proving
        \/ proving' = proving \cup {j} /\ UNCHANGED waiting
    BY <1>3 DEF Pool!Submit
  <2>5. answers' = IF j \in proving' THEN Append(answers, Answer("S", j, FALSE)) ELSE answers
    BY <1>3 DEF StartTold
  <2> HIDE DEF j
  <2>6. j \notin waiting /\ j \notin proving
    BY <1>2, <2>1 DEF PoolInv
  <2>7. \/ waiting' = waiting \cup {j} /\ UNCHANGED <<proving, answers>>
        \/ /\ waiting' = waiting \ {j} /\ proving' = proving \cup {j}
           /\ answers' = Append(answers, Answer("S", j, FALSE))
    BY Zenon, <2>4, <2>5, <2>6
  <2>8. PoolInv' /\ AnswerInv'
    BY Zenon, <1>1, <1>2, <2>1, <2>2, <2>3, <2>7, CallPlaced
  <2>9. QED
    BY <2>2, <2>8 DEF MessageInv
<1>4. CASE submitted' = submitted /\ waiting' \subseteq waiting /\ UNCHANGED <<proving, answers>>
  <2>1. RequestInv'
    BY <1>1, <1>2, <1>4, RequestTaken
  <2>2. \A m : Sent(m) => Sent(m)'
    BY <1>1, <1>4 DEF Sent
  <2>3. AnswerInv'
    BY Zenon, <1>1, <1>2, <1>4, <2>2 DEF AnswerInv, NoTwice
  <2>4. PoolInv'
    BY <1>1, <1>2, <1>4 DEF PoolInv
  <2>5. QED
    BY <2>1, <2>3, <2>4 DEF MessageInv
<1>5. CASE r.kind = "interrupt" /\ Pool!GiveUp({r.arg}) /\ UNCHANGED answers
  BY <1>4, <1>5 DEF Pool!GiveUp
<1>6. CASE r.kind = "parallel" /\ Pool!SetLimit(r.arg) /\ UNCHANGED answers
  BY <1>4, <1>6 DEF Pool!SetLimit
<1>7. CASE UNCHANGED <<submitted, waiting, proving, limit, answers>>
  BY <1>4, <1>7
<1>8. QED
  BY Zenon, <1>3, <1>5, <1>6, <1>7 DEF ServerReads

LEMMA ServerStartsMessages ==
  ASSUME AttemptInv, MessageInv, ServerStarts
  PROVE  MessageInv'
<1>1. UNCHANGED <<told, queue, tasks, fetched, saved, requests>>
  BY DEF ServerStarts, sessionVars, clientVars
<1>2. PICK j \in waiting : Pool!Start(j) /\ StartTold(j)
  BY DEF ServerStarts
<1>3. PoolInv /\ RequestInv /\ AnswerInv /\ QueueIds' = QueueIds
  BY <1>1 DEF MessageInv, QueueIds
<1>4. j \in submitted /\ j \in DOMAIN told \ QueueIds /\ j \in saved
  BY <1>3 DEF PoolInv
<1>5. j \in Nat
  BY <1>4 DEF AttemptInv
<1>6. /\ submitted' = submitted /\ waiting' = waiting \ {j} /\ proving' = proving \cup {j}
      /\ answers' = Append(answers, Answer("S", j, FALSE))
  BY Zenon, <1>2 DEF Pool!Start, StartTold
<1>7. submitted' = submitted \cup {j}
  BY <1>4, <1>6
<1>8. PoolInv' /\ AnswerInv'
  BY Zenon, <1>1, <1>3, <1>4, <1>5, <1>6, <1>7, CallPlaced
<1>9. RequestInv'
  BY <1>1, <1>3, <1>6, RequestsRest
<1>10. QED
  BY <1>8, <1>9 DEF MessageInv

LEMMA ProverEndsMessages ==
  ASSUME AttemptInv, MessageInv, ProverEnds
  PROVE  MessageInv'
<1>1. UNCHANGED <<told, queue, tasks, fetched, saved, requests>>
  BY DEF ProverEnds, sessionVars, clientVars
<1>2. PICK j \in proving, valid \in BOOLEAN :
        /\ proving' = proving \ {j} /\ submitted' = submitted /\ waiting' = waiting
        /\ answers' = Append(answers, Answer("F", j, valid))
  BY Zenon DEF ProverEnds, Pool!Finish
<1>3. PoolInv /\ RequestInv /\ AnswerInv /\ QueueIds' = QueueIds
  BY <1>1 DEF MessageInv, QueueIds
<1>4. j \in submitted \ waiting /\ j \in saved /\ j \in DOMAIN told
  BY <1>3 DEF PoolInv
<1> DEFINE m == Answer("F", j, valid)
           n == Len(answers) + 1
<1>5. m \in Messages /\ m.kind = "F" /\ m.id = j
  <2>1. j \in Nat
    BY <1>4 DEF AttemptInv
  <2>2. QED
    BY <2>1 DEF Answer, Messages
<1>6. answers' = Append(answers, m) /\ answers \in Seq(Messages)
  BY <1>2, <1>3 DEF AnswerInv
<1> HIDE DEF m
<1>7. /\ DOMAIN answers' = DOMAIN answers \cup {n} /\ answers'[n] = m
      /\ \A i \in DOMAIN answers : answers'[i] = answers[i]
  BY <1>5, <1>6, SeqAppend
<1> HIDE DEF n
<1>8. /\ \A i \in DOMAIN fetched : Sent(fetched[i])
      /\ \A i \in DOMAIN answers : Sent(answers[i])
  BY Zenon, <1>3 DEF AnswerInv
<1>9. /\ \A i \in DOMAIN fetched : Sent(fetched[i])' /\ ~Same(fetched[i], m)
      /\ \A i \in DOMAIN answers : ~Same(answers[i], m)
  BY <1>1, <1>2, <1>5, <1>8 DEF Sent, Same
<1>10. ASSUME NEW i \in DOMAIN answers' PROVE Sent(answers[i])'
  <2>1. CASE i = n
    BY Zenon, <1>1, <1>2, <1>4, <1>5, <1>7, <2>1 DEF Sent
  <2>2. CASE i \in DOMAIN answers
    BY Zenon, <1>1, <1>2, <1>7, <1>8, <2>2 DEF Sent
  <2>3. QED
    BY Zenon, <1>7, <2>1, <2>2
<1>11. AnswerInv'
  BY <1>1, <1>3, <1>4, <1>5, <1>6, <1>8, <1>9, <1>10, AnswerAdded
<1>12. RequestInv'
  BY Zenon, <1>1, <1>2, <1>3, RequestsRest
<1>13. PoolInv'
  BY <1>1, <1>2, <1>3 DEF PoolInv
<1>14. QED
  BY <1>11, <1>12, <1>13 DEF MessageInv

LEMMA ServerDiesMessages ==
  ASSUME MessageInv, ServerDies
  PROVE  MessageInv'
<1>1. UNCHANGED <<told, queue, tasks, fetched, saved, answers, submitted>>
  BY DEF ServerDies, sessionVars, clientVars
<1>2. waiting' = {} /\ proving' = {} /\ requests' = <<>>
  BY DEF ServerDies
<1>3. QueueIds' = QueueIds /\ \A m : Sent(m) => Sent(m)'
  BY <1>1, <1>2 DEF QueueIds, Sent
<1>4. RequestInv'
  BY <1>2 DEF RequestInv
<1>5. AnswerInv'
  BY Zenon, <1>1, <1>3 DEF MessageInv, AnswerInv, NoTwice
<1>6. PoolInv'
  BY Zenon, <1>1, <1>2, <1>3 DEF MessageInv, PoolInv
<1>7. QED
  BY <1>4, <1>5, <1>6 DEF MessageInv

-----------------------------------------------------------------------------
(* The counters.                                                           *)
On(P, g) == {p \in P : p.goal = g}

LEMMA OnAdd ==
  ASSUME FiniteSetFacts, NEW P, IsFiniteSet(P), NEW e, e \notin P
  PROVE  /\ IsFiniteSet(P \cup {e})
         /\ \A g : Cardinality(On(P, g)) \in Nat
         /\ \A g : g # e.goal => Cardinality(On(P \cup {e}, g)) = Cardinality(On(P, g))
         /\ Cardinality(On(P \cup {e}, e.goal)) = Cardinality(On(P, e.goal)) + 1
<1>1. IsFiniteSet(P \cup {e})
  BY DEF FiniteSetFacts, FiniteAdd
<1>2. \A g : IsFiniteSet(On(P, g)) /\ Cardinality(On(P, g)) \in Nat
  BY DEF FiniteSetFacts, FiniteSubset, FiniteCount, On
<1>3. \A g : g # e.goal => On(P \cup {e}, g) = On(P, g)
  BY DEF On
<1>4. On(P \cup {e}, e.goal) = On(P, e.goal) \cup {e} /\ e \notin On(P, e.goal)
  BY DEF On
<1>5. Cardinality(On(P, e.goal) \cup {e}) = Cardinality(On(P, e.goal)) + 1
  BY Zenon, <1>2, <1>4 DEF FiniteSetFacts, FiniteAdd
<1>6. QED
  BY <1>1, <1>2, <1>3, <1>4, <1>5

LEMMA OnRemove ==
  ASSUME FiniteSetFacts, NEW P, IsFiniteSet(P), NEW e \in P
  PROVE  /\ IsFiniteSet(P \ {e})
         /\ \A g : Cardinality(On(P \ {e}, g)) \in Nat
         /\ \A g : g # e.goal => Cardinality(On(P \ {e}, g)) = Cardinality(On(P, g))
         /\ Cardinality(On(P \ {e}, e.goal)) + 1 = Cardinality(On(P, e.goal))
<1> DEFINE Q == P \ {e}
<1>1. IsFiniteSet(Q) /\ e \notin Q
  BY DEF FiniteSetFacts, FiniteSubset
<1>2. Q \cup {e} = P
  OBVIOUS
<1> HIDE DEF Q
<1>3. QED
  BY <1>1, <1>2, OnAdd DEF Q

(* The table of running attempts.                                          *)
LEMMA BagFields == ASSUME NEW b PROVE b \in GoalBags <=> DOMAIN b \subseteq Nat /\ b \in [DOMAIN b -> Nat \ {0}]
<1>1. ASSUME b \in GoalBags PROVE DOMAIN b \subseteq Nat /\ b \in [DOMAIN b -> Nat \ {0}]
  <2>1. PICK D \in SUBSET Nat : b \in [D -> Nat \ {0}]
    BY <1>1 DEF GoalBags
  <2>2. QED
    BY <2>1
<1>2. ASSUME DOMAIN b \subseteq Nat, b \in [DOMAIN b -> Nat \ {0}] PROVE b \in GoalBags
  BY <1>2 DEF GoalBags
<1>3. QED
  BY <1>1, <1>2

LEMMA BagAdded ==
  ASSUME NEW b \in GoalBags, NEW g \in Nat
  PROVE  /\ Added(b, g) \in GoalBags /\ DOMAIN Added(b, g) = DOMAIN b \cup {g}
         /\ Copies(b, g) \in Nat /\ Copies(Added(b, g), g) = Copies(b, g) + 1
         /\ \A h : h # g => Copies(Added(b, g), h) = Copies(b, h)
<1> DEFINE c == Added(b, g)
<1>1. DOMAIN b \subseteq Nat /\ b \in [DOMAIN b -> Nat \ {0}]
  BY BagFields
<1>2. Copies(b, g) \in Nat
  BY <1>1 DEF Copies
<1>3. /\ DOMAIN c = DOMAIN b \cup {g} /\ c[g] = Copies(b, g) + 1
      /\ \A h \in DOMAIN b : h # g => c[h] = b[h]
      /\ c = [h \in DOMAIN c |-> c[h]]
  BY DEF Added, Extend
<1> HIDE DEF c
<1>4. c \in [DOMAIN c -> Nat \ {0}] /\ DOMAIN c \subseteq Nat
  BY <1>1, <1>2, <1>3
<1>5. c \in GoalBags
  BY <1>4, BagFields
<1>6. Copies(c, g) = Copies(b, g) + 1 /\ \A h : h # g => Copies(c, h) = Copies(b, h)
  BY <1>3 DEF Copies
<1>7. QED
  BY <1>2, <1>3, <1>5, <1>6 DEF c

LEMMA BagTakenOut ==
  ASSUME NEW b \in GoalBags, NEW g \in DOMAIN b
  PROVE  /\ TakenOut(b, g) \in GoalBags /\ DOMAIN TakenOut(b, g) \subseteq DOMAIN b
         /\ Copies(b, g) \in Nat /\ Copies(TakenOut(b, g), g) = Copies(b, g) - 1
         /\ \A h : h # g => Copies(TakenOut(b, g), h) = Copies(b, h)
<1> DEFINE c == TakenOut(b, g)
<1>1. DOMAIN b \subseteq Nat /\ b \in [DOMAIN b -> Nat \ {0}]
  BY BagFields
<1>2. Copies(b, g) = b[g] /\ b[g] \in Nat \ {0}
  BY Zenon, <1>1 DEF Copies
<1>3. CASE b[g] = 1
  <2>1. /\ DOMAIN c = DOMAIN b \ {g} /\ \A h \in DOMAIN c : c[h] = b[h]
        /\ c = [h \in DOMAIN c |-> c[h]]
    BY <1>2, <1>3 DEF TakenOut, Without
  <2> HIDE DEF c
  <2>2. c \in [DOMAIN c -> Nat \ {0}] /\ DOMAIN c \subseteq Nat
    BY <1>1, <2>1
  <2>3. c \in GoalBags
    BY <2>2, BagFields
  <2>4. Copies(c, g) = 0 /\ \A h : h # g => Copies(c, h) = Copies(b, h)
    BY <2>1 DEF Copies
  <2>5. QED
    BY <1>2, <1>3, <2>1, <2>3, <2>4 DEF c
<1>4. CASE b[g] # 1
  <2>1. /\ DOMAIN c = DOMAIN b /\ c[g] = b[g] - 1
        /\ \A h \in DOMAIN b : h # g => c[h] = b[h]
        /\ c = [h \in DOMAIN c |-> c[h]]
    <3>1. ~(Copies(b, g) <= 1) /\ DOMAIN b \cup {g} = DOMAIN b
      BY <1>2, <1>4
    <3>2. c = [x \in DOMAIN b |-> IF x \in {g} THEN b[g] - 1 ELSE b[x]]
      BY <3>1, Zenon DEF Extend, TakenOut
    <3> HIDE DEF c
    <3>3. QED
      BY <3>2
  <2> HIDE DEF c
  <2>2. c \in [DOMAIN c -> Nat \ {0}] /\ DOMAIN c \subseteq Nat
    BY <1>1, <1>2, <1>4, <2>1
  <2>3. c \in GoalBags
    BY <2>2, BagFields
  <2>4. Copies(c, g) = b[g] - 1 /\ \A h : h # g => Copies(c, h) = Copies(b, h)
    BY <2>1 DEF Copies
  <2>5. QED
    BY <1>2, <2>1, <2>3, <2>4 DEF c
<1>5. QED
  BY <1>3, <1>4

LEMMA AttemptMadePending ==
  ASSUME AttemptInv, AttemptMade
  PROVE  \E g \in Goals(ses) :
           LET e == [id |-> Len(told) + 1, goal |-> g]
           IN  Pending' = Pending \cup {e} /\ e \notin Pending /\ running' = Added(running, g)
               /\ ses' = update_goal_node(graft_proof_attempt(ses, g), g)
<1>1. PICK g \in Goals(ses), pc \in PCs : schedule_proof_attempt(g, pc)
  BY DEF AttemptMade
<1> DEFINE n == Len(told) + 1
           m == Len(queue) + 1
           t == [id |-> n, goal |-> g, pc |-> pc]
           e == [id |-> n, goal |-> g]
<1>2. /\ queue' = Append(queue, t) /\ tasks' = tasks
      /\ ses' = update_goal_node(graft_proof_attempt(ses, g), g) /\ running' = Added(running, g)
  BY <1>1 DEF schedule_proof_attempt, AttemptMade
<1>3. queue \in Seq(Attempts) /\ told \in Seq({"Scheduled", "Running", "Over"}) /\ n \notin DOMAIN told
  BY DEF AttemptInv
<1>a. \A S : \A x : queue \in Seq(S) /\ queue' = Append(queue, x) /\ x \in S =>
        /\ DOMAIN queue' = DOMAIN queue \cup {m} /\ queue'[m] = x
        /\ \A i \in DOMAIN queue : queue'[i] = queue[i]
  BY SeqAppend
<1>b. queue \in Seq(Attempts \cup {t}) /\ t \in Attempts \cup {t}
  BY ONLY <1>3
<1>5. Entry(t) = e /\ e.id = n
  BY DEF Entry
<1> HIDE DEF n, m, t, e
<1>4. /\ DOMAIN queue' = DOMAIN queue \cup {m} /\ queue'[m] = t
      /\ \A i \in DOMAIN queue : queue'[i] = queue[i]
  BY ONLY <1>2, <1>a, <1>b, Zenon
<1>6. n \notin PendingIds
  <2>1. PendingIds \subseteq DOMAIN told
    BY PendingFacts DEF AttemptInv, QueueIds
  <2>2. QED
    BY Zenon, <1>3, <2>1
<1>7. e \notin Pending
  BY ONLY <1>5, <1>6 DEF PendingIds
<1>8. {Entry(queue'[i]) : i \in DOMAIN queue'} = {Entry(queue[i]) : i \in DOMAIN queue} \cup {e}
  BY Zenon, <1>4, <1>5
<1>9. Pending' = Pending \cup {e}
  BY Zenon, <1>2, <1>8 DEF Pending
<1>10. QED
  BY <1>2, <1>7, <1>9 DEF e, n

LEMMA PendingGoals ==
  ASSUME FiniteSetFacts, AttemptInv, CountInv, NEW p \in Pending
  PROVE  p.goal \in DOMAIN running /\ p.goal \in Nat /\ Copies(running, p.goal) = Cardinality(On(Pending, p.goal))
<1>1. p.goal \in Nat
  BY PendingFacts
<1>2. \A g : PendingOn(g) = On(Pending, g)
  BY DEF PendingOn, On
<1>3. Copies(running, p.goal) = Cardinality(On(Pending, p.goal)) /\ IsFiniteSet(Pending)
  BY <1>1, <1>2 DEF CountInv
<1>4. /\ Cardinality(On(Pending \ {p}, p.goal)) \in Nat
      /\ Cardinality(On(Pending \ {p}, p.goal)) + 1 = Cardinality(On(Pending, p.goal))
  BY <1>3, OnRemove
<1>5. Copies(running, p.goal) # 0
  BY <1>3, <1>4
<1>6. QED
  BY <1>1, <1>3, <1>5 DEF Copies

(* One attempt is added to, or taken out of, the pending ones.             *)
LEMMA CountAdded ==
  ASSUME FiniteSetFacts, CountInv, NEW e \in [id : Nat, goal : Nat], e \notin Pending,
         Pending' = Pending \cup {e}, running' = Added(running, e.goal)
  PROVE  /\ running' \in GoalBags /\ IsFiniteSet(Pending')
         /\ \A g \in Nat : Copies(running', g) = Cardinality(PendingOn(g)')
<1>1. /\ running \in GoalBags /\ IsFiniteSet(Pending)
      /\ \A g \in Nat : Copies(running, g) = Cardinality(On(Pending, g))
  BY DEF CountInv, On, PendingOn
<1>2. /\ running' \in GoalBags /\ Copies(running', e.goal) = Copies(running, e.goal) + 1
      /\ \A h : h # e.goal => Copies(running', h) = Copies(running, h)
  BY Zenon, <1>1, BagAdded
<1>3. /\ IsFiniteSet(Pending')
      /\ \A g : g # e.goal => Cardinality(On(Pending', g)) = Cardinality(On(Pending, g))
      /\ Cardinality(On(Pending', e.goal)) = Cardinality(On(Pending, e.goal)) + 1
  BY Zenon, <1>1, OnAdd
<1>4. \A g : PendingOn(g)' = On(Pending', g)
  BY DEF PendingOn, On
<1>5. QED
  BY <1>1, <1>2, <1>3, <1>4

LEMMA CountTakenOut ==
  ASSUME FiniteSetFacts, AttemptInv, CountInv, NEW e \in Pending, Pending' = Pending \ {e},
         running' = TakenOut(running, e.goal)
  PROVE  /\ running' \in GoalBags /\ IsFiniteSet(Pending') /\ DOMAIN running' \subseteq DOMAIN running
         /\ \A g \in Nat : Copies(running', g) = Cardinality(PendingOn(g)')
<1>1. /\ running \in GoalBags /\ IsFiniteSet(Pending)
      /\ \A g \in Nat : Copies(running, g) = Cardinality(On(Pending, g))
  BY DEF CountInv, On, PendingOn
<1>2. e.goal \in DOMAIN running /\ e.goal \in Nat
  BY PendingGoals
<1>3. /\ running' \in GoalBags /\ Copies(running, e.goal) \in Nat
      /\ Copies(running', e.goal) = Copies(running, e.goal) - 1
      /\ DOMAIN running' \subseteq DOMAIN running
      /\ \A h : h # e.goal => Copies(running', h) = Copies(running, h)
  BY <1>1, <1>2, BagTakenOut
<1>4. /\ IsFiniteSet(Pending') /\ Cardinality(On(Pending', e.goal)) \in Nat
      /\ \A g : g # e.goal => Cardinality(On(Pending', g)) = Cardinality(On(Pending, g))
      /\ Cardinality(On(Pending', e.goal)) + 1 = Cardinality(On(Pending, e.goal))
  BY <1>1, OnRemove
<1>5. \A g : PendingOn(g)' = On(Pending', g)
  BY DEF PendingOn, On
<1>6. ASSUME NEW g \in Nat PROVE Copies(running', g) = Cardinality(On(Pending', g))
  <2>1. CASE g = e.goal
    <3>1. Copies(running, e.goal) = Cardinality(On(Pending, e.goal))
      BY <1>1, <1>2
    <3>2. QED
      BY <1>3, <1>4, <2>1, <3>1
  <2>2. CASE g # e.goal
    BY <1>1, <1>3, <1>4, <2>2
  <2>3. QED
    BY <2>1, <2>2
<1>7. QED
  BY Zenon, <1>3, <1>4, <1>5, <1>6

LEMMA CountRest ==
  ASSUME CountInv, UNCHANGED tableVars
  PROVE  CountInv'
<1>1. UNCHANGED <<running, queue, tasks, nrunning>>
  BY Zenon DEF tableVars
<1>2. Pending' = Pending /\ (\A g : PendingOn(g)' = PendingOn(g)) /\ StartedTasks' = StartedTasks
  BY <1>1 DEF Pending, PendingOn, StartedTasks
<1>3. QED
  BY <1>1, <1>2 DEF CountInv

LEMMA AttemptMadeCount ==
  ASSUME FiniteSetFacts, AttemptInv, CountInv, Goals(ses) \subseteq Nat, AttemptMade
  PROVE  CountInv'
<1>1. PICK g \in Goals(ses) :
        LET e == [id |-> Len(told) + 1, goal |-> g]
        IN  Pending' = Pending \cup {e} /\ e \notin Pending /\ running' = Added(running, g)
  BY Zenon, AttemptMadePending
<1> DEFINE e == [id |-> Len(told) + 1, goal |-> g]
<1>2. e \in [id : Nat, goal : Nat] /\ e.goal = g
  BY DEF AttemptInv
<1>3. Pending' = Pending \cup {e} /\ e \notin Pending /\ running' = Added(running, e.goal)
  BY <1>1, <1>2
<1> HIDE DEF e
<1>4. /\ running' \in GoalBags /\ IsFiniteSet(Pending')
      /\ \A h \in Nat : Copies(running', h) = Cardinality(PendingOn(h)')
  BY <1>2, <1>3, CountAdded
<1>5. UNCHANGED <<tasks, nrunning>>
  BY Zenon DEF AttemptMade
<1>6. QED
  BY <1>4, <1>5 DEF CountInv, StartedTasks

LEMMA CallMadeCount ==
  ASSUME FiniteSetFacts, AttemptInv, CountInv, CallMade
  PROVE  CountInv'
<1> DEFINE a == Head(queue).id
<1>1. /\ Pending' = Pending /\ DOMAIN tasks' = DOMAIN tasks \cup {a}
      /\ a \notin DOMAIN tasks /\ ~tasks'[a].started /\ \A b \in DOMAIN tasks : tasks'[b] = tasks[b]
  BY CallMadeInv
<1> HIDE DEF a
<1>2. StartedTasks' = StartedTasks /\ \A g : PendingOn(g)' = PendingOn(g)
  BY <1>1 DEF StartedTasks, PendingOn
<1>3. IsFiniteSet(DOMAIN tasks')
  BY <1>1 DEF CountInv, FiniteSetFacts, FiniteAdd
<1>4. UNCHANGED <<running, nrunning>>
  BY DEF CallMade
<1>5. QED
  BY <1>1, <1>2, <1>3, <1>4 DEF CountInv

LEMMA CallFailsCount ==
  ASSUME FiniteSetFacts, AttemptInv, CountInv, CallFails
  PROVE  CountInv' /\ DOMAIN running' \subseteq DOMAIN running
<1> DEFINE e == Entry(Head(queue))
<1>1. Pending' = Pending \ {e} /\ e \in Pending
  BY Zenon, CallFailsInv
<1>2. running' = TakenOut(running, e.goal) /\ UNCHANGED <<tasks, nrunning>>
  BY Zenon DEF CallFails, Ended, Entry
<1> HIDE DEF e
<1>3. /\ running' \in GoalBags /\ IsFiniteSet(Pending') /\ DOMAIN running' \subseteq DOMAIN running
      /\ \A h \in Nat : Copies(running', h) = Cardinality(PendingOn(h)')
  BY Zenon, <1>1, <1>2, CountTakenOut
<1>4. QED
  BY <1>2, <1>3 DEF CountInv, StartedTasks

LEMMA StartHandledCount ==
  ASSUME FiniteSetFacts, AttemptInv, CountInv, NEW i, StartHandled(i), ~tasks[fetched[i].id].started
  PROVE  CountInv'
<1> DEFINE a == fetched[i].id
<1>1. /\ Pending' = Pending /\ DOMAIN tasks' = DOMAIN tasks /\ tasks'[a].started
      /\ \A b \in DOMAIN tasks : b # a => tasks'[b] = tasks[b]
  BY StartHandledInv
<1>2. a \in DOMAIN tasks /\ ~tasks[a].started /\ running' = running /\ nrunning' = nrunning + 1
  BY DEF StartHandled
<1> HIDE DEF a
<1>3. StartedTasks' = StartedTasks \cup {a} /\ a \notin StartedTasks /\ \A g : PendingOn(g)' = PendingOn(g)
  BY <1>1, <1>2 DEF StartedTasks, PendingOn
<1>4. IsFiniteSet(StartedTasks)
  BY DEF CountInv, StartedTasks, FiniteSetFacts, FiniteSubset
<1>5. Cardinality(StartedTasks') = Cardinality(StartedTasks) + 1
  BY Zenon, <1>3, <1>4 DEF FiniteSetFacts, FiniteAdd
<1>6. QED
  BY Zenon, <1>1, <1>2, <1>3, <1>5 DEF CountInv

LEMMA EndHandledCount ==
  ASSUME FiniteSetFacts, AttemptInv, CountInv, NEW i, EndHandled(i)
  PROVE  CountInv' /\ DOMAIN running' \subseteq DOMAIN running
<1> DEFINE a == fetched[i].id
           e == Entry(tasks[a])
<1>1. /\ Pending' = Pending \ {e} /\ e \in Pending
      /\ DOMAIN tasks' = DOMAIN tasks \ {a} /\ \A b \in DOMAIN tasks' : tasks'[b] = tasks[b]
  BY Zenon, EndHandledInv
<1>2. /\ a \in DOMAIN tasks /\ running' = TakenOut(running, e.goal)
      /\ nrunning' = IF tasks[a].started THEN nrunning - 1 ELSE nrunning
  BY Zenon DEF EndHandled, Ended, Entry
<1> HIDE DEF a, e
<1>3. /\ running' \in GoalBags /\ IsFiniteSet(Pending') /\ DOMAIN running' \subseteq DOMAIN running
      /\ \A h \in Nat : Copies(running', h) = Cardinality(PendingOn(h)')
  BY Zenon, <1>1, <1>2, CountTakenOut
<1>4. StartedTasks' = StartedTasks \ {a}
  BY <1>1 DEF StartedTasks
<1>5. IsFiniteSet(DOMAIN tasks') /\ IsFiniteSet(StartedTasks')
  BY <1>1, <1>4 DEF CountInv, StartedTasks, FiniteSetFacts, FiniteSubset
<1>6. nrunning = Cardinality(StartedTasks) /\ Cardinality(StartedTasks') \in Nat
  BY <1>5 DEF CountInv, FiniteSetFacts, FiniteCount
<1>7. nrunning' = Cardinality(StartedTasks')
  <2>1. CASE tasks[a].started
    <3>1. StartedTasks = StartedTasks' \cup {a} /\ a \notin StartedTasks'
      BY <1>2, <1>4, <2>1 DEF StartedTasks
    <3>2. Cardinality(StartedTasks) = Cardinality(StartedTasks') + 1
      BY <1>5, <3>1 DEF FiniteSetFacts, FiniteAdd
    <3>3. QED
      BY <1>2, <1>6, <2>1, <3>2
  <2>2. CASE ~tasks[a].started
    <3>1. StartedTasks' = StartedTasks
      BY <1>4, <2>2 DEF StartedTasks
    <3>2. QED
      BY <1>2, <1>6, <2>2, <3>1
  <2>3. QED
    BY <2>1, <2>2
<1>8. QED
  BY Zenon, <1>3, <1>5, <1>7 DEF CountInv

LEMMA InterruptCount ==
  ASSUME FiniteSetFacts, AttemptInv, CountInv, interrupt
  PROVE  CountInv' /\ DOMAIN running' = {}
<1>1. Pending' = {} /\ tasks' = <<>>
  BY InterruptInv
<1>2. /\ nrunning' = 0
      /\ running' = [g \in {h \in DOMAIN running : running[h] - Cardinality(PendingOn(h)) > 0} |->
                       running[g] - Cardinality(PendingOn(g))]
  BY DEF interrupt, EndAll
<1>3. DOMAIN running \subseteq Nat /\ \A g \in DOMAIN running : running[g] \in Nat
  BY BagFields DEF CountInv
<1>4. \A g \in DOMAIN running : running[g] - Cardinality(PendingOn(g)) = 0
  <2>1. \A g \in DOMAIN running : Copies(running, g) = Cardinality(PendingOn(g)) /\ Copies(running, g) = running[g]
    BY <1>3 DEF CountInv, Copies
  <2>2. QED
    BY <1>3, <2>1
<1>5. DOMAIN running' = {}
  BY <1>2, <1>4
<1>6. running' \in [{} -> Nat \ {0}]
  BY <1>2, <1>5
<1>7. running' \in GoalBags
  BY Zenon, <1>5, <1>6, BagFields
<1>8. DOMAIN tasks' = {} /\ StartedTasks' = {} /\ \A g : PendingOn(g)' = {}
  BY <1>1 DEF StartedTasks, PendingOn
<1>9. \A g : Copies(running', g) = 0
  BY <1>5 DEF Copies
<1>10. IsFiniteSet({}) /\ Cardinality({}) = 0
  BY DEF FiniteSetFacts, FiniteEmpty
<1>11. QED
  BY Zenon, <1>1, <1>2, <1>5, <1>7, <1>8, <1>9, <1>10 DEF CountInv
=============================================================================
