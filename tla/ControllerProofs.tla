-------------------------- MODULE ControllerProofs --------------------------
(***************************************************************************)
(* Theorems about the scheduler of proof attempts, its session and the     *)
(* calls of provers, for any strategies, any number of goals, attempts and *)
(* transformations, and whatever the server does.                          *)
(***************************************************************************)
EXTENDS ControllerSteps, SessionProofs

(* The session.                                                            *)
SessionInv == Valid(ses) /\ DOMAIN running \subseteq DOMAIN ses.att

Inv == AttemptInv /\ MessageInv /\ CountInv /\ SessionInv

-----------------------------------------------------------------------------
(* The session.                                                            *)
LEMMA SubtreeRemoved ==
  ASSUME NEW s, Valid(s), DOMAIN running \subseteq DOMAIN s.att, NEW node \in Nodes(s)
  PROVE  LET r == remove_subtree(s, node)
         IN  /\ Valid(r) /\ DOMAIN running \subseteq DOMAIN r.att /\ Goals(r) \subseteq Goals(s)
             /\ Needless(s, node) => r.th = s.th /\ \A g \in Goals(r) : r.pn[g] = s.pn[g]
<1> DEFINE r == remove_subtree(s, node)
<1>1. CASE ~check_removable(s, node)
  <2>1. r = s
    BY <1>1 DEF remove_subtree
  <2>2. QED
    BY <2>1
<1>2. CASE check_removable(s, node) /\ node \in DOMAIN s.att
  <2>1. r = remove_proof_attempt(s, node)
    BY <1>2 DEF remove_subtree
  <2>2. node \notin DOMAIN running
    BY <1>2 DEF check_removable
  <2>3. Needless(s, node) => s.pn[node] /\ ~s.att[node]
    BY <1>2 DEF Needless
  <2>4. /\ Valid(r) /\ DOMAIN r.att = DOMAIN s.att \ {node} /\ r.parent = s.parent
        /\ s.pn[node] /\ ~s.att[node] => r.pn = s.pn /\ r.th = s.th
    BY <1>2, <2>1, AttemptRemoved
  <2> HIDE DEF r
  <2>5. QED
    BY <2>2, <2>3, <2>4 DEF r, Goals
<1>3. CASE check_removable(s, node) /\ node \notin DOMAIN s.att
  <2>1. r = remove_transformation(s, node)
    BY <1>3 DEF remove_subtree
  <2>2. GoalsUnder(s, node) \cap DOMAIN running = {} /\ node \in DOMAIN s.trans
    BY <1>3 DEF check_removable, Nodes
  <2>3. Needless(s, node) => s.pn[s.trans[node].parent] /\ ~s.tn[node]
    BY <1>3 DEF Needless
  <2>4. /\ Valid(r) /\ DOMAIN r.att = DOMAIN s.att \ GoalsUnder(s, node) /\ Goals(r) \subseteq Goals(s)
        /\ s.pn[s.trans[node].parent] /\ ~s.tn[node] =>
             r.th = s.th /\ \A g \in Goals(r) : r.pn[g] = s.pn[g]
    BY <2>1, <2>2, TransRemoved
  <2> HIDE DEF r
  <2>5. QED
    BY <2>2, <2>3, <2>4 DEF r
<1>4. QED
  BY <1>1, <1>2, <1>3

(* One visit of fold_all_session, and all of them.                         *)
Visit(b, s, node) ==
  IF node \in Nodes(s) /\ (b => Needless(s, node)) THEN remove_subtree(s, node) ELSE s

LEMMA RemovedStays ==
  ASSUME NEW b \in BOOLEAN, NEW V, ses \in V, \A s \in V : \A node : Visit(b, s, node) \in V
  PROVE  \A n \in Nat : Removed(b)[n] \in V
<1> DEFINE F == [n \in Nat |-> [s \in V |-> Visit(b, s, ses.next - (n + 1))]]
           f == Removed(b)
           S == {n \in Nat : f[n] \in V}
<1>1. F \in StepsOn(V)
  BY DEF StepsOn
<1>2. \A n \in Nat, s \in V : F[n][s] = Visit(b, s, ses.next - (n + 1))
  OBVIOUS
<1> HIDE DEF F
<1>3. PICK a : RunOf(ses, F, V, a)
  BY <1>1, RunsExist
<1>4. a \in [Nat -> V] /\ a[0] = ses /\ \A n \in Nat : a[n + 1] = F[n][a[n]]
  BY <1>3 DEF RunOf
<1>5. \A n \in Nat : n # 0 => a[n] = Visit(b, a[n - 1], ses.next - n)
  <2>1. SUFFICES ASSUME NEW n \in Nat, n # 0 PROVE a[n] = Visit(b, a[n - 1], ses.next - n)
    OBVIOUS
  <2>2. n - 1 \in Nat /\ (n - 1) + 1 = n
    BY <2>1
  <2>3. a[n] = F[n - 1][a[n - 1]] /\ a[n - 1] \in V
    BY <1>4, <2>2
  <2>4. QED
    BY <1>2, <2>2, <2>3
<1>6. a = [n \in Nat |-> IF n = 0 THEN ses ELSE Visit(b, a[n - 1], ses.next - n)]
  BY <1>4, <1>5
<1>7. f = [n \in Nat |-> IF n = 0 THEN ses ELSE Visit(b, f[n - 1], ses.next - n)]
  BY <1>6, Zenon DEF Removed, Visit
<1> HIDE DEF f
<1>8. 0 \in S
  BY <1>7
<1>9. ASSUME NEW n \in Nat, n \in S PROVE n + 1 \in S
  <2>1. n + 1 \in Nat /\ n + 1 # 0 /\ (n + 1) - 1 = n /\ f[n] \in V
    BY <1>9
  <2>2. f[n + 1] = Visit(b, f[(n + 1) - 1], ses.next - (n + 1))
    BY <1>7, <2>1
  <2>3. f[n + 1] \in V
    BY <2>1, <2>2
  <2>4. QED
    BY <2>1, <2>3
<1>10. \A n \in Nat : n \in S
  <2> HIDE DEF S
  <2>1. QED
    BY <1>8, <1>9, Induction
<1>11. QED
  BY <1>10 DEF f

LEMMA CleanSession ==
  ASSUME SessionInv, NEW b \in BOOLEAN, NEW n \in Nat
  PROVE  LET s == Removed(b)[n]
         IN  /\ Valid(s) /\ DOMAIN running \subseteq DOMAIN s.att
             /\ b => s.th = ses.th /\ \A g \in Goals(s) : s.pn[g] = ses.pn[g]
<1> DEFINE P(s) == /\ Valid(s) /\ DOMAIN running \subseteq DOMAIN s.att /\ Goals(s) \subseteq Goals(ses)
                   /\ b => s.th = ses.th /\ \A g \in Goals(s) : s.pn[g] = ses.pn[g]
           V == {s \in Sessions : P(s)}
<1>1. ses \in V
  BY ValidFields DEF SessionInv
<1>2. ASSUME NEW s \in V, NEW node PROVE Visit(b, s, node) \in V
  <2> DEFINE r == remove_subtree(s, node)
  <2>1. P(s)
    OBVIOUS
  <2>2. CASE node \in Nodes(s) /\ (b => Needless(s, node))
    <3>1. /\ Valid(r) /\ DOMAIN running \subseteq DOMAIN r.att /\ Goals(r) \subseteq Goals(s)
          /\ Needless(s, node) => r.th = s.th /\ \A g \in Goals(r) : r.pn[g] = s.pn[g]
      BY <2>1, <2>2, SubtreeRemoved
    <3>2. Visit(b, s, node) = r
      BY <2>2 DEF Visit
    <3> HIDE DEF r
    <3>3. P(r)
      BY <2>1, <2>2, <3>1
    <3>4. r \in Sessions
      BY <3>1, ValidFields
    <3>5. QED
      BY <3>2, <3>3, <3>4
  <2>3. CASE ~(node \in Nodes(s) /\ (b => Needless(s, node)))
    BY <2>3 DEF Visit
  <2>4. QED
    BY <2>2, <2>3
<1> HIDE DEF V
<1>3. Removed(b)[n] \in V
  BY <1>1, <1>2, RemovedStays
<1>4. QED
  BY <1>3 DEF V

(* The callbacks of attempts that have no result find nothing to update.   *)
LEMMA NothingUpdated ==
  ASSUME Valid(ses), \A p \in Pending : p.goal \in Goals(ses)
  PROVE  \A n \in Nat : AllUpdated[n] = ses
<1> DEFINE a == [n \in Nat |-> ses]
           f == AllUpdated
           S == {n \in Nat : f[n] = ses}
<1>1. ASSUME NEW n PROVE CalledBack(ses, n) = ses
  <2>1. CASE n \in PendingIds
    <3> DEFINE p == CHOOSE q \in Pending : q.id = n
    <3>1. p \in Pending
      BY <2>1 DEF PendingIds
    <3>2. update_goal_node(ses, p.goal) = ses
      <4> HIDE DEF p
      <4>1. QED
        BY <3>1, UpdateNothing DEF Valid
    <3>3. QED
      BY <2>1, <3>2 DEF CalledBack
  <2>2. QED
    BY <2>1 DEF CalledBack
<1>2. a = [n \in Nat |-> IF n = 0 THEN ses ELSE CalledBack(a[n - 1], n)]
  <2>1. ASSUME NEW n \in Nat PROVE (IF n = 0 THEN ses ELSE CalledBack(a[n - 1], n)) = ses
    <3>1. CASE n # 0
      <4>1. a[n - 1] = ses
        BY <3>1
      <4> HIDE DEF a
      <4>2. CalledBack(a[n - 1], n) = ses
        BY <1>1, <4>1
      <4>3. QED
        BY <3>1, <4>2
    <3>2. QED
      BY <3>1
  <2>2. QED
    BY <2>1
<1> HIDE DEF a
<1>3. f = [n \in Nat |-> IF n = 0 THEN ses ELSE CalledBack(f[n - 1], n)]
  BY <1>2, Zenon DEF AllUpdated
<1> HIDE DEF f
<1>4. 0 \in S
  BY <1>3
<1>5. ASSUME NEW n \in Nat, n \in S PROVE n + 1 \in S
  <2>1. n + 1 \in Nat /\ n + 1 # 0 /\ (n + 1) - 1 = n /\ f[n] = ses
    BY <1>5
  <2>2. f[n + 1] = CalledBack(f[(n + 1) - 1], n + 1)
    BY <1>3, <2>1
  <2>3. QED
    BY <1>1, <2>1, <2>2
<1>6. \A n \in Nat : n \in S
  <2> HIDE DEF S
  <2>1. QED
    BY <1>4, <1>5, Induction
<1>7. QED
  BY <1>6 DEF f

LEMMA NodesChangedSession ==
  ASSUME SessionInv, NodesChanged
  PROVE  SessionInv'
<1>1. Valid(ses) /\ DOMAIN running \subseteq DOMAIN ses.att /\ ses.next \in Nat
  BY ValidFields DEF SessionInv
<1>2. running' = running
  BY Zenon DEF NodesChanged, remove_node, clean, reset_proofs, mark_as_obsolete, OnSession
<1>3. CASE remove_node
  <2>1. PICK node \in Nodes(ses) : ses' = remove_subtree(ses, node)
    BY <1>3 DEF remove_node
  <2>2. Valid(ses') /\ DOMAIN running \subseteq DOMAIN ses'.att
    BY <1>1, <2>1, SubtreeRemoved
  <2>3. QED
    BY <1>2, <2>2 DEF SessionInv, Valid
<1>4. CASE clean
  <2>1. Valid(ses') /\ DOMAIN running \subseteq DOMAIN ses'.att
    BY Zenon, <1>1, <1>4, CleanSession DEF clean
  <2>2. QED
    BY <1>2, <2>1 DEF SessionInv
<1>5. CASE reset_proofs
  <2>1. Valid(ses') /\ DOMAIN running \subseteq DOMAIN ses'.att
    BY <1>1, <1>5, CleanSession DEF reset_proofs
  <2>2. QED
    BY <1>2, <2>1 DEF SessionInv
<1>6. CASE mark_as_obsolete
  <2>1. PICK g \in DOMAIN ses.att : ses' = mark_obsolete(ses, g)
    BY <1>6 DEF mark_as_obsolete
  <2>2. Valid(ses') /\ DOMAIN ses'.att = DOMAIN ses.att
    BY <1>1, <2>1, AttemptObsolete
  <2>3. QED
    BY <1>1, <1>2, <2>2 DEF SessionInv
<1>7. QED
  BY <1>3, <1>4, <1>5, <1>6 DEF NodesChanged

LEMMA PendingNodes ==
  ASSUME FiniteSetFacts, AttemptInv, CountInv, SessionInv
  PROVE  \A p \in Pending : p.goal \in DOMAIN ses.att /\ p.goal \in Goals(ses)
  BY PendingGoals, ValidFields DEF SessionInv

LEMMA AttemptSession ==
  ASSUME FiniteSetFacts, AttemptInv, CountInv, SessionInv, AttemptMade \/ TransfApplied \/ CallFails \/ interrupt
  PROVE  SessionInv'
<1>1. Valid(ses) /\ DOMAIN running \subseteq DOMAIN ses.att /\ Goals(ses) \subseteq Nat
  BY ValidFields DEF SessionInv
<1>2. CASE AttemptMade
  <2>1. PICK g \in Goals(ses) : /\ running' = Added(running, g)
                                /\ ses' = update_goal_node(graft_proof_attempt(ses, g), g)
    BY Zenon, <1>2, AttemptMadePending
  <2>2. Valid(ses') /\ DOMAIN ses'.att = DOMAIN ses.att \cup {g}
    BY <1>1, <2>1, ScheduleAttempt
  <2>3. DOMAIN running' = DOMAIN running \cup {g}
    BY Zenon, <1>1, <2>1, BagAdded DEF CountInv
  <2>4. QED
    BY <1>1, <2>2, <2>3 DEF SessionInv
<1>3. CASE TransfApplied
  <2>1. PICK g \in Goals(ses), n \in Nat : ses' = update_trans_node(graft_transf(ses, g, n), ses.next)
    BY <1>3 DEF TransfApplied
  <2>2. Valid(ses') /\ ses'.att = ses.att
    BY <1>1, <2>1, TransGrafted
  <2>3. running' = running
    BY <1>3 DEF TransfApplied, tableVars
  <2>4. QED
    BY <1>1, <2>2, <2>3 DEF SessionInv
<1>4. CASE CallFails
  <2>1. Entry(Head(queue)) \in Pending /\ Entry(Head(queue)).goal = Head(queue).goal
    BY <1>4, CallFailsInv DEF Entry
  <2>2. Head(queue).goal \in Goals(ses)
    BY <2>1, PendingNodes
  <2>3. ses' = ses
    BY <1>1, <1>4, <2>2, UpdateNothing DEF CallFails, Ended, Valid
  <2>4. DOMAIN running' \subseteq DOMAIN running
    BY <1>4, CallFailsCount
  <2>5. QED
    BY <1>1, <2>3, <2>4 DEF SessionInv
<1>5. CASE interrupt
  <2>1. Len(told) \in Nat
    BY DEF AttemptInv
  <2>2. ses' = ses
    BY <1>1, <1>5, <2>1, PendingNodes, NothingUpdated DEF interrupt, EndAll
  <2>3. DOMAIN running' = {}
    BY <1>5, InterruptCount
  <2>4. QED
    BY <1>1, <2>2, <2>3 DEF SessionInv
<1>6. QED
  BY <1>2, <1>3, <1>4, <1>5

LEMMA ResultSession ==
  ASSUME FiniteSetFacts, AttemptInv, MessageInv, CountInv, SessionInv, NEW i \in DOMAIN fetched,
         ResultIgnored(i) \/ StartHandled(i) \/ EndHandled(i)
  PROVE  SessionInv'
<1> DEFINE a == fetched[i].id
<1>1. Valid(ses) /\ DOMAIN running \subseteq DOMAIN ses.att
  BY DEF SessionInv
<1>2. a \in DOMAIN tasks => tasks[a].goal \in DOMAIN ses.att /\ tasks[a].goal \in Goals(ses)
  <2>1. ASSUME a \in DOMAIN tasks PROVE Entry(tasks[a]) \in Pending
    BY <2>1 DEF Pending
  <2>2. Entry(tasks[a]).goal = tasks[a].goal
    BY DEF Entry
  <2>3. QED
    BY <2>1, <2>2, PendingNodes
<1>3. CASE ResultIgnored(i)
  BY <1>1, <1>3 DEF ResultIgnored, tableVars, SessionInv
<1>4. CASE StartHandled(i)
  <2>1. a \in DOMAIN tasks /\ ses' = update_goal_node(ses, tasks[a].goal) /\ running' = running
    BY Zenon, <1>4 DEF StartHandled
  <2>2. ses' = ses
    BY <1>1, <1>2, <2>1, UpdateNothing DEF Valid
  <2>3. QED
    BY <1>1, <2>1, <2>2 DEF SessionInv
<1>5. CASE EndHandled(i)
  <2>1. /\ a \in DOMAIN tasks
        /\ ses' = update_goal_node(update_proof_attempt(ses, tasks[a].goal, fetched[i].valid), tasks[a].goal)
    BY <1>5 DEF EndHandled, Ended
  <2>2. fetched[i].valid \in BOOLEAN
    <3>1. fetched[i] \in Messages
      BY DEF MessageInv, AnswerInv
    <3>2. QED
      BY Zenon, <3>1 DEF Messages
  <2>3. Valid(ses') /\ DOMAIN ses'.att = DOMAIN ses.att
    BY <1>1, <1>2, <2>1, <2>2, AttemptEnds
  <2>4. DOMAIN running' \subseteq DOMAIN running
    BY <1>5, EndHandledCount
  <2>5. QED
    BY Zenon, <1>1, <2>3, <2>4 DEF SessionInv
<1>6. QED
  BY <1>3, <1>4, <1>5

-----------------------------------------------------------------------------
(* The invariant holds initially and every step keeps it.                  *)
LEMMA InvInit == ASSUME FiniteSetFacts, Init PROVE Inv
<1>1. /\ ses = NewSession /\ running = <<>> /\ told = <<>> /\ queue = <<>> /\ tasks = <<>>
      /\ nrunning = 0 /\ fetched = <<>> /\ saved = {} /\ requests = <<>> /\ answers = <<>>
      /\ submitted = {} /\ waiting = {} /\ proving = {}
  BY DEF Init
<1>2. /\ DOMAIN queue = {} /\ DOMAIN tasks = {} /\ DOMAIN told = {} /\ DOMAIN running = {}
      /\ DOMAIN requests = {} /\ DOMAIN fetched = {} /\ DOMAIN answers = {}
  BY <1>1
<1>3. /\ told \in Seq({"Scheduled", "Running", "Over"}) /\ queue \in Seq(Attempts)
      /\ tasks \in [{} -> Calling] /\ running \in [{} -> Nat \ {0}]
      /\ requests \in Seq(Requests) /\ fetched \in Seq(Messages) /\ answers \in Seq(Messages)
  BY <1>1
<1>4. Pending = {} /\ QueueIds = {} /\ StartedTasks = {} /\ \A g : PendingOn(g) = {}
  BY Zenon, <1>2 DEF Pending, QueueIds, StartedTasks, PendingOn
<1>5. AttemptInv
  BY <1>2, <1>3 DEF AttemptInv
<1>6. PoolInv
  BY <1>1, <1>2 DEF PoolInv
<1>7. RequestInv /\ AnswerInv
  BY <1>2, <1>3 DEF RequestInv, AnswerInv, NoTwice
<1>8. running \in GoalBags
  BY Zenon, <1>2, <1>3, BagFields
<1>9. \A g : Copies(running, g) = 0
  BY <1>2 DEF Copies
<1>10. CountInv
  BY <1>1, <1>2, <1>4, <1>8, <1>9 DEF CountInv, FiniteSetFacts, FiniteEmpty
<1>11. SessionInv
  BY <1>1, <1>2, NewSessionValid DEF SessionInv
<1>12. QED
  BY <1>5, <1>6, <1>7, <1>10, <1>11 DEF Inv, MessageInv

LEMMA AttemptsRest == ASSUME AttemptInv, UNCHANGED tableVars PROVE AttemptInv'
<1>1. UNCHANGED <<told, queue, tasks>>
  BY DEF tableVars
<1>2. QueueIds' = QueueIds
  BY <1>1 DEF QueueIds
<1>3. \A a : Standing(a)' = Standing(a)
  BY <1>1, <1>2 DEF Standing
<1>4. QED
  BY <1>1, <1>3 DEF AttemptInv

LEMMA TablesRest ==
  ASSUME AttemptInv, CountInv, SessionInv, UNCHANGED <<ses, tableVars>>
  PROVE  AttemptInv' /\ CountInv' /\ SessionInv'
<1>1. SessionInv'
  BY DEF tableVars, SessionInv
<1>2. QED
  BY <1>1, AttemptsRest, CountRest

LEMMA InvStep == ASSUME FiniteSetFacts, Inv, [Next]_vars PROVE Inv'
<1>1. AttemptInv /\ MessageInv /\ CountInv /\ SessionInv
  BY Zenon DEF Inv
<1>2. Goals(ses) \subseteq Nat
  BY <1>1, ValidFields DEF SessionInv
<1>3. CASE AttemptMade
  BY <1>1, <1>2, <1>3, AttemptMadeInv, AttemptMadeMessages, AttemptMadeCount, AttemptSession DEF Inv
<1>4. CASE TransfApplied
  <2>1. UNCHANGED tableVars /\ UNCHANGED <<told, queue, tasks, wireVars>>
    BY <1>4 DEF TransfApplied, tableVars
  <2>2. QED
    BY <1>1, <1>4, <2>1, AttemptsRest, MessagesRest, CountRest, AttemptSession DEF Inv
<1>5. CASE NodesChanged
  <2>1. UNCHANGED tableVars /\ UNCHANGED <<told, queue, tasks, wireVars>>
    BY Zenon, <1>5 DEF NodesChanged, remove_node, clean, reset_proofs, mark_as_obsolete, OnSession,
                tableVars, wireVars, clientVars, serverVars
  <2>2. QED
    BY <1>1, <1>5, <2>1, AttemptsRest, MessagesRest, CountRest, NodesChangedSession DEF Inv
<1>6. CASE CallMade
  <2>1. SessionInv'
    BY <1>1, <1>6 DEF CallMade, SessionInv
  <2>2. QED
    BY <1>1, <1>6, <2>1, CallMadeInv, CallMadeMessages, CallMadeCount DEF Inv
<1>7. CASE CallFails
  BY <1>1, <1>7, CallFailsInv, CallFailsMessages, CallFailsCount, AttemptSession DEF Inv
<1>8. CASE timeout_handler
  <2>1. UNCHANGED <<ses, tableVars>>
    BY <1>8 DEF timeout_handler, sessionVars, tableVars
  <2>2. QED
    BY <1>1, <1>8, <2>1, TablesRest, ReadMessages DEF Inv
<1>9. ASSUME NEW i \in DOMAIN fetched, HandleResult(i) PROVE Inv'
  <2>1. MessageInv'
    BY <1>1, <1>9, ResultMessages
  <2>2. ResultIgnored(i) \/ StartHandled(i) \/ EndHandled(i)
    BY <1>9, ResultKinds
  <2>3. SessionInv'
    BY <1>1, <2>2, ResultSession
  <2>4. AttemptInv' /\ CountInv'
    <3>1. CASE ResultIgnored(i)
      BY <1>1, <3>1, TablesRest DEF ResultIgnored
    <3>2. CASE StartHandled(i)
      <4>1. Sent(fetched[i])
        BY <1>1 DEF MessageInv, AnswerInv
      <4>2. ~tasks[fetched[i].id].started
        BY <3>2, <4>1 DEF Sent, StartHandled
      <4>3. QED
        BY <1>1, <3>2, <4>2, StartHandledInv, StartHandledCount
    <3>3. CASE EndHandled(i)
      BY Zenon, <1>1, <3>3, EndHandledInv, EndHandledCount
    <3>4. QED
      BY <2>2, <3>1, <3>2, <3>3
  <2>5. QED
    BY <2>1, <2>3, <2>4 DEF Inv
<1>10. CASE interrupt
  <2>1. MessageInv'
    BY <1>1, <1>10, InterruptMessages DEF CountInv
  <2>2. QED
    BY <1>1, <1>10, <2>1, InterruptInv, InterruptCount, AttemptSession DEF Inv
<1>11. CASE LimitSet
  BY <1>1, <1>11, TablesRest, LimitMessages DEF Inv, LimitSet
<1>12. CASE ServerReads \/ ServerStarts \/ ProverEnds \/ ServerDies
  <2>1. UNCHANGED <<ses, tableVars>>
    BY <1>12 DEF ServerReads, ServerStarts, ProverEnds, ServerDies, sessionVars, clientVars, tableVars
  <2>2. MessageInv'
    BY <1>1, <1>12, ServerReadsMessages, ServerStartsMessages, ProverEndsMessages, ServerDiesMessages
  <2>3. QED
    BY Zenon, <1>1, <2>1, <2>2, TablesRest DEF Inv
<1>13. CASE Rests
  <2>1. UNCHANGED <<ses, tableVars>> /\ UNCHANGED <<told, queue, tasks, wireVars>>
    BY <1>13 DEF Rests, tableVars
  <2>2. QED
    BY <1>1, <2>1, TablesRest, MessagesRest DEF Inv
<1>14. QED
  BY <1>3, <1>4, <1>5, <1>6, <1>7, <1>8, <1>9, <1>10, <1>11, <1>12, <1>13, StepKinds

LEMMA InvProperties == ASSUME FiniteSetFacts, Inv PROVE EndsOnce /\ TablesAgree /\ StatusSound
<1>1. AttemptInv /\ MessageInv /\ CountInv /\ SessionInv
  BY DEF Inv
<1>2. EndsOnce
  <2>1. PendingIds = QueueIds \cup DOMAIN tasks /\ \A a \in DOMAIN told : told[a] = Standing(a)
    BY Zenon, <1>1, PendingFacts DEF AttemptInv
  <2>2. QED
    BY <2>1 DEF EndsOnce, Standing
<1>3. TablesAgree
  <2>1. \A p \in Pending : p.goal \in DOMAIN ses.att
    BY <1>1, PendingNodes
  <2>2. {p.goal : p \in Pending} \cup DOMAIN running \subseteq Nat
    BY <1>1, PendingGoals, BagFields DEF CountInv
  <2>3. waiting \cup proving \cup {answers[i].id : i \in {k \in DOMAIN answers : answers[k].kind = "F"}}
          \subseteq saved
    BY <1>1 DEF MessageInv, PoolInv, AnswerInv
  <2>4. nrunning = Cardinality({a \in DOMAIN tasks : tasks[a].started})
    BY <1>1 DEF CountInv, StartedTasks
  <2>5. \A g \in {p.goal : p \in Pending} \cup DOMAIN running : Copies(running, g) = Cardinality(PendingOn(g))
    BY Zenon, <1>1, <2>2 DEF CountInv
  <2>6. QED
    BY Zenon, <2>1, <2>3, <2>4, <2>5 DEF TablesAgree
<1>4. StatusSound
  BY Zenon, <1>1 DEF SessionInv, Valid, SoundBut, StatusSound
<1>5. QED
  BY <1>2, <1>3, <1>4

LEMMA CleanStep ==
  ASSUME Inv, clean
  PROVE  /\ Roots \subseteq Goals(ses') /\ ses'.th = ses.th
         /\ \A g \in Goals(ses') : ses'.pn[g] = ses.pn[g]
<1>1. SessionInv /\ ses.next \in Nat
  BY ValidFields DEF Inv, SessionInv
<1>2. ses' = Removed(TRUE)[ses.next]
  BY DEF clean
<1>3. /\ Valid(ses') /\ ses'.th = ses.th
      /\ \A g \in Goals(ses') : ses'.pn[g] = ses.pn[g]
  BY Zenon, <1>1, <1>2, CleanSession
<1>4. QED
  BY Zenon, <1>3 DEF Valid, Tree

-----------------------------------------------------------------------------
(* The facts about finite sets come from the library.                      *)
INSTANCE FiniteSetTheorems

LEMMA FiniteImageHolds == FiniteImage
<1> SUFFICES ASSUME NEW S, NEW f, IsFiniteSet(S)
             PROVE  IsFiniteSet({f[x] : x \in S}) /\ Cardinality({f[x] : x \in S}) <= Cardinality(S)
  BY Zenon DEF FiniteImage
<1> DEFINE g == [x \in S |-> f[x]]
<1>1. g \in Surjection(S, {f[x] : x \in S})
  BY Zenon DEF Surjection
<1>2. QED
  BY <1>1, FS_Surjection

LEMMA FiniteSetFactsHold == FiniteSetFacts
<1>1. FiniteEmpty /\ FiniteCount /\ FiniteAdd
  BY FS_EmptySet, FS_CardinalityType, FS_AddElement DEF FiniteEmpty, FiniteCount, FiniteAdd
<1>2. FiniteSubset
  BY FS_Subset DEF FiniteSubset
<1>3. QED
  BY <1>1, <1>2, FiniteImageHolds DEF FiniteSetFacts

LEMMA InvHolds == Spec => []Inv
<1>1. Init => Inv
  BY InvInit, FiniteSetFactsHold
<1>2. Inv /\ [Next]_vars => Inv'
  BY InvStep, FiniteSetFactsHold
<1>3. QED
  BY <1>1, <1>2, PTL DEF Spec

(* Whoever asks for a proof attempt is told Scheduled, at most once        *)
(* Running and exactly one end, whatever answers arrive late, after an     *)
(* interrupt or out of order: schedule_proof_attempt, build_prover_call,   *)
(* timeout_handler and interrupt with any number of attempts.              *)
THEOREM AttemptsEndOnce == Spec => []EndsOnce
<1>1. Inv => EndsOnce
  BY InvProperties, FiniteSetFactsHold
<1>2. QED
  BY <1>1, InvHolds, PTL

(* The counter of running provers, the table of running attempts, the      *)
(* session and saved_data always agree: no node is removed under a pending *)
(* attempt and no answer finds its data gone.                              *)
THEOREM TablesAlwaysAgree == Spec => []TablesAgree
<1>1. Inv => TablesAgree
  BY InvProperties, FiniteSetFactsHold
<1>2. QED
  BY <1>1, InvHolds, PTL

(* Between any two handlers, the cached status of every node is what its   *)
(* children give, for trees of any shape and after any sequence of         *)
(* results, transformations, removals and marks.                           *)
THEOREM StatusAlwaysSound == Spec => []StatusSound
<1>1. Inv => StatusSound
  BY InvProperties, FiniteSetFactsHold
<1>2. QED
  BY <1>1, InvHolds, PTL

(* clean removes no goal of the theory, and changes the status of no goal  *)
(* that stays and not that of the theory.                                  *)
THEOREM CleanChangesNoStatus == Spec => CleanKeepsStatus
<1>1. Inv => (clean => /\ Roots \subseteq Goals(ses') /\ ses'.th = ses.th
                       /\ \A g \in Goals(ses') : ses'.pn[g] = ses.pn[g])
  BY CleanStep
<1>2. QED
  BY <1>1, InvHolds, PTL DEF CleanKeepsStatus
=============================================================================
