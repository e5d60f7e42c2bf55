----------------------------- MODULE Controller -----------------------------
(***************************************************************************)
(* The scheduler of proof attempts (functor Make of controller_itp.ml),    *)
(* the calls of provers under it (call_provers.ml, prove_client.ml) and    *)
(* the session it updates, composed with what the prover server promises   *)
(* (JobPool, which VCServer is proved to refine).                          *)
(*                                                                         *)
(* OCaml runs one handler at a time, so that a handler is one action; only *)
(* timeout_handler is cut into the read of some answers and the handling   *)
(* of each, in the arbitrary order of the hash table between them.  The    *)
(* server takes steps at any time.  Handlers registered with the scheduler *)
(* run in any order, as the orders of the GTK and the Unix scheduler       *)
(* differ.  A call of a prover has the number of its attempt as its id.    *)
(* Writing to a dead server raises an exception (wserver.ml ignores        *)
(* SIGPIPE; elsewhere it ends the process, and there is nothing to add).   *)
(***************************************************************************)
EXTENDS Session

CONSTANTS Strategy,     \* the instructions [op, to] of all strategies, from 1
          Starts,       \* where in Strategy a strategy begins
          Multiplier,   \* S.multiplier
          MaxTasks,     \* the numbers of provers a user may ask for
          Subtasks,     \* how many goals a transformation may give
          MaxAttempts,  \* bound: attempts ever scheduled
          MaxNodes,     \* bound: transformations have at most this number
          MaxJobs       \* bound: functions waiting when a user asks for one more

ASSUME SubtasksAssumption == Subtasks \subseteq Nat

VARIABLES
  ses,        \* controller_session
  maxTasks,   \* session_max_tasks
  running,    \* controller_running_proof_attempts: goal -> how many times
  queue,      \* scheduled_proof_attempts
  tasks,      \* prover_tasks_in_progress: id -> attempt with tp_started
  nrunning,   \* number_of_running_provers
  jobs,       \* functions registered with S.idle ~prio:0
  idleOn,     \* idle_handler_running
  fetched,    \* results timeout_handler still has to go through
  saved,      \* saved_data of call_provers.ml
  requests, answers,             \* the two directions of the socket
  submitted, waiting, proving, limit,   \* the server
  dead,       \* the server has died
  told        \* history: what the callback of each attempt was last told

sessionVars == <<ses, running, told>>
clientVars == <<maxTasks, queue, tasks, nrunning, jobs, idleOn, fetched, saved>>
serverVars == <<submitted, waiting, proving, limit, dead>>
vars == <<sessionVars, clientVars, requests, answers, serverVars>>

Pool == INSTANCE JobPool WITH running <- proving

NoStrategy == 0

Init ==
  /\ ses = NewSession /\ running = <<>> /\ told = <<>>
  /\ queue = <<>> /\ tasks = <<>> /\ nrunning = 0
  /\ jobs = <<>> /\ idleOn = FALSE /\ fetched = <<>> /\ saved = {}
  /\ requests = <<>> /\ answers = <<>>
  /\ submitted = {} /\ waiting = {} /\ proving = {} /\ dead = FALSE
  /\ maxTasks = 1 /\ limit = 1

Free == fetched = <<>>      \* no handler is under way

(* The callback of an attempt is told that it is Running, or that it is    *)
(* Over (Done, Interrupted or InternalFailure).                            *)
Telling(last, status) ==
  IF last = "Scheduled" \/ (last = "Running" /\ status = "Over") THEN status ELSE "Wrong"
Told(a, status) == [told EXCEPT ![a] = Telling(told[a], status)]

(* The table of running attempts may have a goal several times.            *)
Copies(bag, g) == IF g \in DOMAIN bag THEN bag[g] ELSE 0
Added(bag, g) == Extend(bag, {g}, Copies(bag, g) + 1)
TakenOut(bag, g) ==
  IF Copies(bag, g) <= 1 THEN Without(bag, {g}) ELSE Extend(bag, {g}, bag[g] - 1)

-----------------------------------------------------------------------------
(* Attempts, transformations and strategies are scheduled.                 *)

(* Mutant: the idle handler is registered for the first attempt only.      *)
OnlyTheFirstTime == idleOn' = (idleOn \/ told = <<>>)

run_idle_handler == idleOn' = TRUE

schedule_proof_attempt(g, pc) ==
  /\ Len(told) < MaxAttempts
  /\ ses' = update_goal_node(graft_proof_attempt(ses, g), g)
  /\ queue' = Append(queue, [id |-> Len(told) + 1, goal |-> g, pc |-> pc])
  /\ running' = Added(running, g)
  /\ told' = Append(told, "Scheduled")
  /\ run_idle_handler

AlreadyExists(g) == TransOf(ses, g) # {}

(* exec_strategy: an exception (the goal was removed, the transformation   *)
(* exists) and the end of the strategy both leave everything as it is.     *)
(* This is the main loop of GTK, which goes on after an exception of an    *)
(* idle function; that of Unix_scheduler catches only Exit, so that there  *)
(* the program ends and has no further step.                               *)
Landing(pc) ==
  LET Goto(p) == p \in DOMAIN Strategy /\ Strategy[p].op = "goto"
      after[n \in Nat] ==
        IF n = 0 THEN pc
        ELSE IF Goto(after[n - 1]) THEN Strategy[after[n - 1]].to ELSE after[n - 1]
  IN  after[Len(Strategy)]

exec_strategy(pc, g, rest) ==
  LET at == Landing(pc)
      op == IF at \in DOMAIN Strategy /\ g \in Goals(ses) THEN Strategy[at].op ELSE "halt"
  IN  \/ /\ op = "prove"
         /\ schedule_proof_attempt(g, at)
         /\ jobs' = rest
      \/ /\ op = "transform" /\ ~AlreadyExists(g)
         /\ jobs' = Append(rest, [kind |-> "apply", goal |-> g, pc |-> at])
         /\ UNCHANGED <<sessionVars, queue, idleOn>>
      \/ /\ op = "halt" \/ (op = "transform" /\ AlreadyExists(g))
         /\ jobs' = rest
         /\ UNCHANGED <<sessionVars, queue, idleOn>>

(* The user's requests.                                                    *)
Prove(g) ==
  /\ Free /\ schedule_proof_attempt(g, NoStrategy)
  /\ UNCHANGED <<maxTasks, tasks, nrunning, jobs, fetched, saved, requests, answers, serverVars>>

run_strategy_on_goal(g) ==
  /\ Free /\ Len(jobs) < MaxJobs
  /\ \E pc \in Starts : exec_strategy(pc, g, jobs)
  /\ UNCHANGED <<maxTasks, tasks, nrunning, fetched, saved, requests, answers, serverVars>>

schedule_transformation(g) ==
  /\ Free /\ ~AlreadyExists(g)
  /\ Len(jobs) < MaxJobs
  /\ jobs' = Append(jobs, [kind |-> "apply", goal |-> g, pc |-> NoStrategy])
  /\ UNCHANGED <<sessionVars, maxTasks, queue, tasks, nrunning, idleOn, fetched, saved,
                 requests, answers, serverVars>>

(* The first of the registered functions: run_next, or apply_trans, which  *)
(* grafts the subtasks or fails; a strategy goes on after a failure that   *)
(* is not fatal (TSfailed, TSfatal).                                       *)
RunNext(pc, gs) == [i \in 1 .. Len(gs) |-> [kind |-> "next", goal |-> gs[i], pc |-> pc]]

RunIdleJob ==
  /\ Free /\ jobs # <<>>
  /\ LET j == Head(jobs)
         rest == Tail(jobs)
         t == ses.next
     IN  \/ j.kind = "next" /\ exec_strategy(j.pc, j.goal, rest)
         \/ /\ j.kind = "apply" /\ j.goal \in Goals(ses) /\ t <= MaxNodes
            /\ \E n \in Subtasks :
                 /\ ses' = update_trans_node(graft_transf(ses, j.goal, n), t)
                 /\ jobs' = IF j.pc = NoStrategy THEN rest
                            ELSE rest \o RunNext(Strategy[j.pc].to, [i \in 1 .. n |-> t + i])
            /\ UNCHANGED <<running, told, queue, idleOn>>
         \/ /\ j.kind = "apply"
            /\ jobs' = rest \/ (j.pc # NoStrategy /\ jobs' = rest \o RunNext(j.pc + 1, <<j.goal>>))
            /\ UNCHANGED <<sessionVars, queue, idleOn>>
  /\ UNCHANGED <<maxTasks, tasks, nrunning, fetched, saved, requests, answers, serverVars>>

-----------------------------------------------------------------------------
(* Attempts become calls of provers, calls end.                            *)

(* The callback of schedule_proof_attempt when attempt t has ended, s      *)
(* being the session with its result.                                      *)
Ended(t, s) ==
  /\ running' = TakenOut(running, t.goal)
  /\ ses' = update_goal_node(s, t.goal)
  /\ told' = Told(t.id, "Over")

(* build_prover_call makes a call of the next attempt.  It may fail before *)
(* anything is saved (no file for the goal can be written) or, with the    *)
(* data saved, when it writes to the server.                               *)
Request(kind, arg) == [kind |-> kind, arg |-> arg]

call_on_file(id) ==
  /\ saved' = saved \cup {id}
  /\ requests' = Append(requests, Request("run", id))

build_prover_call(t) ==
  \/ /\ ~dead
     /\ call_on_file(t.id)
     /\ tasks' = Extend(tasks, {t.id}, [id |-> t.id, goal |-> t.goal, pc |-> t.pc, started |-> FALSE])
     /\ UNCHANGED sessionVars
  \/ /\ saved' = saved \/ (dead /\ saved' = saved \cup {t.id})
     /\ Ended(t, ses)
     /\ UNCHANGED <<tasks, requests>>

idle_handler ==
  /\ Free /\ idleOn
  /\ Cardinality(DOMAIN tasks) < Multiplier * maxTasks
  /\ \/ /\ queue = <<>>
        /\ idleOn' = FALSE
        /\ UNCHANGED <<sessionVars, queue, tasks, saved, requests>>
     \/ /\ queue # <<>>
        /\ build_prover_call(Head(queue))
        /\ queue' = Tail(queue)
        /\ UNCHANGED idleOn
  /\ UNCHANGED <<maxTasks, nrunning, jobs, fetched, answers, serverVars>>

(* An answer F ends the saved data of its call.                            *)
handle_answer(ans) ==
  saved' = saved \ {ans[i].id : i \in {k \in DOMAIN ans : ans[k].kind = "F"}}

(* Some of the answers are read.                                           *)
get_new_results ==
  \E n \in 1 .. Len(answers) :
    /\ fetched' = SubSeq(answers, 1, n)
    /\ answers' = SubSeq(answers, n + 1, Len(answers))
    /\ handle_answer(SubSeq(answers, 1, n))

timeout_handler ==
  /\ Free /\ DOMAIN tasks # {}
  /\ get_new_results
  /\ UNCHANGED <<sessionVars, maxTasks, queue, tasks, nrunning, jobs, idleOn, requests, serverVars>>

(* One result, of any of the calls that have one.  Results of calls that   *)
(* are not in the table are ignored.                                       *)
FirstOfItsCall(i) == \A k \in 1 .. i - 1 : fetched[k].id # fetched[i].id

HandleResult(i) ==
  /\ FirstOfItsCall(i)
  /\ fetched' = SubSeq(fetched, 1, i - 1) \o SubSeq(fetched, i + 1, Len(fetched))
  /\ LET r == fetched[i]
         t == tasks[r.id]
     IN  \/ /\ r.id \notin DOMAIN tasks
            /\ UNCHANGED <<sessionVars, tasks, nrunning, jobs>>
         \/ /\ r.id \in DOMAIN tasks /\ r.kind = "S"
            /\ ses' = update_goal_node(ses, t.goal)
            /\ told' = Told(r.id, "Running")
            /\ nrunning' = nrunning + 1
            /\ tasks' = [tasks EXCEPT ![r.id].started = TRUE]
            /\ UNCHANGED <<running, jobs>>
         \/ /\ r.id \in DOMAIN tasks /\ r.kind = "F"
            /\ tasks' = Without(tasks, {r.id})
            /\ nrunning' = IF t.started THEN nrunning - 1 ELSE nrunning
            /\ Ended(t, update_proof_attempt(ses, t.goal, r.valid))
            /\ jobs' = IF t.pc = NoStrategy \/ r.valid THEN jobs
                       ELSE jobs \o RunNext(t.pc + 1, <<t.goal>>)
  /\ UNCHANGED <<maxTasks, queue, idleOn, saved, requests, answers, serverVars>>

interrupt_call(calls) ==
  requests' = requests \o [i \in 1 .. Len(calls) |-> Request("interrupt", calls[i])]

(* Attempts without an end wait in the queue or have a call in the table.  *)
Entry(t) == [id |-> t.id, goal |-> t.goal]
Pending == {Entry(queue[i]) : i \in DOMAIN queue} \cup {Entry(tasks[a]) : a \in DOMAIN tasks}
PendingIds == {p.id : p \in Pending}
PendingOn(g) == {p \in Pending : p.goal = g}

(* The callbacks of all of them, in the order of the attempts.             *)
CalledBack(s, n) ==
  IF n \notin PendingIds THEN s
  ELSE update_goal_node(s, (CHOOSE p \in Pending : p.id = n).goal)
AllUpdated ==
  LET after[n \in Nat] == IF n = 0 THEN ses ELSE CalledBack(after[n - 1], n)
  IN  after

Orders(S) == {f \in [1 .. Cardinality(S) -> S] : \A i, j \in DOMAIN f : f[i] = f[j] => i = j}

(* The calls in the table are interrupted first, then the queue; with a    *)
(* dead server the first interrupt_call raises and nothing has changed.    *)
EndAll(kept) ==
  /\ Free /\ Pending # {} /\ (DOMAIN tasks # {} => ~dead)
  /\ \E calls \in Orders(DOMAIN tasks) : interrupt_call(calls)
  /\ LET left(g) == running[g] - Cardinality(PendingOn(g))
     IN  running' = [g \in {h \in DOMAIN running : left(h) > 0} |-> left(g)]
  /\ ses' = AllUpdated[Len(told)]
  /\ told' = [a \in DOMAIN told |->
               IF a \in PendingIds THEN Telling(told[a], "Over") ELSE told[a]]
  /\ tasks' = kept /\ nrunning' = 0 /\ queue' = <<>>
  /\ UNCHANGED <<maxTasks, jobs, idleOn, fetched, saved, answers, serverVars>>

(* Mutant: the table is not cleared, and late answers find their calls.    *)
TableKept == EndAll(tasks)

interrupt == EndAll(<<>>)

(* A number that is not positive is kept, and only then is it refused: the *)
(* exception comes before anything is sent.                                *)
set_max_running_provers(n) ==
  requests' = IF n <= 0 \/ dead THEN requests ELSE Append(requests, Request("parallel", n))

(* Bound: a number above 1, the default, is not changed any more.          *)
set_session_max_tasks(n) ==
  /\ Free /\ maxTasks <= 1 /\ n # maxTasks
  /\ maxTasks' = n
  /\ set_max_running_provers(n)
  /\ UNCHANGED <<sessionVars, queue, tasks, nrunning, jobs, idleOn, fetched, saved, answers, serverVars>>

-----------------------------------------------------------------------------
(* Nodes are removed, or attempts marked as obsolete, at the user's wish.  *)

(* A node is a transformation, or the goal of an attempt.                  *)
Nodes(s) == DOMAIN s.att \cup DOMAIN s.trans

(* Mutant: attempts that have not ended are removed too.                   *)
AlwaysRemovable(s, node) == TRUE

check_removable(s, node) ==
  LET gs == IF node \in DOMAIN s.att THEN {node} ELSE GoalsUnder(s, node)
  IN  gs \cap DOMAIN running = {}

remove_subtree(s, node) ==
  IF ~check_removable(s, node) THEN s
  ELSE IF node \in DOMAIN s.att THEN remove_proof_attempt(s, node)
  ELSE remove_transformation(s, node)

(* Mutant: every transformation of a proved goal goes.                     *)
AnyTransf(s, node) ==
  IF node \in DOMAIN s.att THEN s.pn[node] /\ ~s.att[node]
  ELSE s.pn[s.trans[node].parent]

(* Of a proved goal: what is not needed for its proof.                     *)
Needless(s, node) ==
  IF node \in DOMAIN s.att THEN s.pn[node] /\ ~s.att[node]
  ELSE s.pn[s.trans[node].parent] /\ ~s.tn[node]

(* What fold_all_session makes of the session as it removes nodes, leaves  *)
(* first: a node comes before the older ones, its parent among them.  What *)
(* has not been visited is still there.                                    *)
Removed(onlyNeedless) ==
  LET after[n \in Nat] ==
        LET s == after[n - 1]
            node == ses.next - n
        IN  IF n = 0 THEN ses
            ELSE IF node \in Nodes(s) /\ (onlyNeedless => Needless(s, node))
                 THEN remove_subtree(s, node)
            ELSE s
  IN  after

OnSession ==
  /\ Free
  /\ UNCHANGED <<running, told, clientVars, requests, answers, serverVars>>

remove_node ==
  /\ OnSession
  /\ \E node \in Nodes(ses) : ses' = remove_subtree(ses, node)

clean == OnSession /\ ses' = Removed(TRUE)[ses.next]

reset_proofs == OnSession /\ ses' = Removed(FALSE)[ses.next]

mark_as_obsolete ==
  /\ OnSession
  /\ \E g \in DOMAIN ses.att : ses' = mark_obsolete(ses, g)

-----------------------------------------------------------------------------
(* The server: what JobPool allows, the answers S and F it sends, and its  *)
(* death.  An interrupt makes a waiting call vanish without an answer; the *)
(* prover of a running one is killed and ends like any other.              *)

Answer(kind, id, valid) == [kind |-> kind, id |-> id, valid |-> valid]
StartTold(j) == answers' = IF j \in proving' THEN Append(answers, Answer("S", j, FALSE)) ELSE answers

ServerReads ==
  /\ ~dead /\ requests # <<>>
  /\ requests' = Tail(requests)
  /\ LET r == Head(requests)
     IN  \/ r.kind = "run" /\ Pool!Submit(r.arg) /\ StartTold(r.arg)
         \/ /\ r.kind = "interrupt" /\ r.arg \in waiting
            /\ Pool!GiveUp({r.arg}) /\ UNCHANGED answers
         \/ r.kind = "parallel" /\ Pool!SetLimit(r.arg) /\ UNCHANGED answers
         \/ /\ r.kind = "interrupt" /\ r.arg \notin waiting
            /\ UNCHANGED <<submitted, waiting, proving, limit, answers>>
  /\ UNCHANGED <<sessionVars, clientVars, dead>>

ServerStarts ==
  /\ \E j \in waiting : Pool!Start(j) /\ StartTold(j)
  /\ UNCHANGED <<sessionVars, clientVars, requests, dead>>

ProverEnds ==
  /\ \E j \in proving, valid \in BOOLEAN :
       /\ Pool!Finish(j)
       /\ answers' = Append(answers, Answer("F", j, valid))
  /\ UNCHANGED <<sessionVars, clientVars, requests, dead>>

ServerDies ==
  /\ ~dead /\ dead' = TRUE
  /\ requests' = <<>> /\ waiting' = {} /\ proving' = {}
  /\ UNCHANGED <<sessionVars, clientVars, answers, submitted, limit>>

-----------------------------------------------------------------------------
TimeoutHandler == timeout_handler \/ \E i \in DOMAIN fetched : HandleResult(i)
Client == RunIdleJob \/ idle_handler \/ TimeoutHandler
User ==
  \/ \E g \in Goals(ses) : Prove(g) \/ run_strategy_on_goal(g) \/ schedule_transformation(g)
  \/ \E n \in MaxTasks : set_session_max_tasks(n)
  \/ interrupt \/ remove_node \/ clean \/ reset_proofs \/ mark_as_obsolete
Server == ServerReads \/ ServerStarts \/ ProverEnds
Next == Client \/ User \/ Server \/ ServerDies

(* The main loop calls the two handlers again and again; the server takes  *)
(* steps (VCServer shows it), and every prover ends at its time limit.     *)
Spec ==
  /\ Init /\ [][Next]_vars
  /\ WF_vars(idle_handler) /\ WF_vars(TimeoutHandler) /\ WF_vars(Server)

-----------------------------------------------------------------------------
(* Whoever asked for an attempt is told Scheduled, at most once Running    *)
(* and then exactly one end, whatever arrives late after an interrupt      *)
(* (timeout_handler, interrupt); an attempt without an end is in the queue *)
(* or in the table.                                                        *)
EndsOnce ==
  \A a \in DOMAIN told :
    told[a] # "Wrong" /\ (told[a] = "Over" <=> a \notin PendingIds)

(* The counters and tables agree: number_of_running_provers with the       *)
(* table; controller_running_proof_attempts with the attempts that have    *)
(* not ended, whose nodes are therefore never removed under them; and      *)
(* saved_data has every call whose answer handle_answer may still look up. *)
TablesAgree ==
  /\ nrunning = Cardinality({a \in DOMAIN tasks : tasks[a].started})
  /\ \A g \in {p.goal : p \in Pending} \cup DOMAIN running :
       Copies(running, g) = Cardinality(PendingOn(g))
  /\ \A p \in Pending : p.goal \in DOMAIN ses.att
  /\ waiting \cup proving \cup {answers[i].id : i \in {k \in DOMAIN answers : answers[k].kind = "F"}}
       \subseteq saved

(* The cached status of every node is what its children give, after        *)
(* results, grafts, removals and marks in any order (update_goal_node and  *)
(* the propagation to the parents).                                        *)
StatusSound ==
  /\ \A g \in Goals(ses) : ses.pn[g] <=> GoalProved(ses, g)
  /\ \A t \in DOMAIN ses.trans : ses.tn[t] <=> AllProved(ses, ses.trans[t].subtasks)
  /\ ses.th <=> AllProved(ses, Roots)

(* "clean should not change proved status" (controller_itp.ml:886): of no  *)
(* goal that stays, and no goal of the theory goes.                        *)
CleanKeepsStatus ==
  [][clean => /\ Roots \subseteq Goals(ses') /\ ses'.th = ses.th
              /\ \A g \in Goals(ses') : ses'.pn[g] = ses.pn[g]]_vars

(* "check if transformation already present with the same parameters. this *)
(* should always fail" (session_itp.ml:1611), when a reload applies the    *)
(* transformations of each goal again: none has the same one twice.        *)
NoTransfTwice == \A g \in Goals(ses) : Cardinality(TransOf(ses, g)) <= 1

(* Attempts do not stay pending for ever, as users do not ask for new ones *)
(* for ever, with two exceptions.  The server may die: read_from_client    *)
(* takes the end of file for a read without data, and the table is never   *)
(* emptied.  And set_session_max_tasks keeps a number it refuses, which    *)
(* closes the window of idle_handler: the queue then stays as it is, and   *)
(* only the attempts that have a call end.                                 *)
AttemptsEnd ==
  Pending # {} ~> (dead \/ (maxTasks <= 0 /\ DOMAIN tasks = {}) \/ Pending = {})
=============================================================================
