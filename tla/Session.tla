------------------------------- MODULE Session -------------------------------
(***************************************************************************)
(* The proof session of session_itp.ml as the scheduler uses it: one       *)
(* theory of goals, proof attempts of one prover and transformations on    *)
(* goals, and the cached proved status of every node.  Goals and           *)
(* transformations are numbered together in the order they are made, the   *)
(* goals of the theory first.  A session is a record, an operation maps it *)
(* to the session it leaves:                                               *)
(*    parent  goal -> the transformation it is a subtask of, 0 for a goal  *)
(*            of the theory (proofNode_table)                              *)
(*    att     goal -> pa_ok (valid and not obsolete) of its attempt, for   *)
(*            the goals with one; no status depends on more of a result    *)
(*    trans   transformation -> [parent, subtasks]                         *)
(*    next    the number of the next node                                  *)
(*    pn, tn, th   the tables pn_state, tn_state and th_state              *)
(***************************************************************************)
EXTENDS Integers, FiniteSets, Sequences

CONSTANT NGoals     \* goals of the theory

ASSUME NGoalsAssumption == NGoals \in Nat \ {0}

Roots == 1 .. NGoals

NewSession ==
    [parent |-> [g \in Roots |-> 0], att |-> <<>>, trans |-> <<>>, next |-> NGoals + 1,
     pn |-> [g \in Roots |-> FALSE], tn |-> <<>>, th |-> FALSE]

Goals(s) == DOMAIN s.parent
TransOf(s, g) == {t \in DOMAIN s.trans : s.trans[t].parent = g}
Without(f, S) == [x \in DOMAIN f \ S |-> f[x]]
Extend(f, S, v) == [x \in DOMAIN f \cup S |-> IF x \in S THEN v ELSE f[x]]

GoalProved(s, g) ==
    (\E t \in TransOf(s, g) : s.tn[t]) \/ (g \in DOMAIN s.att /\ s.att[g])
AllProved(s, gs) == \A g \in gs : s.pn[g]

-----------------------------------------------------------------------------
(* A status that changes is propagated to the parent: the functions        *)
(* update_goal_node and update_trans_node call each other.  What one call  *)
(* gives is the session and the call it ends with, of a goal or of a       *)
(* transformation, or none.                                                *)
Call(s, on, id) == [ses |-> s, on |-> on, id |-> id]
Return(s) == Call(s, "none", 0)

update_theory_node(s) == [s EXCEPT !.th = AllProved(s, Roots)]

GoalCall(s, g) ==
    LET proved == GoalProved(s, g)
        s1 == [s EXCEPT !.pn[g] = proved]
    IN  IF proved = s.pn[g] THEN Return(s)
        ELSE IF s.parent[g] = 0 THEN Return(update_theory_node(s1))
        ELSE Call(s1, "trans", s.parent[g])

(* Mutant: a transformation without subtasks does not update its goal.     *)
OnlyOnChange(s, t) ==
    LET proved == AllProved(s, s.trans[t].subtasks)
    IN  IF proved = s.tn[t] THEN Return(s)
        ELSE Call([s EXCEPT !.tn[t] = proved], "goal", s.trans[t].parent)

(* A transformation without subtasks is proved when it is made: its goal   *)
(* is updated although nothing changes here.                               *)
TransCall(s, t) ==
    LET proved == AllProved(s, s.trans[t].subtasks)
    IN  IF proved = s.tn[t] /\ s.trans[t].subtasks # {} THEN Return(s)
        ELSE Call([s EXCEPT !.tn[t] = proved], "goal", s.trans[t].parent)

OneCall(c) == IF c.on = "goal" THEN GoalCall(c.ses, c.id) ELSE TransCall(c.ses, c.id)

(* The calls that have come about after n of them: one, until it returns.  *)
(* They go to older and older nodes, so that there are no more than nodes. *)
Calls(c) ==
    LET after[n \in Nat] ==
            IF n = 0 THEN {c} ELSE {OneCall(d) : d \in {e \in after[n - 1] : e.on # "none"}}
    IN  after
Result(c) ==
    (CHOOSE d \in UNION {Calls(c)[n] : n \in 1 .. c.ses.next} : d.on = "none").ses

update_goal_node(s, g) == Result(Call(s, "goal", g))
update_trans_node(s, t) == Result(Call(s, "trans", t))

-----------------------------------------------------------------------------
graft_proof_attempt(s, g) == [s EXCEPT !.att = Extend(s.att, {g}, FALSE)]

update_proof_attempt(s, g, valid) == [s EXCEPT !.att[g] = valid]

mark_obsolete(s, g) == update_goal_node([s EXCEPT !.att[g] = FALSE], g)

(* graft_transf with n subtasks.                                           *)
graft_transf(s, g, n) ==
    LET t == s.next
        subs == t + 1 .. t + n
    IN  [s EXCEPT !.parent = Extend(s.parent, subs, t),
                  !.trans = Extend(s.trans, {t}, [parent |-> g, subtasks |-> subs]),
                  !.next = t + n + 1,
                  !.pn = Extend(s.pn, subs, FALSE),
                  !.tn = Extend(s.tn, {t}, n = 0)]

(* The transformations under t, itself among them: those in every set that *)
(* has t and, with a transformation, the ones of its subtasks.             *)
ClosedDown(s, T) ==
    \A u \in T, v \in DOMAIN s.trans : s.trans[v].parent \in s.trans[u].subtasks => v \in T
Under(s, t) ==
    {u \in DOMAIN s.trans :
       \A T \in SUBSET DOMAIN s.trans : t \in T /\ ClosedDown(s, T) => u \in T}
GoalsUnder(s, t) == UNION {s.trans[u].subtasks : u \in Under(s, t)}

(* remove_subtree of a transformation and of a proof attempt.              *)
remove_transformation(s, t) ==
    LET gs == GoalsUnder(s, t)
        ts == Under(s, t)
    IN  update_goal_node([s EXCEPT !.parent = Without(s.parent, gs), !.att = Without(s.att, gs),
                                   !.trans = Without(s.trans, ts),
                                   !.pn = Without(s.pn, gs), !.tn = Without(s.tn, ts)],
                         s.trans[t].parent)

remove_proof_attempt(s, g) == update_goal_node([s EXCEPT !.att = Without(s.att, {g})], g)
=============================================================================
