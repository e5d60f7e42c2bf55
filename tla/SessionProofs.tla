---------------------------- MODULE SessionProofs ----------------------------
(***************************************************************************)
(* Theorems about the session: induction over numbers and runs, then what  *)
(* the calls of update_goal_node and update_trans_node do to a sound tree  *)
(* of any shape, what grafting, removing and marking do to it, and the     *)
(* files it is saved in.  ControllerProofs rests on it.                    *)
(***************************************************************************)
EXTENDS Session, SessionFile, WellFoundedInduction, NaturalsInduction, TLAPS

(* A set of naturals has a least element.                                  *)
LEMMA Least == ASSUME NEW S, S \subseteq Nat, S # {} PROVE \E m \in S : \A n \in S : m <= n
<1>1. PICK m \in S : \A n \in Nat : n < m => n \notin S
  <2>1. IsWellFoundedOn(OpToRel(<, Nat), Nat)
    BY NatLessThanWellFounded, Zenon
  <2>2. PICK m \in S : \A y \in S : ~ (<<y, m>> \in OpToRel(<, Nat))
    BY <2>1, WFMin, Zenon
  <2>3. QED
    BY <2>2, Zenon DEF OpToRel
<1>2. QED
  BY <1>1

(* Induction, over a set of naturals.                                      *)
LEMMA Induction ==
  ASSUME NEW S, 0 \in S, \A n \in Nat : n \in S => n + 1 \in S
  PROVE  \A n \in Nat : n \in S
<1>1. Nat \ S = {}
  <2>1. SUFFICES ASSUME Nat \ S # {} PROVE FALSE
    OBVIOUS
  <2>2. PICK m \in Nat \ S : \A n \in Nat \ S : m <= n
    BY <2>1, Least
  <2>3. m - 1 \in Nat /\ (m - 1) + 1 = m
    BY <2>2
  <2>4. m - 1 \in S
    BY <2>2, <2>3
  <2>5. QED
    BY <2>2, <2>3, <2>4
<1>2. QED
  BY <1>1

(* A step applied again and again.                                         *)
Runs(x, F, m, a) == a[0] = x /\ \A n \in Nat : n < m => a[n + 1] = F[n][a[n]]

LEMMA RunsAgree ==
  ASSUME NEW V, NEW x \in V, NEW F \in [Nat -> [V -> V]],
         NEW m \in Nat, NEW a, NEW b, Runs(x, F, m, a), Runs(x, F, m, b)
  PROVE  \A n \in 0 .. m : a[n] = b[n] /\ a[n] \in V
<1> DEFINE S == {n \in Nat : n <= m => a[n] = b[n] /\ a[n] \in V}
<1>1. 0 \in S
  BY DEF Runs
<1>2. ASSUME NEW n \in Nat, n \in S PROVE n + 1 \in S
  <2>1. CASE n + 1 <= m
    <3>1. a[n] = b[n] /\ a[n] \in V /\ n < m
      BY <1>2, <2>1
    <3>2. a[n + 1] = F[n][a[n]] /\ b[n + 1] = F[n][b[n]]
      BY <3>1 DEF Runs
    <3>3. F[n][a[n]] \in V
      BY <3>1
    <3>4. QED
      BY <3>1, <3>2, <3>3
  <2>2. CASE ~(n + 1 <= m)
    BY <2>2
  <2>3. QED
    BY <2>1, <2>2
<1>3. \A n \in Nat : n \in S
  <2> HIDE DEF S
  <2>1. QED
    BY <1>1, <1>2, Induction
<1>4. QED
  BY <1>3

StepsOn(V) == [Nat -> [V -> V]]
RunOf(x, F, V, a) == a \in [Nat -> V] /\ a[0] = x /\ \A n \in Nat : a[n + 1] = F[n][a[n]]

LEMMA RunsExist ==
  ASSUME NEW V, NEW x \in V, NEW F \in StepsOn(V)
  PROVE  \E a : RunOf(x, F, V, a)
<1>0. F \in [Nat -> [V -> V]]
  BY DEF StepsOn
<1> DEFINE S == {m \in Nat : \E a : Runs(x, F, m, a)}
<1>1. 0 \in S
  <2>1. Runs(x, F, 0, [n \in {0} |-> x])
    BY DEF Runs
  <2>2. QED
    BY <2>1
<1>2. \A m \in Nat : m \in S => m + 1 \in S
  <2>1. SUFFICES ASSUME NEW m \in Nat, NEW a, Runs(x, F, m, a) PROVE \E b : Runs(x, F, m + 1, b)
    OBVIOUS
  <2> DEFINE b == [n \in Nat |-> IF n = m + 1 THEN F[m][a[m]] ELSE a[n]]
  <2>2. Runs(x, F, m + 1, b)
    BY <2>1 DEF Runs
  <2>3. QED
    BY <2>2
<1>3. \A m \in Nat : \E a : Runs(x, F, m, a)
  <2>1. \A m \in Nat : m \in S
    <3> HIDE DEF S
    <3>1. QED
      BY <1>1, <1>2, Induction
  <2>2. QED
    BY <2>1
<1> DEFINE r == [m \in Nat |-> CHOOSE a : Runs(x, F, m, a)]
<1>4. \A m \in Nat : Runs(x, F, m, r[m])
  BY <1>3, Zenon
<1> HIDE DEF r
<1>5. \A m \in Nat : Runs(x, F, m, r[m + 1])
  <2>1. SUFFICES ASSUME NEW m \in Nat PROVE Runs(x, F, m, r[m + 1])
    OBVIOUS
  <2>2. Runs(x, F, m + 1, r[m + 1])
    BY <1>4
  <2>3. QED
    BY <2>2 DEF Runs
<1>6. \A m \in Nat : \A n \in 0 .. m : r[m][n] = r[m + 1][n] /\ r[m][n] \in V
  <2>1. SUFFICES ASSUME NEW m \in Nat PROVE \A n \in 0 .. m : r[m][n] = r[m + 1][n] /\ r[m][n] \in V
    OBVIOUS
  <2>2. Runs(x, F, m, r[m]) /\ Runs(x, F, m, r[m + 1])
    BY <1>4, <1>5
  <2>3. QED
    BY <2>2, <1>0, RunsAgree
<1> DEFINE a == [m \in Nat |-> r[m][m]]
<1>7. a \in [Nat -> V]
  BY <1>6
<1>8. a[0] = x
  BY <1>4 DEF Runs
<1>9. ASSUME NEW n \in Nat PROVE a[n + 1] = F[n][a[n]]
  <2>1. r[n + 1][n + 1] = F[n][r[n + 1][n]]
    BY <1>4 DEF Runs
  <2>2. r[n + 1][n] = r[n][n]
    BY <1>6
  <2>3. QED
    BY <2>1, <2>2
<1>10. QED
  BY <1>7, <1>8, <1>9 DEF RunOf

-----------------------------------------------------------------------------
(* The shape of a session.  The number of a node is greater than those of  *)
(* the nodes above it.                                                     *)
Funs(R) == UNION {[D -> R] : D \in SUBSET Nat}
Sessions ==
  [parent : Funs(Nat), att : Funs(BOOLEAN),
   trans : Funs([parent : Nat, subtasks : SUBSET Nat]), next : Nat,
   pn : Funs(BOOLEAN), tn : Funs(BOOLEAN), th : BOOLEAN]

Tree(s) ==
  /\ s \in Sessions
  /\ DOMAIN s.pn = Goals(s) /\ DOMAIN s.att \subseteq Goals(s) /\ DOMAIN s.tn = DOMAIN s.trans
  /\ \A n \in Goals(s) \cup DOMAIN s.trans : 0 < n /\ n < s.next
  /\ Goals(s) \cap DOMAIN s.trans = {}
  /\ Roots \subseteq Goals(s)
  /\ \A g \in Goals(s) : s.parent[g] = 0 <=> g \in Roots
  /\ \A g \in Goals(s) : s.parent[g] # 0 => s.parent[g] \in DOMAIN s.trans /\ s.parent[g] < g
  /\ \A t \in DOMAIN s.trans :
       /\ s.trans[t].parent \in Goals(s) /\ s.trans[t].parent < t
       /\ s.trans[t].subtasks = {g \in Goals(s) : s.parent[g] = t}

(* The cached status of every node outside X is what its children give.    *)
SoundBut(s, X) ==
  /\ \A g \in Goals(s) \ X : s.pn[g] <=> GoalProved(s, g)
  /\ \A t \in DOMAIN s.trans \ X : s.tn[t] <=> AllProved(s, s.trans[t].subtasks)
  /\ s.th <=> AllProved(s, Roots)

SameTree(s, s0) ==
  s.parent = s0.parent /\ s.att = s0.att /\ s.trans = s0.trans /\ s.next = s0.next

LEMMA FunsDef == ASSUME NEW R, NEW f PROVE f \in Funs(R) <=> DOMAIN f \subseteq Nat /\ f \in [DOMAIN f -> R]
<1>1. ASSUME f \in Funs(R) PROVE DOMAIN f \subseteq Nat /\ f \in [DOMAIN f -> R]
  <2>1. PICK D \in SUBSET Nat : f \in [D -> R]
    BY <1>1 DEF Funs
  <2>2. QED
    BY <2>1
<1>2. ASSUME DOMAIN f \subseteq Nat, f \in [DOMAIN f -> R] PROVE f \in Funs(R)
  BY <1>2 DEF Funs
<1>3. QED
  BY <1>1, <1>2

LEMMA SessionFields ==
  ASSUME NEW s \in Sessions
  PROVE  /\ s.parent \in [DOMAIN s.parent -> Nat] /\ DOMAIN s.parent \subseteq Nat
         /\ s.att \in [DOMAIN s.att -> BOOLEAN] /\ DOMAIN s.att \subseteq Nat
         /\ s.trans \in [DOMAIN s.trans -> [parent : Nat, subtasks : SUBSET Nat]]
         /\ DOMAIN s.trans \subseteq Nat
         /\ s.pn \in [DOMAIN s.pn -> BOOLEAN] /\ DOMAIN s.pn \subseteq Nat
         /\ s.tn \in [DOMAIN s.tn -> BOOLEAN] /\ DOMAIN s.tn \subseteq Nat
         /\ s.next \in Nat /\ s.th \in BOOLEAN
<1>1. /\ s.parent \in Funs(Nat) /\ s.att \in Funs(BOOLEAN)
      /\ s.trans \in Funs([parent : Nat, subtasks : SUBSET Nat])
      /\ s.pn \in Funs(BOOLEAN) /\ s.tn \in Funs(BOOLEAN)
      /\ s.next \in Nat /\ s.th \in BOOLEAN
  BY DEF Sessions
<1>2. QED
  BY <1>1, FunsDef

(* The status of one node changes.                                         *)
LEMMA SetGoal ==
  ASSUME NEW s, Tree(s), NEW g \in Goals(s), NEW b \in BOOLEAN
  PROVE  LET s1 == [s EXCEPT !.pn[g] = b]
         IN  /\ Tree(s1) /\ SameTree(s1, s)
             /\ s1.pn = [s.pn EXCEPT ![g] = b] /\ s1.tn = s.tn /\ s1.th = s.th
<1> DEFINE s1 == [s EXCEPT !.pn[g] = b]
<1>1. s \in Sessions /\ DOMAIN s.pn = Goals(s)
  BY DEF Tree
<1>2. s.pn \in [DOMAIN s.pn -> BOOLEAN] /\ DOMAIN s.pn \subseteq Nat
  BY <1>1, SessionFields
<1>3. [s.pn EXCEPT ![g] = b] \in Funs(BOOLEAN)
  BY <1>1, <1>2, FunsDef
<1>4. s1 \in Sessions
  BY <1>1, <1>3 DEF Sessions
<1>5. SameTree(s1, s) /\ s1.pn = [s.pn EXCEPT ![g] = b] /\ s1.tn = s.tn /\ s1.th = s.th
  BY <1>1 DEF Sessions, SameTree
<1>6. Tree(s1)
  BY <1>1, <1>2, <1>4, <1>5 DEF Tree, SameTree, Goals
<1>7. QED
  BY <1>5, <1>6

LEMMA SetTrans ==
  ASSUME NEW s, Tree(s), NEW t \in DOMAIN s.trans, NEW b \in BOOLEAN
  PROVE  LET s1 == [s EXCEPT !.tn[t] = b]
         IN  /\ Tree(s1) /\ SameTree(s1, s)
             /\ s1.tn = [s.tn EXCEPT ![t] = b] /\ s1.pn = s.pn /\ s1.th = s.th
<1> DEFINE s1 == [s EXCEPT !.tn[t] = b]
<1>1. s \in Sessions /\ DOMAIN s.tn = DOMAIN s.trans
  BY DEF Tree
<1>2. s.tn \in [DOMAIN s.tn -> BOOLEAN] /\ DOMAIN s.tn \subseteq Nat
  BY <1>1, SessionFields
<1>3. [s.tn EXCEPT ![t] = b] \in Funs(BOOLEAN)
  BY <1>1, <1>2, FunsDef
<1>4. s1 \in Sessions
  BY <1>1, <1>3 DEF Sessions
<1>5. SameTree(s1, s) /\ s1.tn = [s.tn EXCEPT ![t] = b] /\ s1.pn = s.pn /\ s1.th = s.th
  BY <1>1 DEF Sessions, SameTree
<1>6. Tree(s1)
  BY <1>1, <1>2, <1>4, <1>5 DEF Tree, SameTree, Goals
<1>7. QED
  BY <1>5, <1>6

LEMMA SetTheory ==
  ASSUME NEW s, Tree(s), NEW b \in BOOLEAN
  PROVE  LET s1 == [s EXCEPT !.th = b]
         IN  Tree(s1) /\ SameTree(s1, s) /\ s1.th = b /\ s1.pn = s.pn /\ s1.tn = s.tn
<1> DEFINE s1 == [s EXCEPT !.th = b]
<1>1. s \in Sessions
  BY DEF Tree
<1>2. s1 \in Sessions
  BY <1>1 DEF Sessions
<1>3. SameTree(s1, s) /\ s1.th = b /\ s1.pn = s.pn /\ s1.tn = s.tn
  BY <1>1 DEF Sessions, SameTree
<1>4. Tree(s1)
  BY <1>2, <1>3 DEF Tree, SameTree, Goals
<1>5. QED
  BY <1>3, <1>4

-----------------------------------------------------------------------------
(* update_goal_node and update_trans_node.  The node of the next call is   *)
(* the only one that may be wrong; a transformation without subtasks also  *)
(* updates its goal.                                                       *)
Wrong(c) ==
  CASE c.on = "goal" -> {c.id}
    [] c.on = "trans" ->
         {c.id} \cup (IF c.ses.trans[c.id].subtasks = {} THEN {c.ses.trans[c.id].parent} ELSE {})
    [] OTHER -> {}

CallInv(s0, c) ==
  /\ c \in [ses : Sessions, on : {"goal", "trans", "none"}, id : Nat]
  /\ Tree(c.ses) /\ SameTree(c.ses, s0)
  /\ c.on = "goal" => c.id \in Goals(c.ses)
  /\ c.on = "trans" => c.id \in DOMAIN c.ses.trans
  /\ SoundBut(c.ses, Wrong(c))

LEMMA GoalProvedSame ==
  ASSUME NEW s, NEW s1, SameTree(s1, s), NEW g,
         \A t \in TransOf(s, g) : s1.tn[t] = s.tn[t]
  PROVE  GoalProved(s1, g) <=> GoalProved(s, g)
  BY DEF GoalProved, TransOf, SameTree

LEMMA GoalCallInv ==
  ASSUME NEW s0, NEW c, CallInv(s0, c), c.on = "goal"
  PROVE  /\ CallInv(s0, GoalCall(c.ses, c.id))
         /\ GoalCall(c.ses, c.id).on # "none" => GoalCall(c.ses, c.id).id < c.id
<1> DEFINE s == c.ses
           g == c.id
           p == GoalProved(s, g)
           s1 == [s EXCEPT !.pn[g] = p]
<1>1. /\ s \in Sessions /\ Tree(s) /\ SameTree(s, s0) /\ g \in Goals(s) /\ g \in Nat
      /\ SoundBut(s, {g})
  BY DEF CallInv, Wrong
<1>2. p \in BOOLEAN
  BY DEF GoalProved
<1>3. s.pn \in [Goals(s) -> BOOLEAN] /\ s.parent \in [Goals(s) -> Nat]
  BY <1>1, SessionFields DEF Tree, Goals
<1> HIDE DEF p
<1>4. CASE p = s.pn[g]
  <2>1. GoalCall(s, g) = Return(s)
    BY <1>4 DEF GoalCall, p
  <2>2. SoundBut(s, {})
    <3>1. s.pn[g] <=> GoalProved(s, g)
      BY <1>4, <1>2, <1>3 DEF p
    <3>2. \A h \in Goals(s) : s.pn[h] <=> GoalProved(s, h)
      <4>1. SUFFICES ASSUME NEW h \in Goals(s) PROVE s.pn[h] <=> GoalProved(s, h)
        OBVIOUS
      <4>2. CASE h = g
        BY <4>2, <3>1
      <4>3. CASE h # g
        BY <4>3, <1>1 DEF SoundBut
      <4>4. QED
        BY <4>2, <4>3
    <3>3. \A t \in DOMAIN s.trans : t # g
      BY <1>1 DEF Tree
    <3>4. QED
      BY <3>2, <3>3, <1>1 DEF SoundBut
  <2>3. Return(s) \in [ses : Sessions, on : {"goal", "trans", "none"}, id : Nat]
    BY <1>1 DEF Return, Call
  <2>4. Return(s).ses = s /\ Return(s).on = "none"
    BY DEF Return, Call
  <2>5. Wrong(Return(s)) = {}
    BY <2>4 DEF Wrong
  <2>6. QED
    BY <2>1, <2>2, <2>3, <2>4, <2>5, <1>1 DEF CallInv
<1>5. CASE p # s.pn[g]
  <2>1. /\ Tree(s1) /\ SameTree(s1, s)
        /\ s1.pn = [s.pn EXCEPT ![g] = p] /\ s1.tn = s.tn /\ s1.th = s.th
    BY <1>1, <1>2, SetGoal
  <2>2. Goals(s1) = Goals(s) /\ DOMAIN s1.trans = DOMAIN s.trans /\ s1 \in Sessions
    BY <2>1 DEF SameTree, Goals, Tree
  <2>3. \A h \in Goals(s1) : s1.pn[h] <=> GoalProved(s1, h)
    <3>1. SUFFICES ASSUME NEW h \in Goals(s) PROVE s1.pn[h] <=> GoalProved(s1, h)
      BY <2>2
    <3>2. GoalProved(s1, h) <=> GoalProved(s, h)
      BY <2>1, GoalProvedSame
    <3>3. CASE h = g
      BY <3>2, <3>3, <2>1, <1>2, <1>3 DEF p
    <3>4. CASE h # g
      BY <3>2, <3>4, <2>1, <1>1, <1>3 DEF SoundBut
    <3>5. QED
      BY <3>3, <3>4
  <2>4. \A t \in DOMAIN s1.trans : t # s.parent[g] =>
           (s1.tn[t] <=> AllProved(s1, s1.trans[t].subtasks))
    <3>1. SUFFICES ASSUME NEW t \in DOMAIN s.trans, t # s.parent[g]
                   PROVE  s1.tn[t] <=> AllProved(s1, s1.trans[t].subtasks)
      BY <2>2
    <3>2. g \notin s.trans[t].subtasks /\ s.trans[t].subtasks \subseteq Goals(s) /\ t \notin {g}
      BY <3>1, <1>1 DEF Tree
    <3>3. AllProved(s1, s.trans[t].subtasks) <=> AllProved(s, s.trans[t].subtasks)
      BY <3>2, <2>1, <1>3 DEF AllProved
    <3>4. QED
      BY <3>2, <3>3, <2>1, <1>1 DEF SoundBut, SameTree
  <2>5. CASE s.parent[g] = 0
    <3> DEFINE s2 == update_theory_node(s1)
    <3>1. GoalCall(s, g) = Return(s2)
      BY <1>5, <2>5 DEF GoalCall, p
    <3>2. /\ Tree(s2) /\ SameTree(s2, s1) /\ s2.th = AllProved(s1, Roots)
          /\ s2.pn = s1.pn /\ s2.tn = s1.tn
      <4>1. AllProved(s1, Roots) \in BOOLEAN
        BY DEF AllProved
      <4>2. QED
        BY <4>1, <2>1, SetTheory DEF update_theory_node
    <3> HIDE DEF s2
    <3>3. Goals(s2) = Goals(s) /\ DOMAIN s2.trans = DOMAIN s.trans /\ s2 \in Sessions /\ SameTree(s2, s0)
      BY <3>2, <2>1, <1>1 DEF SameTree, Goals, Tree
    <3>4. \A h \in Goals(s2) : GoalProved(s2, h) <=> GoalProved(s1, h)
      BY <3>2, GoalProvedSame
    <3>5. \A gs : AllProved(s2, gs) <=> AllProved(s1, gs)
      BY <3>2 DEF AllProved
    <3>6. \A t \in DOMAIN s.trans : t # s.parent[g]
      BY <2>5, <1>1 DEF Tree
    <3>7. SoundBut(s2, {})
      BY <3>2, <3>3, <3>4, <3>5, <3>6, <2>2, <2>3, <2>4 DEF SoundBut, SameTree
    <3>8. QED
      BY <3>1, <3>2, <3>3, <3>7 DEF Return, Call, CallInv, Wrong
  <2>6. CASE s.parent[g] # 0
    <3>1. GoalCall(s, g) = Call(s1, "trans", s.parent[g])
      BY <1>5, <2>6 DEF GoalCall, p
    <3>2. s.parent[g] \in DOMAIN s1.trans /\ s.parent[g] < g /\ s.parent[g] \in Nat /\ g \notin Roots
      BY <2>6, <2>2, <1>1, <1>3 DEF Tree
    <3>3. s1.th <=> AllProved(s1, Roots)
      <4>1. AllProved(s1, Roots) <=> AllProved(s, Roots)
        BY <3>2, <2>1, <1>1, <1>3 DEF AllProved, Tree
      <4>2. QED
        BY <4>1, <2>1, <1>1 DEF SoundBut
    <3>4. SoundBut(s1, {s.parent[g]})
      BY <3>3, <2>3, <2>4 DEF SoundBut
    <3> HIDE DEF s1
    <3>5. SoundBut(s1, Wrong(Call(s1, "trans", s.parent[g])))
      BY <3>4 DEF SoundBut, Wrong, Call
    <3>6. SameTree(s1, s0)
      BY <2>1, <1>1 DEF SameTree
    <3>7. QED
      BY <3>1, <3>2, <3>5, <3>6, <2>1, <2>2 DEF Call, CallInv
  <2>7. QED
    BY <2>5, <2>6
<1>6. QED
  BY <1>4, <1>5

LEMMA TransCallInv ==
  ASSUME NEW s0, NEW c, CallInv(s0, c), c.on = "trans"
  PROVE  /\ CallInv(s0, TransCall(c.ses, c.id))
         /\ TransCall(c.ses, c.id).on # "none" => TransCall(c.ses, c.id).id < c.id
<1> DEFINE s == c.ses
           t == c.id
           u == s.trans[t].parent
           p == AllProved(s, s.trans[t].subtasks)
           s1 == [s EXCEPT !.tn[t] = p]
<1>1. /\ s \in Sessions /\ Tree(s) /\ SameTree(s, s0) /\ t \in DOMAIN s.trans /\ t \in Nat
      /\ SoundBut(s, {t} \cup (IF s.trans[t].subtasks = {} THEN {u} ELSE {}))
  BY DEF CallInv, Wrong
<1>2. p \in BOOLEAN
  BY DEF AllProved
<1>3. /\ s.tn \in [DOMAIN s.trans -> BOOLEAN] /\ s.parent \in [Goals(s) -> Nat]
      /\ Goals(s) \subseteq Nat
  BY <1>1, SessionFields DEF Tree, Goals
<1>4. u \in Goals(s) /\ u < t /\ u \in Nat
  BY <1>1, <1>3 DEF Tree
<1> HIDE DEF p
<1>5. CASE p = s.tn[t] /\ s.trans[t].subtasks # {}
  <2>1. TransCall(s, t) = Return(s)
    BY <1>5 DEF TransCall, p
  <2>2. SoundBut(s, {})
    <3>1. s.tn[t] <=> AllProved(s, s.trans[t].subtasks)
      BY <1>5, <1>2, <1>3 DEF p
    <3>2. SoundBut(s, {t})
      BY <1>1, <1>5
    <3>3. \A v \in DOMAIN s.trans : s.tn[v] <=> AllProved(s, s.trans[v].subtasks)
      <4>1. SUFFICES ASSUME NEW v \in DOMAIN s.trans PROVE s.tn[v] <=> AllProved(s, s.trans[v].subtasks)
        OBVIOUS
      <4>2. CASE v = t
        BY <4>2, <3>1
      <4>3. CASE v # t
        BY <4>3, <3>2 DEF SoundBut
      <4>4. QED
        BY <4>2, <4>3
    <3>4. \A g \in Goals(s) : g # t
      BY <1>1 DEF Tree
    <3>5. QED
      BY <3>2, <3>3, <3>4 DEF SoundBut
  <2>3. Return(s) \in [ses : Sessions, on : {"goal", "trans", "none"}, id : Nat]
    BY <1>1 DEF Return, Call
  <2>4. Return(s).ses = s /\ Return(s).on = "none"
    BY DEF Return, Call
  <2>5. Wrong(Return(s)) = {}
    BY <2>4 DEF Wrong
  <2>6. QED
    BY <2>1, <2>2, <2>3, <2>4, <2>5, <1>1 DEF CallInv
<1>6. CASE ~(p = s.tn[t] /\ s.trans[t].subtasks # {})
  <2>1. /\ Tree(s1) /\ SameTree(s1, s)
        /\ s1.tn = [s.tn EXCEPT ![t] = p] /\ s1.pn = s.pn /\ s1.th = s.th
    BY <1>1, <1>2, SetTrans
  <2>2. Goals(s1) = Goals(s) /\ DOMAIN s1.trans = DOMAIN s.trans /\ s1 \in Sessions
    BY <2>1 DEF SameTree, Goals, Tree
  <2>3. \A gs : AllProved(s1, gs) <=> AllProved(s, gs)
    BY <2>1 DEF AllProved
  <2>4. \A v \in DOMAIN s1.trans : s1.tn[v] <=> AllProved(s1, s1.trans[v].subtasks)
    <3>1. SUFFICES ASSUME NEW v \in DOMAIN s.trans
                   PROVE  s1.tn[v] <=> AllProved(s, s.trans[v].subtasks)
      BY <2>1, <2>2, <2>3 DEF SameTree
    <3>2. CASE v = t
      BY <3>2, <2>1, <1>2, <1>3 DEF p
    <3>3. CASE v # t
      <4>1. v # u
        BY <1>1, <1>4 DEF Tree
      <4>2. s.tn[v] <=> AllProved(s, s.trans[v].subtasks)
        BY <3>3, <4>1, <1>1 DEF SoundBut
      <4>3. QED
        BY <4>2, <3>3, <2>1, <1>3
    <3>4. QED
      BY <3>2, <3>3
  <2>5. \A g \in Goals(s1) : g # u => (s1.pn[g] <=> GoalProved(s1, g))
    <3>1. SUFFICES ASSUME NEW g \in Goals(s), g # u PROVE s1.pn[g] <=> GoalProved(s1, g)
      BY <2>2
    <3>2. t \notin TransOf(s, g)
      BY <3>1 DEF TransOf
    <3>3. GoalProved(s1, g) <=> GoalProved(s, g)
      <4>1. \A v \in TransOf(s, g) : s1.tn[v] = s.tn[v]
        BY <3>2, <2>1, <1>3 DEF TransOf
      <4>2. QED
        BY <4>1, <2>1, GoalProvedSame
    <3>4. g # t
      BY <1>1 DEF Tree
    <3>5. s.pn[g] <=> GoalProved(s, g)
      BY <3>1, <3>4, <1>1 DEF SoundBut
    <3>6. QED
      BY <3>3, <3>5, <2>1
  <2>6. s1.th <=> AllProved(s1, Roots)
    BY <2>1, <2>3, <1>1 DEF SoundBut
  <2>7. SoundBut(s1, {u})
    BY <2>4, <2>5, <2>6 DEF SoundBut
  <2>8. TransCall(s, t) = Call(s1, "goal", u)
    BY <1>6 DEF TransCall, p
  <2> DEFINE c1 == Call(s1, "goal", u)
  <2>9. SameTree(s1, s0)
    BY <2>1, <1>1 DEF SameTree
  <2> HIDE DEF s1
  <2>10. c1.ses = s1 /\ c1.on = "goal" /\ c1.id = u
    BY DEF Call
  <2>11. c1 \in [ses : Sessions, on : {"goal", "trans", "none"}, id : Nat]
    BY <2>2, <1>4 DEF Call
  <2>12. Wrong(c1) = {u}
    BY <2>10 DEF Wrong
  <2> HIDE DEF c1
  <2>13. CallInv(s0, c1)
    BY <2>1, <2>2, <2>7, <2>9, <2>10, <2>11, <2>12, <1>4 DEF CallInv
  <2>14. QED
    BY <2>8, <2>10, <2>13, <1>4 DEF c1
<1>7. QED
  BY <1>5, <1>6

LEMMA OneCallInv ==
  ASSUME NEW s0, NEW c, CallInv(s0, c), c.on # "none"
  PROVE  CallInv(s0, OneCall(c)) /\ (OneCall(c).on # "none" => OneCall(c).id < c.id)
<1>1. c.on \in {"goal", "trans"}
  BY DEF CallInv
<1>2. QED
  BY <1>1, GoalCallInv, TransCallInv DEF OneCall

(* The equations of Calls.                                                 *)
After(X) == {OneCall(d) : d \in {e \in X : e.on # "none"}}

LEMMA CallsAre ==
  ASSUME NEW s0, NEW c, CallInv(s0, c)
  PROVE  /\ Calls(c)[0] = {c}
         /\ \A n \in Nat : Calls(c)[n + 1] = After(Calls(c)[n])
<1> DEFINE V == SUBSET {d \in [ses : Sessions, on : {"goal", "trans", "none"}, id : Nat] : CallInv(s0, d)}
           F == [n \in Nat |-> [X \in V |-> After(X)]]
<1>1. {c} \in V
  BY DEF CallInv
<1>2. \A X \in V : After(X) \in V
  <2>1. SUFFICES ASSUME NEW X \in V, NEW d \in X, d.on # "none"
                 PROVE  /\ OneCall(d) \in [ses : Sessions, on : {"goal", "trans", "none"}, id : Nat]
                        /\ CallInv(s0, OneCall(d))
    BY DEF After
  <2>2. CallInv(s0, OneCall(d))
    BY <2>1, OneCallInv
  <2>3. QED
    BY <2>2 DEF CallInv
<1>3. F \in StepsOn(V)
  BY <1>2 DEF StepsOn
<1>4. \A n \in Nat, X \in V : F[n][X] = After(X)
  OBVIOUS
<1> HIDE DEF V, F
<1>5. PICK a : RunOf({c}, F, V, a)
  BY <1>1, <1>3, RunsExist
<1>50. a \in [Nat -> V] /\ a[0] = {c} /\ \A n \in Nat : a[n + 1] = F[n][a[n]]
  BY <1>5 DEF RunOf
<1>6. \A n \in Nat : n # 0 => a[n] = After(a[n - 1])
  <2>1. SUFFICES ASSUME NEW n \in Nat, n # 0 PROVE a[n] = After(a[n - 1])
    OBVIOUS
  <2>2. n - 1 \in Nat /\ (n - 1) + 1 = n
    BY <2>1
  <2>3. a[n] = F[n - 1][a[n - 1]] /\ a[n - 1] \in V
    BY <2>2, <1>50
  <2>4. QED
    BY <2>2, <2>3, <1>4
<1>7. a = [n \in Nat |-> IF n = 0 THEN {c} ELSE After(a[n - 1])]
  BY <1>50, <1>6
<1>8. Calls(c) = [n \in Nat |-> IF n = 0 THEN {c} ELSE After(Calls(c)[n - 1])]
  BY <1>7, Zenon DEF Calls, After
<1>9. Calls(c)[0] = {c}
  BY <1>8, Zenon
<1>10. ASSUME NEW n \in Nat PROVE Calls(c)[n + 1] = After(Calls(c)[n])
  <2>1. n + 1 \in Nat /\ n + 1 # 0 /\ (n + 1) - 1 = n
    OBVIOUS
  <2> DEFINE f == Calls(c)
  <2> HIDE DEF f
  <2>2. f = [k \in Nat |-> IF k = 0 THEN {c} ELSE After(f[k - 1])]
    BY <1>8 DEF f
  <2>3. f[n + 1] = After(f[(n + 1) - 1])
    BY <2>1, <2>2
  <2>4. QED
    BY <2>1, <2>3 DEF f
<1>11. QED
  BY <1>9, <1>10

LEMMA CallsInv ==
  ASSUME NEW s0, NEW c, CallInv(s0, c)
  PROVE  \A n \in Nat : \A d \in Calls(c)[n] : CallInv(s0, d)
<1> DEFINE f == Calls(c)
           S == {n \in Nat : \A d \in f[n] : CallInv(s0, d)}
<1>1. f[0] = {c} /\ \A n \in Nat : f[n + 1] = After(f[n])
  BY CallsAre
<1> HIDE DEF f
<1>2. 0 \in S
  BY <1>1
<1>3. ASSUME NEW n \in Nat, n \in S PROVE n + 1 \in S
  BY <1>1, <1>3, OneCallInv DEF After
<1>4. \A n \in Nat : n \in S
  <2> HIDE DEF S
  <2>1. QED
    BY <1>2, <1>3, Induction
<1>5. QED
  BY <1>4 DEF f

(* A call returns before there are more of them than nodes.                *)
LEMMA CallsReturn ==
  ASSUME NEW s0, NEW c, CallInv(s0, c), c.on # "none"
  PROVE  \E d \in UNION {Calls(c)[n] : n \in 1 .. c.ses.next} : d.on = "none"
<1> DEFINE f == Calls(c)
           N == c.ses.next
           S == {n \in Nat : \/ \E m \in 1 .. n : \E d \in f[m] : d.on = "none"
                             \/ \E d \in f[n] : d.on # "none" /\ d.id + n <= c.id}
<1>1. f[0] = {c} /\ \A n \in Nat : f[n + 1] = After(f[n])
  BY CallsAre
<1>2. \A n \in Nat : \A d \in f[n] : CallInv(s0, d)
  BY CallsInv
<1>3. c.id \in Nat /\ N \in Nat /\ c.id < N
  <2>1. c.ses \in Sessions /\ Tree(c.ses) /\ c.id \in Goals(c.ses) \cup DOMAIN c.ses.trans /\ c.id \in Nat
    BY DEF CallInv
  <2>2. QED
    BY <2>1, SessionFields DEF Tree
<1> HIDE DEF f, N
<1>4. 0 \in S
  BY <1>1, <1>3
<1>5. ASSUME NEW n \in Nat, n \in S PROVE n + 1 \in S
  <2>1. CASE \E m \in 1 .. n : \E d \in f[m] : d.on = "none"
    BY <2>1
  <2>2. CASE \E d \in f[n] : d.on # "none" /\ d.id + n <= c.id
    <3>1. PICK d \in f[n] : d.on # "none" /\ d.id + n <= c.id
      BY <2>2
    <3>2. CallInv(s0, d)
      BY <1>2
    <3>3. OneCall(d) \in f[n + 1]
      BY <3>1, <1>1 DEF After
    <3>4. CallInv(s0, OneCall(d)) /\ (OneCall(d).on # "none" => OneCall(d).id < d.id)
      BY <3>1, <3>2, OneCallInv
    <3>5. d.id \in Nat /\ OneCall(d).id \in Nat
      BY <3>2, <3>4 DEF CallInv
    <3>6. CASE OneCall(d).on = "none"
      BY <3>3, <3>6
    <3>7. CASE OneCall(d).on # "none"
      BY <3>1, <3>3, <3>4, <3>5, <3>7, <1>3
    <3>8. QED
      BY <3>6, <3>7
  <2>3. QED
    BY <1>5, <2>1, <2>2
<1>6. \A n \in Nat : n \in S
  <2> HIDE DEF S
  <2>1. QED
    BY <1>4, <1>5, Induction
<1>7. ~ \E d \in f[N] : d.on # "none" /\ d.id + N <= c.id
  <2>1. SUFFICES ASSUME NEW d \in f[N], d.id + N <= c.id PROVE FALSE
    OBVIOUS
  <2>2. d.id \in Nat
    BY <1>2, <1>3 DEF CallInv
  <2>3. QED
    BY <2>1, <2>2, <1>3
<1>8. PICK m \in 1 .. N : \E d \in f[m] : d.on = "none"
  BY <1>3, <1>6, <1>7
<1>9. QED
  BY <1>8 DEF f, N

LEMMA ResultSound ==
  ASSUME NEW s0, NEW c, CallInv(s0, c), c.on # "none"
  PROVE  Tree(Result(c)) /\ SameTree(Result(c), s0) /\ SoundBut(Result(c), {})
<1> DEFINE U == UNION {Calls(c)[n] : n \in 1 .. c.ses.next}
           d == CHOOSE e \in U : e.on = "none"
<1>1. d \in U /\ d.on = "none"
  <2>1. \E e \in U : e.on = "none"
    BY CallsReturn
  <2> HIDE DEF U
  <2>2. QED
    BY <2>1
<1>2. c.ses.next \in Nat
  BY SessionFields DEF CallInv
<1>3. CallInv(s0, d)
  BY <1>1, <1>2, CallsInv
<1>4. Wrong(d) = {}
  <2> HIDE DEF d
  <2>1. QED
    BY <1>1 DEF Wrong
<1>5. Result(c) = d.ses
  BY DEF Result
<1> HIDE DEF d
<1>6. QED
  BY <1>3, <1>4, <1>5 DEF CallInv

(* update_goal_node repairs the status of a goal and of all above it ...   *)
LEMMA UpdateGoal ==
  ASSUME NEW s, Tree(s), NEW g \in Goals(s), SoundBut(s, {g})
  PROVE  /\ Tree(update_goal_node(s, g)) /\ SameTree(update_goal_node(s, g), s)
         /\ SoundBut(update_goal_node(s, g), {})
<1> DEFINE c == Call(s, "goal", g)
<1>1. s \in Sessions /\ g \in Nat
  BY SessionFields DEF Tree, Goals
<1>2. c.ses = s /\ c.on = "goal" /\ c.id = g
  BY DEF Call
<1>3. c \in [ses : Sessions, on : {"goal", "trans", "none"}, id : Nat]
  BY <1>1 DEF Call
<1>4. Wrong(c) = {g}
  <2> HIDE DEF c
  <2>1. QED
    BY <1>2 DEF Wrong
<1>5. update_goal_node(s, g) = Result(c)
  BY DEF update_goal_node
<1>6. SameTree(s, s)
  BY DEF SameTree
<1> HIDE DEF c
<1>7. CallInv(s, c)
  BY <1>2, <1>3, <1>4, <1>6 DEF CallInv
<1>8. QED
  BY <1>2, <1>5, <1>7, ResultSound

(* ... and does nothing when it is right.                                  *)
LEMMA UpdateNothing ==
  ASSUME NEW s, Tree(s), NEW g \in Goals(s), SoundBut(s, {})
  PROVE  update_goal_node(s, g) = s
<1> DEFINE c == Call(s, "goal", g)
           r == Return(s)
           f == Calls(c)
           S == {n \in Nat : f[n] \subseteq {c, r}}
           U == UNION {f[n] : n \in 1 .. s.next}
           d == CHOOSE e \in U : e.on = "none"
<1>1. s \in Sessions /\ g \in Nat /\ s.next \in Nat /\ s.pn[g] \in BOOLEAN
  BY SessionFields DEF Tree, Goals
<1>2. c.ses = s /\ c.on = "goal" /\ c.id = g /\ r.ses = s /\ r.on = "none"
  BY DEF Call, Return
<1>3. c \in [ses : Sessions, on : {"goal", "trans", "none"}, id : Nat]
  BY <1>1 DEF Call
<1>4. OneCall(c) = r
  <2>1. GoalProved(s, g) = s.pn[g]
    <3>1. s.pn[g] <=> GoalProved(s, g)
      BY DEF SoundBut
    <3>2. GoalProved(s, g) \in BOOLEAN
      BY DEF GoalProved
    <3>3. QED
      BY <3>1, <3>2, <1>1
  <2> HIDE DEF c
  <2>2. QED
    BY <2>1, <1>2 DEF OneCall, GoalCall
<1>5. update_goal_node(s, g) = Result(c)
  BY DEF update_goal_node
<1> HIDE DEF c, r
<1>6. CallInv(s, c)
  <2>1. Wrong(c) = {g}
    BY <1>2 DEF Wrong
  <2>2. SoundBut(s, {g}) /\ SameTree(s, s)
    BY DEF SoundBut, SameTree
  <2>3. QED
    BY <2>1, <2>2, <1>2, <1>3 DEF CallInv
<1>7. f[0] = {c} /\ \A n \in Nat : f[n + 1] = After(f[n])
  BY <1>6, CallsAre
<1>8. \E e \in U : e.on = "none"
  BY <1>2, <1>6, CallsReturn
<1>9. Result(c) = d.ses
  BY <1>2 DEF Result
<1> HIDE DEF f
<1>10. 0 \in S
  BY <1>7
<1>11. ASSUME NEW n \in Nat, n \in S PROVE n + 1 \in S
  BY <1>2, <1>4, <1>7, <1>11 DEF After
<1>12. \A n \in Nat : n \in S
  <2> HIDE DEF S
  <2>1. QED
    BY <1>10, <1>11, Induction
<1>13. U \subseteq {c, r}
  BY <1>1, <1>12
<1>14. d \in U /\ d.on = "none"
  <2> HIDE DEF U
  <2>1. QED
    BY <1>8
<1> HIDE DEF U, d
<1>15. d = r
  BY <1>2, <1>13, <1>14
<1>16. QED
  BY <1>2, <1>5, <1>9, <1>15

-----------------------------------------------------------------------------
(* The operations on a session keep every status sound.                    *)
Valid(s) == Tree(s) /\ SoundBut(s, {})

LEMMA ValidFields ==
  ASSUME NEW s, Valid(s)
  PROVE  /\ Tree(s) /\ SoundBut(s, {}) /\ s \in Sessions
         /\ s.parent \in [Goals(s) -> Nat] /\ Goals(s) \subseteq Nat
         /\ s.att \in [DOMAIN s.att -> BOOLEAN] /\ DOMAIN s.att \subseteq Goals(s)
         /\ s.pn \in [Goals(s) -> BOOLEAN]
         /\ DOMAIN s.trans \subseteq Nat
         /\ s.trans \in [DOMAIN s.trans -> [parent : Nat, subtasks : SUBSET Nat]]
         /\ s.tn \in [DOMAIN s.trans -> BOOLEAN]
         /\ s.next \in Nat /\ s.th \in BOOLEAN
<1>1. Tree(s) /\ SoundBut(s, {})
  BY DEF Valid
<1>2. s \in Sessions /\ DOMAIN s.pn = Goals(s) /\ DOMAIN s.att \subseteq Goals(s) /\ DOMAIN s.tn = DOMAIN s.trans
  BY <1>1 DEF Tree
<1>3. QED
  BY <1>1, <1>2, SessionFields DEF Goals

(* The attempt of one goal changes.                                        *)
LEMMA SetAttempt ==
  ASSUME NEW s, Valid(s), NEW g \in Goals(s), NEW D, D \subseteq Goals(s),
         NEW a \in [D -> BOOLEAN],
         \A h \in Goals(s) : h # g => (h \in D <=> h \in DOMAIN s.att) /\ (h \in D => a[h] = s.att[h])
  PROVE  LET s1 == [s EXCEPT !.att = a]
         IN  /\ Tree(s1) /\ SoundBut(s1, {g})
             /\ s1.att = a /\ s1.parent = s.parent /\ s1.trans = s.trans /\ s1.next = s.next
             /\ s1.pn = s.pn /\ s1.tn = s.tn /\ s1.th = s.th
<1> DEFINE s1 == [s EXCEPT !.att = a]
<1>1. /\ Tree(s) /\ SoundBut(s, {}) /\ s \in Sessions /\ Goals(s) \subseteq Nat
      /\ DOMAIN s.att \subseteq Goals(s)
  BY ValidFields
<1>2. a \in Funs(BOOLEAN)
  BY <1>1, FunsDef
<1>3. s1 \in Sessions
  BY <1>1, <1>2 DEF Sessions
<1>4. /\ s1.att = a /\ s1.parent = s.parent /\ s1.trans = s.trans /\ s1.next = s.next
      /\ s1.pn = s.pn /\ s1.tn = s.tn /\ s1.th = s.th
  BY <1>1 DEF Sessions
<1> HIDE DEF s1
<1>5. Goals(s1) = Goals(s)
  BY <1>4 DEF Goals
<1>6. Tree(s1)
  BY <1>1, <1>3, <1>4, <1>5 DEF Tree
<1>7. \A h \in Goals(s) : h # g => (GoalProved(s1, h) <=> GoalProved(s, h))
  BY <1>1, <1>4 DEF GoalProved, TransOf
<1>8. \A gs : AllProved(s1, gs) <=> AllProved(s, gs)
  BY <1>4 DEF AllProved
<1>9. SoundBut(s1, {g})
  BY <1>1, <1>4, <1>5, <1>7, <1>8 DEF SoundBut
<1>10. QED
  BY <1>4, <1>6, <1>9 DEF s1

LEMMA UpdateAttempt ==
  ASSUME NEW s, Valid(s), NEW g \in Goals(s), NEW D, D \subseteq Goals(s),
         NEW a \in [D -> BOOLEAN],
         \A h \in Goals(s) : h # g => (h \in D <=> h \in DOMAIN s.att) /\ (h \in D => a[h] = s.att[h])
  PROVE  LET r == update_goal_node([s EXCEPT !.att = a], g)
         IN  Valid(r) /\ r.att = a /\ r.parent = s.parent /\ r.trans = s.trans /\ r.next = s.next
<1> DEFINE s1 == [s EXCEPT !.att = a]
           r == update_goal_node(s1, g)
<1>1. /\ Tree(s1) /\ SoundBut(s1, {g})
      /\ s1.att = a /\ s1.parent = s.parent /\ s1.trans = s.trans /\ s1.next = s.next
  BY SetAttempt
<1> HIDE DEF s1
<1>2. g \in Goals(s1)
  BY <1>1 DEF Goals
<1>3. Tree(r) /\ SameTree(r, s1) /\ SoundBut(r, {})
  BY <1>1, <1>2, UpdateGoal
<1> HIDE DEF r
<1>4. Valid(r) /\ r.att = a /\ r.parent = s.parent /\ r.trans = s.trans /\ r.next = s.next
  BY <1>1, <1>3 DEF Valid, SameTree
<1>5. QED
  BY <1>4 DEF r, s1

LEMMA ScheduleAttempt ==
  ASSUME NEW s, Valid(s), NEW g \in Goals(s)
  PROVE  LET r == update_goal_node(graft_proof_attempt(s, g), g)
         IN  Valid(r) /\ DOMAIN r.att = DOMAIN s.att \cup {g}
<1> DEFINE a == Extend(s.att, {g}, FALSE)
           D == DOMAIN s.att \cup {g}
<1>1. s.att \in [DOMAIN s.att -> BOOLEAN] /\ DOMAIN s.att \subseteq Goals(s)
  BY ValidFields
<1>2. a \in [D -> BOOLEAN] /\ \A h \in D : h # g => a[h] = s.att[h]
  BY <1>1 DEF Extend
<1>3. graft_proof_attempt(s, g) = [s EXCEPT !.att = a]
  BY DEF graft_proof_attempt
<1> HIDE DEF a
<1>4. QED
  BY <1>1, <1>2, <1>3, UpdateAttempt

LEMMA AttemptEnds ==
  ASSUME NEW s, Valid(s), NEW g \in DOMAIN s.att, NEW v \in BOOLEAN
  PROVE  LET r == update_goal_node(update_proof_attempt(s, g, v), g)
         IN  Valid(r) /\ DOMAIN r.att = DOMAIN s.att
<1> DEFINE a == [s.att EXCEPT ![g] = v]
           D == DOMAIN s.att
<1>1. s.att \in [DOMAIN s.att -> BOOLEAN] /\ DOMAIN s.att \subseteq Goals(s)
  BY ValidFields
<1>2. a \in [D -> BOOLEAN] /\ \A h \in D : h # g => a[h] = s.att[h]
  BY <1>1
<1>3. update_proof_attempt(s, g, v) = [s EXCEPT !.att = a]
  BY DEF update_proof_attempt
<1> HIDE DEF a
<1>4. g \in Goals(s)
  BY <1>1
<1>5. QED
  BY <1>1, <1>2, <1>3, <1>4, UpdateAttempt

LEMMA AttemptObsolete ==
  ASSUME NEW s, Valid(s), NEW g \in DOMAIN s.att
  PROVE  Valid(mark_obsolete(s, g)) /\ DOMAIN mark_obsolete(s, g).att = DOMAIN s.att
<1>1. mark_obsolete(s, g) = update_goal_node(update_proof_attempt(s, g, FALSE), g)
  BY DEF mark_obsolete, update_proof_attempt
<1>2. QED
  BY <1>1, AttemptEnds

LEMMA AttemptRemoved ==
  ASSUME NEW s, Valid(s), NEW g \in DOMAIN s.att
  PROVE  LET r == remove_proof_attempt(s, g)
         IN  /\ Valid(r) /\ DOMAIN r.att = DOMAIN s.att \ {g}
             /\ r.parent = s.parent /\ r.next = s.next
             /\ s.pn[g] /\ ~s.att[g] => r.pn = s.pn /\ r.th = s.th
<1> DEFINE D == DOMAIN s.att \ {g}
           a == Without(s.att, {g})
           s1 == [s EXCEPT !.att = a]
           r == remove_proof_attempt(s, g)
<1>1. s.att \in [DOMAIN s.att -> BOOLEAN] /\ DOMAIN s.att \subseteq Goals(s) /\ g \in Goals(s)
  BY ValidFields
<1>2. a \in [D -> BOOLEAN] /\ \A h \in D : a[h] = s.att[h]
  BY <1>1 DEF Without
<1>3. remove_proof_attempt(s, g) = update_goal_node(s1, g)
  BY DEF remove_proof_attempt
<1> HIDE DEF a
<1>4. Valid(r) /\ DOMAIN r.att = DOMAIN s.att \ {g} /\ r.parent = s.parent /\ r.next = s.next
  BY <1>1, <1>2, <1>3, UpdateAttempt
<1>5. ASSUME s.pn[g], ~s.att[g] PROVE r.pn = s.pn /\ r.th = s.th
  <2>1. /\ Tree(s1) /\ SoundBut(s1, {g})
        /\ s1.att = a /\ s1.parent = s.parent /\ s1.trans = s.trans
        /\ s1.pn = s.pn /\ s1.tn = s.tn /\ s1.th = s.th
    BY <1>1, <1>2, SetAttempt
  <2> HIDE DEF s1
  <2>2. GoalProved(s1, g) <=> GoalProved(s, g)
    BY <1>2, <1>5, <2>1 DEF GoalProved, TransOf
  <2>3. s.pn[g] <=> GoalProved(s, g)
    BY <1>1, ValidFields DEF SoundBut
  <2>4. Goals(s1) = Goals(s)
    BY <2>1 DEF Goals
  <2>5. g \notin DOMAIN s.trans
    BY <1>1, ValidFields DEF Tree
  <2>6. SoundBut(s1, {})
    <3>1. \A h \in Goals(s1) : s1.pn[h] <=> GoalProved(s1, h)
      <4>1. SUFFICES ASSUME NEW h \in Goals(s1) PROVE s1.pn[h] <=> GoalProved(s1, h)
        OBVIOUS
      <4>2. CASE h = g
        BY <4>2, <2>1, <2>2, <2>3
      <4>3. CASE h # g
        BY <4>3, <2>1 DEF SoundBut
      <4>4. QED
        BY <4>2, <4>3
    <3>2. QED
      BY <3>1, <2>1, <2>5 DEF SoundBut
  <2>7. update_goal_node(s1, g) = s1
    BY <1>1, <2>1, <2>4, <2>6, UpdateNothing
  <2>8. QED
    BY <1>3, <2>1, <2>7
<1>6. QED
  BY <1>4, <1>5

LEMMA NewSessionValid == Valid(NewSession)
<1> DEFINE s == NewSession
<1>1. NGoals \in Nat \ {0}
  BY NGoalsAssumption
<1>2. /\ DOMAIN s.parent = Roots /\ DOMAIN s.att = {} /\ DOMAIN s.trans = {} /\ DOMAIN s.pn = Roots
      /\ DOMAIN s.tn = {} /\ s.next = NGoals + 1 /\ s.th = FALSE
      /\ \A g \in Roots : s.parent[g] = 0 /\ s.pn[g] = FALSE
  BY DEF NewSession
<1>3. Roots \subseteq Nat
  BY DEF Roots
<1>4. \A R : <<>> \in Funs(R)
  <2>1. SUFFICES ASSUME NEW R PROVE <<>> \in Funs(R)
    OBVIOUS
  <2>2. DOMAIN <<>> \subseteq Nat /\ <<>> \in [DOMAIN <<>> -> R]
    OBVIOUS
  <2>3. QED
    BY <2>2, FunsDef
<1>5. [g \in Roots |-> 0] \in Funs(Nat) /\ [g \in Roots |-> FALSE] \in Funs(BOOLEAN)
  BY <1>3, FunsDef
<1>6. s \in Sessions
  BY <1>1, <1>4, <1>5 DEF NewSession, Sessions
<1> HIDE DEF s
<1>7. Goals(s) = Roots
  BY <1>2 DEF Goals
<1>8. Tree(s)
  BY <1>1, <1>2, <1>6, <1>7 DEF Tree, Roots
<1>9. \A g \in Roots : ~GoalProved(s, g)
  BY <1>2 DEF GoalProved, TransOf
<1>10. ~AllProved(s, Roots)
  BY <1>1, <1>2 DEF AllProved, Roots
<1>11. SoundBut(s, {})
  BY <1>2, <1>7, <1>9, <1>10 DEF SoundBut
<1>12. QED
  BY <1>8, <1>11 DEF Valid, s

LEMMA TransGrafted ==
  ASSUME NEW s, Valid(s), NEW g \in Goals(s), NEW n \in Nat
  PROVE  LET r == update_trans_node(graft_transf(s, g, n), s.next)
         IN  Valid(r) /\ r.att = s.att
<1> DEFINE t == s.next
           subs == t + 1 .. t + n
           s1 == graft_transf(s, g, n)
           c == Call(s1, "trans", t)
<1>1. /\ Tree(s) /\ SoundBut(s, {}) /\ s \in Sessions
      /\ s.parent \in [Goals(s) -> Nat] /\ Goals(s) \subseteq Nat
      /\ s.att \in [DOMAIN s.att -> BOOLEAN] /\ DOMAIN s.att \subseteq Goals(s)
      /\ s.pn \in [Goals(s) -> BOOLEAN]
      /\ DOMAIN s.trans \subseteq Nat
      /\ s.trans \in [DOMAIN s.trans -> [parent : Nat, subtasks : SUBSET Nat]]
      /\ s.tn \in [DOMAIN s.trans -> BOOLEAN]
      /\ t \in Nat /\ s.th \in BOOLEAN
  BY ValidFields
<1>2. /\ \A m \in Goals(s) \cup DOMAIN s.trans : 0 < m /\ m < t
      /\ t \notin Goals(s) /\ t \notin DOMAIN s.trans /\ t > 0 /\ g < t
  BY <1>1 DEF Tree
<1>3. subs \subseteq Nat /\ \A m \in subs : m > t
  BY <1>1
<1>4. /\ s1.parent = Extend(s.parent, subs, t) /\ s1.att = s.att
      /\ s1.trans = Extend(s.trans, {t}, [parent |-> g, subtasks |-> subs])
      /\ s1.next = t + n + 1
      /\ s1.pn = Extend(s.pn, subs, FALSE) /\ s1.tn = Extend(s.tn, {t}, n = 0) /\ s1.th = s.th
  BY <1>1 DEF graft_transf, Sessions
<1>5. (n = 0) \in BOOLEAN /\ (n = 0 <=> subs = {})
  <2>1. n # 0 => t + 1 \in subs
    BY <1>1
  <2>2. n = 0 => \A m \in subs : FALSE
    BY <1>1
  <2> HIDE DEF subs
  <2>3. QED
    BY <2>1, <2>2
<1> DEFINE b == n = 0
<1> HIDE DEF b
<1>6. /\ Extend(s.parent, subs, t) \in [Goals(s) \cup subs -> Nat]
      /\ Extend(s.trans, {t}, [parent |-> g, subtasks |-> subs])
            \in [DOMAIN s.trans \cup {t} -> [parent : Nat, subtasks : SUBSET Nat]]
      /\ Extend(s.pn, subs, FALSE) \in [Goals(s) \cup subs -> BOOLEAN]
      /\ Extend(s.tn, {t}, b) \in [DOMAIN s.trans \cup {t} -> BOOLEAN]
  <2>1. b \in BOOLEAN
    BY <1>5 DEF b
  <2>2. [parent |-> g, subtasks |-> subs] \in [parent : Nat, subtasks : SUBSET Nat]
    BY <1>1, <1>3
  <2>3. Extend(s.parent, subs, t) \in [Goals(s) \cup subs -> Nat]
    BY <1>1 DEF Extend
  <2>4. Extend(s.pn, subs, FALSE) \in [Goals(s) \cup subs -> BOOLEAN]
    BY <1>1 DEF Extend
  <2>5. Extend(s.tn, {t}, b) \in [DOMAIN s.trans \cup {t} -> BOOLEAN]
    BY <2>1, <1>1 DEF Extend
  <2> DEFINE e == [parent |-> g, subtasks |-> subs]
             E == [parent : Nat, subtasks : SUBSET Nat]
  <2>6. Extend(s.trans, {t}, e) \in [DOMAIN s.trans \cup {t} -> E]
    <3>1. e \in E /\ s.trans \in [DOMAIN s.trans -> E]
      BY <2>2, <1>1
    <3> HIDE DEF e, E
    <3>2. QED
      BY <3>1 DEF Extend
  <2>7. QED
    BY <2>3, <2>4, <2>5, <2>6
<1>7. s1 \in Sessions
  <2>1. /\ Extend(s.parent, subs, t) \in Funs(Nat)
        /\ Extend(s.trans, {t}, [parent |-> g, subtasks |-> subs])
             \in Funs([parent : Nat, subtasks : SUBSET Nat])
        /\ Extend(s.pn, subs, FALSE) \in Funs(BOOLEAN)
        /\ Extend(s.tn, {t}, b) \in Funs(BOOLEAN)
    BY <1>1, <1>3, <1>6, FunsDef
  <2>2. t + n + 1 \in Nat
    BY <1>1
  <2>3. QED
    BY <1>1, <2>1, <2>2 DEF graft_transf, Sessions, b
<1> HIDE DEF s1
<1>8. Goals(s1) = Goals(s) \cup subs /\ DOMAIN s1.trans = DOMAIN s.trans \cup {t}
      /\ DOMAIN s1.pn = Goals(s) \cup subs /\ DOMAIN s1.tn = DOMAIN s.trans \cup {t}
  BY <1>4, <1>6 DEF Goals, b
<1>9. /\ \A h \in Goals(s) : s1.parent[h] = s.parent[h] /\ s1.pn[h] = s.pn[h]
      /\ \A h \in subs : s1.parent[h] = t /\ s1.pn[h] = FALSE
  <2>1. \A h \in Goals(s) : h \notin subs
    BY <1>1, <1>2, <1>3
  <2> HIDE DEF subs, t
  <2>2. /\ \A h \in Goals(s) \cup subs : s1.parent[h] = (IF h \in subs THEN t ELSE s.parent[h])
        /\ \A h \in Goals(s) \cup subs : s1.pn[h] = (IF h \in subs THEN FALSE ELSE s.pn[h])
    BY <1>4, <1>1 DEF Extend, Goals
  <2>3. QED
    BY <2>1, <2>2
<1>10. /\ \A v \in DOMAIN s.trans : s1.trans[v] = s.trans[v] /\ s1.tn[v] = s.tn[v]
       /\ s1.trans[t].parent = g /\ s1.trans[t].subtasks = subs /\ s1.tn[t] = b
  BY <1>2, <1>4, <1>1 DEF Extend, b
<1>11. Tree(s1)
  <2>1. /\ DOMAIN s1.att \subseteq Goals(s1)
        /\ \A m \in Goals(s1) \cup DOMAIN s1.trans : 0 < m /\ m < s1.next
    BY <1>1, <1>2, <1>3, <1>4, <1>8
  <2>2. Goals(s1) \cap DOMAIN s1.trans = {}
    BY <1>1, <1>2, <1>3, <1>8 DEF Tree
  <2>3. Roots \subseteq Goals(s1) /\ \A h \in Goals(s1) : s1.parent[h] = 0 <=> h \in Roots
    <3>1. \A h \in subs : h \notin Roots
      BY <1>1, <1>2, <1>3 DEF Tree
    <3>2. QED
      BY <3>1, <1>1, <1>2, <1>8, <1>9 DEF Tree
  <2>4. \A h \in Goals(s1) : s1.parent[h] # 0 => s1.parent[h] \in DOMAIN s1.trans /\ s1.parent[h] < h
    BY <1>1, <1>3, <1>8, <1>9 DEF Tree
  <2>5. ASSUME NEW v \in DOMAIN s1.trans
        PROVE  /\ s1.trans[v].parent \in Goals(s1) /\ s1.trans[v].parent < v
               /\ s1.trans[v].subtasks = {h \in Goals(s1) : s1.parent[h] = v}
    <3>1. CASE v = t
      <4>1. \A h \in Goals(s) : s.parent[h] # t
        BY <1>1, <1>2 DEF Tree
      <4>2. QED
        BY <4>1, <3>1, <1>2, <1>8, <1>9, <1>10
    <3>2. CASE v # t
      <4>1. v \in DOMAIN s.trans /\ s1.trans[v] = s.trans[v]
        BY <3>2, <1>8, <1>10
      <4>2. /\ s.trans[v].parent \in Goals(s) /\ s.trans[v].parent < v
            /\ s.trans[v].subtasks = {h \in Goals(s) : s.parent[h] = v}
        BY <4>1, <1>1 DEF Tree
      <4>3. {h \in Goals(s1) : s1.parent[h] = v} = {h \in Goals(s) : s.parent[h] = v}
        BY <3>2, <1>8, <1>9
      <4>4. QED
        BY <4>1, <4>2, <4>3, <1>8
    <3>3. QED
      BY <3>1, <3>2
  <2>6. QED
    BY <2>1, <2>2, <2>3, <2>4, <2>5, <1>7, <1>8 DEF Tree
<1>12. SoundBut(s1, IF subs = {} THEN {g} ELSE {})
  <2>1. ASSUME NEW h \in Goals(s1), subs = {} => h # g PROVE s1.pn[h] <=> GoalProved(s1, h)
    <3>1. CASE h \in Goals(s)
      <4>1. \A v \in DOMAIN s.trans : v \in TransOf(s1, h) <=> v \in TransOf(s, h)
        BY <1>8, <1>10 DEF TransOf
      <4>2. t \in TransOf(s1, h) => ~s1.tn[t]
        BY <2>1, <1>5, <1>10 DEF TransOf, b
      <4>3. (\E v \in TransOf(s1, h) : s1.tn[v]) <=> (\E v \in TransOf(s, h) : s.tn[v])
        BY <4>1, <4>2, <1>8, <1>10 DEF TransOf
      <4>4. GoalProved(s1, h) <=> GoalProved(s, h)
        BY <4>3, <1>4 DEF GoalProved
      <4>5. QED
        BY <3>1, <4>4, <1>1, <1>9 DEF SoundBut
    <3>2. CASE h \in subs
      <4>1. TransOf(s1, h) = {}
        BY <3>2, <1>1, <1>2, <1>3, <1>8, <1>10 DEF TransOf, Tree
      <4>2. h \notin DOMAIN s1.att
        BY <3>2, <1>1, <1>2, <1>3, <1>4
      <4>3. QED
        BY <3>2, <4>1, <4>2, <1>9 DEF GoalProved
    <3>3. QED
      BY <3>1, <3>2, <1>8
  <2>2. ASSUME NEW v \in DOMAIN s1.trans PROVE s1.tn[v] <=> AllProved(s1, s1.trans[v].subtasks)
    <3>1. CASE v = t
      BY <3>1, <1>5, <1>9, <1>10 DEF AllProved, b
    <3>2. CASE v # t
      <4>1. v \in DOMAIN s.trans /\ s.trans[v].subtasks \subseteq Goals(s)
        BY <3>2, <1>1, <1>8 DEF Tree
      <4>2. AllProved(s1, s1.trans[v].subtasks) <=> AllProved(s, s.trans[v].subtasks)
        BY <4>1, <1>9, <1>10 DEF AllProved
      <4>3. QED
        BY <4>1, <4>2, <1>1, <1>10 DEF SoundBut
    <3>3. QED
      BY <3>1, <3>2
  <2>3. s1.th <=> AllProved(s1, Roots)
    BY <1>1, <1>4, <1>9 DEF SoundBut, AllProved, Tree
  <2>4. QED
    BY <2>1, <2>2, <2>3 DEF SoundBut
<1>13. c.ses = s1 /\ c.on = "trans" /\ c.id = t
  BY DEF Call
<1>14. c \in [ses : Sessions, on : {"goal", "trans", "none"}, id : Nat]
  BY <1>1, <1>7 DEF Call
<1>15. update_trans_node(s1, t) = Result(c)
  BY DEF update_trans_node
<1> HIDE DEF c
<1>16. CallInv(s1, c)
  <2>1. Wrong(c) = {t} \cup (IF subs = {} THEN {g} ELSE {})
    BY <1>10, <1>13 DEF Wrong
  <2>2. SoundBut(s1, Wrong(c)) /\ SameTree(s1, s1)
    BY <2>1, <1>12 DEF SoundBut, SameTree
  <2>3. QED
    BY <2>2, <1>8, <1>11, <1>13, <1>14 DEF CallInv
<1>17. Tree(Result(c)) /\ SameTree(Result(c), s1) /\ SoundBut(Result(c), {})
  BY <1>13, <1>16, ResultSound
<1>18. QED
  BY <1>4, <1>15, <1>17 DEF Valid, SameTree, s1

(* The transformations under t: closed, with t, and all but t on a goal    *)
(* under t; none is older than t.                                          *)
LEMMA UnderFacts ==
  ASSUME NEW s, Valid(s), NEW t \in DOMAIN s.trans
  PROVE  /\ t \in Under(s, t) /\ Under(s, t) \subseteq DOMAIN s.trans
         /\ \A u \in Under(s, t), v \in DOMAIN s.trans :
              s.trans[v].parent \in s.trans[u].subtasks => v \in Under(s, t)
         /\ \A u \in Under(s, t) : u # t => s.trans[u].parent \in GoalsUnder(s, t)
         /\ \A u \in Under(s, t) : t <= u
         /\ GoalsUnder(s, t) = {g \in Goals(s) : s.parent[g] \in Under(s, t)}
<1> DEFINE U == Under(s, t)
<1>1. Tree(s) /\ DOMAIN s.trans \subseteq Nat /\ Goals(s) \subseteq Nat
  BY ValidFields
<1>2. t \in U /\ U \subseteq DOMAIN s.trans
  BY DEF Under
<1>3. ASSUME NEW u \in U, NEW v \in DOMAIN s.trans, s.trans[v].parent \in s.trans[u].subtasks
      PROVE  v \in U
  <2>1. SUFFICES ASSUME NEW T \in SUBSET DOMAIN s.trans, t \in T, ClosedDown(s, T) PROVE v \in T
    BY <1>3 DEF Under
  <2>2. u \in T
    BY <2>1 DEF Under
  <2>3. QED
    BY <1>3, <2>1, <2>2 DEF ClosedDown
<1>4. GoalsUnder(s, t) = {g \in Goals(s) : s.parent[g] \in U}
  <2>1. ASSUME NEW g PROVE g \in GoalsUnder(s, t) <=> \E u \in U : g \in s.trans[u].subtasks
    BY DEF GoalsUnder
  <2>2. \A u \in U : s.trans[u].subtasks = {g \in Goals(s) : s.parent[g] = u}
    BY <1>1, <1>2 DEF Tree
  <2> HIDE DEF U
  <2>3. QED
    BY <2>1, <2>2
<1>5. \A u \in U : u # t => s.trans[u].parent \in GoalsUnder(s, t)
  <2> DEFINE T == {u \in U : u = t \/ s.trans[u].parent \in GoalsUnder(s, t)}
  <2>1. ClosedDown(s, T)
    <3>1. SUFFICES ASSUME NEW u \in T, NEW v \in DOMAIN s.trans, s.trans[v].parent \in s.trans[u].subtasks
                   PROVE  v \in T
      BY DEF ClosedDown
    <3>2. v \in U
      BY <3>1, <1>3
    <3>3. s.trans[v].parent \in GoalsUnder(s, t)
      BY <3>1 DEF GoalsUnder
    <3>4. QED
      BY <3>2, <3>3
  <2>2. T \in SUBSET DOMAIN s.trans /\ t \in T
    BY <1>2
  <2> HIDE DEF T
  <2>3. \A u \in U : u \in T
    BY <2>1, <2>2 DEF Under
  <2>4. QED
    BY <2>3 DEF T
<1>6. \A u \in U : t <= u
  <2> DEFINE T == {u \in DOMAIN s.trans : t <= u}
  <2>1. ClosedDown(s, T)
    <3>1. SUFFICES ASSUME NEW u \in T, NEW v \in DOMAIN s.trans, s.trans[v].parent \in s.trans[u].subtasks
                   PROVE  v \in T
      BY DEF ClosedDown
    <3> DEFINE g == s.trans[v].parent
    <3>2. g \in Goals(s) /\ s.parent[g] = u /\ g < v
      BY <3>1, <1>1 DEF Tree
    <3>3. u # 0
      BY <1>1 DEF Tree
    <3>4. u < g
      BY <3>2, <3>3, <1>1 DEF Tree
    <3>5. u \in Nat /\ v \in Nat /\ g \in Nat /\ t \in Nat /\ t <= u
      BY <3>2, <1>1
    <3> HIDE DEF g
    <3>6. QED
      BY <3>2, <3>4, <3>5
  <2>2. T \in SUBSET DOMAIN s.trans /\ t \in T
    BY <1>1
  <2> HIDE DEF T
  <2>3. \A u \in U : u \in T
    BY <2>1, <2>2 DEF Under
  <2>4. QED
    BY <2>3 DEF T
<1>7. QED
  BY <1>2, <1>3, <1>4, <1>5, <1>6

LEMMA TransRemoved ==
  ASSUME NEW s, Valid(s), NEW t \in DOMAIN s.trans
  PROVE  LET r == remove_transformation(s, t)
         IN  /\ Valid(r) /\ DOMAIN r.att = DOMAIN s.att \ GoalsUnder(s, t)
             /\ Goals(r) \subseteq Goals(s) /\ r.next = s.next
             /\ s.pn[s.trans[t].parent] /\ ~s.tn[t] =>
                  r.th = s.th /\ \A g \in Goals(r) : r.pn[g] = s.pn[g]
<1> DEFINE gs == GoalsUnder(s, t)
           ts == Under(s, t)
           p == s.trans[t].parent
           s1 == [s EXCEPT !.parent = Without(s.parent, gs), !.att = Without(s.att, gs),
                           !.trans = Without(s.trans, ts),
                           !.pn = Without(s.pn, gs), !.tn = Without(s.tn, ts)]
           r == remove_transformation(s, t)
<1>1. /\ Tree(s) /\ SoundBut(s, {}) /\ s \in Sessions
      /\ s.parent \in [Goals(s) -> Nat] /\ Goals(s) \subseteq Nat
      /\ s.att \in [DOMAIN s.att -> BOOLEAN] /\ DOMAIN s.att \subseteq Goals(s)
      /\ s.pn \in [Goals(s) -> BOOLEAN]
      /\ DOMAIN s.trans \subseteq Nat
      /\ s.trans \in [DOMAIN s.trans -> [parent : Nat, subtasks : SUBSET Nat]]
      /\ s.tn \in [DOMAIN s.trans -> BOOLEAN]
      /\ s.next \in Nat /\ s.th \in BOOLEAN
  BY ValidFields
<1>2. /\ t \in ts /\ ts \subseteq DOMAIN s.trans
      /\ \A u \in ts, v \in DOMAIN s.trans : s.trans[v].parent \in s.trans[u].subtasks => v \in ts
      /\ \A u \in ts : u # t => s.trans[u].parent \in gs
      /\ \A u \in ts : t <= u
      /\ gs = {g \in Goals(s) : s.parent[g] \in ts}
  BY UnderFacts
<1>3. r = update_goal_node(s1, p)
  BY DEF remove_transformation
<1>4. /\ s1.parent = Without(s.parent, gs) /\ s1.att = Without(s.att, gs)
      /\ s1.trans = Without(s.trans, ts) /\ s1.next = s.next
      /\ s1.pn = Without(s.pn, gs) /\ s1.tn = Without(s.tn, ts) /\ s1.th = s.th
  BY <1>1 DEF Sessions
<1> HIDE DEF gs, ts
<1>5. s1 \in Sessions
  <2>1. \A R, f, S : f \in [DOMAIN f -> R] /\ DOMAIN f \subseteq Nat => Without(f, S) \in Funs(R)
    <3>1. SUFFICES ASSUME NEW R, NEW f, NEW S, f \in [DOMAIN f -> R], DOMAIN f \subseteq Nat
                   PROVE  Without(f, S) \in Funs(R)
      OBVIOUS
    <3>2. Without(f, S) \in [DOMAIN f \ S -> R]
      BY <3>1 DEF Without
    <3>3. QED
      BY <3>1, <3>2, FunsDef
  <2> DEFINE E == [parent : Nat, subtasks : SUBSET Nat]
  <2>2. /\ DOMAIN s.parent = Goals(s) /\ DOMAIN s.pn = Goals(s) /\ DOMAIN s.tn = DOMAIN s.trans
        /\ DOMAIN s.att \subseteq Nat
    BY <1>1
  <2>3. s.trans \in [DOMAIN s.trans -> E]
    BY <1>1
  <2> HIDE DEF E
  <2>4. /\ Without(s.parent, gs) \in Funs(Nat) /\ Without(s.att, gs) \in Funs(BOOLEAN)
        /\ Without(s.pn, gs) \in Funs(BOOLEAN) /\ Without(s.tn, ts) \in Funs(BOOLEAN)
        /\ Without(s.trans, ts) \in Funs(E)
    BY <2>1, <2>2, <2>3, <1>1
  <2>5. QED
    BY <2>4, <1>1 DEF Sessions, E
<1> HIDE DEF s1, r
<1>6. /\ Goals(s1) = Goals(s) \ gs /\ DOMAIN s1.trans = DOMAIN s.trans \ ts
      /\ DOMAIN s1.pn = Goals(s) \ gs /\ DOMAIN s1.tn = DOMAIN s.trans \ ts
      /\ DOMAIN s1.att = DOMAIN s.att \ gs
  BY <1>1, <1>4 DEF Goals, Without
<1>7. /\ \A g \in Goals(s1) : s1.parent[g] = s.parent[g] /\ s1.pn[g] = s.pn[g]
      /\ \A g \in DOMAIN s1.att : s1.att[g] = s.att[g]
      /\ \A v \in DOMAIN s1.trans : s1.trans[v] = s.trans[v] /\ s1.tn[v] = s.tn[v]
  BY <1>1, <1>4, <1>6 DEF Without, Goals
<1>8. p \in Goals(s1)
  <2>1. p \in Goals(s) /\ p < t /\ \A u \in ts : t <= u
    BY <1>1, <1>2 DEF Tree
  <2>2. p \in gs => s.parent[p] \in ts /\ s.parent[p] < p
    BY <1>1, <1>2 DEF Tree
  <2>3. p \in Nat /\ t \in Nat /\ s.parent[p] \in Nat
    BY <2>1, <1>1
  <2>4. QED
    BY <2>1, <2>2, <2>3, <1>6
<1>9. \A v \in DOMAIN s1.trans : s1.trans[v].subtasks \subseteq Goals(s1)
                               /\ s1.trans[v].subtasks = {g \in Goals(s1) : s1.parent[g] = v}
  <2>1. SUFFICES ASSUME NEW v \in DOMAIN s.trans, v \notin ts
                 PROVE  s.trans[v].subtasks = {g \in Goals(s1) : s1.parent[g] = v}
    BY <1>6, <1>7
  <2>2. s.trans[v].subtasks = {g \in Goals(s) : s.parent[g] = v}
    BY <1>1 DEF Tree
  <2>3. \A g \in Goals(s) : s.parent[g] = v => g \notin gs
    BY <2>1, <1>2
  <2>4. QED
    BY <2>2, <2>3, <1>6, <1>7
<1>10. Tree(s1)
  <2>1. /\ \A n \in Goals(s1) \cup DOMAIN s1.trans : 0 < n /\ n < s1.next
        /\ Goals(s1) \cap DOMAIN s1.trans = {} /\ DOMAIN s1.att \subseteq Goals(s1)
    BY <1>1, <1>4, <1>6 DEF Tree
  <2>2. Roots \subseteq Goals(s1) /\ \A g \in Goals(s1) : s1.parent[g] = 0 <=> g \in Roots
    <3>1. 0 \notin ts
      BY <1>1, <1>2 DEF Tree
    <3>2. QED
      BY <3>1, <1>1, <1>2, <1>6, <1>7 DEF Tree
  <2>3. \A g \in Goals(s1) : s1.parent[g] # 0 => s1.parent[g] \in DOMAIN s1.trans /\ s1.parent[g] < g
    BY <1>1, <1>2, <1>6, <1>7 DEF Tree
  <2>4. ASSUME NEW v \in DOMAIN s1.trans PROVE s1.trans[v].parent \in Goals(s1) /\ s1.trans[v].parent < v
    <3> DEFINE g == s.trans[v].parent
    <3>1. v \in DOMAIN s.trans /\ v \notin ts /\ s1.trans[v].parent = g
      BY <1>6, <1>7
    <3>2. g \in Goals(s) /\ g < v
      BY <3>1, <1>1 DEF Tree
    <3>3. ASSUME g \in gs PROVE FALSE
      <4>1. s.parent[g] \in ts
        BY <3>3, <1>2
      <4>2. g \in s.trans[s.parent[g]].subtasks
        BY <4>1, <3>2, <1>1, <1>2 DEF Tree
      <4>3. QED
        BY <4>1, <4>2, <3>1, <1>2
    <3>4. QED
      BY <3>1, <3>2, <3>3, <1>6
  <2>5. QED
    BY <2>1, <2>2, <2>3, <2>4, <1>5, <1>6, <1>9 DEF Tree
<1>11. ASSUME NEW g \in Goals(s1), g # p PROVE s1.pn[g] <=> GoalProved(s1, g)
  <2>1. TransOf(s1, g) = TransOf(s, g)
    <3>1. \A u \in ts : s.trans[u].parent # g
      BY <1>2, <1>6, <1>11
    <3>2. QED
      BY <3>1, <1>6, <1>7 DEF TransOf
  <2>2. \A u \in TransOf(s, g) : s1.tn[u] = s.tn[u]
    BY <2>1, <1>7 DEF TransOf
  <2>3. g \in DOMAIN s1.att <=> g \in DOMAIN s.att
    BY <1>6
  <2>4. GoalProved(s1, g) <=> GoalProved(s, g)
    BY <2>1, <2>2, <2>3, <1>7 DEF GoalProved
  <2>5. s.pn[g] <=> GoalProved(s, g)
    BY <1>1, <1>6 DEF SoundBut
  <2>6. QED
    BY <2>4, <2>5, <1>7
<1>12. ASSUME NEW v \in DOMAIN s1.trans PROVE s1.tn[v] <=> AllProved(s1, s1.trans[v].subtasks)
  <2>1. AllProved(s1, s1.trans[v].subtasks) <=> AllProved(s, s.trans[v].subtasks)
    BY <1>7, <1>9 DEF AllProved
  <2>2. s.tn[v] <=> AllProved(s, s.trans[v].subtasks)
    BY <1>1, <1>6 DEF SoundBut
  <2>3. QED
    BY <2>1, <2>2, <1>7
<1>13. s1.th <=> AllProved(s1, Roots)
  BY <1>1, <1>4, <1>7, <1>10 DEF SoundBut, AllProved, Tree
<1>14. SoundBut(s1, {p})
  BY <1>11, <1>12, <1>13 DEF SoundBut
<1>15. Tree(r) /\ SameTree(r, s1) /\ SoundBut(r, {})
  BY <1>3, <1>8, <1>10, <1>14, UpdateGoal
<1>16. /\ Valid(r) /\ DOMAIN r.att = DOMAIN s.att \ gs
       /\ Goals(r) \subseteq Goals(s) /\ r.next = s.next /\ Goals(r) = Goals(s1)
  BY <1>4, <1>6, <1>15 DEF Valid, SameTree, Goals
<1>17. ASSUME s.pn[p], ~s.tn[t] PROVE r.th = s.th /\ \A g \in Goals(r) : r.pn[g] = s.pn[g]
  <2>1. s.pn[p] <=> GoalProved(s, p)
    BY <1>1, <1>6, <1>8 DEF SoundBut
  <2>2. GoalProved(s1, p)
    <3>1. CASE p \in DOMAIN s.att /\ s.att[p]
      BY <3>1, <1>6, <1>7, <1>8 DEF GoalProved
    <3>2. CASE \E u \in TransOf(s, p) : s.tn[u]
      <4>1. PICK u \in TransOf(s, p) : s.tn[u]
        BY <3>2
      <4>2. u # t
        BY <4>1, <1>17
      <4>3. u \notin ts
        BY <4>1, <4>2, <1>2, <1>6, <1>8 DEF TransOf
      <4>4. u \in TransOf(s1, p) /\ s1.tn[u]
        BY <4>1, <4>3, <1>6, <1>7 DEF TransOf
      <4>5. QED
        BY <4>4 DEF GoalProved
    <3>3. QED
      BY <3>1, <3>2, <2>1, <1>17 DEF GoalProved
  <2>3. \A g \in Goals(s1) : s1.pn[g] <=> GoalProved(s1, g)
    <3>1. SUFFICES ASSUME NEW g \in Goals(s1) PROVE s1.pn[g] <=> GoalProved(s1, g)
      OBVIOUS
    <3>2. CASE g = p
      BY <3>2, <2>2, <1>7, <1>8, <1>17
    <3>3. CASE g # p
      BY <3>3, <1>11
    <3>4. QED
      BY <3>2, <3>3
  <2>4. SoundBut(s1, {})
    BY <2>3, <1>12, <1>13 DEF SoundBut
  <2>5. r = s1
    BY <2>4, <1>3, <1>8, <1>10, UpdateNothing
  <2>6. QED
    BY <2>5, <1>4, <1>7
<1>18. QED
  BY <1>16, <1>17 DEF gs, ts, r
-----------------------------------------------------------------------------
(* The files of a session: what save_session leaves on the disk when a     *)
(* system call of it fails or the program ends between any two of them,    *)
(* after any number of saves, failures and restarts.                       *)

LEMMA StepsDef ==
  /\ Len(Steps) = 8
  /\ Steps[1] = DropBackup("db")     /\ Steps[2] = Rename("db")
  /\ Steps[3] = DropBackup("shapes") /\ Steps[4] = Rename("shapes")
  /\ Steps[5] = OpenOut("db")        /\ Steps[6] = OpenOut("shapes")
  /\ Steps[7] = CloseOut("db")       /\ Steps[8] = CloseOut("shapes")
  BY DEF Steps

FilesType ==
  /\ disk \in [{"db", "db.bak", "shapes", "shapes.bak"} -> Nat \cup {Partial}]
  /\ step \in 0..8 /\ begun \in Nat /\ done \in Nat
  /\ done <= begun /\ over \in BOOLEAN

(* What the two files are at each step of a save.  A save that finds an    *)
(* incomplete file began over it.                                          *)
FilesByStep ==
  /\ step # 0 => up /\ begun > 0
  /\ step \in 1..2 /\ disk["db"] = Partial => over
  /\ step \in 3..5 => disk["db"] = Absent
  /\ step \in 6..7 => disk["db"] = Partial
  /\ step = 8 => disk["db"] = begun
  /\ step \in 7..8 => disk["shapes"] = Partial

(* A complete file is never older than the last save that returned.        *)
NewEnough == disk["db"] > 0 => disk["db"] >= done

FilesInv == FilesType /\ FilesByStep /\ NewEnough /\ SavedSurvives

LEMMA FilesInitially == FilesInit => FilesInv
<1> SUFFICES ASSUME FilesInit PROVE FilesInv
  OBVIOUS
<1>0. over \in BOOLEAN
  BY Zenon DEF FilesInit
<1>1. FilesType /\ disk["db"] = 0 /\ step = 0 /\ done = 0
  BY <1>0 DEF FilesInit, FilesType, Absent
<1>2. FilesByStep /\ NewEnough /\ SavedSurvives
  BY <1>1 DEF FilesByStep, NewEnough, SavedSurvives, Partial
<1>3. QED
  BY <1>1, <1>2 DEF FilesInv

LEMMA SaveStepInv == FilesInv /\ SaveStep => FilesInv'
<1> SUFFICES ASSUME FilesInv, SaveStep PROVE FilesInv'
  OBVIOUS
<1> USE DEF FilesInv, FilesType, FilesByStep, NewEnough, SavedSurvives, Absent, Partial, Backup
<1>1. step \in 1..8 /\ step' = (IF step = 8 THEN 0 ELSE step + 1)
  <2>1. step' = (step + 1) % 9 /\ step \in 1..8
    BY StepsDef DEF SaveStep
  <2>2. QED
    BY <2>1
<1>2. /\ up /\ disk' = Steps[step] /\ begun' = begun /\ up' = up
      /\ done' = (IF step = 8 THEN begun ELSE done)
      /\ over' = (over /\ step # 8)
  BY <1>1 DEF SaveStep
<1>3. CASE step = 1
  BY <1>1, <1>2, <1>3, StepsDef DEF DropBackup
<1>4. CASE step = 3
  BY <1>1, <1>2, <1>4, StepsDef DEF DropBackup
<1>5. CASE step \in {2, 4}
  BY <1>1, <1>2, <1>5, StepsDef DEF Rename
<1>6. CASE step \in {5, 6}
  BY <1>1, <1>2, <1>6, StepsDef DEF OpenOut
<1>7. CASE step \in {7, 8}
  BY <1>1, <1>2, <1>7, StepsDef DEF CloseOut
<1>8. QED
  BY <1>1, <1>3, <1>4, <1>5, <1>6, <1>7

LEMMA FilesStep == FilesInv /\ [FilesNext]_fileVars => FilesInv'
<1> SUFFICES ASSUME FilesInv, [FilesNext]_fileVars PROVE FilesInv'
  OBVIOUS
<1> USE DEF FilesInv, FilesType, FilesByStep, NewEnough, SavedSurvives, Absent, Partial
<1>1. CASE save_session
  <2>1. over' \in BOOLEAN /\ (over => over') /\ (disk["db"] = Partial => over')
    BY <1>1, Zenon DEF save_session
  <2>2. QED
    BY <1>1, <2>1 DEF save_session
<1>2. CASE SaveStep
  BY <1>2, SaveStepInv
<1>3. CASE SaveFails
  BY <1>3 DEF SaveFails
<1>4. CASE Crash
  BY <1>4 DEF Crash
<1>5. CASE load_session
  BY <1>5 DEF load_session
<1>6. CASE UNCHANGED fileVars
  BY <1>6 DEF fileVars
<1>7. QED
  BY <1>1, <1>2, <1>3, <1>4, <1>5, <1>6 DEF FilesNext

(* However often the program saves, wherever a save fails, and however     *)
(* often it ends and is started again, the last session saved is complete  *)
(* in one of its two files, unless a save that began over the incomplete   *)
(* file of a failed one has not returned; and a complete session is never  *)
(* beside the shapes of another one.                                       *)
THEOREM SavedSessionSurvives == FilesSpec => []SavedSurvives
<1>1. FilesInv => SavedSurvives
  BY DEF FilesInv
<1>2. QED
  BY <1>1, FilesInitially, FilesStep, PTL DEF FilesSpec
=============================================================================
