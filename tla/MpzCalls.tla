------------------------------- MODULE MpzCalls -------------------------------
(***************************************************************************)
(* A client of the mpz functions.  It gives the variables x and y any      *)
(* values, with or without spare limbs, calls one function on them, the    *)
(* result being stored in an operand or in a fresh variable Out, and       *)
(* starts again.  The variables it starts from are all those a function    *)
(* may leave, so that one call at a time covers sequences of calls.        *)
(***************************************************************************)
EXTENDS MpzHigh, TLC

CONSTANTS MaxSize,    \* bound: limbs of an operand
          MaxSpare,   \* bound: allocated limbs of x that are not in use
          Shifts,     \* bit counts and bit numbers tried
          Exponents   \* exponents tried

VARIABLES reg,    \* the variables: [alloc, size, d]
          made    \* the call that is made, or NoCall

vars == <<reg, made>>

Vars == {"x", "y", "Out"}
Temps == {"t", "tq", "tr", "tu", "tv", "g", "s0", "s1", "t0", "t1", "inv", "pw", "base", "ru", "rt", "rv"}
NoCall == [op |-> "none"]
Empty == [alloc |-> 0, size |-> 0, d |-> <<>>]
Modes == {"FLOOR", "CEIL", "TRUNC"}
Long == -HighBit .. HighBit - 1

(* The operands of n limbs, with any sign and e spare limbs.               *)
Operand(n, e) ==
    {[alloc |-> n + e, size |-> s * n, d |-> v] :
        v \in {v \in [1 .. n -> Limb] : n > 0 => v[n] # 0}, s \in {1, -1}}

Init == reg = [x \in Vars |-> Empty] /\ made = NoCall

(* One operand, with spare limbs or without, or two.                       *)
Load ==
    /\ made = NoCall /\ reg["x"] = Empty /\ reg["y"] = Empty
    /\ \E m, n \in 0 .. MaxSize, e \in 0 .. MaxSpare :
          /\ n > 0 => e = 0
          /\ \E a \in Operand(m, e), b \in Operand(n, 0) : reg' = [reg EXCEPT !["x"] = a, !["y"] = b]
    /\ UNCHANGED made

Call(c) == made' = c /\ UNCHANGED reg

(* A function of one operand is called on x, with nothing in y.            *)
One == made = NoCall /\ reg["y"] = Empty
Both == made = NoCall

Assign == One /\ \E k \in Limb \cup Long : Call([op |-> "set_word", r |-> "x", k |-> k])

Unary ==
    /\ One
    /\ \E op \in {"set", "neg", "abs", "com", "swap"}, r \in Vars :
          Call([op |-> op, r |-> r, a |-> "x"])

Binary ==
    /\ Both
    /\ \E op \in {"add", "sub", "mul", "addmul", "submul", "and", "ior", "xor", "gcd", "lcm"},
          r \in Vars, b \in {"x", "y"} :
             /\ b = "x" => reg["y"] = Empty
             /\ Call([op |-> op, r |-> r, a |-> "x", b |-> b])

WithWord ==
    /\ One
    /\ \E r \in {"x", "Out"} :
          \/ \E op \in {"add_ui", "sub_ui", "ui_sub", "gcd_ui", "lcm_ui"}, k \in Limb :
                Call([op |-> op, r |-> r, a |-> "x", k |-> k])
          \/ \E k \in Limb \cup Long : Call([op |-> "mul_word", r |-> r, a |-> "x", k |-> k])

Shift ==
    /\ One
    /\ \E op \in {"mul_2exp", "div_q_2exp", "div_r_2exp"}, mode \in Modes, r \in {"x", "Out"},
          k \in Shifts : Call([op |-> op, r |-> r, a |-> "x", k |-> k, mode |-> mode])

Bits ==
    /\ One
    /\ \E op \in {"setbit", "clrbit", "combit"}, k \in Shifts : Call([op |-> op, r |-> "x", k |-> k])

(* The program stops on a division by zero; quotient and remainder must be *)
(* different variables, and either may be missing.                         *)
Divide ==
    /\ Both
    /\ \E q, r \in Vars \cup {NULL}, b \in {"x", "y"} :
          /\ q # r /\ reg[b].size # 0 /\ (b = "x" => reg["y"] = Empty)
          /\ \/ \E mode \in Modes :
                   Call([op |-> "div", q |-> q, r |-> r, a |-> "x", b |-> b, mode |-> mode])
             \/ q = NULL /\ Call([op |-> "mod", r |-> r, a |-> "x", b |-> b])

DivideWord ==
    /\ One
    /\ \E q, r \in {"x", "Out", NULL}, k \in Limb \ {0}, mode \in Modes :
          /\ q # r
          /\ Call([op |-> "div_ui", q |-> q, r |-> r, a |-> "x", k |-> k, mode |-> mode])

Gcdext ==
    /\ Both
    /\ \E g \in Vars, s, t \in Vars \cup {NULL} :
          /\ g # s /\ g # t /\ (s # t \/ s = NULL)
          /\ Call([op |-> "gcdext", r |-> g, q |-> s, s |-> t, a |-> "x", b |-> "y"])

Value(x) == Signed(x.size < 0, MapThenSumSet(LAMBDA i : x.d[i] * B ^ (i - 1), 1 .. Abs(x.size)))
Ints == INSTANCE IntFunctions WITH WordBits <- LimbBits, HostOrder <- gmp_detect_endian

(* mpz_invert and mpz_powm stop on a zero modulus, mpz_powm also on an     *)
(* exponent below zero for a base without an inverse.                      *)
Modular ==
    /\ Both
    /\ \E r \in Vars :
          \/ /\ reg["y"].size # 0
             /\ Call([op |-> "invert", r |-> r, a |-> "x", b |-> "y"])
          \/ \E a, b, m \in {"x", "y"} :
                /\ Cardinality({a, b, m}) = 2 /\ reg[m].size # 0
                /\ reg[b].size < 0 => \E i \in 1 .. Abs(Value(reg[m])) - 1 :
                                         (Value(reg[a]) * i) % Abs(Value(reg[m])) = 1
                /\ Call([op |-> "powm", r |-> r, a |-> a, b |-> b, c |-> m])

Power ==
    One /\ \E r \in {"x", "Out"}, k \in Exponents : Call([op |-> "pow_ui", r |-> r, a |-> "x", k |-> k])

Combinatorial ==
    /\ One
    /\ \E n, k \in Limb :
          \/ k = 0 /\ Call([op |-> "fac_ui", r |-> "x", n |-> n])
          \/ Call([op |-> "bin_uiui", r |-> "x", n |-> n, k |-> k])

(* Even roots of numbers below zero, and zeroth roots, stop the program.   *)
Root ==
    /\ One
    /\ \E q, r \in {"x", "Out", NULL}, k \in Exponents \ {0} :
          /\ q # r /\ (reg["x"].size < 0 => k % 2 = 1)
          /\ Call([op |-> "rootrem", q |-> q, r |-> r, a |-> "x", k |-> k])

(* Words of one to three bytes: a number is written out, or bytes are read. *)
Export ==
    /\ One
    /\ \E order \in {-1, 1}, endian \in -1 .. 1, size \in 1 .. 3 :
          Call([op |-> "export", a |-> "x", order |-> order, endian |-> endian, k |-> size])

Import ==
    /\ One /\ reg["x"] \in Operand(1, 0)
    /\ \E r \in {"x", "Out"}, order \in {-1, 1}, endian \in -1 .. 1, size \in 1 .. 3, count \in 0 .. 2 :
          \E src \in [1 .. size * count -> 0 .. 2 ^ ByteBits - 1] :
             Call([op |-> "import", r |-> r, order |-> order, endian |-> endian, k |-> size, n |-> count,
                   src |-> src])

Query ==
    /\ One
    /\ \/ \E op \in {"popcount", "fits_slong", "get_si", "square_p"} : Call([op |-> op, a |-> "x"])
       \/ \E op \in {"cmp_word", "cmpabs_ui"}, k \in Limb \cup Long :
             /\ op = "cmpabs_ui" => k >= 0
             /\ Call([op |-> op, a |-> "x", k |-> k])
       \/ \E op \in {"tstbit", "scan1", "scan0"}, k \in Shifts : Call([op |-> op, a |-> "x", k |-> k])
       \/ \E k \in 2 .. LimbMax : Call([op |-> "sizeinbase", a |-> "x", k |-> k])

Compare ==
    /\ Both
    /\ \/ \E op \in {"cmp", "cmpabs", "hamdist"} : Call([op |-> op, a |-> "x", b |-> "y"])
       \/ \E a, b, m \in {"x", "y"} : Call([op |-> "congruent", a |-> a, b |-> b, c |-> m])

Return == made # NoCall /\ made' = NoCall /\ reg' = [x \in Vars |-> Empty]

Next == \/ Load \/ Assign \/ Unary \/ Binary \/ WithWord \/ Shift \/ Bits \/ Divide \/ DivideWord
        \/ Gcdext \/ Modular \/ Power \/ Combinatorial \/ Root \/ Export \/ Import \/ Query \/ Compare \/ Return

Spec == Init /\ [][Next]_vars

-----------------------------------------------------------------------------
(* The store a function works on: the variables and fresh temporaries.     *)
store == [x \in Vars \cup Temps |-> IF x \in Vars THEN reg[x] @@ [ok |-> TRUE] ELSE Fresh]

Stores(s) == [st |-> s, ret |-> 0]
Returns(n) == [st |-> store, ret |-> n]

(* What the call c leaves in the store, and what it returns.               *)
Result(c) ==
    LET r == c.r
        a == c.a
        b == c.b
        k == c.k
        Is(name) == c.op = name
    IN  CASE Is("set_word") -> Stores(IF k < 0 THEN mpz_set_si(store, r, k) ELSE mpz_set_ui(store, r, k))
          [] Is("set")    -> Stores(mpz_set(store, r, a))
          [] Is("neg")    -> Stores(mpz_neg(store, r, a))
          [] Is("abs")    -> Stores(mpz_abs(store, r, a))
          [] Is("com")    -> Stores(mpz_com(store, r, a))
          [] Is("swap")   -> Stores(mpz_swap(store, r, a))
          [] Is("add")    -> Stores(mpz_add(store, r, a, b))
          [] Is("sub")    -> Stores(mpz_sub(store, r, a, b))
          [] Is("mul")    -> Stores(mpz_mul(store, r, a, b))
          [] Is("addmul") -> Stores(mpz_addmul(store, r, a, b))
          [] Is("submul") -> Stores(mpz_submul(store, r, a, b))
          [] Is("and")    -> Stores(mpz_and(store, r, a, b))
          [] Is("ior")    -> Stores(mpz_ior(store, r, a, b))
          [] Is("xor")    -> Stores(mpz_xor(store, r, a, b))
          [] Is("gcd")    -> Stores(mpz_gcd(store, r, a, b))
          [] Is("lcm")    -> Stores(mpz_lcm(store, r, a, b))
          [] Is("add_ui") -> Stores(mpz_add_ui(store, r, a, k))
          [] Is("sub_ui") -> Stores(mpz_sub_ui(store, r, a, k))
          [] Is("ui_sub") -> Stores(mpz_ui_sub(store, r, k, a))
          [] Is("mul_word") -> Stores(IF k < 0 THEN mpz_mul_si(store, r, a, k) ELSE mpz_mul_ui(store, r, a, k))
          [] Is("gcd_ui") -> mpz_gcd_ui(store, r, a, k)
          [] Is("lcm_ui") -> Stores(mpz_lcm_ui(store, r, a, k))
          [] Is("mul_2exp") -> Stores(mpz_mul_2exp(store, r, a, k))
          [] Is("div_q_2exp") -> Stores(mpz_div_q_2exp(store, r, a, k, c.mode))
          [] Is("div_r_2exp") -> Stores(mpz_div_r_2exp(store, r, a, k, c.mode))
          [] Is("setbit") -> Stores(mpz_setbit(store, r, k))
          [] Is("clrbit") -> Stores(mpz_clrbit(store, r, k))
          [] Is("combit") -> Stores(mpz_combit(store, r, k))
          [] Is("div") -> LET x == mpz_div_qr(store, c.q, r, a, b, c.mode)
                          IN  [st |-> x.st, ret |-> Flag(x.rem)]
          [] Is("mod")    -> Stores(mpz_mod(store, r, a, b))
          [] Is("div_ui") -> mpz_div_qr_ui(store, c.q, r, a, k, c.mode)
          [] Is("gcdext") -> Stores(mpz_gcdext(store, r, c.q, c.s, a, b))
          [] Is("invert") -> mpz_invert(store, r, a, b)
          [] Is("powm")   -> Stores(mpz_powm(store, r, a, b, c.c))
          [] Is("pow_ui") -> Stores(mpz_pow_ui(store, r, a, k))
          [] Is("fac_ui") -> Stores(mpz_fac_ui(store, r, c.n))
          [] Is("bin_uiui") -> Stores(mpz_bin_uiui(store, r, c.n, k))
          [] Is("rootrem") -> Stores(mpz_rootrem(store, c.q, r, a, k))
          [] Is("export") -> LET x == mpz_export(reg[a], c.order, k, c.endian)
                             IN  [st |-> Assert_(store, NULL, x.ok), ret |-> x.bytes]
          [] Is("import") -> Stores(mpz_import(store, r, c.n, c.order, k, c.endian, c.src))
          [] Is("popcount") -> Returns(mpz_popcount(reg[a]))
          [] Is("fits_slong") -> Returns(Flag(mpz_fits_slong_p(reg[a])))
          [] Is("get_si") -> Returns(mpz_get_si(reg[a]))
          [] Is("square_p") -> Returns(Flag(mpz_perfect_square_p(store, a)))
          [] Is("cmp_word") -> Returns(IF k < 0 THEN mpz_cmp_si(reg[a], k) ELSE mpz_cmp_ui(reg[a], k))
          [] Is("cmpabs_ui") -> Returns(mpz_cmpabs_ui(reg[a], k))
          [] Is("tstbit") -> Returns(mpz_tstbit(reg[a], k))
          [] Is("scan1")  -> Returns(mpz_scan1(reg[a], k))
          [] Is("scan0")  -> Returns(mpz_scan0(reg[a], k))
          [] Is("sizeinbase") -> Returns(mpz_sizeinbase(reg[a], k))
          [] Is("cmp")    -> Returns(mpz_cmp(reg[a], reg[b]))
          [] Is("cmpabs") -> Returns(mpz_cmpabs(reg[a], reg[b]))
          [] Is("hamdist") -> LET x == mpz_hamdist(reg[a], reg[b])
                              IN  [st |-> Assert_(store, NULL, x.ok), ret |-> x.c]
          [] Is("congruent") -> Returns(Flag(mpz_congruent_p(store, a, b, c.c)))

(* What all functions count on: |size| limbs within the allocation, the    *)
(* top one not zero.                                                       *)
Sound(x) == LET n == Abs(x.size) IN n <= x.alloc /\ (n > 0 => x.d[n] # 0)

(* The one result that is not reduced: mpz_powm stores 1 for an exponent   *)
(* of 0 whatever the modulus, where wmpz_powm of tests.c stores 0 modulo 1. *)
PowmModuloOne(c, v, w) ==
    c.op = "powm" /\ v[c.b] = 0 /\ Abs(v[c.c]) = 1 /\ w = [v EXCEPT ![c.r] = 1]

(* Every function computes exactly what its name says on the integers its  *)
(* operands stand for, whichever variables coincide, and leaves the other  *)
(* variables alone, PowmModuloOne excepted.  It stores no limb beyond what *)
(* it asked MPZ_REALLOC or mpz_init2 for, none of its asserts fails, and   *)
(* it leaves its variables as the next function needs them.                *)
CallsExact ==
    [][made # NoCall =>
         \E x \in {Result(made)} :
             /\ \A v \in DOMAIN x.st : x.st[v].ok
             /\ \A v \in Vars : Sound(x.st[v])
             /\ \E before \in {[v \in Vars |-> Value(reg[v])]}, after \in {[v \in Vars |-> Value(x.st[v])]} :
                   \/ PowmModuloOne(made, before, after)
                   \/ Ints!Computes(before, after, made @@ [ret |-> x.ret])]_vars
=============================================================================
