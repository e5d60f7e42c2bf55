------------------------------- MODULE MpzHigh -------------------------------
(***************************************************************************)
(* The functions of mini-gmp.c built on the mpz arithmetic: cofactors of   *)
(* the gcd, powers, modular powers, roots, sizes in a base, import and     *)
(* export.  Loops are recursive operators on the store.                    *)
(***************************************************************************)
EXTENDS Mpz

(* One step from each of two stores.                                       *)
AddTo(st, a, c) == mpz_add(st, a, a, c)
SubFrom(st, a, c) == mpz_sub(st, a, a, c)
ShiftBoth(st, a, c, k) ==
    Then(mpz_mul_2exp(st, a, a, k), LAMBDA z : mpz_mul_2exp(z, c, c, k))
Odd(x) == mpz_get_ui(x) % 2 = 1

(* The binary algorithm.  Kept by the loop, u and v being the operands     *)
(* without their common factors of two:                                    *)
(*    u = t0 tu + t1 tv,  v = s0 tu + s1 tv,  det = 2^power                *)
CofactorStep(st, power) ==
    LET less == mpz_cmp(st["tu"], st["tv"]) < 0
        d == IF less THEN SubFrom(st, "tv", "tu") ELSE SubFrom(st, "tu", "tv")
        Add(z) == IF less THEN AddTo(AddTo(z, "t0", "t1"), "s0", "s1")
                  ELSE mpz_add(mpz_add(z, "t1", "t0", "t1"), "s1", "s0", "s1")
        odd == Then(Then(d, Add), LAMBDA z : mpz_make_odd(z, IF less THEN "tv" ELSE "tu"))
    IN  [st |-> IF less THEN ShiftBoth(odd.st, "t1", "s1", odd.shift)
                ELSE ShiftBoth(odd.st, "t0", "s0", odd.shift),
         power |-> power + odd.shift]

RECURSIVE CofactorLoop(_, _)
CofactorLoop(st, power) ==
    IF mpz_cmp(st["tu"], st["tv"]) = 0 THEN [st |-> st, power |-> power]
    ELSE Then(CofactorStep(st, power), LAMBDA x : CofactorLoop(x.st, x.power))

(* 2^power g = s0 u + t0 v: a factor of two is taken out, power times.     *)
HalveOnce(st) ==
    LET odd == Odd(st["s0"]) \/ Odd(st["t0"])
        s == IF odd THEN Then(SubFrom(st, "s0", "s1"), LAMBDA z : AddTo(z, "t0", "t1")) ELSE st
        Half_(z, x) == mpz_div_qr_ui(z, x, NULL, x, 2, "TRUNC")
        Both(h) == LET k == Half_(h.st, "t0") IN Assert_(k.st, "s0", h.ret = 0 /\ k.ret = 0)
    IN  Then(Then(s, LAMBDA z : Half_(z, "s0")), Both)

RECURSIVE HalveCofactors(_, _)
HalveCofactors(st, power) ==
    LET half == power \div 2
    IN  CASE power = 0 -> st
          [] power = 1 -> HalveOnce(st)
          [] OTHER -> Then(HalveCofactors(st, half), LAMBDA z : HalveCofactors(z, power - half))

CofactorTemps == {"tu", "tv", "s0", "s1", "t0", "t1"}

(* The operands and results may have been exchanged: u, v, s, t below are  *)
(* the ones after MPZ_SRCPTR_SWAP and MPZ_PTR_SWAP.                        *)
GcdextNonzero(st, g, s, t, u, v, uz, vz, gz) ==
    LET Start(x) == mpz_setbit(mpz_mul_2exp(x.st, "t1", "t1", uz), "s1", vz)
        Reduced(x) ==
            LET m == mpz_make_odd(x, "tu")
            IN  IF x["tu"].size > 0
                THEN CofactorLoop(ShiftBoth(m.st, "t0", "s0", m.shift), uz + vz + m.shift)
                ELSE [st |-> x, power |-> uz + vz]
        Quotient(x, c, w) == mpz_abs(Then(x, LAMBDA z : mpz_divexact(z, c, w, "tv")), c, c)
        Quotients(f) ==
            LET h == mpz_neg(mpz_mul_2exp(f.st, "tv", "tv", gz), "s0", "s0")
            IN  [f EXCEPT !.st = Quotient(Quotient(h, "s1", v), "t1", u)]
        Halved(f) == Then(HalveCofactors(f.st, f.power), LAMBDA z : mpz_add(z, "s1", "s0", "s1"))
        Chosen(k) ==
            LET l == IF mpz_cmpabs(k["s0"], k["s1"]) > 0
                     THEN SubFrom(mpz_swap(k, "s0", "s1"), "t0", "t1") ELSE k
                n == IF l[u].size < 0 THEN mpz_neg(l, "s0", "s0") ELSE l
                o == IF n[v].size < 0 THEN mpz_neg(n, "t0", "t0") ELSE n
            IN  Clear(mpz_swap(mpz_swap(mpz_swap(o, g, "tv"), s, "s0"), t, "t0"), CofactorTemps)
        d == Then(mpz_setbit(st, "t0", uz),
                  LAMBDA z : mpz_div_qr(z, "t1", "tu", "tu", "tv", "TRUNC"))
    IN  Then(Then(Then(d, Start), Reduced),
             LAMBDA f : Then(Then(Quotients(f), Halved), Chosen))

(* With a zero operand the other is the gcd, with its sign as cofactor.    *)
TrivialGcdext(st, g, one, zero, w) ==
    LET sign == mpz_sgn(st[w])
        a == mpz_abs(st, g, w)
        c == IF zero = NULL THEN a ELSE mpz_set_ui(a, zero, 0)
    IN  IF one = NULL THEN c ELSE mpz_set_si(c, one, sign)

mpz_gcdext(st, g, s, t, u, v) ==
    LET a == mpz_make_odd(mpz_abs(Clear(st, CofactorTemps), "tu", u), "tu")
        c == mpz_make_odd(mpz_abs(a.st, "tv", v), "tv")
        gz == Min({a.shift, c.shift})
        uz == a.shift - gz
        vz == c.shift - gz
    IN  CASE st[u].size = 0 -> TrivialGcdext(st, g, t, s, v)
          [] st[u].size # 0 /\ st[v].size = 0 -> TrivialGcdext(st, g, s, t, u)
          [] OTHER ->
               Then(c.st, LAMBDA x :
                   IF x["tu"].size < x["tv"].size
                   THEN GcdextNonzero(mpz_swap(x, "tu", "tv"), g, t, s, v, u, vz, uz, gz)
                   ELSE GcdextNonzero(x, g, s, t, u, v, uz, vz, gz))

mpz_invert(st, r, u, m) ==
    LET Positive(x) == CASE x["inv"].size >= 0 -> x
                         [] x["inv"].size < 0 /\ x[m].size >= 0 -> AddTo(x, "inv", m)
                         [] OTHER -> SubFrom(x, "inv", m)
        Finish(x) ==
            LET yes == mpz_cmp_ui(x["g"], 1) = 0
            IN  [st |-> Clear(IF yes THEN mpz_swap(Positive(x), r, "inv") ELSE x, {"g", "inv"}),
                 ret |-> Flag(yes)]
    IN  IF st[u].size = 0 \/ mpz_cmpabs_ui(st[m], 1) <= 0 THEN [st |-> st, ret |-> 0]
        ELSE Then(mpz_gcdext(Clear(st, {"g", "inv"}), "g", "inv", NULL, u, m), Finish)

-----------------------------------------------------------------------------
(* Powers: all the bits of the exponent, from the top of the word.         *)

RECURSIVE PowLoop(_, _, _, _)
PowLoop(st, b, e, k) ==
    LET s == mpz_mul(st, "pw", "pw", "pw")
        m == IF Shr(e, k) % 2 = 1 THEN mpz_mul(s, "pw", "pw", b) ELSE s
    IN  IF k < 0 THEN st ELSE Then(m, LAMBDA z : PowLoop(z, b, e, k - 1))

mpz_pow_ui(st, r, b, e) ==
    Then(Then(mpz_set_ui(Clear(st, {"pw"}), "pw", 1), LAMBDA s : PowLoop(s, b, e, LimbBits - 1)),
         LAMBDA s : Clear(mpz_swap(s, r, "pw"), {"pw"}))

(* x reduced by the mn-limb divisor mp when it has at least min limbs.     *)
Reduce(st, x, min, mp, inv) ==
    LET d == mpn_div_qr_preinv(Limbs(st[x]), mp, inv)
        r == d.r
    IN  IF st[x].size < min THEN st
        ELSE SetSize(Assert_(Store(st, x, 0, r), x, d.ok), x, mpn_normalized_size(r))

RECURSIVE PowmLoop(_, _, _, _, _)
PowmLoop(st, e, k, mp, inv) ==
    LET bit == Shr(e[k \div LimbBits + 1], k % LimbBits) % 2
        s == mpz_mul(st, "pw", "pw", "pw")
        m == IF bit = 1 THEN mpz_mul(s, "pw", "pw", "base") ELSE s
    IN  IF k < 0 THEN st
        ELSE Then(Then(m, LAMBDA z : Reduce(z, "pw", Len(mp) + 1, mp, inv)),
                  LAMBDA z : PowmLoop(z, e, k - 1, mp, inv))

(* b, or its absolute value reduced by mp and subtracted from mp if b < 0. *)
PowmBase(st, b, mp, inv) ==
    LET s == mpz_abs(st, "base", b)
        n == s["base"].size
        q == mpn_div_qr_preinv(Limbs(s["base"]), mp, inv)
        bp == IF n >= Len(mp) THEN q.r ELSE Limbs(s["base"])
        m == mpn_sub(mp, bp)
        x == IF st[b].size < 0 THEN m.r ELSE bp
        w == Assert_(Store(s, "base", IF st[b].size < 0 THEN Len(mp) ELSE 0, x), "base",
                     (n >= Len(mp) => q.ok) /\ (st[b].size < 0 => m.cy = 0))
    IN  SetSize(w, "base", mpn_normalized_size(x))

(* All reductions but the last are by m shifted left until its top bit is  *)
(* set.  The caller sees to it that a negative exponent has an invertible  *)
(* base and that m # 0: the program aborts otherwise.                      *)
mpz_powm(st, r, b, e, m) ==
    LET inv == mpn_div_qr_invert(Limbs(st[m]))
        shift == inv.shift
        mp == IF shift > 0 THEN mpn_lshift(Limbs(st[m]), shift).r ELSE Limbs(st[m])
        inv0 == [inv EXCEPT !.shift = 0]
        s0 == Clear(st, {"base", "pw"})
        s1 == IF st[e].size < 0 THEN mpz_invert(s0, "base", b, m).st ELSE PowmBase(s0, b, mp, inv0)
        Power(z) == PowmLoop(mpz_set_ui(z, "pw", 1), Limbs(st[e]),
                             Abs(st[e].size) * LimbBits - 1, mp, inv0)
        Last(z) == Reduce(z, "pw", Len(mp), mp, inv)
    IN  IF st[e].size = 0 THEN mpz_set_ui(st, r, 1)
        ELSE Then(Then(Then(s1, Power), Last), LAMBDA z : Clear(mpz_swap(z, r, "pw"), {"base", "pw"}))

-----------------------------------------------------------------------------
(* Roots, by Newton's iteration from above.                                *)

mpz_sizeinbase2(u) == IF u.size = 0 THEN 1 ELSE SizeInBits(Limbs(u))

(* ru is x, rt the next x: (y / x^(z-1) + x (z-1)) / z, a shift for z = 2. *)
NextRoot(st, y, z) ==
    IF z = 2
    THEN Then(mpz_tdiv_q(st, "rt", y, "ru"),
              LAMBDA x : mpz_tdiv_q_2exp(AddTo(x, "rt", "ru"), "rt", "rt", 1))
    ELSE LET Quotient(x) == mpz_tdiv_q(x, "rt", y, "rt")
             Sum(x) == AddTo(mpz_mul_ui(x, "rv", "ru", z - 1), "rt", "rv")
             Mean(x) == mpz_div_qr_ui(x, "rt", NULL, "rt", z, "TRUNC").st
         IN  Then(Then(Then(mpz_pow_ui(st, "rt", "ru", z - 1), Quotient), Sum), Mean)

RECURSIVE RootLoop(_, _, _)
RootLoop(st, y, z) ==
    Then(NextRoot(mpz_swap(st, "ru", "rt"), y, z),
         LAMBDA s : IF mpz_cmpabs(s["rt"], s["ru"]) < 0 THEN RootLoop(s, y, z) ELSE s)

(* The caller sees to it that z > 0 and that a negative y has an odd z.    *)
mpz_rootrem(st, x, r, y, z) ==
    LET s0 == Clear(st, {"ru", "rt", "rv"})
        s1 == mpz_setbit(s0, "rt", mpz_sizeinbase2(st[y]) \div z + 1)
        s2 == IF z # 2 /\ st[y].size < 0 THEN mpz_neg(s1, "rt", "rt") ELSE s1
        Remainder(s) ==
            IF r = NULL THEN s
            ELSE Then(mpz_pow_ui(s, "rt", "ru", z), LAMBDA p : mpz_sub(p, r, y, "rt"))
        Done(s) == Clear(mpz_swap(s, x, "ru"), {"ru", "rt", "rv"})
    IN  IF mpz_cmpabs_ui(st[y], 1) <= 0
        THEN SetSize(IF x = NULL THEN st ELSE mpz_set(st, x, y), r, 0)
        ELSE Then(Then(Then(s2, LAMBDA s : RootLoop(s, y, z)), Remainder), Done)

mpz_perfect_square_p(st, u) ==
    IF st[u].size <= 0 THEN st[u].size = 0
    ELSE mpz_rootrem(Clear(st, {"t"}), NULL, "t", u, 2)["t"].size = 0

(* Factorials and binomials; n counts down in both loops.                  *)
RECURSIVE FacLoop(_, _, _)
FacLoop(st, x, n) ==
    IF n > 2 THEN Then(mpz_mul_ui(st, x, x, n - 1), LAMBDA s : FacLoop(s, x, n - 1)) ELSE st

mpz_fac_ui(st, x, n) == FacLoop(mpz_set_ui(st, x, Word(n + Flag(n = 0))), x, n)

RECURSIVE FallingLoop(_, _, _, _)
FallingLoop(st, r, n, k) ==
    IF k > 0 THEN Then(mpz_mul_ui(st, r, r, n), LAMBDA s : FallingLoop(s, r, Word(n - 1), k - 1))
    ELSE st

mpz_bin_uiui(st, r, n, k) ==
    LET k1 == CASE k <= Shr(n, 1) -> k [] k > n -> 0 [] OTHER -> n - k
        s == mpz_fac_ui(mpz_set_ui(Clear(st, {"t"}), r, Flag(k <= n)), "t", k1)
    IN  Clear(mpz_divexact(FallingLoop(s, r, n, k1), r, r, "t"), {"t"})

-----------------------------------------------------------------------------
(* Sizes and words.                                                        *)

RECURSIVE CountDigits(_, _)
CountDigits(u, bi) ==
    LET x == mpn_div_qr_1_preinv(u, bi)
        un == Len(u) - Flag(x.q[Len(u)] = 0)
    IN  IF un = 0 THEN 1 ELSE 1 + CountDigits(SubSeq(x.q, 1, un), bi)

mpz_sizeinbase(u, base) ==
    LET bits == mpn_base_power_of_two_p(base)
    IN  CASE u.size = 0 -> 1
          [] u.size # 0 /\ bits # 0 -> (mpz_sizeinbase2(u) + bits - 1) \div bits
          [] OTHER -> CountDigits(Limbs(u), mpn_div_qr_1_invert(base))

LimbBytes == LimbBits \div ByteBits

(* endian = 0 stands for that of the machine, here least significant byte  *)
(* first.                                                                  *)
gmp_detect_endian == -1
RealEndian(endian) == IF endian = 0 THEN gmp_detect_endian ELSE endian

(* Where the pointer p stands for the k-th byte from the least significant *)
(* end of count words of size bytes.  It starts at the low byte of the low *)
(* word, moves against endian, and by word_step after each word.           *)
BytePlace(k, count, order, size, endian0) ==
    LET endian == RealEndian(endian0)
        start == (IF order = 1 THEN size * (count - 1) ELSE 0) + (IF endian = 1 THEN size - 1 ELSE 0)
        word_step == IF order = endian THEN 0 ELSE -order * 2 * size
    IN  start - endian * k + word_step * (k \div size) + 1

(* Limbs are stored as they fill up; a partial one only if it is not zero. *)
mpz_import(st, r, count, order, size, endian, src) ==
    LET total == size * count
        rn == (total + LimbBytes - 1) \div LimbBytes
        Byte(k) == IF k < total THEN src[BytePlace(k, count, order, size, endian)] ELSE 0
        At(i) == MapThenSumSet(LAMBDA j : Byte((i - 1) * LimbBytes + j) * 2 ^ (j * ByteBits),
                               0 .. LimbBytes - 1)
        whole == [i \in 1 .. total \div LimbBytes |-> At(i)]
        part  == total % LimbBytes # 0 /\ At(rn) # 0
        rp == IF part THEN Append(whole, At(rn)) ELSE whole
        n  == IF part THEN rn ELSE mpn_normalized_size(whole)
    IN  SetSize(Assert_(Store(st, r, rn, rp), r, Len(whole) + Flag(total % LimbBytes > 0) = rn), r, n)

(* The bytes written, the words they make, and the assertions that the top *)
(* limb is not zero and that every limb was read.                          *)
mpz_export(u, order, size, endian) ==
    LET d == Limbs(u)
        un == Len(d)
        k == Min({j \in 1 .. LimbBytes : Shr(d[un], j * ByteBits) = 0})
        count == (k + (un - 1) * LimbBytes + size - 1) \div size
        Byte(b) == IF b < un * LimbBytes
                   THEN Shr(d[b \div LimbBytes + 1], (b % LimbBytes) * ByteBits) % 2 ^ ByteBits ELSE 0
        at == [p \in 1 .. count * size |->
                 CHOOSE b \in 0 .. count * size - 1 : BytePlace(b, count, order, size, endian) = p]
        i == (count * size + LimbBytes - 1) \div LimbBytes
    IN  IF un = 0 THEN [count |-> 0, bytes |-> <<>>, ok |-> TRUE]
        ELSE [count |-> count, bytes |-> [p \in 1 .. count * size |-> Byte(at[p])],
              ok |-> d[un] # 0 /\ Min({i, un}) = un]
=============================================================================
