--------------------------------- MODULE Mpz ---------------------------------
(***************************************************************************)
(* The mpz layer of mini-gmp.c: signed integers of any size.  A variable   *)
(* of type mpz_t is a record: alloc limbs are allocated at d, the first    *)
(* |size| of them are the magnitude, the sign of size is the sign.         *)
(*                                                                         *)
(* A function maps the store st, which holds every variable, to the store  *)
(* it leaves, so that what it reads of an operand after it wrote to the    *)
(* result is what was written when the two are the same variable.          *)
(* Temporaries are variables of the store too; mpz_init and mpz_clear give *)
(* them the state Fresh.  Limbs beyond those last written are not kept in  *)
(* d: no function may count on them.                                       *)
(*                                                                         *)
(* ok is a ghost: it turns FALSE, for good, when limbs are stored beyond   *)
(* alloc or an assert of the code fails.                                   *)
(***************************************************************************)
EXTENDS Mpn

Fresh == [alloc |-> 0, size |-> 0, d |-> <<>>, ok |-> TRUE]
NULL == "NULL"

Abs(x) == IF x >= 0 THEN x ELSE -x
Larger(x, y) == IF x >= y THEN x ELSE y
Limbs(x) == SubSeq(x.d, 1, Abs(x.size))
SameSign(a, b) == (a.size < 0) = (b.size < 0)      \* (asize ^ bsize) >= 0
Signed(neg, n) == IF neg THEN -n ELSE n

Clear(st, names) ==
    [x \in DOMAIN st |-> IF x \in names THEN [Fresh EXCEPT !.ok = st[x].ok] ELSE st[x]]
SetSize(st, r, n) == IF r = NULL THEN st ELSE [st EXCEPT ![r].size = n]
Assert_(st, r, p) == [st EXCEPT ![IF r = NULL THEN "t" ELSE r].ok = @ /\ p]

(* mpz_realloc keeps the limbs; it is only called to grow.                 *)
MPZ_REALLOC(x, n) == IF n > x.alloc THEN [x EXCEPT !.alloc = Larger(n, 1)] ELSE x

(* The limbs s are stored at the start of the n limbs requested for r.     *)
Store(st, r, n, s) ==
    LET x == MPZ_REALLOC(st[r], n)
    IN  [st EXCEPT ![r] = [x EXCEPT !.d = s, !.ok = x.ok /\ Len(s) <= x.alloc]]

mpz_init2(bits) == [Fresh EXCEPT !.alloc = 1 + (bits - Flag(bits # 0)) \div LimbBits]

-----------------------------------------------------------------------------
(* Assignment, sign and comparison.                                        *)

mpz_set_ui(st, r, x) ==
    IF x > 0 THEN Store(SetSize(st, r, 1), r, 1, <<x>>) ELSE SetSize(st, r, 0)

(* GMP_NEG_CAST is right for the least long too.                           *)
mpz_set_si(st, r, x) ==
    IF x >= 0 THEN mpz_set_ui(st, r, x)
    ELSE Store(SetSize(st, r, -1), r, 1, <<Word(-(Word(x + 1) - 1))>>)

mpz_set(st, r, x) ==
    IF r = x THEN st
    ELSE SetSize(Store(st, r, Abs(st[x].size), Limbs(st[x])), r, st[x].size)

mpz_abs(st, r, u) == LET s == mpz_set(st, r, u) IN SetSize(s, r, Abs(s[r].size))
mpz_neg(st, r, u) == LET s == mpz_set(st, r, u) IN SetSize(s, r, -s[r].size)

mpz_swap(st, u, v) ==
    IF u = NULL \/ v = NULL THEN st ELSE [st EXCEPT ![u] = st[v], ![v] = st[u]]

mpz_sgn(u) == GMP_CMP(u.size, 0)
mpz_get_ui(u) == IF u.size = 0 THEN 0 ELSE u.d[1]

(* The low bits of the magnitude, read so that the least long comes out.   *)
mpz_get_si(u) ==
    IF u.size < 0 THEN -1 - (Word(u.d[1] - 1) % HighBit) ELSE mpz_get_ui(u) % HighBit

mpz_fits_slong_p(u) ==
    CASE u.size = 1  -> u.d[1] < HighBit
      [] u.size = -1 -> u.d[1] <= HighBit
      [] OTHER       -> u.size = 0

mpz_cmp_ui(u, v) ==
    CASE u.size > 1 -> 1
      [] u.size < 0 -> -1
      [] OTHER      -> GMP_CMP(mpz_get_ui(u), v)

mpz_cmp_si(u, v) ==
    CASE u.size < -1 -> -1
      [] u.size >= -1 /\ v >= 0 -> mpz_cmp_ui(u, v)
      [] u.size >= 0 /\ v < 0 -> 1
      [] OTHER -> GMP_CMP(Word(-(Word(v + 1) - 1)), u.d[1])

mpz_cmp(a, b) ==
    CASE a.size # b.size -> GMP_CMP(a.size, b.size)
      [] a.size = b.size /\ a.size >= 0 -> mpn_cmp(Limbs(a), Limbs(b))
      [] OTHER -> mpn_cmp(Limbs(b), Limbs(a))

mpz_cmpabs_ui(u, v) == IF Abs(u.size) > 1 THEN 1 ELSE GMP_CMP(mpz_get_ui(u), v)
mpz_cmpabs(u, v) == mpn_cmp4(Limbs(u), Limbs(v))

-----------------------------------------------------------------------------
(* Addition and subtraction.  The mpz_abs functions leave the limbs in r   *)
(* and return the new size rn without storing it.                          *)

mpz_abs_add_ui(st, r, a, b) ==
    LET an == Abs(st[a].size)
        s  == mpn_add_1(Limbs(st[a]), b)
    IN  IF an = 0 THEN [st |-> Store(st, r, 1, <<b>>), rn |-> Flag(b > 0)]
        ELSE [st |-> Store(st, r, an + 1, Append(s.r, s.cy)), rn |-> an + s.cy]

mpz_abs_sub_ui(st, r, a, b) ==
    LET an == Abs(st[a].size)
        s  == mpn_sub_1(Limbs(st[a]), b)
    IN  CASE an = 0 -> [st |-> Store(st, r, 1, <<b>>), rn |-> -Flag(b > 0)]
          [] an = 1 /\ st[a].d[1] < b -> [st |-> Store(st, r, an, <<b - st[a].d[1]>>), rn |-> -1]
          [] OTHER -> [st |-> Assert_(Store(st, r, an, s.r), r, s.cy = 0),
                       rn |-> mpn_normalized_size(s.r)]

mpz_add_ui(st, r, a, b) ==
    IF st[a].size >= 0
    THEN LET x == mpz_abs_add_ui(st, r, a, b) IN SetSize(x.st, r, x.rn)
    ELSE LET x == mpz_abs_sub_ui(st, r, a, b) IN SetSize(x.st, r, -x.rn)

mpz_sub_ui(st, r, a, b) ==
    IF st[a].size < 0
    THEN LET x == mpz_abs_add_ui(st, r, a, b) IN SetSize(x.st, r, -x.rn)
    ELSE LET x == mpz_abs_sub_ui(st, r, a, b) IN SetSize(x.st, r, x.rn)

mpz_ui_sub(st, r, a, b) ==
    IF st[b].size < 0
    THEN LET x == mpz_abs_add_ui(st, r, b, a) IN SetSize(x.st, r, x.rn)
    ELSE LET x == mpz_abs_sub_ui(st, r, b, a) IN SetSize(x.st, r, -x.rn)

(* Mutant: no room is requested for the carry.                             *)
NoRoomForCarry(st, r, a, b) ==
    LET swap == Abs(st[a].size) < Abs(st[b].size)
        u == Limbs(st[IF swap THEN b ELSE a])
        v == Limbs(st[IF swap THEN a ELSE b])
        s == mpn_add(u, v)
    IN  [st |-> Store(st, r, Len(u), Append(s.r, s.cy)), rn |-> Len(u) + s.cy]

mpz_abs_add(st, r, a, b) ==
    LET swap == Abs(st[a].size) < Abs(st[b].size)
        u == Limbs(st[IF swap THEN b ELSE a])
        v == Limbs(st[IF swap THEN a ELSE b])
        s == mpn_add(u, v)
    IN  [st |-> Store(st, r, Len(u) + 1, Append(s.r, s.cy)), rn |-> Len(u) + s.cy]

mpz_abs_sub(st, r, a, b) ==
    LET u == Limbs(st[a])
        v == Limbs(st[b])
        cmp == mpn_cmp4(u, v)
        s == IF cmp > 0 THEN mpn_sub(u, v) ELSE mpn_sub(v, u)
        n == Larger(Len(u), Len(v))
    IN  IF cmp = 0 THEN [st |-> st, rn |-> 0]
        ELSE [st |-> Assert_(Store(st, r, n, s.r), r, s.cy = 0),
              rn |-> cmp * mpn_normalized_size(s.r)]

(* The sign of the result is read from a after the limbs are stored in r.  *)
mpz_add(st, r, a, b) ==
    LET x == IF SameSign(st[a], st[b]) THEN mpz_abs_add(st, r, a, b) ELSE mpz_abs_sub(st, r, a, b)
    IN  SetSize(x.st, r, Signed(x.st[a].size < 0, x.rn))

mpz_sub(st, r, a, b) ==
    LET x == IF SameSign(st[a], st[b]) THEN mpz_abs_sub(st, r, a, b) ELSE mpz_abs_add(st, r, a, b)
    IN  SetSize(x.st, r, Signed(x.st[a].size < 0, x.rn))

-----------------------------------------------------------------------------
(* Multiplication.                                                         *)

mpz_mul_ui(st, r, u, v) ==
    LET un == Abs(st[u].size)
        m  == mpn_mul_1(Limbs(st[u]), v)
    IN  IF un = 0 \/ v = 0 THEN SetSize(st, r, 0)
        ELSE SetSize(Store(st, r, un + 1, Append(m.r, m.cy)), r,
                     Signed(st[u].size < 0, un + Flag(m.cy > 0)))

mpz_mul_si(st, r, u, v) ==
    IF v < 0
    THEN LET s == mpz_mul_ui(st, r, u, Word(-(Word(v + 1) - 1))) IN mpz_neg(s, r, r)
    ELSE mpz_mul_ui(st, r, u, v)

(* The product is made in a temporary that is then swapped with r.         *)
mpz_mul(st, r, u, v) ==
    LET a  == Limbs(st[u])
        b  == Limbs(st[v])
        rn == Len(a) + Len(b)
        p  == IF Len(a) >= Len(b) THEN mpn_mul(a, b) ELSE mpn_mul(b, a)
        t  == mpz_init2(rn * LimbBits)
        neg == ~SameSign(st[u], st[v])
    IN  IF Len(a) = 0 \/ Len(b) = 0 THEN SetSize(st, r, 0)
        ELSE [st EXCEPT ![r] = [t EXCEPT !.d = p, !.size = Signed(neg, rn - Flag(p[rn] = 0)),
                                         !.ok = st[r].ok /\ rn <= t.alloc]]

mpz_mul_2exp(st, r, u, bits) ==
    LET un    == Abs(st[u].size)
        limbs == bits \div LimbBits
        shift == bits % LimbBits
        rn    == un + limbs + Flag(shift > 0)
        m     == mpn_lshift(Limbs(st[u]), shift)
        high  == IF shift > 0 THEN Append(m.r, m.cy) ELSE Limbs(st[u])
        top   == Flag(shift > 0 /\ m.cy = 0)
    IN  IF un = 0 THEN SetSize(st, r, 0)
        ELSE SetSize(Store(st, r, rn, Zeros(limbs) \o high), r, Signed(st[u].size < 0, rn - top))

mpz_addmul(st, r, u, v) ==
    LET s == mpz_mul(Clear(st, {"t"}), "t", u, v) IN Clear(mpz_add(s, r, r, "t"), {"t"})
mpz_submul(st, r, u, v) ==
    LET s == mpz_mul(Clear(st, {"t"}), "t", u, v) IN Clear(mpz_sub(s, r, r, "t"), {"t"})

-----------------------------------------------------------------------------
(* Division.  q or r may be NULL; rem says whether there is a remainder.   *)

(* A quotient below one limb of the divisor: 0, or 1 or -1 after rounding. *)
ShortDividend(st, q, r, n, d, mode) ==
    LET pos == SameSign(st[n], st[d])
    IN  CASE mode = "CEIL" /\ pos ->
               LET s == IF r = NULL THEN st ELSE mpz_sub(st, r, n, d)
               IN  IF q = NULL THEN s ELSE mpz_set_ui(s, q, 1)
          [] mode = "FLOOR" /\ ~pos ->
               LET s == IF r = NULL THEN st ELSE mpz_add(st, r, n, d)
               IN  IF q = NULL THEN s ELSE mpz_set_si(s, q, -1)
          [] OTHER -> SetSize(IF r = NULL THEN st ELSE mpz_set(st, r, n), q, 0)

(* Quotient and remainder towards zero in the temporaries tq and tr.       *)
TruncInto(st, n, d) ==
    LET nd == Limbs(st[n])
        dd == Limbs(st[d])
        x  == mpn_div_qr(nd, dd)
        qn == Len(nd) - Len(dd) + 1
        tr == mpz_set(Clear(st, {"tq", "tr"}), "tr", n)
        rn == mpn_normalized_size(x.r)
    IN  [tr EXCEPT !["tq"] = [mpz_init2(qn * LimbBits) EXCEPT
                                 !.d = x.q, !.ok = st["tq"].ok /\ x.ok /\ Len(x.q) <= qn,
                                 !.size = Signed(~SameSign(st[n], st[d]), qn - Flag(x.q[qn] = 0))],
                   !["tr"].d = x.r,
                   !["tr"].size = Signed(st[n].size < 0, rn)]

mpz_div_qr(st, q, r, n, d, mode) ==
    LET pos == SameSign(st[n], st[d])
        Rounded(t) ==
            LET rem == t["tr"].size # 0
                adj == CASE mode = "FLOOR" /\ ~pos /\ rem ->
                              mpz_add(mpz_sub_ui(t, "tq", "tq", 1), "tr", "tr", d)
                         [] mode = "CEIL" /\ pos /\ rem ->
                              mpz_sub(mpz_add_ui(t, "tq", "tq", 1), "tr", "tr", d)
                         [] OTHER -> t
                out == mpz_swap(mpz_swap(adj, "tq", q), "tr", r)
            IN  [st |-> Clear(out, {"tq", "tr"}), rem |-> rem]
    IN  CASE st[n].size = 0 -> [st |-> SetSize(SetSize(st, q, 0), r, 0), rem |-> FALSE]
          [] st[n].size # 0 /\ Abs(st[n].size) < Abs(st[d].size) ->
               [st |-> ShortDividend(st, q, r, n, d, mode), rem |-> TRUE]
          [] OTHER -> Then(TruncInto(st, n, d), Rounded)

mpz_tdiv_q(st, q, n, d) == mpz_div_qr(st, q, NULL, n, d, "TRUNC").st
mpz_tdiv_r(st, r, n, d) == mpz_div_qr(st, NULL, r, n, d, "TRUNC").st
mpz_divexact(st, q, n, d) ==
    LET x == mpz_div_qr(st, q, NULL, n, d, "TRUNC") IN Assert_(x.st, q, ~x.rem)
mpz_mod(st, r, n, d) ==
    mpz_div_qr(st, NULL, r, n, d, IF st[d].size >= 0 THEN "FLOOR" ELSE "CEIL").st
mpz_divisible_p(st, n, d) == ~mpz_div_qr(st, NULL, NULL, n, d, "TRUNC").rem
mpz_congruent_p(st, a, b, m) ==
    IF mpz_sgn(st[m]) = 0 THEN mpz_cmp(st[a], st[b]) = 0
    ELSE mpz_divisible_p(mpz_sub(Clear(st, {"t"}), "t", a, b), "t", m)

(* Mode that rounds away from zero for a number of this sign.              *)
Away(size) == IF size > 0 THEN "CEIL" ELSE "FLOOR"

mpz_div_q_2exp(st, q, u, bit_index, mode) ==
    LET un == st[u].size
        cnt == bit_index \div LimbBits
        qn == Abs(un) - cnt
        bit == bit_index % LimbBits
        adjust == /\ mode = Away(un)
                  /\ \/ qn <= 0
                     \/ ~mpn_zero_p(SubSeq(st[u].d, 1, cnt))
                     \/ st[u].d[cnt + 1] % 2 ^ bit # 0
        high == Drop(Limbs(st[u]), cnt)
        s == IF bit = 0 THEN high ELSE mpn_rshift(high, bit).r
        s1 == IF qn <= 0 THEN SetSize(st, q, 0)
              ELSE SetSize(Store(st, q, qn, s), q, qn - Flag(bit # 0 /\ s[qn] = 0))
        s2 == IF adjust THEN mpz_add_ui(s1, q, q, 1) ELSE s1
    IN  IF un = 0 THEN SetSize(st, q, 0) ELSE IF un < 0 THEN mpz_neg(s2, q, q) ELSE s2

mpz_tdiv_q_2exp(st, q, u, cnt) == mpz_div_q_2exp(st, q, u, cnt, "TRUNC")

(* Rounding away from zero takes the two's complement within the mask and  *)
(* flips the sign.                                                         *)
mpz_div_r_2exp(st, r, u, bit_index, mode) ==
    LET us == st[u].size
        un == Abs(us)
        rn == (bit_index + LimbBits - 1) \div LimbBits
        mask == Shr(LimbMax, rn * LimbBits - bit_index)
        d  == Limbs(st[u])
        flip == mode = Away(us)
        neg == mpn_neg(d)
        Masked(x) == Append(SubSeq(x, 1, rn - 1), x[rn] & mask)
        low == Masked(d)
        s == CASE rn > un /\ flip  -> neg.r \o [i \in 1 .. rn - 1 - un |-> LimbMax] \o <<mask>>
               [] rn > un /\ ~flip -> d
               [] rn <= un /\ flip -> Masked(mpn_neg(low).r)
               [] OTHER -> low
        out == Assert_(Store(st, r, rn, s), r, rn > un /\ flip => neg.cy = 1)
    IN  IF us = 0 \/ bit_index = 0 THEN SetSize(st, r, 0)
        ELSE SetSize(out, r, Signed((us < 0) # flip, mpn_normalized_size(s)))

(* Division by one limb; ret is the absolute remainder that is returned.   *)
mpz_div_qr_ui(st, q, r, n, d, mode) ==
    LET ns == st[n].size
        qn == Abs(ns)
        x  == mpn_div_qr_1(Limbs(st[n]), d)
        away == x.r > 0 /\ mode = (IF ns < 0 THEN "FLOOR" ELSE "CEIL")
        up == mpn_add_1(x.q, 1)
        qp == IF away THEN up.r ELSE x.q
        rl == IF away THEN d - x.r ELSE x.r
        st1 == IF q = NULL THEN st
               ELSE Assert_(Store(st, q, qn, qp), q, away => up.cy = 0)
        st2 == IF r = NULL THEN st1
               ELSE SetSize(Store(st1, r, 1, <<rl>>), r, Signed((ns < 0) # away, Flag(x.r > 0)))
    IN  IF ns = 0 THEN [st |-> SetSize(SetSize(st, q, 0), r, 0), ret |-> 0]
        ELSE [st |-> SetSize(st2, q, Signed(ns < 0, qn - Flag(qp[qn] = 0))), ret |-> rl]

-----------------------------------------------------------------------------
(* Greatest common divisors.                                               *)

RECURSIVE OddPart(_)
OddPart(v) == IF v % 2 = 0 THEN OddPart(Shr(v, 1)) ELSE v

(* Both odd: the larger is replaced by the odd part of the difference.     *)
RECURSIVE OddGcd(_, _)
OddGcd(u, v) ==
    CASE u = v -> u
      [] u > v -> OddGcd(OddPart(Shr(u - v, 1)), v)
      [] u < v -> OddGcd(u, OddPart(Shr(v - u, 1)))

mpn_gcd_11(u, v) ==
    LET shift == gmp_ctz(u | v)
        a == Shr(u, shift)
        c == Shr(v, shift)
    IN  CASE u = 0 -> v
          [] u # 0 /\ v = 0 -> u
          [] OTHER -> Shl(IF a % 2 = 0 THEN OddGcd(c, OddPart(a)) ELSE OddGcd(a, OddPart(c)), shift)

mpz_gcd_ui(st, g, u, v) ==
    LET w == IF st[u].size = 0 THEN v ELSE mpn_gcd_11(mpn_div_qr_1(Limbs(st[u]), v).r, v)
    IN  CASE v = 0 -> [st |-> IF g = NULL THEN st ELSE mpz_abs(st, g, u), ret |-> 0]
          [] OTHER -> [st |-> IF g = NULL THEN st ELSE mpz_set_ui(st, g, w), ret |-> w]

(* The store without the factors of two of r > 0, and their number.        *)
mpz_make_odd(st, r) ==
    LET shift == mpn_common_scan(st[r].d[1], 0, Limbs(st[r]), 0, 0)
    IN  [st |-> Assert_(mpz_tdiv_q_2exp(st, r, r, shift), r, st[r].size > 0), shift |-> shift]

RECURSIVE GcdLoop(_, _)
GcdLoop(st, g) ==
    LET s == mpz_make_odd(st, "tu").st
        c == mpz_cmp(s["tu"], s["tv"])
        s1 == IF c < 0 THEN mpz_swap(s, "tu", "tv") ELSE s
        vl == s1["tv"].d[1]
    IN  CASE c = 0 -> mpz_swap(s, g, "tu")
          [] c # 0 /\ s1["tv"].size = 1 ->
               mpz_set_ui(s1, g, mpn_gcd_11(mpz_div_qr_ui(s1, NULL, NULL, "tu", vl, "TRUNC").ret, vl))
          [] OTHER -> Then(mpz_sub(s1, "tu", "tu", "tv"), LAMBDA n : GcdLoop(n, g))

mpz_gcd(st, g, u, v) ==
    LET a == mpz_make_odd(mpz_abs(Clear(st, {"tu", "tv"}), "tu", u), "tu")
        c == mpz_make_odd(mpz_abs(a.st, "tv", v), "tv")
        s == IF c.st["tu"].size < c.st["tv"].size THEN mpz_swap(c.st, "tu", "tv") ELSE c.st
        x == Then(mpz_tdiv_r(s, "tu", "tu", "tv"),
                  LAMBDA d : IF d["tu"].size = 0 THEN mpz_swap(d, g, "tv") ELSE GcdLoop(d, g))
    IN  CASE st[u].size = 0 -> mpz_abs(st, g, v)
          [] st[u].size # 0 /\ st[v].size = 0 -> mpz_abs(st, g, u)
          [] OTHER -> Then(Clear(x, {"tu", "tv"}),
                           LAMBDA z : mpz_mul_2exp(z, g, g, Min({a.shift, c.shift})))

mpz_lcm(st, r, u, v) ==
    LET s == mpz_gcd(Clear(st, {"g"}), "g", u, v)
        m == Then(Then(s, LAMBDA z : mpz_divexact(z, "g", u, "g")),
                  LAMBDA z : mpz_mul(z, r, "g", v))
    IN  IF st[u].size = 0 \/ st[v].size = 0 THEN SetSize(st, r, 0)
        ELSE mpz_abs(Clear(m, {"g"}), r, r)

mpz_lcm_ui(st, r, u, v) ==
    LET s == mpz_mul_ui(st, r, u, v \div mpz_gcd_ui(st, NULL, u, v).ret)
    IN  IF v = 0 \/ st[u].size = 0 THEN SetSize(st, r, 0) ELSE mpz_abs(s, r, r)

-----------------------------------------------------------------------------
(* Bits.  Numbers are in two's complement, extended by their sign.         *)

mpz_tstbit(d, bit_index) ==
    LET i == bit_index \div LimbBits
        shift == bit_index % LimbBits
        w == d.d[i + 1]
        bit == Shr(w, shift) % 2
        below == (shift > 0 /\ Shl(w, LimbBits - shift) > 0) \/ \E k \in 1 .. i : d.d[k] > 0
    IN  IF i >= Abs(d.size) THEN Flag(d.size < 0)
        ELSE IF d.size < 0 /\ below THEN 1 - bit ELSE bit

mpz_abs_add_bit(st, d, bit_index) ==
    LET x == Limbs(st[d])
        dn == Len(x)
        i == bit_index \div LimbBits
        bit == 2 ^ (bit_index % LimbBits)
        s == mpn_add_1(Drop(x, i), bit)
        y == SubSeq(x, 1, i) \o s.r
        neg == st[d].size < 0
    IN  CASE i >= dn -> SetSize(Store(st, d, i + 1, x \o Zeros(i - dn) \o <<bit>>), d, Signed(neg, i + 1))
          [] i < dn /\ s.cy > 0 -> SetSize(Store(st, d, dn + 1, Append(y, s.cy)), d, Signed(neg, dn + 1))
          [] OTHER -> SetSize(Store(st, d, dn, y), d, Signed(neg, dn))

mpz_abs_sub_bit(st, d, bit_index) ==
    LET x == Limbs(st[d])
        i == bit_index \div LimbBits
        s == mpn_sub_1(Drop(x, i), 2 ^ (bit_index % LimbBits))
        y == SubSeq(x, 1, i) \o s.r
    IN  SetSize(Assert_(Store(st, d, 0, y), d, i < Len(x) /\ s.cy = 0), d,
                Signed(st[d].size < 0, mpn_normalized_size(y)))

mpz_setbit(st, d, k) ==
    CASE mpz_tstbit(st[d], k) = 1 -> st
      [] mpz_tstbit(st[d], k) = 0 /\ st[d].size >= 0 -> mpz_abs_add_bit(st, d, k)
      [] OTHER -> mpz_abs_sub_bit(st, d, k)

mpz_clrbit(st, d, k) ==
    CASE mpz_tstbit(st[d], k) = 0 -> st
      [] mpz_tstbit(st[d], k) = 1 /\ st[d].size >= 0 -> mpz_abs_sub_bit(st, d, k)
      [] OTHER -> mpz_abs_add_bit(st, d, k)

mpz_combit(st, d, k) ==
    IF (mpz_tstbit(st[d], k) = 1) # (st[d].size < 0)
    THEN mpz_abs_sub_bit(st, d, k) ELSE mpz_abs_add_bit(st, d, k)

mpz_com(st, r, u) == mpz_sub_ui(mpz_neg(st, r, u), r, r, 1)

(* The limbs of the two's complement of x, n of them and the final carry:  *)
(* each is complemented, with the carry of the added one, if x is negative. *)
TwosComplement(x, n) ==
    LET neg == x.size < 0
        At(i) == IF i <= Abs(x.size) THEN x.d[i] ELSE 0
        In(i) == IF neg THEN Compl(At(i)) ELSE At(i)
    IN  Ripple(n, Flag(neg), LAMBDA i, c : Word(In(i) + c), LAMBDA i, c : Flag(Word(In(i) + c) < c))

LimbOp(op, x, y) == CASE op = "and" -> x & y [] op = "ior" -> x | y [] op = "xor" -> x ^^ y

(* mpz_and, mpz_ior and mpz_xor: combined limb by limb with the shorter    *)
(* number extended by its sign, rn limbs of result, negated when rc = 1.   *)
Bitwise2(st, r, a, c, rn, rc, op) ==
    LET un == Abs(st[a].size)
        vn == Abs(st[c].size)
        u  == TwosComplement(st[a], un)
        v  == TwosComplement(st[c], vn)
        V(i) == IF i <= vn THEN v.r[i] ELSE (IF st[c].size < 0 THEN LimbMax ELSE 0)
        x  == [i \in 1 .. rn |-> LimbOp(op, u.r[i], V(i))]
        y  == Ripple(rn, rc, LAMBDA i, k : Word((IF rc = 1 THEN Compl(x[i]) ELSE x[i]) + k),
                             LAMBDA i, k : Flag(Word((IF rc = 1 THEN Compl(x[i]) ELSE x[i]) + k) < k))
        z  == IF y.cy = 1 THEN Append(y.r, 1) ELSE y.r
        n  == IF y.cy = 1 THEN rn + 1 ELSE mpn_normalized_size(y.r)
    IN  SetSize(Assert_(Store(st, r, rn + rc, z), r, v.cy = 0), r, Signed(rc = 1, n))

(* The operand with more limbs comes first.                                *)
Longer(st, u, v) == IF Abs(st[u].size) < Abs(st[v].size) THEN <<v, u>> ELSE <<u, v>>

mpz_and(st, r, u, v) ==
    LET o == Longer(st, u, v)
        un == Abs(st[o[1]].size)
        vn == Abs(st[o[2]].size)
        vneg == st[o[2]].size < 0
        rc == Flag(vneg /\ st[o[1]].size < 0)
    IN  IF vn = 0 THEN SetSize(st, r, 0)
        ELSE Bitwise2(st, r, o[1], o[2], IF vneg THEN un ELSE vn, rc, "and")

mpz_ior(st, r, u, v) ==
    LET o == Longer(st, u, v)
        un == Abs(st[o[1]].size)
        vn == Abs(st[o[2]].size)
        vneg == st[o[2]].size < 0
        rc == Flag(vneg \/ st[o[1]].size < 0)
    IN  IF vn = 0 THEN mpz_set(st, r, o[1])
        ELSE Bitwise2(st, r, o[1], o[2], IF vneg THEN vn ELSE un, rc, "ior")

mpz_xor(st, r, u, v) ==
    LET o == Longer(st, u, v)
        un == Abs(st[o[1]].size)
        rc == Flag(~SameSign(st[u], st[v]))
    IN  IF st[o[2]].size = 0 THEN mpz_set(st, r, o[1])
        ELSE Bitwise2(st, r, o[1], o[2], un, rc, "xor")

(* Sixteen bits at a time in the code: the number of one bits.             *)
(* The fields of m, as wide as the shift s, added in pairs: ((w >> s) & m) *)
(* + (w & m).                                                              *)
AddFields(w, s, m) == ((w \div 2 ^ s) & m) + (w & m)

(* Sixteen bits at a time: bits, pairs, nibbles and bytes are added up.    *)
(* The masks are 0x5555, 0x3333, 0x0f0f and 0x00ff.                        *)
RECURSIVE gmp_popcount_limb(_)
gmp_popcount_limb(x) ==
    LET pairs   == AddFields(x, 1, 21845)
        nibbles == AddFields(pairs, 2, 13107)
        bytes   == AddFields(nibbles, 4, 3855)
    IN  IF x = 0 THEN 0
        ELSE (bytes \div 2 ^ 8) + (bytes & 255) + gmp_popcount_limb(x \div 2 ^ 16)

mpz_popcount(u) ==
    IF u.size < 0 THEN NoBit ELSE MapThenSumSet(LAMBDA i : gmp_popcount_limb(u.d[i]), 1 .. u.size)

(* ok is the assertion that the shorter number leaves no carry.            *)
mpz_hamdist(u, v) ==
    LET un == Abs(u.size)
        vn == Abs(v.size)
        n == Larger(un, vn)
        a == TwosComplement(u, n)
        c == TwosComplement(v, n)
        vc == IF un < vn THEN TwosComplement(u, un).cy ELSE TwosComplement(v, vn).cy
    IN  IF ~SameSign(u, v) THEN [c |-> NoBit, ok |-> TRUE]
        ELSE [c |-> MapThenSumSet(LAMBDA i : gmp_popcount_limb(a.r[i] ^^ c.r[i]), 1 .. n),
              ok |-> vc = 0]

mpz_scan1(u, starting_bit) ==
    LET i == starting_bit \div LimbBits
        un == Abs(u.size)
        x == Flag(u.size < 0 /\ mpn_zero_p(SubSeq(u.d, 1, i)))
        two == Word(Compl(u.d[i + 1]) + x)
        neg == starting_bit # 0 /\ u.size < 0
        limb == (IF neg THEN two ELSE u.d[i + 1])
                & (IF starting_bit = 0 THEN LimbMax ELSE Shl(LimbMax, starting_bit % LimbBits))
    IN  IF i >= un THEN (IF u.size >= 0 THEN NoBit ELSE starting_bit)
        ELSE mpn_common_scan(limb, i, u.d, un, IF neg /\ two >= x THEN LimbMax ELSE 0)

mpz_scan0(u, starting_bit) ==
    LET i == starting_bit \div LimbBits
        un == Abs(u.size)
        ux == IF u.size >= 0 THEN LimbMax ELSE 0
        x == Flag(u.size < 0 /\ mpn_zero_p(SubSeq(u.d, 1, i)))
        limb == Word((u.d[i + 1] ^^ ux) - x) & Shl(LimbMax, starting_bit % LimbBits)
    IN  IF i >= un THEN (IF u.size >= 0 THEN starting_bit ELSE NoBit)
        ELSE mpn_common_scan(limb, i, u.d, un, ux)
=============================================================================
