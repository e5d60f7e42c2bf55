--------------------------------- MODULE Mpn ---------------------------------
(***************************************************************************)
(* The mpn layer of mini-gmp.c: natural numbers as vectors of limbs, least *)
(* significant first.  The C index i is the position i + 1 here.  A        *)
(* function that stores a vector and returns a limb gives both, as the     *)
(* fields r and cy.  Every function may store its result over an operand:  *)
(* each loop reads a limb before it stores the one at the same place.      *)
(***************************************************************************)
EXTENDS Limbs, Bitwise

gmp_ctz(x) == LimbBits - 1 - gmp_clz(x & Word(-x))

(* The common loop: from the low end, a limb is computed from its place    *)
(* and the carry so far, and so is the next carry.  It is the do or for    *)
(* loop of the functions that call it.                                     *)
Ripple(n, c0, Store(_, _), Carry(_, _)) ==
    LET cy[i \in 0 .. n] == IF i = 0 THEN c0 ELSE Then(cy[i - 1], LAMBDA c : Carry(i, c))
    IN  [r |-> [i \in 1 .. n |-> Store(i, cy[i - 1])], cy |-> cy[n]]

Drop(s, n) == SubSeq(s, n + 1, Len(s))
Zeros(n) == [i \in 1 .. n |-> 0]

mpn_normalized_size(x) == Max({0} \cup {i \in DOMAIN x : x[i] # 0})
mpn_zero_p(x) == mpn_normalized_size(x) = 0

GMP_CMP(x, y) == Flag(x > y) - Flag(x < y)

mpn_cmp(a, b) ==
    LET n == Max({0} \cup {i \in DOMAIN a : a[i] # b[i]})
    IN  IF n = 0 THEN 0 ELSE GMP_CMP(a[n], b[n])

mpn_cmp4(a, b) ==
    IF Len(a) # Len(b) THEN GMP_CMP(Len(a), Len(b)) ELSE mpn_cmp(a, b)

mpn_add_1(a, b) ==
    Ripple(Len(a), b, LAMBDA i, c : Word(a[i] + c),
                      LAMBDA i, c : Flag(Word(a[i] + c) < c))

mpn_add_n(a, b) ==
    Ripple(Len(b), 0, LAMBDA i, c : Word(a[i] + c + b[i]),
                      LAMBDA i, c : LET r == Word(a[i] + c)
                                    IN  Flag(r < c) + Flag(Word(r + b[i]) < b[i]))

mpn_add(a, b) ==
    LET low  == mpn_add_n(a, b)
        high == mpn_add_1(Drop(a, Len(b)), low.cy)
    IN  IF Len(a) > Len(b) THEN [r |-> low.r \o high.r, cy |-> high.cy] ELSE low

mpn_sub_1(a, b) ==
    Ripple(Len(a), b, LAMBDA i, c : Word(a[i] - c), LAMBDA i, c : Flag(a[i] < c))

mpn_sub_n(a, b) ==
    Ripple(Len(b), 0, LAMBDA i, c : Word(a[i] - Word(b[i] + c)),
                      LAMBDA i, c : LET s == Word(b[i] + c)
                                    IN  Flag(s < c) + Flag(a[i] < s))

mpn_sub(a, b) ==
    LET low  == mpn_sub_n(a, b)
        high == mpn_sub_1(Drop(a, Len(b)), low.cy)
    IN  IF Len(a) > Len(b) THEN [r |-> low.r \o high.r, cy |-> high.cy] ELSE low

(* The product of a limb and v plus the carry: <carry, low limb>.          *)
MulStep(u, v, c) ==
    LET p == gmp_umul_ppmm(u, v)
        l == Word(p[2] + c)
    IN  <<Word(Flag(l < c) + p[1]), l>>

mpn_mul_1(u, v) ==
    Ripple(Len(u), 0, LAMBDA i, c : MulStep(u[i], v, c)[2],
                      LAMBDA i, c : MulStep(u[i], v, c)[1])

mpn_addmul_1(r, u, v) ==
    Ripple(Len(u), 0, LAMBDA i, c : Word(r[i] + MulStep(u[i], v, c)[2]),
                      LAMBDA i, c : LET m == MulStep(u[i], v, c)
                                    IN  Word(m[1] + Flag(Word(r[i] + m[2]) < r[i])))

mpn_submul_1(r, u, v) ==
    Ripple(Len(u), 0, LAMBDA i, c : Word(r[i] - MulStep(u[i], v, c)[2]),
                      LAMBDA i, c : LET m == MulStep(u[i], v, c)
                                    IN  Word(m[1] + Flag(Word(r[i] - m[2]) > r[i])))

(* Len(u) + Len(v) limbs: the row of v[1] is stored, the others added.     *)
mpn_mul(u, v) ==
    LET un == Len(u)
        rows[j \in 1 .. Len(v)] ==
            IF j = 1
            THEN LET m == mpn_mul_1(u, v[1]) IN Append(m.r, m.cy)
            ELSE Then(rows[j - 1], LAMBDA p :
                     LET m == mpn_addmul_1(Drop(p, j - 1), u, v[j])
                     IN  SubSeq(p, 1, j - 1) \o Append(m.r, m.cy))
    IN  rows[Len(v)]

(* 0 < cnt < LimbBits: the bits shifted out are returned.                  *)
mpn_lshift(u, cnt) ==
    LET tnc == LimbBits - cnt
    IN  [r |-> [i \in DOMAIN u |->
                   Shl(u[i], cnt) | (IF i = 1 THEN 0 ELSE Shr(u[i - 1], tnc))],
         cy |-> Shr(u[Len(u)], tnc)]

mpn_rshift(u, cnt) ==
    LET tnc == LimbBits - cnt
    IN  [r |-> [i \in DOMAIN u |->
                   Shr(u[i], cnt) | (IF i = Len(u) THEN 0 ELSE Shl(u[i + 1], tnc))],
         cy |-> Shl(u[1], tnc)]

(* What the code calls ~(mp_bitcnt_t) 0: no such bit.                      *)
NoBit == -1

(* The first one bit of limb, then of the limbs of u above the C index i   *)
(* xored with ux.  With un > i the scan ends at un; mpn_scan1, mpn_scan0    *)
(* and mpz_make_odd pass un = i because they know of a bit to be found.    *)
mpn_common_scan(limb, i, u, un, ux) ==
    LET At(k) == IF k = i THEN limb ELSE ux ^^ u[k + 1]
        top   == IF un > i THEN un - 1 ELSE Len(u) - 1
        hits  == {k \in {i} \cup (i + 1) .. top : At(k) # 0}
    IN  IF hits = {} THEN (IF ux = 0 THEN NoBit ELSE un * LimbBits)
        ELSE Min(hits) * LimbBits + gmp_ctz(At(Min(hits)))

mpn_scan1(u, bit) ==
    LET i == bit \div LimbBits
    IN  mpn_common_scan(u[i + 1] & Shl(LimbMax, bit % LimbBits), i, u, i, 0)

mpn_scan0(u, bit) ==
    LET i == bit \div LimbBits
    IN  mpn_common_scan(Compl(u[i + 1]) & Shl(LimbMax, bit % LimbBits), i, u, i, LimbMax)

mpn_com(u) == [i \in DOMAIN u |-> Compl(u[i])]

(* Zero limbs are copied, the first other one is negated, the rest         *)
(* complemented; 0 is returned when all are zero.                          *)
mpn_neg(u) ==
    LET k == Min({i \in DOMAIN u : u[i] # 0} \cup {Len(u) + 1})
    IN  [r |-> [i \in DOMAIN u |-> CASE i < k -> 0
                                     [] i = k -> Word(-u[i])
                                     [] i > k -> Compl(u[i])],
         cy |-> Flag(k <= Len(u))]

-----------------------------------------------------------------------------
(* Division.  inv is struct gmp_div_inverse: the normalization shift, the  *)
(* top limb or two limbs of the normalized divisor, and their inverse.     *)

Fill(h, l, shift) == IF shift = 0 THEN h ELSE Shl(h, shift) | Shr(l, LimbBits - shift)

mpn_div_qr_1_invert(d) ==
    LET shift == gmp_clz(d)
        d1    == Shl(d, shift)
    IN  [shift |-> shift, d1 |-> d1, d0 |-> 0, di |-> mpn_invert_limb(d1)]

(* mpn_div_qr_2_invert is the case of two limbs, where nothing is below d0. *)
mpn_div_qr_invert(d) ==
    LET dn    == Len(d)
        shift == gmp_clz(d[dn])
        d1    == Fill(d[dn], d[dn - 1], shift)
        d0    == Fill(d[dn - 1], IF dn = 2 THEN 0 ELSE d[dn - 2], shift)
    IN  IF dn = 1 THEN mpn_div_qr_1_invert(d[1])
        ELSE [shift |-> shift, d1 |-> d1, d0 |-> d0, di |-> mpn_invert_3by2(d1, d0)]

(* n shifted left by the normalization shift, and the limb shifted out.    *)
Normalize(n, shift) == IF shift > 0 THEN mpn_lshift(n, shift) ELSE [r |-> n, cy |-> 0]

(* From the top limb of n down: quotient limbs and remainder.              *)
mpn_div_qr_1_preinv(n, inv) ==
    LET s == Normalize(n, inv.shift)
        nn == Len(n)
        loop[k \in 0 .. nn] ==
            IF k = 0 THEN [q |-> <<>>, r |-> s.cy]
            ELSE Then(loop[k - 1], LAMBDA p :
                     LET x == gmp_udiv_qrnnd_preinv(p.r, s.r[nn - k + 1], inv.d1, inv.di)
                     IN  [q |-> <<x[1]>> \o p.q, r |-> x[2]])
    IN  [q |-> loop[nn].q, r |-> Shr(loop[nn].r, inv.shift)]

(* Powers of two are divided by a shift.                                   *)
mpn_div_qr_1(n, d) ==
    IF d & (d - 1) = 0
    THEN [q |-> IF d <= 1 THEN n ELSE mpn_rshift(n, gmp_ctz(d)).r, r |-> n[1] & (d - 1)]
    ELSE mpn_div_qr_1_preinv(n, mpn_div_qr_1_invert(d))

(* ok is the assertion that no bit of the remainder is shifted out.        *)
mpn_div_qr_2_preinv(n, inv) ==
    LET s == Normalize(n, inv.shift)
        nn == Len(n)
        loop[k \in 0 .. nn - 1] ==
            IF k = 0 THEN [q |-> <<>>, r1 |-> s.cy, r0 |-> s.r[nn]]
            ELSE Then(loop[k - 1], LAMBDA p :
                     LET x == gmp_udiv_qr_3by2(p.r1, p.r0, s.r[nn - k], inv.d1, inv.d0, inv.di)
                     IN  [q |-> <<x[1]>> \o p.q, r1 |-> x[2], r0 |-> x[3]])
        z == loop[nn - 1]
        back == LimbBits - inv.shift
    IN  IF inv.shift = 0
        THEN [q |-> z.q, r |-> <<z.r0, z.r1>>, ok |-> TRUE]
        ELSE [q |-> z.q, ok |-> Shl(z.r0, back) = 0,
              r |-> <<Shr(z.r0, inv.shift) | Shl(z.r1, back), Shr(z.r1, inv.shift)>>]

(* np with its limbs from the C index i on replaced by s.                  *)
Patch(np, i, s) == [k \in DOMAIN np |-> IF k \in i + 1 .. i + Len(s) THEN s[k - i] ELSE np[k]]

(* Mutant: the estimate that is one too large is not corrected.            *)
NoAddBack(np, n1, i, d, dinv) ==
    LET dn == Len(d)
        x  == gmp_udiv_qr_3by2(n1, np[dn + i], np[dn - 1 + i], d[dn], d[dn - 1], dinv)
        s  == mpn_submul_1(Drop(np, i), SubSeq(d, 1, dn - 2), x[1])
    IN  [np |-> Patch(np, i, Append(s.r, Word(x[3] - s.cy))),
         n1 |-> Word(x[2] - Flag(x[3] < s.cy)), q |-> x[1]]

(* One quotient limb of mpn_div_qr_pi1, with the estimate of the top three *)
(* limbs by the top two, or LimbMax when the top limbs are equal.          *)
PiStep(np, n1, i, d, dinv) ==
    LET dn == Len(d)
        d1 == d[dn]
        d0 == d[dn - 1]
        n0 == np[dn + i]
    IN  IF n1 = d1 /\ n0 = d0
        THEN LET np1 == Patch(np, i, mpn_submul_1(Drop(np, i), d, LimbMax).r)
             IN  [np |-> np1, n1 |-> np1[dn + i], q |-> LimbMax]
        ELSE LET x  == gmp_udiv_qr_3by2(n1, n0, np[dn - 1 + i], d1, d0, dinv)
                 s  == mpn_submul_1(Drop(np, i), SubSeq(d, 1, dn - 2), x[1])
                 c1 == Flag(x[3] < s.cy)
                 np1 == Patch(np, i, Append(s.r, Word(x[3] - s.cy)))
                 m1  == Word(x[2] - c1)
                 a   == mpn_add_n(Drop(np1, i), SubSeq(d, 1, dn - 1))
             IN  IF x[2] < c1
                 THEN [np |-> Patch(np1, i, a.r), n1 |-> Word(m1 + d1 + a.cy), q |-> Word(x[1] - 1)]
                 ELSE [np |-> np1, n1 |-> m1, q |-> x[1]]

mpn_div_qr_pi1(n, nh, d, dinv) ==
    LET top == Len(n) - Len(d)
        loop[k \in 0 .. top + 1] ==
            IF k = 0 THEN [np |-> n, n1 |-> nh, qp |-> <<>>]
            ELSE Then(loop[k - 1], LAMBDA p :
                     LET x == PiStep(p.np, p.n1, top - k + 1, d, dinv)
                     IN  [np |-> x.np, n1 |-> x.n1, qp |-> <<x.q>> \o p.qp])
        z == loop[top + 1]
    IN  [q |-> z.qp, r |-> SubSeq(Patch(z.np, Len(d) - 1, <<z.n1>>), 1, Len(d))]

(* d is normalized when it has more than two limbs.  The remainder is left *)
(* in the low limbs of n; ok collects the assertions.                      *)
mpn_div_qr_preinv(n, d, inv) ==
    CASE Len(d) = 1 -> LET x == mpn_div_qr_1_preinv(n, inv)
                       IN  [q |-> x.q, r |-> <<x.r>>, ok |-> TRUE]
      [] Len(d) = 2 -> mpn_div_qr_2_preinv(n, inv)
      [] OTHER      -> LET dn == Len(d)
                           fits == inv.d1 = d[dn] /\ inv.d0 = d[dn - 1] /\ inv.d1 >= HighBit
                           s == Normalize(n, inv.shift)
                           x == mpn_div_qr_pi1(s.r, s.cy, d, inv.di)
                           y == mpn_rshift(x.r, inv.shift)
                       IN  IF inv.shift = 0 THEN [q |-> x.q, r |-> x.r, ok |-> fits]
                           ELSE [q |-> x.q, r |-> y.r, ok |-> fits /\ y.cy = 0]

mpn_div_qr(n, d) ==
    Then(mpn_div_qr_invert(d), LAMBDA inv :
        LET s == mpn_lshift(d, inv.shift)
        IN  IF Len(d) > 2 /\ inv.shift > 0
            THEN LET x == mpn_div_qr_preinv(n, s.r, inv) IN [x EXCEPT !.ok = @ /\ s.cy = 0]
            ELSE mpn_div_qr_preinv(n, d, inv))

-----------------------------------------------------------------------------
(* Radix conversion.  Digits are in the order of the text, most            *)
(* significant first.  The bases are 2 .. 36 in the library; a small limb  *)
(* holds fewer, and a base must leave the top bit of its limb free.        *)

mpn_base_power_of_two_p(base) ==
    LET k == {i \in 1 .. 8 : 2 ^ i = base} IN IF k = {} THEN 0 ELSE Max(k)

(* The largest power of the base that fits in a limb, and its exponent.    *)
mpn_get_base_info(base) ==
    LET exp == Min({e \in 1 .. LimbBits : base ^ e > LimbMax \div base})
    IN  [exp |-> exp, bb |-> base ^ exp]

mpn_limb_size_in_base_2(u) == LimbBits - gmp_clz(u)
SizeInBits(u) == (Len(u) - 1) * LimbBits + mpn_limb_size_in_base_2(u[Len(u)])

(* Digits are cut from the low end; one may straddle two limbs.            *)
mpn_get_str_bits(bits, u) ==
    LET sn == (SizeInBits(u) + bits - 1) \div bits
        at[k \in 0 .. sn] ==
            IF k = 0 THEN [i |-> 1, shift |-> 0, out |-> <<>>]
            ELSE LET p == at[k - 1]
                     s == p.shift + bits
                     next == s >= LimbBits /\ p.i + 1 <= Len(u)
                     low  == Shr(u[p.i], p.shift)
                     i1   == IF s >= LimbBits THEN p.i + 1 ELSE p.i
                     s1   == IF next THEN s - LimbBits ELSE s
                     digit == IF next THEN low | (u[i1] * 2 ^ (bits - s1)) ELSE low
                 IN  [i |-> i1, shift |-> s1, out |-> <<digit % 2 ^ bits>> \o p.out]
    IN  at[sn].out

(* The digits sp of one limb from the least significant end; ok is the     *)
(* assertion that no bit of a remainder is shifted out.                    *)
RECURSIVE mpn_limb_get_str(_, _)
mpn_limb_get_str(w, binv) ==
    IF w = 0 THEN [sp |-> <<>>, ok |-> TRUE]
    ELSE LET x == gmp_udiv_qrnnd_preinv(Shr(w, LimbBits - binv.shift), Shl(w, binv.shift),
                                        binv.d1, binv.di)
         IN  Then(mpn_limb_get_str(x[1], binv), LAMBDA rest :
                 [sp |-> <<Shr(x[2], binv.shift)>> \o rest.sp,
                  ok |-> rest.ok /\ Shl(x[2], LimbBits - binv.shift) = 0])

(* Limb by limb in base bb while there are several; each group but the     *)
(* last is padded with zeros to exp digits.                                *)
RECURSIVE DigitGroups(_, _, _, _)
DigitGroups(u, info, binv, bbinv) ==
    IF Len(u) = 1 THEN mpn_limb_get_str(u[1], binv)
    ELSE LET x == mpn_div_qr_1_preinv(u, bbinv)
             g == mpn_limb_get_str(x.r, binv)
             un == Len(u) - Flag(x.q[Len(u)] = 0)
         IN  Then(DigitGroups(SubSeq(x.q, 1, un), info, binv, bbinv), LAMBDA rest :
                 [sp |-> g.sp \o Zeros(info.exp - Len(g.sp)) \o rest.sp, ok |-> g.ok /\ rest.ok])

Reversed(s) == [i \in DOMAIN s |-> s[Len(s) + 1 - i]]

mpn_get_str_other(base, info, u) ==
    Then(DigitGroups(u, info, mpn_div_qr_1_invert(base), mpn_div_qr_1_invert(info.bb)), LAMBDA g :
        [g EXCEPT !.sp = Reversed(g.sp)])

mpn_get_str(base, u) ==
    LET bits == mpn_base_power_of_two_p(base)
    IN  IF bits # 0 THEN [sp |-> mpn_get_str_bits(bits, u), ok |-> TRUE]
        ELSE mpn_get_str_other(base, mpn_get_base_info(base), u)

(* Mutant: the part of a digit that belongs to the next limb is lost.      *)
HighPartLost(rp, digit, low) == Append(rp, 0)

(* The bits of a digit above its low ones, in a limb of their own.         *)
Straddle(rp, digit, low) == Append(rp, Shr(digit, low))

(* Limbs are filled from the last digit on; rp is what has been stored.    *)
mpn_set_str_bits(sp, bits) ==
    LET sn == Len(sp)
        at[k \in 0 .. sn] ==
            IF k = 0 THEN [rp |-> <<>>, shift |-> 0]
            ELSE LET p == at[k - 1]
                     digit == sp[sn - k + 1]
                     s  == p.shift + bits
                     rn == Len(p.rp)
                     or == [p.rp EXCEPT ![rn] = p.rp[rn] | Shl(digit, p.shift)]
                 IN  CASE p.shift = 0 -> [rp |-> Append(p.rp, digit), shift |-> s]
                       [] p.shift # 0 /\ s < LimbBits -> [rp |-> or, shift |-> s]
                       [] p.shift # 0 /\ s = LimbBits -> [rp |-> or, shift |-> 0]
                       [] OTHER -> [rp |-> Straddle(or, digit, bits - (s - LimbBits)),
                                    shift |-> s - LimbBits]
        rp == at[sn].rp
    IN  SubSeq(rp, 1, mpn_normalized_size(rp))

(* Horner's rule on the digits j .. k of the text.                         *)
DigitsValue(sp, b, j, k) ==
    LET w[i \in j .. k] == IF i = j THEN sp[j] ELSE Word(w[i - 1] * b + sp[i]) IN w[k]

(* The first group has the digits that do not make whole groups of exp.    *)
mpn_set_str_other(sp, b, info) ==
    LET sn == Len(sp)
        first == 1 + ((sn - 1) % info.exp)
        rp[g \in 0 .. (sn - first) \div info.exp] ==
            IF g = 0 THEN <<DigitsValue(sp, b, 1, first)>>
            ELSE LET j == first + (g - 1) * info.exp
                     m == mpn_mul_1(rp[g - 1], info.bb)
                     a == mpn_add_1(m.r, DigitsValue(sp, b, j + 1, j + info.exp))
                     cy == Word(m.cy + a.cy)
                 IN  IF cy > 0 THEN Append(a.r, cy) ELSE a.r
    IN  rp[(sn - first) \div info.exp]

mpn_set_str(sp, base) ==
    LET bits == mpn_base_power_of_two_p(base)
    IN  CASE Len(sp) = 0 -> <<>>
          [] Len(sp) # 0 /\ bits # 0 -> mpn_set_str_bits(sp, bits)
          [] OTHER -> mpn_set_str_other(sp, base, mpn_get_base_info(base))
=============================================================================
