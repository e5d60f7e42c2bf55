-------------------------------- MODULE Limbs --------------------------------
(***************************************************************************)
(* The one- and two-limb arithmetic of the multiprecision library: the     *)
(* macros at the head of mini-gmp.c, mpn_invert_3by2, and the 64-bit       *)
(* primitives of overlays/uint64gmp.h that the code extracted from the     *)
(* proofs calls.  A limb is an unsigned machine word of LimbBits bits      *)
(* (64 in the build); every C expression of that type wraps modulo B.      *)
(* `unsigned' and UHWtype are half-limb wide (32 bits in the build).       *)
(* A macro with several results gives a tuple, most significant first.     *)
(***************************************************************************)
EXTENDS Integers, Sequences, FiniteSetsExt

CONSTANTS LimbBits,   \* GMP_LIMB_BITS, even
          ByteBits    \* the step of gmp_clz's first loop: 8

B == 2 ^ LimbBits
HalfBits == LimbBits \div 2
Half == 2 ^ HalfBits            \* GMP_HLIMB_BIT, __ll_B
HighBit == 2 ^ (LimbBits - 1)   \* GMP_LIMB_HIGHBIT
LimbMax == B - 1                \* GMP_LIMB_MAX
Limb == 0 .. LimbMax

Word(x) == x % B
HalfWord(x) == x % Half
Flag(p) == IF p THEN 1 ELSE 0
Compl(x) == LimbMax - x
Shl(x, c) == Word(x * 2 ^ c)
Shr(x, c) == x \div 2 ^ c
High(x) == x \div Half
Low(x) == x % Half

(* A statement after another: first s is computed, then Step of it.        *)
Then(s, Step(_)) == CHOOSE t \in {Step(x) : x \in {s}} : TRUE

(* Two loops: whole bytes while the top byte is zero, then single bits.    *)
gmp_clz(x) ==
    LET bytes == Min({c \in {ByteBits * i : i \in 0 .. (LimbBits \div ByteBits)} :
                         Shr(Shl(x, c), LimbBits - ByteBits) # 0})
    IN  bytes + Min({c \in 0 .. LimbBits : Shl(Shl(x, bytes), c) >= HighBit})

gmp_add_ssaaaa(ah, al, bh, bl) ==
    LET x == Word(al + bl) IN <<Word(ah + bh + Flag(x < al)), x>>

gmp_sub_ddmmss(ah, al, bh, bl) ==
    <<Word(ah - bh - Flag(al < bl)), Word(al - bl)>>

(* The same macro text in mini-gmp.c and, as umul_ppmm, in uint64gmp.h.    *)
gmp_umul_ppmm(u, v) ==
    LET x0 == Low(u) * Low(v)
        x2 == High(u) * Low(v)
        x1 == Word(Word(Low(u) * High(v) + High(x0)) + x2)
        x3 == Word(High(u) * High(v) + (IF x1 < x2 THEN Half ELSE 0))
    IN  <<Word(x3 + High(x1)), Word(Shl(x1, HalfBits) + Low(x0))>>

(* <nh, nl> divided by the normalized d; di is the 2/1 inverse of d.       *)
(* The result is <quotient, remainder>.                                    *)
gmp_udiv_qrnnd_preinv(nh, nl, d, di) ==
    LET p    == gmp_umul_ppmm(nh, di)
        s    == gmp_add_ssaaaa(p[1], p[2], Word(nh + 1), nl)
        r0   == Word(nl - s[1] * d)
        over == r0 > s[2]
        q    == Word(s[1] - Flag(over))
        r    == IF over THEN Word(r0 + d) ELSE r0
    IN  IF r >= d THEN <<Word(q + 1), r - d>> ELSE <<q, r>>

(* <n2, n1, n0> divided by the normalized <d1, d0>: quotient, remainder.   *)
gmp_udiv_qr_3by2(n2, n1, n0, d1, d0, dinv) ==
    LET p    == gmp_umul_ppmm(n2, dinv)
        s    == gmp_add_ssaaaa(p[1], p[2], n2, n1)
        a    == gmp_sub_ddmmss(Word(n1 - d1 * s[1]), n0, d1, d0)
        t    == gmp_umul_ppmm(d0, s[1])
        c    == gmp_sub_ddmmss(a[1], a[2], t[1], t[2])
        over == c[1] >= s[2]
        q    == Word(s[1] + 1 - Flag(over))
        r    == IF over THEN gmp_add_ssaaaa(c[1], c[2], d1, d0) ELSE c
    IN  IF r[1] > d1 \/ (r[1] = d1 /\ r[2] >= d0)
        THEN <<Word(q + 1)>> \o gmp_sub_ddmmss(r[1], r[2], d1, d0)
        ELSE <<q>> \o r

-----------------------------------------------------------------------------
(* mpn_invert_3by2, in its three stages.  Each gives the current quotient  *)
(* (or inverse) and remainder.                                             *)

(* High half: an estimate from the high half of u1, corrected at most      *)
(* twice.  qh is an `unsigned', so it wraps at the half limb.              *)
InverseHighHalf(u1) ==
    LET q0 == HalfWord(Compl(u1) \div High(u1))
        r0 == Shl(Word(Compl(u1) - q0 * High(u1)), HalfBits) + (Half - 1)
        p  == q0 * Low(u1)
        r1 == Word(r0 + u1)
        again == r0 < p /\ r1 >= u1 /\ r1 < p
    IN  CASE again  -> <<HalfWord(q0 - 2), Word(r1 + u1 - p)>>
          [] r0 < p /\ ~again -> <<HalfWord(q0 - 1), Word(r1 - p)>>
          [] OTHER  -> <<q0, Word(r0 - p)>>

(* Low half, for which qh is a suitable inverse: the 2/1 inverse of u1.    *)
InverseLowHalf(u1, qh, r) ==
    LET p    == Word(High(r) * qh + r)
        ql   == High(p) + 1
        r1   == Word(Shl(r, HalfBits) + (Half - 1) - ql * u1)
        over == r1 >= Shl(p, HalfBits)
        m    == Word(Shl(qh, HalfBits) + ql - Flag(over))
        r2   == IF over THEN Word(r1 + u1) ELSE r1
    IN  IF r2 >= u1 THEN <<Word(m + 1), r2 - u1>> ELSE <<m, r2>>

(* The adjustment for u0 > 0 that makes it a 3/2 inverse.                  *)
InverseAdjust(u1, u0, m, r) ==
    LET r1    == Word(Compl(r) + u0)
        wraps == r1 < u0
        twice == wraps /\ r1 >= u1
        m1    == Word(m - Flag(wraps) - Flag(twice))
        r2    == Word(r1 - (Flag(wraps) + Flag(twice)) * u1)
        t     == gmp_umul_ppmm(u0, m1)
        r3    == Word(r2 + t[1])
    IN  IF r3 < t[1]
        THEN Word(m1 - 1 - Flag(r3 > u1 \/ (r3 = u1 /\ t[2] > u0)))
        ELSE m1

mpn_invert_3by2(u1, u0) ==
    LET h == InverseHighHalf(u1)
        l == InverseLowHalf(u1, h[1], h[2])
    IN  IF u0 > 0 THEN InverseAdjust(u1, u0, l[1], l[2]) ELSE l[1]

mpn_invert_limb(u1) == mpn_invert_3by2(u1, 0)

-----------------------------------------------------------------------------
(* overlays/uint64gmp.h: <low word, high word> are fields 0 and 1.         *)

(* One of the two half steps of __udiv_qrnnd_c: n1 / d1 corrected by d0.   *)
(* The bitwise ors of the macro join halves that do not overlap.           *)
HalfDivide(n1, low, d) ==
    LET q0 == n1 \div High(d)
        m  == Word(q0 * Low(d))
        r0 == Word((n1 - q0 * High(d)) * Half) + low
        r1 == Word(r0 + d)
        again == r0 < m /\ r1 >= d /\ r1 < m
    IN  CASE again -> <<Word(q0 - 2), Word(r1 + d - m)>>
          [] r0 < m /\ ~again -> <<Word(q0 - 1), Word(r1 - m)>>
          [] OTHER -> <<q0, Word(r0 - m)>>

div64_2by1(ul, uh, d) ==
    LET h == HalfDivide(uh, High(ul), d)
        l == HalfDivide(h[2], Low(ul), d)
    IN  Word(h[1] * Half) + l[1]

add64_with_carry(x, y, c) ==
    LET r == Word(x + y + c) IN <<r, IF r = x THEN c ELSE Flag(r < x)>>

sub64_with_borrow(x, y, b) ==
    LET r == Word(x - y - b)
    IN  <<r, CASE r > x -> 1 [] r = x -> b [] OTHER -> 0>>

add64_3(x, y, z) ==
    LET s == Word(x + y)
        r == Word(s + z)
    IN  <<r, Flag(s < y) + Flag(r < z)>>

lsld64(x, cnt) == <<Shl(x, cnt), Shr(x, LimbBits - cnt)>>
=============================================================================
