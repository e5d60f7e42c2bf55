------------------------------- MODULE MpnCalls -------------------------------
(***************************************************************************)
(* A client of the limb and mpn functions, and of the conversions to and   *)
(* from text, whose bases need larger limbs than MpzCalls has.  It calls a *)
(* function on some operands and starts again.  The properties compare     *)
(* what the function gives with exact arithmetic on the numbers that the   *)
(* limbs stand for.                                                        *)
(***************************************************************************)
EXTENDS MpzText

CONSTANTS Probe,      \* the limbs of the vectors that are tried
          MaxLimbs,   \* length of the longest vector
          Bases,      \* radices of the conversions, below HighBit
          MaxDigits   \* digits of the longest text

VARIABLE call   \* the function called and its operands

Idle == [op |-> "none", in |-> <<>>]

Vec(n) == [1 .. n -> Probe]
Vecs == UNION {Vec(n) : n \in 1 .. MaxLimbs}
Top(n) == {v \in Vec(n) : n > 0 => v[n] # 0}    \* no zero limb on top

Do(op, in) == call' = [op |-> op, in |-> in]

Init == call = Idle
Return == call # Idle /\ call' = Idle

AddWords ==
    /\ call = Idle
    /\ \E op \in {"add64_3", "add64_with_carry", "sub64_with_borrow"}, x, y, z \in Limb :
          (op # "add64_3" => z <= 1) /\ Do(op, <<x, y, z>>)
ShiftWord == call = Idle /\ \E x \in Limb, cnt \in 1 .. LimbBits - 1 : Do("lsld64", <<x, cnt>>)
MulWords == call = Idle /\ \E u, v \in Limb : Do("umul", <<u, v>>)
DivWords ==
    /\ call = Idle
    /\ \E op \in {"div21", "div64"}, d \in HighBit .. LimbMax : \E nh \in 0 .. d - 1, nl \in Limb :
          Do(op, <<nh, nl, d>>)
Invert == call = Idle /\ \E u1 \in HighBit .. LimbMax, u0 \in Limb : Do("invert", <<u1, u0>>)
Divide3by2 ==
    /\ call = Idle
    /\ \E d1 \in Probe \cap (HighBit .. LimbMax), d0 \in Probe, n2, n1, n0 \in Limb :
          /\ n2 < d1 \/ (n2 = d1 /\ n1 < d0)
          /\ Do("div32", <<n2, n1, n0, d1, d0>>)
AddSub ==
    /\ call = Idle
    /\ \E op \in {"add", "sub", "mul"}, a \in Vecs, b \in Vecs :
          Len(a) >= Len(b) /\ Len(a) < MaxLimbs /\ Do(op, <<a, b>>)
MulRow ==
    call = Idle /\ \E op \in {"addmul", "submul"}, r, u \in Vec(2), v \in Limb : Do(op, <<r, u, v>>)
Shift ==
    /\ call = Idle
    /\ \E op \in {"lshift", "rshift"}, u \in Vecs, cnt \in 1 .. LimbBits - 1 : Do(op, <<u, cnt>>)
CountOnes == call = Idle /\ \E i, j \in 0 .. 29 : \E x \in {2 ^ i + 2 ^ j, 2 ^ i - 1} : Do("popcount", <<x>>)
Negate == call = Idle /\ \E u \in Vecs : Do("neg", <<u>>)

(* The places from bit on where u has a one, or a zero.                    *)
Places(u, bit, b) ==
    {k \in bit .. Len(u) * LimbBits - 1 : (u[k \div LimbBits + 1] \div 2 ^ (k % LimbBits)) % 2 = b}
Scan ==
    /\ call = Idle
    /\ \E u \in Vecs, bit \in 0 .. MaxLimbs * LimbBits - 1 :
          \/ Places(u, bit, 1) # {} /\ Do("scan1", <<u, bit>>)
          \/ Places(u, bit, 0) # {} /\ Do("scan0", <<u, bit>>)
DivideBy1 == call = Idle /\ \E n \in Vecs, d \in Limb \ {0} : Do("div_1", <<n, d>>)
Divide ==
    /\ call = Idle
    /\ \E dn \in 1 .. MaxLimbs - 1 : \E n \in Vecs, d \in Top(dn) : Len(n) >= dn /\ Do("div", <<n, d>>)

(* A variable with exactly the limbs u allocated.                          *)
Var(u, neg) == [alloc |-> Len(u), size |-> Signed(neg, Len(u)), d |-> u, ok |-> TRUE]
GetStr ==
    /\ call = Idle
    /\ \E un \in 0 .. MaxLimbs - 1 : \E u \in Top(un), neg \in BOOLEAN, base \in Bases :
          Do("get_str", <<Var(u, neg), base>>)

(* Texts: space in front or not, a sign or not, a prefix when the base is  *)
(* to be found out, and the digits, some of them spaces or no digits.      *)
SetStr ==
    /\ call = Idle
    /\ \E space, neg \in BOOLEAN, base \in Bases, sn \in 0 .. MaxDigits :
          \E sp \in [1 .. sn -> {0, 1, base - 1}] : Do("set_str", <<space, neg, <<>>, sp, base>>)
SetStrOddly ==
    /\ call = Idle
    /\ \E neg \in BOOLEAN, base \in {0, 2, 3}, prefix \in {<<>>, <<0>>, <<0, LetterB>>}, sn \in 0 .. 3 :
          \E sp \in [1 .. sn -> {0, 1, 7, 9, Space, Other}] :
             /\ base # 0 => prefix = <<>>
             /\ base = 0 /\ prefix = <<>> => sn > 0 /\ sp[1] \notin {0, Space}
             /\ Do("set_str", <<FALSE, neg, prefix, sp, base>>)

Next == \/ AddWords \/ ShiftWord \/ MulWords \/ DivWords \/ Invert \/ Divide3by2
        \/ AddSub \/ MulRow \/ Shift \/ CountOnes \/ Negate \/ Scan
        \/ DivideBy1 \/ Divide \/ GetStr \/ SetStr \/ SetStrOddly \/ Return

Spec == Init /\ [][Next]_call

-----------------------------------------------------------------------------
(* The number a sequence stands for in base b, least significant first.    *)
Number(s, b) == MapThenSumSet(LAMBDA i : s[i] * b ^ (i - 1), DOMAIN s)
Val(s) == Number(s, B)

(* Sums, differences, products and shifts are exact: the stored limbs and  *)
(* the returned limb together make the mathematical result, a borrow being *)
(* worth minus one at its place.                                           *)
SumExact(op, i) ==
    LET p == B ^ Len(i[1])
        With(r, unit) == Val(r.r) + r.cy * unit
    IN  CASE op = "add64_3" -> Val(add64_3(i[1], i[2], i[3])) = i[1] + i[2] + i[3]
          [] op = "add64_with_carry" -> Val(add64_with_carry(i[1], i[2], i[3])) = i[1] + i[2] + i[3]
          [] op = "sub64_with_borrow" ->
               LET o == sub64_with_borrow(i[1], i[2], i[3]) IN o[1] - B * o[2] = i[1] - i[2] - i[3]
          [] op = "lsld64" -> Val(lsld64(i[1], i[2])) = i[1] * 2 ^ i[2]
          [] op = "umul" -> LET o == gmp_umul_ppmm(i[1], i[2]) IN o[1] * B + o[2] = i[1] * i[2]
          [] op = "add" -> With(mpn_add(i[1], i[2]), p) = Val(i[1]) + Val(i[2])
          [] op = "sub" -> With(mpn_sub(i[1], i[2]), -p) = Val(i[1]) - Val(i[2])
          [] op = "mul" -> LET o == mpn_mul(i[1], i[2])
                           IN  Val(o) = Val(i[1]) * Val(i[2]) /\ Len(o) = Len(i[1]) + Len(i[2])
          [] op = "addmul" -> With(mpn_addmul_1(i[1], i[2], i[3]), p) = Val(i[1]) + Val(i[2]) * i[3]
          [] op = "submul" -> With(mpn_submul_1(i[1], i[2], i[3]), -p) = Val(i[1]) - Val(i[2]) * i[3]
          [] op = "lshift" -> With(mpn_lshift(i[1], i[2]), p) = Val(i[1]) * 2 ^ i[2]
          [] op = "rshift" -> LET o == mpn_rshift(i[1], i[2])
                              IN  Val(o.r) * B + o.cy = Val(i[1]) * 2 ^ (LimbBits - i[2])
          [] op = "neg" -> mpn_neg(i[1]).cy = Flag(Val(i[1]) # 0)
                           /\ Val(mpn_neg(i[1]).r) = (p - Val(i[1])) % p
          [] op = "popcount" ->
               gmp_popcount_limb(i[1]) = Quantify(0 .. 30, LAMBDA k : (i[1] \div 2 ^ k) % 2 = 1)
          [] op = "scan1" -> mpn_scan1(i[1], i[2]) = Min(Places(i[1], i[2], 1))
          [] op = "scan0" -> mpn_scan0(i[1], i[2]) = Min(Places(i[1], i[2], 0))
          [] OTHER -> TRUE

(* mpn_invert_3by2 gives the inverse its comment defines, and every        *)
(* division the quotient and a remainder below the divisor.  No assertion  *)
(* of the division functions fails.                                        *)
QuotientExact(op, i) ==
    LET Exact(n, d, q, r) == n = q * d + r /\ r \in 0 .. d - 1
    IN  CASE op = "invert" -> mpn_invert_3by2(i[1], i[2]) = (B ^ 3 - 1) \div (B * i[1] + i[2]) - B
          [] op = "div21" -> LET o == gmp_udiv_qrnnd_preinv(i[1], i[2], i[3], mpn_invert_limb(i[3]))
                             IN  Exact(i[1] * B + i[2], i[3], o[1], o[2])
          [] op = "div64" -> div64_2by1(i[2], i[1], i[3]) = (i[1] * B + i[2]) \div i[3]
          [] op = "div32" ->
               LET o == gmp_udiv_qr_3by2(i[1], i[2], i[3], i[4], i[5], mpn_invert_3by2(i[4], i[5]))
               IN  Exact(Val(<<i[3], i[2], i[1]>>), Val(<<i[5], i[4]>>), o[1], Val(<<o[3], o[2]>>))
          [] op = "div_1" -> LET o == mpn_div_qr_1(i[1], i[2])
                             IN  Exact(Val(i[1]), i[2], Val(o.q), o.r)
          [] op = "div" -> LET o == mpn_div_qr(i[1], i[2])
                           IN  Exact(Val(i[1]), Val(i[2]), Val(o.q), Val(o.r)) /\ o.ok
          [] OTHER -> TRUE

(* The arithmetic of limbs and vectors of limbs is exact.  This is what    *)
(* the carry tests `r < b' of the macros and loops must get right at every *)
(* limb boundary, and the divisions whichever corrections of the quotient  *)
(* estimates are needed, the case of equal top limbs and the shortcut for  *)
(* powers of two included.                                                 *)
ArithmeticExact == [][SumExact(call'.op, call'.in) /\ QuotientExact(call'.op, call'.in)]_call

(* The base and the digits of a text, and the text itself.                 *)
BaseOf(i) == IF i[5] # 0 THEN i[5] ELSE CASE i[3] = <<>> -> 10 [] i[3] = <<0>> -> 8 [] OTHER -> 2
DigitsOf(i) == SelectSeq((IF i[3] = <<0>> THEN i[3] ELSE <<>>) \o i[4], LAMBDA c : c # Space)
TextOf(i) == (IF i[1] THEN <<Space>> ELSE <<>>) \o (IF i[2] THEN <<Minus>> ELSE <<>>) \o i[3] \o i[4]
IsNumber(i) == DigitsOf(i) # <<>> /\ \A k \in DOMAIN DigitsOf(i) : DigitsOf(i)[k] \in 0 .. BaseOf(i) - 1

(* Conversions keep the number: the text of mpz_get_str has digits of the  *)
(* base with no zero in front, fits with its null character in the bytes   *)
(* allocated, and mpz_set_str reads the same limbs back from it;           *)
(* mpz_set_str gives the number the text says, normalized, within the      *)
(* limbs requested, also when a digit straddles two limbs and however the  *)
(* digits fall into groups, and refuses a text that says none.             *)
DigitsExact ==
    [][\E i \in {call'.in} :
           /\ call'.op = "get_str" =>
                \E o \in {mpz_get_str(i[2], i[1])} : \E d \in {SelectSeq(o.text, LAMBDA c : c # Minus)} :
                   \E back \in {mpz_set_str([r |-> Fresh], "r", o.text, i[2])} :
                      /\ o.ok /\ Len(o.text) + 1 <= o.room
                      /\ \A k \in DOMAIN d : d[k] \in 0 .. i[2] - 1
                      /\ d[1] = 0 => i[1].size = 0
                      /\ Number(Reversed(d), i[2]) = Val(Limbs(i[1]))
                      /\ back.ret = 0 /\ back.st.r.ok
                      /\ Limbs(back.st.r) = Limbs(i[1]) /\ back.st.r.size = i[1].size
           /\ call'.op = "set_str" =>
                \E x \in {mpz_set_str([r |-> Fresh], "r", TextOf(i), i[5])} :
                   /\ x.st.r.ok
                   /\ x.ret = IF IsNumber(i) THEN 0 ELSE -1
                   /\ Signed(x.st.r.size < 0, Val(Limbs(x.st.r)))
                        = IF IsNumber(i) THEN Signed(i[2], Number(Reversed(DigitsOf(i)), BaseOf(i))) ELSE 0
                   /\ x.st.r.size # 0 => x.st.r.d[Abs(x.st.r.size)] # 0]_call
=============================================================================
