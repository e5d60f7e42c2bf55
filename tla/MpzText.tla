------------------------------- MODULE MpzText --------------------------------
(***************************************************************************)
(* mpz_get_str and mpz_set_str.  A character is the digit it stands for in *)
(* base 36, the two cases of a letter being one, or one of Space, Minus    *)
(* and Other.                                                              *)
(***************************************************************************)
EXTENDS MpzHigh

Space == -1
Minus == -2
Other == -3
LetterB == 11
LetterX == 33

(* A base of -1 to 1 stands for 10; below that, for upper case digits.     *)
RealBase(base) == IF Abs(base) <= 1 THEN 10 ELSE Abs(base)

(* The text, without its final null character, the bytes allocated, and    *)
(* whether the assertions hold.                                            *)
mpz_get_str(base, u) ==
    LET b == RealBase(base)
        room == 2 + mpz_sizeinbase(u, b)
        bits == mpn_base_power_of_two_p(b)
        digits == IF bits # 0 THEN [sp |-> mpn_get_str_bits(bits, Limbs(u)), ok |-> TRUE]
                  ELSE mpn_get_str_other(b, mpn_get_base_info(b), Limbs(u))
    IN  IF u.size = 0 THEN [text |-> <<0>>, room |-> room, ok |-> TRUE]
        ELSE Then(digits, LAMBDA d : [text |-> (IF u.size < 0 THEN <<Minus>> ELSE <<>>) \o d.sp,
                                      room |-> room, ok |-> d.ok])

(* The base that a text without its spaces and sign shows, and the number  *)
(* of characters that do so and are no digits of the number.               *)
ShownBase(sp, base) ==
    LET prefix == Len(sp) >= 2 /\ sp[1] = 0
    IN  CASE base # 0 -> <<base, 0>>
          [] base = 0 /\ prefix /\ sp[2] = LetterX -> <<16, 2>>
          [] base = 0 /\ prefix /\ sp[2] = LetterB -> <<2, 2>>
          [] base = 0 /\ Len(sp) >= 1 /\ sp[1] = 0 /\ ~(prefix /\ sp[2] \in {LetterX, LetterB}) -> <<8, 0>>
          [] OTHER -> <<10, 0>>

(* The digits dp are stored in r, in as many limbs as were requested.      *)
StoreDigits(st, r, dp, base, neg) ==
    LET bits == mpn_base_power_of_two_p(base)
        info == mpn_get_base_info(base)
        alloc == IF bits > 0 THEN (Len(dp) * bits + LimbBits - 1) \div LimbBits
                 ELSE (Len(dp) + info.exp - 1) \div info.exp
        rp == IF bits > 0 THEN mpn_set_str_bits(dp, bits) ELSE mpn_set_str_other(dp, base, info)
        rn == IF bits > 0 THEN Len(rp) ELSE Len(rp) - Flag(rp[Len(rp)] = 0)
    IN  SetSize(Assert_(Store(st, r, alloc, rp), r, rn <= alloc), r, Signed(neg, rn))

(* Spaces in front, a sign, a prefix, then digits with spaces anywhere; a  *)
(* text with no digit or with a character that is none gives 0 and -1.     *)
mpz_set_str(st, r, text, base) ==
    LET start == Min({i \in 1 .. Len(text) : text[i] # Space} \cup {Len(text) + 1})
        neg   == start <= Len(text) /\ text[start] = Minus
        sp    == Drop(text, start - 1 + Flag(neg))
        shown == ShownBase(sp, base)
        dp    == SelectSeq(Drop(sp, shown[2]), LAMBDA c : c # Space)
    IN  IF dp = <<>> \/ \E i \in DOMAIN dp : dp[i] \notin 0 .. shown[1] - 1
        THEN [st |-> SetSize(st, r, 0), ret |-> -1]
        ELSE [st |-> StoreDigits(st, r, dp, shown[1], neg), ret |-> 0]
=============================================================================
