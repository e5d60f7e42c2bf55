----------------------------- MODULE IntFunctions -----------------------------
(***************************************************************************)
(* What the mpz functions promise: variables that hold integers, and calls *)
(* whose effect is exact arithmetic.  A call names the function, the       *)
(* variables r and q it writes, the ones it reads (a, b, c), a number k    *)
(* and a rounding mode; ret is the value it returns.                       *)
(***************************************************************************)
EXTENDS Integers, Sequences, FiniteSetsExt

CONSTANTS WordBits,  \* width of the C type long
          ByteBits,  \* width of a byte
          HostOrder  \* 1 if the machine puts the most significant byte first, else -1

NoVar == "NULL"

Magnitude(x) == IF x >= 0 THEN x ELSE -x
Sign(x) == IF x > 0 THEN 1 ELSE IF x < 0 THEN -1 ELSE 0
Yes(p) == IF p THEN 1 ELSE 0

FloorDiv(n, d) == IF d > 0 THEN n \div d ELSE (-n) \div (-d)
Quotient(n, d, mode) ==
    CASE mode = "FLOOR" -> FloorDiv(n, d)
      [] mode = "CEIL"  -> -FloorDiv(-n, d)
      [] mode = "TRUNC" -> Sign(n) * Sign(d) * (Magnitude(n) \div Magnitude(d))

Divides(d, n) == IF d = 0 THEN n = 0 ELSE n % Magnitude(d) = 0
GCD(a, b) == IF a = 0 /\ b = 0 THEN 0
             ELSE Max({d \in 1 .. Magnitude(a) + Magnitude(b) : Divides(d, a) /\ Divides(d, b)})

Power(x, n) == IF n = 0 THEN 1 ELSE x ^ n
PowerMod(x, n, m) == LET p[i \in 0 .. n] == IF i = 0 THEN 1 % m ELSE (p[i - 1] * x) % m IN p[n]

Factorial[n \in Nat] == IF n = 0 THEN 1 ELSE n * Factorial[n - 1]

(* Two's complement: bit k of x, and the number whose bits are F's.        *)
BitOf(x, k) == (x \div 2 ^ k) % 2
Wide == 12   \* more bits than any number here has
FromBits(F(_)) == MapThenSumSet(LAMBDA k : F(k) * 2 ^ k, 0 .. Wide - 1) - F(Wide) * 2 ^ Wide
BitsWhere(x, k, b) == {i \in k .. Wide : BitOf(x, i) = b}
FirstBit(x, k, b) == IF BitsWhere(x, k, b) = {} THEN -1 ELSE Min(BitsWhere(x, k, b))
Ones(x) == Quantify(0 .. Wide, LAMBDA k : BitOf(x, k) = 1)

(* A number written as words of size bytes.  Words have their own order    *)
(* and the bytes in a word have theirs, 1 for most significant first; the  *)
(* byte at place p of the text has this weight.                            *)
Weight(p, words, size, order, endian) ==
    LET word == (p - 1) \div size
        byte == (p - 1) % size
    IN  size * (IF order = 1 THEN words - 1 - word ELSE word)
        + (IF (IF endian = 0 THEN HostOrder ELSE endian) = 1 THEN size - 1 - byte ELSE byte)
ByteOf(x, k) == (x \div 2 ^ (k * ByteBits)) % 2 ^ ByteBits
BytesFor(x) == Min({n \in 0 .. Wide : x < 2 ^ (n * ByteBits)})
WordsFor(x, size) == (BytesFor(x) + size - 1) \div size

Writes(w, v, x, n) == IF x = NoVar THEN w = v ELSE w = [v EXCEPT ![x] = n]
Writes2(w, v, x, m, y, n) ==
    w = [i \in DOMAIN v |-> CASE i = x -> m [] i = y /\ i # x -> n [] OTHER -> v[i]]

(* v and w are the integers the variables hold before and after the call c. *)
Computes(v, w, c) ==
    LET a == v[c.a]
        b == v[c.b]
        k == c.k
        op == c.op
    IN  CASE op = "set" -> Writes(w, v, c.r, a)
          [] op = "set_word" -> Writes(w, v, c.r, k)
          [] op = "neg" -> Writes(w, v, c.r, -a)
          [] op = "abs" -> Writes(w, v, c.r, Magnitude(a))
          [] op = "com" -> Writes(w, v, c.r, -a - 1)
          [] op = "swap" -> Writes2(w, v, c.r, a, c.a, v[c.r])
          [] op = "add" -> Writes(w, v, c.r, a + b)
          [] op = "sub" -> Writes(w, v, c.r, a - b)
          [] op = "mul" -> Writes(w, v, c.r, a * b)
          [] op = "addmul" -> Writes(w, v, c.r, v[c.r] + a * b)
          [] op = "submul" -> Writes(w, v, c.r, v[c.r] - a * b)
          [] op = "and" -> Writes(w, v, c.r, FromBits(LAMBDA i : BitOf(a, i) * BitOf(b, i)))
          [] op = "ior" -> Writes(w, v, c.r, FromBits(LAMBDA i : Max({BitOf(a, i), BitOf(b, i)})))
          [] op = "xor" -> Writes(w, v, c.r, FromBits(LAMBDA i : (BitOf(a, i) + BitOf(b, i)) % 2))
          [] op = "gcd" -> Writes(w, v, c.r, GCD(a, b))
          [] op = "lcm" -> Writes(w, v, c.r, IF a = 0 \/ b = 0 THEN 0
                                             ELSE Magnitude(a * b) \div GCD(a, b))
          [] op = "add_ui" -> Writes(w, v, c.r, a + k)
          [] op = "sub_ui" -> Writes(w, v, c.r, a - k)
          [] op = "ui_sub" -> Writes(w, v, c.r, k - a)
          [] op = "mul_word" -> Writes(w, v, c.r, a * k)
          [] op = "gcd_ui" -> Writes(w, v, c.r, GCD(a, k)) /\ c.ret = IF k = 0 THEN 0 ELSE GCD(a, k)
          [] op = "lcm_ui" -> Writes(w, v, c.r, IF a = 0 \/ k = 0 THEN 0
                                                ELSE Magnitude(a * k) \div GCD(a, k))
          [] op = "mul_2exp" -> Writes(w, v, c.r, a * 2 ^ k)
          [] op = "div_q_2exp" -> Writes(w, v, c.r, Quotient(a, 2 ^ k, c.mode))
          [] op = "div_r_2exp" -> Writes(w, v, c.r, a - 2 ^ k * Quotient(a, 2 ^ k, c.mode))
          [] op = "setbit" -> Writes(w, v, c.r, v[c.r] + (1 - BitOf(v[c.r], k)) * 2 ^ k)
          [] op = "clrbit" -> Writes(w, v, c.r, v[c.r] - BitOf(v[c.r], k) * 2 ^ k)
          [] op = "combit" -> Writes(w, v, c.r, v[c.r] + (1 - 2 * BitOf(v[c.r], k)) * 2 ^ k)
          [] op = "div" ->
               LET q == Quotient(a, b, c.mode)
               IN  /\ Writes2(w, v, c.q, q, c.r, a - q * b)
                   /\ c.ret = Yes(~Divides(b, a))
          [] op = "mod" -> Writes(w, v, c.r, a % Magnitude(b))
          [] op = "div_ui" ->
               LET q == Quotient(a, k, c.mode)
               IN  Writes2(w, v, c.q, q, c.r, a - q * k) /\ c.ret = Magnitude(a - q * k)
          [] op = "gcdext" ->
               LET g == GCD(a, b)
               IN  \E s, t \in -Magnitude(a) - Magnitude(b) - 1 .. Magnitude(a) + Magnitude(b) + 1 :
                      /\ s * a + t * b = g
                      /\ w = [i \in DOMAIN v |-> CASE i = c.r -> g
                                                   [] i = c.q /\ i # c.r -> s
                                                   [] i = c.s /\ i \notin {c.r, c.q} -> t
                                                   [] OTHER -> v[i]]
          [] op = "invert" ->
               \/ c.ret = 0 /\ w = v /\ (GCD(a, b) # 1 \/ a = 0 \/ Magnitude(b) <= 1)
               \/ /\ c.ret = 1
                  /\ \E x \in 1 .. Magnitude(b) - 1 : Divides(b, a * x - 1) /\ Writes(w, v, c.r, x)
          [] op = "pow_ui" -> Writes(w, v, c.r, Power(a, k))
          [] op = "fac_ui" -> Writes(w, v, c.r, Factorial[c.n])
          [] op = "bin_uiui" ->
               Writes(w, v, c.r, Cardinality({S \in SUBSET (1 .. c.n) : Cardinality(S) = k}))
          [] op = "powm" ->
               LET m == Magnitude(v[c.c])
               IN  \/ b >= 0 /\ Writes(w, v, c.r, PowerMod(a, b, m))
                   \/ /\ b < 0
                      /\ \E x \in 1 .. m - 1 :
                            (a * x) % m = 1 /\ Writes(w, v, c.r, PowerMod(x, -b, m))
          [] op = "rootrem" ->
               \E x \in -Magnitude(a) .. Magnitude(a) :
                  /\ Sign(x) * Sign(a) >= 0
                  /\ Magnitude(x) ^ k <= Magnitude(a) /\ Magnitude(a) < (Magnitude(x) + 1) ^ k
                  /\ Writes2(w, v, c.q, x, c.r, a - x ^ k)
          [] op = "export" ->
               LET words == WordsFor(Magnitude(a), k)
               IN  w = v /\ c.ret = [p \in 1 .. words * k |->
                                       ByteOf(Magnitude(a), Weight(p, words, k, c.order, c.endian))]
          [] op = "import" ->
               Writes(w, v, c.r, MapThenSumSet(
                   LAMBDA p : c.src[p] * 2 ^ (ByteBits * Weight(p, c.n, k, c.order, c.endian)),
                   DOMAIN c.src))
          [] op = "cmp" -> w = v /\ c.ret = Sign(a - b)
          [] op = "cmpabs" -> w = v /\ c.ret = Sign(Magnitude(a) - Magnitude(b))
          [] op = "congruent" -> w = v /\ c.ret = Yes(Divides(v[c.c], a - b))
          [] op = "hamdist" -> w = v /\ c.ret = IF (a < 0) # (b < 0) THEN -1
                                  ELSE Ones(FromBits(LAMBDA i : (BitOf(a, i) + BitOf(b, i)) % 2))
          [] op = "cmp_word" -> w = v /\ c.ret = Sign(a - k)
          [] op = "cmpabs_ui" -> w = v /\ c.ret = Sign(Magnitude(a) - k)
          [] op = "tstbit" -> w = v /\ c.ret = BitOf(a, k)
          [] op = "scan1" -> w = v /\ c.ret = FirstBit(a, k, 1)
          [] op = "scan0" -> w = v /\ c.ret = FirstBit(a, k, 0)
          [] op = "popcount" -> w = v /\ c.ret = IF a < 0 THEN -1 ELSE Ones(a)
          [] op = "fits_slong" -> w = v /\ c.ret = Yes(a \in -(2 ^ (WordBits - 1)) .. 2 ^ (WordBits - 1) - 1)
          [] op = "get_si" -> w = v /\ (a \in -(2 ^ (WordBits - 1)) .. 2 ^ (WordBits - 1) - 1 => c.ret = a)
          [] op = "square_p" -> w = v /\ c.ret = Yes(\E x \in 0 .. Magnitude(a) : x * x = a)
          [] op = "sizeinbase" ->
               w = v /\ c.ret = Min({n \in 1 .. Wide : Magnitude(a) < k ^ n})
=============================================================================
