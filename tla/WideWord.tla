------------------------------- MODULE WideWord -------------------------------
(***************************************************************************)
(* Words of two limbs, src/math/u64.bend and src/math/w64.bend: the        *)
(* unsigned and signed 64-bit integers on 32-bit machine arithmetic, with  *)
(* division from an estimate of each digit, square roots from a            *)
(* floating-point estimate, and Montgomery multiplication; and the bytes   *)
(* and bit counts of limbs and words, src/math/fixed.bend.  A limb is two  *)
(* halves, of HalfBits bits instead of 16, and every limb operation wraps. *)
(*                                                                         *)
(* A machine with an accumulator runs the operations one after another.    *)
(***************************************************************************)
EXTENDS Integers, Sequences, FiniteSets

S == INSTANCE SequencesExt

CONSTANTS HalfBits,      \* the bits of half a limb: 16 in the program
          DigitBits,     \* the digits of the short division: <<12, 12, 8>>
          InverseSteps,  \* Newton steps for the inverse of a word: 5, and
          LimbSteps,     \* for that of a limb: 4
          ByteBits,      \* the bits of a byte: 8, and
          NibbleBits,    \* of the pieces whose bits are looked up: 4
          Limbs,         \* the limbs of the operands
          Moduli         \* the moduli

Base == 2 ^ HalfBits

LimbBits == 2 * HalfBits

Limb == Base * Base

Top == Limb - 1

WideWordAssumption ==
  /\ HalfBits \in Nat \ {0} /\ \E k \in 0 .. HalfBits : HalfBits = 2 ^ k
  /\ DigitBits \in [1 .. 3 -> Nat] /\ DigitBits[1] + DigitBits[2] + DigitBits[3] = LimbBits
  /\ 3 * 2 ^ InverseSteps >= 2 * LimbBits /\ 3 * 2 ^ LimbSteps >= LimbBits
  /\ ByteBits \in 1 .. LimbBits - 1 /\ LimbBits % ByteBits = 0
  /\ NibbleBits \in 1 .. LimbBits /\ LimbBits % NibbleBits = 0
  /\ Limbs \subseteq 0 .. Top

VARIABLES acc,  \* the accumulator
          obs   \* the last operation, its operands and its answer

vars == <<acc, obs>>

W(lo, hi) == [lo |-> lo, hi |-> hi]

Operands == [lo : Limbs, hi : Limbs]

Bit(b) == IF b THEN 1 ELSE 0

\* Machine arithmetic on limbs.
Plus(x, y) == (x + y) % Limb

Minus(x, y) == (x + Limb - y) % Limb

Times(x, y) == (x * y) % Limb

-----------------------------------------------------------------------------
Add(a, b) ==
  LET l == Plus(a.lo, b.lo)
  IN W(l, Plus(Plus(a.hi, b.hi), Bit(l < a.lo)))

AddOver(a, b) ==
  LET s == Plus(a.hi, b.hi)
  IN s < a.hi \/ (Plus(a.lo, b.lo) < a.lo /\ s = Top)

Sub(a, b) == W(Minus(a.lo, b.lo), Minus(Minus(a.hi, b.hi), Bit(a.lo < b.lo)))

Neg(a) ==
  LET l == Plus(Top - a.lo, 1)
  IN W(l, Plus(Top - a.hi, Bit(l = 0)))

Half(a) == W(Plus(a.lo \div 2, Times(a.hi % 2, Limb \div 2)), a.hi \div 2)

Lt(a, b) == a.hi < b.hi \/ (a.hi = b.hi /\ a.lo < b.lo)

Le(a, b) == ~ Lt(b, a)

Negative(a) == a.hi >= Limb \div 2

LeSigned(a, b) ==
  IF Negative(a) # Negative(b) THEN Negative(a) ELSE Le(a, b)

-----------------------------------------------------------------------------
\* The product of two limbs, by halves.
Mul32(x, y) ==
  LET ll == Times(x % Base, y % Base)
      lh == Times(x % Base, y \div Base)
      mid == Plus(lh, Times(x \div Base, y % Base))
      hh == Times(x \div Base, y \div Base)
      l == Plus(ll, Times(mid, Base))
      carried == Plus(mid \div Base, Times(Bit(mid < lh), Base))
  IN W(l, Plus(Plus(hh, carried), Bit(l < ll)))

Mul(a, b) ==
  Add(Mul32(a.lo, b.lo), W(0, Plus(Times(a.lo, b.hi), Times(a.hi, b.lo))))

MulOver(a, b) ==
  LET p == Mul32(a.lo, b.lo)
      c == Add(Mul32(a.hi, b.lo), Mul32(a.lo, b.hi))
  IN \/ a.hi # 0 /\ b.hi # 0
     \/ c.hi # 0 \/ Plus(p.hi, c.lo) < p.hi

\* The low and the high word of a product.
Mul128(a, b) ==
  LET p00 == Mul32(a.lo, b.lo)
      p01 == Mul32(a.lo, b.hi)
      p10 == Mul32(a.hi, b.lo)
      mid == Add(p01, p10)
      h == Plus(p00.hi, mid.lo)
  IN <<W(p00.lo, h),
       Add(Add(Mul32(a.hi, b.hi), W(mid.hi, Bit(AddOver(p01, p10)))),
           W(Bit(h < p00.hi), 0))>>

-----------------------------------------------------------------------------
\* Two digits of a long division by d, behind a remainder r; plain numbers.
Dig1(r, lo, d) == r * Base + (lo \div Base)

Dig2(r, lo, d) == (Dig1(r, lo, d) % d) * Base + (lo % Base)

LowQuotient(r, lo, d) ==
  ((Dig1(r, lo, d) \div d) * Base + (Dig2(r, lo, d) \div d)) % Limb

\* Quotient and remainder by a limb.
Div32(a, d) ==
  <<W(LowQuotient(a.hi % d, a.lo, d), a.hi \div d), Dig2(a.hi % d, a.lo, d) % d>>

Mod32(a, d) == Dig2(a.hi % d, a.lo, d) % d

\* The number of bits of a limb, by a binary search on its top bit.
RECURSIVE TopBit(_, _, _)
TopBit(k, base, x) ==
  IF k = 0 THEN base + (IF x = 0 THEN 0 ELSE 1)
  ELSE IF 2 ^ k <= x THEN TopBit(k \div 2, base + k, x \div 2 ^ k)
  ELSE TopBit(k \div 2, base, x)

BitLen(x) == TopBit(HalfBits, 0, x)

Clz(a) ==
  IF a.hi # 0 THEN LimbBits - BitLen(a.hi) ELSE 2 * LimbBits - BitLen(a.lo)

Shl(a, k) ==
  IF k = 0 THEN a
  ELSE IF k < LimbBits
  THEN W(Times(a.lo, 2 ^ k), Plus(Times(a.hi, 2 ^ k), a.lo \div 2 ^ (LimbBits - k)))
  ELSE W(0, Times(a.lo, 2 ^ (k - LimbBits)))

Shr(a, k) ==
  IF k = 0 THEN a
  ELSE IF k < LimbBits
  THEN W(Plus(a.lo \div 2 ^ k, Times(a.hi, 2 ^ (LimbBits - k))), a.hi \div 2 ^ k)
  ELSE IF k < 2 * LimbBits THEN W(a.hi \div 2 ^ (k - LimbBits), 0)
  ELSE W(0, 0)

\* The bits shifted out are ORed into the lowest one.
ShrJam(a, k) ==
  IF k >= 2 * LimbBits THEN W(Bit(a # W(0, 0)), 0)
  ELSE LET r == Shr(a, k)
       IN IF Shl(r, k) # a /\ r.lo % 2 = 0 THEN [r EXCEPT !.lo = @ + 1] ELSE r

-----------------------------------------------------------------------------
QClamp(q) == IF q.hi = 0 THEN q.lo ELSE Top

\* The low word and the top limb of the product of a limb and a word.
Mul3264(q, b) ==
  LET p0 == Mul32(q, b.lo)
      p1 == Mul32(q, b.hi)
      h == Plus(p0.hi, p1.lo)
  IN <<W(p0.lo, h), Plus(p1.hi, Bit(h < p0.hi))>>

Over96(xl, xh, p) == xh < p[2] \/ (xh = p[2] /\ Lt(xl, p[1]))

RECURSIVE QFix(_, _, _, _, _)
QFix(fuel, xl, xh, b, q) ==
  IF fuel > 0 /\ Over96(xl, xh, Mul3264(q, b))
  THEN QFix(fuel - 1, xl, xh, b, Minus(q, 1))
  ELSE q

Est32(y, d) == IF d <= y.hi THEN Top ELSE LowQuotient(y.hi, y.lo, d)

\* Knuth's estimate of the quotient of three limbs and a word whose high limb
\* has t bits, t > 0; and the quotient.
QEst(xl, xh, b, t) ==
  Est32(Add(Shr(xl, t), Shl(W(xh, 0), 2 * LimbBits - t)), Shr(b, t).lo)

\* Mutant: the estimate is not corrected.
Q96Estimated(xl, xh, b) == QEst(xl, xh, b, BitLen(b.hi))

Q96(xl, xh, b) ==
  LET q == QEst(xl, xh, b, BitLen(b.hi)) IN QFix(q + 1, xl, xh, b, q)

DivMod(a, b) ==
  IF b.hi = 0
  THEN LET p == Div32(a, b.lo) IN <<p[1], W(p[2], 0)>>
  ELSE LET q == Q96(a, 0, b) IN <<W(q, 0), Sub(a, Mul3264(q, b)[1])>>

\* A word xh below m and a limb x0 behind it, modulo m.
Red96(xh, x0, m) ==
  LET x == W(x0, xh.lo)
  IN IF m.hi = 0 THEN x ELSE Sub(x, Mul3264(Q96(x, xh.hi, m), m)[1])

MulMod(a, b, m) ==
  IF m.hi = 0 THEN W(Mod32(Mul32(a.lo, b.lo), m.lo), 0)
  ELSE LET p == Mul128(a, b) IN Red96(Red96(p[2], p[1].hi, m), p[1].lo, m)

\* The short division, in digits that keep every dividend within a limb.
DivSmall(a, d) ==
  LET b == [i \in 1 .. 3 |-> 2 ^ DigitBits[i]]
      t1 == Plus(Times(a.hi % d, b[1]), a.lo \div (b[2] * b[3]))
      t2 == Plus(Times(t1 % d, b[2]), (a.lo \div b[3]) % b[2])
      t3 == Plus(Times(t2 % d, b[3]), a.lo % b[3])
  IN W(Plus(Plus(Times(t1 \div d, b[2] * b[3]), Times(t2 \div d, b[3])), t3 \div d),
       a.hi \div d)

DivSmallSigned(a, d) ==
  IF Negative(a) THEN Neg(DivSmall(Neg(a), d)) ELSE DivSmall(a, d)

-----------------------------------------------------------------------------
\* Square roots: from any estimate, down and then up.
RECURSIVE Down32(_, _, _), Up32(_, _, _), Down64(_, _, _), Up64(_, _, _)
Down32(fuel, x, r) ==
  IF fuel > 0 /\ x < Times(r, r) THEN Down32(fuel - 1, x, Minus(r, 1)) ELSE r

Up32(fuel, x, r) ==
  IF fuel > 0 /\ r < Base - 1 /\ Times(r + 1, r + 1) <= x
  THEN Up32(fuel - 1, x, r + 1) ELSE r

Isqrt32(x, r) ==
  LET down == Down32(1 + r, x, r) IN Up32(1 + (Base - 1 - down), x, down)

Down64(fuel, n, r) ==
  IF fuel > 0 /\ Lt(n, Mul32(r, r)) THEN Down64(fuel - 1, n, Minus(r, 1)) ELSE r

Up64(fuel, n, r) ==
  IF fuel > 0 /\ r < Top /\ ~ Lt(n, Mul32(r + 1, r + 1))
  THEN Up64(fuel - 1, n, r + 1) ELSE r

\* One Newton step comes first, from an estimate that is not zero.
IsqrtBig(n, r0) ==
  LET r1 == QClamp(Half(Add(Div32(n, r0)[1], W(r0, 0))))
      down == Down64(1 + r1, n, r1)
  IN Up64(1 + (Top - down), n, down)

-----------------------------------------------------------------------------
\* -1 / m modulo the words, and modulo the limbs, for an odd m.
RECURSIVE Inverse(_, _, _), LimbInverse(_, _, _)
Inverse(steps, m, x) ==
  IF steps = 0 THEN x ELSE Inverse(steps - 1, m, Mul(x, Sub(W(2, 0), Mul(m, x))))

LimbInverse(steps, m, x) ==
  IF steps = 0 THEN x ELSE LimbInverse(steps - 1, m, Times(x, Minus(2, Times(m, x))))

Minv(m) == Sub(W(0, 0), Inverse(InverseSteps, m, m))

Minv32(m) == Minus(0, LimbInverse(LimbSteps, m, m))

MontOk(m) ==
  /\ m.lo % 2 = 1 /\ Mul(m, Minv(m)) = W(Top, Top)
  /\ m.hi # 0 /\ m.hi < Limb \div 2

Mont32Ok(m) == m % 2 = 1 /\ Times(m, Minv32(m)) = Top

Redc(m, mp, t) ==
  LET p == Mul128(Mul(t[1], mp), m)
      r == Add(Add(t[2], p[2]), W(Bit(AddOver(t[1], p[1])), 0))
  IN IF Le(m, r) THEN Sub(r, m) ELSE r

Mont(m, mp, a, b) == Redc(m, mp, Mul128(a, b))

Redc32(m, mp, t) ==
  LET p == Mul32(Times(t.lo, mp), m)
      s1 == Plus(t.hi, p.hi)
      s2 == Plus(s1, Bit(Plus(t.lo, p.lo) < t.lo))
      r == W(s2, Plus(Bit(s1 < t.hi), Bit(s2 < s1)))
  IN IF Le(W(m, 0), r) THEN Sub(r, W(m, 0)).lo ELSE r.lo

Mont32(m, mp, a, b) == Redc32(m, mp, Mul32(a, b))

ToMont(x, m) == Red96(Red96(x, 0, m), 0, m)

RECURSIVE MPowGo(_, _, _, _, _, _), MPow32Go(_, _, _, _, _, _)
MPowGo(fuel, m, mp, b, result, e) ==
  IF fuel = 0 \/ e = W(0, 0) THEN result
  ELSE MPowGo(fuel - 1, m, mp, Mont(m, mp, b, b),
              IF e.lo % 2 = 1 THEN Mont(m, mp, result, b) ELSE result, Half(e))

MPow32Go(fuel, m, mp, b, result, e) ==
  IF fuel = 0 \/ e = 0 THEN result
  ELSE MPow32Go(fuel - 1, m, mp, Mont32(m, mp, b, b),
                IF e % 2 = 1 THEN Mont32(m, mp, result, b) ELSE result, e \div 2)

MPow(b, e, m) ==
  LET mp == Minv(m)
      one == ToMont(DivMod(W(1, 0), m)[2], m)
  IN Mont(m, mp, MPowGo(140, m, mp, ToMont(b, m), one, e), W(1, 0))

MPow32(b, e, m) ==
  LET mp == Minv32(m)
      one == Mod32(W(0, 1 % m), m)
  IN Mont32(m, mp, MPow32Go(140, m, mp, Mod32(W(0, b), m), one, e), 1)

-----------------------------------------------------------------------------
(* Bytes, low ones first (Le) or high ones first (Be), and bit counts.     *)

ByteBase == 2 ^ ByteBits

Byte(x, k) == (x \div 2 ^ (ByteBits * k)) % ByteBase

LimbBytes == LimbBits \div ByteBits

LimbToLe(x) == [i \in 1 .. LimbBytes |-> Byte(x, i - 1)]

LimbToBe(x) == [i \in 1 .. LimbBytes |-> Byte(x, LimbBytes - i)]

ToLe(a) == LimbToLe(a.lo) \o LimbToLe(a.hi)

ToBe(a) == LimbToBe(a.hi) \o LimbToBe(a.lo)

\* A number z with one more digit below it, if it is one and b is a byte.
Digit(r, b, z) == IF r[1] = "Some" /\ b < ByteBase THEN <<"Some", z>> ELSE <<"None">>

LimbFromLe(bs) ==
  LET Step(b, r) == Digit(r, b, Plus(b, Times(r[2], ByteBase)))
  IN IF Len(bs) = LimbBytes THEN S!FoldRight(Step, bs, <<"Some", 0>>) ELSE <<"None">>

LimbFromBe(bs) == LimbFromLe(S!Reverse(bs))

FromLe(bs) ==
  LET Step(b, r) == Digit(r, b, Add(W(b, 0), Mul(r[2], W(ByteBase, 0))))
  IN IF Len(bs) = 2 * LimbBytes THEN S!FoldRight(Step, bs, <<"Some", W(0, 0)>>)
     ELSE <<"None">>

FromBe(bs) == FromLe(S!Reverse(bs))

\* A table in the program.
OnesOfNibble(n) == Cardinality({i \in 0 .. NibbleBits - 1 : (n \div 2 ^ i) % 2 = 1})

RECURSIVE OnesGo(_, _)
OnesGo(fuel, x) ==
  IF fuel = 0 THEN 0
  ELSE OnesOfNibble(x % 2 ^ NibbleBits) + OnesGo(fuel - 1, x \div 2 ^ NibbleBits)

LimbOnes(x) == OnesGo(LimbBits \div NibbleBits, x)

Ones(a) == LimbOnes(a.lo) + LimbOnes(a.hi)

-----------------------------------------------------------------------------
\* The accumulator becomes the answer; `call` is the operation, its operands
\* and what else it answers.
Answer(call, a) == acc' = a /\ obs' = call

Sum(b) == Answer(<<"Sum", b, AddOver(acc, b)>>, Add(acc, b))

Difference(b) == Answer(<<"Difference", b>>, Sub(acc, b))

Negation == Answer(<<"Negation">>, Neg(acc))

Halving == Answer(<<"Halving", Clz(acc)>>, Half(acc))

Comparison(b) == Answer(<<"Comparison", b, Lt(acc, b), LeSigned(acc, b)>>, acc)

Product(b) ==
  Answer(<<"Product", b, MulOver(acc, b), Mul128(acc, b)>>, Mul(acc, b))

Quotient(b) ==
  /\ b # W(0, 0)
  /\ LET p == DivMod(acc, b) IN Answer(<<"Quotient", b, p[2]>>, p[1])

ShiftLeft(k) == k < 2 * LimbBits /\ Answer(<<"ShiftLeft", k>>, Shl(acc, k))

ShiftRight(k) == Answer(<<"ShiftRight", k, ShrJam(acc, k)>>, Shr(acc, k))

ShortQuotient(d) ==
  Answer(<<"ShortQuotient", d, DivSmallSigned(acc, d)>>, DivSmall(acc, d))

\* The estimate r comes from the floating-point square root, which need not be
\* near the root; it is clamped to the halves, or to at least one.
Root(r) ==
  /\ IF acc.hi = 0 THEN r < Base ELSE r > 0
  /\ Answer(<<"Root", r>>,
            W(IF acc.hi = 0 THEN Isqrt32(acc.lo, r) ELSE IsqrtBig(acc, r), 0))

ProductModulo(b, m) ==
  /\ Lt(acc, m) /\ Lt(b, m)
  /\ Answer(<<"ProductModulo", b, m>>, MulMod(acc, b, m))

\* By Montgomery multiplication, which wants an odd modulus.
PowerModulo(e, m) ==
  /\ m.lo % 2 = 1 /\ m.hi < Limb \div 2 /\ Lt(acc, m)
  /\ IF m.hi # 0
     THEN Answer(<<"PowerModulo", e, m, MontOk(m)>>, MPow(acc, e, m))
     ELSE /\ e.hi = 0
          /\ Answer(<<"PowerModulo", e, m, Mont32Ok(m.lo)>>,
                    W(MPow32(acc.lo, e.lo, m.lo), 0))

Bytes ==
  Answer(<<"Bytes", ToLe(acc), ToBe(acc), LimbToLe(acc.lo), LimbToBe(acc.lo), Ones(acc)>>,
         acc)

Assembly(bs) ==
  Answer(<<"Assembly", bs, FromLe(bs), FromBe(bs), LimbFromLe(bs), LimbFromBe(bs)>>,
         IF FromLe(bs)[1] = "Some" THEN FromLe(bs)[2] ELSE acc)

\* The bytes of the word with another element in one place, or fewer of them or
\* more.
ByteLists(a) ==
  LET bs == ToLe(a)
  IN {[bs EXCEPT ![i] = b] : i \in DOMAIN bs, b \in Limbs}
     \cup {SubSeq(bs \o bs, 1, k) : k \in 0 .. Len(bs) + 1}

Init == acc = W(0, 0) /\ obs = <<"New">>

Next ==
  \/ Negation \/ Halving \/ Bytes
  \/ \E bs \in ByteLists(acc) : Assembly(bs)
  \/ \E b \in Operands :
       Sum(b) \/ Difference(b) \/ Comparison(b) \/ Product(b) \/ Quotient(b)
  \/ \E k \in 0 .. 2 * LimbBits + 1 : ShiftLeft(k) \/ ShiftRight(k)
  \/ \E d \in 1 .. 2 ^ (LimbBits - DigitBits[1]) : ShortQuotient(d)
  \/ \E r \in 0 .. Top : Root(r)
  \/ \E m \in Moduli, b \in Operands : ProductModulo(b, m) \/ PowerModulo(b, m)

Spec == Init /\ [][Next]_vars

-----------------------------------------------------------------------------
\* The integers that words stand for, unsigned and signed.
V(a) == a.lo + Limb * a.hi

Count == Limb * Limb

Signed(a) == IF V(a) >= Count \div 2 THEN V(a) - Count ELSE V(a)

\* Division towards zero.
Truncated(x, d) == IF x < 0 THEN -((-x) \div d) ELSE x \div d

RECURSIVE Power(_, _, _)
Power(b, e, m) ==
  IF e = 0 THEN 1 % m
  ELSE LET h == Power(b, e \div 2, m)
       IN (((h * h) % m) * (IF e % 2 = 1 THEN b ELSE 1)) % m

\* Are these the n digits of x that bytes are, the low one first?
AreBytes(bs, n, x) ==
  /\ Len(bs) = n /\ \A i \in 1 .. n : bs[i] < ByteBase
  /\ x = S!FoldLeft(+, 0, [i \in 1 .. n |-> bs[i] * ByteBase ^ (i - 1)])

\* Is r the number with these digits, if there is one below limit?
IsAssembly(r, bs, n, limit) ==
  IF r[1] = "Some" THEN AreBytes(bs, n, r[2])
  ELSE \A x \in 0 .. limit - 1 : ~ AreBytes(bs, n, x)

\* Is this call right about the word a, and r its answer?
IsExact(call, a, r) ==
  LET x == V(a)
      y == V(call[2])
      Says(op) == call[1] = op
  IN /\ Says("Sum") => V(r) = (x + y) % Count /\ call[3] = (x + y >= Count)
     /\ Says("Difference") => V(r) = (x - y) % Count
     /\ Says("Negation") => V(r) = (-x) % Count
     /\ Says("Halving") =>
          V(r) = x \div 2 /\ call[2] = Cardinality({i \in 0 .. 2 * LimbBits - 1 : x < 2 ^ i})
     /\ Says("Comparison") =>
          call[3] = (x < y) /\ call[4] = (Signed(a) <= Signed(call[2]))
     /\ Says("Product") =>
          /\ V(r) = (x * y) % Count /\ call[3] = (x * y >= Count)
          /\ V(call[4][1]) + Count * V(call[4][2]) = x * y
     /\ Says("Quotient") => V(r) = x \div y /\ V(call[3]) = x % y
     /\ Says("ShiftLeft") => V(r) = (x * 2 ^ call[2]) % Count
     /\ Says("ShiftRight") =>
          /\ V(r) = x \div 2 ^ call[2]
          /\ V(call[3]) = IF x % 2 ^ call[2] # 0 /\ V(r) % 2 = 0 THEN V(r) + 1 ELSE V(r)
     /\ Says("ShortQuotient") =>
          /\ V(r) = x \div call[2]
          /\ V(call[3]) = Truncated(Signed(a), call[2]) % Count
     /\ Says("Root") => V(r) * V(r) <= x /\ x < (V(r) + 1) * (V(r) + 1)
     /\ Says("ProductModulo") => V(r) = (x * y) % V(call[3])
     /\ Says("Bytes") =>
          /\ AreBytes(call[2], 2 * LimbBytes, x) /\ call[3] = S!Reverse(call[2])
          /\ AreBytes(call[4], LimbBytes, a.lo) /\ call[5] = S!Reverse(call[4])
          /\ call[6] = Cardinality({i \in 0 .. 2 * LimbBits - 1 : (x \div 2 ^ i) % 2 = 1})
     /\ Says("Assembly") =>
          LET Number(w) == IF w[1] = "Some" THEN <<"Some", V(w[2])>> ELSE w
              bs == call[2]
          IN /\ IsAssembly(Number(call[3]), bs, 2 * LimbBytes, Count)
             /\ IsAssembly(Number(call[4]), S!Reverse(bs), 2 * LimbBytes, Count)
             /\ IsAssembly(call[5], bs, LimbBytes, Limb)
             /\ IsAssembly(call[6], S!Reverse(bs), LimbBytes, Limb)
     /\ Says("PowerModulo") => call[4] /\ V(r) = Power(x, y, V(call[3]))

\* Every operation gives what plain integers give, modulo the number of words
\* where it wraps: no carry, borrow or overflow is lost, a quotient digit is
\* corrected whatever its estimate was, a square root is exact from any
\* floating-point estimate, a word is put together from bytes exactly when they
\* are as many as it has and each of them is one, and the test for Montgomery's method never turns
\* down an odd modulus (add_fin, mul32_fin, q_fix, red96, isqrt_newton, redc).
AnswersAreExact == [][IsExact(obs', acc, acc')]_vars
=============================================================================
