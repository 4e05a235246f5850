------------------------------ MODULE IntegerMath ------------------------------
(***************************************************************************)
(* Functions on integers: src/math/generic.bend over unsigned words, with  *)
(* the two kinds of greatest common divisor that its instances choose;     *)
(* what src/math/natural.bend and src/math/number.bend do differently over *)
(* natural numbers; and the families of src/math/fixed.bend.  A word has   *)
(* Width bits, and its sums, products and remainders are exact, which is   *)
(* the business of WideWord.                                               *)
(*                                                                         *)
(* A machine with a register runs the functions one after another.         *)
(***************************************************************************)
EXTENDS Integers, Sequences, FiniteSets

LOCAL INSTANCE SequencesExt

CONSTANTS Width,       \* the bits of a word: 32 or 64 in the program
          Fuel,        \* the steps that any loop may take: 140
          SmallFrom,   \* a gcd of words below SmallBelow is taken on natural
          SmallBelow,  \* numbers if one is SmallFrom: 2^16 and 2^48
          Lists,       \* lists of words
          ModuliOf     \* the moduli of powers

VARIABLES reg,  \* the register
          obs   \* the last call and its answer

vars == <<reg, obs>>

Size == 2 ^ Width

Words == 0 .. Size - 1

IntegerAssumption ==
  /\ Width \in Nat \ {0, 1, 2}
  /\ 32 * Fuel >= 70 * Width
  /\ 0 < SmallFrom /\ SmallFrom <= SmallBelow /\ SmallBelow <= Size
  /\ ModuliOf \subseteq Words /\ \A xs \in Lists : \A i \in DOMAIN xs : xs[i] \in Words

Mul(a, b) == (a * b) % Size

MulOver(a, b) == a * b >= Size

Done(x) == <<"Done", x>>

Checked(fits, x) == IF fits THEN Done(x) ELSE <<"Overflow">>

-----------------------------------------------------------------------------
(* Powers, divisors and lists.                                             *)

\* x^k, low bits first, and whether it fits: the base is squared only while
\* bits remain, so that a square that does not fit is multiplied in.
RECURSIVE PowGo(_, _, _, _, _, _)
PowGo(fuel, k, b, bok, a, ok) ==
  IF fuel = 0 \/ k = 0 THEN [value |-> a, fits |-> ok]
  ELSE LET more == k > 1
           odd == k % 2 = 1
       IN PowGo(fuel - 1, k \div 2,
                IF more THEN Mul(b, b) ELSE b, bok /\ ~ (more /\ MulOver(b, b)),
                IF odd THEN Mul(a, b) ELSE a, ok /\ (odd => bok /\ ~ MulOver(a, b)))

Pow(x, k) == PowGo(1 + k, k, x, TRUE, 1, TRUE)

RECURSIVE Euclid(_, _, _)
Euclid(fuel, a, b) ==
  IF fuel = 0 \/ b = 0 THEN a ELSE Euclid(fuel - 1, b, a % b)

NatGcd(a, b) == Euclid(b, a, b)

\* Without its factors of two.
RECURSIVE StripGo(_, _)
StripGo(fuel, x) ==
  IF fuel = 0 \/ x % 2 = 1 THEN x ELSE StripGo(fuel - 1, x \div 2)

Strip(x) == StripGo(Fuel, x)

Small(a, b) == a < SmallBelow /\ b < SmallBelow /\ a >= SmallFrom

\* The gcd of an odd a and d.
RECURSIVE OddGcd(_, _, _)
OddGcd(fuel, a, d) ==
  IF fuel = 0 \/ d = 0 THEN a
  ELSE IF Small(a, d) THEN NatGcd(a, d)
  ELSE LET b == Strip(d)
       IN IF b < a THEN OddGcd(fuel - 1, b, a - b) ELSE OddGcd(fuel - 1, a, b - a)

RECURSIVE Twos(_, _, _, _)
Twos(fuel, a, b, c) ==
  IF fuel > 0 /\ a % 2 = 0 /\ b % 2 = 0
  THEN Twos(fuel - 1, a \div 2, b \div 2, c + 1)
  ELSE Mul(OddGcd(Fuel, Strip(a), b), 2 ^ c)

\* One step of Euclid's algorithm, then halvings and subtractions only.
BinaryGcd(a, b) ==
  IF b = 0 THEN a ELSE IF a % b = 0 THEN b ELSE Twos(Fuel, b, a % b, 0)

Gcd(fastDiv, a, b) == IF fastDiv THEN Euclid(Fuel, a, b) ELSE BinaryGcd(a, b)

Lcm(fastDiv, a, b) ==
  IF a = 0 \/ b = 0 THEN Done(0)
  ELSE LET q == a \div Gcd(fastDiv, a, b) IN Checked(~ MulOver(q, b), Mul(q, b))

\* Lists, from the left; one that fails stays so.
SumAll(xs) ==
  LET Step(acc, x) == IF acc[1] = "Done" THEN Checked(acc[2] + x < Size, acc[2] + x) ELSE acc
  IN FoldLeft(Step, Done(0), xs)

ProdAll(xs) ==
  LET Step(acc, x) ==
        IF acc[1] = "Done" THEN Checked(~ MulOver(acc[2], x), Mul(acc[2], x)) ELSE acc
  IN FoldLeft(Step, Done(1), xs)

GcdAll(fastDiv, xs) ==
  LET Step(acc, x) == Gcd(fastDiv, acc, x) IN FoldLeft(Step, 0, xs)

LcmAll(fastDiv, xs) ==
  LET Step(acc, x) == IF acc[1] = "Done" THEN Lcm(fastDiv, acc[2], x) ELSE acc
  IN FoldLeft(Step, Done(1), xs)

-----------------------------------------------------------------------------
(* Roots and logarithms.                                                   *)

RECURSIVE BitLengthGo(_, _, _)
BitLengthGo(fuel, n, k) ==
  IF fuel = 0 \/ n = 0 THEN k ELSE BitLengthGo(fuel - 1, n \div 2, k + 1)

BitLength(n) == BitLengthGo(Fuel, n, 0)

\* Of a natural number.
RECURSIVE BitCountGo(_, _, _)
BitCountGo(fuel, n, acc) ==
  IF fuel = 0 \/ n = 0 THEN acc ELSE BitCountGo(fuel - 1, n \div 2, acc + (n % 2))

BitCount(n) == BitCountGo(n, n, 0)

\* r^k <= n: on words a power that does not fit is larger; on natural numbers
\* every multiplication is preceded by a division.
RootLe(n, k, r) == LET p == Pow(r, k) IN p.fits /\ p.value <= n

RECURSIVE PowLeGo(_, _, _, _)
PowLeGo(k, r, acc, n) ==
  k = 0 \/ (acc <= n \div r /\ PowLeGo(k - 1, r, acc * r, n))

NatRootLe(n, k, r) == r = 0 \/ PowLeGo(k, r, 1, n)

\* The last r from lo on below hi with r^k <= n.
RECURSIVE Search(_, _, _, _, _, _)
Search(natural, fuel, n, k, lo, hi) ==
  IF fuel = 0 \/ lo + 1 >= hi THEN lo
  ELSE LET m == lo + (hi - lo) \div 2
           le == IF natural THEN NatRootLe(n, k, m) ELSE RootLe(n, k, m)
       IN IF le THEN Search(natural, fuel - 1, n, k, m, hi)
          ELSE Search(natural, fuel - 1, n, k, lo, m)

Root(natural, n, k) ==
  IF k = 0 THEN <<"BadDomain">>
  ELSE IF k = 1 THEN Done(n)
  ELSE LET hi == 2 ^ (1 + BitLength(n) \div k)
       IN Done(Search(natural, IF natural THEN hi ELSE Fuel, n, k, 0, hi))

\* Heron's iteration while it goes down.
RECURSIVE Heron(_, _, _)
Heron(fuel, n, g) ==
  LET m == (g + n \div g) \div 2
  IN IF fuel = 0 \/ m >= g THEN g ELSE Heron(fuel - 1, n, m)

NatSqrt(n) == LET g == 2 ^ (1 + BitLength(n) \div 2) IN Heron(g, n, g)

RECURSIVE LogGo(_, _, _, _, _)
LogGo(fuel, q, b, k, p) ==
  IF fuel = 0 \/ p > q THEN k ELSE LogGo(fuel - 1, q, b, k + 1, Mul(p, b))

Log(n, b) ==
  IF n = 0 \/ b < 2 THEN <<"BadDomain">> ELSE Done(LogGo(Fuel, n \div b, b, 0, 1))

-----------------------------------------------------------------------------
(* Factorials, permutations and combinations.                              *)

RECURSIVE FactGo(_, _, _, _, _), PermGo(_, _, _, _, _), CombGo(_, _, _, _, _, _, _)
FactGo(fuel, i, n, a, fits) ==
  IF fuel = 0 \/ ~ fits THEN <<"Overflow">>
  ELSE IF i >= n THEN Done(a)
  ELSE FactGo(fuel - 1, i + 1, n, Mul(a, i + 1), ~ MulOver(a, i + 1))

PermGo(fuel, k, m, a, fits) ==
  IF fuel = 0 \/ ~ fits THEN <<"Overflow">>
  ELSE IF k = 0 THEN Done(a)
  ELSE PermGo(fuel - 1, k - 1, m - 1, Mul(a, m), ~ MulOver(a, m))

\* r is n over i; reduced by a gcd, the product is n over i + 1.
CombGo(fastDiv, fuel, n, i, k, r, fits) ==
  IF fuel = 0 \/ ~ fits THEN <<"Overflow">>
  ELSE IF i >= k THEN Done(r)
  ELSE LET g == Gcd(fastDiv, r, i + 1)
           x == r \div g
           y == (n - i) \div ((i + 1) \div g)
       IN CombGo(fastDiv, fuel - 1, n, i + 1, k, Mul(x, y), ~ MulOver(x, y))

Factorial(n) == FactGo(Fuel, 1, n, 1, TRUE)

Perm(n, k) == IF n < k THEN Done(0) ELSE PermGo(Fuel, k, n, 1, TRUE)

Least(a, b) == IF b < a THEN b ELSE a

Comb(fastDiv, n, k) ==
  IF n < k THEN Done(0) ELSE CombGo(fastDiv, Fuel, n, 0, Least(k, n - k), 1, TRUE)

NatComb(n, k) ==
  LET r[i \in Nat] == IF i = 0 THEN 1 ELSE (r[i - 1] * (n - (i - 1))) \div i
  IN IF n < k THEN 0 ELSE r[Least(k, n - k)]

-----------------------------------------------------------------------------
(* Modular arithmetic and primes.                                          *)

RECURSIVE PowModGo(_, _, _, _, _), InvGo(_, _, _, _, _, _), EgcdGo(_, _, _)
PowModGo(fuel, m, b, acc, e) ==
  IF fuel = 0 \/ e = 0 THEN acc
  ELSE PowModGo(fuel - 1, m, (b * b) % m,
                IF e % 2 = 1 THEN (acc * b) % m ELSE acc, e \div 2)

\* For a modulus without a method of the instance's own.
PowMod(b, e, m) ==
  IF m = 0 THEN <<"DivByZero">> ELSE Done(PowModGo(Fuel, m, b % m, 1 % m, e))

\* Euclid's algorithm on m and a, with coefficients of a within 0 .. m - 1.
InvGo(fuel, m, r0, s0, r1, s1) ==
  IF fuel = 0 \/ r1 = 0 THEN <<r0, s0>>
  ELSE LET x == (((r0 \div r1) % m) * s1) % m
       IN InvGo(fuel - 1, m, r1, s1, r0 % r1, IF s0 < x THEN s0 + (m - x) ELSE s0 - x)

ModInverse(a, m) ==
  IF m = 0 THEN <<"DivByZero">>
  ELSE LET r == InvGo(Fuel, m, m, 0, a % m, 1)
       IN IF r[1] = 1 THEN Done(r[2] % m) ELSE <<"NoInverse">>

\* neg says on which side of Bezout's equation the gcd is.
EgcdGo(fuel, a, b) ==
  IF fuel = 0 \/ b = 0 THEN [gcd |-> a, x |-> 1, y |-> 0, neg |-> FALSE]
  ELSE LET r == EgcdGo(fuel - 1, b, a % b)
       IN [gcd |-> r.gcd, x |-> r.y, y |-> r.x + (a \div b) * r.y, neg |-> ~ r.neg]

Egcd(a, b) == EgcdGo(b, a, b)

RECURSIVE PrimeGo(_, _, _), NextPrimeGo(_, _)
PrimeGo(fuel, n, d) ==
  fuel = 0 \/ n < d * d \/ (n % d # 0 /\ PrimeGo(fuel - 1, n, d + 1))

IsPrime(n) == n >= 2 /\ PrimeGo(n, n, 2)

\* The candidates end where they wrap.
NextPrimeGo(fuel, m) ==
  IF fuel = 0 \/ m = 0 THEN <<"None">>
  ELSE IF IsPrime(m) THEN <<"Some", m>>
  ELSE NextPrimeGo(fuel - 1, (m + 1) % Size)

NextPrime(n) == NextPrimeGo((Size - 1 - n) + 1, (n + 1) % Size)

-----------------------------------------------------------------------------
(* The families of fixed widths: wrapped, whether it overflowed, what an   *)
(* overflow saturates to.                                                  *)

Families(wrapped, over, limit) ==
  [wrapping |-> wrapped, overflow |-> over,
   checked |-> IF over THEN <<"None">> ELSE <<"Some", wrapped>>,
   saturating |-> IF over THEN limit ELSE wrapped]

Sums(a, b) == LET s == (a + b) % Size IN Families(s, s < a, Size - 1)

\* The 64-bit difference is a sum.
Differences(a, b) ==
  Families((((a + (Size - 1 - b)) % Size) + 1) % Size, a < b, 0)

Products(a, b) == Families(Mul(a, b), MulOver(a, b), Size - 1)

RECURSIVE WrappingPow(_, _, _, _)
WrappingPow(fuel, e, b, acc) ==
  IF fuel = 0 \/ e = 0 THEN acc
  ELSE WrappingPow(fuel - 1, e \div 2, Mul(b, b), IF e % 2 = 1 THEN Mul(acc, b) ELSE acc)

Powers(a, e) == Families(WrappingPow(Width, e, a, 1), ~ Pow(a, e).fits, Size - 1)

\* By an amount modulo the width; an amount beyond the width overflows.
LeftShifts(a, k) ==
  LET r == Families(Mul(a, 2 ^ (k % Width)), k >= Width, 0)
  IN <<r.wrapping, r.overflow, r.checked>>

RightShifts(a, k) ==
  LET r == Families(a \div 2 ^ (k % Width), k >= Width, 0)
  IN <<r.wrapping, r.overflow, r.checked>>

Clamp(x, lo, hi) ==
  IF hi < lo THEN <<"BadDomain">>
  ELSE Done(Least(IF x < lo THEN lo ELSE x, hi))

DivMod(a, b) == IF b = 0 THEN <<"DivByZero">> ELSE Done(<<a \div b, a % b>>)

-----------------------------------------------------------------------------
\* An answer that is a word comes into the register.
Answer(call, answers, word) ==
  /\ obs' = <<call, answers>>
  /\ reg' = IF word[1] = "Done" THEN word[2] ELSE reg

TakeDivisors(b) ==
  Answer(<<"Divisors", b>>,
         [gcds |-> {Gcd(f, reg, b) : f \in BOOLEAN}, lcms |-> {Lcm(f, reg, b) : f \in BOOLEAN},
          egcd |-> Egcd(reg, b), division |-> DivMod(reg, b)],
         Lcm(FALSE, reg, b))

TakePower(k) ==
  LET p == Pow(reg, k)
  IN Answer(<<"Power", k>>, [power |-> Checked(p.fits, p.value), families |-> Powers(reg, k)],
            Checked(p.fits, p.value))

TakeRoot(k) ==
  Answer(<<"Root", k>>, [roots |-> {Root(natural, reg, k) : natural \in BOOLEAN},
                         sqrt |-> NatSqrt(reg), bits |-> BitLength(reg),
                         ones |-> BitCount(reg)],
         Root(FALSE, reg, k))

TakeLog(b) == Answer(<<"Log", b>>, Log(reg, b), Log(reg, b))

TakeFactorial == Answer(<<"Factorial">>, Factorial(reg), Factorial(reg))

TakePerm(k) == Answer(<<"Perm", k>>, Perm(reg, k), Perm(reg, k))

\* The natural number n over k is to fit its type too.
TakeComb(k) ==
  LET c == Comb(FALSE, reg, k)
  IN Answer(<<"Comb", k>>, {c, Comb(TRUE, reg, k)}
                           \cup IF c[1] = "Done" THEN {Done(NatComb(reg, k))} ELSE {}, c)

TakePowMod(e, m) == Answer(<<"PowMod", e, m>>, PowMod(reg, e, m), PowMod(reg, e, m))

TakeInverse(m) == Answer(<<"Inverse", m>>, ModInverse(reg, m), ModInverse(reg, m))

TakePrime == Answer(<<"Prime">>, <<IsPrime(reg), NextPrime(reg)>>, <<"Done", reg>>)

TakeFamilies(b) ==
  Answer(<<"Families", b>>, <<Sums(reg, b), Differences(reg, b), Products(reg, b)>>,
         Done(Sums(reg, b).wrapping))

TakeShifts(k) ==
  Answer(<<"Shifts", k>>, <<LeftShifts(reg, k), RightShifts(reg, k)>>, <<"None">>)

TakeClamp(lo, hi) == Answer(<<"Clamp", lo, hi>>, Clamp(reg, lo, hi), Clamp(reg, lo, hi))

\* A list that ends with the register.
TakeList(front) ==
  LET xs == Append(front, reg) IN
  Answer(<<"List", xs>>,
         [sum |-> SumAll(xs), prod |-> ProdAll(xs), gcds |-> {GcdAll(f, xs) : f \in BOOLEAN},
          lcms |-> {LcmAll(f, xs) : f \in BOOLEAN}], ProdAll(xs))

Init == reg = 0 /\ obs = << <<"New">>, <<>> >>

Next ==
  \/ TakeFactorial \/ TakePrime
  \/ \E b \in Words :
       \/ TakeDivisors(b) \/ TakeLog(b) \/ TakePerm(b) \/ TakeComb(b)
       \/ TakeInverse(b) \/ TakeFamilies(b)
  \/ \E k \in 0 .. Width + 2 : TakePower(k) \/ TakeRoot(k) \/ TakeShifts(k)
  \/ \E e \in Words, m \in ModuliOf : TakePowMod(e, m)
  \/ \E lo, hi \in ModuliOf : TakeClamp(lo, hi)
  \/ \E xs \in Lists : TakeList(xs)

Spec == Init /\ [][Next]_vars

-----------------------------------------------------------------------------
(* What the functions stand for.  Size is any number that is no word.      *)

Cap(x) == IF x < Size THEN x ELSE Size

Fits(x) == IF x < Size THEN Done(x) ELSE <<"Overflow">>

RECURSIVE PowerOf(_, _), FallingOf(_, _), PowerModulo(_, _, _)
PowerOf(x, k) == IF k = 0 THEN 1 ELSE Cap(x * PowerOf(x, k - 1))

PowerModulo(x, k, m) == IF k = 0 THEN 1 % m ELSE (x * PowerModulo(x, k - 1, m)) % m

FallingOf(n, k) ==
  IF n < k THEN 0 ELSE IF k = 0 THEN 1 ELSE Cap(n * FallingOf(n - 1, k - 1))

Divides(d, n) == IF d = 0 THEN n = 0 ELSE n % d = 0

GcdOf(a, b) ==
  CHOOSE g \in Words :
    /\ Divides(g, a) /\ Divides(g, b)
    /\ \A d \in Words : Divides(d, a) /\ Divides(d, b) => Divides(d, g)

RootOf(n, k) == CHOOSE r \in Words : PowerOf(r, k) <= n /\ n < PowerOf(r + 1, k)

Prime(n) == n > 1 /\ \A d \in 2 .. n - 1 : ~ Divides(d, n)

\* The answers of a family for a number x of which w is the word.
IsFamily(f, x, w) ==
  /\ f.wrapping = w /\ f.overflow = (x \notin Words)
  /\ f.checked = IF x \in Words THEN <<"Some", x>> ELSE <<"None">>
  /\ f.saturating = IF x < 0 THEN 0 ELSE IF x < Size THEN x ELSE Size - 1

IsShift(s, k, w) ==
  s = <<w, k >= Width, IF k < Width THEN <<"Some", w>> ELSE <<"None">> >>

\* The product of a list and its least common multiple overflow if that of a
\* part from the left does.
Parts(xs) == {SubSeq(xs, 1, i) : i \in 0 .. Len(xs)}

Total(xs) == FoldLeft(LAMBDA a, x : a + x, 0, xs)

Product(xs) == FoldLeft(LAMBDA a, x : a * x, 1, xs)

\* n over m is at least 2^m if 2 m <= n.
ChoiceOf(n, k) ==
  LET m == Least(k, n - k)
  IN IF n < k THEN 0
     ELSE IF m >= Width THEN Size
     ELSE Cap(Product([i \in 1 .. m |-> n - m + i]) \div Product([i \in 1 .. m |-> i]))

LcmOf(xs) ==
  LET multiples == {m \in Words \ {0} : \A i \in DOMAIN xs : Divides(xs[i], m)} \cup {Size}
  IN IF \E i \in DOMAIN xs : xs[i] = 0 THEN 0
     ELSE CHOOSE m \in multiples : \A k \in multiples : m <= k

\* Is this call right about the register x?
IsRight(call, answer, x) ==
  LET y == call[2]
      Says(f) == call[1] = f
  IN /\ Says("Divisors") =>
          LET g == GcdOf(x, y)
              e == answer.egcd
          IN /\ answer.gcds = {g}
             /\ answer.lcms = {Fits(LcmOf(<<x, y>>))}
             /\ e.gcd = g
             /\ IF e.neg THEN y * e.y = g + x * e.x ELSE x * e.x = g + y * e.y
             /\ answer.division = IF y = 0 THEN <<"DivByZero">> ELSE Done(<<x \div y, x % y>>)
     /\ Says("Power") =>
          /\ answer.power = Fits(PowerOf(x, y))
          /\ IsFamily(answer.families, PowerOf(x, y), PowerModulo(x, y, Size))
     /\ Says("Root") =>
          /\ answer.roots = {IF y = 0 THEN <<"BadDomain">> ELSE Done(RootOf(x, y))}
          /\ answer.sqrt = RootOf(x, 2)
          /\ answer.bits = Cardinality({i \in 0 .. Width - 1 : 2 ^ i <= x})
          /\ answer.ones = Cardinality({i \in 0 .. Width - 1 : (x \div 2 ^ i) % 2 = 1})
     /\ Says("Log") =>
          answer = IF x = 0 \/ y < 2 THEN <<"BadDomain">>
                   ELSE Done(Cardinality({k \in 1 .. Width : PowerOf(y, k) <= x}))
     /\ Says("Factorial") => answer = Fits(FallingOf(x, x))
     /\ Says("Perm") => answer = Fits(FallingOf(x, y))
     /\ Says("Comb") => answer = {Fits(ChoiceOf(x, y))}
     /\ Says("PowMod") =>
          answer = IF call[3] = 0 THEN <<"DivByZero">> ELSE Done(PowerModulo(x, y, call[3]))
     /\ Says("Inverse") =>
          LET inverses == {i \in 0 .. y - 1 : (i * x) % y = 1 % y}
          IN answer = IF y = 0 THEN <<"DivByZero">>
                      ELSE IF inverses = {} THEN <<"NoInverse">>
                      ELSE Done(CHOOSE i \in inverses : TRUE)
     /\ Says("Prime") =>
          LET later == {p \in x + 1 .. Size - 1 : Prime(p)}
          IN /\ answer[1] = Prime(x)
             /\ answer[2] = IF later = {} THEN <<"None">>
                            ELSE <<"Some", CHOOSE p \in later : \A q \in later : p <= q>>
     /\ Says("Families") =>
          /\ IsFamily(answer[1], x + y, (x + y) % Size)
          /\ IsFamily(answer[2], x - y, (x - y) % Size)
          /\ IsFamily(answer[3], x * y, (x * y) % Size)
     /\ Says("Shifts") =>
          /\ IsShift(answer[1], y, (x * 2 ^ (y % Width)) % Size)
          /\ IsShift(answer[2], y, x \div 2 ^ (y % Width))
     /\ Says("Clamp") =>
          \/ call[3] < y /\ answer = <<"BadDomain">>
          \/ /\ y <= call[3]
             /\ \E r \in y .. call[3] :
                  /\ answer = Done(r)
                  /\ \A s \in y .. call[3] : (x - r) * (x - r) <= (x - s) * (x - s)
     /\ Says("List") =>
          LET some(op) == \E p \in Parts(y) : op[p] >= Size
          IN /\ answer.sum = Fits(Total(y))
             /\ answer.prod = IF some([p \in Parts(y) |-> Product(p)])
                              THEN <<"Overflow">> ELSE Done(Product(y))
             /\ Cardinality(answer.gcds) = 1
             /\ \A g \in answer.gcds :
                  /\ \A i \in DOMAIN y : Divides(g, y[i])
                  /\ \A d \in Words : (\A i \in DOMAIN y : Divides(d, y[i])) => Divides(d, g)
             /\ answer.lcms = {IF some([p \in Parts(y) |-> LcmOf(p)])
                               THEN <<"Overflow">> ELSE Done(LcmOf(y))}

\* Every function gives what the mathematics says, and an overflow only if the
\* result does not fit (of a list, that of a part): no loop runs out of fuel,
\* the root is in the interval that is searched, and reducing, halving or
\* squaring first never changes the result (pow_go, gcd_bin, comb_next,
\* search_go, inv_go, fixed.bend's families).
FunctionsAreExact == [][IsRight(obs'[1], obs'[2], reg)]_vars
=============================================================================
