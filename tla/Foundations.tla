----------------------------- MODULE Foundations -----------------------------
(***************************************************************************)
(* What the proofs of the components need of numbers and sequences:        *)
(* induction, functions defined by recursion and powers of two, stated     *)
(* about sets and functions, so that a proof can cite them without giving  *)
(* a predicate for a parameter; and what editing a sequence does.          *)
(***************************************************************************)
EXTENDS Integers, Sequences, FiniteSets, FiniteSetTheorems, WellFoundedInduction, TLAPS

Smaller == OpToRel(<, Nat)

LEMMA SmallerIsWellFounded == IsWellFoundedOn(Smaller, Nat)
  BY NatLessThanWellFounded DEF OpToRel, Smaller

LEMMA SmallerPairs == \A m, n \in Nat : <<m, n>> \in Smaller <=> m < n
  BY DEF OpToRel, Smaller

(* A set of numbers that is not empty has a least one.                     *)
LEMMA LeastNumber ==
  ASSUME NEW T, T \subseteq Nat, T # {}
  PROVE  \E m \in T : \A n \in T : m <= n
<1>1. PICK m \in T : \A n \in T : ~ (<<n, m>> \in Smaller)
  BY SmallerIsWellFounded, WFMin
<1>2. \A n \in T : ~ (n < m)
  BY <1>1, SmallerPairs
<1> QED BY <1>2

(* Induction: a set with 0 and with every number's successor has them all. *)
LEMMA SetInduction ==
  ASSUME NEW S, 0 \in S, \A n \in Nat : n \in S => n + 1 \in S
  PROVE  \A n \in Nat : n \in S
<1> SUFFICES ASSUME Nat \ S # {} PROVE FALSE
  OBVIOUS
<1>1. PICK m \in Nat \ S : \A n \in Nat \ S : m <= n
  BY LeastNumber
<1>2. m # 0 /\ m - 1 \in Nat
  BY <1>1
<1>3. m - 1 \in S
  BY <1>1, <1>2
<1>4. (m - 1) + 1 \in S
  BY <1>2, <1>3
<1> QED BY <1>1, <1>4

(* The same up to a bound.                                                 *)
LEMMA BoundedInduction ==
  ASSUME NEW m \in Nat, NEW S, 0 \in S, \A n \in 0 .. m - 1 : n \in S => n + 1 \in S
  PROVE  \A n \in 0 .. m : n \in S
<1> DEFINE T == {n \in Nat : n <= m => n \in S}
<1>1. 0 \in T
  OBVIOUS
<1>2. \A n \in Nat : n \in T => n + 1 \in T
  OBVIOUS
<1> HIDE DEF T
<1>3. \A n \in Nat : n \in T
  BY <1>1, <1>2, SetInduction
<1> QED BY <1>3 DEF T

-----------------------------------------------------------------------------
(* Functions defined by recursion.                                         *)

\* f starts with base and goes on by step, up to m.
Runs(m, D, base, step, f) ==
  /\ f \in [0 .. m -> D]
  /\ f[0] = base
  /\ \A k \in 0 .. m - 1 : f[k + 1] = step[<<k, f[k]>>]

(* Such a function exists.                                                 *)
LEMMA RunExists ==
  ASSUME NEW m \in Nat, NEW D, NEW base \in D, NEW step \in [(0 .. m - 1) \X D -> D]
  PROVE  \E f : Runs(m, D, base, step, f)
<1> DEFINE S == {n \in 0 .. m : \E f : Runs(n, D, base, step, f)}
<1>1. 0 \in S
  <2> DEFINE f == [k \in 0 .. 0 |-> base]
  <2>1. Runs(0, D, base, step, f)
    BY DEF Runs
  <2> QED BY <2>1
<1>2. ASSUME NEW n \in 0 .. m - 1, n \in S PROVE n + 1 \in S
  <2>1. PICK f : Runs(n, D, base, step, f)
    BY <1>2
  <2> DEFINE g == [k \in 0 .. n + 1 |-> IF k <= n THEN f[k] ELSE step[<<n, f[n]>>]]
  <2>2. f[n] \in D /\ step[<<n, f[n]>>] \in D /\ f[0] = base
    BY <2>1 DEF Runs
  <2>3. g \in [0 .. n + 1 -> D]
    BY <2>1, <2>2 DEF Runs
  <2>4. g[0] = base
    BY <2>2
  <2>5. ASSUME NEW k \in 0 .. (n + 1) - 1 PROVE g[k + 1] = step[<<k, g[k]>>]
    <3>1. CASE k = n
      BY <3>1
    <3>2. CASE k # n
      <4>1. k \in 0 .. n - 1 /\ g[k + 1] = f[k + 1] /\ g[k] = f[k]
        BY <3>2
      <4> QED BY <4>1, <2>1 DEF Runs
    <3> QED BY <3>1, <3>2
  <2> HIDE DEF g
  <2>6. Runs(n + 1, D, base, step, g)
    BY <2>3, <2>4, <2>5 DEF Runs
  <2> QED BY <2>6
<1> HIDE DEF S
<1>3. \A n \in 0 .. m : n \in S
  BY <1>1, <1>2, BoundedInduction
<1> QED BY <1>3 DEF S

-----------------------------------------------------------------------------
(* Powers of two.                                                          *)

(* Counting the subsets of a set with one element more gives the power     *)
(* after a power.                                                          *)
LEMMA PowerOfTwo ==
  /\ 2 ^ 0 = 1
  /\ \A n \in Nat : 2 ^ n \in Nat \ {0} /\ 2 ^ (n + 1) = 2 * 2 ^ n
<1>1. ASSUME NEW n \in Nat PROVE IsFiniteSet(1 .. n) /\ Cardinality(1 .. n) = n
  <2>1. Cardinality(1 .. n) = IF 1 > n THEN 0 ELSE n - 1 + 1
    BY FS_Interval
  <2>2. IsFiniteSet(1 .. n)
    BY FS_Interval
  <2> QED BY <2>1, <2>2
<1>2. ASSUME NEW n \in Nat
      PROVE  /\ IsFiniteSet(SUBSET (1 .. n)) /\ Cardinality(SUBSET (1 .. n)) = 2 ^ n
             /\ 2 ^ n \in Nat
  <2>1. IsFiniteSet(SUBSET (1 .. n)) /\ Cardinality(SUBSET (1 .. n)) = 2 ^ Cardinality(1 .. n)
    BY <1>1, FS_SUBSET
  <2> QED BY <2>1, <1>1, FS_CardinalityType
<1>3. ASSUME NEW n \in Nat PROVE 2 ^ n # 0
  <2>1. SUBSET (1 .. n) # {}
    OBVIOUS
  <2> QED BY <2>1, <1>2, FS_EmptySet
<1>4. ASSUME NEW n \in Nat, NEW m \in Nat, m = n + 1 PROVE 2 ^ m = 2 * 2 ^ n
  <2> DEFINE A == SUBSET (1 .. n)
             B == {T \cup {m} : T \in A}
             f == [T \in A |-> T \cup {m}]
  <2>1. 1 .. m = (1 .. n) \cup {m} /\ m \notin 1 .. n
    BY <1>4
  <2>2. SUBSET (1 .. m) = A \cup B
    <3>1. ASSUME NEW U \in SUBSET (1 .. m), m \in U PROVE U \in B
      <4>1. U \ {m} \in A /\ U = (U \ {m}) \cup {m}
        BY <2>1, <3>1
      <4> QED BY <4>1
    <3>2. ASSUME NEW U \in SUBSET (1 .. m), m \notin U PROVE U \in A
      BY <2>1, <3>2
    <3>3. A \cup B \subseteq SUBSET (1 .. m)
      BY <2>1
    <3> QED BY <3>1, <3>2, <3>3
  <2>3. A \cap B = {}
    BY <2>1
  <2>4. f \in Bijection(A, B)
    <3>1. \A T, U \in A : T \cup {m} = U \cup {m} => T = U
      BY <2>1
    <3>2. \A T \in A : f[T] = T \cup {m}
      OBVIOUS
    <3>3. f \in [A -> B] /\ \A U \in B : \E T \in A : U = T \cup {m}
      OBVIOUS
    <3> HIDE DEF A, B, f
    <3>4. \A T, U \in A : f[T] = f[U] => T = U
      BY <3>1, <3>2
    <3>5. \A U \in B : \E T \in A : f[T] = U
      BY <3>2, <3>3
    <3> QED BY <3>3, <3>4, <3>5 DEF Bijection, Injection, Surjection, IsInjective
  <2> HIDE DEF A, B, f
  <2>5. IsFiniteSet(A) /\ Cardinality(A) = 2 ^ n /\ 2 ^ n \in Nat
    BY <1>2 DEF A
  <2>6. IsFiniteSet(B) /\ Cardinality(B) = Cardinality(A)
    BY <2>4, <2>5, FS_Bijection DEF ExistsBijection
  <2>7. Cardinality(A \cap B) = 0
    BY <2>3, FS_EmptySet
  <2>8. Cardinality(A \cup B) = Cardinality(A) + Cardinality(B) - Cardinality(A \cap B)
    BY <2>5, <2>6, FS_Union
  <2>9. 2 ^ m = Cardinality(SUBSET (1 .. m))
    BY <1>2
  <2>10. \A p, q \in Nat : q = p + p - 0 => q = 2 * p
    OBVIOUS
  <2>11. 2 ^ m = 2 ^ n + 2 ^ n - 0
    BY <2>2, <2>5, <2>6, <2>7, <2>8, <2>9
  <2>12. 2 ^ m \in Nat
    BY <1>2
  <2> QED BY <2>5, <2>10, <2>11, <2>12
<1>5. 2 ^ 0 = 1
  OBVIOUS
<1>6. ASSUME NEW n \in Nat PROVE 2 ^ (n + 1) = 2 * 2 ^ n
  <2>1. n + 1 \in Nat
    OBVIOUS
  <2> QED BY <2>1, <1>4
<1> QED BY <1>2, <1>3, <1>5, <1>6

-----------------------------------------------------------------------------
(* Sequences edited at one position.                                       *)

(* Sequences of the same length and elements are equal.                    *)
LEMMA SameElements ==
  ASSUME NEW D, NEW s \in Seq(D), NEW t \in Seq(D), Len(s) = Len(t),
         \A j \in 1 .. Len(s) : s[j] = t[j]
  PROVE  s = t
  OBVIOUS

(* A sequence with an element more at position k.                          *)
LEMMA InsertedSequence ==
  ASSUME NEW D, NEW s \in Seq(D), NEW t \in Seq(D), Len(t) = Len(s) + 1,
         NEW k \in 1 .. Len(s) + 1, NEW x \in D,
         \A j \in 1 .. k - 1 : t[j] = s[j],
         t[k] = x,
         \A j \in k .. Len(s) : t[j + 1] = s[j]
  PROVE  t = SubSeq(s, 1, k - 1) \o <<x>> \o SubSeq(s, k, Len(s))
<1> DEFINE n == Len(s)
           a == SubSeq(s, 1, k - 1)
           b == SubSeq(s, k, n)
           u == a \o <<x>>
<1>1. a \in Seq(D) /\ Len(a) = k - 1 /\ \A j \in 1 .. k - 1 : a[j] = s[j]
  OBVIOUS
<1>2. b \in Seq(D) /\ Len(b) = n - k + 1 /\ \A j \in 1 .. n - k + 1 : b[j] = s[k + j - 1]
  OBVIOUS
<1>3. n \in Nat /\ k \in 1 .. n + 1 /\ <<x>> \in Seq(D)
  OBVIOUS
<1> HIDE DEF a, b, n
<1>4. u \in Seq(D) /\ Len(u) = k /\ u[k] = x /\ \A j \in 1 .. k - 1 : u[j] = s[j]
  BY <1>1
<1> HIDE DEF u
<1>5. u \o b \in Seq(D) /\ Len(u \o b) = n + 1
  BY <1>2, <1>3, <1>4 DEF n
<1>6. ASSUME NEW j \in 1 .. n + 1 PROVE (u \o b)[j] = t[j]
  <2>1. CASE j <= k
    <3>1. (u \o b)[j] = u[j]
      BY <2>1, <1>2, <1>3, <1>4 DEF n
    <3> QED BY <2>1, <3>1, <1>3, <1>4 DEF n
  <2>2. CASE j > k
    <3>1. (u \o b)[j] = b[j - k]
      BY <2>2, <1>2, <1>3, <1>4 DEF n
    <3>2. j - k \in 1 .. n - k + 1 /\ k + (j - k) - 1 = j - 1
          /\ j - 1 \in k .. n /\ j - 1 + 1 = j
      BY <2>2, <1>3
    <3>3. b[j - k] = s[j - 1]
      BY <3>2, <1>2
    <3>4. t[j - 1 + 1] = s[j - 1]
      BY <3>2 DEF n
    <3> QED BY <3>1, <3>2, <3>3, <3>4
  <2>3. j <= k \/ j > k
    BY <1>3
  <2> QED BY <2>1, <2>2, <2>3
<1>7. u \o b = t
  BY <1>5, <1>6, SameElements DEF n
<1> QED BY <1>7 DEF u, a, b, n

(* A sequence without its element at position k.                           *)
LEMMA RemovedSequence ==
  ASSUME NEW D, NEW s \in Seq(D), NEW t \in Seq(D), Len(t) = Len(s) - 1,
         NEW k \in 1 .. Len(s),
         \A j \in 1 .. k - 1 : t[j] = s[j],
         \A j \in k .. Len(s) - 1 : t[j] = s[j + 1]
  PROVE  t = SubSeq(s, 1, k - 1) \o SubSeq(s, k + 1, Len(s))
<1> DEFINE n == Len(s)
           a == SubSeq(s, 1, k - 1)
           b == SubSeq(s, k + 1, n)
<1>1. a \in Seq(D) /\ Len(a) = k - 1 /\ \A j \in 1 .. k - 1 : a[j] = s[j]
  OBVIOUS
<1>2. b \in Seq(D) /\ Len(b) = n - k /\ \A j \in 1 .. n - k : b[j] = s[k + j]
  <2>1. b \in Seq(D) /\ Len(b) = IF k + 1 <= n THEN n - (k + 1) + 1 ELSE 0
    OBVIOUS
  <2>2. \A j \in 1 .. n - (k + 1) + 1 : b[j] = s[k + 1 + j - 1]
    OBVIOUS
  <2>3. \A j \in Int : k + 1 + j - 1 = k + j
    OBVIOUS
  <2>4. n - (k + 1) + 1 = n - k /\ (~ (k + 1 <= n) => n - k = 0)
    OBVIOUS
  <2> QED BY <2>1, <2>2, <2>3, <2>4
<1>3. n \in Nat /\ k \in 1 .. n
  OBVIOUS
<1> HIDE DEF a, b, n
<1>5. a \o b \in Seq(D) /\ Len(a \o b) = n - 1
  <2>1. a \in Seq(D) /\ b \in Seq(D)
    BY <1>1, <1>2
  <2>2. a \o b \in Seq(D)
    BY <2>1
  <2>3. Len(a \o b) = Len(a) + Len(b)
    BY <2>1
  <2> QED BY <2>2, <2>3, <1>1, <1>2, <1>3
<1>6. ASSUME NEW j \in 1 .. n - 1 PROVE (a \o b)[j] = t[j]
  <2>1. CASE j < k
    <3>1. (a \o b)[j] = a[j]
      BY <2>1, <1>1, <1>2, <1>3 DEF n
    <3> QED BY <2>1, <3>1, <1>1, <1>3 DEF n
  <2>2. CASE j >= k
    <3>1. (a \o b)[j] = b[j - (k - 1)]
      BY <2>2, <1>1, <1>2, <1>3 DEF n
    <3>2. j - (k - 1) \in 1 .. n - k /\ k + (j - (k - 1)) = j + 1 /\ j \in k .. n - 1
      BY <2>2, <1>3
    <3>3. b[j - (k - 1)] = s[j + 1]
      BY <3>2, <1>2
    <3>4. t[j] = s[j + 1]
      BY <3>2 DEF n
    <3> QED BY <3>1, <3>3, <3>4
  <2>3. j < k \/ j >= k
    BY <1>3
  <2> QED BY <2>1, <2>2, <2>3
<1>7. a \o b = t
  BY <1>5, <1>6, SameElements DEF n
<1> QED BY <1>7 DEF a, b, n

-----------------------------------------------------------------------------
(* Sequences that are joined, split and turned round.                      *)

Turn(s) == [i \in 1 .. Len(s) |-> s[Len(s) - i + 1]]

(* A sequence turned round has the same elements.                          *)
LEMMA TurnSequence ==
  ASSUME NEW V, NEW s \in Seq(V)
  PROVE  /\ Turn(s) \in Seq(V) /\ Len(Turn(s)) = Len(s)
         /\ \A i \in 1 .. Len(s) : Turn(s)[i] = s[Len(s) - i + 1]
<1>1. \A i \in 1 .. Len(s) : s[Len(s) - i + 1] \in V
  OBVIOUS
<1>2. Turn(s) \in [1 .. Len(s) -> V]
  BY <1>1 DEF Turn
<1> QED BY <1>2 DEF Turn

(* Joining two sequences.                                                  *)
LEMMA Joined ==
  ASSUME NEW V, NEW s \in Seq(V), NEW t \in Seq(V)
  PROVE  /\ s \o t \in Seq(V) /\ Len(s \o t) = Len(s) + Len(t)
         /\ \A i \in 1 .. Len(s) : (s \o t)[i] = s[i]
         /\ \A i \in 1 .. Len(t) : (s \o t)[Len(s) + i] = t[i]
  OBVIOUS

(* A sequence is the join of two when it has their elements.               *)
LEMMA JoinIs ==
  ASSUME NEW V, NEW a \in Seq(V), NEW b \in Seq(V), NEW u \in Seq(V),
         Len(u) = Len(a) + Len(b),
         \A i \in 1 .. Len(a) : u[i] = a[i],
         \A i \in 1 .. Len(b) : u[Len(a) + i] = b[i]
  PROVE  u = a \o b
<1>1. a \o b \in Seq(V) /\ Len(a \o b) = Len(u)
  OBVIOUS
<1>2. ASSUME NEW i \in 1 .. Len(u) PROVE u[i] = (a \o b)[i]
  <2>1. CASE i <= Len(a)
    BY <2>1
  <2>2. CASE i > Len(a)
    <3>1. i - Len(a) \in 1 .. Len(b) /\ Len(a) + (i - Len(a)) = i
      BY <2>2
    <3>2. u[i] = b[i - Len(a)]
      BY <3>1
    <3>3. (a \o b)[i] = b[i - Len(a)]
      BY <3>1, <2>2
    <3> QED BY <3>2, <3>3
  <2>3. i <= Len(a) \/ i > Len(a)
    OBVIOUS
  <2> QED BY <2>1, <2>2, <2>3
<1> QED BY <1>1, <1>2, SameElements

LEMMA JoinAssociative ==
  ASSUME NEW V, NEW s \in Seq(V), NEW t \in Seq(V), NEW u \in Seq(V)
  PROVE  (s \o t) \o u = s \o (t \o u)
  OBVIOUS

LEMMA JoinedWithEmpty ==
  ASSUME NEW V, NEW s \in Seq(V)
  PROVE  /\ <<>> \o s = s /\ s \o <<>> = s
         /\ Turn(<<>>) = <<>>
         /\ Len(s) = 0 <=> s = <<>>
  BY DEF Turn

(* The parts of a sequence make it up again.                               *)
LEMMA SplitSequence ==
  ASSUME NEW V, NEW s \in Seq(V), NEW h \in 0 .. Len(s)
  PROVE  /\ SubSeq(s, 1, h) \in Seq(V) /\ Len(SubSeq(s, 1, h)) = h
         /\ SubSeq(s, h + 1, Len(s)) \in Seq(V)
         /\ Len(SubSeq(s, h + 1, Len(s))) = Len(s) - h
         /\ SubSeq(s, 1, h) \o SubSeq(s, h + 1, Len(s)) = s
<1>1. PICK a : a = SubSeq(s, 1, h)
  OBVIOUS
<1>2. PICK b : b = SubSeq(s, h + 1, Len(s))
  OBVIOUS
<1>3. a \in Seq(V) /\ Len(a) = h /\ \A i \in 1 .. h : a[i] = s[i]
  BY <1>1
<1>4. b \in Seq(V) /\ Len(b) = Len(s) - h
  BY <1>2
<1>5. \A i \in 1 .. Len(s) - h : b[i] = s[h + i]
  <2>1. \A i \in 1 .. Len(s) - (h + 1) + 1 : b[i] = s[h + 1 + i - 1]
    BY <1>2
  <2>2. \A i \in Int : h + 1 + i - 1 = h + i
    OBVIOUS
  <2> QED BY <2>1, <2>2
<1>6. s = a \o b
  <2>1. Len(s) = Len(a) + Len(b) /\ Len(a) = h
    BY <1>3, <1>4
  <2>2. \A i \in 1 .. Len(b) : s[Len(a) + i] = b[i]
    BY <1>3, <1>4, <1>5
  <2> QED BY <1>3, <1>4, <2>1, <2>2, JoinIs
<1> QED BY <1>1, <1>2, <1>3, <1>4, <1>6

(* Turning a join round joins the other way.                               *)
LEMMA TurnOfJoin ==
  ASSUME NEW V, NEW s \in Seq(V), NEW t \in Seq(V)
  PROVE  Turn(s \o t) = Turn(t) \o Turn(s)
<1>1. PICK u : u = s \o t
  OBVIOUS
<1>2. PICK w : w = Turn(u)
  OBVIOUS
<1>3. PICK a : a = Turn(t)
  OBVIOUS
<1>4. PICK b : b = Turn(s)
  OBVIOUS
<1>5. PICK m \in Nat, n \in Nat : m = Len(s) /\ n = Len(t)
  OBVIOUS
<1>6. u \in Seq(V) /\ Len(u) = m + n
      /\ (\A i \in 1 .. m : u[i] = s[i]) /\ \A i \in 1 .. n : u[m + i] = t[i]
  BY <1>1, <1>5, Joined
<1>7. a \in Seq(V) /\ Len(a) = n /\ \A i \in 1 .. n : a[i] = t[n - i + 1]
  BY <1>3, <1>5, TurnSequence
<1>8. b \in Seq(V) /\ Len(b) = m /\ \A i \in 1 .. m : b[i] = s[m - i + 1]
  BY <1>4, <1>5, TurnSequence
<1>9. w \in Seq(V) /\ Len(w) = m + n /\ \A i \in 1 .. m + n : w[i] = u[m + n - i + 1]
  BY <1>2, <1>6, TurnSequence
<1>10. ASSUME NEW i \in 1 .. n PROVE w[i] = a[i]
  <2>1. n - i + 1 \in 1 .. n /\ m + (n - i + 1) = m + n - i + 1 /\ i \in 1 .. m + n
    OBVIOUS
  <2>2. u[m + (n - i + 1)] = t[n - i + 1]
    BY <2>1, <1>6
  <2> QED BY <2>1, <2>2, <1>7, <1>9
<1>11. ASSUME NEW i \in 1 .. m PROVE w[n + i] = b[i]
  <2>1. m - i + 1 \in 1 .. m /\ m + n - (n + i) + 1 = m - i + 1 /\ n + i \in 1 .. m + n
    OBVIOUS
  <2>2. u[m - i + 1] = s[m - i + 1]
    BY <2>1, <1>6
  <2> QED BY <2>1, <2>2, <1>8, <1>9
<1>12. Len(w) = Len(a) + Len(b)
  BY <1>7, <1>8, <1>9
<1>13. w = a \o b
  BY <1>7, <1>8, <1>9, <1>10, <1>11, <1>12, JoinIs
<1> QED BY <1>1, <1>2, <1>3, <1>4, <1>13

LEMMA TurnedTwice ==
  ASSUME NEW V, NEW s \in Seq(V)
  PROVE  Turn(Turn(s)) = s
<1>1. Turn(s) \in Seq(V) /\ Len(Turn(s)) = Len(s)
      /\ \A i \in 1 .. Len(s) : Turn(s)[i] = s[Len(s) - i + 1]
  BY TurnSequence
<1>2. Turn(Turn(s)) \in Seq(V) /\ Len(Turn(Turn(s))) = Len(s)
      /\ \A i \in 1 .. Len(s) : Turn(Turn(s))[i] = Turn(s)[Len(s) - i + 1]
  BY <1>1, TurnSequence
<1>3. ASSUME NEW i \in 1 .. Len(s) PROVE Turn(Turn(s))[i] = s[i]
  <2>1. Len(s) - i + 1 \in 1 .. Len(s) /\ Len(s) - (Len(s) - i + 1) + 1 = i
    OBVIOUS
  <2> QED BY <2>1, <1>1, <1>2
<1> QED BY <1>2, <1>3, SameElements

(* The element put in front is the last one after turning round.           *)
LEMMA TurnOfFirst ==
  ASSUME NEW V, NEW s \in Seq(V), NEW x \in V
  PROVE  /\ <<x>> \o s \in Seq(V) /\ Len(<<x>> \o s) = Len(s) + 1
         /\ Turn(<<x>> \o s) = Append(Turn(s), x)
<1>1. <<x>> \in Seq(V) /\ Turn(<<x>>) = <<x>>
  BY DEF Turn
<1>2. Turn(<<x>> \o s) = Turn(s) \o <<x>>
  BY <1>1, TurnOfJoin
<1>3. Turn(s) \in Seq(V)
  BY TurnSequence
<1>4. Turn(s) \o <<x>> = Append(Turn(s), x)
  BY <1>3
<1>5. <<x>> \o s \in Seq(V) /\ Len(<<x>> \o s) = Len(s) + 1
  OBVIOUS
<1> QED BY <1>2, <1>4, <1>5

(* A sequence that is not empty is its first element and the others.       *)
LEMMA FirstAndRest ==
  ASSUME NEW V, NEW s \in Seq(V), s # <<>>
  PROVE  /\ s[1] \in V /\ Tail(s) \in Seq(V) /\ Len(Tail(s)) = Len(s) - 1
         /\ Len(s) > 0 /\ s = <<s[1]>> \o Tail(s)
  OBVIOUS

LEMMA TailOfJoin ==
  ASSUME NEW V, NEW s \in Seq(V), NEW t \in Seq(V), s # <<>>
  PROVE  /\ s \o t # <<>> /\ (s \o t)[1] = s[1]
         /\ Tail(s \o t) = Tail(s) \o t
  OBVIOUS

LEMMA LastOfAppended ==
  ASSUME NEW V, NEW s \in Seq(V), NEW x \in V
  PROVE  /\ Append(s, x) \in Seq(V) /\ Append(s, x) # <<>>
         /\ Append(s, x)[Len(Append(s, x))] = x
         /\ SubSeq(Append(s, x), 1, Len(Append(s, x)) - 1) = s
  OBVIOUS

LEMMA AppendToJoin ==
  ASSUME NEW V, NEW s \in Seq(V), NEW t \in Seq(V), NEW x \in V
  PROVE  s \o Append(t, x) = Append(s \o t, x)
  OBVIOUS

-----------------------------------------------------------------------------
(* Joining many.                                                          *)

\* The members of Lists are sequences that can be joined.
Joinable(Lists) ==
  /\ <<>> \in Lists
  /\ \A s, t \in Lists : s \o t \in Lists
  /\ \A s \in Lists : <<>> \o s = s /\ s \o <<>> = s
  /\ \A s, t, u \in Lists : (s \o t) \o u = s \o (t \o u)

LEMMA SequencesJoin == \A V : Joinable(Seq(V))
<1> SUFFICES ASSUME NEW V PROVE Joinable(Seq(V))
  OBVIOUS
<1>1. \A s, t \in Seq(V) : s \o t \in Seq(V)
  BY Joined
<1>2. \A s \in Seq(V) : <<>> \o s = s /\ s \o <<>> = s
  BY JoinedWithEmpty
<1>3. \A s, t, u \in Seq(V) : (s \o t) \o u = s \o (t \o u)
  BY JoinAssociative
<1> QED BY <1>1, <1>2, <1>3 DEF Joinable

\* g[k] is the first k of them joined.
JoinedUpTo(Lists, ss, g) ==
  /\ g \in [0 .. Len(ss) -> Lists]
  /\ g[0] = <<>>
  /\ \A k \in 0 .. Len(ss) - 1 : g[k + 1] = g[k] \o ss[k + 1]

LEMMA JoinedUpToExists ==
  ASSUME NEW Lists, Joinable(Lists), NEW ss \in Seq(Lists)
  PROVE  \E g : JoinedUpTo(Lists, ss, g)
<1>1. PICK n \in Nat : n = Len(ss)
  OBVIOUS
<1> DEFINE step == [p \in (0 .. n - 1) \X Lists |-> p[2] \o ss[p[1] + 1]]
<1>3. \A k \in 0 .. n - 1 : k + 1 \in 1 .. n
  OBVIOUS
<1>4. ASSUME NEW k \in 0 .. n - 1, NEW s \in Lists PROVE s \o ss[k + 1] \in Lists
  <2>1. ss[k + 1] \in Lists
    BY <1>1, <1>3
  <2> QED BY <2>1 DEF Joinable
<1>5. step \in [(0 .. n - 1) \X Lists -> Lists]
  <2> SUFFICES ASSUME NEW p \in (0 .. n - 1) \X Lists PROVE p[2] \o ss[p[1] + 1] \in Lists
    OBVIOUS
  <2>1. PICK k \in 0 .. n - 1, s \in Lists : p = <<k, s>>
    OBVIOUS
  <2>2. p[1] = k /\ p[2] = s
    BY <2>1
  <2> QED BY <2>2, <1>4
<1>6. <<>> \in Lists
  BY DEF Joinable
<1>7. \A k \in 0 .. n - 1, s \in Lists : step[<<k, s>>] = s \o ss[k + 1]
  OBVIOUS
<1> HIDE DEF step
<1>8. PICK g : Runs(n, Lists, <<>>, step, g)
  BY <1>5, <1>6, RunExists
<1>9. g \in [0 .. n -> Lists] /\ g[0] = <<>> /\ \A k \in 0 .. n - 1 : g[k + 1] = step[<<k, g[k]>>]
  BY <1>8 DEF Runs
<1>10. \A k \in 0 .. n - 1 : k \in 0 .. n /\ g[k] \in Lists
  BY <1>9
<1>11. \A k \in 0 .. n - 1 : g[k + 1] = g[k] \o ss[k + 1]
  BY <1>7, <1>9, <1>10
<1> QED BY <1>1, <1>9, <1>11 DEF JoinedUpTo

-----------------------------------------------------------------------------
(* More on powers, products and sums.                                      *)

LEMMA PowerAdds ==
  ASSUME NEW m \in Nat, NEW n \in Nat
  PROVE  2 ^ (m + n) = 2 ^ m * 2 ^ n
<1> DEFINE Good == {k \in Nat : 2 ^ (m + k) = 2 ^ m * 2 ^ k}
<1>1. 0 \in Good
  BY PowerOfTwo
<1>2. ASSUME NEW k \in Nat, k \in Good PROVE k + 1 \in Good
  <2>1. PICK x \in Nat, y \in Nat : x = 2 ^ m /\ y = 2 ^ k
    BY PowerOfTwo
  <2>2. 2 ^ (m + k) = x * y
    BY <1>2, <2>1
  <2>3. 2 ^ ((m + k) + 1) = 2 * (x * y) /\ 2 ^ (k + 1) = 2 * y
    BY <2>1, <2>2, PowerOfTwo
  <2>4. m + (k + 1) = (m + k) + 1 /\ x * (2 * y) = 2 * (x * y)
    OBVIOUS
  <2> QED BY <2>1, <2>3, <2>4
<1> HIDE DEF Good
<1>3. n \in Good
  BY <1>1, <1>2, SetInduction
<1> QED BY <1>3 DEF Good

LEMMA PowerGrows ==
  ASSUME NEW m \in Nat, NEW n \in Nat
  PROVE  /\ m <= n => 2 ^ m <= 2 ^ n
         /\ n < 2 ^ n
<1> DEFINE Good == {k \in Nat : 2 ^ m <= 2 ^ (m + k)}
           T == {k \in Nat : k < 2 ^ k}
<1>1. 0 \in Good /\ 0 \in T
  BY PowerOfTwo
<1>2. ASSUME NEW k \in Nat, k \in Good PROVE k + 1 \in Good
  <2>1. PICK x \in Nat, y \in Nat : x = 2 ^ m /\ y = 2 ^ (m + k) /\ 2 ^ ((m + k) + 1) = 2 * y
    BY PowerOfTwo
  <2>2. x <= y /\ m + (k + 1) = (m + k) + 1
    BY <1>2, <2>1
  <2> QED BY <2>1, <2>2
<1>3. ASSUME NEW k \in Nat, k \in T PROVE k + 1 \in T
  <2>1. PICK y \in Nat : y = 2 ^ k /\ 2 ^ (k + 1) = 2 * y
    BY PowerOfTwo
  <2>2. k < y
    BY <1>3, <2>1
  <2> QED BY <2>1, <2>2
<1> HIDE DEF Good, T
<1>4. \A k \in Nat : k \in Good
  BY <1>1, <1>2, SetInduction
<1>5. \A k \in Nat : k \in T
  BY <1>1, <1>3, SetInduction
<1>6. ASSUME m <= n PROVE 2 ^ m <= 2 ^ n
  <2>1. PICK k \in Nat : n = m + k
    <3>1. n - m \in Nat /\ n = m + (n - m)
      BY <1>6
    <3> QED BY <3>1
  <2> QED BY <2>1, <1>4 DEF Good
<1> QED BY <1>5, <1>6 DEF T

(* The words before a word take up at most the places before its own.      *)
LEMMA Products ==
  ASSUME NEW W \in Nat \ {0}, NEW p \in Nat, NEW m \in Nat, p < m
  PROVE  p * W + W <= m * W
<1>1. PICK e \in Nat : m = p + 1 + e
  <2>1. m - p - 1 \in Nat /\ m = p + 1 + (m - p - 1)
    OBVIOUS
  <2> QED BY <2>1
<1>2. m * W = p * W + W + e * W
  BY <1>1
<1>3. e * W \in Nat /\ p * W \in Nat
  OBVIOUS
<1> QED BY <1>2, <1>3

LEMMA PlaceOf ==
  ASSUME NEW W \in Nat \ {0}, NEW i \in Nat
  PROVE  /\ i \div W \in Nat /\ i % W \in 0 .. W - 1
         /\ i = (i \div W) * W + (i % W)
  OBVIOUS

LEMMA PlaceIs ==
  ASSUME NEW W \in Nat \ {0}, NEW p \in Nat, NEW k \in 0 .. W - 1,
         NEW i, i = p * W + k
  PROVE  i \in Nat /\ i \div W = p /\ i % W = k
<1>1. p * W \in Nat /\ i \in Nat
  OBVIOUS
<1>2. PICK r \in Nat, j \in 0 .. W - 1 : r = i \div W /\ j = i % W /\ i = r * W + j /\ r * W \in Nat
  BY <1>1
<1>3. ~ (r < p)
  BY <1>1, <1>2, Products
<1>4. ~ (p < r)
  BY <1>1, <1>2, Products
<1>5. r = p
  BY <1>2, <1>3, <1>4
<1> QED BY <1>1, <1>2, <1>5

(* A bit is in one of the first n words when it is below their end.        *)
LEMMA PlaceFits ==
  ASSUME NEW W \in Nat \ {0}, NEW i \in Nat, NEW n \in Nat
  PROVE  /\ n * W \in Nat
         /\ i \div W \in 0 .. n - 1 <=> i < n * W
<1>1. PICK r \in Nat, j \in 0 .. W - 1 : r = i \div W /\ i = r * W + j /\ r * W \in Nat
  BY PlaceOf
<1>2. n * W \in Nat
  OBVIOUS
<1>3. ASSUME r < n PROVE i < n * W
  BY <1>1, <1>2, <1>3, Products
<1>4. ASSUME ~ (r < n) PROVE ~ (i < n * W)
  <2>1. n = r \/ n < r
    BY <1>1, <1>4
  <2>2. n * W <= r * W
    <3>1. CASE n = r
      BY <3>1, <1>1
    <3>2. CASE n < r
      BY <3>2, <1>1, <1>2, Products
    <3> QED BY <2>1, <3>1, <3>2
  <2> QED BY <1>1, <1>2, <2>2
<1> QED BY <1>1, <1>2, <1>3, <1>4

(* A sum that starts at 0 and adds one number after the other exists.      *)
SumsUpTo(n, a, c) ==
  c = [p \in 0 .. n |-> IF p = 0 THEN 0 ELSE c[p - 1] + a[p - 1]]

LEMMA SumsExist ==
  ASSUME NEW n \in Nat, NEW a \in [0 .. n - 1 -> Nat]
  PROVE  \E c : SumsUpTo(n, a, c)
<1> DEFINE step == [t \in (0 .. n - 1) \X Nat |-> t[2] + a[t[1]]]
<1>1. step \in [(0 .. n - 1) \X Nat -> Nat]
  OBVIOUS
<1>2. \A k \in 0 .. n - 1, m \in Nat : step[<<k, m>>] = m + a[k]
  OBVIOUS
<1> HIDE DEF step
<1>3. PICK c : Runs(n, Nat, 0, step, c)
  BY <1>1, RunExists
<1>4. c \in [0 .. n -> Nat] /\ c[0] = 0 /\ \A k \in 0 .. n - 1 : c[k + 1] = step[<<k, c[k]>>]
  BY <1>3 DEF Runs
<1>5. ASSUME NEW p \in 0 .. n PROVE c[p] = IF p = 0 THEN 0 ELSE c[p - 1] + a[p - 1]
  <2>1. CASE p = 0
    BY <2>1, <1>4
  <2>2. CASE p # 0
    <3>1. p - 1 \in 0 .. n - 1 /\ (p - 1) + 1 = p /\ p - 1 \in 0 .. n
      BY <2>2
    <3>2. c[p] = step[<<p - 1, c[p - 1]>>] /\ c[p - 1] \in Nat
      BY <3>1, <1>4
    <3> QED BY <2>2, <3>1, <3>2, <1>2
  <2> QED BY <2>1, <2>2
<1>6. SumsUpTo(n, a, c)
  BY <1>4, <1>5 DEF SumsUpTo
<1> QED BY <1>6
=============================================================================
