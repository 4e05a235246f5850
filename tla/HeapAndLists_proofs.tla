------------------------- MODULE HeapAndLists_proofs -------------------------
(***************************************************************************)
(* Proofs about the two containers that nothing else is built on: the      *)
(* packed array heap of BinaryHeap, then the intrusive lists of            *)
(* IntrusiveList.  The two parts share no definition.                      *)
(***************************************************************************)
EXTENDS BinaryHeap, IntrusiveList, Foundations


-----------------------------------------------------------------------------
(* Words and the tree of slots.                                            *)

\* The most elements whose slots, and the slots of whose children, are words.
Most == 2 ^ (Width - 1)

LEMMA WordBounds ==
  /\ Most \in Nat \ {0} /\ 2 ^ Width = 2 * Most
  /\ \A i \in 0 .. 2 * Most - 1 : Word(i) = i
<1>1. Width - 1 \in Nat /\ (Width - 1) + 1 = Width
  BY HeapAssumption
<1>2. 2 ^ (Width - 1) \in Nat \ {0} /\ 2 ^ ((Width - 1) + 1) = 2 * 2 ^ (Width - 1)
  BY <1>1, PowerOfTwo
<1>3. Most \in Nat \ {0} /\ 2 ^ Width = 2 * Most
  BY <1>1, <1>2 DEF Most
<1>4. ASSUME NEW i \in 0 .. 2 * Most - 1 PROVE i % 2 ^ Width = i
  <2>1. PICK m \in Nat : m = 2 ^ Width /\ i < m
    BY <1>3, <1>4
  <2>2. i % m = i
    BY <2>1, <1>4
  <2> QED BY <2>1, <2>2
<1> QED BY <1>3, <1>4 DEF Word

(* A slot other than the root is the first or the second child of a slot   *)
(* before it.                                                              *)
LEMMA Parents ==
  ASSUME NEW i \in 1 .. 2 * Most
  PROVE  /\ Parent(i) \in 0 .. i - 1
         /\ i = 2 * Parent(i) + 1 \/ i = 2 * Parent(i) + 2
<1>1. Most \in Nat /\ Word(i - 1) = i - 1
  BY WordBounds
<1>2. Parent(i) = (i - 1) \div 2
  BY <1>1 DEF Parent
<1>3. i \in Nat /\ i > 0
  BY <1>1
<1> QED BY <1>2, <1>3

LEMMA Children ==
  ASSUME NEW p \in 0 .. Most - 1
  PROVE  /\ LeftOf(p) = 2 * p + 1
         /\ \A j \in 1 .. 2 * Most : Parent(j) = p => j = 2 * p + 1 \/ j = 2 * p + 2
<1>1. Most \in Nat /\ Word(2 * p) = 2 * p
  BY WordBounds
<1>2. 2 * p + 1 \in 0 .. 2 * Most - 1
  BY <1>1
<1>3. LeftOf(p) = 2 * p + 1
  BY <1>1, <1>2, WordBounds DEF LeftOf
<1> QED BY <1>3, Parents

-----------------------------------------------------------------------------
(* Sifting up.                                                             *)

Block(depth) == [Slots(depth) -> Value \cup {NoValue}]

\* The first n slots hold elements that are no smaller than their parents'.
Ordered(slots, n) ==
  \A i \in 0 .. n - 1 :
    /\ slots[i] \in Value
    /\ i > 0 => slots[Parent(i)] <= slots[i]

\* The slots up to n are ordered but for slot i, below which x may go.
HoleUp(slots, depth, i, n, x) ==
  /\ slots \in Block(depth) /\ i \in 0 .. n
  /\ \A j \in 0 .. n : j # i => slots[j] \in Value
  /\ \A j \in 1 .. n : j # i /\ Parent(j) # i => slots[Parent(j)] <= slots[j]
  /\ \A j \in 1 .. n : Parent(j) = i =>
       /\ x <= slots[j]
       /\ i > 0 => slots[Parent(i)] <= slots[j]

LEMMA HoleUpMoves ==
  ASSUME NEW depth \in Nat, NEW n \in Nat, n < 2 ^ depth, n < Most,
         NEW x \in Value, NEW s, NEW i, HoleUp(s, depth, i, n, x), ~ UpStops(s, i, x)
  PROVE  /\ i > 0
         /\ HoleUp([s EXCEPT ![i] = s[Parent(i)]], depth, Parent(i), n, x)
<1> DEFINE p == Parent(i)
           t == [s EXCEPT ![i] = s[p]]
<1>1. 2 ^ depth \in Nat /\ Most \in Nat /\ Value \subseteq Int
  BY PowerOfTwo, WordBounds, HeapAssumption
<1>2. s \in [0 .. 2 ^ depth - 1 -> Value \cup {NoValue}] /\ i \in 0 .. n
  BY DEF HoleUp, Block, Slots
<1>3. i \in 1 .. n /\ p \in 0 .. i - 1
  BY <1>1, <1>2, Parents DEF UpStops
<1>4. \A j \in 1 .. n : Parent(j) \in 0 .. j - 1
  BY <1>1, Parents
<1>5. s[p] \in Value /\ x < s[p]
  <2>1. p \in 0 .. n /\ p # i
    BY <1>2, <1>3
  <2>2. s[p] \in Value
    BY <2>1 DEF HoleUp
  <2>3. ~ (s[p] <= x)
    BY DEF UpStops
  <2>4. s[p] \in Int /\ x \in Int
    BY <2>2, <1>1
  <2>5. PICK y \in Int : y = s[p]
    BY <2>4
  <2>6. x < y
    BY <2>3, <2>4, <2>5
  <2> QED BY <2>2, <2>5, <2>6
<1>6. t \in Block(depth) /\ t[i] = s[p] /\ \A j \in 0 .. n : j # i => t[j] = s[j]
  BY <1>1, <1>2, <1>3, <1>5 DEF Block, Slots
<1>7. p > 0 => Parent(p) \in 0 .. p - 1
  BY <1>3, <1>4
<1> HIDE DEF t, p
<1>8. ASSUME NEW j \in 0 .. n, j # p PROVE t[j] \in Value
  BY <1>5, <1>6, <1>8 DEF HoleUp
<1>9. ASSUME NEW j \in 1 .. n, j # p, Parent(j) # p PROVE t[Parent(j)] <= t[j]
  <2>1. j # i
    BY <1>9 DEF p
  <2>2. CASE Parent(j) = i
    BY <2>1, <2>2, <1>3, <1>6 DEF HoleUp, p
  <2>3. CASE Parent(j) # i
    BY <2>1, <2>3, <1>4, <1>6 DEF HoleUp
  <2> QED BY <2>2, <2>3
<1>10. p > 0 => s[Parent(p)] <= s[p] /\ t[Parent(p)] = s[Parent(p)] /\ s[Parent(p)] \in Value
  <2>1. CASE p > 0
    <3>1. p \in 1 .. n /\ p # i /\ Parent(p) # i /\ Parent(p) \in 0 .. n
      BY <2>1, <1>3, <1>7
    <3> QED BY <3>1, <1>6 DEF HoleUp
  <2> QED BY <2>1
<1>11. ASSUME NEW j \in 1 .. n, Parent(j) = p
       PROVE  x <= t[j] /\ (p > 0 => t[Parent(p)] <= t[j])
  <2>1. CASE j = i
    <3>1. t[j] = s[p] /\ s[p] \in Int /\ x \in Int /\ x < s[p]
      BY <2>1, <1>1, <1>5, <1>6
    <3>2. p > 0 => t[Parent(p)] <= t[j]
      BY <3>1, <1>10
    <3> QED BY <3>1, <3>2
  <2>2. CASE j # i
    <3>1. s[p] <= s[j] /\ s[j] \in Value /\ t[j] = s[j]
      BY <2>2, <1>3, <1>6, <1>11 DEF HoleUp
    <3>2. s[p] \in Int /\ s[j] \in Int /\ x \in Int /\ x <= s[j]
      <4>1. s[p] \in Int /\ s[j] \in Int /\ x \in Int
        BY <3>1, <1>1, <1>5
      <4>2. \A a, b, c \in Int : a < b /\ b <= c => a <= c
        OBVIOUS
      <4> QED BY <4>1, <4>2, <3>1, <1>5
    <3>3. p > 0 => t[Parent(p)] <= t[j]
      <4>1. p > 0 => s[Parent(p)] \in Int
        BY <1>1, <1>10
      <4>2. \A a, b, c \in Int : a <= b /\ b <= c => a <= c
        OBVIOUS
      <4> QED BY <4>1, <4>2, <3>1, <3>2, <1>10
    <3> QED BY <3>1, <3>2, <3>3
  <2> QED BY <2>1, <2>2
<1>12. p \in 0 .. n
  BY <1>3
<1>13. HoleUp(t, depth, p, n, x)
  BY <1>6, <1>8, <1>9, <1>11, <1>12 DEF HoleUp
<1> QED BY <1>3, <1>13 DEF t, p

LEMMA HoleUpFills ==
  ASSUME NEW depth \in Nat, NEW n \in Nat, n < 2 ^ depth, n < Most,
         NEW x \in Value, NEW s, NEW i, HoleUp(s, depth, i, n, x), UpStops(s, i, x)
  PROVE  [s EXCEPT ![i] = x] \in Block(depth) /\ Ordered([s EXCEPT ![i] = x], n + 1)
<1> DEFINE t == [s EXCEPT ![i] = x]
<1>1. 2 ^ depth \in Nat /\ Most \in Nat /\ Value \subseteq Int /\ NoValue \notin Value
  BY PowerOfTwo, WordBounds, HeapAssumption
<1>2. s \in [0 .. 2 ^ depth - 1 -> Value \cup {NoValue}] /\ i \in 0 .. n
  BY DEF HoleUp, Block, Slots
<1>3. t \in Block(depth) /\ t[i] = x /\ \A j \in 0 .. n : j # i => t[j] = s[j]
  BY <1>1, <1>2 DEF Block, Slots
<1> HIDE DEF t
<1>4. \A j \in 1 .. n : Parent(j) \in 0 .. j - 1
  BY <1>1, Parents
<1>5. i > 0 => s[Parent(i)] <= x
  <2>1. i > 0 => Parent(i) \in 0 .. i - 1
    BY <1>2, <1>4
  <2>2. i > 0 => s[Parent(i)] \in Value
    BY <2>1, <1>2 DEF HoleUp
  <2> QED BY <2>2, <1>1, <1>2 DEF UpStops
<1>6. ASSUME NEW j \in 0 .. n PROVE t[j] \in Value /\ (j > 0 => t[Parent(j)] <= t[j])
  <2>1. t[j] \in Value
    BY <1>3 DEF HoleUp
  <2>2. CASE j > 0
    <3>1. j \in 1 .. n /\ Parent(j) \in 0 .. n /\ Parent(j) # j
      BY <2>2, <1>4
    <3>2. CASE j = i
      BY <3>1, <3>2, <1>3, <1>5, <2>2
    <3>3. CASE j # i /\ Parent(j) = i
      BY <3>1, <3>3, <1>3 DEF HoleUp
    <3>4. CASE j # i /\ Parent(j) # i
      BY <3>1, <3>4, <1>3 DEF HoleUp
    <3> QED BY <3>2, <3>3, <3>4
  <2> QED BY <2>1, <2>2
<1>7. Ordered(t, n + 1)
  BY <1>6 DEF Ordered
<1> QED BY <1>3, <1>7 DEF t

\* A hole that has moved k times and does not rest is above the levels it left.
RestsUp(s, i, x, bound) == UpStops(s, i, x) \/ i < bound

(* Sifting up the element for slot n leaves the slots up to n ordered.     *)
LEMMA SiftUpOrders ==
  ASSUME NEW depth \in Nat, NEW n \in Nat, n < 2 ^ depth, n < Most,
         NEW x \in Value, NEW s \in Block(depth), Ordered(s, n)
  PROVE  /\ SiftUp(s, depth, n, x) \in Block(depth)
         /\ Ordered(SiftUp(s, depth, n, x), n + 1)
<1> DEFINE D == {h \in [slots : Block(depth), i : 0 .. n] : HoleUp(h.slots, depth, h.i, n, x)}
           start == [slots |-> s, i |-> n]
           Step(h) == IF UpStops(h.slots, h.i, x) THEN h
                      ELSE [slots |-> [h.slots EXCEPT ![h.i] = h.slots[Parent(h.i)]],
                            i |-> Parent(h.i)]
           step == [kh \in (0 .. depth - 1) \X D |-> Step(kh[2])]
           Eq(f) == f = [k \in 0 .. depth |-> IF k = 0 THEN start ELSE Step(f[k - 1])]
           hole == CHOOSE f : Eq(f)
<1>1. start \in D
  <2>1. \A j \in 1 .. n : Parent(j) # n
    BY WordBounds, Parents
  <2>2. HoleUp(s, depth, n, n, x)
    BY <2>1 DEF HoleUp, Ordered
  <2> QED BY <2>2
<1>2. ASSUME NEW h \in D PROVE Step(h) \in D
  <2>1. CASE ~ UpStops(h.slots, h.i, x)
    <3> DEFINE t == [h.slots EXCEPT ![h.i] = h.slots[Parent(h.i)]]
    <3>1. HoleUp(t, depth, Parent(h.i), n, x)
      BY <2>1, HoleUpMoves
    <3>2. t \in Block(depth) /\ Parent(h.i) \in 0 .. n
      BY <3>1 DEF HoleUp
    <3> HIDE DEF t
    <3>3. [slots |-> t, i |-> Parent(h.i)] \in D
      BY <3>1, <3>2
    <3>4. Step(h) = [slots |-> t, i |-> Parent(h.i)]
      BY <2>1 DEF t
    <3> QED BY <3>3, <3>4
  <2> QED BY <2>1
<1> HIDE DEF D, start, Step
<1>3. Eq(hole)
  <2>1. \A k \in 0 .. depth - 1 : \A h \in D : step[<<k, h>>] = Step(h)
    OBVIOUS
  <2>2. step \in [(0 .. depth - 1) \X D -> D]
    BY <1>2
  <2> HIDE DEF step
  <2>3. PICK f : Runs(depth, D, start, step, f)
    BY <1>1, <2>2, RunExists
  <2>4. f \in [0 .. depth -> D] /\ f[0] = start
    BY <2>3 DEF Runs
  <2>5. ASSUME NEW k \in 0 .. depth - 1 PROVE f[k + 1] = Step(f[k])
    <3>1. PICK h \in D : h = f[k]
      BY <2>4
    <3>2. f[k + 1] = step[<<k, f[k]>>]
      BY <2>3 DEF Runs
    <3>3. f[k + 1] = step[<<k, h>>] /\ step[<<k, h>>] = Step(h)
      BY <2>1, <3>1, <3>2
    <3> QED BY <3>1, <3>3
  <2>6. ASSUME NEW k \in 0 .. depth, k # 0 PROVE f[k] = Step(f[k - 1])
    <3>1. PICK j \in 0 .. depth - 1 : k = j + 1
      BY <2>6
    <3>2. k - 1 = j
      BY <3>1
    <3> QED BY <3>1, <3>2, <2>5
  <2>7. Eq(f)
    BY <2>4, <2>6
  <2> HIDE DEF Eq
  <2> QED BY <2>7
<1>4. hole[0] = start /\ \A j \in 0 .. depth - 1 : hole[j + 1] = Step(hole[j])
  <2> HIDE DEF hole
  <2>1. ASSUME NEW j \in 0 .. depth - 1 PROVE hole[j + 1] = Step(hole[j])
    <3>1. PICK k \in 0 .. depth : k = j + 1
      OBVIOUS
    <3>2. k # 0 /\ k - 1 = j
      BY <3>1
    <3>3. hole[k] = Step(hole[k - 1])
      BY <1>3, <3>2
    <3> QED BY <3>1, <3>2, <3>3
  <2>2. hole[0] = start
    BY <1>3
  <2> QED BY <2>1, <2>2
<1>5. SiftUp(s, depth, n, x) = [hole[depth].slots EXCEPT ![hole[depth].i] = x]
  BY DEF SiftUp, start, Step
<1> HIDE DEF hole
<1> DEFINE S == {k \in 0 .. depth : /\ hole[k] \in D
                                    /\ RestsUp(hole[k].slots, hole[k].i, x, 2 ^ (depth - k))}
<1>6. 0 \in S
  BY <1>1, <1>4 DEF start, RestsUp
<1>7. ASSUME NEW j \in 0 .. depth - 1, j \in S PROVE j + 1 \in S
  <2>1. PICK h \in D : h = hole[j]
    BY <1>7
  <2>2. hole[j + 1] = Step(h) /\ Step(h) \in D
    BY <2>1, <1>2, <1>4
  <2>3. CASE UpStops(h.slots, h.i, x)
    BY <2>2, <2>3 DEF Step, RestsUp
  <2>4. CASE ~ UpStops(h.slots, h.i, x)
    <3>1. PICK b \in Nat : b = 2 ^ (depth - (j + 1)) /\ 2 ^ (depth - j) = 2 * b
      <4>1. depth - (j + 1) \in Nat /\ depth - (j + 1) + 1 = depth - j
        OBVIOUS
      <4>2. 2 ^ (depth - (j + 1)) \in Nat /\ 2 ^ (depth - (j + 1) + 1) = 2 * 2 ^ (depth - (j + 1))
        BY <4>1, PowerOfTwo
      <4> QED BY <4>1, <4>2
    <3>2. h.i < 2 * b
      BY <1>7, <2>1, <2>4, <3>1 DEF RestsUp
    <3>3. h.i \in 1 .. n
      BY <2>4 DEF D, UpStops
    <3>4. Parent(h.i) \in Nat /\ (h.i = 2 * Parent(h.i) + 1 \/ h.i = 2 * Parent(h.i) + 2)
      BY <3>3, WordBounds, Parents
    <3>5. Parent(h.i) < b
      BY <3>2, <3>3, <3>4
    <3>6. Step(h).i = Parent(h.i)
      BY <2>4 DEF Step
    <3> QED BY <2>2, <3>1, <3>5, <3>6 DEF RestsUp
  <2> QED BY <2>3, <2>4
<1> HIDE DEF S
<1>8. depth \in S
  BY <1>6, <1>7, BoundedInduction
<1>9. PICK h \in D : h = hole[depth] /\ UpStops(h.slots, h.i, x)
  <2>1. hole[depth] \in D
    BY <1>8 DEF S
  <2>2. hole[depth].i \in 0 .. n
    BY <2>1 DEF D
  <2>3. 2 ^ (depth - depth) = 1
    BY PowerOfTwo
  <2>4. hole[depth].i < 1 => hole[depth].i = 0
    BY <2>2
  <2>5. UpStops(hole[depth].slots, hole[depth].i, x)
    BY <1>8, <2>3, <2>4 DEF S, RestsUp, UpStops
  <2> QED BY <2>1, <2>5
<1>10. HoleUp(h.slots, depth, h.i, n, x)
  BY <1>9 DEF D
<1>11. /\ [h.slots EXCEPT ![h.i] = x] \in Block(depth)
       /\ Ordered([h.slots EXCEPT ![h.i] = x], n + 1)
  BY <1>9, <1>10, HoleUpFills
<1> QED BY <1>5, <1>9, <1>11

-----------------------------------------------------------------------------
(* Sifting down.                                                           *)

\* The slots below m are ordered but for slot i, above which x may stay.
HoleDown(slots, depth, i, m, x) ==
  /\ slots \in Block(depth) /\ i \in 0 .. m - 1
  /\ \A j \in 0 .. m - 1 : j # i => slots[j] \in Value
  /\ \A j \in 1 .. m - 1 : j # i /\ Parent(j) # i => slots[Parent(j)] <= slots[j]
  /\ i > 0 => /\ slots[Parent(i)] <= x
              /\ \A j \in 1 .. m - 1 : Parent(j) = i => slots[Parent(i)] <= slots[j]

(* The child chosen is in the heap and no child is smaller.                *)
LEMMA SmallerChildIsSmallest ==
  ASSUME NEW m \in Nat, m <= Most, NEW i \in 0 .. m - 1, NEW s, 2 * i + 1 < m,
         \A j \in 0 .. m - 1 : j # i => s[j] \in Value
  PROVE  LET c == SmallerChild(s, i, m)
         IN /\ c \in i + 1 .. m - 1 /\ Parent(c) = i /\ s[c] \in Value
            /\ c >= 2 * i + 1
            /\ \A j \in 1 .. m - 1 : Parent(j) = i => s[c] <= s[j]
<1> DEFINE l == 2 * i + 1
           c == SmallerChild(s, i, m)
<1>1. Most \in Nat /\ Value \subseteq Int /\ NoValue \notin Value
  BY WordBounds, HeapAssumption
<1>2. LeftOf(i) = l /\ \A j \in 1 .. m - 1 : Parent(j) = i => j = l \/ j = l + 1
  BY <1>1, Children
<1>3. Word(m - 1) = m - 1 /\ Word(l + 1) = l + 1
  BY <1>1, WordBounds
<1>4. \A j \in 1 .. m - 1 : Parent(j) \in Nat /\ (j = 2 * Parent(j) + 1 \/ j = 2 * Parent(j) + 2)
  BY <1>1, Parents
<1>5. l \in i + 1 .. m - 1 /\ Parent(l) = i /\ s[l] \in Value
  BY <1>1, <1>4
<1>6. l + 1 < m => l + 1 \in i + 1 .. m - 1 /\ Parent(l + 1) = i /\ s[l + 1] \in Value
  BY <1>1, <1>4
<1>7. c = IF l < m - 1 /\ s[l + 1] # NoValue /\ ~ (s[l] <= s[l + 1]) THEN l + 1 ELSE l
  BY <1>2, <1>3 DEF SmallerChild, HasRight
<1> HIDE DEF c
<1>8. \A a, b \in Int : a <= a /\ (~ (a <= b) => b <= a)
  OBVIOUS
<1>9. CASE l < m - 1
  <2>1. PICK r : r = l + 1
    OBVIOUS
  <2>2. r \in i + 1 .. m - 1 /\ Parent(r) = i /\ s[r] \in Value
    BY <2>1, <1>6, <1>9
  <2>3. c = IF ~ (s[l] <= s[r]) THEN r ELSE l
    BY <2>1, <2>2, <1>1, <1>7, <1>9
  <2>4. s[l] \in Int /\ s[r] \in Int
    BY <2>2, <1>1, <1>5
  <2>5. s[c] <= s[l] /\ s[c] <= s[r]
    BY <2>3, <2>4, <1>8
  <2>6. \A j \in 1 .. m - 1 : Parent(j) = i => s[c] <= s[j]
    BY <2>1, <2>5, <1>2
  <2> QED BY <2>1, <2>2, <2>3, <2>6, <1>5 DEF c
<1>10. CASE ~ (l < m - 1)
  <2>1. c = l
    BY <1>7, <1>10
  <2>2. s[l] \in Int
    BY <1>1, <1>5
  <2>3. \A j \in 1 .. m - 1 : Parent(j) = i => j = l
    BY <1>2, <1>10
  <2>4. \A j \in 1 .. m - 1 : Parent(j) = i => s[c] <= s[j]
    BY <2>1, <2>2, <2>3, <1>8
  <2> QED BY <2>1, <2>4, <1>5 DEF c
<1> QED BY <1>9, <1>10

LEMMA HoleDownMoves ==
  ASSUME NEW depth \in Nat, NEW m \in Nat, m <= 2 ^ depth, m <= Most,
         NEW x \in Value, NEW s, NEW i, HoleDown(s, depth, i, m, x), ~ DownStops(s, i, m, x)
  PROVE  LET c == SmallerChild(s, i, m)
         IN /\ c >= 2 * i + 1
            /\ HoleDown([s EXCEPT ![i] = s[c]], depth, c, m, x)
<1> DEFINE c == SmallerChild(s, i, m)
           t == [s EXCEPT ![i] = s[c]]
<1>1. 2 ^ depth \in Nat /\ Most \in Nat /\ Value \subseteq Int
  BY PowerOfTwo, WordBounds, HeapAssumption
<1>2. s \in [0 .. 2 ^ depth - 1 -> Value \cup {NoValue}] /\ i \in 0 .. m - 1
  BY DEF HoleDown, Block, Slots
<1>3. 2 * i + 1 < m /\ \A j \in 0 .. m - 1 : j # i => s[j] \in Value
  BY <1>1, <1>2, Children DEF HoleDown, DownStops
<1>4. /\ c \in i + 1 .. m - 1 /\ Parent(c) = i /\ s[c] \in Value /\ c >= 2 * i + 1
      /\ \A j \in 1 .. m - 1 : Parent(j) = i => s[c] <= s[j]
  BY <1>2, <1>3, SmallerChildIsSmallest
<1>5. ~ (x <= s[c])
  BY DEF DownStops
<1> HIDE DEF c
<1>6. s[c] <= x
  <2>1. s[c] \in Int /\ x \in Int
    BY <1>1, <1>4
  <2>2. \A a, b \in Int : ~ (b <= a) => a <= b
    OBVIOUS
  <2> QED BY <2>1, <2>2, <1>5
<1>7. \A j \in 1 .. m - 1 : Parent(j) \in 0 .. j - 1
  BY <1>1, Parents
<1>8. t \in Block(depth) /\ t[i] = s[c] /\ \A j \in 0 .. m - 1 : j # i => t[j] = s[j]
  BY <1>1, <1>2, <1>4 DEF Block, Slots
<1> HIDE DEF t
<1>9. ASSUME NEW j \in 0 .. m - 1, j # c PROVE t[j] \in Value
  BY <1>3, <1>4, <1>8, <1>9
<1>10. ASSUME NEW j \in 1 .. m - 1, j # c, Parent(j) # c PROVE t[Parent(j)] <= t[j]
  <2>1. CASE j = i
    <3>1. s[Parent(i)] <= s[c] /\ t[i] = s[c]
      BY <2>1, <1>4, <1>8 DEF HoleDown
    <3>2. Parent(i) \in 0 .. m - 1 /\ Parent(i) # i
      BY <2>1, <1>7
    <3> QED BY <2>1, <3>1, <3>2, <1>8
  <2>2. CASE j # i /\ Parent(j) = i
    BY <2>2, <1>4, <1>8
  <2>3. CASE j # i /\ Parent(j) # i
    <3>1. Parent(j) \in 0 .. m - 1 /\ s[Parent(j)] <= s[j]
      BY <2>3, <1>7 DEF HoleDown
    <3> QED BY <2>3, <3>1, <1>8
  <2> QED BY <2>1, <2>2, <2>3
<1>11. t[Parent(c)] <= x
  BY <1>4, <1>6, <1>8
<1>12. ASSUME NEW j \in 1 .. m - 1, Parent(j) = c PROVE t[Parent(c)] <= t[j]
  <2>1. c # i /\ j # i
    BY <1>4, <1>7, <1>12
  <2>2. s[c] <= s[j]
    BY <2>1, <1>12 DEF HoleDown
  <2> QED BY <2>1, <2>2, <1>4, <1>8
<1>13. c \in 0 .. m - 1
  BY <1>2, <1>4
<1>14. HoleDown(t, depth, c, m, x)
  BY <1>8, <1>9, <1>10, <1>11, <1>12, <1>13 DEF HoleDown
<1> QED BY <1>4, <1>14 DEF t, c

LEMMA HoleDownFills ==
  ASSUME NEW depth \in Nat, NEW m \in Nat, m <= 2 ^ depth, m <= Most,
         NEW x \in Value, NEW s, NEW i, HoleDown(s, depth, i, m, x), DownStops(s, i, m, x)
  PROVE  [s EXCEPT ![i] = x] \in Block(depth) /\ Ordered([s EXCEPT ![i] = x], m)
<1> DEFINE t == [s EXCEPT ![i] = x]
<1>1. 2 ^ depth \in Nat /\ Most \in Nat /\ Value \subseteq Int /\ NoValue \notin Value
  BY PowerOfTwo, WordBounds, HeapAssumption
<1>2. s \in [0 .. 2 ^ depth - 1 -> Value \cup {NoValue}] /\ i \in 0 .. m - 1
  BY DEF HoleDown, Block, Slots
<1>3. t \in Block(depth) /\ t[i] = x /\ \A j \in 0 .. m - 1 : j # i => t[j] = s[j]
  BY <1>1, <1>2 DEF Block, Slots
<1> HIDE DEF t
<1>4. \A j \in 1 .. m - 1 : Parent(j) \in 0 .. j - 1
  BY <1>1, Parents
<1>5. ASSUME NEW j \in 1 .. m - 1, Parent(j) = i PROVE x <= s[j]
  <2>1. i \in 0 .. Most - 1 /\ LeftOf(i) = 2 * i + 1
    BY <1>1, <1>2, Children
  <2>2. j = 2 * i + 1 \/ j = 2 * i + 2
    BY <2>1, <1>1, <1>5, Children
  <2>3. 2 * i + 1 < m
    BY <2>2, <1>2
  <2>4. \A k \in 0 .. m - 1 : k # i => s[k] \in Value
    BY DEF HoleDown
  <2> DEFINE c == SmallerChild(s, i, m)
  <2>5. s[c] \in Value /\ s[c] <= s[j]
    BY <2>3, <2>4, <1>2, <1>5, SmallerChildIsSmallest
  <2>6. s[2 * i + 1] # NoValue
    <3>1. PICK l : l = 2 * i + 1
      OBVIOUS
    <3>2. l \in 0 .. m - 1 /\ l # i
      BY <3>1, <2>3, <1>2
    <3>3. s[l] \in Value
      BY <3>2, <2>4
    <3> QED BY <3>1, <3>3, <1>1
  <2>7. x <= s[c]
    BY <2>1, <2>3, <2>6, <1>2 DEF DownStops
  <2> HIDE DEF c
  <2>8. x \in Int /\ s[c] \in Int /\ s[j] \in Int
    <3>1. j \in 0 .. m - 1 /\ j # i
      BY <2>2, <1>2
    <3>2. s[j] \in Value
      BY <3>1, <2>4
    <3> QED BY <3>2, <2>5, <1>1
  <2>9. \A a, b, d \in Int : a <= b /\ b <= d => a <= d
    OBVIOUS
  <2> QED BY <2>5, <2>7, <2>8, <2>9
<1>6. ASSUME NEW j \in 0 .. m - 1 PROVE t[j] \in Value /\ (j > 0 => t[Parent(j)] <= t[j])
  <2>1. t[j] \in Value
    BY <1>3 DEF HoleDown
  <2>2. CASE j > 0
    <3>1. j \in 1 .. m - 1 /\ Parent(j) \in 0 .. m - 1 /\ Parent(j) # j
      BY <2>2, <1>4
    <3>2. CASE j = i
      BY <3>1, <3>2, <1>3, <2>2 DEF HoleDown
    <3>3. CASE j # i /\ Parent(j) = i
      <4>1. x <= s[j]
        BY <3>1, <3>3, <1>5
      <4>2. t[j] = s[j] /\ t[i] = x
        BY <3>3, <1>3
      <4> QED BY <4>1, <4>2, <3>3, <2>1
    <3>4. CASE j # i /\ Parent(j) # i
      BY <3>1, <3>4, <1>3 DEF HoleDown
    <3> QED BY <3>2, <3>3, <3>4
  <2> QED BY <2>1, <2>2
<1>7. Ordered(t, m)
  BY <1>6 DEF Ordered
<1> QED BY <1>3, <1>7 DEF t

\* A hole that has moved k times and does not rest is below the levels it left.
RestsDown(s, i, m, x, bound) == DownStops(s, i, m, x) \/ i + 1 >= bound

(* Sifting an element down from the root leaves the slots below m ordered, *)
(* if they were but for the root.                                          *)
LEMMA SiftDownOrders ==
  ASSUME NEW depth \in Nat, NEW m \in Nat \ {0}, m <= 2 ^ depth, m <= Most,
         NEW x \in Value, NEW s \in Block(depth), HoleDown(s, depth, 0, m, x)
  PROVE  /\ SiftDown(s, depth, m, x) \in Block(depth)
         /\ Ordered(SiftDown(s, depth, m, x), m)
<1> DEFINE D == {h \in [slots : Block(depth), i : 0 .. m - 1] :
                   HoleDown(h.slots, depth, h.i, m, x)}
           start == [slots |-> s, i |-> 0]
           Step(h) == LET c == SmallerChild(h.slots, h.i, m)
                      IN IF DownStops(h.slots, h.i, m, x) THEN h
                         ELSE [slots |-> [h.slots EXCEPT ![h.i] = h.slots[c]], i |-> c]
           step == [kh \in (0 .. depth - 1) \X D |-> Step(kh[2])]
           Eq(f) == f = [k \in 0 .. depth |-> IF k = 0 THEN start ELSE Step(f[k - 1])]
           hole == CHOOSE f : Eq(f)
<1>1. start \in D
  OBVIOUS
<1>2. ASSUME NEW h \in D, ~ DownStops(h.slots, h.i, m, x)
      PROVE  Step(h) \in D /\ Step(h).i >= 2 * h.i + 1
  <2> DEFINE c == SmallerChild(h.slots, h.i, m)
             t == [h.slots EXCEPT ![h.i] = h.slots[c]]
  <2>1. HoleDown(t, depth, c, m, x) /\ c >= 2 * h.i + 1
    BY <1>2, HoleDownMoves
  <2>2. t \in Block(depth) /\ c \in 0 .. m - 1
    BY <2>1 DEF HoleDown
  <2>3. Step(h) = [slots |-> t, i |-> c]
    BY <1>2
  <2> HIDE DEF t, c, Step
  <2>4. [slots |-> t, i |-> c] \in D
    BY <2>1, <2>2
  <2> QED BY <2>1, <2>3, <2>4
<1>3. \A h \in D : Step(h) \in D
  <2>1. \A h \in D : DownStops(h.slots, h.i, m, x) => Step(h) = h
    OBVIOUS
  <2> HIDE DEF Step, D
  <2> QED BY <2>1, <1>2
<1>4. \A h : DownStops(h.slots, h.i, m, x) => Step(h) = h
  OBVIOUS
<1>5. \A h \in D : h.i \in 0 .. m - 1 /\ HoleDown(h.slots, depth, h.i, m, x)
  OBVIOUS
<1> HIDE DEF D, start, Step
<1>6. Eq(hole)
  <2>1. \A k \in 0 .. depth - 1 : \A h \in D : step[<<k, h>>] = Step(h)
    OBVIOUS
  <2>2. step \in [(0 .. depth - 1) \X D -> D]
    BY <1>3
  <2> HIDE DEF step
  <2>3. PICK f : Runs(depth, D, start, step, f)
    BY <1>1, <2>2, RunExists
  <2>4. f \in [0 .. depth -> D] /\ f[0] = start
    BY <2>3 DEF Runs
  <2>5. ASSUME NEW k \in 0 .. depth - 1 PROVE f[k + 1] = Step(f[k])
    <3>1. PICK h \in D : h = f[k]
      BY <2>4
    <3>2. f[k + 1] = step[<<k, f[k]>>]
      BY <2>3 DEF Runs
    <3>3. f[k + 1] = step[<<k, h>>] /\ step[<<k, h>>] = Step(h)
      BY <2>1, <3>1, <3>2
    <3> QED BY <3>1, <3>3
  <2>6. ASSUME NEW k \in 0 .. depth, k # 0 PROVE f[k] = Step(f[k - 1])
    <3>1. PICK j \in 0 .. depth - 1 : k = j + 1
      BY <2>6
    <3>2. k - 1 = j
      BY <3>1
    <3> QED BY <3>1, <3>2, <2>5
  <2>7. Eq(f)
    BY <2>4, <2>6
  <2> HIDE DEF Eq
  <2> QED BY <2>7
<1>7. hole[0] = start /\ \A j \in 0 .. depth - 1 : hole[j + 1] = Step(hole[j])
  <2> HIDE DEF hole
  <2>1. ASSUME NEW j \in 0 .. depth - 1 PROVE hole[j + 1] = Step(hole[j])
    <3>1. PICK k \in 0 .. depth : k = j + 1
      OBVIOUS
    <3>2. k # 0 /\ k - 1 = j
      BY <3>1
    <3>3. hole[k] = Step(hole[k - 1])
      BY <1>6, <3>2
    <3> QED BY <3>1, <3>2, <3>3
  <2>2. hole[0] = start
    BY <1>6
  <2> QED BY <2>1, <2>2
<1>8. SiftDown(s, depth, m, x) = [hole[depth].slots EXCEPT ![hole[depth].i] = x]
  BY DEF SiftDown, start, Step
<1> HIDE DEF hole
<1> DEFINE S == {k \in 0 .. depth : /\ hole[k] \in D
                                    /\ RestsDown(hole[k].slots, hole[k].i, m, x, 2 ^ k)}
<1>9. 0 \in S
  <2>1. 2 ^ 0 = 1
    BY PowerOfTwo
  <2> QED BY <2>1, <1>1, <1>7 DEF start, RestsDown
<1>10. ASSUME NEW j \in 0 .. depth - 1, j \in S PROVE j + 1 \in S
  <2>1. PICK h \in D : h = hole[j]
    BY <1>10
  <2>2. hole[j + 1] = Step(h) /\ Step(h) \in D
    BY <2>1, <1>3, <1>7
  <2>3. CASE DownStops(h.slots, h.i, m, x)
    <3>1. Step(h) = h
      BY <2>3, <1>4
    <3> QED BY <3>1, <2>2, <2>3 DEF RestsDown
  <2>4. CASE ~ DownStops(h.slots, h.i, m, x)
    <3>1. PICK b \in Nat : b = 2 ^ j /\ 2 ^ (j + 1) = 2 * b
      BY PowerOfTwo
    <3>2. h.i + 1 >= b
      BY <1>10, <2>1, <2>4, <3>1 DEF RestsDown
    <3>3. h.i \in Nat /\ Step(h).i \in Nat
      BY <2>2, <1>5
    <3>4. Step(h).i + 1 >= 2 * b
      BY <2>4, <3>2, <3>3, <1>2
    <3> QED BY <2>2, <3>1, <3>4 DEF RestsDown
  <2> QED BY <2>3, <2>4
<1> HIDE DEF S
<1>11. depth \in S
  BY <1>9, <1>10, BoundedInduction
<1>12. PICK h \in D : h = hole[depth] /\ DownStops(h.slots, h.i, m, x)
  <2>1. PICK h \in D : h = hole[depth]
    BY <1>11 DEF S
  <2>2. PICK b \in Nat : b = 2 ^ depth
    BY PowerOfTwo
  <2>3. h.i \in 0 .. m - 1 /\ h.i \in 0 .. Most - 1
    BY <2>1, <1>5, WordBounds
  <2>4. LeftOf(h.i) = 2 * h.i + 1
    BY <2>3, Children
  <2>5. h.i + 1 >= b => LeftOf(h.i) >= m
    BY <2>2, <2>3, <2>4
  <2>6. DownStops(h.slots, h.i, m, x) \/ h.i + 1 >= b
    BY <1>11, <2>1, <2>2 DEF S, RestsDown
  <2>7. LeftOf(h.i) >= m => DownStops(h.slots, h.i, m, x)
    BY DEF DownStops
  <2> QED BY <2>1, <2>5, <2>6, <2>7
<1>13. HoleDown(h.slots, depth, h.i, m, x)
  BY <1>5, <1>12
<1>14. /\ [h.slots EXCEPT ![h.i] = x] \in Block(depth)
       /\ Ordered([h.slots EXCEPT ![h.i] = x], m)
  BY <1>12, <1>13, HoleDownFills
<1> QED BY <1>8, <1>12, <1>14

-----------------------------------------------------------------------------
(* Heaps.                                                                  *)

Heaps == [size : Nat, n : Nat, depth : Nat, cap : Nat,
          slots : UNION {Block(depth) : depth \in Nat}]

\* A heap whose block is ordered and whose numbers are those of the block.
GoodHeap(h) ==
  /\ h \in Heaps /\ h.slots \in Block(h.depth)
  /\ h.n = h.size /\ h.cap = 2 ^ h.depth
  /\ h.n <= h.cap /\ h.n <= Most
  /\ Ordered(h.slots, h.n)

LEMMA NewHeapIsGood == GoodHeap(NewHeap) /\ NewHeap.n = 0
<1>1. NewHeap.slots \in Block(0)
  BY DEF NewHeap, Block
<1>2. NewHeap \in Heaps
  BY <1>1 DEF NewHeap, Heaps
<1>3. NewHeap.n = 0 /\ NewHeap.size = 0 /\ NewHeap.cap = 1 /\ NewHeap.depth = 0
  BY DEF NewHeap
<1> QED BY <1>1, <1>2, <1>3, PowerOfTwo, WordBounds DEF GoodHeap, Ordered

(* A block that doubles keeps its elements in their slots.                 *)
LEMMA GrownIsGood ==
  ASSUME NEW h, GoodHeap(h), h.n = h.cap, h.n < Most
  PROVE  GoodHeap(Grown(h)) /\ Grown(h).n = h.n /\ Grown(h).n < Grown(h).cap
<1> DEFINE g == Grown(h)
<1>1. /\ h \in Heaps /\ h.slots \in Block(h.depth) /\ h.n = h.size
      /\ h.cap = 2 ^ h.depth /\ Ordered(h.slots, h.n)
  BY DEF GoodHeap
<1>2. PICK depth \in Nat, b \in Nat \ {0} :
        depth = h.depth /\ b = 2 ^ depth /\ 2 ^ (depth + 1) = 2 * b
  BY <1>1, PowerOfTwo DEF Heaps
<1>3. h.n = b /\ b < Most /\ Most \in Nat /\ Word(2 * b) = 2 * b
  <2>1. h.n = b /\ b < Most /\ Most \in Nat
    BY <1>1, <1>2, WordBounds
  <2>2. 2 * b \in 0 .. 2 * Most - 1
    BY <2>1
  <2> QED BY <2>1, <2>2, WordBounds
<1>4. /\ g.size = h.size /\ g.n = h.n /\ g.depth = depth + 1 /\ g.cap = 2 * b
      /\ g.slots = [s \in Slots(depth + 1) |->
                      IF s \in Slots(depth) THEN h.slots[s] ELSE NoValue]
  BY <1>1, <1>2, <1>3 DEF Grown, Heaps
<1>5. g.slots \in Block(depth + 1) /\ \A j \in 0 .. b - 1 : g.slots[j] = h.slots[j]
  <2>1. Slots(depth) = 0 .. b - 1 /\ Slots(depth + 1) = 0 .. 2 * b - 1
    BY <1>2 DEF Slots
  <2>2. h.slots \in [0 .. b - 1 -> Value \cup {NoValue}]
    BY <2>1, <1>1, <1>2 DEF Block
  <2>3. g.slots \in [0 .. 2 * b - 1 -> Value \cup {NoValue}]
    BY <2>1, <2>2, <1>4
  <2>4. \A j \in 0 .. b - 1 : j \in 0 .. 2 * b - 1
    OBVIOUS
  <2>5. \A j \in 0 .. b - 1 : g.slots[j] = h.slots[j]
    BY <2>1, <2>4, <1>4
  <2> QED BY <2>1, <2>3, <2>5 DEF Block
<1>6. g \in Heaps
  <2>1. g.slots \in UNION {Block(e) : e \in Nat}
    BY <1>2, <1>5
  <2>2. g = [size |-> g.size, n |-> g.n, depth |-> g.depth, cap |-> g.cap, slots |-> g.slots]
    <3>1. h = [size |-> h.size, n |-> h.n, depth |-> h.depth, cap |-> h.cap, slots |-> h.slots]
      BY <1>1 DEF Heaps
    <3>2. PICK e, c, blk : Grown(h) = [h EXCEPT !.depth = e, !.cap = c, !.slots = blk]
      BY DEF Grown
    <3> QED BY <3>1, <3>2
  <2>3. g.size \in Nat /\ g.n \in Nat /\ g.depth \in Nat /\ g.cap \in Nat
    BY <1>1, <1>2, <1>4 DEF Heaps
  <2> HIDE DEF g
  <2> QED BY <2>1, <2>2, <2>3 DEF Heaps
<1>7. Ordered(g.slots, b)
  <2>1. \A j \in 1 .. b - 1 : Parent(j) \in 0 .. b - 1
    BY <1>3, Parents
  <2>2. Ordered(h.slots, b)
    BY <1>1, <1>3
  <2> HIDE DEF g
  <2> QED BY <1>5, <2>1, <2>2 DEF Ordered
<1> HIDE DEF g
<1>8. g.cap = 2 ^ g.depth
  BY <1>2, <1>4
<1>9. GoodHeap(g)
  <2>1. g.slots \in Block(g.depth) /\ g.n = g.size
    BY <1>1, <1>4, <1>5
  <2>2. g.n <= g.cap /\ g.n <= Most /\ g.n = b
    BY <1>2, <1>3, <1>4
  <2> QED BY <2>1, <2>2, <1>6, <1>7, <1>8 DEF GoodHeap
<1> QED BY <1>2, <1>3, <1>4, <1>9 DEF g

(* An element that is pushed is let in where it belongs.                   *)
LEMMA PushedIsGood ==
  ASSUME NEW h, GoodHeap(h), h.n < Most, NEW x \in Value
  PROVE  GoodHeap(Pushed(h, x)) /\ Pushed(h, x).n = h.n + 1
<1> DEFINE g == IF h.n < h.cap THEN h ELSE Grown(h)
           p == Pushed(h, x)
           s == SiftUp(g.slots, g.depth, h.n, x)
<1>1. GoodHeap(g) /\ g.n = h.n /\ g.n < g.cap
  <2>1. h.n \in Nat /\ h.cap \in Nat /\ h.n <= h.cap
    BY DEF GoodHeap, Heaps
  <2>2. h.n < h.cap \/ h.n = h.cap
    BY <2>1
  <2> QED BY <2>2, GrownIsGood
<1>2. p = [g EXCEPT !.size = @ + 1, !.n = Word(@ + 1), !.slots = s]
  BY DEF Pushed
<1> HIDE DEF g
<1>3. /\ g \in Heaps /\ g.slots \in Block(g.depth) /\ g.n = g.size
      /\ g.cap = 2 ^ g.depth /\ Ordered(g.slots, g.n)
  BY <1>1 DEF GoodHeap
<1>4. PICK n \in Nat, depth \in Nat : n = g.n /\ depth = g.depth
  BY <1>3 DEF Heaps
<1>5. n < 2 ^ depth /\ n < Most /\ n = h.n
  BY <1>1, <1>3, <1>4
<1>6. s \in Block(depth) /\ Ordered(s, n + 1)
  BY <1>1, <1>3, <1>4, <1>5, SiftUpOrders
<1>7. Word(n + 1) = n + 1
  BY <1>5, WordBounds
<1> HIDE DEF s, p
<1>8. p = [size |-> n + 1, n |-> n + 1, depth |-> depth, cap |-> g.cap, slots |-> s]
  BY <1>2, <1>3, <1>4, <1>7 DEF Heaps
<1>9. p \in Heaps
  <2>1. s \in UNION {Block(e) : e \in Nat}
    BY <1>6
  <2> QED BY <1>3, <1>8, <2>1 DEF Heaps
<1>10. n + 1 <= g.cap /\ n + 1 <= Most
  BY <1>1, <1>3, <1>4, <1>5, WordBounds DEF Heaps
<1>11. GoodHeap(p)
  BY <1>3, <1>4, <1>6, <1>8, <1>9, <1>10 DEF GoodHeap
<1> QED BY <1>5, <1>8, <1>11 DEF p

(* What is popped leaves the last element, which goes down from the root.  *)
LEMMA PoppedIsGood ==
  ASSUME NEW h, GoodHeap(h), h.n # 0
  PROVE  GoodHeap(Popped(h))
<1> DEFINE p == Popped(h)
           m == Word(h.n - 1)
           x == LastOr(h.slots, m, h.slots[0])
           s == IF m = 0 THEN h.slots ELSE SiftDown(h.slots, h.depth, m, x)
<1>1. /\ h \in Heaps /\ h.slots \in Block(h.depth) /\ h.n = h.size
      /\ h.cap = 2 ^ h.depth /\ Ordered(h.slots, h.n)
      /\ h.n <= h.cap /\ h.n <= Most
  BY DEF GoodHeap
<1>2. PICK n \in Nat \ {0}, depth \in Nat : n = h.n /\ depth = h.depth
  BY <1>1 DEF Heaps
<1>3. m = n - 1 /\ m \in Nat /\ m < n /\ n <= 2 ^ depth
  BY <1>1, <1>2, WordBounds
<1>4. p = [h EXCEPT !.size = @ - 1, !.n = m, !.slots = s]
  BY DEF Popped
<1> HIDE DEF m
<1>5. s \in Block(depth) /\ Ordered(s, m)
  <2>1. CASE m = 0
    BY <2>1, <1>1, <1>2 DEF Ordered
  <2>2. CASE m # 0
    <3>1. x \in Value
      <4>1. h.slots[m] \in Value
        BY <1>1, <1>2, <1>3 DEF Ordered
      <4> QED BY <4>1, HeapAssumption DEF LastOr
    <3> HIDE DEF x
    <3>2. HoleDown(h.slots, depth, 0, m, x)
      <4>1. \A j \in 0 .. m - 1 : j \in 0 .. n - 1
        BY <1>3
      <4>2. \A j \in 1 .. m - 1 : j \in 0 .. n - 1 /\ j > 0
        BY <1>3
      <4> QED BY <4>1, <4>2, <2>2, <1>1, <1>2, <1>3 DEF HoleDown, Ordered
    <3>3. m \in Nat \ {0} /\ m <= 2 ^ depth /\ m <= Most
      BY <2>2, <1>1, <1>2, <1>3, WordBounds, PowerOfTwo
    <3>4. /\ SiftDown(h.slots, depth, m, x) \in Block(depth)
          /\ Ordered(SiftDown(h.slots, depth, m, x), m)
      BY <3>1, <3>2, <3>3, <1>1, <1>2, SiftDownOrders
    <3> QED BY <3>4, <2>2, <1>2
  <2> QED BY <2>1, <2>2
<1> HIDE DEF s, p
<1>6. p = [size |-> m, n |-> m, depth |-> depth, cap |-> h.cap, slots |-> s]
  BY <1>1, <1>2, <1>3, <1>4 DEF Heaps
<1>7. p \in Heaps
  <2>1. s \in UNION {Block(e) : e \in Nat}
    BY <1>5
  <2> QED BY <1>1, <1>3, <1>6, <2>1 DEF Heaps
<1>8. m <= h.cap /\ m <= Most
  BY <1>1, <1>2, <1>3, WordBounds DEF Heaps
<1>9. GoodHeap(p)
  BY <1>1, <1>2, <1>5, <1>6, <1>7, <1>8 DEF GoodHeap
<1> QED BY <1>9 DEF p

(* A heap made from a list holds as many elements as the list.             *)
LEMMA HeapOfIsGood ==
  ASSUME NEW xs \in Seq(Value), Len(xs) <= Most
  PROVE  GoodHeap(HeapOf(xs))
<1> DEFINE m == Len(xs)
           D == {h \in Heaps : GoodHeap(h)}
           Step(k, h) == IF h.n = k THEN Pushed(h, xs[k + 1]) ELSE NewHeap
           step == [kh \in (0 .. m - 1) \X D |-> Step(kh[1], kh[2])]
           Eq(f) == f = [k \in 0 .. m |-> IF k = 0 THEN NewHeap ELSE Pushed(f[k - 1], xs[k])]
           after == CHOOSE f : Eq(f)
<1>1. m \in Nat /\ \A k \in 0 .. m - 1 : xs[k + 1] \in Value
  OBVIOUS
<1>2. Most \in Nat
  BY WordBounds
<1>3. ASSUME NEW h, GoodHeap(h), NEW k \in 0 .. m - 1, h.n = k
      PROVE  GoodHeap(Pushed(h, xs[k + 1])) /\ Pushed(h, xs[k + 1]).n = k + 1
  <2>1. h.n < Most /\ xs[k + 1] \in Value
    BY <1>1, <1>2, <1>3
  <2> QED BY <2>1, <1>3, PushedIsGood
<1>4. NewHeap \in D
  BY NewHeapIsGood DEF GoodHeap
<1>5. step \in [(0 .. m - 1) \X D -> D]
  <2>1. ASSUME NEW k \in 0 .. m - 1, NEW h \in D PROVE Step(k, h) \in D
    BY <1>3, <1>4 DEF GoodHeap
  <2> QED BY <2>1
<1>6. \A k \in 0 .. m - 1 : \A h \in D : step[<<k, h>>] = Step(k, h)
  OBVIOUS
<1>7. \A h \in D : GoodHeap(h)
  OBVIOUS
<1> HIDE DEF step, m, D
<1>8. PICK f : Runs(m, D, NewHeap, step, f)
  BY <1>1, <1>4, <1>5, RunExists
<1>9. f \in [0 .. m -> D] /\ f[0] = NewHeap
  BY <1>8 DEF Runs
<1>10. ASSUME NEW k \in 0 .. m - 1 PROVE f[k + 1] = Step(k, f[k])
  <2>1. PICK h \in D : h = f[k]
    BY <1>1, <1>9
  <2>2. f[k + 1] = step[<<k, f[k]>>]
    BY <1>8 DEF Runs
  <2>3. f[k + 1] = step[<<k, h>>] /\ step[<<k, h>>] = Step(k, h)
    BY <1>6, <2>1, <2>2
  <2> QED BY <2>1, <2>3
<1> DEFINE S == {k \in 0 .. m : f[k].n = k}
<1>11. 0 \in S
  BY <1>1, <1>9, NewHeapIsGood
<1>12. ASSUME NEW k \in 0 .. m - 1, k \in S PROVE k + 1 \in S
  <2>1. PICK h \in D : h = f[k] /\ h.n = k
    BY <1>9, <1>12
  <2>2. f[k + 1] = Pushed(h, xs[k + 1])
    BY <1>10, <2>1
  <2>3. Pushed(h, xs[k + 1]).n = k + 1
    BY <2>1, <1>3, <1>7
  <2>4. k + 1 \in 0 .. m
    BY <1>1
  <2> QED BY <2>2, <2>3, <2>4
<1>13. \A k \in 0 .. m : f[k].n = k
  <2> HIDE DEF S
  <2>1. \A k \in 0 .. m : k \in S
    BY <1>1, <1>11, <1>12, BoundedInduction
  <2> QED BY <2>1 DEF S
<1>14. Eq(after)
  <2>1. ASSUME NEW k \in 0 .. m, k # 0 PROVE f[k] = Pushed(f[k - 1], xs[k])
    <3>1. PICK j \in 0 .. m - 1 : k = j + 1
      BY <2>1, <1>1
    <3>2. k - 1 = j
      BY <3>1
    <3>3. f[j].n = j
      BY <1>1, <1>13
    <3>4. f[j + 1] = Pushed(f[j], xs[j + 1])
      BY <3>3, <1>10
    <3> QED BY <3>1, <3>2, <3>4
  <2>2. Eq(f)
    BY <2>1, <1>9
  <2> HIDE DEF Eq
  <2> QED BY <2>2
<1>15. HeapOf(xs) = after[m]
  BY DEF HeapOf, m
<1> HIDE DEF after, S
<1> DEFINE T == {k \in 0 .. m : GoodHeap(after[k]) /\ after[k].n = k}
<1>16. 0 \in T
  <2>1. after[0] = NewHeap
    BY <1>1, <1>14
  <2> QED BY <2>1, <1>1, NewHeapIsGood
<1>17. ASSUME NEW j \in 0 .. m - 1, j \in T PROVE j + 1 \in T
  <2>1. PICK k \in 0 .. m : k = j + 1
    BY <1>1
  <2>2. k # 0 /\ k - 1 = j
    BY <2>1
  <2>3. after[k] = Pushed(after[k - 1], xs[k])
    BY <1>14, <2>2
  <2>4. after[k] = Pushed(after[j], xs[j + 1])
    BY <2>1, <2>2, <2>3
  <2>5. GoodHeap(after[k]) /\ after[k].n = j + 1
    BY <2>4, <1>3, <1>17
  <2> QED BY <2>1, <2>5
<1> HIDE DEF T
<1>18. m \in T
  <2>1. m \in Nat
    BY <1>1
  <2>2. \A k \in 0 .. m : k \in T
    BY <2>1, <1>16, <1>17, BoundedInduction
  <2> QED BY <2>1, <2>2
<1> QED BY <1>15, <1>18 DEF T

-----------------------------------------------------------------------------
(* The invariant.                                                          *)

\* As many elements as there can be leave room for the slots of the children.
FewElements == MaxSize <= Most /\ MaxList <= Most

HeapInv == GoodHeap(heap)

LEMMA HeapInvHolds ==
  ASSUME FewElements
  PROVE  Spec => []HeapInv
<1>1. Init => HeapInv
  BY NewHeapIsGood DEF Init, HeapInv
<1>2. HeapInv /\ [Next]_vars => HeapInv'
  <2> SUFFICES ASSUME HeapInv, [Next]_vars PROVE HeapInv'
    OBVIOUS
  <2>1. ASSUME NEW x \in Value, Push(x) PROVE HeapInv'
    <3>1. heap.n < Most
      BY <2>1, HeapAssumption, WordBounds
         DEF FewElements, Push, HeapInv, GoodHeap, Heaps
    <3> QED BY <2>1, <3>1, PushedIsGood DEF Push, HeapInv
  <2>2. CASE Pop
    BY <2>2, PoppedIsGood DEF Pop, Bare, HeapInv
  <2>3. ASSUME NEW xs \in Lists, FromList(xs) PROVE HeapInv'
    <3>1. PICK k \in 0 .. MaxList : xs \in [1 .. k -> Value]
      BY DEF Lists
    <3>2. k \in Nat /\ k <= Most
      BY HeapAssumption, WordBounds DEF FewElements
    <3>3. xs \in Seq(Value) /\ Len(xs) <= Most
      BY <3>1, <3>2
    <3> QED BY <2>3, <3>3, HeapOfIsGood DEF FromList, HeapInv
  <2>4. CASE Peek \/ Length \/ ToSortedList \/ UNCHANGED vars
    BY <2>4 DEF Peek, Length, ToSortedList, vars, HeapInv
  <2> QED BY <2>1, <2>2, <2>3, <2>4 DEF Next
<1> QED BY <1>1, <1>2, PTL DEF Spec

(* A heap with at most 2^(Width - 1) elements is in order, whatever is     *)
(* pushed, popped and built: no hole that climbs or sinks runs out of fuel *)
(* on a block that was given another level, and no index of a child wraps. *)
THEOREM AlwaysOrdered ==
  ASSUME MaxSize <= 2 ^ (Width - 1), MaxList <= 2 ^ (Width - 1)
  PROVE  Spec => []HeapOrdered
<1>1. FewElements
  BY DEF FewElements, Most
<1>2. HeapInv => HeapOrdered
  <2> SUFFICES ASSUME HeapInv PROVE HeapOrdered
    OBVIOUS
  <2>1. \A i \in 0 .. heap.n - 1 :
          heap.slots[i] # NoValue /\ (i > 0 => heap.slots[Parent(i)] <= heap.slots[i])
    BY HeapAssumption DEF HeapInv, GoodHeap, Ordered
  <2> QED BY <2>1 DEF HeapOrdered, HeapInv, GoodHeap
<1> QED BY <1>1, <1>2, HeapInvHolds, PTL

-----------------------------------------------------------------------------
(* The intrusive lists.  C gives the nodes of every place, a root or the   *)
(* pool, as a sequence, and X holds the nodes a clear has yet to detach;   *)
(* World(w, C, X) says that the links of w spell exactly that.             *)

(* The node at a place of a sequence, None beyond its ends.                *)
At(c, k) == IF k \in 1 .. Len(c) THEN c[k] ELSE None

Links == [Node -> Node \cup {None}]

\* From h on, the links spell the nodes of c, each once.
Chained(links, h, c) ==
  /\ c \in Seq(Node)
  /\ \A i, j \in 1 .. Len(c) : c[i] = c[j] => i = j
  /\ h = At(c, 1)
  /\ \A k \in 1 .. Len(c) : links[c[k]] = At(c, k + 1)

BackChained(links, c) == \A k \in 1 .. Len(c) : links[c[k]] = At(c, k - 1)

LEMMA NodesOf ==
  ASSUME NEW c \in Seq(Node)
  PROVE  /\ Nodes(c) \subseteq Node
         /\ \A k \in 1 .. Len(c) : c[k] \in Nodes(c) /\ c[k] \in Node /\ c[k] # None
         /\ \A n \in Nodes(c) : \E k \in 1 .. Len(c) : n = c[k]
         /\ Len(c) \in Nat /\ (c = <<>> <=> Len(c) = 0)
         /\ None \notin Node
<1>1. DOMAIN c = 1 .. Len(c) /\ \A k \in 1 .. Len(c) : c[k] \in Node
  OBVIOUS
<1>2. None \notin Node
  BY IntrusiveListAssumption
<1> QED BY <1>1, <1>2 DEF Nodes

(* A sequence that does not repeat has at most as many places as there are *)
(* nodes.                                                                  *)
LEMMA ChainIsShort ==
  ASSUME NEW links, NEW h, NEW c, Chained(links, h, c)
  PROVE  Cardinality(Node) \in Nat /\ Len(c) <= Cardinality(Node)
<1>1. IsFiniteSet(Node)
  BY IntrusiveListAssumption
<1>2. PICK n \in Nat : n = Len(c)
  BY DEF Chained
<1>3. c \in Injection(1 .. n, Node)
  <2>1. c \in [1 .. n -> Node] /\ \A i, j \in 1 .. n : c[i] = c[j] => i = j
    BY <1>2 DEF Chained
  <2> QED BY <2>1 DEF Injection, IsInjective
<1>5. IsFiniteSet(1 .. n) /\ Cardinality(1 .. n) = n
  <2>1. Cardinality(1 .. n) = IF 1 > n THEN 0 ELSE n - 1 + 1
    BY FS_Interval
  <2>2. IsFiniteSet(1 .. n)
    BY FS_Interval
  <2> QED BY <2>1, <2>2
<1>6. Cardinality(Node) \in Nat
  BY <1>1, FS_CardinalityType
<1>7. Cardinality(1 .. n) <= Cardinality(Node)
  BY <1>1, <1>3, FS_Injection
<1> QED BY <1>2, <1>5, <1>6, <1>7

-----------------------------------------------------------------------------
(* The walk along a chain lists it.                                        *)

LEMMA WalkExists ==
  ASSUME NEW links \in Links, NEW K \in Nat
  PROVE  \E f : /\ \A k \in 0 .. K : f[k] \in [Node \cup {None} -> Seq(Node)]
                /\ f = [k \in 0 .. K |-> [m \in Node \cup {None} |->
                          IF k = 0 \/ m = None THEN <<>> ELSE <<m>> \o f[k - 1][links[m]]]]
<1>1. PICK M, T : M = Node \cup {None} /\ T = [M -> Seq(Node)]
  OBVIOUS
<1> DEFINE base == [m \in M |-> <<>>]
           step == [p \in (0 .. K - 1) \X T |->
                      [m \in M |-> IF m = None THEN <<>> ELSE <<m>> \o p[2][links[m]]]]
<1>2. base \in T
  BY <1>1
<1>3. ASSUME NEW p \in (0 .. K - 1) \X T
      PROVE  [m \in M |-> IF m = None THEN <<>> ELSE <<m>> \o p[2][links[m]]] \in T
  <2>1. PICK t \in T : t = p[2]
    OBVIOUS
  <2>2. ASSUME NEW m \in M, m # None PROVE <<m>> \o t[links[m]] \in Seq(Node)
    <3>1. m \in Node /\ links[m] \in M
      BY <1>1, <2>2 DEF Links
    <3>2. PICK s \in Seq(Node) : s = t[links[m]]
      BY <1>1, <3>1
    <3>3. <<m>> \in Seq(Node)
      BY <3>1
    <3>4. <<m>> \o s \in Seq(Node)
      BY <3>3
    <3> QED BY <3>2, <3>4
  <2>3. \A m \in M : (IF m = None THEN <<>> ELSE <<m>> \o t[links[m]]) \in Seq(Node)
    BY <2>2
  <2> QED BY <2>1, <2>3, <1>1
<1>4. step \in [(0 .. K - 1) \X T -> T]
  BY <1>3
<1>5. \A k \in 0 .. K - 1, t \in T :
        step[<<k, t>>] = [m \in M |-> IF m = None THEN <<>> ELSE <<m>> \o t[links[m]]]
  OBVIOUS
<1> HIDE DEF step
<1>6. PICK f : Runs(K, T, base, step, f)
  BY <1>2, <1>4, RunExists
<1>7. f \in [0 .. K -> T] /\ f[0] = base /\ \A k \in 0 .. K - 1 : f[k + 1] = step[<<k, f[k]>>]
  BY <1>6 DEF Runs
<1>8. ASSUME NEW k \in 0 .. K
      PROVE  f[k] = [m \in M |-> IF k = 0 \/ m = None THEN <<>> ELSE <<m>> \o f[k - 1][links[m]]]
  <2>1. CASE k = 0
    BY <2>1, <1>7
  <2>2. CASE k # 0
    <3>1. PICK j \in 0 .. K - 1 : j + 1 = k /\ j = k - 1 /\ j \in 0 .. K
      <4>1. k - 1 \in 0 .. K - 1 /\ (k - 1) + 1 = k /\ k - 1 \in 0 .. K
        BY <2>2
      <4> QED BY <4>1
    <3>2. f[k] = step[<<j, f[j]>>] /\ f[j] \in T
      BY <3>1, <1>7
    <3>3. f[k] = [m \in M |-> IF m = None THEN <<>> ELSE <<m>> \o f[j][links[m]]]
      BY <3>2, <1>5
    <3> QED BY <2>2, <3>1, <3>3
  <2> QED BY <2>1, <2>2
<1>9. f = [k \in 0 .. K |-> f[k]] /\ \A k \in 0 .. K : f[k] \in [M -> Seq(Node)]
  BY <1>1, <1>7
<1>10. f = [k \in 0 .. K |-> [m \in M |->
             IF k = 0 \/ m = None THEN <<>> ELSE <<m>> \o f[k - 1][links[m]]]]
  BY <1>8, <1>9
<1> QED BY <1>1, <1>9, <1>10

LEMMA WalkIs ==
  ASSUME NEW links \in Links, NEW h, NEW c, Chained(links, h, c)
  PROVE  Walk(links, h) = c
<1>1. PICK K \in Nat : K = Cardinality(Node) /\ Len(c) <= K
  BY ChainIsShort
<1> DEFINE Eq(f) == f = [k \in 0 .. K |-> [m \in Node \cup {None} |->
                          IF k = 0 \/ m = None THEN <<>> ELSE <<m>> \o f[k - 1][links[m]]]]
<1>2. \E f : Eq(f)
  BY WalkExists, ZenonT(40)
<1>3. PICK f : f = CHOOSE g : Eq(g)
  BY Zenon
<1>4. Eq(f)
  BY <1>2, <1>3, Zenon
<1>5. Walk(links, h) = f[K][h]
  BY <1>1, <1>3 DEF Walk
<1>6. PICK n \in Nat : n = Len(c)
  BY DEF Chained
<1>7. c \in Seq(Node) /\ h = At(c, 1)
      /\ \A k \in 1 .. n : c[k] \in Node /\ c[k] # None /\ links[c[k]] = At(c, k + 1)
  BY <1>6, NodesOf DEF Chained
<1>8. \A k \in 0 .. K, m \in Node \cup {None} :
        f[k][m] = IF k = 0 \/ m = None THEN <<>> ELSE <<m>> \o f[k - 1][links[m]]
  <2> SUFFICES ASSUME NEW k \in 0 .. K, NEW m \in Node \cup {None}
               PROVE  f[k][m] = IF k = 0 \/ m = None THEN <<>> ELSE <<m>> \o f[k - 1][links[m]]
    OBVIOUS
  <2>1. f[k] = [x \in Node \cup {None} |->
                 IF k = 0 \/ x = None THEN <<>> ELSE <<x>> \o f[k - 1][links[x]]]
    BY <1>4
  <2> QED BY ONLY m \in Node \cup {None}, <2>1
<1> HIDE DEF Eq
<1> DEFINE Suffix(i) == SubSeq(c, i, n)
           J == {k \in 0 .. K : \A i \in 1 .. n + 1 : n + 1 - i <= k => f[k][At(c, i)] = Suffix(i)}
<1>9. At(c, n + 1) = None /\ Suffix(n + 1) = <<>> /\ \A i \in 1 .. n : At(c, i) = c[i]
  BY <1>6, <1>7 DEF At
<1>10. \A i \in 1 .. n : Suffix(i) = <<c[i]>> \o Suffix(i + 1)
  BY <1>6, <1>7
<1>11. \A i \in 1 .. n + 1 : At(c, i) \in Node \cup {None}
  BY <1>7, <1>9
<1> HIDE DEF Suffix
<1>12. 0 \in J
  <2> SUFFICES ASSUME NEW i \in 1 .. n + 1, n + 1 - i <= 0 PROVE f[0][At(c, i)] = Suffix(i)
    BY <1>1
  <2>1. i = n + 1 /\ 0 \in 0 .. K
    OBVIOUS
  <2>2. f[0][At(c, i)] = <<>>
    BY <2>1, <1>8, <1>11
  <2> QED BY <2>1, <2>2, <1>9
<1>13. ASSUME NEW k \in 0 .. K - 1, k \in J PROVE k + 1 \in J
  <2> SUFFICES ASSUME NEW i \in 1 .. n + 1, n + 1 - i <= k + 1 PROVE f[k + 1][At(c, i)] = Suffix(i)
    OBVIOUS
  <2>1. k + 1 \in 0 .. K /\ k + 1 # 0 /\ (k + 1) - 1 = k
    OBVIOUS
  <2>2. CASE i = n + 1
    BY <2>1, <2>2, <1>8, <1>9, <1>11
  <2>3. CASE i # n + 1
    <3>1. i \in 1 .. n /\ i + 1 \in 1 .. n + 1 /\ n + 1 - (i + 1) <= k
      BY <2>3
    <3>2. f[k][At(c, i + 1)] = Suffix(i + 1)
      BY <3>1, <1>13
    <3>3. f[k + 1][c[i]] = <<c[i]>> \o f[k][links[c[i]]]
      <4>1. PICK m \in Node : m = c[i] /\ m # None /\ m \in Node \cup {None}
        BY <3>1, <1>7
      <4>2. f[k + 1][m] = <<m>> \o f[(k + 1) - 1][links[m]]
        BY <2>1, <4>1, <1>8
      <4> QED BY <2>1, <4>1, <4>2
    <3> QED BY <3>1, <3>2, <3>3, <1>7, <1>9, <1>10, ZenonT(40)
  <2> QED BY <2>2, <2>3
<1> HIDE DEF J
<1>14. K \in J
  <2>1. \A k \in 0 .. K : k \in J
    BY <1>12, <1>13, BoundedInduction
  <2> QED BY <2>1
<1>15. f[K][At(c, 1)] = Suffix(1)
  BY <1>1, <1>6, <1>14 DEF J
<1>16. Suffix(1) = c
  BY <1>6, <1>7 DEF Suffix
<1> QED BY <1>5, <1>7, <1>15, <1>16

-----------------------------------------------------------------------------
(* Chains that change.                                                     *)

LEMMA ChainFrame ==
  ASSUME NEW a, NEW b, NEW h, NEW c, Chained(a, h, c),
         \A m \in Nodes(c) : b[m] = a[m]
  PROVE  Chained(b, h, c)
<1>1. \A k \in 1 .. Len(c) : c[k] \in Nodes(c)
  BY NodesOf DEF Chained
<1> QED BY <1>1 DEF Chained

LEMMA BackFrame ==
  ASSUME NEW a, NEW b, NEW c \in Seq(Node), BackChained(a, c),
         \A m \in Nodes(c) : b[m] = a[m]
  PROVE  BackChained(b, c)
<1>1. \A k \in 1 .. Len(c) : c[k] \in Nodes(c)
  BY NodesOf
<1> QED BY <1>1 DEF BackChained

(* A node before a chain.                                                  *)
LEMMA NodeBefore ==
  ASSUME NEW c \in Seq(Node), NEW n \in Node
  PROVE  /\ <<n>> \o c \in Seq(Node) /\ Len(<<n>> \o c) = Len(c) + 1
         /\ Nodes(<<n>> \o c) = Nodes(c) \cup {n}
         /\ At(<<n>> \o c, 1) = n /\ At(<<n>> \o c, 0) = None
         /\ \A k \in Nat : k # 0 => At(<<n>> \o c, k + 1) = At(c, k)
         /\ Tail(<<n>> \o c) = c /\ <<n>> \o c # <<>>
<1>1. PICK d : d = <<n>> \o c
  OBVIOUS
<1>2. d \in Seq(Node) /\ Len(d) = Len(c) + 1 /\ d[1] = n
      /\ \A k \in 1 .. Len(c) : d[k + 1] = c[k]
  BY <1>1
<1>3. Nodes(d) = Nodes(c) \cup {n}
  <2>1. ASSUME NEW m \in Nodes(d) PROVE m \in Nodes(c) \cup {n}
    <3>1. PICK k \in 1 .. Len(d) : m = d[k]
      BY <1>2, <2>1, NodesOf
    <3>2. CASE k = 1
      BY <3>1, <3>2, <1>2
    <3>3. CASE k # 1
      <4>1. PICK j \in 1 .. Len(c) : k = j + 1
        <5>1. k - 1 \in 1 .. Len(c) /\ k = (k - 1) + 1
          BY <3>3, <1>2
        <5> QED BY <5>1
      <4>2. m = c[j]
        BY <3>1, <4>1, <1>2
      <4> QED BY <4>1, <4>2, NodesOf
    <3> QED BY <3>2, <3>3
  <2>2. ASSUME NEW m \in Nodes(c) PROVE m \in Nodes(d)
    <3>1. PICK k \in 1 .. Len(c) : m = c[k]
      BY NodesOf
    <3>2. k + 1 \in 1 .. Len(d) /\ m = d[k + 1]
      BY <3>1, <1>2
    <3> QED BY <3>2, <1>2, NodesOf
  <2>3. n \in Nodes(d)
    <3>1. 1 \in 1 .. Len(d)
      BY <1>2
    <3> QED BY <3>1, <1>2, NodesOf
  <2> QED BY <2>1, <2>2, <2>3
<1>4. At(d, 1) = n /\ At(d, 0) = None
  BY <1>2 DEF At
<1>5. \A k \in Nat : k # 0 => At(d, k + 1) = At(c, k)
  BY <1>2 DEF At
<1>6. Tail(d) = c /\ d # <<>>
  BY <1>1
<1> QED BY <1>1, <1>2, <1>3, <1>4, <1>5, <1>6

LEMMA ChainCons ==
  ASSUME NEW a, NEW b, NEW h, NEW c, Chained(a, h, c),
         NEW n \in Node, n \notin Nodes(c),
         \A m \in Nodes(c) : b[m] = a[m], b[n] = h
  PROVE  Chained(b, n, <<n>> \o c)
<1>0. c \in Seq(Node)
  BY DEF Chained
<1>1. PICK d : d = <<n>> \o c
  OBVIOUS
<1>2. /\ d \in Seq(Node) /\ Len(d) = Len(c) + 1 /\ At(d, 1) = n
      /\ \A k \in Nat : k # 0 => At(d, k + 1) = At(c, k)
      /\ d[1] = n /\ \A k \in 1 .. Len(c) : d[k + 1] = c[k]
  BY <1>0, <1>1, NodeBefore
<1>3. \A k \in 1 .. Len(d) : k = 1 \/ \E j \in 1 .. Len(c) : k = j + 1
  <2> SUFFICES ASSUME NEW k \in 1 .. Len(d), k # 1 PROVE \E j \in 1 .. Len(c) : k = j + 1
    OBVIOUS
  <2>1. k - 1 \in 1 .. Len(c) /\ k = (k - 1) + 1
    BY <1>2
  <2> QED BY <2>1
<1>4. \A k \in 1 .. Len(c) : c[k] # n /\ c[k] \in Nodes(c)
  BY <1>0, NodesOf
<1>5. \A i, j \in 1 .. Len(d) : d[i] = d[j] => i = j
  <2> SUFFICES ASSUME NEW i \in 1 .. Len(d), NEW j \in 1 .. Len(d), d[i] = d[j] PROVE i = j
    OBVIOUS
  <2>1. CASE i = 1
    <3>1. ASSUME NEW l \in 1 .. Len(c), j = l + 1 PROVE FALSE
      <4>1. d[l + 1] = c[l] /\ c[l] # n /\ d[1] = n
        BY <1>2, <1>4
      <4>2. d[1] = d[l + 1]
        BY <2>1, <3>1
      <4> QED BY <4>1, <4>2
    <3> QED BY <2>1, <3>1, <1>3
  <2>3. CASE j = 1
    <3>1. ASSUME NEW l \in 1 .. Len(c), i = l + 1 PROVE FALSE
      <4>1. d[l + 1] = c[l] /\ c[l] # n /\ d[1] = n
        BY <1>2, <1>4
      <4>2. d[1] = d[l + 1]
        BY <2>3, <3>1
      <4> QED BY <4>1, <4>2
    <3> QED BY <2>3, <3>1, <1>3
  <2>2. CASE i # 1 /\ j # 1
    <3>1. PICK k \in 1 .. Len(c) : i = k + 1
      BY <2>2, <1>3
    <3>2. PICK l \in 1 .. Len(c) : j = l + 1
      BY <2>2, <1>3
    <3>3. c[k] = c[l]
      BY <3>1, <3>2, <1>2
    <3> QED BY <3>1, <3>2, <3>3 DEF Chained
  <2> QED BY <2>1, <2>2, <2>3
<1>6. \A k \in 1 .. Len(d) : b[d[k]] = At(d, k + 1)
  <2> SUFFICES ASSUME NEW k \in 1 .. Len(d) PROVE b[d[k]] = At(d, k + 1)
    OBVIOUS
  <2>1. CASE k = 1
    BY <2>1, <1>2 DEF Chained
  <2>2. CASE k # 1
    <3>1. PICK j \in 1 .. Len(c) : k = j + 1
      BY <2>2, <1>3
    <3>2. b[d[k]] = At(c, j + 1)
      BY <3>1, <1>2, <1>4 DEF Chained
    <3>3. j + 1 \in Nat /\ j + 1 # 0
      OBVIOUS
    <3> QED BY <3>1, <3>2, <3>3, <1>2
  <2> QED BY <2>1, <2>2
<1> QED BY <1>1, <1>2, <1>5, <1>6 DEF Chained

LEMMA BackCons ==
  ASSUME NEW a, NEW b, NEW c \in Seq(Node), BackChained(a, c),
         \A i, j \in 1 .. Len(c) : c[i] = c[j] => i = j,
         NEW n \in Node, n \notin Nodes(c),
         \A m \in Nodes(c) : b[m] = IF m = At(c, 1) THEN n ELSE a[m],
         b[n] = None
  PROVE  BackChained(b, <<n>> \o c)
<1>1. PICK d : d = <<n>> \o c
  OBVIOUS
<1>2. /\ d \in Seq(Node) /\ Len(d) = Len(c) + 1 /\ At(d, 1) = n /\ At(d, 0) = None
      /\ \A k \in Nat : k # 0 => At(d, k + 1) = At(c, k)
      /\ d[1] = n /\ \A k \in 1 .. Len(c) : d[k + 1] = c[k]
  BY <1>1, NodeBefore
<1>3. ASSUME NEW k \in 1 .. Len(d) PROVE b[d[k]] = At(d, k - 1)
  <2>1. CASE k = 1
    BY <2>1, <1>2
  <2>2. CASE k # 1
    <3>1. PICK j \in 1 .. Len(c) : k = j + 1 /\ j = k - 1
      <4>1. k - 1 \in 1 .. Len(c) /\ k = (k - 1) + 1
        BY <1>2, <2>2
      <4> QED BY <4>1
    <3>2. c[j] \in Nodes(c) /\ d[k] = c[j] /\ 1 \in 1 .. Len(c)
      <4>1. c[j] \in Nodes(c) /\ Len(c) \in Nat
        BY <3>1, NodesOf
      <4>2. d[k] = c[j]
        BY <3>1, <1>2
      <4>3. 1 \in 1 .. Len(c)
        BY <3>1, <4>1
      <4> QED BY <4>1, <4>2, <4>3
    <3>3. CASE j = 1
      <4>1. At(c, 1) = c[1]
        BY <3>2 DEF At
      <4> QED BY <3>1, <3>2, <3>3, <4>1, <1>2
    <3>4. CASE j # 1
      <4>1. At(c, 1) # c[j]
        BY <3>2, <3>4 DEF At
      <4>2. b[d[k]] = At(c, j - 1)
        BY <3>2, <4>1 DEF BackChained
      <4>3. j - 1 \in Nat /\ j - 1 # 0 /\ (j - 1) + 1 = k - 1
        BY <3>1, <3>4
      <4> QED BY <4>2, <4>3, <1>2
    <3> QED BY <3>3, <3>4
  <2> QED BY <2>1, <2>2
<1> QED BY <1>1, <1>3 DEF BackChained

(* A chain without its first node.                                         *)
LEMMA ChainTail ==
  ASSUME NEW a, NEW h, NEW c, Chained(a, h, c), c # <<>>
  PROVE  /\ c[1] \in Node /\ h = c[1] /\ At(c, 1) = c[1] /\ c[1] \in Nodes(c)
         /\ Tail(c) \in Seq(Node) /\ Len(Tail(c)) = Len(c) - 1
         /\ Nodes(Tail(c)) = Nodes(c) \ {c[1]}
         /\ \A k \in Nat : k # 0 => At(Tail(c), k) = At(c, k + 1)
         /\ c = <<c[1]>> \o Tail(c)
         /\ Chained(a, a[c[1]], Tail(c))
<1>a. PICK n \in Nat : n = Len(c)
  BY DEF Chained
<1>b. PICK d : d = Tail(c)
  OBVIOUS
<1>1. d = Tail(c) /\ n = Len(c)
  BY <1>a, <1>b
<1>2. c \in Seq(Node) /\ n # 0 /\ 1 \in 1 .. n
  BY <1>1 DEF Chained
<1>3. d \in Seq(Node) /\ Len(d) = n - 1 /\ \A k \in 1 .. n - 1 : d[k] = c[k + 1]
  BY <1>1, <1>2
<1>4. c[1] \in Node /\ h = c[1] /\ At(c, 1) = c[1] /\ c[1] \in Nodes(c)
  BY <1>1, <1>2, NodesOf DEF Chained, At
<1>5. \A k \in Nat : k # 0 => At(d, k) = At(c, k + 1)
  BY <1>1, <1>3 DEF At
<1>6. Nodes(d) = Nodes(c) \ {c[1]}
  <2>1. ASSUME NEW m \in Nodes(d) PROVE m \in Nodes(c) \ {c[1]}
    <3>1. PICK k \in 1 .. n - 1 : m = d[k]
      BY <1>3, <2>1, NodesOf
    <3>2. m = c[k + 1] /\ k + 1 \in 1 .. n /\ k + 1 # 1
      BY <3>1, <1>3
    <3>3. m # c[1]
      BY <3>2, <1>1, <1>2 DEF Chained
    <3> QED BY <3>2, <3>3, <1>1, <1>2, NodesOf
  <2>2. ASSUME NEW m \in Nodes(c), m # c[1] PROVE m \in Nodes(d)
    <3>1. PICK k \in 1 .. n : m = c[k]
      BY <1>1, <1>2, NodesOf
    <3>2. k - 1 \in 1 .. n - 1 /\ (k - 1) + 1 = k
      BY <3>1, <2>2
    <3>3. m = d[k - 1]
      BY <3>1, <3>2, <1>3
    <3> QED BY <3>2, <3>3, <1>3, NodesOf
  <2> QED BY <2>1, <2>2
<1>7. \A i, j \in 1 .. Len(d) : d[i] = d[j] => i = j
  <2> SUFFICES ASSUME NEW i \in 1 .. n - 1, NEW j \in 1 .. n - 1, d[i] = d[j] PROVE i = j
    BY <1>3
  <2>1. c[i + 1] = c[j + 1] /\ i + 1 \in 1 .. n /\ j + 1 \in 1 .. n
    BY <1>3
  <2>2. i + 1 = j + 1
    BY <2>1, <1>1 DEF Chained
  <2> QED BY <2>2
<1>8. a[c[1]] = At(d, 1)
  <2>1. a[c[1]] = At(c, 1 + 1)
    BY <1>1, <1>2 DEF Chained
  <2> QED BY <2>1, <1>5
<1>9. ASSUME NEW k \in 1 .. Len(d) PROVE a[d[k]] = At(d, k + 1)
  <2>1. d[k] = c[k + 1] /\ k + 1 \in 1 .. n /\ k + 1 \in Nat /\ k + 1 # 0
    BY <1>3
  <2>2. a[c[k + 1]] = At(c, (k + 1) + 1)
    BY <2>1, <1>1 DEF Chained
  <2> QED BY <2>1, <2>2, <1>5
<1>10. c = <<c[1]>> \o d
  BY <1>1, <1>2
<1>11. Chained(a, a[c[1]], d)
  BY <1>3, <1>7, <1>8, <1>9 DEF Chained
<1> QED BY <1>1, <1>3, <1>4, <1>5, <1>6, <1>10, <1>11

(* A sequence without one of its places.                                   *)
LEMMA Shortened ==
  ASSUME NEW c \in Seq(Node), NEW i \in 1 .. Len(c)
  PROVE  /\ RemoveAt(c, i) \in Seq(Node) /\ Len(RemoveAt(c, i)) = Len(c) - 1
         /\ \A k \in 1 .. Len(c) - 1 :
              RemoveAt(c, i)[k] = IF k < i THEN c[k] ELSE c[k + 1]
         /\ \A k \in Nat :
              At(RemoveAt(c, i), k) = IF k < i THEN At(c, k) ELSE At(c, k + 1)
<1>a. PICK n \in Nat : n = Len(c)
  OBVIOUS
<1>b. PICK d : d = RemoveAt(c, i)
  OBVIOUS
<1>1. d = RemoveAt(c, i) /\ n = Len(c)
  BY <1>a, <1>b
<1>2. PICK s, t : s = SubSeq(c, 1, i - 1) /\ t = SubSeq(c, i + 1, n)
  OBVIOUS
<1>3. s \in Seq(Node) /\ Len(s) = i - 1 /\ \A k \in 1 .. i - 1 : s[k] = c[k]
  BY <1>1, <1>2
<1>4. t \in Seq(Node) /\ Len(t) = n - i /\ \A k \in 1 .. n - i : t[k] = c[k + i]
  BY <1>1, <1>2
<1>5. d = s \o t
  BY <1>1, <1>2 DEF RemoveAt
<1>6. d \in Seq(Node) /\ Len(d) = n - 1
  BY <1>1, <1>3, <1>4, <1>5
<1>7. ASSUME NEW k \in 1 .. n - 1 PROVE d[k] = IF k < i THEN c[k] ELSE c[k + 1]
  <2>1. CASE k < i
    BY <2>1, <1>3, <1>4, <1>5
  <2>2. CASE ~ k < i
    <3>1. d[k] = t[k - (i - 1)] /\ k - (i - 1) \in 1 .. n - i
      BY <2>2, <1>1, <1>3, <1>4, <1>5
    <3>2. t[k - (i - 1)] = c[(k - (i - 1)) + i]
      BY <3>1, <1>4
    <3>3. (k - (i - 1)) + i = k + 1
      OBVIOUS
    <3> QED BY <2>2, <3>1, <3>2, <3>3
  <2> QED BY <2>1, <2>2
<1>8. ASSUME NEW k \in Nat PROVE At(d, k) = IF k < i THEN At(c, k) ELSE At(c, k + 1)
  <2>1. CASE k \in 1 .. n - 1
    BY <2>1, <1>1, <1>6, <1>7 DEF At
  <2>2. CASE k \notin 1 .. n - 1
    BY <2>2, <1>1, <1>6 DEF At
  <2> QED BY <2>1, <2>2
<1> QED BY <1>1, <1>6, <1>7, <1>8

(* A node leaves a chain: the links of its neighbours are written.         *)
LEMMA ChainWithout ==
  ASSUME NEW a, NEW b, NEW h, NEW c, Chained(a, h, c), NEW i \in 1 .. Len(c),
         \A m \in Nodes(c) \ {c[i]} : b[m] = IF m = At(c, i - 1) THEN At(c, i + 1) ELSE a[m]
  PROVE  /\ Chained(b, At(RemoveAt(c, i), 1), RemoveAt(c, i))
         /\ Nodes(RemoveAt(c, i)) = Nodes(c) \ {c[i]}
<1>0. c \in Seq(Node)
  BY DEF Chained
<1>a. PICK n \in Nat : n = Len(c)
  BY <1>0
<1>b. PICK d : d = RemoveAt(c, i)
  OBVIOUS
<1>1. d = RemoveAt(c, i) /\ n = Len(c)
  BY <1>a, <1>b
<1>2. d \in Seq(Node) /\ Len(d) = n - 1 /\ n \in Nat /\ i \in 1 .. n
      /\ (\A k \in 1 .. n - 1 : d[k] = IF k < i THEN c[k] ELSE c[k + 1])
      /\ (\A k \in Nat : At(d, k) = IF k < i THEN At(c, k) ELSE At(c, k + 1))
  BY <1>0, <1>1, Shortened
<1>3. \A k, l \in 1 .. n : c[k] = c[l] => k = l
  BY <1>1 DEF Chained
<1>4. \A k \in 1 .. n : c[k] \in Nodes(c) /\ c[k] # None /\ a[c[k]] = At(c, k + 1)
  BY <1>0, <1>1, NodesOf DEF Chained
<1>5. \A k \in 1 .. n : c[k] = At(c, i - 1) <=> k = i - 1
  BY <1>1, <1>2, <1>3, <1>4 DEF At
<1>6. \A k \in 1 .. n : k # i => b[c[k]] = IF k = i - 1 THEN At(c, i + 1) ELSE At(c, k + 1)
  BY <1>2, <1>3, <1>4, <1>5
<1>e. i \in 1 .. n /\ n \in Nat /\ i \in Nat
  BY <1>1
<1>c. \A k \in 1 .. n - 1 : d[k] = IF k < i THEN c[k] ELSE c[k + 1]
  BY <1>2
<1>d. \A k \in 1 .. n - 1 : k \in 1 .. n /\ k + 1 \in 1 .. n
  BY <1>2
<1>7. \A k, l \in 1 .. Len(d) : d[k] = d[l] => k = l
  <2> SUFFICES ASSUME NEW k \in 1 .. n - 1, NEW l \in 1 .. n - 1, d[k] = d[l] PROVE k = l
    BY <1>2
  <2>1. PICK kk \in 1 .. n : kk = (IF k < i THEN k ELSE k + 1) /\ d[k] = c[kk]
    BY <1>c, <1>d
  <2>2. PICK ll \in 1 .. n : ll = (IF l < i THEN l ELSE l + 1) /\ d[l] = c[ll]
    BY <1>c, <1>d
  <2>3. kk = ll
    BY <2>1, <2>2, <1>3
  <2> QED BY ONLY <2>1, <2>2, <2>3, k \in 1 .. n - 1, l \in 1 .. n - 1, <1>e
<1>8. ASSUME NEW k \in 1 .. Len(d) PROVE b[d[k]] = At(d, k + 1)
  <2>0. k \in 1 .. n - 1 /\ k + 1 \in Nat /\ k \in 1 .. n /\ k + 1 \in 1 .. n
    BY <1>2
  <2>1. CASE k < i
    <3>1. d[k] = c[k] /\ k # i
      BY ONLY <2>0, <2>1, <1>c, <1>e
    <3>2. b[d[k]] = IF k = i - 1 THEN At(c, i + 1) ELSE At(c, k + 1)
      BY <2>0, <3>1, <1>6
    <3>3. At(d, k + 1) = IF k + 1 < i THEN At(c, k + 1) ELSE At(c, (k + 1) + 1)
      BY <2>0, <1>2
    <3>4. k + 1 < i \/ (k = i - 1 /\ (k + 1) + 1 = i + 1 /\ ~ (k + 1 < i))
      BY <2>0, <2>1
    <3> QED BY <2>0, <3>2, <3>3, <3>4
  <2>2. CASE ~ k < i
    <3>1. d[k] = c[k + 1] /\ k + 1 # i /\ k + 1 # i - 1
      BY ONLY <2>0, <2>2, <1>c, <1>e
    <3>2. b[d[k]] = At(c, (k + 1) + 1)
      BY <2>0, <3>1, <1>6
    <3>3. At(d, k + 1) = At(c, (k + 1) + 1)
      BY <2>0, <2>2, <1>2
    <3> QED BY <3>2, <3>3
  <2> QED BY <2>1, <2>2
<1>9. Nodes(d) = Nodes(c) \ {c[i]}
  <2>1. ASSUME NEW m \in Nodes(d) PROVE m \in Nodes(c) \ {c[i]}
    <3>1. PICK k \in 1 .. n - 1 : m = d[k]
      BY <1>2, <2>1, NodesOf
    <3>2. PICK l \in 1 .. n : l = (IF k < i THEN k ELSE k + 1)
      BY <1>d
    <3>3. m = c[l] /\ l # i
      <4>1. m = c[l]
        BY <3>1, <3>2, <1>c
      <4> QED BY ONLY <3>2, <4>1, k \in 1 .. n - 1, <1>e
    <3> QED BY <3>2, <3>3, <1>2, <1>3, <1>4
  <2>2. ASSUME NEW m \in Nodes(c), m # c[i] PROVE m \in Nodes(d)
    <3>1. PICK k \in 1 .. n : m = c[k]
      BY <1>0, <1>1, NodesOf
    <3>2. PICK l \in 1 .. n - 1 : m = d[l]
      <4>1. CASE k < i
        <5>1. k \in 1 .. n - 1 /\ d[k] = c[k]
          BY <4>1, <1>2
        <5> QED BY <5>1, <3>1
      <4>2. CASE ~ k < i
        <5>0. k # i
          BY <3>1, <2>2
        <5>1. k - 1 \in 1 .. n - 1 /\ ~ (k - 1 < i) /\ (k - 1) + 1 = k
          BY <4>2, <5>0, <1>2
        <5>2. d[k - 1] = c[(k - 1) + 1]
          BY <5>1, <1>2
        <5> QED BY <5>1, <5>2, <3>1
      <4> QED BY <4>1, <4>2
    <3> QED BY <3>2, <1>2, NodesOf
  <2> QED BY <2>1, <2>2
<1> QED BY <1>1, <1>2, <1>7, <1>8, <1>9 DEF Chained

LEMMA BackWithout ==
  ASSUME NEW a, NEW b, NEW c \in Seq(Node), BackChained(a, c), NEW i \in 1 .. Len(c),
         \A k, l \in 1 .. Len(c) : c[k] = c[l] => k = l,
         \A m \in Nodes(c) \ {c[i]} : b[m] = IF m = At(c, i + 1) THEN At(c, i - 1) ELSE a[m]
  PROVE  BackChained(b, RemoveAt(c, i))
<1>a. PICK n \in Nat : n = Len(c)
  OBVIOUS
<1>b. PICK d : d = RemoveAt(c, i)
  OBVIOUS
<1>1. d = RemoveAt(c, i) /\ n = Len(c)
  BY <1>a, <1>b
<1>2. d \in Seq(Node) /\ Len(d) = n - 1 /\ n \in Nat /\ i \in 1 .. n
      /\ (\A k \in 1 .. n - 1 : d[k] = IF k < i THEN c[k] ELSE c[k + 1])
      /\ (\A k \in Nat : At(d, k) = IF k < i THEN At(c, k) ELSE At(c, k + 1))
  BY <1>1, Shortened
<1>3. \A k, l \in 1 .. n : c[k] = c[l] => k = l
  BY <1>1
<1>4. \A k \in 1 .. n : c[k] \in Nodes(c) /\ c[k] # None /\ a[c[k]] = At(c, k - 1)
  BY <1>1, NodesOf DEF BackChained
<1>e. i \in 1 .. n /\ n \in Nat /\ i \in Nat
  BY <1>1
<1>c. \A k \in 1 .. n - 1 : d[k] = IF k < i THEN c[k] ELSE c[k + 1]
  BY <1>2
<1>5. \A k \in 1 .. n : c[k] = At(c, i + 1) <=> k = i + 1
  BY <1>1, <1>2, <1>3, <1>4 DEF At
<1>6. \A k \in 1 .. n : k # i => b[c[k]] = IF k = i + 1 THEN At(c, i - 1) ELSE At(c, k - 1)
  BY <1>2, <1>3, <1>4, <1>5
<1>8. ASSUME NEW k \in 1 .. Len(d) PROVE b[d[k]] = At(d, k - 1)
  <2>0. k \in 1 .. n - 1 /\ k - 1 \in Nat /\ k \in 1 .. n /\ k + 1 \in 1 .. n
    BY <1>2
  <2>1. CASE k < i
    <3>1. d[k] = c[k] /\ k # i /\ k # i + 1
      BY ONLY <2>0, <2>1, <1>c, <1>e
    <3>2. b[d[k]] = At(c, k - 1)
      BY <2>0, <3>1, <1>6
    <3>3. At(d, k - 1) = At(c, k - 1)
      BY <2>0, <2>1, <1>2
    <3> QED BY <3>2, <3>3
  <2>2. CASE ~ k < i
    <3>1. d[k] = c[k + 1] /\ k + 1 # i
      BY ONLY <2>0, <2>2, <1>c, <1>e
    <3>2. b[d[k]] = IF k + 1 = i + 1 THEN At(c, i - 1) ELSE At(c, (k + 1) - 1)
      BY <2>0, <3>1, <1>6
    <3>3. At(d, k - 1) = IF k - 1 < i THEN At(c, k - 1) ELSE At(c, (k - 1) + 1)
      BY <2>0, <1>2
    <3>4. \/ k + 1 = i + 1 /\ k - 1 < i /\ k - 1 = i - 1
          \/ k + 1 # i + 1 /\ ~ (k - 1 < i) /\ (k - 1) + 1 = (k + 1) - 1
      BY <2>0, <2>2
    <3> QED BY <2>0, <3>2, <3>3, <3>4
  <2> QED BY <2>1, <2>2
<1> QED BY <1>1, <1>8 DEF BackChained

-----------------------------------------------------------------------------
(* The places of nodes: the list of each root, and the pool under None.    *)

Place == Root \cup {None}

Loose(C, X) == {n \in Node \ X : \A p \in Place : n \notin Nodes(C[p])}

\* The links spell the chain of each place; the nodes of X are being detached.
Placed(nx, pv, C, X) ==
  /\ nx \in Links /\ pv \in Links /\ C \in [Place -> Seq(Node)] /\ X \subseteq Node
  /\ \A p \in Place : Chained(nx, At(C[p], 1), C[p])
  /\ \A r \in Root : BackChained(pv, C[r])
  /\ \A n \in Nodes(C[None]) : pv[n] = None
  /\ \A p, q \in Place : p # q => Nodes(C[p]) \cap Nodes(C[q]) = {}
  /\ \A p \in Place : Nodes(C[p]) \cap X = {}
  /\ \A n \in Loose(C, X) : nx[n] = None /\ pv[n] = None

LEMMA Places == None \in Place /\ None \notin Root /\ None \notin Node /\ Root \subseteq Place
                /\ \A p \in Place : p = None \/ p \in Root
BY IntrusiveListAssumption DEF Place

LEMMA PlaceChanges ==
  ASSUME NEW nx, NEW pv, NEW C, NEW X, Placed(nx, pv, C, X),
         NEW p \in Place, NEW d, NEW nx2 \in Links, NEW pv2 \in Links,
         Chained(nx2, At(d, 1), d),
         p # None => BackChained(pv2, d),
         p = None => \A n \in Nodes(d) : pv2[n] = None,
         Nodes(d) \subseteq Nodes(C[p]) \cup Loose(C, X),
         \A m \in Node : m \notin Nodes(C[p]) \cup Nodes(d) => nx2[m] = nx[m] /\ pv2[m] = pv[m],
         \A m \in Nodes(C[p]) \ Nodes(d) : nx2[m] = None /\ pv2[m] = None
  PROVE  /\ Placed(nx2, pv2, [C EXCEPT ![p] = d], X)
         /\ \A m \in X : nx2[m] = nx[m] /\ pv2[m] = pv[m]
<1>1. d \in Seq(Node)
  BY DEF Chained
<1>2. /\ C \in [Place -> Seq(Node)] /\ X \subseteq Node
      /\ \A q \in Place : Chained(nx, At(C[q], 1), C[q])
      /\ \A r \in Root : BackChained(pv, C[r])
      /\ \A n \in Nodes(C[None]) : pv[n] = None
      /\ \A q, r \in Place : q # r => Nodes(C[q]) \cap Nodes(C[r]) = {}
      /\ \A q \in Place : Nodes(C[q]) \cap X = {}
      /\ \A n \in Loose(C, X) : nx[n] = None /\ pv[n] = None
  BY DEF Placed
<1>3. PICK E : E = [C EXCEPT ![p] = d]
  OBVIOUS
<1>4. E \in [Place -> Seq(Node)] /\ E[p] = d /\ \A q \in Place : q # p => E[q] = C[q]
  BY <1>1, <1>2, <1>3
<1>5. ASSUME NEW q \in Place, q # p
      PROVE  /\ Nodes(C[q]) \cap (Nodes(C[p]) \cup Nodes(d)) = {}
             /\ \A m \in Nodes(C[q]) : m \in Node /\ nx2[m] = nx[m] /\ pv2[m] = pv[m]
  <2>1. Nodes(C[q]) \cap Nodes(C[p]) = {}
    BY <1>2, <1>5
  <2>2. Nodes(C[q]) \cap Loose(C, X) = {}
    BY DEF Loose
  <2>3. Nodes(C[q]) \subseteq Node
    BY <1>2, NodesOf
  <2> QED BY <2>1, <2>2, <2>3
<1>6. ASSUME NEW q \in Place PROVE Chained(nx2, At(E[q], 1), E[q])
  <2>1. CASE q = p
    BY <2>1, <1>4
  <2>2. CASE q # p
    <3>1. Chained(nx, At(C[q], 1), C[q])
      BY <1>2
    <3>2. \A m \in Nodes(C[q]) : nx2[m] = nx[m]
      BY <2>2, <1>5
    <3>3. Chained(nx2, At(C[q], 1), C[q])
      BY <3>1, <3>2, ChainFrame
    <3> QED BY <3>3, <2>2, <1>4
  <2> QED BY <2>1, <2>2
<1>7. ASSUME NEW r \in Root PROVE BackChained(pv2, E[r])
  <2>0. r \in Place /\ r # None
    BY Places
  <2>1. CASE r = p
    BY <2>0, <2>1, <1>4
  <2>2. CASE r # p
    <3>1. C[r] \in Seq(Node) /\ BackChained(pv, C[r])
      BY <2>0, <1>2
    <3>2. \A m \in Nodes(C[r]) : pv2[m] = pv[m]
      BY <2>0, <2>2, <1>5
    <3>3. BackChained(pv2, C[r])
      BY <3>1, <3>2, BackFrame
    <3> QED BY <3>3, <2>0, <2>2, <1>4
  <2> QED BY <2>1, <2>2
<1>8. \A n \in Nodes(E[None]) : pv2[n] = None
  <2>0. None \in Place
    BY Places
  <2>1. CASE p = None
    BY <2>1, <1>4
  <2>2. CASE p # None
    BY <2>0, <2>2, <1>2, <1>4, <1>5
  <2> QED BY <2>1, <2>2
<1>9. ASSUME NEW q \in Place, NEW r \in Place, q # r
      PROVE  Nodes(E[q]) \cap Nodes(E[r]) = {}
  <2>1. CASE q = p
    BY <2>1, <1>4, <1>5, <1>9
  <2>2. CASE r = p
    BY <2>2, <1>4, <1>5, <1>9
  <2>3. CASE q # p /\ r # p
    BY <2>3, <1>2, <1>4, <1>9
  <2> QED BY <2>1, <2>2, <2>3
<1>10. Nodes(d) \cap X = {}
  BY <1>2 DEF Loose
<1>11. \A q \in Place : Nodes(E[q]) \cap X = {}
  BY <1>2, <1>4, <1>10
<1>12. ASSUME NEW n \in Loose(E, X) PROVE nx2[n] = None /\ pv2[n] = None
  <2>1. n \in Node \ X /\ n \notin Nodes(d) /\ \A q \in Place : n \notin Nodes(E[q])
    BY <1>4 DEF Loose
  <2>2. CASE n \in Nodes(C[p])
    BY <2>1, <2>2
  <2>3. CASE n \notin Nodes(C[p])
    <3>1. n \in Loose(C, X)
      BY <2>1, <2>3, <1>4 DEF Loose
    <3> QED BY <2>1, <2>3, <3>1, <1>2
  <2> QED BY <2>2, <2>3
<1>13. \A m \in X : nx2[m] = nx[m] /\ pv2[m] = pv[m]
  BY <1>2, <1>10
<1>14. Placed(nx2, pv2, E, X)
  BY <1>2, <1>4, <1>6, <1>7, <1>8, <1>9, <1>11, <1>12 DEF Placed
<1> QED BY <1>3, <1>13, <1>14

LEMMA SetIfIs ==
  ASSUME NEW links \in Links, NEW at \in Node \cup {None}, NEW x \in Node \cup {None}
  PROVE  /\ SetIf(links, at, x) \in Links
         /\ \A m \in Node : SetIf(links, at, x)[m] = IF m = at THEN x ELSE links[m]
<1>1. None \notin Node
  BY Places
<1> QED BY <1>1 DEF SetIf, Links

LEMMA LinkSet ==
  ASSUME NEW links \in Links, NEW n \in Node, NEW x \in Node \cup {None}
  PROVE  /\ [links EXCEPT ![n] = x] \in Links
         /\ \A m \in Node : [links EXCEPT ![n] = x][m] = IF m = n THEN x ELSE links[m]
BY DEF Links

LEMMA AtIs ==
  ASSUME NEW c \in Seq(Node)
  PROVE  /\ \A k \in Int : At(c, k) \in Node \cup {None}
         /\ \A k \in Int : At(c, k) = None <=> k \notin 1 .. Len(c)
         /\ \A k \in 1 .. Len(c) : At(c, k) = c[k]
BY NodesOf DEF At

-----------------------------------------------------------------------------
(* The world: links, heads and pool.                                       *)

Worlds == [nexts : Links, prevs : Links, heads : [Root -> Node \cup {None}],
           pool : [head : Node \cup {None}, count : Nat]]

World(w, C, X) ==
  /\ w \in Worlds
  /\ Placed(w.nexts, w.prevs, C, X)
  /\ \A r \in Root : w.heads[r] = At(C[r], 1)
  /\ w.pool.head = At(C[None], 1)
  /\ w.pool.count = Len(C[None])

\* The links of the nodes of X are the same.
SameLinks(v, w, X) == \A m \in X : v.nexts[m] = w.nexts[m] /\ v.prevs[m] = w.prevs[m]

(* A list changes, the pool does not.                                      *)
LEMMA ListChanges ==
  ASSUME NEW w, NEW C, NEW X, World(w, C, X), NEW r \in Root, NEW d,
         NEW v, v \in Worlds, v.pool = w.pool,
         v.heads = [w.heads EXCEPT ![r] = At(d, 1)],
         Chained(v.nexts, At(d, 1), d),
         BackChained(v.prevs, d),
         Nodes(d) \subseteq Nodes(C[r]) \cup Loose(C, X),
         \A m \in Node : m \notin Nodes(C[r]) \cup Nodes(d) =>
           v.nexts[m] = w.nexts[m] /\ v.prevs[m] = w.prevs[m],
         \A m \in Nodes(C[r]) \ Nodes(d) : v.nexts[m] = None /\ v.prevs[m] = None
  PROVE  World(v, [C EXCEPT ![r] = d], X) /\ SameLinks(v, w, X)
<1>1. r \in Place /\ r # None /\ None \in Place
  BY Places
<1>2. Placed(w.nexts, w.prevs, C, X)
  BY DEF World
<1>3. v.nexts \in Links /\ v.prevs \in Links
  BY DEF Worlds
<1>4. PICK nx, pv, nx2, pv2 : nx = w.nexts /\ pv = w.prevs /\ nx2 = v.nexts /\ pv2 = v.prevs
  OBVIOUS
<1>5. /\ Placed(nx2, pv2, [C EXCEPT ![r] = d], X)
      /\ \A m \in X : nx2[m] = nx[m] /\ pv2[m] = pv[m]
  <2>1. Placed(nx, pv, C, X)
    BY <1>2, <1>4
  <2>2. nx2 \in Links /\ pv2 \in Links
    BY <1>3, <1>4
  <2>3. Chained(nx2, At(d, 1), d)
    BY <1>4
  <2>4. r # None => BackChained(pv2, d)
    BY <1>4
  <2>5. r = None => \A n \in Nodes(d) : pv2[n] = None
    BY <1>1
  <2>6. \A m \in Node : m \notin Nodes(C[r]) \cup Nodes(d) => nx2[m] = nx[m] /\ pv2[m] = pv[m]
    BY <1>4
  <2>7. \A m \in Nodes(C[r]) \ Nodes(d) : nx2[m] = None /\ pv2[m] = None
    BY <1>4
  <2> QED BY <1>1, <2>1, <2>2, <2>3, <2>4, <2>5, <2>6, <2>7, PlaceChanges
<1>6. C \in [Place -> Seq(Node)]
  BY <1>2 DEF Placed
<1>7. PICK E : E = [C EXCEPT ![r] = d]
  OBVIOUS
<1>8. E[r] = d /\ \A q \in Place : q # r => E[q] = C[q]
  BY <1>1, <1>6, <1>7
<1>9. w.heads \in [Root -> Node \cup {None}] /\ \A q \in Root : w.heads[q] = At(C[q], 1)
  BY DEF World, Worlds
<1>10. \A q \in Root : v.heads[q] = At(E[q], 1)
  <2> SUFFICES ASSUME NEW q \in Root PROVE v.heads[q] = At(E[q], 1)
    OBVIOUS
  <2>1. CASE q = r
    BY <2>1, <1>8, <1>9
  <2>2. CASE q # r
    BY <2>2, <1>8, <1>9, Places
  <2> QED BY <2>1, <2>2
<1>11. v.pool.head = At(E[None], 1) /\ v.pool.count = Len(E[None])
  BY <1>1, <1>8 DEF World
<1>12. Placed(v.nexts, v.prevs, E, X)
  BY <1>4, <1>5, <1>7
<1>13. World(v, E, X)
  BY <1>10, <1>11, <1>12 DEF World
<1>14. SameLinks(v, w, X)
  BY <1>4, <1>5 DEF SameLinks
<1> QED BY <1>7, <1>13, <1>14

(* The pool changes, no list does.                                         *)
LEMMA PoolChanges ==
  ASSUME NEW w, NEW C, NEW X, World(w, C, X), NEW d,
         NEW v, v \in Worlds, v.heads = w.heads,
         v.pool.head = At(d, 1), v.pool.count = Len(d),
         Chained(v.nexts, At(d, 1), d),
         \A m \in Nodes(d) : v.prevs[m] = None,
         Nodes(d) \subseteq Nodes(C[None]) \cup Loose(C, X),
         \A m \in Node : m \notin Nodes(C[None]) \cup Nodes(d) =>
           v.nexts[m] = w.nexts[m] /\ v.prevs[m] = w.prevs[m],
         \A m \in Nodes(C[None]) \ Nodes(d) : v.nexts[m] = None /\ v.prevs[m] = None
  PROVE  World(v, [C EXCEPT ![None] = d], X) /\ SameLinks(v, w, X)
<1>1. None \in Place /\ None \notin Root
  BY Places
<1>2. Placed(w.nexts, w.prevs, C, X)
  BY DEF World
<1>3. v.nexts \in Links /\ v.prevs \in Links
  BY DEF Worlds
<1>4. PICK nx, pv, nx2, pv2 : nx = w.nexts /\ pv = w.prevs /\ nx2 = v.nexts /\ pv2 = v.prevs
  OBVIOUS
<1>5. /\ Placed(nx2, pv2, [C EXCEPT ![None] = d], X)
      /\ \A m \in X : nx2[m] = nx[m] /\ pv2[m] = pv[m]
  <2>1. Placed(nx, pv, C, X)
    BY <1>2, <1>4
  <2>2. nx2 \in Links /\ pv2 \in Links
    BY <1>3, <1>4
  <2>3. Chained(nx2, At(d, 1), d)
    BY <1>4
  <2>4. None # None => BackChained(pv2, d)
    OBVIOUS
  <2>5. None = None => \A n \in Nodes(d) : pv2[n] = None
    BY <1>4
  <2>6. \A m \in Node : m \notin Nodes(C[None]) \cup Nodes(d) => nx2[m] = nx[m] /\ pv2[m] = pv[m]
    BY <1>4
  <2>7. \A m \in Nodes(C[None]) \ Nodes(d) : nx2[m] = None /\ pv2[m] = None
    BY <1>4
  <2> QED BY <1>1, <2>1, <2>2, <2>3, <2>4, <2>5, <2>6, <2>7, PlaceChanges
<1>6. C \in [Place -> Seq(Node)]
  BY <1>2 DEF Placed
<1>7. PICK E : E = [C EXCEPT ![None] = d]
  OBVIOUS
<1>8. E[None] = d /\ \A q \in Place : q # None => E[q] = C[q]
  BY <1>1, <1>6, <1>7
<1>10. \A q \in Root : v.heads[q] = At(E[q], 1)
  BY <1>8, Places DEF World
<1>11. v.pool.head = At(E[None], 1) /\ v.pool.count = Len(E[None])
  BY <1>8
<1>12. Placed(v.nexts, v.prevs, E, X)
  BY <1>4, <1>5, <1>7
<1>13. World(v, E, X)
  BY <1>10, <1>11, <1>12 DEF World
<1>14. SameLinks(v, w, X)
  BY <1>4, <1>5 DEF SameLinks
<1> QED BY <1>7, <1>13, <1>14

LEMMA WorldParts ==
  ASSUME NEW w, NEW C, NEW X, World(w, C, X)
  PROVE  /\ w.nexts \in Links /\ w.prevs \in Links
         /\ w.heads \in [Root -> Node \cup {None}]
         /\ C \in [Place -> Seq(Node)] /\ X \subseteq Node
         /\ \A p \in Place : /\ C[p] \in Seq(Node) /\ Chained(w.nexts, At(C[p], 1), C[p])
                             /\ \A i, j \in 1 .. Len(C[p]) : C[p][i] = C[p][j] => i = j
                             /\ Nodes(C[p]) \subseteq Node /\ Nodes(C[p]) \cap X = {}
                             /\ Nodes(C[p]) \cap Loose(C, X) = {}
         /\ \A r \in Root : /\ w.heads[r] = At(C[r], 1) /\ BackChained(w.prevs, C[r])
                            /\ Chained(w.nexts, w.heads[r], C[r]) /\ C[r] \in Seq(Node)
         /\ w.pool.head = At(C[None], 1) /\ w.pool.count = Len(C[None])
         /\ Chained(w.nexts, w.pool.head, C[None]) /\ C[None] \in Seq(Node)
         /\ \A n \in Nodes(C[None]) : w.prevs[n] = None
         /\ \A p, q \in Place : p # q => Nodes(C[p]) \cap Nodes(C[q]) = {}
         /\ \A n \in Loose(C, X) : n \in Node /\ w.nexts[n] = None /\ w.prevs[n] = None
<1>1. w \in Worlds /\ Placed(w.nexts, w.prevs, C, X)
  BY DEF World
<1>2. w.nexts \in Links /\ w.prevs \in Links /\ w.heads \in [Root -> Node \cup {None}]
  BY <1>1 DEF Worlds
<1>3. /\ C \in [Place -> Seq(Node)] /\ X \subseteq Node
      /\ \A p \in Place : Chained(w.nexts, At(C[p], 1), C[p])
      /\ \A r \in Root : BackChained(w.prevs, C[r])
      /\ \A n \in Nodes(C[None]) : w.prevs[n] = None
      /\ \A p, q \in Place : p # q => Nodes(C[p]) \cap Nodes(C[q]) = {}
      /\ \A p \in Place : Nodes(C[p]) \cap X = {}
      /\ \A n \in Loose(C, X) : w.nexts[n] = None /\ w.prevs[n] = None
  BY <1>1 DEF Placed
<1>4. ASSUME NEW p \in Place
      PROVE  /\ C[p] \in Seq(Node) /\ Chained(w.nexts, At(C[p], 1), C[p])
             /\ \A i, j \in 1 .. Len(C[p]) : C[p][i] = C[p][j] => i = j
             /\ Nodes(C[p]) \subseteq Node /\ Nodes(C[p]) \cap X = {}
             /\ Nodes(C[p]) \cap Loose(C, X) = {}
  <2>1. C[p] \in Seq(Node) /\ Chained(w.nexts, At(C[p], 1), C[p])
    BY <1>3
  <2>2. \A i, j \in 1 .. Len(C[p]) : C[p][i] = C[p][j] => i = j
    BY <2>1 DEF Chained
  <2>3. Nodes(C[p]) \subseteq Node
    BY <2>1, NodesOf
  <2>4. Nodes(C[p]) \cap Loose(C, X) = {}
    BY DEF Loose
  <2> QED BY <2>1, <2>2, <2>3, <2>4, <1>3
<1>5. \A r \in Root : r \in Place /\ w.heads[r] = At(C[r], 1)
  BY Places DEF World
<1>6. \A r \in Root : Chained(w.nexts, w.heads[r], C[r]) /\ C[r] \in Seq(Node)
  BY <1>4, <1>5
<1>7. None \in Place
  BY Places
<1>8. w.pool.head = At(C[None], 1) /\ w.pool.count = Len(C[None])
  BY DEF World
<1>9. Chained(w.nexts, w.pool.head, C[None]) /\ C[None] \in Seq(Node)
  BY <1>4, <1>7, <1>8
<1>10. \A n \in Loose(C, X) : n \in Node
  BY DEF Loose
<1> QED BY <1>2, <1>3, <1>4, <1>5, <1>6, <1>8, <1>9, <1>10

LEMMA WorldWalks ==
  ASSUME NEW w, NEW C, NEW X, World(w, C, X)
  PROVE  /\ \A r \in Root : Chain(w, r) = C[r]
         /\ Free(w) = C[None]
         /\ Detached(w) = {n \in Node : \A p \in Place : n \notin Nodes(C[p])}
         /\ Detached(w) \ X = Loose(C, X)
<1>1. w.nexts \in Links /\ Chained(w.nexts, w.pool.head, C[None])
      /\ \A r \in Root : Chained(w.nexts, w.heads[r], C[r])
  BY WorldParts
<1>2. ASSUME NEW r \in Root PROVE Chain(w, r) = C[r]
  <2>1. Chained(w.nexts, w.heads[r], C[r])
    BY <1>1
  <2>2. Walk(w.nexts, w.heads[r]) = C[r]
    BY <1>1, <2>1, WalkIs
  <2> QED BY <2>2 DEF Chain
<1>3. Free(w) = C[None]
  <2>2. Walk(w.nexts, w.pool.head) = C[None]
    BY <1>1, WalkIs
  <2> QED BY <2>2 DEF Free
<1>4. Detached(w) = {n \in Node : \A p \in Place : n \notin Nodes(C[p])}
  <2>1. ASSUME NEW n \in Node
        PROVE  n \in Detached(w) <=> \A p \in Place : n \notin Nodes(C[p])
    <3>1. n \in Detached(w) <=> n \notin Nodes(Free(w)) /\ \A r \in Root : n \notin Nodes(Chain(w, r))
      BY DEF Detached
    <3>2. n \in Detached(w) <=> n \notin Nodes(C[None]) /\ \A r \in Root : n \notin Nodes(C[r])
      BY <3>1, <1>2, <1>3
    <3> QED BY <3>2, Places
  <2>2. Detached(w) \subseteq Node
    BY DEF Detached
  <2> QED BY <2>1, <2>2
<1>5. Detached(w) \ X = Loose(C, X)
  BY <1>4 DEF Loose
<1> QED BY <1>2, <1>3, <1>4, <1>5

(* A node of a list leaves it.                                             *)
LEMMA Removing ==
  ASSUME NEW w, NEW C, NEW X, World(w, C, X), NEW r \in Root, NEW i \in 1 .. Len(C[r])
  PROVE  /\ World(Removed(w, r, C[r][i]), [C EXCEPT ![r] = RemoveAt(C[r], i)], X)
         /\ SameLinks(Removed(w, r, C[r][i]), w, X)
         /\ C[r][i] \in Loose([C EXCEPT ![r] = RemoveAt(C[r], i)], X)
<1>1. PICK c : c = C[r]
  OBVIOUS
<1>2. PICK n : n = c[i]
  OBVIOUS
<1>3. /\ w.nexts \in Links /\ w.prevs \in Links /\ w.heads \in [Root -> Node \cup {None}]
      /\ C \in [Place -> Seq(Node)] /\ X \subseteq Node
      /\ r \in Place
      /\ c \in Seq(Node) /\ Chained(w.nexts, At(c, 1), c) /\ BackChained(w.prevs, c)
      /\ (\A k, l \in 1 .. Len(c) : c[k] = c[l] => k = l)
      /\ w.heads[r] = At(c, 1)
  BY <1>1, WorldParts, Places
<1>4. i \in 1 .. Len(c) /\ Len(c) \in Nat /\ n \in Node /\ n \in Nodes(c) /\ n # None
      /\ Nodes(c) \subseteq Node
  BY <1>1, <1>2, <1>3, NodesOf
<1>5. PICK before, after : before = At(c, i - 1) /\ after = At(c, i + 1)
  OBVIOUS
<1>6. before \in Node \cup {None} /\ after \in Node \cup {None}
      /\ (before = None <=> i = 1)
  <2>1. i - 1 \in Int /\ i + 1 \in Int /\ (i - 1 \in 1 .. Len(c) <=> i # 1)
    BY <1>4
  <2> QED BY <1>3, <1>5, <2>1, AtIs
<1>7. w.nexts[n] = after /\ w.prevs[n] = before
  BY <1>2, <1>3, <1>4, <1>5 DEF Chained, BackChained
<1>8. PICK v : v = Removed(w, r, n)
  OBVIOUS
<1>9. PICK pa, nb : pa = SetIf(w.prevs, after, before) /\ nb = SetIf(w.nexts, before, after)
  OBVIOUS
<1>10. /\ pa \in Links /\ \A m \in Node : pa[m] = IF m = after THEN before ELSE w.prevs[m]
       /\ nb \in Links /\ \A m \in Node : nb[m] = IF m = before THEN after ELSE w.nexts[m]
  <2>a. PICK pv, nx : pv = w.prevs /\ nx = w.nexts
    OBVIOUS
  <2>b. pv \in Links
    BY <1>3, <2>a
  <2>c. nx \in Links
    BY <1>3, <2>a
  <2>d. before \in Node \cup {None}
    BY <1>6
  <2>e. after \in Node \cup {None}
    BY <1>6
  <2>1. /\ SetIf(pv, after, before) \in Links
        /\ \A m \in Node : SetIf(pv, after, before)[m] = IF m = after THEN before ELSE pv[m]
    BY <2>b, <2>d, <2>e, SetIfIs
  <2>2. /\ SetIf(nx, before, after) \in Links
        /\ \A m \in Node : SetIf(nx, before, after)[m] = IF m = before THEN after ELSE nx[m]
    BY <2>c, <2>d, <2>e, SetIfIs
  <2> QED BY <1>9, <2>a, <2>1, <2>2
<1>11. PICK h : h = IF before = None THEN after ELSE At(c, 1)
  OBVIOUS
<1>12. w \in Worlds
  BY DEF World
<1>13. v = [w EXCEPT !.prevs = [pa EXCEPT ![n] = None],
                     !.heads = [w.heads EXCEPT ![r] = h],
                     !.nexts = [nb EXCEPT ![n] = None]]
  BY <1>3, <1>7, <1>8, <1>9, <1>11, <1>12 DEF Removed, Worlds
<1>14. h \in Node \cup {None}
  BY <1>3, <1>6, <1>11, AtIs
<1>15. /\ [pa EXCEPT ![n] = None] \in Links
       /\ \A m \in Node : [pa EXCEPT ![n] = None][m] = IF m = n THEN None ELSE pa[m]
       /\ [nb EXCEPT ![n] = None] \in Links
       /\ \A m \in Node : [nb EXCEPT ![n] = None][m] = IF m = n THEN None ELSE nb[m]
  BY <1>4, <1>10, LinkSet
<1>16. v \in Worlds /\ v.pool = w.pool /\ v.heads = [w.heads EXCEPT ![r] = h]
       /\ v.prevs = [pa EXCEPT ![n] = None] /\ v.nexts = [nb EXCEPT ![n] = None]
  BY <1>3, <1>12, <1>13, <1>14, <1>15 DEF Worlds
<1>17. \A m \in Node : /\ v.nexts[m] = IF m = n THEN None ELSE IF m = before THEN after ELSE w.nexts[m]
                       /\ v.prevs[m] = IF m = n THEN None ELSE IF m = after THEN before ELSE w.prevs[m]
  BY <1>10, <1>15, <1>16
<1>18. PICK d : d = RemoveAt(c, i)
  OBVIOUS
<1>19. Chained(v.nexts, At(d, 1), d) /\ Nodes(d) = Nodes(c) \ {n}
  <2>1. \A m \in Nodes(c) \ {c[i]} : v.nexts[m] = IF m = At(c, i - 1) THEN At(c, i + 1) ELSE w.nexts[m]
    BY <1>2, <1>4, <1>5, <1>17
  <2>2. Chained(w.nexts, At(c, 1), c)
    BY <1>3
  <2>3. PICK a, b : a = w.nexts /\ b = v.nexts
    OBVIOUS
  <2>4. Chained(a, At(c, 1), c)
    BY <2>2, <2>3
  <2>5. \A m \in Nodes(c) \ {c[i]} : b[m] = IF m = At(c, i - 1) THEN At(c, i + 1) ELSE a[m]
    BY <2>1, <2>3
  <2>6. /\ Chained(b, At(RemoveAt(c, i), 1), RemoveAt(c, i))
        /\ Nodes(RemoveAt(c, i)) = Nodes(c) \ {c[i]}
    BY <1>4, <2>4, <2>5, ChainWithout
  <2> QED BY <2>3, <2>6, <1>2, <1>18
<1>20. BackChained(v.prevs, d)
  <2>1. PICK a, b : a = w.prevs /\ b = v.prevs
    OBVIOUS
  <2>2. BackChained(a, c)
    BY <1>3, <2>1
  <2>3. \A m \in Nodes(c) \ {c[i]} : b[m] = IF m = At(c, i + 1) THEN At(c, i - 1) ELSE a[m]
    BY <1>2, <1>4, <1>5, <1>17, <2>1
  <2>4. BackChained(b, RemoveAt(c, i))
    BY <1>3, <1>4, <2>2, <2>3, BackWithout
  <2> QED BY <2>1, <2>4, <1>18
<1>21. h = At(d, 1)
  <2>1. At(d, 1) = IF 1 < i THEN At(c, 1) ELSE At(c, 1 + 1)
    BY <1>3, <1>4, <1>18, Shortened
  <2>2. CASE i = 1
    BY <2>1, <2>2, <1>5, <1>6, <1>11
  <2>3. CASE i # 1
    BY <2>1, <2>3, <1>4, <1>6, <1>11
  <2> QED BY <2>2, <2>3
<1>22. before = None \/ before \in Nodes(c)
  <2>1. i - 1 \in 1 .. Len(c) => At(c, i - 1) = c[i - 1] /\ c[i - 1] \in Nodes(c)
    BY <1>3, NodesOf DEF At
  <2> QED BY <2>1, <1>5, <1>6 DEF At
<1>23. after = None \/ after \in Nodes(c)
  <2>1. i + 1 \in 1 .. Len(c) => At(c, i + 1) = c[i + 1] /\ c[i + 1] \in Nodes(c)
    BY <1>3, NodesOf DEF At
  <2> QED BY <2>1, <1>5, <1>6 DEF At
<1>24. \A m \in Node : m \notin Nodes(C[r]) \cup Nodes(d) =>
           v.nexts[m] = w.nexts[m] /\ v.prevs[m] = w.prevs[m]
  <2> SUFFICES ASSUME NEW m \in Node, m \notin Nodes(c)
               PROVE  v.nexts[m] = w.nexts[m] /\ v.prevs[m] = w.prevs[m]
    BY <1>1
  <2>1. m # n /\ m # before /\ m # after
    BY <1>4, <1>22, <1>23, Places
  <2> QED BY <2>1, <1>17
<1>25. \A m \in Nodes(C[r]) \ Nodes(d) : v.nexts[m] = None /\ v.prevs[m] = None
  BY <1>1, <1>4, <1>17, <1>19
<1>26. Nodes(d) \subseteq Nodes(C[r]) \cup Loose(C, X)
  BY <1>1, <1>19
<1>27. v.heads = [w.heads EXCEPT ![r] = At(d, 1)]
  BY <1>16, <1>21
<1>28. World(v, [C EXCEPT ![r] = d], X) /\ SameLinks(v, w, X)
  BY <1>16, <1>19, <1>20, <1>24, <1>25, <1>26, <1>27, ListChanges
<1>29. n \in Loose([C EXCEPT ![r] = d], X)
  <2>1. n \notin X /\ \A p \in Place : p # r => n \notin Nodes(C[p])
    BY <1>1, <1>3, <1>4, WorldParts
  <2>2. PICK E : E = [C EXCEPT ![r] = d]
    OBVIOUS
  <2>3. \A p \in Place : E[p] = IF p = r THEN d ELSE C[p]
    BY <1>3, <2>2
  <2>4. n \in Loose(E, X)
    BY <1>4, <1>19, <2>1, <2>3 DEF Loose
  <2> QED BY <2>2, <2>4
<1> QED BY <1>1, <1>2, <1>8, <1>18, <1>28, <1>29

(* A loose node becomes the first of a list.                               *)
LEMMA Adding ==
  ASSUME NEW w, NEW C, NEW X, World(w, C, X), NEW r \in Root, NEW n \in Loose(C, X)
  PROVE  /\ World(Prepended(w, r, n), [C EXCEPT ![r] = <<n>> \o C[r]], X)
         /\ SameLinks(Prepended(w, r, n), w, X)
<1>1. PICK c : c = C[r]
  OBVIOUS
<1>2. PICK d : d = <<n>> \o c
  OBVIOUS
<1>3. PICK h : h = At(c, 1)
  OBVIOUS
<1>4. /\ w.nexts \in Links /\ w.prevs \in Links /\ w.heads \in [Root -> Node \cup {None}]
      /\ r \in Place
      /\ c \in Seq(Node) /\ Chained(w.nexts, h, c) /\ BackChained(w.prevs, c)
      /\ (\A k, l \in 1 .. Len(c) : c[k] = c[l] => k = l)
      /\ w.heads[r] = h
      /\ n \in Node /\ w.nexts[n] = None /\ w.prevs[n] = None /\ n \notin Nodes(c)
      /\ Nodes(c) \subseteq Node
  BY <1>1, <1>3, WorldParts, Places
<1>5. h \in Node \cup {None} /\ (h = None \/ h \in Nodes(c))
  <2>1. 1 \in 1 .. Len(c) => h = c[1] /\ c[1] \in Nodes(c)
    BY <1>3, <1>4, NodesOf DEF At
  <2> QED BY <1>3, <1>4, <2>1 DEF At
<1>6. PICK nb, pb : nb = [w.nexts EXCEPT ![n] = h] /\ pb = SetIf(w.prevs, h, n)
  OBVIOUS
<1>7. nb \in Links /\ \A m \in Node : nb[m] = IF m = n THEN h ELSE w.nexts[m]
  <2>1. PICK nx : nx = w.nexts
    OBVIOUS
  <2>2. nx \in Links
    BY <1>4, <2>1
  <2>4. n \in Node
    BY <1>4
  <2>5. h \in Node \cup {None}
    BY <1>5
  <2>3. /\ [nx EXCEPT ![n] = h] \in Links
        /\ \A m \in Node : [nx EXCEPT ![n] = h][m] = IF m = n THEN h ELSE nx[m]
    BY <2>2, <2>4, <2>5, LinkSet
  <2> QED BY <1>6, <2>1, <2>3
<1>8. pb \in Links /\ \A m \in Node : pb[m] = IF m = h THEN n ELSE w.prevs[m]
  <2>1. PICK pv : pv = w.prevs
    OBVIOUS
  <2>2. pv \in Links
    BY <1>4, <2>1
  <2>3. h \in Node \cup {None}
    BY <1>5
  <2>4. n \in Node \cup {None}
    BY <1>4
  <2>5. /\ SetIf(pv, h, n) \in Links
        /\ \A m \in Node : SetIf(pv, h, n)[m] = IF m = h THEN n ELSE pv[m]
    BY <2>2, <2>3, <2>4, SetIfIs
  <2> QED BY <1>6, <2>1, <2>5
<1>9. w \in Worlds
  BY DEF World
<1>10. PICK v : v = Prepended(w, r, n)
  OBVIOUS
<1>11. v = [w EXCEPT !.nexts = nb, !.prevs = pb, !.heads = [w.heads EXCEPT ![r] = n]]
  BY <1>4, <1>6, <1>9, <1>10 DEF Prepended, Worlds
<1>12. v \in Worlds /\ v.pool = w.pool /\ v.heads = [w.heads EXCEPT ![r] = n]
       /\ v.prevs = pb /\ v.nexts = nb
  BY <1>4, <1>7, <1>8, <1>9, <1>11 DEF Worlds
<1>13. /\ d \in Seq(Node) /\ Nodes(d) = Nodes(c) \cup {n} /\ At(d, 1) = n
  BY <1>2, <1>4, NodeBefore
<1>14. Chained(v.nexts, At(d, 1), d)
  <2>1. PICK a : a = w.nexts
    OBVIOUS
  <2>2. Chained(a, h, c)
    BY <1>4, <2>1
  <2>3. \A m \in Nodes(c) : nb[m] = a[m]
    BY <1>4, <1>7, <2>1
  <2>4. nb[n] = h
    BY <1>4, <1>7
  <2>5. n \in Node /\ n \notin Nodes(c)
    BY <1>4
  <2>6. Chained(nb, n, <<n>> \o c)
    BY <2>2, <2>3, <2>4, <2>5, ChainCons
  <2> QED BY <2>6, <1>2, <1>12, <1>13
<1>15. BackChained(v.prevs, d)
  <2>1. PICK a : a = w.prevs
    OBVIOUS
  <2>2. BackChained(a, c)
    BY <1>4, <2>1
  <2>3. \A m \in Nodes(c) : pb[m] = IF m = At(c, 1) THEN n ELSE a[m]
    BY <1>3, <1>4, <1>8, <2>1
  <2>4. pb[n] = None
    <3>1. n # h
      BY <1>4, <1>5, Places
    <3> QED BY <3>1, <1>4, <1>8
  <2>5. n \in Node /\ n \notin Nodes(c) /\ c \in Seq(Node)
    BY <1>4
  <2>6. \A k, l \in 1 .. Len(c) : c[k] = c[l] => k = l
    BY <1>4
  <2>7. BackChained(pb, <<n>> \o c)
    BY <2>2, <2>3, <2>4, <2>5, <2>6, BackCons
  <2> QED BY <2>7, <1>2, <1>12
<1>16. \A m \in Node : m \notin Nodes(C[r]) \cup Nodes(d) =>
           v.nexts[m] = w.nexts[m] /\ v.prevs[m] = w.prevs[m]
  <2> SUFFICES ASSUME NEW m \in Node, m \notin Nodes(c), m # n
               PROVE  v.nexts[m] = w.nexts[m] /\ v.prevs[m] = w.prevs[m]
    BY <1>1, <1>13
  <2>1. m # h
    BY <1>5, Places
  <2> QED BY <2>1, <1>7, <1>8, <1>12
<1>17. \A m \in Nodes(C[r]) \ Nodes(d) : v.nexts[m] = None /\ v.prevs[m] = None
  BY <1>1, <1>13
<1>18. Nodes(d) \subseteq Nodes(C[r]) \cup Loose(C, X)
  BY <1>1, <1>13
<1>19. v.heads = [w.heads EXCEPT ![r] = At(d, 1)]
  BY <1>12, <1>13
<1>20. World(v, [C EXCEPT ![r] = d], X) /\ SameLinks(v, w, X)
  BY <1>12, <1>14, <1>15, <1>16, <1>17, <1>18, <1>19, ListChanges
<1> QED BY <1>1, <1>2, <1>10, <1>20

(* A loose node is freed to the pool.                                      *)
LEMMA Freeing ==
  ASSUME NEW w, NEW C, NEW X, World(w, C, X), NEW n \in Loose(C, X)
  PROVE  /\ World(PoolFreed(w, n), [C EXCEPT ![None] = <<n>> \o C[None]], X)
         /\ SameLinks(PoolFreed(w, n), w, X)
<1>1. PICK c : c = C[None]
  OBVIOUS
<1>2. PICK d : d = <<n>> \o c
  OBVIOUS
<1>3. PICK h : h = At(c, 1)
  OBVIOUS
<1>4. /\ w.nexts \in Links /\ w.prevs \in Links /\ w.heads \in [Root -> Node \cup {None}]
      /\ None \in Place
      /\ c \in Seq(Node) /\ Chained(w.nexts, h, c)
      /\ w.pool.head = h /\ w.pool.count = Len(c)
      /\ n \in Node /\ w.nexts[n] = None /\ w.prevs[n] = None /\ n \notin Nodes(c)
      /\ Nodes(c) \subseteq Node
      /\ (\A m \in Nodes(c) : w.prevs[m] = None)
  BY <1>1, <1>3, WorldParts, Places
<1>5. h \in Node \cup {None}
  BY <1>3, <1>4, AtIs
<1>6. PICK nb : nb = [w.nexts EXCEPT ![n] = h]
  OBVIOUS
<1>7. nb \in Links /\ \A m \in Node : nb[m] = IF m = n THEN h ELSE w.nexts[m]
  <2>1. PICK nx : nx = w.nexts
    OBVIOUS
  <2>2. nx \in Links
    BY <1>4, <2>1
  <2>4. n \in Node
    BY <1>4
  <2>5. h \in Node \cup {None}
    BY <1>5
  <2>3. /\ [nx EXCEPT ![n] = h] \in Links
        /\ \A m \in Node : [nx EXCEPT ![n] = h][m] = IF m = n THEN h ELSE nx[m]
    BY <2>2, <2>4, <2>5, LinkSet
  <2> QED BY <1>6, <2>1, <2>3
<1>9. w \in Worlds
  BY DEF World
<1>10. PICK v : v = PoolFreed(w, n)
  OBVIOUS
<1>11. v = [w EXCEPT !.nexts = nb, !.pool = [head |-> n, count |-> w.pool.count + 1]]
  BY <1>4, <1>6, <1>9, <1>10 DEF PoolFreed, Worlds
<1>12. v \in Worlds /\ v.pool.head = n /\ v.pool.count = Len(c) + 1 /\ v.heads = w.heads
       /\ v.prevs = w.prevs /\ v.nexts = nb
  <2>1. n \in Node \cup {None} /\ Len(c) + 1 \in Nat /\ w.pool.count = Len(c)
    BY <1>4
  <2>2. PICK z \in Nat : z = Len(c) + 1
    BY <2>1
  <2>3. v = [w EXCEPT !.nexts = nb, !.pool = [head |-> n, count |-> z]]
    BY <1>11, <2>1, <2>2
  <2>4. v \in Worlds /\ v.pool.head = n /\ v.pool.count = z /\ v.heads = w.heads
        /\ v.prevs = w.prevs /\ v.nexts = nb
    BY ONLY <1>7, <1>9, <2>1, <2>3, z \in Nat DEF Worlds
  <2> QED BY <2>2, <2>4
<1>13. /\ d \in Seq(Node) /\ Nodes(d) = Nodes(c) \cup {n} /\ At(d, 1) = n
       /\ Len(d) = Len(c) + 1
  BY <1>2, <1>4, NodeBefore
<1>14. Chained(v.nexts, At(d, 1), d)
  <2>1. PICK a : a = w.nexts
    OBVIOUS
  <2>2. Chained(a, h, c)
    BY <1>4, <2>1
  <2>3. \A m \in Nodes(c) : nb[m] = a[m]
    BY <1>4, <1>7, <2>1
  <2>4. nb[n] = h
    BY <1>4, <1>7
  <2>5. n \in Node /\ n \notin Nodes(c)
    BY <1>4
  <2>6. Chained(nb, n, <<n>> \o c)
    BY <2>2, <2>3, <2>4, <2>5, ChainCons
  <2> QED BY <2>6, <1>2, <1>12, <1>13
<1>15. \A m \in Nodes(d) : v.prevs[m] = None
  BY <1>4, <1>12, <1>13
<1>16. \A m \in Node : m \notin Nodes(C[None]) \cup Nodes(d) =>
           v.nexts[m] = w.nexts[m] /\ v.prevs[m] = w.prevs[m]
  BY <1>7, <1>12, <1>13
<1>17. \A m \in Nodes(C[None]) \ Nodes(d) : v.nexts[m] = None /\ v.prevs[m] = None
  BY <1>1, <1>13
<1>18. Nodes(d) \subseteq Nodes(C[None]) \cup Loose(C, X)
  BY <1>1, <1>13
<1>19. v.pool.head = At(d, 1) /\ v.pool.count = Len(d)
  BY <1>12, <1>13
<1>20. World(v, [C EXCEPT ![None] = d], X) /\ SameLinks(v, w, X)
  BY <1>12, <1>14, <1>15, <1>16, <1>17, <1>18, <1>19, PoolChanges
<1> QED BY <1>1, <1>2, <1>10, <1>20

(* The first node of the pool is taken.                                    *)
LEMMA Taking ==
  ASSUME NEW w, NEW C, NEW X, World(w, C, X), w.pool.head # None
  PROVE  /\ C[None] # <<>> /\ w.pool.head = C[None][1]
         /\ World(PoolTaken(w), [C EXCEPT ![None] = Tail(C[None])], X)
         /\ SameLinks(PoolTaken(w), w, X)
<1>1. PICK c : c = C[None]
  OBVIOUS
<1>2. PICK d : d = Tail(c)
  OBVIOUS
<1>3. PICK h : h = At(c, 1)
  OBVIOUS
<1>4. /\ w.nexts \in Links /\ w.prevs \in Links /\ w.heads \in [Root -> Node \cup {None}]
      /\ None \in Place
      /\ c \in Seq(Node) /\ Chained(w.nexts, h, c)
      /\ w.pool.head = h /\ w.pool.count = Len(c)
      /\ Nodes(c) \subseteq Node
      /\ (\A m \in Nodes(c) : w.prevs[m] = None)
  BY <1>1, <1>3, WorldParts, Places
<1>5. c # <<>>
  BY <1>3, <1>4 DEF At
<1>6. PICK n : n = c[1]
  OBVIOUS
<1>7. PICK a : a = w.nexts
  OBVIOUS
<1>8. /\ n \in Node /\ h = n /\ At(c, 1) = n /\ n \in Nodes(c)
      /\ d \in Seq(Node) /\ Len(d) = Len(c) - 1
      /\ Nodes(d) = Nodes(c) \ {n}
      /\ Chained(a, a[n], d)
  <2>1. Chained(a, h, c)
    BY <1>4, <1>7
  <2>2. /\ c[1] \in Node /\ h = c[1] /\ At(c, 1) = c[1] /\ c[1] \in Nodes(c)
        /\ Tail(c) \in Seq(Node) /\ Len(Tail(c)) = Len(c) - 1
        /\ Nodes(Tail(c)) = Nodes(c) \ {c[1]}
        /\ Chained(a, a[c[1]], Tail(c))
    BY <2>1, <1>5, ChainTail
  <2> QED BY <2>2, <1>2, <1>6
<1>9. w \in Worlds
  BY DEF World
<1>10. PICK nb : nb = [a EXCEPT ![n] = None]
  OBVIOUS
<1>11. nb \in Links /\ \A m \in Node : nb[m] = IF m = n THEN None ELSE a[m]
  <2>1. a \in Links
    BY <1>4, <1>7
  <2>2. /\ [a EXCEPT ![n] = None] \in Links
        /\ \A m \in Node : [a EXCEPT ![n] = None][m] = IF m = n THEN None ELSE a[m]
    BY <2>1, <1>8, LinkSet
  <2> QED BY <2>2, <1>10
<1>12. PICK v : v = PoolTaken(w)
  OBVIOUS
<1>13. v = [w EXCEPT !.nexts = nb, !.pool = [head |-> a[n], count |-> w.pool.count - 1]]
  BY <1>4, <1>7, <1>8, <1>9, <1>10, <1>12 DEF PoolTaken, Worlds
<1>14. Len(c) - 1 \in Nat /\ a[n] \in Node \cup {None}
  BY <1>4, <1>5, <1>7, <1>8 DEF Links
<1>15. v \in Worlds /\ v.pool.head = a[n] /\ v.pool.count = Len(c) - 1 /\ v.heads = w.heads
       /\ v.prevs = w.prevs /\ v.nexts = nb
  BY <1>4, <1>9, <1>11, <1>13, <1>14 DEF Worlds
<1>16. a[n] = At(d, 1)
  BY <1>8 DEF Chained
<1>17. Chained(v.nexts, At(d, 1), d)
  <2>1. \A m \in Nodes(d) : nb[m] = a[m]
    BY <1>4, <1>8, <1>11
  <2>2. Chained(nb, a[n], d)
    BY <1>8, <2>1, ChainFrame
  <2> QED BY <2>2, <1>15, <1>16
<1>18. \A m \in Nodes(d) : v.prevs[m] = None
  BY <1>4, <1>8, <1>15
<1>19. \A m \in Node : m \notin Nodes(C[None]) \cup Nodes(d) =>
           v.nexts[m] = w.nexts[m] /\ v.prevs[m] = w.prevs[m]
  BY <1>1, <1>7, <1>8, <1>11, <1>15
<1>20. \A m \in Nodes(C[None]) \ Nodes(d) : v.nexts[m] = None /\ v.prevs[m] = None
  BY <1>1, <1>4, <1>8, <1>11, <1>15
<1>21. Nodes(d) \subseteq Nodes(C[None]) \cup Loose(C, X)
  BY <1>1, <1>8
<1>22. v.pool.head = At(d, 1) /\ v.pool.count = Len(d)
  BY <1>8, <1>15, <1>16
<1>23. World(v, [C EXCEPT ![None] = d], X) /\ SameLinks(v, w, X)
  BY <1>15, <1>17, <1>18, <1>19, <1>20, <1>21, <1>22, PoolChanges
<1> QED BY <1>1, <1>2, <1>4, <1>5, <1>6, <1>8, <1>12, <1>23

(* An empty pool stays as it was.                                          *)
LEMMA Making ==
  ASSUME NEW w, NEW C, NEW X, World(w, C, X), w.pool.head = None
  PROVE  [w EXCEPT !.pool = [head |-> None, count |-> 0]] = w /\ C[None] = <<>>
<1>1. w \in Worlds /\ C[None] \in Seq(Node) /\ w.pool.count = Len(C[None])
      /\ w.pool.head = At(C[None], 1)
  <2>1. w \in Worlds
    BY DEF World
  <2> QED BY <2>1, WorldParts
<1>2. C[None] = <<>>
  <2>1. PICK c : c = C[None]
    OBVIOUS
  <2>2. c \in Seq(Node) /\ At(c, 1) = None
    BY <1>1, <2>1
  <2>3. 1 \notin 1 .. Len(c)
    BY <2>2, AtIs
  <2>4. Len(c) = 0
    BY <2>2, <2>3
  <2> QED BY <2>1, <2>2, <2>4
<1>3. w.pool = [head |-> None, count |-> 0]
  <2>1. w.pool \in [head : Node \cup {None}, count : Nat] /\ w.pool.count = 0
    BY <1>1, <1>2 DEF Worlds
  <2> QED BY <2>1
<1> QED BY <1>1, <1>2, <1>3 DEF Worlds

-----------------------------------------------------------------------------
(* The edits: what each does to the places.                                *)

EditOf(C, E, X, K, call) ==
  \/ call = <<"none">> /\ E = C
  \/ \E r \in Root, n \in Loose(C, X) \ K :
       call = <<"prepend", r, n>> /\ E = [C EXCEPT ![r] = <<n>> \o C[r]]
  \/ \E n \in Loose(C, X) \ K :
       call = <<"pool_free", n>> /\ E = [C EXCEPT ![None] = <<n>> \o C[None]]
  \/ /\ C[None] # <<>>
     /\ call = <<"pool_next", C[None][1]>> /\ E = [C EXCEPT ![None] = Tail(C[None])]
  \/ \E n \in Loose(C, X) \ K : C[None] = <<>> /\ call = <<"pool_next", n>> /\ E = C
  \/ \E r \in Root : \E i \in 1 .. Len(C[r]) :
       /\ C[r][i] \notin K
       /\ call = <<"remove", r, C[r][i]>> /\ E = [C EXCEPT ![r] = RemoveAt(C[r], i)]
  \/ \E r, q \in Root : \E i \in 1 .. Len(C[r]) : \E D :
       /\ C[r][i] \notin K
       /\ D = [C EXCEPT ![r] = RemoveAt(C[r], i)]
       /\ call = <<"move", r, q, C[r][i]>> /\ E = [D EXCEPT ![q] = <<C[r][i]>> \o D[q]]

LEMMA EditIs ==
  ASSUME NEW w, NEW C, NEW X, World(w, C, X), NEW K, X \subseteq K, NEW e \in Edits(w, K)
  PROVE  \E E : World(e.to, E, X) /\ SameLinks(e.to, w, X) /\ EditOf(C, E, X, K, e.call)
<1>1. Detached(w) \ K = Loose(C, X) \ K
  BY WorldWalks
<1>2. \A r \in Root : Chain(w, r) = C[r] /\ C[r] \in Seq(Node)
  BY WorldWalks, WorldParts
<1>3. ASSUME NEW r \in Root, NEW n \in Nodes(Chain(w, r)) \ K
      PROVE  \E i \in 1 .. Len(C[r]) : n = C[r][i] /\ C[r][i] \notin K
  <2>1. n \in Nodes(C[r]) /\ C[r] \in Seq(Node) /\ n \notin K
    BY <1>2, <1>3
  <2> QED BY <2>1, NodesOf
<1>4. SameLinks(w, w, X)
  BY DEF SameLinks
<1>5. \/ e = Edit(<<"none">>, w)
      \/ \E r \in Root, n \in Detached(w) \ K : e = Edit(<<"prepend", r, n>>, Prepended(w, r, n))
      \/ \E n \in Detached(w) \ K : e = Edit(<<"pool_free", n>>, PoolFreed(w, n))
      \/ e \in PoolNext(w, K)
      \/ \E r \in Root : \E n \in Nodes(Chain(w, r)) \ K :
           e = Edit(<<"remove", r, n>>, Removed(w, r, n))
      \/ \E r \in Root : \E n \in Nodes(Chain(w, r)) \ K, q \in Root :
           e = Edit(<<"move", r, q, n>>, Prepended(Removed(w, r, n), q, n))
  <2> DEFINE idle == Detached(w) \ K
             S1 == {Edit(<<"none">>, w)}
             S2 == {Edit(<<"prepend", r, n>>, Prepended(w, r, n)) : r \in Root, n \in idle}
             S3 == {Edit(<<"pool_free", n>>, PoolFreed(w, n)) : n \in idle}
             Removals(r) == {Edit(<<"remove", r, n>>, Removed(w, r, n)) :
                               n \in Nodes(Chain(w, r)) \ K}
             Moves(r) == {Edit(<<"move", r, q, n>>, Prepended(Removed(w, r, n), q, n)) :
                            n \in Nodes(Chain(w, r)) \ K, q \in Root}
             S4 == UNION {Removals(r) : r \in Root}
             S5 == UNION {Moves(r) : r \in Root}
  <2>5. Edits(w, K) = UNION {S1, S2, S3, PoolNext(w, K), S4, S5}
    BY DEF Edits
  <2>7. e \in S1 => e = Edit(<<"none">>, w)
    OBVIOUS
  <2>8. e \in S2 => \E r \in Root, n \in Detached(w) \ K :
                      e = Edit(<<"prepend", r, n>>, Prepended(w, r, n))
    OBVIOUS
  <2>9. e \in S3 => \E n \in Detached(w) \ K : e = Edit(<<"pool_free", n>>, PoolFreed(w, n))
    OBVIOUS
  <2>12. \A r \in Root : e \in Removals(r) => \E n \in Nodes(Chain(w, r)) \ K :
                       e = Edit(<<"remove", r, n>>, Removed(w, r, n))
    OBVIOUS
  <2>13. \A r \in Root : e \in Moves(r) => \E n \in Nodes(Chain(w, r)) \ K, q \in Root :
                       e = Edit(<<"move", r, q, n>>, Prepended(Removed(w, r, n), q, n))
    <3> HIDE DEF Moves, S1, S2, S3, S4, S5, Removals
    <3> SUFFICES ASSUME NEW r \in Root, e \in Moves(r)
                 PROVE  \E n \in Nodes(Chain(w, r)) \ K, q \in Root :
                          e = Edit(<<"move", r, q, n>>, Prepended(Removed(w, r, n), q, n))
      BY Zenon
    <3> DEFINE M == Nodes(Chain(w, r)) \ K
    <3> HIDE DEF M
    <3>1. e \in {Edit(<<"move", r, q, n>>, Prepended(Removed(w, r, n), q, n)) : n \in M, q \in Root}
      BY ONLY e \in Moves(r) DEF Moves, M
    <3>2. \E n \in M, q \in Root :
             e = Edit(<<"move", r, q, n>>, Prepended(Removed(w, r, n), q, n))
      BY ONLY <3>1
    <3> QED BY <3>2 DEF M
  <2> HIDE DEF S1, S2, S3, Removals, Moves
  <2>10. e \in S4 => \E r \in Root : \E n \in Nodes(Chain(w, r)) \ K :
                       e = Edit(<<"remove", r, n>>, Removed(w, r, n))
    BY <2>12
  <2>11. e \in S5 => \E r \in Root : \E n \in Nodes(Chain(w, r)) \ K, q \in Root :
                       e = Edit(<<"move", r, q, n>>, Prepended(Removed(w, r, n), q, n))
    BY <2>13
  <2> HIDE DEF S4, S5
  <2>6. e \in S1 \/ e \in S2 \/ e \in S3 \/ e \in PoolNext(w, K) \/ e \in S4 \/ e \in S5
    BY <2>5
  <2> QED BY ONLY <2>6, <2>7, <2>8, <2>9, <2>10, <2>11
<1>6. CASE e = Edit(<<"none">>, w)
  <2>1. e.to = w /\ e.call = <<"none">>
    BY <1>6 DEF Edit
  <2>2. EditOf(C, C, X, K, e.call)
    BY <2>1 DEF EditOf
  <2> QED BY <2>1, <2>2, <1>4
<1>7. CASE \E r \in Root, n \in Detached(w) \ K : e = Edit(<<"prepend", r, n>>, Prepended(w, r, n))
  <2>1. PICK r \in Root, n \in Loose(C, X) \ K : e = Edit(<<"prepend", r, n>>, Prepended(w, r, n))
    BY <1>1, <1>7
  <2>2. e.to = Prepended(w, r, n) /\ e.call = <<"prepend", r, n>>
    BY <2>1 DEF Edit
  <2>3. PICK E : E = [C EXCEPT ![r] = <<n>> \o C[r]]
    OBVIOUS
  <2>4. World(Prepended(w, r, n), [C EXCEPT ![r] = <<n>> \o C[r]], X)
        /\ SameLinks(Prepended(w, r, n), w, X)
    BY Adding
  <2>5. EditOf(C, E, X, K, e.call)
    BY <2>2, <2>3 DEF EditOf
  <2> QED BY <2>2, <2>3, <2>4, <2>5
<1>8. CASE \E n \in Detached(w) \ K : e = Edit(<<"pool_free", n>>, PoolFreed(w, n))
  <2>1. PICK n \in Loose(C, X) \ K : e = Edit(<<"pool_free", n>>, PoolFreed(w, n))
    BY <1>1, <1>8
  <2>2. e.to = PoolFreed(w, n) /\ e.call = <<"pool_free", n>>
    BY <2>1 DEF Edit
  <2>3. PICK E : E = [C EXCEPT ![None] = <<n>> \o C[None]]
    OBVIOUS
  <2>4. World(PoolFreed(w, n), [C EXCEPT ![None] = <<n>> \o C[None]], X)
        /\ SameLinks(PoolFreed(w, n), w, X)
    BY Freeing
  <2>5. EditOf(C, E, X, K, e.call)
    BY <2>2, <2>3 DEF EditOf
  <2> QED BY <2>2, <2>3, <2>4, <2>5
<1>9. CASE e \in PoolNext(w, K)
  <2>1. CASE w.pool.head # None
    <3>1. e = Edit(<<"pool_next", w.pool.head>>, PoolTaken(w))
      BY <1>9, <2>1 DEF PoolNext
    <3>2. e.to = PoolTaken(w) /\ e.call = <<"pool_next", w.pool.head>>
      BY <3>1 DEF Edit
    <3>3. PICK E : E = [C EXCEPT ![None] = Tail(C[None])]
      OBVIOUS
    <3>4. /\ C[None] # <<>> /\ w.pool.head = C[None][1]
          /\ World(PoolTaken(w), [C EXCEPT ![None] = Tail(C[None])], X)
          /\ SameLinks(PoolTaken(w), w, X)
      BY <2>1, Taking
    <3>5. EditOf(C, E, X, K, e.call)
      BY <3>2, <3>3, <3>4 DEF EditOf
    <3> QED BY <3>2, <3>3, <3>4, <3>5
  <2>2. CASE w.pool.head = None
    <3>1. PICK n \in Loose(C, X) \ K :
            e = Edit(<<"pool_next", n>>, [w EXCEPT !.pool = [head |-> None, count |-> 0]])
      BY <1>1, <1>9, <2>2 DEF PoolNext
    <3>2. [w EXCEPT !.pool = [head |-> None, count |-> 0]] = w /\ C[None] = <<>>
      BY <2>2, Making
    <3>3. e.to = w /\ e.call = <<"pool_next", n>>
      BY <3>1, <3>2 DEF Edit
    <3>4. EditOf(C, C, X, K, e.call)
      BY <3>2, <3>3 DEF EditOf
    <3> QED BY <3>3, <3>4, <1>4
  <2> QED BY <2>1, <2>2
<1>10. CASE \E r \in Root : \E n \in Nodes(Chain(w, r)) \ K :
              e = Edit(<<"remove", r, n>>, Removed(w, r, n))
  <2>1. PICK r \in Root : \E n \in Nodes(Chain(w, r)) \ K :
              e = Edit(<<"remove", r, n>>, Removed(w, r, n))
    BY <1>10
  <2>2. PICK n \in Nodes(Chain(w, r)) \ K : e = Edit(<<"remove", r, n>>, Removed(w, r, n))
    BY <2>1
  <2>3. PICK i \in 1 .. Len(C[r]) : n = C[r][i] /\ C[r][i] \notin K
    BY <1>3
  <2>4. e.to = Removed(w, r, C[r][i]) /\ e.call = <<"remove", r, C[r][i]>>
    BY <2>2, <2>3 DEF Edit
  <2>5. PICK E : E = [C EXCEPT ![r] = RemoveAt(C[r], i)]
    OBVIOUS
  <2>6. /\ World(Removed(w, r, C[r][i]), [C EXCEPT ![r] = RemoveAt(C[r], i)], X)
        /\ SameLinks(Removed(w, r, C[r][i]), w, X)
    BY Removing
  <2>7. EditOf(C, E, X, K, e.call)
    BY <2>3, <2>4, <2>5 DEF EditOf
  <2> QED BY <2>4, <2>5, <2>6, <2>7
<1>11. CASE \E r \in Root : \E n \in Nodes(Chain(w, r)) \ K, q \in Root :
              e = Edit(<<"move", r, q, n>>, Prepended(Removed(w, r, n), q, n))
  <2>1. PICK r \in Root : \E n \in Nodes(Chain(w, r)) \ K, q \in Root :
              e = Edit(<<"move", r, q, n>>, Prepended(Removed(w, r, n), q, n))
    BY <1>11
  <2>2. PICK n \in Nodes(Chain(w, r)) \ K, q \in Root :
          e = Edit(<<"move", r, q, n>>, Prepended(Removed(w, r, n), q, n))
    BY <2>1
  <2>3. PICK i \in 1 .. Len(C[r]) : n = C[r][i] /\ C[r][i] \notin K
    BY <1>3
  <2>4. PICK D : D = [C EXCEPT ![r] = RemoveAt(C[r], i)]
    OBVIOUS
  <2>5. PICK u : u = Removed(w, r, n)
    OBVIOUS
  <2>6. World(u, D, X) /\ SameLinks(u, w, X) /\ n \in Loose(D, X)
    <3>1. /\ World(Removed(w, r, C[r][i]), [C EXCEPT ![r] = RemoveAt(C[r], i)], X)
          /\ SameLinks(Removed(w, r, C[r][i]), w, X)
          /\ C[r][i] \in Loose([C EXCEPT ![r] = RemoveAt(C[r], i)], X)
      BY Removing
    <3> QED BY <3>1, <2>3, <2>4, <2>5
  <2>7. /\ World(Prepended(u, q, n), [D EXCEPT ![q] = <<n>> \o D[q]], X)
        /\ SameLinks(Prepended(u, q, n), u, X)
    BY <2>6, Adding
  <2>8. e.to = Prepended(u, q, n) /\ e.call = <<"move", r, q, C[r][i]>>
    BY <2>2, <2>3, <2>5 DEF Edit
  <2>9. PICK E : E = [D EXCEPT ![q] = <<n>> \o D[q]]
    OBVIOUS
  <2>10. EditOf(C, E, X, K, e.call)
    BY <2>3, <2>4, <2>8, <2>9 DEF EditOf
  <2>11. SameLinks(e.to, w, X)
    BY <2>6, <2>7, <2>8 DEF SameLinks
  <2> QED BY <2>7, <2>8, <2>9, <2>10, <2>11
<1> QED BY <1>5, <1>6, <1>7, <1>8, <1>9, <1>10, <1>11

(* A node of a list is there after the edit if it is to stay, or if a node *)
(* is before it then.                                                      *)
LEMMA EditStays ==
  ASSUME NEW w, NEW C, NEW X, World(w, C, X), NEW K, NEW call, NEW E,
         EditOf(C, E, X, K, call), NEW v, World(v, E, X),
         NEW r \in Root, NEW n \in Nodes(C[r]), n \in K \/ v.prevs[n] # None
  PROVE  n \in Nodes(E[r])
<1>1. r \in Place /\ None \in Place /\ None \notin Root
  BY Places
<1>2. C \in [Place -> Seq(Node)] /\ C[r] \in Seq(Node)
      /\ \A p \in Place : C[p] \in Seq(Node) /\ Nodes(C[p]) \cap Loose(C, X) = {}
  BY <1>1, WorldParts
<1>3. CASE E[r] = C[r]
  BY <1>3
<1>4. ASSUME NEW q \in Root, NEW i \in 1 .. Len(C[q]), C[q][i] \notin K, NEW D,
             D = [C EXCEPT ![q] = RemoveAt(C[q], i)], C[q][i] # n
      PROVE  n \in Nodes(D[r])
  <2>1. CASE q = r
    <3>1. PICK c : c = C[r]
      OBVIOUS
    <3>2. Chained(w.nexts, w.heads[r], C[r])
      BY WorldParts
    <3>3. PICK a, h : Chained(a, h, c)
      BY <3>1, <3>2
    <3>4. Nodes(RemoveAt(c, i)) = Nodes(c) \ {c[i]}
      <4>1. PICK b : b = [m \in Nodes(c) |-> IF m = At(c, i - 1) THEN At(c, i + 1) ELSE a[m]]
        OBVIOUS
      <4>2. \A m \in Nodes(c) \ {c[i]} : b[m] = IF m = At(c, i - 1) THEN At(c, i + 1) ELSE a[m]
        BY <4>1
      <4>3. i \in 1 .. Len(c)
        BY <2>1, <3>1
      <4> QED BY <3>3, <4>2, <4>3, ChainWithout
    <3>5. D[r] = RemoveAt(c, i)
      BY <1>1, <1>2, <1>4, <2>1, <3>1
    <3> QED BY <1>4, <2>1, <3>1, <3>4, <3>5
  <2>2. CASE q # r
    BY <1>1, <1>2, <1>4, <2>2, Places
  <2> QED BY <2>1, <2>2
<1>5. ASSUME NEW q \in Place, NEW m \in Node, NEW D, D \in [Place -> Seq(Node)],
             n \in Nodes(D[r]), E = [D EXCEPT ![q] = <<m>> \o D[q]]
      PROVE  n \in Nodes(E[r])
  <2>1. CASE q = r
    <3>1. E[r] = <<m>> \o D[r] /\ D[r] \in Seq(Node)
      BY <1>1, <1>5, <2>1
    <3>2. Nodes(<<m>> \o D[r]) = Nodes(D[r]) \cup {m}
      BY <3>1, NodeBefore
    <3> QED BY <3>1, <3>2, <1>5
  <2>2. CASE q # r
    BY <1>1, <1>5, <2>2
  <2> QED BY <2>1, <2>2
<1>6. CASE \E q \in Root, m \in Loose(C, X) \ K :
             call = <<"prepend", q, m>> /\ E = [C EXCEPT ![q] = <<m>> \o C[q]]
  <2>1. PICK q \in Root, m \in Loose(C, X) \ K : E = [C EXCEPT ![q] = <<m>> \o C[q]]
    BY <1>6
  <2>2. m \in Node /\ q \in Place
    BY Places DEF Loose
  <2> QED BY <1>2, <1>5, <2>1, <2>2
<1>7. CASE \E q \in Root : \E i \in 1 .. Len(C[q]) :
             /\ C[q][i] \notin K
             /\ call = <<"remove", q, C[q][i]>> /\ E = [C EXCEPT ![q] = RemoveAt(C[q], i)]
  <2>1. PICK q \in Root : \E i \in 1 .. Len(C[q]) :
             C[q][i] \notin K /\ E = [C EXCEPT ![q] = RemoveAt(C[q], i)]
    BY <1>7
  <2>2. PICK i \in 1 .. Len(C[q]) : C[q][i] \notin K /\ E = [C EXCEPT ![q] = RemoveAt(C[q], i)]
    BY <2>1
  <2>3. CASE C[q][i] = n
    <3>1. C[q][i] \in Loose([C EXCEPT ![q] = RemoveAt(C[q], i)], X)
      BY Removing
    <3>2. v.prevs[n] = None
      BY <3>1, <2>2, <2>3, WorldParts
    <3> QED BY <3>2, <2>2, <2>3
  <2>4. CASE C[q][i] # n
    BY <1>4, <2>2, <2>4
  <2> QED BY <2>3, <2>4
<1>8. CASE \E q, p \in Root : \E i \in 1 .. Len(C[q]) : \E D :
             /\ C[q][i] \notin K
             /\ D = [C EXCEPT ![q] = RemoveAt(C[q], i)]
             /\ call = <<"move", q, p, C[q][i]>> /\ E = [D EXCEPT ![p] = <<C[q][i]>> \o D[p]]
  <2>1. PICK q \in Root, p \in Root : \E i \in 1 .. Len(C[q]) : \E D :
             /\ C[q][i] \notin K
             /\ D = [C EXCEPT ![q] = RemoveAt(C[q], i)]
             /\ E = [D EXCEPT ![p] = <<C[q][i]>> \o D[p]]
    BY <1>8
  <2>2. PICK i \in 1 .. Len(C[q]) : \E D :
             /\ C[q][i] \notin K
             /\ D = [C EXCEPT ![q] = RemoveAt(C[q], i)]
             /\ E = [D EXCEPT ![p] = <<C[q][i]>> \o D[p]]
    BY <2>1
  <2>3. PICK D : /\ C[q][i] \notin K
                 /\ D = [C EXCEPT ![q] = RemoveAt(C[q], i)]
                 /\ E = [D EXCEPT ![p] = <<C[q][i]>> \o D[p]]
    BY <2>2
  <2>4. p \in Place /\ q \in Place /\ C[q] \in Seq(Node)
    BY <1>2, Places
  <2>5. RemoveAt(C[q], i) \in Seq(Node)
    BY <2>4, Shortened
  <2>6. D \in [Place -> Seq(Node)]
    BY <1>2, <2>3, <2>5
  <2>7. PICK m : m = C[q][i]
    OBVIOUS
  <2>8. m \in Node
    BY <2>4, <2>7
  <2>9. CASE m = n
    <3>1. E[p] = <<m>> \o D[p] /\ D[p] \in Seq(Node)
      BY <2>3, <2>4, <2>6, <2>7
    <3>2. /\ <<m>> \o D[p] \in Seq(Node) /\ Len(<<m>> \o D[p]) = Len(D[p]) + 1
          /\ At(<<m>> \o D[p], 1) = m /\ At(<<m>> \o D[p], 0) = None
      BY <2>8, <3>1, NodeBefore
    <3>3. 1 \in 1 .. Len(E[p]) /\ E[p][1] = m /\ At(E[p], 1 - 1) = None
      BY <3>1, <3>2
    <3>4. BackChained(v.prevs, E[p])
      BY WorldParts
    <3>5. v.prevs[m] = None
      BY <3>3, <3>4 DEF BackChained
    <3> QED BY <2>3, <2>7, <2>9, <3>5
  <2>10. CASE m # n
    <3>1. n \in Nodes(D[r])
      BY <1>4, <2>3, <2>7, <2>10
    <3>2. E = [D EXCEPT ![p] = <<m>> \o D[p]]
      BY <2>3, <2>7
    <3> QED BY <1>5, <2>4, <2>6, <2>8, <3>1, <3>2
  <2> QED BY <2>9, <2>10
<1>9. CASE E = C
  BY <1>9
<1>10. CASE \E d : E = [C EXCEPT ![None] = d]
  <2>1. E[r] = C[r]
    BY <1>1, <1>2, <1>10
  <2> QED BY <2>1
<1> QED BY <1>6, <1>7, <1>8, <1>9, <1>10 DEF EditOf

-----------------------------------------------------------------------------
(* The neighbours of a node of a list are in the list.                     *)
LEMMA Neighbours ==
  ASSUME NEW w, NEW C, NEW X, World(w, C, X), NEW r \in Root
  PROVE  /\ w.heads[r] \in Nodes(C[r]) \cup {None}
         /\ (w.heads[r] = None <=> C[r] = <<>>)
         /\ C[r] # <<>> => Last(C[r]) \in Nodes(C[r])
         /\ Nodes(C[r]) \subseteq Node
         /\ \A n \in Nodes(C[r]) : /\ n \in Node /\ n # None
                                   /\ w.nexts[n] \in Nodes(C[r]) \cup {None}
                                   /\ w.prevs[n] \in Nodes(C[r]) \cup {None}
                                   /\ w.nexts[n] # n
<1>1. PICK c : c = C[r]
  OBVIOUS
<1>2. /\ c \in Seq(Node) /\ Chained(w.nexts, w.heads[r], c) /\ BackChained(w.prevs, c)
      /\ w.heads[r] = At(c, 1) /\ Nodes(c) \subseteq Node
      /\ (\A i, j \in 1 .. Len(c) : c[i] = c[j] => i = j)
  BY <1>1, WorldParts, Places
<1>3. /\ \A k \in 1 .. Len(c) : c[k] \in Nodes(c) /\ c[k] \in Node /\ c[k] # None
      /\ \A n \in Nodes(c) : \E k \in 1 .. Len(c) : n = c[k]
      /\ Len(c) \in Nat /\ (c = <<>> <=> Len(c) = 0)
  BY <1>2, NodesOf
<1>4. \A k \in Int : At(c, k) \in Nodes(c) \cup {None}
  BY <1>3 DEF At
<1>5. At(c, 1) = None <=> c = <<>>
  BY <1>3 DEF At
<1>6. c # <<>> => Last(c) \in Nodes(c)
  BY <1>3 DEF Last
<1>7. ASSUME NEW n \in Nodes(c)
      PROVE  /\ w.nexts[n] \in Nodes(c) \cup {None} /\ w.prevs[n] \in Nodes(c) \cup {None}
             /\ w.nexts[n] # n
  <2>1. PICK k \in 1 .. Len(c) : n = c[k]
    BY <1>3
  <2>2. w.nexts[n] = At(c, k + 1) /\ w.prevs[n] = At(c, k - 1) /\ k + 1 \in Int /\ k - 1 \in Int
    BY <1>2, <2>1 DEF Chained, BackChained
  <2>3. At(c, k + 1) # c[k]
    BY <1>2, <1>3 DEF At
  <2> QED BY <1>4, <2>1, <2>2, <2>3
<1>8. /\ w.heads[r] \in Nodes(c) \cup {None}
      /\ (w.heads[r] = None <=> c = <<>>)
  <2>1. 1 \in Int
    OBVIOUS
  <2> QED BY <2>1, <1>2, <1>4, <1>5
<1>9. \A n \in Nodes(c) : n \in Node /\ n # None
  BY <1>2, Places
<1> QED BY ONLY <1>1, <1>2, <1>6, <1>7, <1>8, <1>9

LEMMA InjectiveIs ==
  ASSUME NEW s \in Seq(Node), IsInjective(s)
  PROVE  \A i, j \in 1 .. Len(s) : s[i] = s[j] => i = j
BY DEF IsInjective

LEMMA FreedWorld ==
  ASSUME NEW u \in Worlds, NEW n \in Node
  PROVE  PoolFreed(u, n) \in Worlds
<1>1. /\ u.nexts \in Links /\ u.prevs \in Links /\ u.heads \in [Root -> Node \cup {None}]
      /\ u.pool \in [head : Node \cup {None}, count : Nat]
  BY DEF Worlds
<1>2. PICK h \in Node \cup {None} : h = u.pool.head
  BY <1>1
<1>3. PICK z \in Nat : z = u.pool.count + 1
  BY <1>1
<1>6. PICK nb : nb = [u.nexts EXCEPT ![n] = h]
  OBVIOUS
<1>4. nb \in Links
  BY <1>1, <1>2, <1>6, LinkSet
<1>5. PoolFreed(u, n) = [u EXCEPT !.nexts = nb, !.pool = [head |-> n, count |-> z]]
  BY <1>2, <1>3, <1>6 DEF PoolFreed, Worlds
<1>7. PICK pool \in [head : Node \cup {None}, count : Nat] : pool = [head |-> n, count |-> z]
  OBVIOUS
<1>8. PoolFreed(u, n) = [u EXCEPT !.nexts = nb, !.pool = pool]
  BY <1>5, <1>7
<1>9. [u EXCEPT !.nexts = nb, !.pool = pool] \in Worlds
  BY ONLY u \in Worlds, pool \in [head : Node \cup {None}, count : Nat], <1>4 DEF Worlds
<1> QED BY <1>8, <1>9

(* A pool is grown from nodes that are loose.                              *)
LEMMA GrownExists ==
  ASSUME NEW w \in Worlds, NEW s \in Seq(Node), s # <<>>
  PROVE  \E g : g = [k \in 1 .. Len(s) |->
                       IF k = 1 THEN [w EXCEPT !.pool = [head |-> s[1], count |-> 1]]
                       ELSE PoolFreed(g[k - 1], s[k])]
<1>1. PICK n \in Nat : n = Len(s) /\ n - 1 \in Nat
  OBVIOUS
<1>2. PICK base : base = [w EXCEPT !.pool = [head |-> s[1], count |-> 1]]
  OBVIOUS
<1>3. base \in Worlds
  BY <1>2 DEF Worlds
<1> DEFINE step == [p \in (0 .. (n - 1) - 1) \X Worlds |-> PoolFreed(p[2], s[p[1] + 2])]
<1>4. \A k \in 0 .. (n - 1) - 1 : s[k + 2] \in Node
  BY <1>1
<1>5. \A k \in 0 .. (n - 1) - 1, u \in Worlds : PoolFreed(u, s[k + 2]) \in Worlds
  BY <1>4, FreedWorld
<1>6. step \in [(0 .. (n - 1) - 1) \X Worlds -> Worlds]
  BY <1>5
<1>7. \A k \in 0 .. (n - 1) - 1, u \in Worlds : step[<<k, u>>] = PoolFreed(u, s[k + 2])
  OBVIOUS
<1> HIDE DEF step
<1>8. n - 1 \in Nat
  BY <1>1
<1>9. PICK f : Runs(n - 1, Worlds, base, step, f)
  BY <1>3, <1>6, <1>8, RunExists
<1>10. f \in [0 .. n - 1 -> Worlds] /\ f[0] = base
       /\ \A k \in 0 .. (n - 1) - 1 : f[k + 1] = step[<<k, f[k]>>]
  BY <1>9 DEF Runs
<1>11. PICK g : g = [k \in 1 .. n |-> f[k - 1]]
  OBVIOUS
<1>12. ASSUME NEW k \in 1 .. n PROVE g[k] = IF k = 1 THEN base ELSE PoolFreed(g[k - 1], s[k])
  <2>1. CASE k = 1
    BY <1>10, <1>11, <2>1
  <2>2. CASE k # 1
    <3>1. PICK j \in 0 .. (n - 1) - 1 : j + 2 = k /\ j + 1 = k - 1 /\ j = (k - 1) - 1
      <4>1. k - 2 \in 0 .. (n - 1) - 1 /\ (k - 2) + 2 = k /\ (k - 2) + 1 = k - 1 /\ k - 2 = (k - 1) - 1
        BY <2>2
      <4> QED BY <4>1
    <3>2. f[j + 1] = step[<<j, f[j]>>] /\ f[j] \in Worlds
      BY <3>1, <1>10
    <3>3. f[j + 1] = PoolFreed(f[j], s[k])
      BY <3>1, <3>2, <1>7
    <3>4. g[k] = f[j + 1] /\ g[k - 1] = f[j]
      BY <2>2, <3>1, <1>11
    <3> QED BY <2>2, <3>3, <3>4
  <2> QED BY <2>1, <2>2
<1>13. g = [k \in 1 .. n |-> IF k = 1 THEN base ELSE PoolFreed(g[k - 1], s[k])]
  <2>1. g = [k \in 1 .. n |-> g[k]]
    BY <1>11
  <2> QED BY <2>1, <1>12
<1> QED BY <1>1, <1>2, <1>13

LEMMA Growing ==
  ASSUME NEW w, NEW C, World(w, C, {}), NEW s \in Seq(Node), s # <<>>, IsInjective(s),
         Nodes(s) \subseteq Loose(C, {}), w.pool.head = None
  PROVE  World(PoolGrown(w, s), [C EXCEPT ![None] = Reverse(s)], {})
<1>1. PICK n \in Nat : n = Len(s) /\ n - 1 \in Nat
  OBVIOUS
<1>2. w \in Worlds
  BY DEF World
<1>3. PICK base : base = [w EXCEPT !.pool = [head |-> s[1], count |-> 1]]
  OBVIOUS
<1> DEFINE Eq(g) == g = [k \in 1 .. Len(s) |-> IF k = 1 THEN [w EXCEPT !.pool = [head |-> s[1], count |-> 1]]
                                              ELSE PoolFreed(g[k - 1], s[k])]
<1>4. \E g : Eq(g)
  BY <1>2, GrownExists
<1>5. PICK g : g = CHOOSE h : Eq(h)
  BY Zenon
<1>6. Eq(g)
  BY <1>4, <1>5, Zenon
<1>7. PoolGrown(w, s) = g[n]
  BY <1>1, <1>5 DEF PoolGrown
<1>8. g[1] = base /\ \A k \in 0 .. (n - 1) - 1 : g[k + 2] = PoolFreed(g[k + 1], s[k + 2])
  <2>1. g = [k \in 1 .. n |-> IF k = 1 THEN base ELSE PoolFreed(g[k - 1], s[k])]
    BY <1>1, <1>3, <1>6
  <2> HIDE DEF Eq
  <2>2. g[1] = base
    BY <1>1, <2>1
  <2>3. ASSUME NEW k \in 0 .. (n - 1) - 1 PROVE g[k + 2] = PoolFreed(g[k + 1], s[k + 2])
    <3>1. k + 2 \in 1 .. n /\ k + 2 # 1 /\ (k + 2) - 1 = k + 1
      OBVIOUS
    <3>2. \A l \in 1 .. n : g[l] = IF l = 1 THEN base ELSE PoolFreed(g[l - 1], s[l])
      BY ONLY <2>1
    <3>3. g[k + 2] = PoolFreed(g[(k + 2) - 1], s[k + 2])
      BY <3>1, <3>2
    <3> QED BY <3>1, <3>3
  <2> QED BY <2>2, <2>3
<1> HIDE DEF Eq
<1>9. \A i, j \in 1 .. n : s[i] = s[j] => i = j
  BY <1>1, InjectiveIs
<1>10. \A i \in 1 .. n : s[i] \in Loose(C, {}) /\ s[i] \in Node
  BY <1>1, NodesOf
<1> DEFINE R(k) == [j \in 1 .. k |-> s[k - j + 1]]
           D(k) == [C EXCEPT ![None] = R(k)]
           J == {k \in 0 .. n - 1 : World(g[k + 1], D(k + 1), {})}
<1>11. C \in [Place -> Seq(Node)] /\ None \in Place /\ C[None] = <<>>
       /\ w.pool.count = Len(C[None])
  BY WorldParts, Places, Making
<1>12. ASSUME NEW k \in 1 .. n
       PROVE  /\ R(k) \in Seq(Node) /\ Len(R(k)) = k
              /\ Nodes(R(k)) = {s[j] : j \in 1 .. k}
              /\ D(k)[None] = R(k) /\ \A p \in Place : p # None => D(k)[p] = C[p]
  <2>1. \A j \in 1 .. k : s[k - j + 1] \in Node
    BY <1>10
  <2>2. R(k) \in [1 .. k -> Node]
    BY <2>1
  <2>3. R(k) \in Seq(Node) /\ Len(R(k)) = k
    BY <2>2
  <2>4. DOMAIN R(k) = 1 .. k /\ \A j \in 1 .. k : R(k)[j] = s[k - j + 1]
    OBVIOUS
  <2>5. \A j \in 1 .. k : k - j + 1 \in 1 .. k /\ k - (k - j + 1) + 1 = j
    OBVIOUS
  <2>6. Nodes(R(k)) = {s[j] : j \in 1 .. k}
    <3>1. Nodes(R(k)) = {R(k)[j] : j \in 1 .. k}
      BY <2>4 DEF Nodes
    <3> HIDE DEF R
    <3>2. \A m : m \in Nodes(R(k)) => m \in {s[j] : j \in 1 .. k}
      BY <3>1, <2>4, <2>5
    <3>3. ASSUME NEW j \in 1 .. k PROVE s[j] \in Nodes(R(k))
      <4>1. R(k)[k - j + 1] = s[k - (k - j + 1) + 1]
        BY <2>4, <2>5
      <4> QED BY <4>1, <2>5, <3>1
    <3> QED BY <3>2, <3>3
  <2> HIDE DEF R
  <2>7. D(k)[None] = R(k) /\ \A p \in Place : p # None => D(k)[p] = C[p]
    BY <1>11
  <2> QED BY <2>3, <2>6, <2>7
<1>13. 0 \in J
  <2>1. PoolFreed(w, s[1]) = base
    <3>1. s[1] \in Loose(C, {}) /\ s[1] \in Node
      BY <1>1, <1>10
    <3>2. w.nexts \in Links /\ w.nexts[s[1]] = None
      BY <3>1, WorldParts
    <3>3. [w.nexts EXCEPT ![s[1]] = None] = w.nexts
      BY <3>1, <3>2 DEF Links
    <3>4. w.pool.count = 0
      BY <1>11
    <3>5. PICK m : m = s[1]
      OBVIOUS
    <3>6. PoolFreed(w, m) = [w EXCEPT !.nexts = w.nexts, !.pool = [head |-> m, count |-> 1]]
      <4>1. PoolFreed(w, m) = [w EXCEPT !.nexts = [w.nexts EXCEPT ![m] = w.pool.head],
                                        !.pool = [head |-> m, count |-> w.pool.count + 1]]
        BY <1>2 DEF PoolFreed, Worlds
      <4>2. [w.nexts EXCEPT ![m] = w.pool.head] = w.nexts /\ w.pool.count + 1 = 1
        BY <3>3, <3>4, <3>5
      <4> QED BY <4>1, <4>2
    <3>7. base = [w EXCEPT !.pool = [head |-> m, count |-> 1]]
      BY <1>3, <3>5
    <3>8. [w EXCEPT !.nexts = w.nexts, !.pool = [head |-> m, count |-> 1]]
            = [w EXCEPT !.pool = [head |-> m, count |-> 1]]
      BY ONLY <1>2 DEF Worlds
    <3> QED BY <3>5, <3>6, <3>7, <3>8
  <2>2. s[1] \in Loose(C, {}) /\ s[1] \in Node
    BY <1>1, <1>10
  <2>3. World(base, [C EXCEPT ![None] = <<s[1]>> \o C[None]], {})
    BY <2>1, <2>2, Freeing
  <2>4. <<s[1]>> \o C[None] = <<s[1]>>
    BY <1>11, <2>2
  <2>5. R(1) = <<s[1]>>
    OBVIOUS
  <2>6. 0 + 1 = 1 /\ 0 \in 0 .. n - 1
    BY <1>1
  <2> QED BY <1>8, <2>3, <2>4, <2>5, <2>6
<1>14. ASSUME NEW k \in 0 .. (n - 1) - 1, k \in J PROVE k + 1 \in J
  <2>1. k + 1 \in 1 .. n /\ k + 2 \in 1 .. n /\ k + 1 \in 0 .. n - 1 /\ (k + 1) + 1 = k + 2
    OBVIOUS
  <2>2. World(g[k + 1], D(k + 1), {})
    BY <1>14
  <2>3. /\ R(k + 1) \in Seq(Node) /\ Len(R(k + 1)) = k + 1
        /\ Nodes(R(k + 1)) = {s[j] : j \in 1 .. k + 1}
        /\ D(k + 1)[None] = R(k + 1) /\ \A p \in Place : p # None => D(k + 1)[p] = C[p]
    BY <2>1, <1>12
  <2>4. <<s[k + 2]>> \o R(k + 1) = R(k + 2)
    <3>1. s[k + 2] \in Node
      BY <2>1, <1>10
    <3>2. PICK t : t = <<s[k + 2]>> \o R(k + 1)
      OBVIOUS
    <3>3. \A j \in 1 .. k + 1 : R(k + 1)[j] = s[(k + 1) - j + 1]
      OBVIOUS
    <3>4. \A j \in 1 .. k + 2 : R(k + 2)[j] = s[(k + 2) - j + 1]
      OBVIOUS
    <3>5. R(k + 2) \in Seq(Node) /\ Len(R(k + 2)) = k + 2
      BY <2>1, <1>12
    <3> HIDE DEF R
    <3>6. t \in Seq(Node) /\ Len(t) = k + 2 /\ t[1] = s[k + 2]
          /\ \A j \in 1 .. k + 1 : t[j + 1] = R(k + 1)[j]
      BY <2>3, <3>1, <3>2
    <3>7. ASSUME NEW j \in 1 .. k + 2 PROVE t[j] = R(k + 2)[j]
      <4>1. CASE j = 1
        BY <3>4, <3>6, <4>1
      <4>2. CASE j # 1
        <5>1. j - 1 \in 1 .. k + 1 /\ (j - 1) + 1 = j /\ (k + 1) - (j - 1) + 1 = (k + 2) - j + 1
          BY <4>2
        <5>2. t[(j - 1) + 1] = s[(k + 1) - (j - 1) + 1]
          BY <5>1, <3>3, <3>6
        <5> QED BY <5>1, <5>2, <3>4
      <4> QED BY <4>1, <4>2
    <3>8. t = R(k + 2)
      BY <3>5, <3>6, <3>7, SameElements
    <3> QED BY <3>2, <3>8
  <2>5. D(k + 2) = [D(k + 1) EXCEPT ![None] = <<s[k + 2]>> \o D(k + 1)[None]]
    <3>1. PICK a, b : a = R(k + 1) /\ b = R(k + 2)
      OBVIOUS
    <3>2. <<s[k + 2]>> \o D(k + 1)[None] = b
      BY <2>3, <2>4, <3>1
    <3>3. [[C EXCEPT ![None] = a] EXCEPT ![None] = b] = [C EXCEPT ![None] = b]
      BY <1>11
    <3> HIDE DEF R
    <3> QED BY <3>1, <3>2, <3>3
  <2> HIDE DEF R, D
  <2>6. s[k + 2] \in Loose(D(k + 1), {})
    <3>1. s[k + 2] \in Loose(C, {}) /\ s[k + 2] \in Node
      BY <2>1, <1>10
    <3>2. s[k + 2] \notin {s[j] : j \in 1 .. k + 1}
      BY <2>1, <1>9
    <3>3. \A p \in Place : s[k + 2] \notin Nodes(D(k + 1)[p])
      BY <2>3, <3>1, <3>2 DEF Loose
    <3> QED BY <3>1, <3>3 DEF Loose
  <2>7. World(PoolFreed(g[k + 1], s[k + 2]),
              [D(k + 1) EXCEPT ![None] = <<s[k + 2]>> \o D(k + 1)[None]], {})
    BY <2>2, <2>6, Freeing
  <2>8. World(g[k + 2], D(k + 2), {})
    BY <2>5, <2>7, <1>8
  <2> QED BY <2>1, <2>8
<1> HIDE DEF J
<1>15. n - 1 \in J
  <2>1. n - 1 \in Nat
    BY <1>1
  <2>2. \A k \in 0 .. n - 1 : k \in J
    BY <2>1, <1>13, <1>14, BoundedInduction
  <2> QED BY <2>1, <2>2
<1>16. World(g[(n - 1) + 1], D((n - 1) + 1), {})
  BY <1>15 DEF J
<1>17. (n - 1) + 1 = n
  OBVIOUS
<1>18. R(n) = Reverse(s)
  BY <1>1 DEF Reverse
<1> QED BY <1>7, <1>16, <1>17, <1>18

(* A node is linked after another.                                         *)
LEMMA Appended ==
  ASSUME NEW u \in Worlds, NEW t \in Node \cup {None}, NEW n \in Node
  PROVE  /\ AppendNode(u, t, n) \in Worlds
         /\ AppendNode(u, t, n).heads = u.heads /\ AppendNode(u, t, n).pool = u.pool
         /\ t = None => AppendNode(u, t, n) = u
         /\ t # None => \A m \in Node :
              /\ AppendNode(u, t, n).prevs[m] = IF m = n THEN t ELSE u.prevs[m]
              /\ AppendNode(u, t, n).nexts[m] =
                   IF m = t THEN n ELSE IF m = n THEN None ELSE u.nexts[m]
<1>1. CASE t = None
  BY <1>1 DEF AppendNode
<1>2. CASE t # None
  <2>1. u.nexts \in Links /\ u.prevs \in Links
    BY DEF Worlds
  <2>2. PICK pb, na : pb = [u.prevs EXCEPT ![n] = t] /\ na = [u.nexts EXCEPT ![n] = None]
    OBVIOUS
  <2>3. pb \in Links /\ \A m \in Node : pb[m] = IF m = n THEN t ELSE u.prevs[m]
    BY <2>1, <2>2 DEF Links
  <2>4. na \in Links /\ \A m \in Node : na[m] = IF m = n THEN None ELSE u.nexts[m]
    BY <2>1, <2>2 DEF Links
  <2>5. PICK nb : nb = [na EXCEPT ![t] = n]
    OBVIOUS
  <2>6. nb \in Links /\ \A m \in Node : nb[m] = IF m = t THEN n ELSE na[m]
    BY <1>2, <2>4, <2>5 DEF Links
  <2>7. AppendNode(u, t, n) = [u EXCEPT !.prevs = pb, !.nexts = nb]
    BY <1>2, <2>2, <2>5 DEF AppendNode, Worlds
  <2>8. PICK v : v = [u EXCEPT !.prevs = pb, !.nexts = nb]
    OBVIOUS
  <2>9. v \in Worlds /\ v.heads = u.heads /\ v.pool = u.pool /\ v.prevs = pb /\ v.nexts = nb
    BY <2>3, <2>6, <2>8 DEF Worlds
  <2> QED BY <1>2, <2>3, <2>4, <2>6, <2>7, <2>8, <2>9
<1> QED BY <1>1, <1>2

Before(s, k) == IF k = 1 THEN None ELSE s[k - 1]

LEMMA BuiltExists ==
  ASSUME NEW w \in Worlds, NEW s \in Seq(Node)
  PROVE  \E f : f = [k \in 0 .. Len(s) |->
                       IF k = 0 THEN w ELSE AppendNode(f[k - 1], IF k = 1 THEN None ELSE s[k - 1], s[k])]
<1>1. PICK n \in Nat : n = Len(s)
  OBVIOUS
<1> DEFINE step == [p \in (0 .. n - 1) \X Worlds |-> AppendNode(p[2], Before(s, p[1] + 1), s[p[1] + 1])]
<1>2. \A k \in 0 .. n - 1 : s[k + 1] \in Node /\ Before(s, k + 1) \in Node \cup {None}
  BY <1>1 DEF Before
<1>3. \A k \in 0 .. n - 1, u \in Worlds : AppendNode(u, Before(s, k + 1), s[k + 1]) \in Worlds
  <2> SUFFICES ASSUME NEW k \in 0 .. n - 1, NEW u \in Worlds
               PROVE  AppendNode(u, Before(s, k + 1), s[k + 1]) \in Worlds
    OBVIOUS
  <2>1. PICK t \in Node \cup {None} : t = Before(s, k + 1)
    BY <1>2
  <2>2. PICK x \in Node : x = s[k + 1]
    BY <1>2
  <2>3. AppendNode(u, t, x) \in Worlds
    BY Appended
  <2> QED BY <2>1, <2>2, <2>3
<1>4. step \in [(0 .. n - 1) \X Worlds -> Worlds]
  BY <1>3
<1>5. \A k \in 0 .. n - 1, u \in Worlds :
        step[<<k, u>>] = AppendNode(u, Before(s, k + 1), s[k + 1])
  OBVIOUS
<1> HIDE DEF step
<1>6. PICK f : Runs(n, Worlds, w, step, f)
  BY <1>4, RunExists
<1>7. f \in [0 .. n -> Worlds] /\ f[0] = w /\ \A k \in 0 .. n - 1 : f[k + 1] = step[<<k, f[k]>>]
  BY <1>6 DEF Runs
<1>8. ASSUME NEW k \in 0 .. n
      PROVE  f[k] = IF k = 0 THEN w ELSE AppendNode(f[k - 1], IF k = 1 THEN None ELSE s[k - 1], s[k])
  <2>1. CASE k = 0
    BY <1>7, <2>1
  <2>2. CASE k # 0
    <3>1. PICK j \in 0 .. n - 1 : j + 1 = k /\ j = k - 1
      <4>1. k - 1 \in 0 .. n - 1 /\ (k - 1) + 1 = k
        BY <2>2
      <4> QED BY <4>1
    <3>2. f[j + 1] = step[<<j, f[j]>>] /\ j \in 0 .. n /\ f[j] \in Worlds
      BY <3>1, <1>7
    <3>3. f[j + 1] = AppendNode(f[j], Before(s, j + 1), s[j + 1])
      BY <3>2, <1>5
    <3>4. f[k] = AppendNode(f[k - 1], Before(s, k), s[k])
      BY <3>1, <3>3
    <3> QED BY <2>2, <3>4 DEF Before
  <2> QED BY <2>1, <2>2
<1>9. f = [k \in 0 .. n |-> f[k]]
  BY <1>7
<1>10. f = [k \in 0 .. n |->
             IF k = 0 THEN w ELSE AppendNode(f[k - 1], IF k = 1 THEN None ELSE s[k - 1], s[k])]
  BY <1>8, <1>9
<1> QED BY <1>1, <1>10

\* The first k nodes of s are linked, and nothing else has changed.
Linked(w, s, k, u) ==
  /\ u \in Worlds /\ u.heads = w.heads /\ u.pool = w.pool
  /\ \A j \in 1 .. k : /\ u.nexts[s[j]] = IF j < k THEN s[j + 1] ELSE None
                       /\ u.prevs[s[j]] = Before(s, j)
  /\ \A m \in Node : (\A j \in 1 .. k : m # s[j]) =>
                       u.nexts[m] = w.nexts[m] /\ u.prevs[m] = w.prevs[m]

LEMMA BuiltLinks ==
  ASSUME NEW w \in Worlds, NEW s \in Seq(Node),
         \A i, j \in 1 .. Len(s) : s[i] = s[j] => i = j,
         \A i \in 1 .. Len(s) : w.nexts[s[i]] = None /\ w.prevs[s[i]] = None
  PROVE  Linked(w, s, Len(s), Built(w, s))
<1>1. PICK n \in Nat : n = Len(s)
  OBVIOUS
<1> DEFINE Eq(f) == f = [k \in 0 .. Len(s) |->
                       IF k = 0 THEN w ELSE AppendNode(f[k - 1], IF k = 1 THEN None ELSE s[k - 1], s[k])]
<1>4. \E f : Eq(f)
  BY BuiltExists
<1>5. PICK f : f = CHOOSE h : Eq(h)
  BY Zenon
<1>6. Eq(f)
  BY <1>4, <1>5, Zenon
<1>7. Built(w, s) = f[n]
  BY <1>1, <1>5 DEF Built
<1>8. f[0] = w /\ \A k \in 0 .. n - 1 : f[k + 1] = AppendNode(f[k], Before(s, k + 1), s[k + 1])
  <2>1. f = [k \in 0 .. n |->
               IF k = 0 THEN w ELSE AppendNode(f[k - 1], IF k = 1 THEN None ELSE s[k - 1], s[k])]
    BY <1>1, <1>6
  <2> HIDE DEF Eq
  <2>2. \A k \in 0 .. n : f[k] = IF k = 0 THEN w ELSE AppendNode(f[k - 1], IF k = 1 THEN None ELSE s[k - 1], s[k])
    BY ONLY <2>1
  <2>3. f[0] = w
    BY <2>2, <1>1
  <2>4. ASSUME NEW k \in 0 .. n - 1 PROVE f[k + 1] = AppendNode(f[k], Before(s, k + 1), s[k + 1])
    <3>1. k + 1 \in 0 .. n /\ k + 1 # 0 /\ (k + 1) - 1 = k
      OBVIOUS
    <3>2. f[k + 1] = AppendNode(f[(k + 1) - 1], IF k + 1 = 1 THEN None ELSE s[(k + 1) - 1], s[k + 1])
      BY <2>2, <3>1
    <3> QED BY <3>1, <3>2 DEF Before
  <2> QED BY <2>3, <2>4
<1> HIDE DEF Eq
<1>9. /\ \A i \in 1 .. n : s[i] \in Node /\ s[i] # None
      /\ \A i, j \in 1 .. n : s[i] = s[j] => i = j
      /\ \A i \in 1 .. n : w.nexts[s[i]] = None /\ w.prevs[s[i]] = None
  BY <1>1, NodesOf
<1> DEFINE J == {k \in 0 .. n : Linked(w, s, k, f[k])}
<1>10. 0 \in J
  BY <1>1, <1>8 DEF Linked
<1>11. ASSUME NEW k \in 0 .. n - 1, k \in J PROVE k + 1 \in J
  <2>1. k + 1 \in 1 .. n /\ k + 1 \in 0 .. n
    OBVIOUS
  <2>2. PICK u, x, t : u = f[k] /\ x = s[k + 1] /\ t = Before(s, k + 1)
    OBVIOUS
  <2>3. Linked(w, s, k, u)
    BY <1>11, <2>2
  <2>4. x \in Node /\ x # None /\ \A j \in 1 .. k : s[j] # x /\ s[j] \in Node /\ s[j] # None
    BY <1>9, <2>1, <2>2
  <2>5. w.nexts[x] = None /\ w.prevs[x] = None
    BY <1>9, <2>1, <2>2
  <2>6. u.nexts[x] = None /\ u.prevs[x] = None
    BY <2>3, <2>4, <2>5 DEF Linked
  <2>7. PICK v : v = AppendNode(u, t, x)
    OBVIOUS
  <2>8. v = f[k + 1]
    BY <1>8, <2>2, <2>7
  <2>9. u \in Worlds /\ u.heads = w.heads /\ u.pool = w.pool
    BY <2>3 DEF Linked
  <2>10. t \in Node \cup {None}
    BY <2>1, <2>2, <1>9 DEF Before
  <2>11. /\ v \in Worlds /\ v.heads = w.heads /\ v.pool = w.pool
         /\ t = None => v = u
         /\ t # None => \A m \in Node :
              /\ v.prevs[m] = IF m = x THEN t ELSE u.prevs[m]
              /\ v.nexts[m] = IF m = t THEN x ELSE IF m = x THEN None ELSE u.nexts[m]
    <3>1. /\ AppendNode(u, t, x) \in Worlds
          /\ AppendNode(u, t, x).heads = u.heads /\ AppendNode(u, t, x).pool = u.pool
          /\ t = None => AppendNode(u, t, x) = u
          /\ t # None => \A m \in Node :
               /\ AppendNode(u, t, x).prevs[m] = IF m = x THEN t ELSE u.prevs[m]
               /\ AppendNode(u, t, x).nexts[m] = IF m = t THEN x ELSE IF m = x THEN None ELSE u.nexts[m]
      BY <2>4, <2>9, <2>10, Appended
    <3> QED BY <2>7, <2>9, <3>1
  <2>12. CASE k = 0
    <3>1. t = None /\ v = u /\ k + 1 = 1
      BY <2>2, <2>11, <2>12 DEF Before
    <3>2. s[1] = x /\ Before(s, 1) = None
      BY <2>2, <2>12 DEF Before
    <3>3. \A m \in Node : u.nexts[m] = w.nexts[m] /\ u.prevs[m] = w.prevs[m]
      BY <2>3, <2>12 DEF Linked
    <3>4. Linked(w, s, 1, v)
      BY <3>1, <3>2, <3>3, <2>6, <2>11 DEF Linked
    <3> QED BY <2>1, <2>8, <3>1, <3>4
  <2>13. CASE k # 0
    <3>1. t = s[k] /\ t # None /\ t # x /\ k \in 1 .. k
      BY <2>2, <2>4, <2>13 DEF Before
    <3>2. \A m \in Node : /\ v.prevs[m] = IF m = x THEN t ELSE u.prevs[m]
                          /\ v.nexts[m] = IF m = t THEN x ELSE IF m = x THEN None ELSE u.nexts[m]
      BY <2>11, <3>1
    <3>3. ASSUME NEW j \in 1 .. k + 1
          PROVE  v.nexts[s[j]] = (IF j < k + 1 THEN s[j + 1] ELSE None) /\ v.prevs[s[j]] = Before(s, j)
      <4>1. CASE j = k + 1
        <5>1. s[j] = x /\ Before(s, j) = t
          BY <2>2, <4>1
        <5> QED BY <5>1, <4>1, <2>4, <3>1, <3>2
      <4>2. CASE j = k
        <5>1. s[j] = t /\ j + 1 = k + 1 /\ s[j + 1] = x /\ t \in Node
          BY <2>2, <2>4, <3>1, <4>2
        <5>2. u.prevs[s[j]] = Before(s, j)
          BY <2>3, <3>1, <4>2 DEF Linked
        <5> QED BY <5>1, <5>2, <4>2, <3>1, <3>2
      <4>3. CASE j # k + 1 /\ j # k
        <5>1. j \in 1 .. k /\ j < k
          BY <4>3
        <5>2. s[j] \in Node /\ s[j] # x /\ s[j] # t
          <6>1. j \in 1 .. n /\ k \in 1 .. n
            BY <5>1
          <6>2. s[j] \in Node /\ s[j] # x
            BY <5>1, <2>4
          <6>3. s[j] # s[k]
            BY <6>1, <5>1, <1>9
          <6> QED BY <6>2, <6>3, <3>1
        <5>3. u.nexts[s[j]] = s[j + 1] /\ u.prevs[s[j]] = Before(s, j)
          BY <2>3, <5>1 DEF Linked
        <5> QED BY <5>1, <5>2, <5>3, <3>2
      <4> QED BY <4>1, <4>2, <4>3
    <3>4. ASSUME NEW m \in Node, \A j \in 1 .. k + 1 : m # s[j]
          PROVE  v.nexts[m] = w.nexts[m] /\ v.prevs[m] = w.prevs[m]
      <4>1. m # x /\ m # t /\ \A j \in 1 .. k : m # s[j]
        BY <2>2, <3>1, <3>4
      <4>2. u.nexts[m] = w.nexts[m] /\ u.prevs[m] = w.prevs[m]
        BY <4>1, <2>3 DEF Linked
      <4> QED BY <4>1, <4>2, <3>2
    <3>5. Linked(w, s, k + 1, v)
      BY <2>11, <3>3, <3>4 DEF Linked
    <3> QED BY <2>1, <2>8, <3>5
  <2> QED BY <2>12, <2>13
<1> HIDE DEF J
<1>12. \A k \in 0 .. n : k \in J
  BY <1>10, <1>11, BoundedInduction
<1>13. n \in J
  BY <1>12
<1> QED BY <1>1, <1>7, <1>13 DEF J

(* Loose nodes become the list of a root that had none.                    *)
LEMMA Building ==
  ASSUME NEW w, NEW C, World(w, C, {}), NEW r \in Root, w.heads[r] = None,
         NEW s \in Seq(Node), s # <<>>, IsInjective(s), Nodes(s) \subseteq Loose(C, {})
  PROVE  World([Built(w, s) EXCEPT !.heads[r] = s[1]], [C EXCEPT ![r] = s], {})
<1>1. PICK n \in Nat : n = Len(s) /\ n # 0
  OBVIOUS
<1>2. w \in Worlds
  BY DEF World
<1>3. \A i, j \in 1 .. Len(s) : s[i] = s[j] => i = j
  BY InjectiveIs
<1>4. \A i \in 1 .. n : s[i] \in Loose(C, {}) /\ s[i] \in Node /\ s[i] # None /\ s[i] \in Nodes(s)
  BY <1>1, NodesOf
<1>5. \A i \in 1 .. Len(s) : w.nexts[s[i]] = None /\ w.prevs[s[i]] = None
  BY <1>1, <1>4, WorldParts
<1>6. PICK u : u = Built(w, s)
  OBVIOUS
<1>7. Linked(w, s, n, u)
  <2>1. Linked(w, s, Len(s), Built(w, s))
    BY <1>2, <1>3, <1>5, BuiltLinks
  <2> QED BY <2>1, <1>1, <1>6
<1>8. u \in Worlds /\ u.heads = w.heads /\ u.pool = w.pool
  BY <1>7 DEF Linked
<1>9. PICK x \in Node : x = s[1] /\ x = At(s, 1)
  BY <1>1, <1>4 DEF At
<1>10. PICK v : v = [u EXCEPT !.heads = [w.heads EXCEPT ![r] = x]]
  OBVIOUS
<1>11. v = [u EXCEPT !.heads[r] = s[1]]
  BY <1>8, <1>9, <1>10 DEF Worlds
<1>12. w.heads \in [Root -> Node \cup {None}] /\ C[r] \in Seq(Node)
  BY WorldParts, Places
<1>13. v \in Worlds /\ v.pool = w.pool /\ v.heads = [w.heads EXCEPT ![r] = At(s, 1)]
       /\ v.nexts = u.nexts /\ v.prevs = u.prevs
  BY <1>8, <1>9, <1>10, <1>12 DEF Worlds
<1>14. C[r] = <<>>
  BY Neighbours
<1>15. \A k \in 1 .. Len(s) : v.nexts[s[k]] = At(s, k + 1)
  <2> SUFFICES ASSUME NEW k \in 1 .. n PROVE v.nexts[s[k]] = At(s, k + 1)
    BY <1>1
  <2>1. v.nexts[s[k]] = IF k < n THEN s[k + 1] ELSE None
    BY <1>7, <1>13 DEF Linked
  <2>2. At(s, k + 1) = IF k < n THEN s[k + 1] ELSE None
    BY <1>1 DEF At
  <2> QED BY <2>1, <2>2
<1>16. Chained(v.nexts, At(s, 1), s)
  BY <1>3, <1>15 DEF Chained
<1>17. BackChained(v.prevs, s)
  <2> SUFFICES ASSUME NEW k \in 1 .. n PROVE v.prevs[s[k]] = At(s, k - 1)
    BY <1>1 DEF BackChained
  <2>1. v.prevs[s[k]] = IF k = 1 THEN None ELSE s[k - 1]
    BY <1>7, <1>13 DEF Linked, Before
  <2>2. At(s, k - 1) = IF k = 1 THEN None ELSE s[k - 1]
    BY <1>1 DEF At
  <2> QED BY <2>1, <2>2
<1>18. Nodes(s) \subseteq Nodes(C[r]) \cup Loose(C, {})
  OBVIOUS
<1>19. \A m \in Node : m \notin Nodes(C[r]) \cup Nodes(s) =>
         v.nexts[m] = w.nexts[m] /\ v.prevs[m] = w.prevs[m]
  BY <1>4, <1>7, <1>13 DEF Linked
<1>20. Nodes(C[r]) = {}
  BY <1>14 DEF Nodes
<1>21. \A m \in Nodes(C[r]) \ Nodes(s) : v.nexts[m] = None /\ v.prevs[m] = None
  BY <1>20
<1>22. World(v, [C EXCEPT ![r] = s], {})
  BY <1>13, <1>16, <1>17, <1>18, <1>19, <1>21, ListChanges
<1> QED BY <1>6, <1>11, <1>22

-----------------------------------------------------------------------------
(* Clearing: the nodes of a list are first all kept aside, then detached   *)
(* one by one.                                                             *)

LEMMA Emptying ==
  ASSUME NEW w, NEW C, World(w, C, {}), NEW r \in Root
  PROVE  World([w EXCEPT !.heads[r] = None], [C EXCEPT ![r] = <<>>], Nodes(C[r]))
<1>1. /\ w.nexts \in Links /\ w.prevs \in Links /\ w.heads \in [Root -> Node \cup {None}]
      /\ C \in [Place -> Seq(Node)] /\ r \in Place /\ r # None /\ None \in Place
      /\ w.pool.head = At(C[None], 1) /\ w.pool.count = Len(C[None])
      /\ \A q \in Root : w.heads[q] = At(C[q], 1)
      /\ Nodes(C[r]) \subseteq Node
  BY WorldParts, Places
<1>2. PICK E, Y : E = [C EXCEPT ![r] = <<>>] /\ Y = Nodes(C[r])
  OBVIOUS
<1>3. /\ E \in [Place -> Seq(Node)] /\ E[r] = <<>>
      /\ \A p \in Place : p # r => E[p] = C[p]
  BY <1>1, <1>2
<1>4. Nodes(<<>>) = {} /\ At(<<>>, 1) = None
  BY DEF Nodes, At
<1>5. PICK v : v = [w EXCEPT !.heads = [w.heads EXCEPT ![r] = None]]
  OBVIOUS
<1>6. w \in Worlds
  BY DEF World
<1>7. v = [w EXCEPT !.heads[r] = None]
  BY <1>5, <1>6 DEF Worlds
<1>8. v \in Worlds /\ v.nexts = w.nexts /\ v.prevs = w.prevs /\ v.pool = w.pool
      /\ v.heads = [w.heads EXCEPT ![r] = None]
  BY <1>1, <1>5, <1>6 DEF Worlds
<1>9. /\ \A p \in Place : Chained(w.nexts, At(C[p], 1), C[p]) /\ Nodes(C[p]) \cap {} = {}
      /\ \A q \in Root : BackChained(w.prevs, C[q]) /\ q \in Place
      /\ \A n \in Nodes(C[None]) : w.prevs[n] = None
      /\ \A p, q \in Place : p # q => Nodes(C[p]) \cap Nodes(C[q]) = {}
      /\ \A n \in Loose(C, {}) : w.nexts[n] = None /\ w.prevs[n] = None
  BY Places DEF World, Placed
<1>10. \A p \in Place : Chained(w.nexts, At(E[p], 1), E[p])
  <2>1. Chained(w.nexts, At(<<>>, 1), <<>>)
    BY <1>4 DEF Chained
  <2> QED BY <2>1, <1>3, <1>9
<1>11. \A q \in Root : BackChained(w.prevs, E[q])
  <2>1. BackChained(w.prevs, <<>>)
    BY DEF BackChained
  <2> QED BY <2>1, <1>3, <1>9
<1>12. \A p, q \in Place : p # q => Nodes(E[p]) \cap Nodes(E[q]) = {}
  <2> SUFFICES ASSUME NEW p \in Place, NEW q \in Place, p # q
               PROVE  Nodes(E[p]) \cap Nodes(E[q]) = {}
    OBVIOUS
  <2>1. CASE p = r \/ q = r
    BY <2>1, <1>3, <1>4
  <2>2. CASE p # r /\ q # r
    BY <2>2, <1>3, <1>9
  <2> QED BY <2>1, <2>2
<1>13. \A p \in Place : Nodes(E[p]) \cap Y = {}
  <2> SUFFICES ASSUME NEW p \in Place PROVE Nodes(E[p]) \cap Y = {}
    OBVIOUS
  <2>1. CASE p = r
    BY <2>1, <1>3, <1>4
  <2>2. CASE p # r
    BY <2>2, <1>1, <1>2, <1>3, <1>9
  <2> QED BY <2>1, <2>2
<1>14. Loose(E, Y) \subseteq Loose(C, {})
  <2> SUFFICES ASSUME NEW n \in Loose(E, Y) PROVE n \in Loose(C, {})
    OBVIOUS
  <2>1. n \in Node /\ n \notin Nodes(C[r]) /\ \A p \in Place : n \notin Nodes(E[p])
    BY <1>2 DEF Loose
  <2>2. \A p \in Place : n \notin Nodes(C[p])
    BY <2>1, <1>3
  <2> QED BY <2>1, <2>2 DEF Loose
<1>15. \A n \in Nodes(E[None]) : w.prevs[n] = None
  BY <1>1, <1>3, <1>9
<1>16. Y \subseteq Node
  BY <1>1, <1>2
<1>17. \A n \in Loose(E, Y) : w.nexts[n] = None /\ w.prevs[n] = None
  BY <1>9, <1>14
<1>18. Placed(w.nexts, w.prevs, E, Y)
  BY <1>1, <1>3, <1>10, <1>11, <1>12, <1>13, <1>15, <1>16, <1>17 DEF Placed
<1>19. \A q \in Root : v.heads[q] = At(E[q], 1)
  <2> SUFFICES ASSUME NEW q \in Root PROVE v.heads[q] = At(E[q], 1)
    OBVIOUS
  <2>1. CASE q = r
    BY <2>1, <1>1, <1>3, <1>4, <1>8
  <2>2. CASE q # r
    BY <2>2, <1>1, <1>3, <1>8, <1>9
  <2> QED BY <2>1, <2>2
<1>20. v.pool.head = At(E[None], 1) /\ v.pool.count = Len(E[None])
  BY <1>1, <1>3, <1>8
<1>21. World(v, E, Y)
  BY <1>8, <1>18, <1>19, <1>20 DEF World
<1> QED BY <1>2, <1>7, <1>21

LEMMA Detaching ==
  ASSUME NEW w, NEW C, NEW X, World(w, C, X), NEW n \in X,
         NEW v \in Worlds, v.heads = w.heads, v.pool = w.pool,
         \A m \in Node : /\ v.nexts[m] = IF m = n THEN None ELSE w.nexts[m]
                         /\ v.prevs[m] = IF m = n THEN None ELSE w.prevs[m]
  PROVE  World(v, C, X \ {n})
<1>1. PICK nx, pv, nx2, pv2 : nx = w.nexts /\ pv = w.prevs /\ nx2 = v.nexts /\ pv2 = v.prevs
  OBVIOUS
<1>2. /\ C \in [Place -> Seq(Node)] /\ X \subseteq Node
      /\ \A p \in Place : /\ C[p] \in Seq(Node) /\ Chained(nx, At(C[p], 1), C[p])
                          /\ Nodes(C[p]) \subseteq Node /\ Nodes(C[p]) \cap X = {}
      /\ \A r \in Root : r \in Place /\ BackChained(pv, C[r]) /\ C[r] \in Seq(Node)
      /\ \A m \in Nodes(C[None]) : pv[m] = None
      /\ \A p, q \in Place : p # q => Nodes(C[p]) \cap Nodes(C[q]) = {}
      /\ \A m \in Loose(C, X) : m \in Node /\ nx[m] = None /\ pv[m] = None
      /\ None \in Place
  <2>1. /\ C \in [Place -> Seq(Node)] /\ X \subseteq Node
        /\ \A p \in Place : /\ C[p] \in Seq(Node) /\ Chained(w.nexts, At(C[p], 1), C[p])
                            /\ Nodes(C[p]) \subseteq Node /\ Nodes(C[p]) \cap X = {}
        /\ \A r \in Root : BackChained(w.prevs, C[r]) /\ C[r] \in Seq(Node)
        /\ \A m \in Nodes(C[None]) : w.prevs[m] = None
        /\ \A p, q \in Place : p # q => Nodes(C[p]) \cap Nodes(C[q]) = {}
        /\ \A m \in Loose(C, X) : m \in Node /\ w.nexts[m] = None /\ w.prevs[m] = None
    <3>1. C \in [Place -> Seq(Node)] /\ X \subseteq Node
      BY WorldParts
    <3>2. ASSUME NEW p \in Place
          PROVE  /\ C[p] \in Seq(Node) /\ Chained(w.nexts, At(C[p], 1), C[p])
                 /\ Nodes(C[p]) \subseteq Node /\ Nodes(C[p]) \cap X = {}
      BY WorldParts
    <3>3. ASSUME NEW r \in Root PROVE BackChained(w.prevs, C[r]) /\ C[r] \in Seq(Node)
      BY WorldParts
    <3>4. \A m \in Nodes(C[None]) : w.prevs[m] = None
      BY WorldParts
    <3>5. ASSUME NEW p \in Place, NEW q \in Place, p # q
          PROVE  Nodes(C[p]) \cap Nodes(C[q]) = {}
      BY <3>5 DEF World, Placed
    <3>6. ASSUME NEW m \in Loose(C, X)
          PROVE  m \in Node /\ w.nexts[m] = None /\ w.prevs[m] = None
      BY WorldParts
    <3> QED BY <3>1, <3>2, <3>3, <3>4, <3>5, <3>6
  <2> QED BY <1>1, <2>1, Places
<1>3. /\ nx2 \in Links /\ pv2 \in Links
      /\ \A m \in Node : m # n => nx2[m] = nx[m] /\ pv2[m] = pv[m]
      /\ n \in Node /\ nx2[n] = None /\ pv2[n] = None
  BY <1>1, <1>2 DEF Worlds
<1>4. \A p \in Place : \A m \in Nodes(C[p]) : m # n /\ nx2[m] = nx[m] /\ pv2[m] = pv[m]
  BY <1>2, <1>3
<1>5. ASSUME NEW p \in Place PROVE Chained(nx2, At(C[p], 1), C[p])
  <2>1. Chained(nx, At(C[p], 1), C[p])
    BY <1>2
  <2>2. \A m \in Nodes(C[p]) : nx2[m] = nx[m]
    BY <1>4
  <2> QED BY <2>1, <2>2, ChainFrame
<1>6. ASSUME NEW r \in Root PROVE BackChained(pv2, C[r])
  <2>1. BackChained(pv, C[r]) /\ C[r] \in Seq(Node)
    BY <1>2
  <2>2. \A m \in Nodes(C[r]) : pv2[m] = pv[m]
    BY <1>2, <1>4
  <2> QED BY <2>1, <2>2, BackFrame
<1>7. \A m \in Nodes(C[None]) : pv2[m] = None
  BY <1>2, <1>4
<1>8. \A m \in Loose(C, X \ {n}) : nx2[m] = None /\ pv2[m] = None
  <2> SUFFICES ASSUME NEW m \in Loose(C, X \ {n}), m # n PROVE nx2[m] = None /\ pv2[m] = None
    BY <1>3
  <2>1. m \in Loose(C, X) /\ m \in Node
    BY DEF Loose
  <2> QED BY <2>1, <1>2, <1>3
<1>9. \A p \in Place : Nodes(C[p]) \cap (X \ {n}) = {}
  BY <1>2
<1>10. Placed(nx2, pv2, C, X \ {n})
  BY <1>2, <1>3, <1>5, <1>6, <1>7, <1>8, <1>9 DEF Placed
<1> QED BY <1>1, <1>10 DEF World

-----------------------------------------------------------------------------
(* The invariant: the world is sound, and a traversal is where it can go   *)
(* on; y is what a clear has yet to detach before the first node.          *)

Plain(v, C) ==
  /\ v \in [op : {"ForEach", "Find", "Count", "Map", "Prefix", "Tail"}, root : Root,
            at : Node \cup {None}, fuel : Nat, head : {None}]
  /\ v.at \in Nodes(C[v.root]) \cup {None}

Clearing(w, v, X, y) ==
  /\ v \in [op : {"Clear"}, root : Root, at : Node \cup {None}, fuel : Nat, head : Node]
  /\ Chained(w.nexts, v.at, y)
  /\ v.head \notin Nodes(y) /\ w.prevs[v.head] = None
  /\ X = Nodes(y) \cup {v.head}
  /\ Len(y) < v.fuel

Travels(w, v, C, X, y) ==
  \/ v = Idle /\ X = {}
  \/ Plain(v, C) /\ X = {}
  \/ Clearing(w, v, X, y)

ListsSound == \E C, X, y : World(world, C, X) /\ Travels(world, visit, C, X, y)

LEMMA SoundInit == ListsInit => ListsSound
<1> SUFFICES ASSUME ListsInit PROVE ListsSound
  OBVIOUS
<1>1. PICK C : C = [p \in Place |-> <<>>]
  OBVIOUS
<1>2. C \in [Place -> Seq(Node)] /\ \A p \in Place : C[p] = <<>>
  BY <1>1
<1>3. Nodes(<<>>) = {} /\ At(<<>>, 1) = None /\ Len(<<>>) = 0
  BY DEF Nodes, At
<1>4. PICK none \in Links : none = [n \in Node |-> None] /\ \A n \in Node : none[n] = None
  <2>1. [n \in Node |-> None] \in Links
    BY DEF Links
  <2> QED BY <2>1
<1>5. /\ world.nexts = none /\ world.prevs = none /\ world.heads = [r \in Root |-> None]
      /\ world.pool.head = None /\ world.pool.count = 0 /\ world \in Worlds
  BY <1>4 DEF ListsInit, Worlds
<1>6. Chained(none, None, <<>>) /\ BackChained(none, <<>>)
  BY <1>3 DEF Chained, BackChained
<1>7. \A n \in Loose(C, {}) : n \in Node
  BY DEF Loose
<1>8. None \in Place /\ Root \subseteq Place
  BY Places
<1>9. Placed(none, none, C, {})
  BY <1>2, <1>3, <1>4, <1>6, <1>7, <1>8 DEF Placed
<1>10. World(world, C, {})
  BY <1>2, <1>3, <1>5, <1>8, <1>9 DEF World
<1>11. visit = Idle
  BY DEF ListsInit
<1> QED BY <1>10, <1>11 DEF ListsSound, Travels

(* What an edit does to a world, and which nodes of a list it leaves in.   *)
LEMMA EditWorld ==
  ASSUME NEW w, NEW C, NEW X, World(w, C, X), NEW K, X \subseteq K, NEW e \in Edits(w, K)
  PROVE  \E E : /\ World(e.to, E, X) /\ SameLinks(e.to, w, X) /\ EditOf(C, E, X, K, e.call)
                /\ \A r \in Root : \A n \in Nodes(C[r]) :
                     n \in K \/ e.to.prevs[n] # None => n \in Nodes(E[r])
<1>1. PICK E : World(e.to, E, X) /\ SameLinks(e.to, w, X) /\ EditOf(C, E, X, K, e.call)
  BY EditIs
<1>2. PICK v, call : v = e.to /\ call = e.call
  OBVIOUS
<1>3. World(v, E, X) /\ EditOf(C, E, X, K, call)
  BY <1>1, <1>2
<1>4. ASSUME NEW r \in Root, NEW n \in Nodes(C[r]), n \in K \/ v.prevs[n] # None
      PROVE  n \in Nodes(E[r])
  BY <1>3, <1>4, EditStays
<1> QED BY <1>1, <1>2, <1>4

LEMMA PlainGoes ==
  ASSUME NEW C, NEW E, Plain(visit, C), visit.fuel > 0,
         NEW op \in {"ForEach", "Find", "Count", "Map", "Prefix", "Tail"}, NEW at,
         at \in Nodes(E[visit.root]) \cup {None}, Nodes(E[visit.root]) \subseteq Node,
         GoOn(op, at)
  PROVE  Plain(visit', E)
<1>1. visit.fuel \in Nat /\ visit.fuel - 1 \in Nat
  BY DEF Plain
<1>2. at \in Node \cup {None}
  OBVIOUS
<1>3. visit' = [visit EXCEPT !.op = op, !.at = at, !.fuel = visit.fuel - 1]
  BY DEF GoOn, Plain
<1>4. /\ visit' \in [op : {"ForEach", "Find", "Count", "Map", "Prefix", "Tail"}, root : Root,
                     at : Node \cup {None}, fuel : Nat, head : {None}]
      /\ visit'.root = visit.root /\ visit'.at = at
  BY <1>1, <1>2, <1>3 DEF Plain
<1> QED BY <1>4 DEF Plain

LEMMA SoundIs ==
  ASSUME NEW w, NEW v, NEW C, NEW X, NEW y, World(w, C, X), Travels(w, v, C, X, y)
  PROVE  /\ v = Idle => X = {}
         /\ v.op \in {"ForEach", "Find", "Count", "Map", "Prefix", "Tail"} => Plain(v, C) /\ X = {}
         /\ v.op = "Clear" => Clearing(w, v, X, y)
         /\ v # Idle => (Plain(v, C) /\ X = {}) \/ Clearing(w, v, X, y)
<1>1. v = Idle => v.op = "Idle"
  BY DEF Idle
<1>2. Plain(v, C) => v.op \in {"ForEach", "Find", "Count", "Map", "Prefix", "Tail"}
  BY DEF Plain
<1>3. Clearing(w, v, X, y) => v.op = "Clear"
  BY DEF Clearing
<1>4. (v = Idle /\ X = {}) \/ (Plain(v, C) /\ X = {}) \/ Clearing(w, v, X, y)
  BY DEF Travels
<1>5. \A o \in {"ForEach", "Find", "Count", "Map", "Prefix", "Tail"} : o # "Clear" /\ o # "Idle"
  OBVIOUS
<1>6. "Clear" # "Idle"
  OBVIOUS
<1> QED BY <1>1, <1>2, <1>3, <1>4, <1>5, <1>6

LEMMA SoundAgain ==
  ASSUME NEW C, NEW X, NEW y, World(world', C, X), Travels(world', visit', C, X, y)
  PROVE  ListsSound'
BY DEF ListsSound

LEMMA IdleAgain ==
  ASSUME NEW C, World(world', C, {}), visit' = Idle
  PROVE  ListsSound'
<1>1. Travels(world', visit', C, {}, <<>>)
  BY DEF Travels
<1> QED BY <1>1, SoundAgain

LEMMA PlainAgain ==
  ASSUME NEW C, World(world', C, {}), Plain(visit', C)
  PROVE  ListsSound'
<1>1. Travels(world', visit', C, {}, <<>>)
  BY DEF Travels
<1> QED BY <1>1, SoundAgain

-----------------------------------------------------------------------------
(* Calls.                                                                  *)

LEMMA SoundEditCall == ListsSound /\ EditCall => ListsSound'
<1> SUFFICES ASSUME ListsSound, EditCall PROVE ListsSound'
  OBVIOUS
<1>1. PICK C, X, y : World(world, C, X) /\ Travels(world, visit, C, X, y)
  BY DEF ListsSound
<1>2. PICK e \in Edits(world, {}) : visit = Idle /\ visit' = Idle /\ world' = e.to
  BY DEF EditCall, Call
<1>3. X = {}
  BY <1>1, <1>2, SoundIs
<1>4. World(world, C, {}) /\ {} \subseteq {}
  BY <1>1, <1>3
<1>5. PICK w : w = world
  OBVIOUS
<1>6. World(w, C, {}) /\ e \in Edits(w, {})
  BY <1>2, <1>4, <1>5
<1>7. PICK E : World(e.to, E, {})
  BY <1>6, EditIs
<1> QED BY <1>2, <1>7, IdleAgain

LEMMA MadeIs ==
  ASSUME NEW C, World(world, C, {}), NEW k \in 0 .. MaxBound, NEW s \in [1 .. k -> Node], Made(s)
  PROVE  s \in Seq(Node) /\ IsInjective(s) /\ Nodes(s) \subseteq Loose(C, {})
<1>1. k \in Nat
  BY IntrusiveListAssumption
<1>2. s \in Seq(Node)
  BY <1>1
<1>3. Detached(world) \ {} = Loose(C, {})
  BY WorldWalks
<1> QED BY <1>2, <1>3 DEF Made

LEMMA SoundBuild ==
  ASSUME ListsSound, NEW k \in 0 .. MaxBound, NEW s \in [1 .. k -> Node], NEW r \in Root, Build(r, s)
  PROVE  ListsSound'
<1>1. PICK C, X, y : World(world, C, X) /\ Travels(world, visit, C, X, y)
  BY DEF ListsSound
<1>2. visit = Idle /\ visit' = Idle /\ Made(s) /\ world.heads[r] = None
      /\ world' = IF s = <<>> THEN world ELSE [Built(world, s) EXCEPT !.heads[r] = s[1]]
  BY DEF Build, Call
<1>3. X = {}
  BY <1>1, <1>2, SoundIs
<1>4. World(world, C, {})
  BY <1>1, <1>3
<1>5. s \in Seq(Node) /\ IsInjective(s) /\ Nodes(s) \subseteq Loose(C, {})
  BY <1>2, <1>4, MadeIs
<1>6. CASE s = <<>>
  BY <1>2, <1>4, <1>6, IdleAgain
<1>7. CASE s # <<>>
  <2>1. PICK w : w = world
    OBVIOUS
  <2>2. World([Built(w, s) EXCEPT !.heads[r] = s[1]], [C EXCEPT ![r] = s], {})
    BY <1>2, <1>4, <1>5, <1>7, <2>1, Building
  <2> QED BY <1>2, <1>7, <2>1, <2>2, IdleAgain
<1> QED BY <1>6, <1>7

LEMMA SoundPoolNew ==
  ASSUME ListsSound, NEW k \in 0 .. MaxBound, NEW s \in [1 .. k -> Node], PoolNew(s)
  PROVE  ListsSound'
<1>1. PICK C, X, y : World(world, C, X) /\ Travels(world, visit, C, X, y)
  BY DEF ListsSound
<1>2. visit = Idle /\ visit' = Idle /\ Made(s) /\ s # <<>> /\ world.pool.head = None
      /\ world' = PoolGrown(world, s)
  BY DEF PoolNew, Call
<1>3. X = {}
  BY <1>1, <1>2, SoundIs
<1>4. World(world, C, {})
  BY <1>1, <1>3
<1>5. s \in Seq(Node) /\ IsInjective(s) /\ Nodes(s) \subseteq Loose(C, {})
  BY <1>2, <1>4, MadeIs
<1>6. PICK w : w = world
  OBVIOUS
<1>7. World(PoolGrown(w, s), [C EXCEPT ![None] = Reverse(s)], {})
  BY <1>2, <1>4, <1>5, <1>6, Growing
<1> QED BY <1>2, <1>6, <1>7, IdleAgain

\* A world that stays, and a traversal that stays or ends in a sound place.
LEMMA SoundStays ==
  ASSUME ListsSound, UNCHANGED world, visit = Idle, visit' = Idle
  PROVE  ListsSound'
<1>1. PICK C, X, y : World(world, C, X) /\ Travels(world, visit, C, X, y)
  BY DEF ListsSound
<1>2. X = {}
  BY <1>1, SoundIs
<1>3. World(world', C, {})
  BY <1>1, <1>2
<1> QED BY <1>3, IdleAgain

LEMMA SoundBegins ==
  ASSUME ListsSound, NEW op \in {"ForEach", "Find", "Count", "Map", "Prefix", "Tail"},
         NEW r \in Root, NEW fuel \in 0 .. MaxBound, NEW at,
         Started(op, r, at, fuel, None), UNCHANGED world,
         \A C : World(world, C, {}) => at \in Nodes(C[r]) \cup {None}
  PROVE  ListsSound'
<1>1. PICK C, X, y : World(world, C, X) /\ Travels(world, visit, C, X, y)
  BY DEF ListsSound
<1>2. visit = Idle /\ visit' = [op |-> op, root |-> r, at |-> at, fuel |-> fuel, head |-> None]
  BY DEF Started
<1>3. X = {}
  BY <1>1, <1>2, SoundIs
<1>4. World(world, C, {}) /\ World(world', C, {})
  BY <1>1, <1>3
<1>5. at \in Nodes(C[r]) \cup {None} /\ Nodes(C[r]) \subseteq Node
  BY <1>4, Neighbours
<1>6. fuel \in Nat
  BY IntrusiveListAssumption
<1>7. Plain(visit', C)
  BY <1>2, <1>5, <1>6 DEF Plain
<1> QED BY <1>4, <1>7, PlainAgain

LEMMA SoundBegin ==
  ASSUME ListsSound, NEW op \in {"ForEach", "Find", "Count", "Prefix"},
         NEW r \in Root, NEW fuel \in 0 .. MaxBound, Begin(op, r, fuel)
  PROVE  ListsSound'
<1>1. Started(op, r, world.heads[r], fuel, None) /\ UNCHANGED world
  BY DEF Begin
<1>2. op \in {"ForEach", "Find", "Count", "Map", "Prefix", "Tail"}
  OBVIOUS
<1>3. PICK at : at = world.heads[r]
  OBVIOUS
<1>4. \A C : World(world, C, {}) => at \in Nodes(C[r]) \cup {None}
  BY <1>3, Neighbours
<1> QED BY <1>1, <1>2, <1>3, <1>4, SoundBegins

LEMMA SoundBeginMap ==
  ASSUME ListsSound, NEW r \in Root, NEW fuel \in 0 .. MaxBound, BeginMap(r, fuel)
  PROVE  ListsSound'
<1>1. PICK at : at = IF Chain(world, r) = <<>> THEN None ELSE Last(Chain(world, r))
  OBVIOUS
<1>2. Started("Map", r, at, fuel, None) /\ UNCHANGED world
  BY <1>1 DEF BeginMap
<1>3. ASSUME NEW C, World(world, C, {}) PROVE at \in Nodes(C[r]) \cup {None}
  <2>1. Chain(world, r) = C[r]
    BY <1>3, WorldWalks
  <2>2. C[r] # <<>> => Last(C[r]) \in Nodes(C[r])
    BY <1>3, Neighbours
  <2> QED BY <1>1, <2>1, <2>2
<1>4. "Map" \in {"ForEach", "Find", "Count", "Map", "Prefix", "Tail"}
  OBVIOUS
<1> QED BY <1>2, <1>3, <1>4, SoundBegins

LEMMA SoundBeginClear ==
  ASSUME ListsSound, NEW r \in Root, NEW fuel \in 0 .. MaxBound, BeginClear(r, fuel)
  PROVE  ListsSound'
<1>1. PICK C, X, y : World(world, C, X) /\ Travels(world, visit, C, X, y)
  BY DEF ListsSound
<1>2. PICK w, h, c : w = world /\ h = w.heads[r] /\ c = C[r]
  OBVIOUS
<1>3. /\ Fits(r, fuel) /\ world' = [w EXCEPT !.heads[r] = None]
      /\ \/ h = None /\ visit = Idle /\ visit' = Idle
         \/ h # None /\ visit = Idle
            /\ visit' = [op |-> "Clear", root |-> r, at |-> w.nexts[h], fuel |-> fuel, head |-> h]
  BY <1>2 DEF BeginClear, Call, Started
<1>4. X = {}
  BY <1>1, <1>3, SoundIs
<1>5. World(w, C, {})
  BY <1>1, <1>2, <1>4
<1>6. World(world', [C EXCEPT ![r] = <<>>], Nodes(c))
  BY <1>2, <1>3, <1>5, Emptying
<1>7. (h = None <=> c = <<>>)
  BY <1>2, <1>5, Neighbours
<1>8. CASE h = None
  <2>1. Nodes(c) = {}
    BY <1>7, <1>8 DEF Nodes
  <2> QED BY <1>3, <1>6, <1>8, <2>1, IdleAgain
<1>9. CASE h # None
  <2>1. PICK a : a = w.nexts
    OBVIOUS
  <2>2. /\ Chained(a, h, c) /\ BackChained(w.prevs, c) /\ c \in Seq(Node) /\ c # <<>>
        /\ w.nexts \in Links /\ w.prevs \in Links
        /\ w.heads \in [Root -> Node \cup {None}]
    BY <1>2, <1>5, <1>7, <1>9, <2>1, WorldParts
  <2>3. /\ c[1] \in Node /\ h = c[1] /\ c[1] \in Nodes(c)
        /\ Tail(c) \in Seq(Node) /\ Len(Tail(c)) = Len(c) - 1
        /\ Nodes(Tail(c)) = Nodes(c) \ {c[1]}
        /\ Chained(a, a[c[1]], Tail(c))
    BY <2>2, ChainTail
  <2>4. w \in Worlds
    BY <1>5 DEF World
  <2>5. world'.nexts = a /\ world'.prevs = w.prevs
    BY <1>3, <2>1, <2>4 DEF Worlds
  <2>6. visit' = [op |-> "Clear", root |-> r, at |-> a[h], fuel |-> fuel, head |-> h]
    BY <1>3, <1>9, <2>1
  <2>7. a[h] \in Node \cup {None}
    BY <2>1, <2>2, <2>3 DEF Links
  <2>8. fuel \in Nat /\ Len(c) \in Nat /\ Len(c) <= fuel
    <3>1. Len(Chain(world, r)) <= fuel
      BY <1>3 DEF Fits
    <3>2. Chain(w, r) = C[r]
      BY <1>5, WorldWalks
    <3> QED BY <1>2, <2>2, <3>1, <3>2, IntrusiveListAssumption
  <2>9. w.prevs[h] = None
    <3>1. Len(c) \in Nat /\ 1 \in 1 .. Len(c)
      BY <2>2
    <3>2. w.prevs[c[1]] = At(c, 1 - 1)
      BY <2>2, <3>1 DEF BackChained
    <3> QED BY <2>3, <3>2 DEF At
  <2>10. Clearing(world', visit', Nodes(c), Tail(c))
    <3>1. visit' \in [op : {"Clear"}, root : Root, at : Node \cup {None}, fuel : Nat, head : Node]
      BY <2>3, <2>6, <2>7, <2>8
    <3>2. visit'.at = a[c[1]] /\ visit'.head = c[1] /\ visit'.fuel = fuel
      BY <2>3, <2>6
    <3>3. Len(Tail(c)) < fuel
      BY <2>3, <2>8
    <3> QED BY <2>3, <2>5, <2>9, <3>1, <3>2, <3>3 DEF Clearing
  <2>11. Travels(world', visit', [C EXCEPT ![r] = <<>>], Nodes(c), Tail(c))
    BY <2>10 DEF Travels
  <2> QED BY <1>6, <2>11, SoundAgain
<1> QED BY <1>8, <1>9

LEMMA SoundFinish == ListsSound /\ Finish => ListsSound'
<1> SUFFICES ASSUME ListsSound, Finish PROVE ListsSound'
  OBVIOUS
<1>1. PICK C, X, y : World(world, C, X) /\ Travels(world, visit, C, X, y)
  BY DEF ListsSound
<1>2. visit # Idle /\ world' = world /\ visit' = Idle /\ (visit.op # "Clear" \/ visit.fuel = 0)
  BY DEF Finish, End
<1>3. ~ Clearing(world, visit, X, y)
  <2> SUFFICES ASSUME Clearing(world, visit, X, y) PROVE FALSE
    OBVIOUS
  <2>1. visit.op = "Clear" /\ y \in Seq(Node) /\ Len(y) < visit.fuel
    BY DEF Clearing, Chained
  <2> QED BY <1>2, <2>1
<1>4. X = {}
  BY <1>1, <1>2, <1>3, SoundIs
<1>5. World(world', C, {})
  BY <1>1, <1>2, <1>4
<1> QED BY <1>2, <1>5, IdleAgain

-----------------------------------------------------------------------------
(* Iterations.                                                             *)

\* The start of each proof: the traversal is at a node of its list.
LEMMA AtNode ==
  ASSUME ListsSound, NEW ops \in SUBSET {"ForEach", "Find", "Count", "Map", "Prefix", "Tail"},
         Visiting(ops)
  PROVE  \E C : /\ World(world, C, {}) /\ Plain(visit, C) /\ visit.root \in Root
                /\ visit.at \in Nodes(C[visit.root]) /\ visit.fuel > 0 /\ visit.op \in ops
                /\ visit.at \in Node
<1>1. PICK C, X, y : World(world, C, X) /\ Travels(world, visit, C, X, y)
  BY DEF ListsSound
<1>2. visit.op \in ops /\ visit.at # None /\ visit.fuel > 0
  BY DEF Visiting
<1>3. Plain(visit, C) /\ X = {}
  BY <1>1, <1>2, SoundIs
<1>4. visit.root \in Root /\ visit.at \in Nodes(C[visit.root]) \cup {None} /\ visit.at \in Node \cup {None}
  BY <1>3 DEF Plain
<1> QED BY <1>1, <1>2, <1>3, <1>4

LEMMA SoundVisitEach == ListsSound /\ VisitEach => ListsSound'
<1> SUFFICES ASSUME ListsSound, VisitEach PROVE ListsSound'
  OBVIOUS
<1>1. Visiting({"ForEach"})
  BY DEF VisitEach
<1>2. PICK C : /\ World(world, C, {}) /\ Plain(visit, C) /\ visit.root \in Root
               /\ visit.at \in Nodes(C[visit.root]) /\ visit.fuel > 0
  BY <1>1, AtNode
<1>3. PICK w, r, n, after : w = world /\ r = visit.root /\ n = visit.at /\ after = w.nexts[n]
  OBVIOUS
<1>4. PICK e \in Edits(w, {after}) : world' = e.to /\ GoOn("ForEach", after)
  BY <1>3 DEF VisitEach
<1>5. World(w, C, {}) /\ r \in Root /\ n \in Nodes(C[r]) /\ {} \subseteq {after}
  BY <1>2, <1>3
<1>6. PICK E : /\ World(e.to, E, {})
               /\ \A q \in Root : \A m \in Nodes(C[q]) :
                    m \in {after} \/ e.to.prevs[m] # None => m \in Nodes(E[q])
  BY <1>5, EditWorld
<1>7. after \in Nodes(C[r]) \cup {None}
  BY <1>3, <1>5, Neighbours
<1>8. after \in Nodes(E[r]) \cup {None} /\ Nodes(E[r]) \subseteq Node
  BY <1>5, <1>6, <1>7, Neighbours
<1>9. Plain(visit', E)
  BY <1>2, <1>3, <1>4, <1>8, PlainGoes
<1> QED BY <1>4, <1>6, <1>9, PlainAgain

LEMMA SoundVisitStaying == ListsSound /\ VisitStaying => ListsSound'
<1> SUFFICES ASSUME ListsSound, VisitStaying PROVE ListsSound'
  OBVIOUS
<1>1. Visiting({"Find", "Count", "Map"})
  BY DEF VisitStaying
<1>2. PICK C : /\ World(world, C, {}) /\ Plain(visit, C) /\ visit.root \in Root
               /\ visit.at \in Nodes(C[visit.root]) /\ visit.fuel > 0
               /\ visit.op \in {"Find", "Count", "Map"}
  BY <1>1, AtNode
<1>3. PICK w, r, n : w = world /\ r = visit.root /\ n = visit.at
  OBVIOUS
<1>4. PICK e \in Edits(w, {n}) :
        /\ world' = e.to
        /\ GoOn(visit.op, IF visit.op = "Map" THEN e.to.prevs[n] ELSE e.to.nexts[n])
  BY <1>3 DEF VisitStaying
<1>5. World(w, C, {}) /\ r \in Root /\ n \in Nodes(C[r]) /\ {} \subseteq {n}
  BY <1>2, <1>3
<1>6. PICK E : /\ World(e.to, E, {})
               /\ \A q \in Root : \A m \in Nodes(C[q]) :
                    m \in {n} \/ e.to.prevs[m] # None => m \in Nodes(E[q])
  BY <1>5, EditWorld
<1>7. PICK v, at : v = e.to /\ at = IF visit.op = "Map" THEN v.prevs[n] ELSE v.nexts[n]
  OBVIOUS
<1>8. n \in Nodes(E[r])
  BY <1>5, <1>6
<1>9. World(v, E, {})
  BY <1>6, <1>7
<1>10. at \in Nodes(E[r]) \cup {None} /\ Nodes(E[r]) \subseteq Node
  BY <1>5, <1>7, <1>8, <1>9, Neighbours
<1>11. GoOn(visit.op, at)
  BY <1>4, <1>7
<1>12. visit.op \in {"ForEach", "Find", "Count", "Map", "Prefix", "Tail"}
  BY <1>2
<1>13. Plain(visit', E)
  BY <1>2, <1>3, <1>10, <1>11, <1>12, PlainGoes
<1> QED BY <1>4, <1>6, <1>13, PlainAgain

LEMMA SoundHit == ListsSound /\ Hit => ListsSound'
<1> SUFFICES ASSUME ListsSound, Hit PROVE ListsSound'
  OBVIOUS
<1>1. Visiting({"Find"})
  BY DEF Hit
<1>2. PICK C : World(world, C, {})
  BY <1>1, AtNode
<1>3. PICK w, n : w = world /\ n = visit.at
  OBVIOUS
<1>4. PICK e \in Edits(w, {n}) : world' = e.to /\ visit' = Idle
  BY <1>3 DEF Hit
<1>5. World(w, C, {}) /\ {} \subseteq {n}
  BY <1>2, <1>3
<1>6. PICK E : World(e.to, E, {})
  BY <1>5, EditIs
<1> QED BY <1>4, <1>6, IdleAgain

LEMMA SoundFilterPrefix == ListsSound /\ FilterPrefix => ListsSound'
<1> SUFFICES ASSUME ListsSound, FilterPrefix PROVE ListsSound'
  OBVIOUS
<1>1. Visiting({"Prefix"})
  BY DEF FilterPrefix
<1>2. PICK C : /\ World(world, C, {}) /\ Plain(visit, C) /\ visit.root \in Root
               /\ visit.at \in Nodes(C[visit.root]) /\ visit.fuel > 0
  BY <1>1, AtNode
<1>3. PICK w, r : w = world /\ r = visit.root
  OBVIOUS
<1>4. PICK e \in Edits(w, {}) :
         \/ world' = e.to /\ visit' = Idle
         \/ e.to.heads[r] # None /\ world' = e.to /\ GoOn("Tail", e.to.nexts[e.to.heads[r]])
         \/ /\ e.to.heads[r] # None
            /\ \E d \in Edits(Removed(e.to, r, e.to.heads[r]), {}) :
                 world' = d.to /\ GoOn("Prefix", d.to.heads[r])
  BY <1>3 DEF FilterPrefix, FilterKept, End
<1>5. World(w, C, {}) /\ r \in Root /\ {} \subseteq {}
  BY <1>2, <1>3
<1>6. PICK E : World(e.to, E, {})
  BY <1>5, EditIs
<1>7. PICK v, live : v = e.to /\ live = v.heads[r]
  OBVIOUS
<1>8. World(v, E, {})
  BY <1>6, <1>7
<1>9. CASE world' = e.to /\ visit' = Idle
  BY <1>6, <1>9, IdleAgain
<1>10. CASE live # None /\ world' = v /\ GoOn("Tail", v.nexts[live])
  <2>1. live \in Nodes(E[r])
    BY <1>5, <1>7, <1>8, <1>10, Neighbours
  <2>2. PICK at : at = v.nexts[live]
    OBVIOUS
  <2>3. at \in Nodes(E[r]) \cup {None} /\ Nodes(E[r]) \subseteq Node
    BY <1>5, <1>8, <2>1, <2>2, Neighbours
  <2>4. "Tail" \in {"ForEach", "Find", "Count", "Map", "Prefix", "Tail"} /\ GoOn("Tail", at)
    BY <1>10, <2>2
  <2>5. Plain(visit', E)
    BY <1>2, <1>3, <2>3, <2>4, PlainGoes
  <2> QED BY <1>8, <1>10, <2>5, PlainAgain
<1>11. CASE /\ live # None
            /\ \E d \in Edits(Removed(v, r, live), {}) :
                 world' = d.to /\ GoOn("Prefix", d.to.heads[r])
  <2>1. live \in Nodes(E[r]) /\ E[r] \in Seq(Node)
    BY <1>5, <1>7, <1>8, <1>11, Neighbours, WorldParts
  <2>2. PICK i \in 1 .. Len(E[r]) : live = E[r][i]
    BY <2>1, NodesOf
  <2>3. PICK F, u : F = [E EXCEPT ![r] = RemoveAt(E[r], i)] /\ u = Removed(v, r, live)
    OBVIOUS
  <2>4. World(u, F, {})
    <3>1. World(Removed(v, r, E[r][i]), [E EXCEPT ![r] = RemoveAt(E[r], i)], {})
      BY <1>5, <1>8, Removing
    <3> QED BY <2>2, <2>3, <3>1
  <2>5. PICK d \in Edits(u, {}) : world' = d.to /\ GoOn("Prefix", d.to.heads[r])
    BY <1>11, <2>3
  <2>6. PICK G : World(d.to, G, {})
    BY <1>5, <2>4, EditIs
  <2>7. PICK x, at : x = d.to /\ at = x.heads[r]
    OBVIOUS
  <2>8. at \in Nodes(G[r]) \cup {None} /\ Nodes(G[r]) \subseteq Node
    BY <1>5, <2>6, <2>7, Neighbours
  <2>9. "Prefix" \in {"ForEach", "Find", "Count", "Map", "Prefix", "Tail"} /\ GoOn("Prefix", at)
    BY <2>5, <2>7
  <2>10. Plain(visit', G)
    BY <1>2, <1>3, <2>8, <2>9, PlainGoes
  <2> QED BY <2>5, <2>6, <2>10, PlainAgain
<1> QED BY <1>4, <1>7, <1>9, <1>10, <1>11

LEMMA SoundFilterTail == ListsSound /\ FilterTail => ListsSound'
<1> SUFFICES ASSUME ListsSound, FilterTail PROVE ListsSound'
  OBVIOUS
<1>1. Visiting({"Tail"})
  BY DEF FilterTail
<1>2. PICK C : /\ World(world, C, {}) /\ Plain(visit, C) /\ visit.root \in Root
               /\ visit.at \in Nodes(C[visit.root]) /\ visit.fuel > 0
  BY <1>1, AtNode
<1>3. PICK w, r, n, after : w = world /\ r = visit.root /\ n = visit.at /\ after = w.nexts[n]
  OBVIOUS
<1>4. PICK e \in Edits(w, {after}) :
         \/ world' = e.to /\ GoOn("Tail", after)
         \/ world' = e.to /\ visit' = Idle
         \/ /\ e.to.prevs[n] # None
            /\ \E d \in Edits(Removed(e.to, r, n), {after}) :
                 world' = d.to /\ GoOn("Tail", after)
  BY <1>3 DEF FilterTail, End
<1>5. World(w, C, {}) /\ r \in Root /\ n \in Nodes(C[r]) /\ {} \subseteq {after}
  BY <1>2, <1>3
<1>6. PICK E : /\ World(e.to, E, {})
               /\ \A q \in Root : \A m \in Nodes(C[q]) :
                    m \in {after} \/ e.to.prevs[m] # None => m \in Nodes(E[q])
  BY <1>5, EditWorld
<1>7. after \in Nodes(C[r]) \cup {None} /\ after # n
  BY <1>3, <1>5, Neighbours
<1>8. after \in Nodes(E[r]) \cup {None} /\ Nodes(E[r]) \subseteq Node
  BY <1>5, <1>6, <1>7, Neighbours
<1>9. PICK v : v = e.to
  OBVIOUS
<1>10. World(v, E, {})
  BY <1>6, <1>9
<1>11. "Tail" \in {"ForEach", "Find", "Count", "Map", "Prefix", "Tail"}
  OBVIOUS
<1>12. CASE world' = v /\ visit' = Idle
  BY <1>10, <1>12, IdleAgain
<1>13. CASE world' = v /\ GoOn("Tail", after)
  <2>1. Plain(visit', E)
    BY <1>2, <1>3, <1>8, <1>11, <1>13, PlainGoes
  <2> QED BY <1>10, <1>13, <2>1, PlainAgain
<1>14. CASE /\ v.prevs[n] # None
            /\ \E d \in Edits(Removed(v, r, n), {after}) :
                 world' = d.to /\ GoOn("Tail", after)
  <2>1. n \in Nodes(E[r]) /\ E[r] \in Seq(Node)
    BY <1>5, <1>6, <1>9, <1>10, <1>14, WorldParts
  <2>2. PICK i \in 1 .. Len(E[r]) : n = E[r][i]
    BY <2>1, NodesOf
  <2>3. PICK F, u : F = [E EXCEPT ![r] = RemoveAt(E[r], i)] /\ u = Removed(v, r, n)
    OBVIOUS
  <2>4. World(u, F, {})
    <3>1. World(Removed(v, r, E[r][i]), [E EXCEPT ![r] = RemoveAt(E[r], i)], {})
      BY <1>5, <1>10, Removing
    <3> QED BY <2>2, <2>3, <3>1
  <2>5. after \in Nodes(F[r]) \cup {None}
    <3>1. PICK c : c = E[r]
      OBVIOUS
    <3>2. Chained(v.nexts, v.heads[r], E[r]) /\ E \in [Place -> Seq(Node)] /\ r \in Place
      BY <1>5, <1>10, WorldParts, Places
    <3>3. PICK a, h : Chained(a, h, c)
      BY <3>1, <3>2
    <3>4. PICK b : b = [m \in Nodes(c) |-> IF m = At(c, i - 1) THEN At(c, i + 1) ELSE a[m]]
      OBVIOUS
    <3>5. \A m \in Nodes(c) \ {c[i]} : b[m] = IF m = At(c, i - 1) THEN At(c, i + 1) ELSE a[m]
      BY <3>4
    <3>6. i \in 1 .. Len(c)
      BY <3>1
    <3>7. Nodes(RemoveAt(c, i)) = Nodes(c) \ {c[i]}
      BY <3>3, <3>5, <3>6, ChainWithout
    <3>8. F[r] = RemoveAt(c, i)
      BY <2>3, <3>1, <3>2
    <3> QED BY <1>7, <1>8, <2>2, <3>1, <3>7, <3>8
  <2>6. PICK d \in Edits(u, {after}) : world' = d.to /\ GoOn("Tail", after)
    BY <1>14, <2>3
  <2>7. PICK G : /\ World(d.to, G, {})
                 /\ \A q \in Root : \A m \in Nodes(F[q]) :
                      m \in {after} \/ d.to.prevs[m] # None => m \in Nodes(G[q])
    <3>1. {} \subseteq {after}
      OBVIOUS
    <3>2. d \in Edits(u, {after})
      OBVIOUS
    <3>3. \E G : /\ World(d.to, G, {}) /\ SameLinks(d.to, u, {}) /\ EditOf(F, G, {}, {after}, d.call)
                 /\ \A q \in Root : \A m \in Nodes(F[q]) :
                      m \in {after} \/ d.to.prevs[m] # None => m \in Nodes(G[q])
      BY <2>4, <3>1, <3>2, EditWorld
    <3> QED BY <3>3
  <2>8. PICK x : x = d.to
    OBVIOUS
  <2>9. World(x, G, {})
    BY <2>7, <2>8
  <2>10. after \in Nodes(G[r]) \cup {None} /\ Nodes(G[r]) \subseteq Node
    BY <1>5, <2>5, <2>7, <2>9, Neighbours
  <2>11. Plain(visit', G)
    BY <1>2, <1>3, <1>11, <2>6, <2>10, PlainGoes
  <2> QED BY <2>6, <2>7, <2>11, PlainAgain
<1> QED BY <1>4, <1>9, <1>12, <1>13, <1>14

\* What a clear under way has left to do.
LEMMA AtClear ==
  ASSUME ListsSound, visit.op = "Clear"
  PROVE  \E C, X, y : World(world, C, X) /\ Clearing(world, visit, X, y)
<1>1. PICK C, X, y : World(world, C, X) /\ Travels(world, visit, C, X, y)
  BY DEF ListsSound
<1> QED BY <1>1, SoundIs

(* What detaches a node after the first one: y is the chain from node n on, *)
(* z what follows it, bare the world without the links of n.               *)
ClearsRest(w, n, a, h, y, z, C, X, Z, bare) ==
  /\ w = world /\ n = visit.at /\ a = w.nexts /\ h = visit.head
  /\ visit \in [op : {"Clear"}, root : Root, at : Node \cup {None}, fuel : Nat, head : Node]
  /\ World(w, C, X) /\ w.nexts \in Links /\ w.prevs \in Links /\ visit.fuel > 0
  /\ Chained(a, n, y) /\ h \notin Nodes(y) /\ w.prevs[h] = None /\ h \in Node
  /\ Len(y) < visit.fuel /\ y # <<>> /\ y[1] = n /\ y \in Seq(Node) /\ z = Tail(y)
  /\ n \in Node /\ n # h /\ n \in Nodes(y)
  /\ z \in Seq(Node) /\ Len(z) = Len(y) - 1 /\ Nodes(z) = Nodes(y) \ {n}
  /\ Chained(a, a[n], z) /\ Z = Nodes(z) \cup {h}
  /\ World(bare, C, Z)
  /\ \A m \in Node : /\ bare.nexts[m] = IF m = n THEN None ELSE a[m]
                     /\ bare.prevs[m] = IF m = n THEN None ELSE w.prevs[m]
  /\ \E e \in Edits(bare, Z) :
       /\ reply' = <<"Cleared", n, e.call>> /\ world' = e.to /\ GoOn("Clear", a[n])

LEMMA ClearRestIs ==
  ASSUME ListsSound, ClearRest
  PROVE  \E w, n, a, h, y, z, C, X, Z, bare : ClearsRest(w, n, a, h, y, z, C, X, Z, bare)
<1>1. visit.op = "Clear" /\ visit.at # None /\ visit.fuel > 0
  BY DEF ClearRest, Visiting
<1>2. PICK C, X, y : World(world, C, X) /\ Clearing(world, visit, X, y)
  BY <1>1, AtClear
<1>3. PICK w, n, a, h, z : /\ w = world /\ n = visit.at /\ a = w.nexts /\ h = visit.head
                           /\ z = Tail(y)
  OBVIOUS
<1>4. /\ visit \in [op : {"Clear"}, root : Root, at : Node \cup {None}, fuel : Nat, head : Node]
      /\ Chained(a, n, y) /\ h \notin Nodes(y) /\ w.prevs[h] = None
      /\ X = Nodes(y) \cup {h} /\ Len(y) < visit.fuel /\ h \in Node
  BY <1>2, <1>3 DEF Clearing
<1>5. y \in Seq(Node) /\ n = At(y, 1)
  BY <1>4 DEF Chained
<1>6. y # <<>>
  BY <1>1, <1>3, <1>5 DEF At
<1>7. /\ y[1] \in Node /\ n = y[1] /\ y[1] \in Nodes(y)
      /\ Tail(y) \in Seq(Node) /\ Len(Tail(y)) = Len(y) - 1
      /\ Nodes(Tail(y)) = Nodes(y) \ {y[1]}
      /\ Chained(a, a[y[1]], Tail(y))
  BY <1>4, <1>6, ChainTail
<1>8. n \in Node /\ n \in X /\ n # h /\ n \in Nodes(y)
      /\ z \in Seq(Node) /\ Len(z) = Len(y) - 1
      /\ Nodes(z) = Nodes(y) \ {n} /\ Chained(a, a[n], z)
  BY <1>3, <1>4, <1>7
<1>9. w.nexts \in Links /\ w.prevs \in Links /\ w \in Worlds /\ a \in Links
  <2>1. World(w, C, X)
    BY <1>2, <1>3
  <2>2. w.nexts \in Links /\ w.prevs \in Links
    BY <2>1, WorldParts
  <2>3. w \in Worlds
    BY <2>1 DEF World
  <2> QED BY <1>3, <2>2, <2>3
<1>10. Walk(a, a[n]) = z
  BY <1>8, <1>9, WalkIs
<1>11. PICK bare : bare = [w EXCEPT !.nexts[n] = None, !.prevs[n] = None]
  OBVIOUS
<1>12. PICK na, pa : na = [w.nexts EXCEPT ![n] = None] /\ pa = [w.prevs EXCEPT ![n] = None]
  OBVIOUS
<1>13. /\ na \in Links /\ \A m \in Node : na[m] = IF m = n THEN None ELSE w.nexts[m]
       /\ pa \in Links /\ \A m \in Node : pa[m] = IF m = n THEN None ELSE w.prevs[m]
  BY <1>8, <1>9, <1>12 DEF Links
<1>14. bare = [w EXCEPT !.nexts = na, !.prevs = pa]
  BY <1>9, <1>11, <1>12 DEF Worlds
<1>15. bare \in Worlds /\ bare.heads = w.heads /\ bare.pool = w.pool
       /\ bare.nexts = na /\ bare.prevs = pa
  BY <1>9, <1>13, <1>14 DEF Worlds
<1>16. PICK Z : Z = X \ {n} /\ Z = Nodes(z) \cup {h}
  BY <1>4, <1>8
<1>17. World(bare, C, Z)
  <2>1. World(w, C, X)
    BY <1>2, <1>3
  <2>2. \A m \in Node : /\ bare.nexts[m] = IF m = n THEN None ELSE w.nexts[m]
                        /\ bare.prevs[m] = IF m = n THEN None ELSE w.prevs[m]
    BY <1>13, <1>15
  <2>3. World(bare, C, X \ {n})
    BY <1>8, <1>15, <2>1, <2>2, Detaching
  <2> QED BY <1>16, <2>3
<1>18. \E e \in Edits(bare, Z) : /\ reply' = <<"Cleared", n, e.call>>
                                 /\ world' = e.to /\ GoOn("Clear", a[n])
  BY <1>3, <1>10, <1>11, <1>16 DEF ClearRest
<1>19. World(w, C, X) /\ visit.fuel > 0 /\ y[1] = n /\ z = Tail(y)
  BY <1>1, <1>2, <1>3, <1>7
<1>20. \A m \in Node : /\ bare.nexts[m] = IF m = n THEN None ELSE a[m]
                       /\ bare.prevs[m] = IF m = n THEN None ELSE w.prevs[m]
  BY <1>3, <1>13, <1>15
<1>21. ClearsRest(w, n, a, h, y, z, C, X, Z, bare)
  <2>1. w = world /\ n = visit.at /\ a = w.nexts /\ h = visit.head /\ z = Tail(y)
    BY <1>3
  <2>2. /\ visit \in [op : {"Clear"}, root : Root, at : Node \cup {None}, fuel : Nat, head : Node]
        /\ World(w, C, X) /\ w.nexts \in Links /\ w.prevs \in Links /\ visit.fuel > 0
    BY <1>4, <1>9, <1>19
  <2>3. /\ Chained(a, n, y) /\ h \notin Nodes(y) /\ w.prevs[h] = None /\ h \in Node
        /\ Len(y) < visit.fuel /\ y # <<>> /\ y[1] = n /\ y \in Seq(Node)
    BY <1>4, <1>5, <1>6, <1>19
  <2>4. /\ n \in Node /\ n # h /\ n \in Nodes(y)
        /\ z \in Seq(Node) /\ Len(z) = Len(y) - 1 /\ Nodes(z) = Nodes(y) \ {n}
        /\ Chained(a, a[n], z)
    BY <1>8
  <2>5. Z = Nodes(z) \cup {h} /\ World(bare, C, Z)
    BY <1>16, <1>17
  <2> QED BY <2>1, <2>2, <2>3, <2>4, <2>5, <1>18, <1>20, Zenon DEF ClearsRest
<1> QED BY <1>21

LEMMA SoundClearRest == ListsSound /\ ClearRest => ListsSound'
<1> SUFFICES ASSUME ListsSound, ClearRest PROVE ListsSound'
  OBVIOUS
<1>1. PICK w, n, a, h, y, z, C, X, Z, bare : ClearsRest(w, n, a, h, y, z, C, X, Z, bare)
  BY ClearRestIs
<1>2. /\ w = world /\ n = visit.at /\ a = w.nexts /\ h = visit.head
      /\ visit \in [op : {"Clear"}, root : Root, at : Node \cup {None}, fuel : Nat, head : Node]
      /\ World(w, C, X) /\ w.nexts \in Links /\ w.prevs \in Links /\ visit.fuel > 0
      /\ Chained(a, n, y) /\ h \notin Nodes(y) /\ w.prevs[h] = None /\ h \in Node
      /\ Len(y) < visit.fuel /\ y # <<>> /\ y[1] = n /\ y \in Seq(Node) /\ z = Tail(y)
      /\ n \in Node /\ n # h /\ n \in Nodes(y)
      /\ z \in Seq(Node) /\ Len(z) = Len(y) - 1 /\ Nodes(z) = Nodes(y) \ {n}
      /\ Chained(a, a[n], z) /\ Z = Nodes(z) \cup {h}
      /\ World(bare, C, Z)
      /\ \A m \in Node : /\ bare.nexts[m] = IF m = n THEN None ELSE a[m]
                         /\ bare.prevs[m] = IF m = n THEN None ELSE w.prevs[m]
  BY <1>1 DEF ClearsRest
<1>18. PICK e \in Edits(bare, Z) : world' = e.to /\ GoOn("Clear", a[n])
  BY <1>1 DEF ClearsRest
<1>19. Z \subseteq Z
  OBVIOUS
<1>20. PICK E : World(e.to, E, Z) /\ SameLinks(e.to, bare, Z)
  BY <1>2, <1>19, EditIs
<1>21. \A m \in Z : m \in Node /\ m # n /\ e.to.nexts[m] = a[m] /\ e.to.prevs[m] = w.prevs[m]
  <2>1. \A m \in Z : m \in Node /\ m # n
    BY <1>2, NodesOf
  <2>2. \A m \in Z : e.to.nexts[m] = bare.nexts[m] /\ e.to.prevs[m] = bare.prevs[m]
    BY <1>20 DEF SameLinks
  <2>3. \A m \in Node : m # n => bare.nexts[m] = a[m] /\ bare.prevs[m] = w.prevs[m]
    BY <1>2
  <2> QED BY <2>1, <2>2, <2>3
<1>22. Chained(e.to.nexts, a[n], z)
  <2>1. PICK b : b = e.to.nexts
    OBVIOUS
  <2>2. \A m \in Nodes(z) : b[m] = a[m]
    BY <1>2, <1>21, <2>1
  <2>3. Chained(b, a[n], z)
    BY <1>2, <2>2, ChainFrame
  <2> QED BY <2>1, <2>3
<1>23. visit' = [visit EXCEPT !.op = "Clear", !.at = a[n], !.fuel = visit.fuel - 1]
  BY <1>2, <1>18 DEF GoOn
<1>24. a[n] \in Node \cup {None}
  BY <1>2 DEF Links
<1>25. /\ visit' \in [op : {"Clear"}, root : Root, at : Node \cup {None}, fuel : Nat, head : Node]
       /\ visit'.at = a[n] /\ visit'.head = h /\ visit'.fuel = visit.fuel - 1
  <2>1. visit.fuel - 1 \in Nat
    BY <1>2
  <2> QED BY <1>2, <1>23, <1>24, <2>1
<1>26. Len(z) < visit'.fuel
  <2>1. Len(y) \in Nat /\ visit.fuel \in Nat
    BY <1>2
  <2> QED BY <2>1, <1>2, <1>25
<1>27. Clearing(world', visit', Z, z)
  <2>1. h \notin Nodes(z) /\ h \in Z
    BY <1>2
  <2>2. e.to.prevs[h] = None
    BY <1>2, <1>21, <2>1
  <2> QED BY <1>2, <1>18, <1>22, <1>25, <1>26, <2>1, <2>2 DEF Clearing
<1>28. Travels(world', visit', E, Z, z)
  BY <1>27 DEF Travels
<1> QED BY <1>18, <1>20, <1>28, SoundAgain

ClearsFirst(w, a, h, C, X, bare) ==
  /\ World(w, C, X) /\ w = world /\ h = visit.head /\ a = w.nexts /\ a \in Links /\ h \in Node
  /\ World(bare, C, {})
  /\ \E e \in Edits(bare, {}) :
       /\ reply' = <<"Cleared", h, e.call>> /\ world' = e.to /\ visit' = Idle

LEMMA ClearFirstIs ==
  ASSUME ListsSound, ClearFirst
  PROVE  \E w, a, h, C, X, bare : ClearsFirst(w, a, h, C, X, bare)
<1>1. visit.op = "Clear" /\ visit.at = None
  BY DEF ClearFirst
<1>2. PICK C, X, y : World(world, C, X) /\ Clearing(world, visit, X, y)
  BY <1>1, AtClear
<1>3. PICK w, h : w = world /\ h = visit.head
  OBVIOUS
<1>4. Chained(w.nexts, None, y) /\ w.prevs[h] = None /\ X = Nodes(y) \cup {h} /\ h \in Node
  BY <1>1, <1>2, <1>3 DEF Clearing
<1>5. y = <<>>
  <2>1. y \in Seq(Node) /\ None = At(y, 1)
    BY <1>4 DEF Chained
  <2>2. 1 \notin 1 .. Len(y)
    BY <2>1, AtIs
  <2> QED BY <2>1, <2>2
<1>6. X = {h}
  BY <1>4, <1>5 DEF Nodes
<1>7. w.nexts \in Links /\ w.prevs \in Links /\ w \in Worlds
  <2>1. World(w, C, X)
    BY <1>2, <1>3
  <2>2. w.nexts \in Links /\ w.prevs \in Links
    BY <2>1, WorldParts
  <2>3. w \in Worlds
    BY <2>1 DEF World
  <2> QED BY <2>2, <2>3
<1>8. PICK bare, na : bare = [w EXCEPT !.nexts[h] = None] /\ na = [w.nexts EXCEPT ![h] = None]
  OBVIOUS
<1>9. na \in Links /\ \A m \in Node : na[m] = IF m = h THEN None ELSE w.nexts[m]
  BY <1>4, <1>7, <1>8 DEF Links
<1>10. bare = [w EXCEPT !.nexts = na]
  BY <1>7, <1>8 DEF Worlds
<1>11. bare \in Worlds /\ bare.heads = w.heads /\ bare.pool = w.pool
       /\ bare.nexts = na /\ bare.prevs = w.prevs
  BY <1>7, <1>9, <1>10 DEF Worlds
<1>12. World(bare, C, {})
  <2>1. World(w, C, X) /\ h \in X
    BY <1>2, <1>3, <1>6
  <2>2. \A m \in Node : /\ bare.nexts[m] = IF m = h THEN None ELSE w.nexts[m]
                        /\ bare.prevs[m] = IF m = h THEN None ELSE w.prevs[m]
    BY <1>4, <1>9, <1>11
  <2>3. World(bare, C, X \ {h})
    BY <1>11, <2>1, <2>2, Detaching
  <2>4. X \ {h} = {}
    BY <1>6
  <2> QED BY <2>3, <2>4
<1>13. \E e \in Edits(bare, {}) :
         /\ reply' = <<"Cleared", h, e.call>> /\ world' = e.to /\ visit' = Idle
  BY <1>3, <1>8 DEF ClearFirst
<1>14. PICK a : a = w.nexts
  OBVIOUS
<1>15. ClearsFirst(w, a, h, C, X, bare)
  BY <1>2, <1>3, <1>4, <1>7, <1>12, <1>13, <1>14 DEF ClearsFirst
<1> QED BY <1>15

LEMMA SoundClearFirst == ListsSound /\ ClearFirst => ListsSound'
<1> SUFFICES ASSUME ListsSound, ClearFirst PROVE ListsSound'
  OBVIOUS
<1>1. PICK w, a, h, C, X, bare : ClearsFirst(w, a, h, C, X, bare)
  BY ClearFirstIs
<1>2. PICK e \in Edits(bare, {}) : world' = e.to /\ visit' = Idle
  BY <1>1 DEF ClearsFirst
<1>3. World(bare, C, {}) /\ {} \subseteq {}
  BY <1>1 DEF ClearsFirst
<1>4. PICK E : World(e.to, E, {})
  BY <1>3, EditIs
<1> QED BY <1>2, <1>4, IdleAgain

-----------------------------------------------------------------------------
(* The invariant holds.                                                    *)

LEMMA SoundNext == ListsSound /\ [ListsNext]_listsVars => ListsSound'
<1> SUFFICES ASSUME ListsSound, [ListsNext]_listsVars PROVE ListsSound'
  OBVIOUS
<1>1. CASE UNCHANGED listsVars
  BY <1>1 DEF listsVars, ListsSound
<1>2. CASE EditCall
  BY <1>2, SoundEditCall
<1>3. CASE \E s \in UNION {[1 .. k -> Node] : k \in 0 .. MaxBound} :
             PoolNew(s) \/ \E r \in Root : Build(r, s)
  BY <1>3, SoundPoolNew, SoundBuild
<1>4. CASE \E r \in Root : Query(r)
  BY <1>4, SoundStays DEF Query, Call
<1>5. CASE \E r \in Root : \E fuel \in 0 .. MaxBound :
             \E op \in {"ForEach", "Find", "Count", "Prefix"} : Begin(op, r, fuel)
  BY <1>5, SoundBegin
<1>6. CASE \E r \in Root : \E fuel \in 0 .. MaxBound : \E op \in {"Map", "Clear"} : Refused(op, r, fuel)
  BY <1>6, SoundStays DEF Refused, Call
<1>7. CASE \E r \in Root : \E fuel \in 0 .. MaxBound : BeginMap(r, fuel)
  BY <1>7, SoundBeginMap
<1>8. CASE \E r \in Root : \E fuel \in 0 .. MaxBound : BeginClear(r, fuel)
  BY <1>8, SoundBeginClear
<1>9. CASE Finish
  BY <1>9, SoundFinish
<1>10. CASE VisitEach
  BY <1>10, SoundVisitEach
<1>11. CASE VisitStaying
  BY <1>11, SoundVisitStaying
<1>12. CASE Hit
  BY <1>12, SoundHit
<1>13. CASE FilterPrefix
  BY <1>13, SoundFilterPrefix
<1>14. CASE FilterTail
  BY <1>14, SoundFilterTail
<1>15. CASE ClearRest
  BY <1>15, SoundClearRest
<1>16. CASE ClearFirst
  BY <1>16, SoundClearFirst
<1> QED BY <1>1, <1>2, <1>3, <1>4, <1>5, <1>6, <1>7, <1>8, <1>9, <1>10, <1>11, <1>12, <1>13,
           <1>14, <1>15, <1>16, Zenon DEF ListsNext

LEMMA SoundAlways == ListsSpec => []ListsSound
<1>1. ListsInit => ListsSound
  BY SoundInit
<1>2. ListsSound /\ [ListsNext]_listsVars => ListsSound'
  BY SoundNext
<1> QED BY <1>1, <1>2, PTL DEF ListsSpec

(* What a clear has yet to detach, and the two properties.                 *)
LEMMA LimboIs ==
  ASSUME NEW C, NEW X, NEW y, World(world, C, X), Travels(world, visit, C, X, y)
  PROVE  Limbo = X
<1>1. CASE visit = Idle
  <2>1. X = {} /\ visit.op # "Clear"
    BY <1>1, SoundIs DEF Idle
  <2> QED BY <2>1 DEF Limbo
<1>2. CASE Plain(visit, C) /\ X = {}
  <2>1. visit.op # "Clear"
    BY <1>2 DEF Plain
  <2> QED BY <1>2, <2>1 DEF Limbo
<1>3. CASE Clearing(world, visit, X, y)
  <2>1. visit.op = "Clear" /\ Chained(world.nexts, visit.at, y) /\ visit.head \in Node
        /\ X = Nodes(y) \cup {visit.head}
    BY <1>3 DEF Clearing
  <2>2. world.nexts \in Links
    BY WorldParts
  <2>3. Walk(world.nexts, visit.at) = y /\ y \in Seq(Node)
    BY <2>1, <2>2, WalkIs DEF Chained
  <2>4. PICK t, h : h = visit.head /\ t = y \o <<h>>
    OBVIOUS
  <2>5. Todo = t
    BY <2>1, <2>3, <2>4 DEF Todo
  <2>6. Nodes(t) = Nodes(y) \cup {h}
    <3>1. /\ t \in Seq(Node) /\ Len(t) = Len(y) + 1 /\ Len(y) \in Nat
          /\ \A k \in 1 .. Len(y) : t[k] = y[k] /\ k \in 1 .. Len(t)
          /\ t[Len(y) + 1] = h /\ Len(y) + 1 \in 1 .. Len(t)
      BY <2>1, <2>3, <2>4
    <3>2. \A k \in 1 .. Len(t) : k \in 1 .. Len(y) \/ k = Len(y) + 1
      BY <3>1
    <3>3. \A m \in Nodes(t) : m \in Nodes(y) \cup {h}
      <4> SUFFICES ASSUME NEW m \in Nodes(t) PROVE m \in Nodes(y) \cup {h}
        OBVIOUS
      <4>1. PICK k \in 1 .. Len(t) : m = t[k]
        BY <3>1, NodesOf
      <4>2. CASE k \in 1 .. Len(y)
        BY <4>1, <4>2, <3>1, <2>3, NodesOf
      <4>3. CASE k = Len(y) + 1
        BY <4>1, <4>3, <3>1
      <4> QED BY <4>2, <4>3, <3>2
    <3>4. \A m \in Nodes(y) : m \in Nodes(t)
      <4> SUFFICES ASSUME NEW m \in Nodes(y) PROVE m \in Nodes(t)
        OBVIOUS
      <4>1. PICK k \in 1 .. Len(y) : m = y[k]
        BY <2>3, NodesOf
      <4> QED BY <4>1, <3>1, NodesOf
    <3>5. h \in Nodes(t)
      BY <3>1, NodesOf
    <3> QED BY <3>3, <3>4, <3>5
  <2> QED BY <2>1, <2>4, <2>5, <2>6 DEF Limbo
<1> QED BY <1>1, <1>2, <1>3 DEF Travels

LEMMA LinksAgreeNow == ListsSound => LinksAgree
<1> SUFFICES ASSUME ListsSound PROVE LinksAgree
  OBVIOUS
<1>1. PICK C, X, y : World(world, C, X) /\ Travels(world, visit, C, X, y)
  BY DEF ListsSound
<1>2. Limbo = X
  BY <1>1, LimboIs
<1>3. PICK w : w = world
  OBVIOUS
<1>4. World(w, C, X)
  BY <1>1, <1>3
<1>5. /\ \A r \in Root : Chain(w, r) = C[r] /\ r \in Place
      /\ Free(w) = C[None] /\ None \in Place
      /\ Detached(w) \ X = Loose(C, X)
  BY <1>4, WorldWalks, Places
<1>6. ASSUME NEW n \in Node \ (X \cup Nodes(C[None]))
      PROVE  /\ w.prevs[n] # None => w.nexts[w.prevs[n]] = n
             /\ w.nexts[n] # None => w.prevs[w.nexts[n]] = n
  <2>1. CASE n \in Loose(C, X)
    BY <2>1, <1>4, WorldParts
  <2>2. CASE n \notin Loose(C, X)
    <3>1. PICK p \in Place : n \in Nodes(C[p])
      BY <1>6, <2>2 DEF Loose
    <3>2. p \in Root
      BY <1>6, <3>1, Places
    <3>3. PICK c : c = C[p]
      OBVIOUS
    <3>4. c \in Seq(Node) /\ Chained(w.nexts, w.heads[p], c) /\ BackChained(w.prevs, c)
      BY <1>4, <3>2, <3>3, WorldParts
    <3>5. PICK k \in 1 .. Len(c) : n = c[k]
      BY <3>1, <3>3, <3>4, NodesOf
    <3>6. /\ \A j \in 1 .. Len(c) : w.nexts[c[j]] = At(c, j + 1) /\ w.prevs[c[j]] = At(c, j - 1)
          /\ Len(c) \in Nat
      BY <3>4 DEF Chained, BackChained
    <3>7. ASSUME w.prevs[n] # None PROVE w.nexts[w.prevs[n]] = n
      <4>1. k - 1 \in 1 .. Len(c) /\ w.prevs[n] = c[k - 1] /\ (k - 1) + 1 = k
        BY <3>5, <3>6, <3>7 DEF At
      <4>2. w.nexts[c[k - 1]] = At(c, (k - 1) + 1)
        BY <4>1, <3>6
      <4> QED BY <4>1, <4>2, <3>5 DEF At
    <3>8. ASSUME w.nexts[n] # None PROVE w.prevs[w.nexts[n]] = n
      <4>1. k + 1 \in 1 .. Len(c) /\ w.nexts[n] = c[k + 1] /\ (k + 1) - 1 = k
        BY <3>5, <3>6, <3>8 DEF At
      <4>2. w.prevs[c[k + 1]] = At(c, (k + 1) - 1)
        BY <4>1, <3>6
      <4> QED BY <4>1, <4>2, <3>5 DEF At
    <3> QED BY <3>7, <3>8
  <2> QED BY <2>1, <2>2
<1>7. ASSUME NEW r \in Root, w.heads[r] # None PROVE w.prevs[w.heads[r]] = None
  <2>1. PICK c : c = C[r]
    OBVIOUS
  <2>2. w.heads[r] = At(c, 1) /\ BackChained(w.prevs, c)
    BY <1>4, <2>1, WorldParts
  <2>3. 1 \in 1 .. Len(c) /\ w.heads[r] = c[1]
    BY <1>7, <2>2 DEF At
  <2>4. w.prevs[c[1]] = At(c, 1 - 1)
    BY <2>2, <2>3 DEF BackChained
  <2> QED BY <2>3, <2>4 DEF At
<1>8. \A n \in Detached(w) \ X : w.prevs[n] = None /\ w.nexts[n] = None
  BY <1>4, <1>5, WorldParts
<1>9. \A n \in Nodes(C[None]) : w.prevs[n] = None
  BY <1>4, WorldParts
<1>10. ASSUME NEW c \in {Nodes(Chain(w, r)) : r \in Root} \cup {Nodes(Free(w)), X},
              NEW d \in {Nodes(Chain(w, r)) : r \in Root} \cup {Nodes(Free(w)), X}
       PROVE  c = d \/ c \cap d = {}
  <2>1. /\ c = X \/ \E p \in Place : c = Nodes(C[p])
        /\ d = X \/ \E p \in Place : d = Nodes(C[p])
    BY <1>5
  <2>2. \A p \in Place : Nodes(C[p]) \cap X = {}
    BY <1>4, WorldParts
  <2>3. \A p, q \in Place : p # q => Nodes(C[p]) \cap Nodes(C[q]) = {}
    BY <1>4, WorldParts
  <2> QED BY <2>1, <2>2, <2>3
<1> QED BY <1>2, <1>3, <1>5, <1>6, <1>7, <1>8, <1>9, <1>10 DEF LinksAgree

(* In every state, callbacks that edit lists under a traversal included:   *)
(* the two links of any two neighbours agree, a first node has none before *)
(* it, a detached node has neither link, and no node is in two places,     *)
(* outside what a clear has yet to detach (intrusive_list.bend).           *)
THEOREM LinksAlwaysAgree == ListsSpec => []LinksAgree
<1>1. ListsSound => LinksAgree
  BY LinksAgreeNow
<1> QED BY <1>1, SoundAlways, PTL

LEMMA PoolIsCountedNow == ListsSound => PoolIsCounted
<1> SUFFICES ASSUME ListsSound PROVE PoolIsCounted
  OBVIOUS
<1>1. PICK C, X, y : World(world, C, X)
  BY DEF ListsSound
<1>2. Free(world) = C[None] /\ world.pool.count = Len(C[None])
  BY <1>1, WorldWalks, WorldParts
<1> QED BY <1>2 DEF PoolIsCounted

(* In every state the count of the pool is the number of nodes chained in  *)
(* it, whoever frees and takes them, callbacks included (pool_free,        *)
(* pool_take, pool_grow).                                                  *)
THEOREM PoolAlwaysCounted == ListsSpec => []PoolIsCounted
<1>1. ListsSound => PoolIsCounted
  BY PoolIsCountedNow
<1> QED BY <1>1, SoundAlways, PTL

-----------------------------------------------------------------------------
(* The groups: the walk from a node of a chain is the part that starts     *)
(* there, and backwards the part that ends there, reversed.                *)

LEMMA PartIs ==
  ASSUME NEW c \in Seq(Node), NEW i \in 1 .. Len(c) + 1
  PROVE  /\ SubSeq(c, i, Len(c)) \in Seq(Node)
         /\ Len(SubSeq(c, i, Len(c))) = Len(c) - i + 1
         /\ \A k \in 1 .. Len(c) - i + 1 : SubSeq(c, i, Len(c))[k] = c[k + i - 1]
<1>1. PICK n \in Nat : n = Len(c)
  OBVIOUS
<1>2. PICK d : d = SubSeq(c, i, n)
  OBVIOUS
<1>3. i \in 1 .. n + 1
  BY <1>1
<1>5. \A k \in 1 .. n - i + 1 : k + i - 1 \in 1 .. n /\ c[k + i - 1] \in Node
  BY <1>1, <1>3
<1>6. CASE i <= n
  <2>1. d \in Seq(Node) /\ Len(d) = n - i + 1 /\ \A k \in 1 .. n - i + 1 : d[k] = c[k + i - 1]
    BY <1>1, <1>2, <1>3, <1>5, <1>6
  <2> QED BY <2>1, <1>1, <1>2
<1>7. CASE i = n + 1
  <2>1. d = <<>>
    BY <1>2, <1>3, <1>7, <1>1
  <2>2. n - i + 1 = 0
    BY <1>7
  <2> QED BY <2>1, <2>2, <1>1, <1>2
<1> QED BY <1>3, <1>6, <1>7

LEMMA WalkFrom ==
  ASSUME NEW a \in Links, NEW h, NEW c, Chained(a, h, c), NEW i \in 1 .. Len(c) + 1
  PROVE  Walk(a, At(c, i)) = SubSeq(c, i, Len(c))
<1>1. PICK n \in Nat : n = Len(c) /\ i \in 1 .. n + 1
  BY DEF Chained
<1>2. PICK d : d = SubSeq(c, i, Len(c))
  OBVIOUS
<1>3. c \in Seq(Node)
  BY DEF Chained
<1>4. d \in Seq(Node) /\ Len(d) = n - i + 1 /\ \A k \in 1 .. n - i + 1 : d[k] = c[k + i - 1]
  BY <1>1, <1>2, <1>3, PartIs
<1>5. \A j, k \in 1 .. Len(d) : d[j] = d[k] => j = k
  <2> SUFFICES ASSUME NEW j \in 1 .. n - i + 1, NEW k \in 1 .. n - i + 1, d[j] = d[k] PROVE j = k
    BY <1>4
  <2>1. c[j + i - 1] = c[k + i - 1] /\ j + i - 1 \in 1 .. n /\ k + i - 1 \in 1 .. n
    BY <1>1, <1>4
  <2>2. j + i - 1 = k + i - 1
    BY <2>1, <1>1 DEF Chained
  <2> QED BY <2>2
<1>6. At(c, i) = At(d, 1)
  <2>1. CASE i <= n
    <3>1. 1 \in 1 .. n - i + 1 /\ d[1] = c[1 + i - 1] /\ 1 + i - 1 = i
      BY <2>1, <1>1, <1>4
    <3>2. i \in 1 .. n
      BY <2>1, <1>1
    <3> QED BY <3>1, <3>2, <1>1, <1>4 DEF At
  <2>2. CASE i = n + 1
    <3>1. 1 \notin 1 .. n - i + 1 /\ i \notin 1 .. n
      BY <2>2, <1>1
    <3> QED BY <3>1, <1>1, <1>4 DEF At
  <2> QED BY <2>1, <2>2, <1>1
<1>7. ASSUME NEW k \in 1 .. Len(d) PROVE a[d[k]] = At(d, k + 1)
  <2>1. k \in 1 .. n - i + 1 /\ k + i - 1 \in 1 .. n /\ d[k] = c[k + i - 1]
    BY <1>1, <1>4
  <2>2. a[c[k + i - 1]] = At(c, (k + i - 1) + 1)
    BY <2>1, <1>1 DEF Chained
  <2>3. At(c, (k + i - 1) + 1) = At(d, k + 1)
    <3>1. CASE k + i <= n
      <4>1. k + 1 \in 1 .. n - i + 1 /\ (k + i - 1) + 1 \in 1 .. n
            /\ (k + 1) + i - 1 = (k + i - 1) + 1
        BY <3>1, <2>1, <1>1
      <4>2. d[k + 1] = c[(k + i - 1) + 1]
        BY <4>1, <1>4
      <4> QED BY <4>1, <4>2, <1>1, <1>4 DEF At
    <3>2. CASE k + i = n + 1
      <4>1. k + 1 \notin 1 .. n - i + 1 /\ (k + i - 1) + 1 \notin 1 .. n
        BY <3>2, <2>1, <1>1
      <4> QED BY <4>1, <1>1, <1>4 DEF At
    <3> QED BY <3>1, <3>2, <2>1, <1>1
  <2> QED BY <2>1, <2>2, <2>3
<1>8. Chained(a, At(c, i), d)
  BY <1>4, <1>5, <1>6, <1>7 DEF Chained
<1> QED BY <1>2, <1>8, WalkIs

LEMMA WalkBack ==
  ASSUME NEW a \in Links, NEW c \in Seq(Node), BackChained(a, c),
         \A j, k \in 1 .. Len(c) : c[j] = c[k] => j = k, NEW i \in 0 .. Len(c)
  PROVE  Walk(a, At(c, i)) = Reverse(SubSeq(c, 1, i))
<1>1. PICK n \in Nat : n = Len(c) /\ i \in 0 .. n
  OBVIOUS
<1>2. PICK p : p = SubSeq(c, 1, i)
  OBVIOUS
<1>3. p \in Seq(Node) /\ Len(p) = i /\ \A k \in 1 .. i : p[k] = c[k]
  BY <1>1, <1>2
<1>4. PICK d : d = Reverse(p)
  OBVIOUS
<1>5. d = [k \in 1 .. i |-> p[(i - k) + 1]]
  BY <1>3, <1>4 DEF Reverse
<1>6. \A k \in 1 .. i : (i - k) + 1 \in 1 .. i /\ (i - k) + 1 \in 1 .. n
  BY <1>1
<1>7. d \in Seq(Node) /\ Len(d) = i /\ \A k \in 1 .. i : d[k] = c[(i - k) + 1]
  <2>1. \A k \in 1 .. i : p[(i - k) + 1] = c[(i - k) + 1] /\ p[(i - k) + 1] \in Node
    BY <1>3, <1>6
  <2>2. i \in Nat
    BY <1>1
  <2> QED BY <1>5, <2>1, <2>2
<1>8. \A j, k \in 1 .. Len(d) : d[j] = d[k] => j = k
  <2> SUFFICES ASSUME NEW j \in 1 .. i, NEW k \in 1 .. i, d[j] = d[k] PROVE j = k
    BY <1>7
  <2>1. c[(i - j) + 1] = c[(i - k) + 1]
    BY <1>7
  <2>2. (i - j) + 1 = (i - k) + 1
    BY <2>1, <1>1, <1>6
  <2> QED BY <2>2, <1>1
<1>9. At(c, i) = At(d, 1)
  <2>1. CASE i = 0
    BY <2>1, <1>7 DEF At
  <2>2. CASE i # 0
    <3>1. 1 \in 1 .. i /\ i \in 1 .. n /\ (i - 1) + 1 = i
      BY <2>2, <1>1
    <3>2. d[1] = c[i]
      BY <3>1, <1>7
    <3> QED BY <3>1, <3>2, <1>1, <1>7 DEF At
  <2> QED BY <2>1, <2>2
<1>10. ASSUME NEW k \in 1 .. Len(d) PROVE a[d[k]] = At(d, k + 1)
  <2>1. k \in 1 .. i /\ (i - k) + 1 \in 1 .. n /\ d[k] = c[(i - k) + 1]
    BY <1>6, <1>7
  <2>2. a[c[(i - k) + 1]] = At(c, ((i - k) + 1) - 1)
    BY <2>1, <1>1 DEF BackChained
  <2>3. ((i - k) + 1) - 1 = i - k
    BY <2>1, <1>1
  <2>4. At(c, i - k) = At(d, k + 1)
    <3>1. CASE k < i
      <4>1. k + 1 \in 1 .. i /\ i - k \in 1 .. n /\ (i - (k + 1)) + 1 = i - k
        BY <3>1, <2>1, <1>1
      <4>2. d[k + 1] = c[i - k]
        BY <4>1, <1>7
      <4> QED BY <4>1, <4>2, <1>1, <1>7 DEF At
    <3>2. CASE k = i
      <4>1. k + 1 \notin 1 .. i /\ i - k \notin 1 .. n
        BY <3>2, <2>1, <1>1
      <4> QED BY <4>1, <1>1, <1>7 DEF At
    <3> QED BY <3>1, <3>2, <2>1, <1>1
  <2> QED BY <2>1, <2>2, <2>3, <2>4
<1>11. Chained(a, At(c, i), d)
  BY <1>7, <1>8, <1>9, <1>10 DEF Chained
<1> QED BY <1>2, <1>4, <1>11, WalkIs

LEMMA WalkNowhere == ASSUME NEW a \in Links PROVE Walk(a, None) = <<>>
<1>1. Chained(a, None, <<>>)
  BY DEF Chained, At
<1> QED BY <1>1, WalkIs

-----------------------------------------------------------------------------
(* The groups of a world, and the edits on them.                           *)

Grp(C) == [list |-> [r \in Root |-> C[r]], pool |-> C[None]]

LEMMA GroupedIs ==
  ASSUME NEW C, NEW X, World(world, C, X)
  PROVE  Grouped = Grp(C)
<1>1. PICK w : w = world
  OBVIOUS
<1>2. World(w, C, X)
  BY <1>1
<1>3. (\A r \in Root : Chain(w, r) = C[r]) /\ Free(w) = C[None]
  BY <1>2, WorldWalks
<1> QED BY <1>1, <1>3 DEF Grouped, Grp

LEMMA GroupedThen ==
  ASSUME NEW C, NEW X, World(world', C, X)
  PROVE  Grouped' = Grp(C)
<1>1. PICK w : w = world'
  OBVIOUS
<1>2. World(w, C, X)
  BY <1>1
<1>3. (\A r \in Root : Chain(w, r) = C[r]) /\ Free(w) = C[None]
  BY <1>2, WorldWalks
<1> QED BY <1>1, <1>3 DEF Grouped, Grp

LEMMA GrpParts ==
  ASSUME NEW C
  PROVE  (\A r \in Root : Grp(C).list[r] = C[r]) /\ Grp(C).pool = C[None]
BY DEF Grp

LEMMA ListSet ==
  ASSUME NEW L, NEW P, NEW r, NEW d
  PROVE  /\ [[list |-> L, pool |-> P] EXCEPT !.list[r] = d] = [list |-> [L EXCEPT ![r] = d], pool |-> P]
         /\ [[list |-> L, pool |-> P] EXCEPT !.pool = d] = [list |-> L, pool |-> d]
<1>1. PICK g : g = [list |-> L, pool |-> P]
  OBVIOUS
<1>2. PICK M : M = [L EXCEPT ![r] = d]
  OBVIOUS
<1>3. g.list = L
  BY <1>1
<1>4. [g EXCEPT !.list[r] = d] = [g EXCEPT !.list = M]
  BY <1>2, <1>3
<1>5. [g EXCEPT !.list = M] = [list |-> M, pool |-> P]
  BY <1>1
<1>6. [g EXCEPT !.pool = d] = [list |-> L, pool |-> d]
  BY <1>1
<1> QED BY <1>1, <1>2, <1>4, <1>5, <1>6

LEMMA GrpChanges ==
  ASSUME NEW C \in [Place -> Seq(Node)], NEW r \in Root, NEW d
  PROVE  Grp([C EXCEPT ![r] = d]) = [Grp(C) EXCEPT !.list[r] = d]
<1>1. PICK E : E = [C EXCEPT ![r] = d]
  OBVIOUS
<1>2. E[None] = C[None] /\ \A q \in Root : E[q] = IF q = r THEN d ELSE C[q]
  BY <1>1, Places
<1>3. PICK L, P : L = [q \in Root |-> C[q]] /\ P = C[None]
  OBVIOUS
<1>4. [L EXCEPT ![r] = d] = [q \in Root |-> E[q]]
  BY <1>2, <1>3
<1>5. Grp(E) = [list |-> [L EXCEPT ![r] = d], pool |-> P]
  BY <1>2, <1>3, <1>4 DEF Grp
<1>6. Grp(C) = [list |-> L, pool |-> P]
  BY <1>3 DEF Grp
<1>7. [Grp(C) EXCEPT !.list[r] = d] = [list |-> [L EXCEPT ![r] = d], pool |-> P]
  <2>1. [[list |-> L, pool |-> P] EXCEPT !.list[r] = d] = [list |-> [L EXCEPT ![r] = d], pool |-> P]
    BY ListSet
  <2>2. PICK g : g = Grp(C)
    OBVIOUS
  <2>3. g = [list |-> L, pool |-> P]
    BY <1>6, <2>2
  <2>4. [g EXCEPT !.list[r] = d] = [list |-> [L EXCEPT ![r] = d], pool |-> P]
    BY ONLY <2>1, <2>3
  <2> QED BY <2>2, <2>4
<1> QED BY <1>1, <1>5, <1>7

LEMMA GrpPoolChanges ==
  ASSUME NEW C \in [Place -> Seq(Node)], NEW d
  PROVE  Grp([C EXCEPT ![None] = d]) = [Grp(C) EXCEPT !.pool = d]
<1>1. PICK E : E = [C EXCEPT ![None] = d]
  OBVIOUS
<1>2. E[None] = d /\ \A q \in Root : E[q] = C[q]
  BY <1>1, Places
<1>3. PICK L, P : L = [q \in Root |-> C[q]] /\ P = C[None]
  OBVIOUS
<1>4. L = [q \in Root |-> E[q]]
  BY <1>2, <1>3
<1>5. Grp(E) = [list |-> L, pool |-> d]
  BY <1>2, <1>4 DEF Grp
<1>6. Grp(C) = [list |-> L, pool |-> P]
  BY <1>3 DEF Grp
<1>7. [Grp(C) EXCEPT !.pool = d] = [list |-> L, pool |-> d]
  BY <1>6, ListSet
<1> QED BY <1>1, <1>5, <1>7

LEMMA AbstractNodes == ASSUME NEW s PROVE Groups!Nodes(s) = Nodes(s)
BY DEF Groups!Nodes, Nodes

(* The place of a node in a sequence that does not repeat.                 *)
LEMMA IndexIs ==
  ASSUME NEW c \in Seq(Node), \A j, k \in 1 .. Len(c) : c[j] = c[k] => j = k,
         NEW i \in 1 .. Len(c)
  PROVE  /\ Groups!IndexIn(c, c[i]) = i
         /\ Groups!Without(c, c[i]) = RemoveAt(c, i)
         /\ Groups!After(c, c[i]) = SubSeq(c, i + 1, Len(c))
         /\ Groups!Before(c, c[i]) = SubSeq(c, 1, i - 1)
<1>1. DOMAIN c = 1 .. Len(c)
  OBVIOUS
<1>2. PICK n : n = c[i]
  OBVIOUS
<1>3. Groups!IndexIn(c, n) = CHOOSE k \in 1 .. Len(c) : c[k] = n
  BY <1>1 DEF Groups!IndexIn
<1>4. Groups!IndexIn(c, n) \in 1 .. Len(c) /\ c[Groups!IndexIn(c, n)] = n
  BY <1>2, <1>3
<1>5. Groups!IndexIn(c, n) = i
  BY <1>2, <1>4
<1>6. Groups!Without(c, n) = RemoveAt(c, i)
  BY <1>5 DEF Groups!Without, Groups!RemoveAt, RemoveAt
<1>7. Groups!After(c, n) = SubSeq(c, i + 1, Len(c))
  BY <1>5 DEF Groups!After
<1>8. Groups!Before(c, n) = SubSeq(c, 1, i - 1)
  BY <1>5 DEF Groups!Before
<1> QED BY <1>2, <1>5, <1>6, <1>7, <1>8

LEMMA AbstractDetached ==
  ASSUME NEW C, NEW n
  PROVE  n \in Groups!Detached(Grp(C)) <=> n \in Node /\ \A p \in Place : n \notin Nodes(C[p])
<1>1. Groups!Grouped(Grp(C)) = Nodes(C[None]) \cup UNION {Nodes(C[r]) : r \in Root}
  BY AbstractNodes, GrpParts DEF Groups!Grouped
<1>2. n \in Groups!Detached(Grp(C)) <=>
        n \in Node /\ n \notin Nodes(C[None]) /\ \A r \in Root : n \notin Nodes(C[r])
  BY <1>1 DEF Groups!Detached
<1> QED BY <1>2, Places

(* An edit of the world is one of the groups, also when less is kept.      *)
LEMMA EditIsAbstract ==
  ASSUME NEW w, NEW C, NEW X, World(w, C, X), NEW K, NEW call, NEW E, EditOf(C, E, X, K, call),
         NEW J, \A n \in Node : n \in J => n \in K
  PROVE  Groups!Edit(call, Grp(E)) \in Groups!Edits(Grp(C), J)
<1>1. /\ C \in [Place -> Seq(Node)] /\ C[None] \in Seq(Node)
      /\ \A r \in Root : /\ C[r] \in Seq(Node) /\ r \in Place
                         /\ \A i, j \in 1 .. Len(C[r]) : C[r][i] = C[r][j] => i = j
                         /\ Grp(C).list[r] = C[r]
      /\ Grp(C).pool = C[None]
  BY WorldParts, Places, GrpParts
<1>2. PICK g, D : g = Grp(C) /\ D = Groups!Detached(g) \ J
  OBVIOUS
<1>3. \A n \in Loose(C, X) \ K : n \in D
  <2> SUFFICES ASSUME NEW n \in Loose(C, X) \ K PROVE n \in D
    OBVIOUS
  <2>1. n \in Node /\ n \notin K /\ \A p \in Place : n \notin Nodes(C[p])
    BY DEF Loose
  <2>2. n \in Groups!Detached(g)
    BY <2>1, <1>2, AbstractDetached
  <2> QED BY <2>1, <2>2, <1>2
<1>4. PICK t : t = Groups!Edit(call, Grp(E))
  OBVIOUS
<1> DEFINE S1 == {Groups!Edit(<<"none">>, g)}
           S2 == {Groups!Edit(<<"prepend", r, n>>, Groups!Prepended(g, r, n)) : r \in Root, n \in D}
           S3 == {Groups!Edit(<<"pool_free", n>>, [g EXCEPT !.pool = <<n>> \o @]) : n \in D}
           S4 == IF g.pool = <<>>
                 THEN {Groups!Edit(<<"pool_next", n>>, g) : n \in D}
                 ELSE {Groups!Edit(<<"pool_next", g.pool[1]>>, [g EXCEPT !.pool = Tail(@)])}
           Removals(r) == {Groups!Edit(<<"remove", r, n>>, Groups!Removed(g, r, n)) :
                             n \in Groups!Nodes(g.list[r]) \ J}
           S5 == UNION {Removals(r) : r \in Root}
           Moves(r) == {Groups!Edit(<<"move", r, q, n>>,
                                    Groups!Prepended(Groups!Removed(g, r, n), q, n)) :
                          n \in Groups!Nodes(g.list[r]) \ J, q \in Root}
           S6 == UNION {Moves(r) : r \in Root}
<1>5. Groups!Edits(g, J) = UNION {S1, S2, S3, S4, S5, S6}
  BY <1>2 DEF Groups!Edits
<1>6. g = [list |-> g.list, pool |-> g.pool] /\ \A r \in Root : g.list[r] = C[r]
      /\ g.pool = C[None] /\ DOMAIN g.list = Root
  BY <1>2 DEF Grp
<1>pool. g.pool = C[None]
  BY <1>2 DEF Grp
<1>7. ASSUME NEW r \in Root, NEW n PROVE Groups!Prepended(g, r, n) = [g EXCEPT !.list[r] = <<n>> \o C[r]]
  BY <1>6 DEF Groups!Prepended
<1>8. ASSUME NEW r \in Root, NEW i \in 1 .. Len(C[r])
      PROVE  Groups!Removed(g, r, C[r][i]) = Grp([C EXCEPT ![r] = RemoveAt(C[r], i)])
  <2>1. PICK c, d : c = C[r] /\ d = RemoveAt(c, i)
    OBVIOUS
  <2>2. c \in Seq(Node) /\ i \in 1 .. Len(c) /\ \A j, k \in 1 .. Len(c) : c[j] = c[k] => j = k
    BY <2>1, <1>1
  <2>3. Groups!Without(c, c[i]) = d
    BY <2>1, <2>2, IndexIs
  <2>4. g.list[r] = c
    BY <2>1, <1>6
  <2>5. Groups!Removed(g, r, c[i]) = [g EXCEPT !.list[r] = d]
    BY <2>3, <2>4 DEF Groups!Removed
  <2>6. Grp([C EXCEPT ![r] = d]) = [Grp(C) EXCEPT !.list[r] = d]
    <3>1. C \in [Place -> Seq(Node)]
      BY <1>1
    <3> QED BY <3>1, GrpChanges, ZenonT(40)
  <2> QED BY <2>1, <2>5, <2>6, <1>2
<1>9. CASE call = <<"none">> /\ E = C
  <2>1. t \in S1
    BY <1>2, <1>4, <1>9
  <2> HIDE DEF S1, S2, S3, S4, S5, S6
  <2> QED BY <2>1, <1>2, <1>4, <1>5
<1>10. CASE \E r \in Root, n \in Loose(C, X) \ K :
              call = <<"prepend", r, n>> /\ E = [C EXCEPT ![r] = <<n>> \o C[r]]
  <2>1. PICK r \in Root, n \in Loose(C, X) \ K :
               call = <<"prepend", r, n>> /\ E = [C EXCEPT ![r] = <<n>> \o C[r]]
    BY <1>10
  <2>2. Grp(E) = Groups!Prepended(g, r, n)
    <3>1. Grp([C EXCEPT ![r] = <<n>> \o C[r]]) = [Grp(C) EXCEPT !.list[r] = <<n>> \o C[r]]
      BY <1>1, GrpChanges, ZenonT(40)
    <3> QED BY <3>1, <2>1, <1>2, <1>7
  <2>3. t = Groups!Edit(<<"prepend", r, n>>, Groups!Prepended(g, r, n)) /\ n \in D
    BY <2>1, <2>2, <1>3, <1>4
  <2>4. t \in S2
    BY ONLY <2>3, r \in Root
  <2> HIDE DEF S1, S2, S3, S4, S5, S6
  <2> QED BY <2>4, <1>2, <1>4, <1>5
<1>11. CASE \E n \in Loose(C, X) \ K :
              call = <<"pool_free", n>> /\ E = [C EXCEPT ![None] = <<n>> \o C[None]]
  <2>1. PICK n \in Loose(C, X) \ K :
               call = <<"pool_free", n>> /\ E = [C EXCEPT ![None] = <<n>> \o C[None]]
    BY <1>11
  <2>2. Grp(E) = [g EXCEPT !.pool = <<n>> \o g.pool]
    <3>1. E = [C EXCEPT ![None] = <<n>> \o g.pool]
      BY <2>1, <1>pool
    <3>2. Grp([C EXCEPT ![None] = <<n>> \o g.pool]) = [Grp(C) EXCEPT !.pool = <<n>> \o g.pool]
      BY <1>1, GrpPoolChanges
    <3> QED BY <3>1, <3>2, <1>2
  <2>3. t = Groups!Edit(<<"pool_free", n>>, [g EXCEPT !.pool = <<n>> \o g.pool]) /\ n \in D
    BY <2>1, <2>2, <1>3, <1>4
  <2>4. t \in S3
    BY <2>3
  <2> HIDE DEF S1, S2, S3, S4, S5, S6
  <2> QED BY <2>4, <1>2, <1>4, <1>5
<1>12. CASE /\ C[None] # <<>>
            /\ call = <<"pool_next", C[None][1]>> /\ E = [C EXCEPT ![None] = Tail(C[None])]
  <2>2. Grp(E) = [g EXCEPT !.pool = Tail(g.pool)]
    <3>1. E = [C EXCEPT ![None] = Tail(g.pool)]
      BY <1>12, <1>pool
    <3>2. Grp([C EXCEPT ![None] = Tail(g.pool)]) = [Grp(C) EXCEPT !.pool = Tail(g.pool)]
      BY <1>1, GrpPoolChanges
    <3> QED BY <3>1, <3>2, <1>2
  <2>3. t = Groups!Edit(<<"pool_next", g.pool[1]>>, [g EXCEPT !.pool = Tail(g.pool)]) /\ g.pool # <<>>
    <3>1. call = <<"pool_next", g.pool[1]>> /\ g.pool # <<>>
      BY <1>pool, <1>12
    <3> QED BY <3>1, <2>2, <1>4
  <2>4. t \in S4
    BY <2>3
  <2> HIDE DEF S1, S2, S3, S4, S5, S6
  <2> QED BY <2>4, <1>2, <1>4, <1>5
<1>13. CASE \E n \in Loose(C, X) \ K : C[None] = <<>> /\ call = <<"pool_next", n>> /\ E = C
  <2>1. PICK n \in Loose(C, X) \ K : C[None] = <<>> /\ call = <<"pool_next", n>> /\ E = C
    BY <1>13
  <2>2. t = Groups!Edit(<<"pool_next", n>>, g) /\ g.pool = <<>> /\ n \in D
    <3>1. g.pool = <<>> /\ n \in D
      BY <2>1, <1>3, <1>pool
    <3>2. Grp(E) = g
      BY <2>1, <1>2
    <3> QED BY <3>1, <3>2, <2>1, <1>4
  <2>3. t \in S4
    BY <2>2
  <2> HIDE DEF S1, S2, S3, S4, S5, S6
  <2> QED BY <2>3, <1>2, <1>4, <1>5
<1>14. CASE \E r \in Root : \E i \in 1 .. Len(C[r]) :
              /\ C[r][i] \notin K
              /\ call = <<"remove", r, C[r][i]>> /\ E = [C EXCEPT ![r] = RemoveAt(C[r], i)]
  <2>1. PICK r \in Root : \E i \in 1 .. Len(C[r]) :
              /\ C[r][i] \notin K
              /\ call = <<"remove", r, C[r][i]>> /\ E = [C EXCEPT ![r] = RemoveAt(C[r], i)]
    BY <1>14
  <2>2. PICK i \in 1 .. Len(C[r]) :
              /\ C[r][i] \notin K
              /\ call = <<"remove", r, C[r][i]>> /\ E = [C EXCEPT ![r] = RemoveAt(C[r], i)]
    BY <2>1
  <2>3. PICK n : n = C[r][i]
    OBVIOUS
  <2>4. n \in Groups!Nodes(g.list[r]) \ J
    <3>1. n \in Nodes(C[r]) /\ n \in Node
      BY <2>3, <1>1, NodesOf
    <3> QED BY <3>1, <2>2, <2>3, <1>6, AbstractNodes
  <2>5. t = Groups!Edit(<<"remove", r, n>>, Groups!Removed(g, r, n))
    BY <2>2, <2>3, <1>4, <1>8
  <2>6. t \in Removals(r)
    BY <2>4, <2>5
  <2> HIDE DEF S1, S2, S3, S4, Removals, Moves, S6
  <2>7. t \in S5
    BY <2>6
  <2> HIDE DEF S5
  <2> QED BY <2>7, <1>2, <1>4, <1>5
<1>15. CASE \E r, q \in Root : \E i \in 1 .. Len(C[r]) : \E D2 :
              /\ C[r][i] \notin K
              /\ D2 = [C EXCEPT ![r] = RemoveAt(C[r], i)]
              /\ call = <<"move", r, q, C[r][i]>> /\ E = [D2 EXCEPT ![q] = <<C[r][i]>> \o D2[q]]
  <2>1. PICK r, q \in Root : \E i \in 1 .. Len(C[r]) : \E D2 :
              /\ C[r][i] \notin K
              /\ D2 = [C EXCEPT ![r] = RemoveAt(C[r], i)]
              /\ call = <<"move", r, q, C[r][i]>> /\ E = [D2 EXCEPT ![q] = <<C[r][i]>> \o D2[q]]
    BY <1>15
  <2>2. PICK i \in 1 .. Len(C[r]) : \E D2 :
              /\ C[r][i] \notin K
              /\ D2 = [C EXCEPT ![r] = RemoveAt(C[r], i)]
              /\ call = <<"move", r, q, C[r][i]>> /\ E = [D2 EXCEPT ![q] = <<C[r][i]>> \o D2[q]]
    BY <2>1
  <2>3. PICK n, D2 : /\ n = C[r][i] /\ C[r][i] \notin K
                     /\ D2 = [C EXCEPT ![r] = RemoveAt(C[r], i)]
                     /\ call = <<"move", r, q, C[r][i]>> /\ E = [D2 EXCEPT ![q] = <<C[r][i]>> \o D2[q]]
    BY <2>2
  <2>4. n \in Groups!Nodes(g.list[r]) \ J
    <3>1. n \in Nodes(C[r]) /\ n \in Node
      BY <2>3, <1>1, NodesOf
    <3> QED BY <3>1, <2>3, <1>6, AbstractNodes
  <2>5. Groups!Removed(g, r, n) = Grp(D2)
    BY <2>3, <1>8
  <2>6. D2 \in [Place -> Seq(Node)]
    <3>1. RemoveAt(C[r], i) \in Seq(Node)
      BY <1>1, Shortened
    <3> QED BY <3>1, <2>3, <1>1
  <2>7. Groups!Prepended(Grp(D2), q, n) = Grp(E)
    <3>1. Grp([D2 EXCEPT ![q] = <<n>> \o D2[q]]) = [Grp(D2) EXCEPT !.list[q] = <<n>> \o D2[q]]
      BY <2>6, GrpChanges, ZenonT(40)
    <3>2. Groups!Prepended(Grp(D2), q, n) = [Grp(D2) EXCEPT !.list[q] = <<n>> \o D2[q]]
      BY DEF Groups!Prepended, Grp
    <3> QED BY <3>1, <3>2, <2>3
  <2>8. t = Groups!Edit(<<"move", r, q, n>>, Groups!Prepended(Groups!Removed(g, r, n), q, n))
    BY <2>3, <2>5, <2>7, <1>4
  <2>9. t \in Moves(r)
    BY ONLY <2>4, <2>8, q \in Root
  <2> HIDE DEF S1, S2, S3, S4, Removals, Moves, S5
  <2>10. t \in S6
    BY <2>9
  <2> HIDE DEF S6
  <2> QED BY <2>10, <1>2, <1>4, <1>5
<1> HIDE DEF S1, S2, S3, S4, Removals, Moves, S5, S6
<1> QED BY <1>9, <1>10, <1>11, <1>12, <1>13, <1>14, <1>15 DEF EditOf

-----------------------------------------------------------------------------
(* The visit of the groups that a traversal is.                            *)

TodoIn(w, v) ==
  CASE v.op = "Map" -> Walk(w.prevs, v.at)
    [] v.op = "Clear" -> Walk(w.nexts, v.at) \o <<v.head>>
    [] OTHER -> Walk(w.nexts, v.at)

VisitIn(w, v) ==
  IF v = Idle THEN [op |-> "Idle", todo |-> <<>>]
  ELSE [op |-> v.op, root |-> v.root, fuel |-> v.fuel, todo |-> TodoIn(w, v)]

LEMMA VisitedIs == Visited = VisitIn(world, visit) /\ Visited' = VisitIn(world', visit')
<1>1. Todo = TodoIn(world, visit) /\ Todo' = TodoIn(world', visit')
  BY DEF Todo, TodoIn
<1> QED BY <1>1 DEF Visited, VisitIn

LEMMA VisitInIs ==
  ASSUME NEW w, NEW v, v.op # "Idle"
  PROVE  /\ VisitIn(w, v) = [op |-> v.op, root |-> v.root, fuel |-> v.fuel, todo |-> TodoIn(w, v)]
         /\ VisitIn(w, v) # Groups!Idle
         /\ v.op = "Map" => TodoIn(w, v) = Walk(w.prevs, v.at)
         /\ v.op = "Clear" => TodoIn(w, v) = Walk(w.nexts, v.at) \o <<v.head>>
         /\ v.op \in {"ForEach", "Find", "Count", "Prefix", "Tail"} =>
              TodoIn(w, v) = Walk(w.nexts, v.at)
<1>1. v # Idle
  BY DEF Idle
<1>2. VisitIn(w, v) = [op |-> v.op, root |-> v.root, fuel |-> v.fuel, todo |-> TodoIn(w, v)]
  BY <1>1 DEF VisitIn
<1>3. VisitIn(w, v) # Groups!Idle
  <2>1. VisitIn(w, v).op = v.op
    BY <1>2
  <2>2. Groups!Idle.op = "Idle"
    BY DEF Groups!Idle
  <2> QED BY <2>1, <2>2
<1>4. v.op = "Map" => TodoIn(w, v) = Walk(w.prevs, v.at)
  BY DEF TodoIn
<1>5. v.op = "Clear" => TodoIn(w, v) = Walk(w.nexts, v.at) \o <<v.head>>
  BY DEF TodoIn
<1>6. v.op \in {"ForEach", "Find", "Count", "Prefix", "Tail"} => TodoIn(w, v) = Walk(w.nexts, v.at)
  BY DEF TodoIn
<1> QED BY <1>2, <1>3, <1>4, <1>5, <1>6

(* The rest of a visit, from a place of a sequence on.                     *)
LEMMA RestIs ==
  ASSUME NEW c \in Seq(Node), NEW i \in 1 .. Len(c)
  PROVE  /\ SubSeq(c, i, Len(c)) # <<>> /\ SubSeq(c, i, Len(c))[1] = c[i]
         /\ Tail(SubSeq(c, i, Len(c))) = SubSeq(c, i + 1, Len(c))
         /\ \A n \in Node : n \in Groups!First(SubSeq(c, i + 1, Len(c))) => n = At(c, i + 1)
         /\ At(c, i + 1) = None => SubSeq(c, i + 1, Len(c)) = <<>>
         /\ At(c, i + 1) # None => /\ SubSeq(c, i + 1, Len(c)) # <<>>
                                   /\ SubSeq(c, i + 1, Len(c))[1] = At(c, i + 1)
<1>1. PICK n \in Nat : n = Len(c) /\ i \in 1 .. n
  OBVIOUS
<1>2. PICK d, t : d = SubSeq(c, i, Len(c)) /\ t = SubSeq(c, i + 1, Len(c))
  OBVIOUS
<1>3. d \in Seq(Node) /\ Len(d) = n - i + 1 /\ \A k \in 1 .. n - i + 1 : d[k] = c[k + i - 1]
  BY <1>1, <1>2, PartIs
<1>4. t \in Seq(Node) /\ Len(t) = n - i /\ \A k \in 1 .. n - i : t[k] = c[k + i]
  <2>1. i + 1 \in 1 .. Len(c) + 1
    BY <1>1
  <2>2. /\ SubSeq(c, i + 1, Len(c)) \in Seq(Node)
        /\ Len(SubSeq(c, i + 1, Len(c))) = Len(c) - (i + 1) + 1
        /\ \A k \in 1 .. Len(c) - (i + 1) + 1 : SubSeq(c, i + 1, Len(c))[k] = c[k + (i + 1) - 1]
    BY <2>1, PartIs, SMTT(30)
  <2>3. n - (i + 1) + 1 = n - i /\ \A k \in 1 .. n - i : k + (i + 1) - 1 = k + i
    BY <1>1
  <2>4. Len(t) = n - i
    <3>1. Len(t) = Len(c) - (i + 1) + 1
      BY <2>2, <1>2
    <3> QED BY <3>1, <2>3, <1>1
  <2>5. ASSUME NEW k \in 1 .. n - i PROVE t[k] = c[k + i]
    BY <2>2, <2>3, <1>1, <1>2
  <2> QED BY <2>2, <2>4, <2>5, <1>2
<1>5. d # <<>> /\ d[1] = c[i]
  <2>1. 1 \in 1 .. n - i + 1 /\ 1 + i - 1 = i
    BY <1>1
  <2> QED BY <2>1, <1>3
<1>6. Tail(d) = t
  <2>1. Tail(d) \in Seq(Node) /\ Len(Tail(d)) = n - i /\ \A k \in 1 .. n - i : Tail(d)[k] = d[k + 1]
    <3>1. PICK m \in Nat : m = Len(d) /\ m # 0
      BY <1>3, <1>5
    <3>2. Tail(d) \in Seq(Node) /\ Len(Tail(d)) = m - 1 /\ \A k \in 1 .. m - 1 : Tail(d)[k] = d[k + 1]
      BY <3>1, <1>3, <1>5
    <3>3. m - 1 = n - i
      BY <3>1, <1>1, <1>3
    <3> QED BY <3>2, <3>3
  <2>2. \A k \in 1 .. n - i : k + 1 \in 1 .. n - i + 1 /\ (k + 1) + i - 1 = k + i
    BY <1>1
  <2>3. \A k \in 1 .. n - i : Tail(d)[k] = t[k]
    BY <2>1, <2>2, <1>3, <1>4
  <2> QED BY <2>1, <2>3, <1>4
<1>7. CASE i < n
  <2>1. 1 \in 1 .. n - i /\ i + 1 \in 1 .. n /\ 1 + i = i + 1
    BY <1>1, <1>7
  <2>2. t # <<>> /\ t[1] = c[i + 1] /\ At(c, i + 1) = c[i + 1] /\ c[i + 1] \in Node
    BY <2>1, <1>1, <1>4 DEF At
  <2>3. None \notin Node
    BY IntrusiveListAssumption
  <2>4. \A m \in Groups!First(t) : m = t[1]
    BY DEF Groups!First
  <2> QED BY <1>2, <1>5, <1>6, <2>2, <2>3, <2>4
<1>8. CASE i = n
  <2>1. i + 1 \notin 1 .. n /\ n - i = 0
    BY <1>1, <1>8
  <2>2. t = <<>> /\ At(c, i + 1) = None
    BY <2>1, <1>1, <1>4 DEF At
  <2>3. Groups!First(t) = {}
    BY <2>2 DEF Groups!First
  <2> QED BY <1>2, <1>5, <1>6, <2>2, <2>3
<1>9. i < n \/ i = n
  BY <1>1
<1> QED BY <1>7, <1>8, <1>9, Zenon

(* Where a visit goes on that kept its next node.                          *)
LEMMA GoesFrom ==
  ASSUME NEW v, NEW E, World(v, E, {}), NEW r \in Root, NEW c \in Seq(Node), NEW i \in 1 .. Len(c),
         At(c, i + 1) \in Nodes(E[r]) \cup {None}
  PROVE  Walk(v.nexts, At(c, i + 1)) = Groups!From(E[r], SubSeq(c, i + 1, Len(c)))
<1>1. PICK n, t : n = At(c, i + 1) /\ t = SubSeq(c, i + 1, Len(c))
  OBVIOUS
<1>2. (n = None => t = <<>>) /\ (n # None => t # <<>> /\ t[1] = n)
  BY <1>1, RestIs
<1>3. PICK a, h, d : a = v.nexts /\ h = v.heads[r] /\ d = E[r]
  OBVIOUS
<1>4. a \in Links /\ Chained(a, h, d) /\ d \in Seq(Node)
      /\ \A j, k \in 1 .. Len(d) : d[j] = d[k] => j = k
  BY <1>3, WorldParts, Places
<1>5. CASE n = None
  <2>1. Walk(a, None) = <<>>
    BY <1>4, WalkNowhere
  <2>2. Groups!From(d, t) = <<>>
    BY <1>2, <1>5 DEF Groups!From
  <2> QED BY <1>1, <1>3, <1>5, <2>1, <2>2
<1>6. CASE n # None
  <2>1. n \in Nodes(d)
    BY <1>1, <1>3, <1>6
  <2>2. PICK j \in 1 .. Len(d) : n = d[j]
    BY <2>1, <1>4, NodesOf
  <2>3. Groups!After(d, d[j]) = SubSeq(d, j + 1, Len(d))
    BY <1>4, IndexIs
  <2>4. Groups!From(d, t) = <<n>> \o SubSeq(d, j + 1, Len(d))
    BY <1>2, <1>6, <2>2, <2>3 DEF Groups!From
  <2>5. At(d, j) = n
    BY <2>2 DEF At
  <2>6. j \in 1 .. Len(d) + 1
    BY <1>4
  <2>7. Walk(a, n) = SubSeq(d, j, Len(d))
    BY <2>5, <2>6, <1>4, WalkFrom
  <2>8. SubSeq(d, j, Len(d)) = <<n>> \o SubSeq(d, j + 1, Len(d))
    <3>1. PICK s, u : s = SubSeq(d, j, Len(d)) /\ u = SubSeq(d, j + 1, Len(d))
      OBVIOUS
    <3>2. s # <<>> /\ s[1] = d[j] /\ Tail(s) = u
      BY <3>1, <1>4, RestIs
    <3>3. s \in Seq(Node)
      BY <3>1, <1>4, <2>6, PartIs
    <3>4. s = <<s[1]>> \o Tail(s)
      BY <3>2, <3>3
    <3> QED BY <3>1, <3>2, <3>4, <2>2
  <2> QED BY <1>1, <1>3, <2>4, <2>7, <2>8
<1> QED BY <1>5, <1>6

(* A step of a traversal is one of the visit.                              *)
LEMMA Going ==
  ASSUME NEW op, op # "Idle", visit.op # "Idle",
         NEW ops, visit \in [op : ops, root : Root, at : Node \cup {None}, fuel : Nat,
                            head : Node \cup {None}],
         NEW at, GoOn(op, at)
  PROVE  /\ visit'.op = op /\ visit'.at = at /\ visit'.head = visit.head
         /\ Groups!GoOn(op, TodoIn(world', visit'))
<1>1. PICK r, f, h, o, a : visit = [op |-> o, root |-> r, at |-> a, fuel |-> f, head |-> h] /\ f \in Nat
  BY Zenon
<1>2. visit' = [op |-> op, root |-> r, at |-> at, fuel |-> f - 1, head |-> h]
  BY <1>1 DEF GoOn
<1>3. visit'.op = op /\ visit'.at = at /\ visit'.head = visit.head /\ visit'.root = r
      /\ visit'.fuel = f - 1
  BY <1>1, <1>2
<1>4. PICK t, u : t = TodoIn(world, visit) /\ u = TodoIn(world', visit')
  OBVIOUS
<1>5. Visited = [op |-> o, root |-> r, fuel |-> f, todo |-> t]
  <2>1. VisitIn(world, visit) = [op |-> visit.op, root |-> visit.root, fuel |-> visit.fuel,
                                 todo |-> TodoIn(world, visit)]
    BY VisitInIs
  <2> QED BY <1>1, <1>4, <2>1, VisitedIs
<1>6. Visited' = [op |-> op, root |-> r, fuel |-> f - 1, todo |-> u]
  <2>1. visit'.op # "Idle"
    BY <1>3
  <2>2. VisitIn(world', visit') = [op |-> visit'.op, root |-> visit'.root, fuel |-> visit'.fuel,
                                   todo |-> TodoIn(world', visit')]
    BY <2>1, VisitInIs
  <2> QED BY <1>3, <1>4, <2>2, VisitedIs
<1>7. Groups!GoOn(op, u)
  <2>1. PICK V, V2 : V = Visited /\ V2 = Visited'
    OBVIOUS
  <2>2. V = [op |-> o, root |-> r, fuel |-> f, todo |-> t]
        /\ V2 = [op |-> op, root |-> r, fuel |-> f - 1, todo |-> u]
    BY <2>1, <1>5, <1>6
  <2>3. V2 = [V EXCEPT !.op = op, !.fuel = f - 1, !.todo = u] /\ V.fuel = f
    <3>1. PICK g : g = f - 1
      OBVIOUS
    <3>2. V2 = [op |-> op, root |-> r, fuel |-> g, todo |-> u]
      BY <2>2, <3>1
    <3>3. V = [op |-> o, root |-> r, fuel |-> f, todo |-> t]
      BY <2>2
    <3>4. V2 = [V EXCEPT !.op = op, !.fuel = g, !.todo = u]
      <4>1. [V EXCEPT !.op = op] = [op |-> op, root |-> r, fuel |-> f, todo |-> t]
        BY ONLY <3>3
      <4>2. [[op |-> op, root |-> r, fuel |-> f, todo |-> t] EXCEPT !.fuel = g]
              = [op |-> op, root |-> r, fuel |-> g, todo |-> t]
        BY ONLY TRUE
      <4>3. [[op |-> op, root |-> r, fuel |-> g, todo |-> t] EXCEPT !.todo = u]
              = [op |-> op, root |-> r, fuel |-> g, todo |-> u]
        BY ONLY TRUE
      <4> QED BY ONLY <4>1, <4>2, <4>3, <3>2
    <3>5. V.fuel = f
      BY ONLY <3>3
    <3> QED BY <3>1, <3>4, <3>5
  <2>4. Visited' = [Visited EXCEPT !.op = op, !.fuel = Visited.fuel - 1, !.todo = u]
    BY ONLY <2>1, <2>3
  <2> QED BY ONLY <2>4 DEF Groups!GoOn
<1> QED BY <1>3, <1>4, <1>7

-----------------------------------------------------------------------------
(* Each iteration is a visit of the groups.                                *)

PlainOps == {"ForEach", "Find", "Count", "Map", "Prefix", "Tail"}

LEMMA PlainIs ==
  ASSUME NEW C, Plain(visit, C)
  PROVE  /\ visit \in [op : PlainOps, root : Root, at : Node \cup {None}, fuel : Nat,
                       head : Node \cup {None}]
         /\ visit.op # "Idle" /\ visit.op # "Clear" /\ visit.root \in Root /\ visit.fuel \in Nat
<1>1. visit \in [op : PlainOps, root : Root, at : Node \cup {None}, fuel : Nat, head : {None}]
  BY DEF Plain, PlainOps
<1>2. visit \in [op : PlainOps, root : Root, at : Node \cup {None}, fuel : Nat,
                 head : Node \cup {None}]
  BY <1>1
<1>3. \A o \in PlainOps : o # "Idle" /\ o # "Clear"
  BY DEF PlainOps
<1>4. visit.op \in PlainOps /\ visit.root \in Root /\ visit.fuel \in Nat
  BY <1>1
<1> QED BY <1>2, <1>3, <1>4

LEMMA AtPlace ==
  ASSUME ListsSound, NEW ops \in SUBSET PlainOps, Visiting(ops)
  PROVE  \E C : /\ World(world, C, {}) /\ Plain(visit, C) /\ visit.root \in Root /\ visit.op \in ops
                /\ visit.fuel > 0 /\ Grouped = Grp(C) /\ Groups!Visiting(ops)
                /\ Visited.root = visit.root /\ Visited.op = visit.op
                /\ C[visit.root] \in Seq(Node) /\ Groups!Seen = visit.at
                /\ \E i \in 1 .. Len(C[visit.root]) :
                     /\ visit.at = C[visit.root][i]
                     /\ visit.op # "Map" =>
                          Groups!Rest = SubSeq(C[visit.root], i + 1, Len(C[visit.root]))
<1>1. PICK C : /\ World(world, C, {}) /\ Plain(visit, C) /\ visit.root \in Root
               /\ visit.at \in Nodes(C[visit.root]) /\ visit.fuel > 0 /\ visit.op \in ops
               /\ visit.at \in Node
  <2>1. ops \in SUBSET {"ForEach", "Find", "Count", "Map", "Prefix", "Tail"}
    BY DEF PlainOps
  <2> QED BY <2>1, AtNode
<1>2. PICK w, r, c, n : w = world /\ r = visit.root /\ c = C[r] /\ n = visit.at
  OBVIOUS
<1>3. World(w, C, {}) /\ r \in Root /\ r \in Place /\ n \in Nodes(c)
  BY <1>1, <1>2, Places
<1>4. c \in Seq(Node) /\ \A j, k \in 1 .. Len(c) : c[j] = c[k] => j = k
  BY <1>2, <1>3, WorldParts
<1>5. PICK nx, pv, h : nx = w.nexts /\ pv = w.prevs /\ h = w.heads[r]
  OBVIOUS
<1>6. nx \in Links /\ pv \in Links /\ Chained(nx, h, c) /\ BackChained(pv, c)
  BY <1>2, <1>3, <1>5, WorldParts
<1>7. PICK i \in 1 .. Len(c) : n = c[i]
  BY <1>3, <1>4, NodesOf
<1>8. n = At(c, i)
  BY <1>7 DEF At
<1>9. visit.op # "Idle" /\ visit.op # "Clear" /\ visit.op \in PlainOps
  BY <1>1, PlainIs
<1>10. /\ Visited # Groups!Idle /\ Visited.op = visit.op /\ Visited.root = r
       /\ Visited.fuel = visit.fuel /\ Visited.todo = TodoIn(world, visit)
  <2>1. /\ VisitIn(world, visit) = [op |-> visit.op, root |-> visit.root, fuel |-> visit.fuel,
                                    todo |-> TodoIn(world, visit)]
        /\ VisitIn(world, visit) # Groups!Idle
    BY <1>9, VisitInIs
  <2> QED BY <1>2, <2>1, VisitedIs
<1>11. CASE visit.op = "Map"
  <2>1. TodoIn(world, visit) = Walk(pv, n)
    BY <1>2, <1>5, <1>9, <1>11, VisitInIs
  <2>2. i \in 0 .. Len(c)
    BY <1>4
  <2>3. Walk(pv, At(c, i)) = Reverse(SubSeq(c, 1, i))
    BY <1>4, <1>6, <2>2, WalkBack
  <2>4. PICK t : t = Reverse(SubSeq(c, 1, i))
    OBVIOUS
  <2>5. t # <<>> /\ t[1] = c[i]
    <3>1. PICK p : p = SubSeq(c, 1, i)
      OBVIOUS
    <3>2. i \in Nat /\ i # 0 /\ i <= Len(c)
      BY <1>4
    <3>3. Len(p) = i /\ p[i] = c[i]
      BY <3>1, <3>2, <1>4
    <3>4. Reverse(p) = [k \in 1 .. i |-> p[(i - k) + 1]]
      BY <3>3 DEF Reverse
    <3>5. 1 \in 1 .. i /\ (i - 1) + 1 = i
      BY <3>2
    <3>6. t[1] = p[i] /\ DOMAIN t = 1 .. i
      BY <2>4, <3>1, <3>4, <3>5
    <3>7. DOMAIN <<>> = {}
      OBVIOUS
    <3> QED BY <3>3, <3>5, <3>6, <3>7
  <2>6. Visited.todo = t
    BY <1>8, <1>10, <2>1, <2>3, <2>4
  <2>7. Groups!Visiting(ops) /\ Groups!Seen = n
    BY <1>1, <1>7, <1>10, <2>5, <2>6 DEF Groups!Visiting, Groups!Seen
  <2>8. Grouped = Grp(C)
    BY <1>1, GroupedIs
  <2> QED BY <1>1, <1>2, <1>4, <1>7, <1>10, <1>11, <2>7, <2>8
<1>12. CASE visit.op # "Map"
  <2>1. TodoIn(world, visit) = Walk(nx, n)
    <3>1. visit.op \in {"ForEach", "Find", "Count", "Prefix", "Tail"}
      BY <1>9, <1>12 DEF PlainOps
    <3> QED BY <1>2, <1>5, <1>9, <3>1, VisitInIs
  <2>2. i \in 1 .. Len(c) + 1
    BY <1>4
  <2>3. Walk(nx, At(c, i)) = SubSeq(c, i, Len(c))
    BY <1>6, <2>2, WalkFrom
  <2>4. Visited.todo = SubSeq(c, i, Len(c))
    BY <1>8, <1>10, <2>1, <2>3
  <2>5. SubSeq(c, i, Len(c)) # <<>> /\ SubSeq(c, i, Len(c))[1] = c[i]
        /\ Tail(SubSeq(c, i, Len(c))) = SubSeq(c, i + 1, Len(c))
    BY <1>4, RestIs
  <2>6. Groups!Visiting(ops) /\ Groups!Seen = n
    BY <1>1, <1>7, <1>10, <2>4, <2>5 DEF Groups!Visiting, Groups!Seen
  <2>7. Groups!Rest = SubSeq(c, i + 1, Len(c))
    BY <2>4, <2>5 DEF Groups!Rest
  <2>8. Grouped = Grp(C)
    BY <1>1, GroupedIs
  <2> QED BY <1>1, <1>2, <1>4, <1>7, <1>10, <2>6, <2>7, <2>8
<1> QED BY <1>11, <1>12

(* An edit by a callback, on both sides.                                   *)
LEMMA EditBoth ==
  ASSUME NEW w, NEW C, NEW X, World(w, C, X), NEW K, X \subseteq K, NEW e \in Edits(w, K),
         NEW J, \A n \in Node : n \in J => n \in K
  PROVE  \E E : /\ World(e.to, E, X) /\ SameLinks(e.to, w, X)
                /\ \A r \in Root : \A n \in Nodes(C[r]) :
                     n \in K \/ e.to.prevs[n] # None => n \in Nodes(E[r])
                /\ \E g \in Groups!Edits(Grp(C), J) : g.call = e.call /\ g.to = Grp(E)
<1>1. PICK E : /\ World(e.to, E, X) /\ SameLinks(e.to, w, X) /\ EditOf(C, E, X, K, e.call)
               /\ \A r \in Root : \A n \in Nodes(C[r]) :
                    n \in K \/ e.to.prevs[n] # None => n \in Nodes(E[r])
  BY EditWorld
<1>2. PICK call : call = e.call
  OBVIOUS
<1>3. Groups!Edit(call, Grp(E)) \in Groups!Edits(Grp(C), J)
  <2>1. EditOf(C, E, X, K, call)
    BY <1>1, <1>2
  <2> QED BY <2>1, EditIsAbstract
<1>4. PICK g : g = Groups!Edit(call, Grp(E))
  OBVIOUS
<1>5. g.call = call /\ g.to = Grp(E)
  BY <1>4 DEF Groups!Edit
<1> QED BY <1>1, <1>2, <1>3, <1>4, <1>5

(* The edits of a callback when no node is being cleared.                  *)
LEMMA EditPlain ==
  ASSUME NEW w, NEW C, World(w, C, {}), NEW K, NEW e \in Edits(w, K),
         NEW J, \A n \in Node : n \in J => n \in K
  PROVE  \E E : /\ World(e.to, E, {})
                /\ \A r \in Root : \A n \in Nodes(C[r]) :
                     n \in K \/ e.to.prevs[n] # None => n \in Nodes(E[r])
                /\ \E g \in Groups!Edits(Grp(C), J) : g.call = e.call /\ g.to = Grp(E)
<1>1. PICK X : X = {}
  OBVIOUS
<1>2. World(w, C, X) /\ X \subseteq K
  BY <1>1
<1>3. \E E : /\ World(e.to, E, X) /\ SameLinks(e.to, w, X)
             /\ \A r \in Root : \A n \in Nodes(C[r]) :
                  n \in K \/ e.to.prevs[n] # None => n \in Nodes(E[r])
             /\ \E g \in Groups!Edits(Grp(C), J) : g.call = e.call /\ g.to = Grp(E)
  BY <1>2, EditBoth
<1> QED BY <1>1, <1>3

LEMMA AbstractVisitEach == ListsSound /\ VisitEach => Groups!VisitEach
<1> SUFFICES ASSUME ListsSound, VisitEach PROVE Groups!VisitEach
  OBVIOUS
<1>1. Visiting({"ForEach"}) /\ {"ForEach"} \in SUBSET PlainOps
  BY DEF VisitEach, PlainOps
<1>2. PICK C : /\ World(world, C, {}) /\ Plain(visit, C) /\ visit.root \in Root /\ visit.op \in {"ForEach"}
               /\ visit.fuel > 0 /\ Grouped = Grp(C) /\ Groups!Visiting({"ForEach"})
               /\ Visited.root = visit.root /\ Visited.op = visit.op
               /\ C[visit.root] \in Seq(Node) /\ Groups!Seen = visit.at
               /\ \E i \in 1 .. Len(C[visit.root]) :
                    /\ visit.at = C[visit.root][i]
                    /\ visit.op # "Map" =>
                         Groups!Rest = SubSeq(C[visit.root], i + 1, Len(C[visit.root]))
  BY <1>1, AtPlace
<1>3. PICK w, r, n, c, after : /\ w = world /\ r = visit.root /\ n = visit.at /\ c = C[r]
                               /\ after = w.nexts[n]
  OBVIOUS
<1>4. PICK i \in 1 .. Len(c) : n = c[i] /\ Groups!Rest = SubSeq(c, i + 1, Len(c))
  BY <1>2, <1>3
<1>5. World(w, C, {}) /\ r \in Root /\ c \in Seq(Node) /\ {} \subseteq {after}
  BY <1>2, <1>3
<1>6. after = At(c, i + 1) /\ after \in Nodes(c) \cup {None}
  <2>1. Chained(w.nexts, w.heads[r], c)
    BY <1>3, <1>5, WorldParts
  <2>2. n \in Nodes(c)
    BY <1>4, <1>5, NodesOf
  <2> QED BY <1>3, <1>4, <1>5, <2>1, <2>2, Neighbours DEF Chained
<1>7. PICK e \in Edits(w, {after}) : /\ reply' = <<"ForEach", n, e.call>>
                                     /\ world' = e.to /\ GoOn("ForEach", after)
  BY <1>3 DEF VisitEach
<1>8. \A m \in Node : m \in Groups!First(Groups!Rest) => m \in {after}
  BY <1>4, <1>5, <1>6, RestIs
<1>9. PICK J, K : J = Groups!First(Groups!Rest) /\ K = {after}
  OBVIOUS
<1>10. \A m \in Node : m \in J => m \in K
  BY <1>8, <1>9
<1>11. PICK E : /\ World(e.to, E, {})
                /\ \A q \in Root : \A m \in Nodes(C[q]) :
                     m \in K \/ e.to.prevs[m] # None => m \in Nodes(E[q])
                /\ \E g \in Groups!Edits(Grp(C), J) : g.call = e.call /\ g.to = Grp(E)
  <2>1. World(w, C, {}) /\ e \in Edits(w, K)
    BY <1>5, <1>9
  <2> QED BY <2>1, <1>10, EditPlain
<1>12. PICK g \in Groups!Edits(Grp(C), J) : g.call = e.call /\ g.to = Grp(E)
  BY <1>11
<1>13. World(world', E, {})
  BY <1>7, <1>11
<1>14. Grouped' = g.to
  BY <1>12, <1>13, GroupedThen
<1>15. /\ visit'.op = "ForEach" /\ visit'.at = after
       /\ Groups!GoOn("ForEach", TodoIn(world', visit'))
  BY <1>2, <1>7, PlainIs, Going
<1>16. TodoIn(world', visit') = Groups!From(g.to.list[r], Groups!Rest)
  <2>1. TodoIn(world', visit') = Walk(world'.nexts, after)
    BY <1>15, VisitInIs
  <2>2. PICK v : v = world'
    OBVIOUS
  <2>3. World(v, E, {}) /\ v = e.to
    BY <1>7, <1>13, <2>2
  <2>4. At(c, i + 1) \in Nodes(E[r]) \cup {None}
    BY <1>3, <1>5, <1>6, <1>9, <1>11
  <2>5. Walk(v.nexts, At(c, i + 1)) = Groups!From(E[r], SubSeq(c, i + 1, Len(c)))
    BY <1>5, <2>3, <2>4, GoesFrom
  <2>6. g.to.list[r] = E[r]
    BY <1>5, <1>12, GrpParts
  <2> QED BY <1>4, <1>6, <2>1, <2>2, <2>5, <2>6
<1>17. reply' = <<"ForEach", Groups!Seen, g.call>>
  BY <1>2, <1>3, <1>7, <1>12
<1>18. Groups!GoOn("ForEach", Groups!From(g.to.list[Visited.root], Groups!Rest))
  BY <1>2, <1>3, <1>15, <1>16
<1>19. g \in Groups!Edits(Grouped, Groups!First(Groups!Rest))
  BY <1>2, <1>9
<1> QED BY <1>2, <1>14, <1>17, <1>18, <1>19 DEF Groups!VisitEach

LEMMA AbstractReverse == ASSUME NEW s PROVE Groups!Reverse(s) = Reverse(s)
BY DEF Groups!Reverse, Reverse

(* Where a visit goes on from a node that stayed.                          *)
LEMMA GoesOver ==
  ASSUME NEW v, NEW E, World(v, E, {}), NEW r \in Root, NEW n \in Nodes(E[r])
  PROVE  /\ Walk(v.nexts, v.nexts[n]) = Groups!After(E[r], n)
         /\ Walk(v.prevs, v.prevs[n]) = Groups!Reverse(Groups!Before(E[r], n))
<1>1. PICK a, b, h, d : a = v.nexts /\ b = v.prevs /\ h = v.heads[r] /\ d = E[r]
  OBVIOUS
<1>2. /\ a \in Links /\ b \in Links /\ Chained(a, h, d) /\ BackChained(b, d) /\ d \in Seq(Node)
      /\ \A j, k \in 1 .. Len(d) : d[j] = d[k] => j = k
  BY <1>1, WorldParts, Places
<1>3. PICK j \in 1 .. Len(d) : n = d[j]
  BY <1>1, <1>2, NodesOf
<1>4. a[n] = At(d, j + 1) /\ b[n] = At(d, j - 1)
  BY <1>2, <1>3 DEF Chained, BackChained
<1>5. j + 1 \in 1 .. Len(d) + 1 /\ j - 1 \in 0 .. Len(d)
  BY <1>2
<1>6. Walk(a, At(d, j + 1)) = SubSeq(d, j + 1, Len(d))
  BY <1>2, <1>5, WalkFrom
<1>7. Walk(b, At(d, j - 1)) = Reverse(SubSeq(d, 1, j - 1))
  BY <1>2, <1>5, WalkBack
<1>8. Groups!After(d, d[j]) = SubSeq(d, j + 1, Len(d)) /\ Groups!Before(d, d[j]) = SubSeq(d, 1, j - 1)
  BY <1>2, IndexIs
<1> QED BY <1>1, <1>3, <1>4, <1>6, <1>7, <1>8, AbstractReverse

LEMMA AbstractVisitStaying == ListsSound /\ VisitStaying => Groups!VisitStaying
<1> SUFFICES ASSUME ListsSound, VisitStaying PROVE Groups!VisitStaying
  OBVIOUS
<1>1. Visiting({"Find", "Count", "Map"}) /\ {"Find", "Count", "Map"} \in SUBSET PlainOps
  BY DEF VisitStaying, PlainOps
<1>2. PICK C : /\ World(world, C, {}) /\ Plain(visit, C) /\ visit.root \in Root
               /\ visit.op \in {"Find", "Count", "Map"}
               /\ visit.fuel > 0 /\ Grouped = Grp(C) /\ Groups!Visiting({"Find", "Count", "Map"})
               /\ Visited.root = visit.root /\ Visited.op = visit.op
               /\ C[visit.root] \in Seq(Node) /\ Groups!Seen = visit.at
               /\ \E i \in 1 .. Len(C[visit.root]) :
                    /\ visit.at = C[visit.root][i]
                    /\ visit.op # "Map" =>
                         Groups!Rest = SubSeq(C[visit.root], i + 1, Len(C[visit.root]))
  BY <1>1, AtPlace
<1>3. PICK w, r, n, c, o : /\ w = world /\ r = visit.root /\ n = visit.at /\ c = C[r] /\ o = visit.op
  OBVIOUS
<1>4. n \in Nodes(c)
  BY <1>2, <1>3, NodesOf
<1>5. PICK e \in Edits(w, {n}) :
        /\ reply' = <<o, n, e.call>> /\ world' = e.to
        /\ GoOn(o, IF o = "Map" THEN e.to.prevs[n] ELSE e.to.nexts[n])
  BY <1>3 DEF VisitStaying
<1>6. PICK v, at, K, X : v = e.to /\ at = (IF o = "Map" THEN v.prevs[n] ELSE v.nexts[n])
                         /\ K = {n} /\ X = {}
  OBVIOUS
<1>7. PICK E : /\ World(e.to, E, X) /\ SameLinks(e.to, w, X)
               /\ \A q \in Root : \A m \in Nodes(C[q]) :
                    m \in K \/ e.to.prevs[m] # None => m \in Nodes(E[q])
               /\ \E g \in Groups!Edits(Grp(C), K) : g.call = e.call /\ g.to = Grp(E)
  <2>1. World(w, C, X) /\ X \subseteq K /\ e \in Edits(w, K)
    BY <1>2, <1>3, <1>6
  <2>2. PICK J : J = {n} /\ \A m \in Node : m \in J => m \in K
    BY <1>6
  <2>3. \E E : /\ World(e.to, E, X) /\ SameLinks(e.to, w, X)
               /\ \A q \in Root : \A m \in Nodes(C[q]) :
                    m \in K \/ e.to.prevs[m] # None => m \in Nodes(E[q])
               /\ \E g \in Groups!Edits(Grp(C), J) : g.call = e.call /\ g.to = Grp(E)
    BY <2>1, <2>2, EditBoth
  <2> QED BY <2>2, <2>3, <1>6
<1>8. PICK g \in Groups!Edits(Grp(C), K) : g.call = e.call /\ g.to = Grp(E)
  BY <1>7
<1>9. World(v, E, {}) /\ World(world', E, {}) /\ n \in Nodes(E[r]) /\ r \in Root /\ world' = v
  BY <1>2, <1>3, <1>4, <1>5, <1>6, <1>7
<1>10. Grouped' = g.to
  BY <1>8, <1>9, GroupedThen
<1>11. GoOn(o, at) /\ o # "Idle" /\ o # "Clear"
  BY <1>2, <1>3, <1>5, <1>6
<1>12. /\ visit'.op = o /\ visit'.at = at /\ Groups!GoOn(o, TodoIn(world', visit'))
  BY <1>2, <1>3, <1>11, PlainIs, Going
<1>13. g.to.list[r] = E[r]
  BY <1>8, <1>9, GrpParts
<1>14. TodoIn(world', visit') = IF o = "Map" THEN Groups!Reverse(Groups!Before(E[r], n))
                                             ELSE Groups!After(E[r], n)
  <2>1. CASE o = "Map"
    <3>1. TodoIn(world', visit') = Walk(world'.prevs, visit'.at)
      BY <1>11, <1>12, <2>1, VisitInIs
    <3> QED BY <3>1, <2>1, <1>6, <1>9, <1>12, GoesOver
  <2>2. CASE o # "Map"
    <3>1. visit'.op # "Idle" /\ visit'.op \in {"ForEach", "Find", "Count", "Prefix", "Tail"}
      BY <1>2, <1>3, <1>12, <2>2
    <3>2. TodoIn(world', visit') = Walk(world'.nexts, visit'.at)
      BY <3>1, VisitInIs
    <3> QED BY <3>2, <2>2, <1>6, <1>9, <1>12, GoesOver
  <2> QED BY <2>1, <2>2
<1>15. reply' = <<Visited.op, Groups!Seen, g.call>>
  BY <1>2, <1>3, <1>5, <1>8
<1>16. PICK list : list = g.to.list[Visited.root]
  OBVIOUS
<1>17. Groups!GoOn(Visited.op, IF Visited.op = "Map" THEN Groups!Reverse(Groups!Before(list, Groups!Seen))
                                                     ELSE Groups!After(list, Groups!Seen))
  <2>1. Visited.op = o /\ list = E[r] /\ Groups!Seen = n
    BY <1>2, <1>3, <1>13, <1>16
  <2> QED BY <2>1, <1>12, <1>14
<1>18. g \in Groups!Edits(Grouped, {Groups!Seen})
  BY <1>2, <1>3, <1>6
<1> QED BY <1>2, <1>10, <1>15, <1>16, <1>17, <1>18 DEF Groups!VisitStaying

LEMMA IdleThen == visit' = Idle => Visited' = Groups!Idle
BY VisitedIs DEF VisitIn, Groups!Idle

LEMMA AbstractHit == ListsSound /\ Hit => Groups!Hit
<1> SUFFICES ASSUME ListsSound, Hit PROVE Groups!Hit
  OBVIOUS
<1>1. Visiting({"Find"}) /\ {"Find"} \in SUBSET PlainOps
  BY DEF Hit, PlainOps
<1>2. PICK C : /\ World(world, C, {}) /\ Plain(visit, C) /\ visit.root \in Root
               /\ visit.op \in {"Find"}
               /\ visit.fuel > 0 /\ Grouped = Grp(C) /\ Groups!Visiting({"Find"})
               /\ Visited.root = visit.root /\ Visited.op = visit.op
               /\ C[visit.root] \in Seq(Node) /\ Groups!Seen = visit.at
               /\ \E i \in 1 .. Len(C[visit.root]) :
                    /\ visit.at = C[visit.root][i]
                    /\ visit.op # "Map" =>
                         Groups!Rest = SubSeq(C[visit.root], i + 1, Len(C[visit.root]))
  BY <1>1, AtPlace
<1>3. PICK w, n, K, X : w = world /\ n = visit.at /\ K = {n} /\ X = {}
  OBVIOUS
<1>4. PICK e \in Edits(w, K) :
        /\ reply' = <<"Found", n, e.call>> /\ world' = e.to /\ visit' = Idle
  BY <1>3 DEF Hit
<1>5. PICK E : /\ World(e.to, E, X) /\ SameLinks(e.to, w, X)
               /\ \A q \in Root : \A m \in Nodes(C[q]) :
                    m \in K \/ e.to.prevs[m] # None => m \in Nodes(E[q])
               /\ \E g \in Groups!Edits(Grp(C), K) : g.call = e.call /\ g.to = Grp(E)
  <2>1. World(w, C, X) /\ X \subseteq K
    BY <1>2, <1>3
  <2>2. \A m \in Node : m \in K => m \in K
    OBVIOUS
  <2> QED BY <2>1, <2>2, EditBoth
<1>6. PICK g \in Groups!Edits(Grp(C), K) : g.call = e.call /\ g.to = Grp(E)
  BY <1>5
<1>7. World(world', E, {})
  BY <1>3, <1>4, <1>5
<1>8. Grouped' = g.to
  BY <1>6, <1>7, GroupedThen
<1>9. reply' = <<"Found", Groups!Seen, g.call>>
  BY <1>2, <1>3, <1>4, <1>6
<1>10. g \in Groups!Edits(Grouped, {Groups!Seen})
  BY <1>2, <1>3
<1>11. Visited' = Groups!Idle
  BY <1>4, IdleThen
<1> QED BY <1>2, <1>8, <1>9, <1>10, <1>11 DEF Groups!Hit

(* A node dropped from a list, on both sides.                              *)
LEMMA DropBoth ==
  ASSUME NEW v, NEW E, World(v, E, {}), NEW r \in Root, NEW n \in Nodes(E[r])
  PROVE  \E F : /\ World(Removed(v, r, n), F, {}) /\ Groups!Removed(Grp(E), r, n) = Grp(F)
                /\ \A m \in Nodes(E[r]) : m # n => m \in Nodes(F[r])
<1>1. PICK c, h, a : c = E[r] /\ h = v.heads[r] /\ a = v.nexts
  OBVIOUS
<1>2. /\ c \in Seq(Node) /\ Chained(a, h, c) /\ E \in [Place -> Seq(Node)] /\ r \in Place
      /\ \A j, k \in 1 .. Len(c) : c[j] = c[k] => j = k
  BY <1>1, WorldParts, Places
<1>3. PICK i \in 1 .. Len(c) : n = c[i]
  BY <1>1, <1>2, NodesOf
<1>4. PICK d, F : d = RemoveAt(c, i) /\ F = [E EXCEPT ![r] = d]
  OBVIOUS
<1>5. World(Removed(v, r, n), F, {})
  <2>1. World(Removed(v, r, E[r][i]), [E EXCEPT ![r] = RemoveAt(E[r], i)], {})
    BY <1>1, Removing
  <2> QED BY <2>1, <1>1, <1>3, <1>4
<1>6. Groups!Without(c, n) = d
  BY <1>2, <1>3, <1>4, IndexIs
<1>7. Grp(E).list[r] = c
  BY <1>1, GrpParts
<1>8. Groups!Removed(Grp(E), r, n) = [Grp(E) EXCEPT !.list[r] = d]
  BY <1>6, <1>7 DEF Groups!Removed
<1>9. Grp([E EXCEPT ![r] = d]) = [Grp(E) EXCEPT !.list[r] = d]
  BY <1>2, GrpChanges, ZenonT(40)
<1>10. Nodes(d) = Nodes(c) \ {n}
  <2>1. PICK b : b = [m \in Nodes(c) |-> IF m = At(c, i - 1) THEN At(c, i + 1) ELSE a[m]]
    OBVIOUS
  <2>2. \A m \in Nodes(c) \ {c[i]} : b[m] = IF m = At(c, i - 1) THEN At(c, i + 1) ELSE a[m]
    BY <2>1
  <2>3. Nodes(RemoveAt(c, i)) = Nodes(c) \ {c[i]}
    BY <1>2, <2>2, ChainWithout
  <2> QED BY <2>3, <1>3, <1>4
<1>11. F[r] = d
  BY <1>2, <1>4
<1> QED BY <1>1, <1>4, <1>5, <1>8, <1>9, <1>10, <1>11

LEMMA AbstractFilterPrefix == ListsSound /\ FilterPrefix => Groups!FilterFirst
<1> SUFFICES ASSUME ListsSound, FilterPrefix PROVE Groups!FilterFirst
  OBVIOUS
<1>1. Visiting({"Prefix"}) /\ {"Prefix"} \in SUBSET PlainOps
  BY DEF FilterPrefix, PlainOps
<1>2. PICK C : /\ World(world, C, {}) /\ Plain(visit, C) /\ visit.root \in Root /\ visit.op \in {"Prefix"}
               /\ visit.fuel > 0 /\ Grouped = Grp(C) /\ Groups!Visiting({"Prefix"})
               /\ Visited.root = visit.root /\ Visited.op = visit.op
               /\ C[visit.root] \in Seq(Node) /\ Groups!Seen = visit.at
               /\ \E i \in 1 .. Len(C[visit.root]) :
                    /\ visit.at = C[visit.root][i]
                    /\ visit.op # "Map" =>
                         Groups!Rest = SubSeq(C[visit.root], i + 1, Len(C[visit.root]))
  BY <1>1, AtPlace
<1>3. PICK w, r, n : w = world /\ r = visit.root /\ n = visit.at
  OBVIOUS
<1>4. PICK e \in Edits(w, {}) :
         \/ e.to.heads[r] = None /\ world' = e.to /\ End("InvalidTraversal")
         \/ /\ e.to.heads[r] # None /\ world' = e.to /\ GoOn("Tail", e.to.nexts[e.to.heads[r]])
            /\ reply' = <<"Keep", n, e.call>>
         \/ /\ e.to.heads[r] # None
            /\ \E d \in Edits(Removed(e.to, r, e.to.heads[r]), {}) :
                 /\ reply' = <<"Drop", n, e.call, e.to.heads[r], d.call>>
                 /\ world' = d.to /\ GoOn("Prefix", d.to.heads[r])
  BY <1>3 DEF FilterPrefix, FilterKept
<1>5. PICK J : J = {} /\ \A m \in Node : m \in J => m \in {}
  OBVIOUS
<1>6. PICK E : /\ World(e.to, E, {})
               /\ \E g \in Groups!Edits(Grp(C), J) : g.call = e.call /\ g.to = Grp(E)
  <2>1. World(w, C, {}) /\ e \in Edits(w, {})
    BY <1>2, <1>3
  <2>2. \E E : /\ World(e.to, E, {})
               /\ \A q \in Root : \A m \in Nodes(C[q]) :
                    m \in {} \/ e.to.prevs[m] # None => m \in Nodes(E[q])
               /\ \E g \in Groups!Edits(Grp(C), J) : g.call = e.call /\ g.to = Grp(E)
    BY <2>1, <1>5, EditPlain
  <2> QED BY <2>2
<1>7. PICK g \in Groups!Edits(Grouped, {}) : g.call = e.call /\ g.to = Grp(E)
  BY <1>2, <1>5, <1>6
<1>8. PICK v, live, c : v = e.to /\ live = v.heads[r] /\ c = E[r]
  OBVIOUS
<1>9. World(v, E, {}) /\ r \in Root /\ g.to.list[r] = c
  BY <1>2, <1>3, <1>6, <1>7, <1>8, GrpParts
<1>10. Chained(v.nexts, live, c) /\ v.nexts \in Links /\ c \in Seq(Node) /\ (live = None <=> c = <<>>)
  BY <1>8, <1>9, WorldParts, Neighbours
<1>11. CASE live = None /\ world' = v /\ End("InvalidTraversal")
  <2>1. World(world', E, {})
    BY <1>9, <1>11
  <2>2. Grouped' = g.to
    BY <1>7, <2>1, GroupedThen
  <2>3. Groups!End("InvalidTraversal")
    BY <1>2, <1>11, IdleThen DEF Groups!End, End
  <2>4. g.to.list[Visited.root] = <<>>
    BY <1>2, <1>3, <1>9, <1>10, <1>11
  <2> QED BY <1>2, <1>7, <2>2, <2>3, <2>4 DEF Groups!FilterFirst
<1>12. CASE live # None /\ world' = v /\ GoOn("Tail", v.nexts[live]) /\ reply' = <<"Keep", n, e.call>>
  <2>1. PICK a, at : a = v.nexts /\ at = v.nexts[live]
    OBVIOUS
  <2>2. c # <<>> /\ Chained(a, live, c) /\ a \in Links
    BY <1>10, <1>12, <2>1
  <2>3. live = c[1] /\ Chained(a, a[c[1]], Tail(c))
    BY <2>2, ChainTail
  <2>4. Walk(a, at) = Tail(c)
    BY <2>1, <2>2, <2>3, WalkIs
  <2>5. visit'.op = "Tail" /\ visit'.at = at /\ Groups!GoOn("Tail", TodoIn(world', visit'))
    BY <1>2, <1>12, <2>1, PlainIs, Going
  <2>6. TodoIn(world', visit') = Tail(c)
    BY <1>12, <2>1, <2>4, <2>5, VisitInIs
  <2>7. World(world', E, {})
    BY <1>9, <1>12
  <2>8. Grouped' = g.to
    BY <1>7, <2>7, GroupedThen
  <2>9. PICK list : list = g.to.list[Visited.root]
    OBVIOUS
  <2>10. list # <<>> /\ Groups!GoOn("Tail", Tail(list))
    BY <1>2, <1>3, <1>9, <2>2, <2>5, <2>6, <2>9
  <2>11. reply' = <<"Keep", Groups!Seen, g.call>>
    BY <1>2, <1>3, <1>7, <1>12
  <2> QED BY <1>2, <1>7, <2>8, <2>9, <2>10, <2>11 DEF Groups!FilterFirst
<1>13. CASE /\ live # None
            /\ \E d \in Edits(Removed(v, r, live), {}) :
                 /\ reply' = <<"Drop", n, e.call, live, d.call>>
                 /\ world' = d.to /\ GoOn("Prefix", d.to.heads[r])
  <2>1. live \in Nodes(E[r]) /\ c # <<>> /\ live = Head(c)
    <3>1. c # <<>> /\ live = At(c, 1)
      BY <1>10, <1>13 DEF Chained
    <3>2. live = c[1] /\ Len(c) \in Nat /\ Len(c) # 0
      BY <3>1, <1>10, <1>13 DEF At
    <3>3. Head(c) = c[1]
      BY <3>1, <1>10
    <3>4. 1 \in 1 .. Len(c)
      BY <3>2
    <3>5. c[1] \in Nodes(c)
      BY <3>4, <1>10, NodesOf
    <3> QED BY <3>1, <3>2, <3>3, <3>5, <1>8
  <2>2. PICK u : u = Removed(v, r, live)
    OBVIOUS
  <2>3. PICK F : World(u, F, {}) /\ Groups!Removed(Grp(E), r, live) = Grp(F)
    BY <1>9, <2>1, <2>2, DropBoth
  <2>4. PICK d \in Edits(u, {}) : /\ reply' = <<"Drop", n, e.call, live, d.call>>
                                  /\ world' = d.to /\ GoOn("Prefix", d.to.heads[r])
    BY <1>13, <2>2
  <2>5. PICK G : /\ World(d.to, G, {})
                 /\ \E f \in Groups!Edits(Grp(F), J) : f.call = d.call /\ f.to = Grp(G)
    <3>1. PICK K : K = {}
      OBVIOUS
    <3>2. World(u, F, {}) /\ d \in Edits(u, K)
      BY <2>3, <2>4, <3>1
    <3>3. \A m \in Node : m \in J => m \in K
      BY <1>5, <3>1
    <3>4. \E G : /\ World(d.to, G, {})
                 /\ \A q \in Root : \A m \in Nodes(F[q]) :
                      m \in K \/ d.to.prevs[m] # None => m \in Nodes(G[q])
                 /\ \E f \in Groups!Edits(Grp(F), J) : f.call = d.call /\ f.to = Grp(G)
      BY <3>2, <3>3, EditPlain
    <3> QED BY <3>4
  <2>6. PICK f \in Groups!Edits(Grp(F), {}) : f.call = d.call /\ f.to = Grp(G)
    BY <1>5, <2>5
  <2>7. PICK x, at : x = d.to /\ at = x.heads[r]
    OBVIOUS
  <2>8. World(x, G, {}) /\ World(world', G, {}) /\ world' = x
    BY <2>4, <2>5, <2>7
  <2>9. Walk(x.nexts, at) = G[r] /\ f.to.list[r] = G[r]
    <3>1. Chain(x, r) = G[r]
      BY <1>9, <2>8, WorldWalks
    <3> QED BY <3>1, <1>9, <2>6, <2>7, GrpParts DEF Chain
  <2>10. visit'.op = "Prefix" /\ visit'.at = at /\ Groups!GoOn("Prefix", TodoIn(world', visit'))
    BY <1>2, <2>4, <2>7, PlainIs, Going
  <2>11. TodoIn(world', visit') = G[r]
    BY <2>8, <2>9, <2>10, VisitInIs
  <2>12. Grouped' = f.to
    BY <2>6, <2>8, GroupedThen
  <2>13. PICK list : list = g.to.list[Visited.root]
    OBVIOUS
  <2>14. list = c /\ Visited.root = r /\ Head(list) = live /\ list # <<>>
    BY <1>2, <1>3, <1>9, <2>1, <2>13
  <2>15. f \in Groups!Edits(Groups!Removed(g.to, Visited.root, Head(list)), {})
    BY <1>7, <2>3, <2>6, <2>14
  <2>16. reply' = <<"Drop", Groups!Seen, g.call, Head(list), f.call>>
    BY <1>2, <1>3, <1>7, <2>4, <2>6, <2>14
  <2>17. Groups!GoOn("Prefix", f.to.list[Visited.root])
    BY <2>9, <2>10, <2>11, <2>14
  <2> QED BY <1>2, <1>7, <2>12, <2>13, <2>14, <2>15, <2>16, <2>17 DEF Groups!FilterFirst
<1> QED BY <1>4, <1>8, <1>11, <1>12, <1>13

LEMMA NonFirstIs ==
  ASSUME NEW v, NEW E, World(v, E, {}), NEW r \in Root, NEW n,
         v.prevs[n] # None => n \in Nodes(E[r])
  PROVE  v.prevs[n] # None <=> n \in Groups!NonFirst(E[r])
<1>1. PICK b, c : b = v.prevs /\ c = E[r]
  OBVIOUS
<1>2. BackChained(b, c) /\ c \in Seq(Node)
  BY <1>1, WorldParts
<1>3. PICK m \in Nat : m = Len(c)
  BY <1>2
<1>4. \A k \in 1 .. m : b[c[k]] = At(c, k - 1) /\ c[k] # None
  BY <1>2, <1>3, NodesOf DEF BackChained
<1>5. ASSUME b[n] # None PROVE n \in Groups!NonFirst(c)
  <2>1. n \in Nodes(c)
    BY <1>1, <1>5
  <2>2. PICK k \in 1 .. m : n = c[k]
    BY <2>1, <1>2, <1>3, NodesOf
  <2>3. At(c, k - 1) # None
    BY <1>4, <1>5, <2>2
  <2>4. k - 1 \in 1 .. m
    BY <2>3, <1>3 DEF At
  <2>5. k \in 2 .. Len(c)
    BY <2>4, <1>3
  <2> QED BY <2>2, <2>5 DEF Groups!NonFirst
<1>6. ASSUME n \in Groups!NonFirst(c) PROVE b[n] # None
  <2>1. PICK k \in 2 .. Len(c) : n = c[k]
    BY <1>6 DEF Groups!NonFirst
  <2>2. k \in 1 .. m /\ k - 1 \in 1 .. m
    BY <1>3
  <2>3. At(c, k - 1) = c[k - 1]
    BY <2>2, <1>3 DEF At
  <2> QED BY <1>4, <2>1, <2>2, <2>3
<1> QED BY <1>1, <1>5, <1>6

LEMMA AbstractFilterTail == ListsSound /\ FilterTail => Groups!FilterRest
<1> SUFFICES ASSUME ListsSound, FilterTail PROVE Groups!FilterRest
  OBVIOUS
<1>1. Visiting({"Tail"}) /\ {"Tail"} \in SUBSET PlainOps
  BY DEF FilterTail, PlainOps
<1>2. PICK C : /\ World(world, C, {}) /\ Plain(visit, C) /\ visit.root \in Root /\ visit.op \in {"Tail"}
               /\ visit.fuel > 0 /\ Grouped = Grp(C) /\ Groups!Visiting({"Tail"})
               /\ Visited.root = visit.root /\ Visited.op = visit.op
               /\ C[visit.root] \in Seq(Node) /\ Groups!Seen = visit.at
               /\ \E i \in 1 .. Len(C[visit.root]) :
                    /\ visit.at = C[visit.root][i]
                    /\ visit.op # "Map" =>
                         Groups!Rest = SubSeq(C[visit.root], i + 1, Len(C[visit.root]))
  BY <1>1, AtPlace
<1>3. PICK w, r, n, c, after : /\ w = world /\ r = visit.root /\ n = visit.at /\ c = C[r]
                               /\ after = w.nexts[n]
  OBVIOUS
<1>4. PICK i \in 1 .. Len(c) : n = c[i] /\ Groups!Rest = SubSeq(c, i + 1, Len(c))
  BY <1>2, <1>3
<1>5. World(w, C, {}) /\ r \in Root /\ c \in Seq(Node)
  BY <1>2, <1>3
<1>6. after = At(c, i + 1) /\ after \in Nodes(c) \cup {None} /\ n \in Nodes(c) /\ after # n
  <2>1. Chained(w.nexts, w.heads[r], c)
    BY <1>3, <1>5, WorldParts
  <2>2. n \in Nodes(c)
    BY <1>4, <1>5, NodesOf
  <2> QED BY <1>3, <1>4, <1>5, <2>1, <2>2, Neighbours DEF Chained
<1>7. PICK e \in Edits(w, {after}) :
         \/ reply' = <<"Keep", n, e.call>> /\ world' = e.to /\ GoOn("Tail", after)
         \/ e.to.prevs[n] = None /\ world' = e.to /\ End("InvalidTraversal")
         \/ /\ e.to.prevs[n] # None
            /\ \E d \in Edits(Removed(e.to, r, n), {after}) :
                 /\ reply' = <<"Drop", n, e.call, n, d.call>>
                 /\ world' = d.to /\ GoOn("Tail", after)
  BY <1>3 DEF FilterTail
<1>8. PICK J, K : J = Groups!First(Groups!Rest) /\ K = {after}
  OBVIOUS
<1>9. \A m \in Node : m \in J => m \in K
  BY <1>4, <1>5, <1>6, <1>8, RestIs
<1>10. PICK E : /\ World(e.to, E, {})
                /\ \A q \in Root : \A m \in Nodes(C[q]) :
                     m \in K \/ e.to.prevs[m] # None => m \in Nodes(E[q])
                /\ \E g \in Groups!Edits(Grp(C), J) : g.call = e.call /\ g.to = Grp(E)
  <2>1. World(w, C, {}) /\ e \in Edits(w, K)
    BY <1>5, <1>8
  <2> QED BY <2>1, <1>9, EditPlain
<1>11. PICK g \in Groups!Edits(Grouped, Groups!First(Groups!Rest)) : g.call = e.call /\ g.to = Grp(E)
  BY <1>2, <1>8, <1>10
<1>12. PICK v : v = e.to
  OBVIOUS
<1>13. World(v, E, {}) /\ g.to.list[r] = E[r] /\ Visited.root = r /\ Groups!Seen = n
  BY <1>2, <1>3, <1>5, <1>10, <1>11, <1>12, GrpParts
<1>14. v.prevs[n] # None => n \in Nodes(E[r])
  BY <1>3, <1>5, <1>6, <1>10, <1>12
<1>15. v.prevs[n] # None <=> n \in Groups!NonFirst(E[r])
  BY <1>5, <1>13, <1>14, NonFirstIs
<1>16. At(c, i + 1) \in Nodes(E[r]) \cup {None}
  BY <1>3, <1>5, <1>6, <1>8, <1>10
<1>17. CASE reply' = <<"Keep", n, e.call>> /\ world' = v /\ GoOn("Tail", after)
  <2>1. World(world', E, {})
    BY <1>13, <1>17
  <2>2. Grouped' = g.to
    BY <1>11, <2>1, GroupedThen
  <2>3. visit'.op = "Tail" /\ visit'.at = after /\ Groups!GoOn("Tail", TodoIn(world', visit'))
    BY <1>2, <1>17, PlainIs, Going
  <2>4. TodoIn(world', visit') = Groups!From(E[r], Groups!Rest)
    <3>1. TodoIn(world', visit') = Walk(v.nexts, after)
      BY <1>17, <2>3, VisitInIs
    <3>2. Walk(v.nexts, At(c, i + 1)) = Groups!From(E[r], SubSeq(c, i + 1, Len(c)))
      BY <1>5, <1>13, <1>16, GoesFrom
    <3> QED BY <3>1, <3>2, <1>4, <1>6
  <2>5. Groups!GoOn("Tail", Groups!From(g.to.list[Visited.root], Groups!Rest))
    BY <1>13, <2>3, <2>4
  <2>6. reply' = <<"Keep", Groups!Seen, g.call>>
    BY <1>11, <1>13, <1>17
  <2> QED BY <1>2, <1>11, <2>2, <2>5, <2>6 DEF Groups!FilterRest
<1>18. CASE v.prevs[n] = None /\ world' = v /\ End("InvalidTraversal")
  <2>1. World(world', E, {})
    BY <1>13, <1>18
  <2>2. Grouped' = g.to
    BY <1>11, <2>1, GroupedThen
  <2>3. Groups!End("InvalidTraversal")
    BY <1>2, <1>18, IdleThen DEF Groups!End, End
  <2>4. Groups!Seen \notin Groups!NonFirst(g.to.list[Visited.root])
    BY <1>13, <1>15, <1>18
  <2> QED BY <1>2, <1>11, <2>2, <2>3, <2>4 DEF Groups!FilterRest
<1>19. CASE /\ v.prevs[n] # None
            /\ \E d \in Edits(Removed(v, r, n), {after}) :
                 /\ reply' = <<"Drop", n, e.call, n, d.call>>
                 /\ world' = d.to /\ GoOn("Tail", after)
  <2>1. PICK u : u = Removed(v, r, n)
    OBVIOUS
  <2>2. PICK F : /\ World(u, F, {}) /\ Groups!Removed(Grp(E), r, n) = Grp(F)
                 /\ \A m \in Nodes(E[r]) : m # n => m \in Nodes(F[r])
    <3>1. World(v, E, {}) /\ r \in Root /\ n \in Nodes(E[r])
      BY <1>5, <1>13, <1>14, <1>19
    <3>2. \E F : /\ World(Removed(v, r, n), F, {}) /\ Groups!Removed(Grp(E), r, n) = Grp(F)
                 /\ \A m \in Nodes(E[r]) : m # n => m \in Nodes(F[r])
      BY <3>1, DropBoth
    <3> QED BY <2>1, <3>2
  <2>3. PICK d \in Edits(u, K) : /\ reply' = <<"Drop", n, e.call, n, d.call>>
                                 /\ world' = d.to /\ GoOn("Tail", after)
    BY <1>8, <1>19, <2>1
  <2>4. PICK G : /\ World(d.to, G, {})
                 /\ \A q \in Root : \A m \in Nodes(F[q]) :
                      m \in K \/ d.to.prevs[m] # None => m \in Nodes(G[q])
                 /\ \E f \in Groups!Edits(Grp(F), J) : f.call = d.call /\ f.to = Grp(G)
    <3>1. World(u, F, {}) /\ d \in Edits(u, K)
      BY <2>2, <2>3
    <3>2. \E G : /\ World(d.to, G, {})
                 /\ \A q \in Root : \A m \in Nodes(F[q]) :
                      m \in K \/ d.to.prevs[m] # None => m \in Nodes(G[q])
                 /\ \E f \in Groups!Edits(Grp(F), J) : f.call = d.call /\ f.to = Grp(G)
      BY <3>1, <1>9, EditPlain
    <3> QED BY <3>2
  <2>5. PICK f \in Groups!Edits(Grp(F), J) : f.call = d.call /\ f.to = Grp(G)
    BY <2>4
  <2>6. PICK x : x = d.to
    OBVIOUS
  <2>7. World(x, G, {}) /\ World(world', G, {}) /\ world' = x
    BY <2>3, <2>4, <2>6
  <2>8. Grouped' = f.to
    BY <2>5, <2>7, GroupedThen
  <2>9. visit'.op = "Tail" /\ visit'.at = after /\ Groups!GoOn("Tail", TodoIn(world', visit'))
    BY <1>2, <2>3, PlainIs, Going
  <2>10. At(c, i + 1) \in Nodes(G[r]) \cup {None}
    BY <1>5, <1>6, <1>8, <1>16, <2>2, <2>4
  <2>11. TodoIn(world', visit') = Groups!From(G[r], Groups!Rest)
    <3>1. TodoIn(world', visit') = Walk(x.nexts, after)
      BY <2>7, <2>9, VisitInIs
    <3>2. Walk(x.nexts, At(c, i + 1)) = Groups!From(G[r], SubSeq(c, i + 1, Len(c)))
      BY <1>5, <2>7, <2>10, GoesFrom
    <3> QED BY <3>1, <3>2, <1>4, <1>6
  <2>12. f.to.list[Visited.root] = G[r]
    BY <1>5, <1>13, <2>5, GrpParts
  <2>13. Groups!GoOn("Tail", Groups!From(f.to.list[Visited.root], Groups!Rest))
    BY <2>9, <2>11, <2>12
  <2>14. f \in Groups!Edits(Groups!Removed(g.to, Visited.root, Groups!Seen), Groups!First(Groups!Rest))
    BY <1>8, <1>11, <1>13, <2>2, <2>5
  <2>15. reply' = <<"Drop", Groups!Seen, g.call, Groups!Seen, f.call>>
    BY <1>11, <1>13, <2>3, <2>5
  <2>16. Groups!Seen \in Groups!NonFirst(g.to.list[Visited.root])
    BY <1>13, <1>15, <1>19
  <2> QED BY <1>2, <1>11, <2>8, <2>13, <2>14, <2>15, <2>16 DEF Groups!FilterRest
<1> QED BY <1>7, <1>12, <1>17, <1>18, <1>19

(* What a clear sees first, and what it leaves for later.                  *)
LEMMA SeenLast ==
  ASSUME NEW y \in Seq(Node), y # <<>>, NEW h \in Node
  PROVE  /\ y \o <<h>> # <<>> /\ (y \o <<h>>)[1] = y[1]
         /\ Tail(y \o <<h>>) = Tail(y) \o <<h>>
         /\ Nodes(Tail(y) \o <<h>>) = Nodes(Tail(y)) \cup {h} /\ Tail(y) \o <<h>> # <<>>
<1>1. PICK n \in Nat : n = Len(y) /\ n # 0
  OBVIOUS
<1>2. PICK z, t, u : z = Tail(y) /\ t = y \o <<h>> /\ u = z \o <<h>>
  OBVIOUS
<1>3. t \in Seq(Node) /\ Len(t) = n + 1 /\ \A k \in 1 .. n + 1 : t[k] = IF k = n + 1 THEN h ELSE y[k]
  BY <1>1, <1>2
<1>4. z \in Seq(Node) /\ Len(z) = n - 1 /\ \A k \in 1 .. n - 1 : z[k] = y[k + 1]
  BY <1>1, <1>2
<1>5. u \in Seq(Node) /\ Len(u) = n /\ \A k \in 1 .. n : u[k] = IF k = n THEN h ELSE z[k]
  BY <1>1, <1>2, <1>4
<1>6. t # <<>> /\ t[1] = y[1] /\ u # <<>>
  BY <1>1, <1>3, <1>5
<1>7. Tail(t) = u
  <2>1. Tail(t) \in Seq(Node) /\ Len(Tail(t)) = n /\ \A k \in 1 .. n : Tail(t)[k] = t[k + 1]
    BY <1>1, <1>3, <1>6
  <2>2. ASSUME NEW k \in 1 .. n PROVE Tail(t)[k] = u[k]
    <3>1. k + 1 \in 1 .. n + 1 /\ (k + 1 = n + 1 <=> k = n) /\ (k # n => k \in 1 .. n - 1)
      BY <1>1
    <3> QED BY <3>1, <2>1, <1>3, <1>4, <1>5
  <2> QED BY <2>1, <2>2, <1>5
<1>8. Nodes(u) = Nodes(z) \cup {h}
  <2>1. ASSUME NEW m \in Nodes(u) PROVE m \in Nodes(z) \cup {h}
    <3>1. PICK k \in 1 .. n : m = u[k]
      BY <1>5, NodesOf
    <3>2. k = n \/ k \in 1 .. n - 1
      BY <1>1
    <3>3. CASE k = n
      BY <3>1, <3>3, <1>5
    <3>4. CASE k \in 1 .. n - 1
      <4>1. k # n
        BY <3>4, <1>1
      <4>2. m = z[k]
        BY <3>1, <4>1, <1>5
      <4>3. z[k] \in Nodes(z)
        BY <3>4, <1>4, NodesOf
      <4> QED BY <4>2, <4>3
    <3> QED BY <3>2, <3>3, <3>4
  <2>2. ASSUME NEW m \in Nodes(z) PROVE m \in Nodes(u)
    <3>1. PICK k \in 1 .. n - 1 : m = z[k]
      BY <1>4, NodesOf
    <3>2. k \in 1 .. n /\ k # n
      BY <1>1
    <3> QED BY <3>1, <3>2, <1>5, NodesOf
  <2>3. h \in Nodes(u)
    <3>1. n \in 1 .. n /\ u[n] = h
      BY <1>1, <1>5
    <3> QED BY <3>1, <1>5, NodesOf
  <2> QED BY <2>1, <2>2, <2>3
<1> QED BY <1>2, <1>6, <1>7, <1>8

LEMMA AbstractClearRest == ListsSound /\ ClearRest => Groups!VisitCleared
<1> SUFFICES ASSUME ListsSound, ClearRest PROVE Groups!VisitCleared
  OBVIOUS
<1>1. PICK w, n, a, h, y, z, C, X, Z, bare : ClearsRest(w, n, a, h, y, z, C, X, Z, bare)
  BY ClearRestIs
<1>2. /\ w = world /\ n = visit.at /\ a = w.nexts /\ h = visit.head
      /\ visit \in [op : {"Clear"}, root : Root, at : Node \cup {None}, fuel : Nat, head : Node]
      /\ World(w, C, X) /\ w.nexts \in Links /\ visit.fuel > 0
      /\ Chained(a, n, y) /\ h \in Node
      /\ y # <<>> /\ y[1] = n /\ y \in Seq(Node) /\ z = Tail(y)
      /\ z \in Seq(Node) /\ Nodes(z) = Nodes(y) \ {n} /\ n \in Node
      /\ Chained(a, a[n], z) /\ Z = Nodes(z) \cup {h}
      /\ World(bare, C, Z)
  BY <1>1 DEF ClearsRest
<1>3. \A m \in Node : m # n => bare.nexts[m] = a[m]
  BY <1>1 DEF ClearsRest
<1>4. PICK e \in Edits(bare, Z) :
        /\ reply' = <<"Cleared", n, e.call>> /\ world' = e.to /\ GoOn("Clear", a[n])
  BY <1>1 DEF ClearsRest
<1>5. visit.op = "Clear" /\ visit.op # "Idle"
      /\ visit \in [op : {"Clear"}, root : Root, at : Node \cup {None}, fuel : Nat,
                    head : Node \cup {None}]
  BY <1>2
<1>6. /\ Visited # Groups!Idle /\ Visited.op = "Clear" /\ Visited.fuel = visit.fuel
      /\ Visited.todo = y \o <<h>>
  <2>1. /\ VisitIn(world, visit) = [op |-> visit.op, root |-> visit.root, fuel |-> visit.fuel,
                                    todo |-> TodoIn(world, visit)]
        /\ VisitIn(world, visit) # Groups!Idle
        /\ TodoIn(world, visit) = Walk(world.nexts, visit.at) \o <<visit.head>>
    BY <1>5, VisitInIs
  <2>2. Walk(a, n) = y
    BY <1>2, WalkIs
  <2> QED BY <1>2, <1>5, <2>1, <2>2, VisitedIs
<1>7. /\ y \o <<h>> # <<>> /\ (y \o <<h>>)[1] = n
      /\ Tail(y \o <<h>>) = z \o <<h>>
      /\ Nodes(z \o <<h>>) = Z /\ z \o <<h>> # <<>>
  BY <1>2, SeenLast
<1>8. /\ Groups!Visiting({"Clear"}) /\ Groups!Seen = n /\ Groups!Rest = z \o <<h>>
  BY <1>2, <1>6, <1>7 DEF Groups!Visiting, Groups!Seen, Groups!Rest
<1>9. PICK J, K, W : J = Groups!Nodes(Groups!Rest) /\ K = Z /\ W = Z
  OBVIOUS
<1>10. \A m \in Node : m \in J => m \in K
  BY <1>7, <1>8, <1>9, AbstractNodes
<1>11. PICK E : /\ World(e.to, E, W) /\ SameLinks(e.to, bare, W)
                /\ \E g \in Groups!Edits(Grp(C), J) : g.call = e.call /\ g.to = Grp(E)
  <2>1. World(bare, C, W) /\ W \subseteq K /\ e \in Edits(bare, K)
    BY <1>2, <1>9
  <2>2. \E E : /\ World(e.to, E, W) /\ SameLinks(e.to, bare, W)
               /\ \A r \in Root : \A m \in Nodes(C[r]) :
                    m \in K \/ e.to.prevs[m] # None => m \in Nodes(E[r])
               /\ \E g \in Groups!Edits(Grp(C), J) : g.call = e.call /\ g.to = Grp(E)
    BY <2>1, <1>10, EditBoth
  <2> QED BY <2>2
<1>12. Grouped = Grp(C)
  BY <1>2, GroupedIs
<1>13. PICK g \in Groups!Edits(Grouped, Groups!Nodes(Groups!Rest)) : g.call = e.call /\ g.to = Grp(E)
  BY <1>9, <1>11, <1>12
<1>14. Grouped' = g.to
  <2>1. World(world', E, W)
    BY <1>4, <1>11
  <2> QED BY <1>13, <2>1, GroupedThen
<1>15. PICK v, b : v = e.to /\ b = v.nexts
  OBVIOUS
<1>16. World(v, E, W) /\ b \in Links
  BY <1>11, <1>15, WorldParts
<1>17. Walk(b, a[n]) = z
  <2>1. \A m \in Nodes(z) : m \in Node /\ m # n /\ m \in W
    BY <1>2, <1>9, NodesOf
  <2>2. \A m \in W : v.nexts[m] = bare.nexts[m]
    BY <1>11, <1>15 DEF SameLinks
  <2>3. \A m \in Nodes(z) : b[m] = a[m]
    BY <1>3, <1>15, <2>1, <2>2
  <2>4. Chained(b, a[n], z)
    BY <1>2, <2>3, ChainFrame
  <2> QED BY <1>16, <2>4, WalkIs
<1>18. PICK at : at = a[n]
  OBVIOUS
<1>19. /\ visit'.op = "Clear" /\ visit'.at = at /\ visit'.head = h
       /\ Groups!GoOn("Clear", TodoIn(world', visit'))
  <2>1. GoOn("Clear", at)
    BY <1>4, <1>18
  <2> QED BY <1>2, <1>5, <2>1, Going
<1>20. TodoIn(world', visit') = z \o <<h>>
  <2>1. visit'.op # "Idle"
    BY <1>19
  <2>2. TodoIn(world', visit') = Walk(world'.nexts, visit'.at) \o <<visit'.head>>
    BY <1>19, <2>1, VisitInIs
  <2> QED BY <1>4, <1>15, <1>17, <1>18, <1>19, <2>2
<1>21. Groups!Rest # <<>> /\ Groups!GoOn("Clear", Groups!Rest)
  BY <1>7, <1>8, <1>19, <1>20
<1>22. reply' = <<"Cleared", Groups!Seen, g.call>>
  BY <1>4, <1>8, <1>13
<1> QED BY <1>8, <1>13, <1>14, <1>21, <1>22 DEF Groups!VisitCleared

LEMMA AbstractClearFirst == ListsSound /\ ClearFirst => Groups!VisitCleared
<1> SUFFICES ASSUME ListsSound, ClearFirst PROVE Groups!VisitCleared
  OBVIOUS
<1>1. PICK w, a, h, C, X, bare : ClearsFirst(w, a, h, C, X, bare)
  BY ClearFirstIs
<1>2. /\ World(w, C, X) /\ w = world /\ h = visit.head /\ a = w.nexts /\ a \in Links /\ h \in Node
      /\ World(bare, C, {})
  BY <1>1 DEF ClearsFirst
<1>3. PICK e \in Edits(bare, {}) :
        /\ reply' = <<"Cleared", h, e.call>> /\ world' = e.to /\ visit' = Idle
  BY <1>1 DEF ClearsFirst
<1>4. visit.op = "Clear" /\ visit.op # "Idle" /\ visit.at = None /\ visit.fuel > 0
  BY DEF ClearFirst
<1>5. /\ Visited # Groups!Idle /\ Visited.op = "Clear" /\ Visited.fuel = visit.fuel
      /\ Visited.todo = <<h>>
  <2>1. /\ VisitIn(world, visit) = [op |-> visit.op, root |-> visit.root, fuel |-> visit.fuel,
                                    todo |-> TodoIn(world, visit)]
        /\ VisitIn(world, visit) # Groups!Idle
        /\ TodoIn(world, visit) = Walk(world.nexts, visit.at) \o <<visit.head>>
    BY <1>4, VisitInIs
  <2>2. Walk(a, None) = <<>>
    BY <1>2, WalkNowhere
  <2>3. <<>> \o <<h>> = <<h>>
    OBVIOUS
  <2> QED BY <1>2, <1>4, <2>1, <2>2, <2>3, VisitedIs
<1>6. <<h>> # <<>> /\ <<h>>[1] = h /\ Tail(<<h>>) = <<>>
  OBVIOUS
<1>7. Groups!Visiting({"Clear"}) /\ Groups!Seen = h /\ Groups!Rest = <<>>
  BY <1>4, <1>5, <1>6 DEF Groups!Visiting, Groups!Seen, Groups!Rest
<1>8. PICK J, K : J = Groups!Nodes(Groups!Rest) /\ K = {}
  OBVIOUS
<1>9. \A m \in Node : m \in J => m \in K
  BY <1>7, <1>8 DEF Groups!Nodes
<1>10. PICK E : /\ World(e.to, E, {})
                /\ \E g \in Groups!Edits(Grp(C), J) : g.call = e.call /\ g.to = Grp(E)
  <2>1. World(bare, C, {}) /\ e \in Edits(bare, K)
    BY <1>2, <1>8
  <2>2. \E E : /\ World(e.to, E, {})
               /\ \A r \in Root : \A m \in Nodes(C[r]) :
                    m \in K \/ e.to.prevs[m] # None => m \in Nodes(E[r])
               /\ \E g \in Groups!Edits(Grp(C), J) : g.call = e.call /\ g.to = Grp(E)
    BY <2>1, <1>9, EditPlain
  <2> QED BY <2>2
<1>11. Grouped = Grp(C)
  BY <1>2, GroupedIs
<1>12. PICK g \in Groups!Edits(Grouped, Groups!Nodes(Groups!Rest)) : g.call = e.call /\ g.to = Grp(E)
  BY <1>8, <1>10, <1>11
<1>13. Grouped' = g.to
  <2>1. World(world', E, {})
    BY <1>3, <1>10
  <2> QED BY <1>12, <2>1, GroupedThen
<1>14. reply' = <<"Cleared", Groups!Seen, g.call>>
  BY <1>3, <1>7, <1>12
<1>15. Visited' = Groups!Idle
  BY <1>3, IdleThen
<1> QED BY <1>7, <1>12, <1>13, <1>14, <1>15 DEF Groups!VisitCleared

-----------------------------------------------------------------------------
(* Calls, and the starts and ends of traversals, are those of the groups.  *)

LEMMA IdleWorld ==
  ASSUME ListsSound, visit = Idle
  PROVE  \E C : World(world, C, {}) /\ Grouped = Grp(C) /\ Visited = Groups!Idle
<1>1. PICK C, X, y : World(world, C, X) /\ Travels(world, visit, C, X, y)
  BY DEF ListsSound
<1>2. X = {}
  BY <1>1, SoundIs
<1>3. World(world, C, {})
  BY <1>1, <1>2
<1>4. Grouped = Grp(C)
  BY <1>3, GroupedIs
<1>5. Visited = Groups!Idle
  BY VisitedIs DEF VisitIn, Groups!Idle
<1> QED BY <1>3, <1>4, <1>5

LEMMA AbstractCall == Call => Groups!Call
<1>1. visit = Idle => Visited = Groups!Idle
  BY VisitedIs DEF VisitIn, Groups!Idle
<1> QED BY <1>1, IdleThen DEF Call, Groups!Call

LEMMA GroupsStay == world' = world => Grouped' = Grouped
BY DEF Grouped

LEMMA AbstractEditCall == ListsSound /\ EditCall => Groups!EditCall
<1> SUFFICES ASSUME ListsSound, EditCall PROVE Groups!EditCall
  OBVIOUS
<1>1. PICK w, K : w = world /\ K = {}
  OBVIOUS
<1>2. PICK e \in Edits(w, K) : Call /\ reply' = <<"Edit", e.call>> /\ world' = e.to
  BY <1>1 DEF EditCall
<1>3. PICK C : World(world, C, {}) /\ Grouped = Grp(C)
  <2>1. visit = Idle
    BY <1>2 DEF Call
  <2> QED BY <2>1, IdleWorld
<1>4. PICK J : J = {}
  OBVIOUS
<1>5. \A m \in Node : m \in J => m \in K
  BY <1>4
<1>6. PICK E : /\ World(e.to, E, {})
               /\ \E g \in Groups!Edits(Grp(C), J) : g.call = e.call /\ g.to = Grp(E)
  <2>1. World(w, C, {}) /\ e \in Edits(w, K)
    BY <1>1, <1>3
  <2>2. \E E : /\ World(e.to, E, {})
               /\ \A r \in Root : \A m \in Nodes(C[r]) :
                    m \in K \/ e.to.prevs[m] # None => m \in Nodes(E[r])
               /\ \E g \in Groups!Edits(Grp(C), J) : g.call = e.call /\ g.to = Grp(E)
    BY <2>1, <1>5, EditPlain
  <2> QED BY <2>2
<1>7. PICK g \in Groups!Edits(Grouped, {}) : g.call = e.call /\ g.to = Grp(E)
  BY <1>3, <1>4, <1>6
<1>8. Grouped' = g.to
  <2>1. World(world', E, {})
    BY <1>2, <1>6
  <2> QED BY <1>7, <2>1, GroupedThen
<1>9. reply' = <<"Edit", g.call>>
  BY <1>2, <1>7
<1>10. Groups!Call
  BY <1>2, AbstractCall
<1> QED BY <1>7, <1>8, <1>9, <1>10 DEF Groups!EditCall

(* Nodes of no group, told by the application.                             *)
LEMMA AbstractMade ==
  ASSUME NEW C, World(world, C, {}), Grouped = Grp(C), NEW k \in 0 .. MaxBound,
         NEW s \in [1 .. k -> Node], Made(s)
  PROVE  Groups!IsInjective(s) /\ Groups!Nodes(s) \subseteq Groups!Detached(Grouped)
<1>1. s \in Seq(Node) /\ IsInjective(s) /\ Nodes(s) \subseteq Loose(C, {})
  BY MadeIs
<1>2. Groups!IsInjective(s)
  BY <1>1 DEF Groups!IsInjective, IsInjective
<1>3. \A n \in Nodes(s) : n \in Groups!Detached(Grp(C))
  BY <1>1, AbstractDetached DEF Loose
<1>4. Groups!Nodes(s) = Nodes(s)
  BY AbstractNodes
<1> QED BY <1>2, <1>3, <1>4

LEMMA AbstractBuild ==
  ASSUME ListsSound, NEW k \in 0 .. MaxBound, NEW s \in [1 .. k -> Node], NEW r \in Root, Build(r, s)
  PROVE  Groups!Build(r, s)
<1>1. /\ Call /\ Made(s) /\ world.heads[r] = None /\ reply' = <<"Build", r, s>>
      /\ world' = IF s = <<>> THEN world ELSE [Built(world, s) EXCEPT !.heads[r] = s[1]]
  BY DEF Build
<1>2. PICK C : World(world, C, {}) /\ Grouped = Grp(C)
  BY <1>1, IdleWorld DEF Call
<1>3. s \in Seq(Node) /\ IsInjective(s) /\ Nodes(s) \subseteq Loose(C, {})
  BY <1>1, <1>2, MadeIs
<1>4. PICK w : w = world
  OBVIOUS
<1>5. World(w, C, {}) /\ w.heads[r] = None /\ C[r] = <<>> /\ C \in [Place -> Seq(Node)] /\ r \in Place
  <2>1. World(w, C, {}) /\ w.heads[r] = None
    BY <1>1, <1>2, <1>4
  <2>2. w.heads[r] = None <=> C[r] = <<>>
    BY <2>1, Neighbours
  <2> QED BY <2>1, <2>2, WorldParts, Places
<1>6. PICK E : E = [C EXCEPT ![r] = s]
  OBVIOUS
<1>7. World(world', E, {})
  <2>1. CASE s = <<>>
    <3>1. E = C
      BY <2>1, <1>5, <1>6
    <3> QED BY <3>1, <2>1, <1>1, <1>2
  <2>2. CASE s # <<>>
    <3>1. World([Built(w, s) EXCEPT !.heads[r] = s[1]], [C EXCEPT ![r] = s], {})
      BY <1>3, <1>5, <2>2, Building
    <3> QED BY <3>1, <2>2, <1>1, <1>4, <1>6
  <2> QED BY <2>1, <2>2
<1>8. Grouped' = Grp(E)
  BY <1>7, GroupedThen
<1>9. Grp([C EXCEPT ![r] = s]) = [Grp(C) EXCEPT !.list[r] = s]
  BY <1>5, GrpChanges, ZenonT(40)
<1>10. Grouped' = [Grouped EXCEPT !.list[r] = s]
  BY <1>2, <1>6, <1>8, <1>9
<1>11. Grouped.list[r] = <<>>
  BY <1>2, <1>5, GrpParts
<1>12. Groups!IsInjective(s) /\ Groups!Nodes(s) \subseteq Groups!Detached(Grouped)
  BY <1>1, <1>2, AbstractMade
<1> QED BY <1>1, <1>10, <1>11, <1>12, AbstractCall DEF Groups!Build

LEMMA AbstractPoolNew ==
  ASSUME ListsSound, NEW k \in 0 .. MaxBound, NEW s \in [1 .. k -> Node], PoolNew(s)
  PROVE  Groups!NewPool(s)
<1>1. /\ Call /\ Made(s) /\ s # <<>> /\ world.pool.head = None /\ reply' = <<"PoolNew", s>>
      /\ world' = PoolGrown(world, s)
  BY DEF PoolNew
<1>2. PICK C : World(world, C, {}) /\ Grouped = Grp(C)
  BY <1>1, IdleWorld DEF Call
<1>3. s \in Seq(Node) /\ IsInjective(s) /\ Nodes(s) \subseteq Loose(C, {})
  BY <1>1, <1>2, MadeIs
<1>4. PICK w, d : w = world /\ d = Reverse(s)
  OBVIOUS
<1>5. World(w, C, {}) /\ w.pool.head = None
  BY <1>1, <1>2, <1>4
<1>6. C[None] = <<>> /\ C \in [Place -> Seq(Node)]
  BY <1>5, Making, WorldParts
<1>7. World(world', [C EXCEPT ![None] = d], {})
  <2>1. World(PoolGrown(w, s), [C EXCEPT ![None] = Reverse(s)], {})
    BY <1>1, <1>3, <1>5, Growing
  <2> QED BY <1>1, <1>4, <2>1
<1>8. Grouped' = Grp([C EXCEPT ![None] = d])
  BY <1>7, GroupedThen
<1>9. Grp([C EXCEPT ![None] = d]) = [Grp(C) EXCEPT !.pool = d]
  BY <1>6, GrpPoolChanges
<1>10. Groups!Reverse(s) = d
  BY <1>4, AbstractReverse
<1>11. Grouped' = [Grouped EXCEPT !.pool = Groups!Reverse(s)]
  BY <1>2, <1>8, <1>9, <1>10
<1>12. Grouped.pool = <<>>
  BY <1>2, <1>6, GrpParts
<1>13. Groups!IsInjective(s) /\ Groups!Nodes(s) \subseteq Groups!Detached(Grouped)
  BY <1>1, <1>2, AbstractMade
<1> QED BY <1>1, <1>11, <1>12, <1>13, AbstractCall DEF Groups!NewPool

LEMMA AbstractQuery ==
  ASSUME ListsSound, NEW r \in Root, Query(r)
  PROVE  Groups!Query(r)
<1>1. PICK w, h : w = world /\ h = w.heads[r]
  OBVIOUS
<1>2. Call /\ world' = world /\ reply' = <<"Query", h = None, h # None /\ w.nexts[h] # None>>
  BY <1>1 DEF Query
<1>3. PICK C : World(world, C, {}) /\ Grouped = Grp(C)
  <2>1. visit = Idle
    BY <1>2 DEF Call
  <2> QED BY <2>1, IdleWorld
<1>4. PICK a, c : a = w.nexts /\ c = C[r]
  OBVIOUS
<1>5. Chained(a, h, c) /\ c \in Seq(Node) /\ (h = None <=> c = <<>>) /\ Grouped.list[r] = c
  <2>1. World(w, C, {})
    BY <1>1, <1>3
  <2> QED BY <2>1, <1>1, <1>3, <1>4, WorldParts, Neighbours, GrpParts
<1>6. h # None /\ a[h] # None <=> Len(c) >= 2
  <2>1. Len(c) \in Nat /\ (c = <<>> <=> Len(c) = 0)
    BY <1>5
  <2>2. CASE c = <<>>
    BY <2>1, <2>2, <1>5
  <2>3. CASE c # <<>>
    <3>1. 1 \in 1 .. Len(c) /\ h = c[1]
      <4>1. h = c[1]
        BY <2>3, <1>5, ChainTail
      <4> QED BY <4>1, <2>1, <2>3
    <3>2. a[c[1]] = At(c, 1 + 1)
      BY <3>1, <1>5 DEF Chained
    <3>3. a[h] # None <=> 2 \in 1 .. Len(c)
      BY <3>1, <3>2, <1>5, AtIs
    <3> QED BY <3>1, <3>3, <2>1, <2>3, <1>5
  <2> QED BY <2>2, <2>3
<1>7. /\ (h = None) = (Grouped.list[r] = <<>>)
      /\ (h # None /\ w.nexts[h] # None) = (Len(Grouped.list[r]) >= 2)
  BY <1>4, <1>5, <1>6
<1>8. reply' = <<"Query", Grouped.list[r] = <<>>, Len(Grouped.list[r]) >= 2>>
  BY ONLY <1>2, <1>7
<1>9. Grouped' = Grouped
  BY <1>2, GroupsStay
<1> QED BY <1>2, <1>8, <1>9, AbstractCall DEF Groups!Query

(* The start of a traversal, with what it will go over.                    *)
LEMMA AbstractStart ==
  ASSUME NEW op, op # "Idle", NEW r, NEW at, NEW fuel, NEW head, Started(op, r, at, fuel, head),
         NEW todo, todo = TodoIn(world', [op |-> op, root |-> r, at |-> at, fuel |-> fuel, head |-> head])
  PROVE  /\ Visited = Groups!Idle
         /\ Visited' = [op |-> op, root |-> r, fuel |-> fuel, todo |-> todo]
         /\ reply' = <<"Begin", op>>
<1>1. PICK v : v = [op |-> op, root |-> r, at |-> at, fuel |-> fuel, head |-> head]
  OBVIOUS
<1>2. visit = Idle /\ visit' = v /\ reply' = <<"Begin", op>>
  BY <1>1 DEF Started
<1>3. v.op = op /\ v.root = r /\ v.fuel = fuel /\ v.op # "Idle"
  BY <1>1
<1>4. VisitIn(world', v) = [op |-> op, root |-> r, fuel |-> fuel, todo |-> todo]
  BY <1>1, <1>3, VisitInIs
<1>5. Visited = Groups!Idle
  BY <1>2, VisitedIs DEF VisitIn, Groups!Idle
<1> QED BY <1>2, <1>4, <1>5, VisitedIs

LEMMA AbstractBegin ==
  ASSUME ListsSound, NEW op \in {"ForEach", "Find", "Count", "Prefix"},
         NEW r \in Root, NEW fuel, Begin(op, r, fuel)
  PROVE  Groups!Begin(op, r, fuel)
<1>1. PICK w, h : w = world /\ h = w.heads[r]
  OBVIOUS
<1>2. Started(op, r, h, fuel, None) /\ world' = w /\ world' = world
  BY <1>1 DEF Begin
<1>3. PICK C : World(world, C, {}) /\ Grouped = Grp(C)
  <2>1. visit = Idle
    BY <1>2 DEF Started
  <2> QED BY <2>1, IdleWorld
<1>4. Grouped.list[r] = C[r] /\ Walk(w.nexts, h) = C[r]
  <2>1. World(w, C, {})
    BY <1>1, <1>3
  <2>2. Chain(w, r) = C[r]
    BY <2>1, WorldWalks
  <2> QED BY <1>1, <1>3, <2>2, GrpParts DEF Chain
<1>5. PICK v : v = [op |-> op, root |-> r, at |-> h, fuel |-> fuel, head |-> None]
  OBVIOUS
<1>6. v.op = op /\ v.at = h /\ op # "Idle" /\ op \in {"ForEach", "Find", "Count", "Prefix", "Tail"}
  BY <1>5
<1>7. TodoIn(world', v) = C[r]
  BY <1>2, <1>4, <1>6, VisitInIs
<1>8. PICK todo : todo = C[r]
  OBVIOUS
<1>9. todo = TodoIn(world', [op |-> op, root |-> r, at |-> h, fuel |-> fuel, head |-> None])
  BY <1>5, <1>7, <1>8
<1>10. /\ Visited = Groups!Idle
       /\ Visited' = [op |-> op, root |-> r, fuel |-> fuel, todo |-> todo]
       /\ reply' = <<"Begin", op>>
  BY <1>2, <1>6, <1>9, AbstractStart
<1>11. Grouped' = Grouped
  BY <1>2, GroupsStay
<1> QED BY <1>4, <1>8, <1>10, <1>11 DEF Groups!Begin

LEMMA FitsIs ==
  ASSUME NEW C, World(world, C, {}), Grouped = Grp(C), NEW r \in Root, NEW fuel \in 0 .. MaxBound
  PROVE  /\ Fits(r, fuel) <=> Len(Grouped.list[r]) <= fuel
         /\ ~ Fits(r, fuel) <=> Len(Grouped.list[r]) > fuel
<1>1. PICK w : w = world
  OBVIOUS
<1>2. World(w, C, {})
  BY <1>1
<1>3. Chain(w, r) = C[r] /\ C[r] \in Seq(Node)
  BY <1>2, WorldWalks, WorldParts
<1>4. Grouped.list[r] = C[r]
  BY GrpParts
<1>5. Len(C[r]) \in Nat /\ fuel \in Nat
  BY <1>3, IntrusiveListAssumption
<1> QED BY <1>1, <1>3, <1>4, <1>5 DEF Fits

LEMMA AbstractRefused ==
  ASSUME ListsSound, NEW op, NEW r \in Root, NEW fuel \in 0 .. MaxBound, Refused(op, r, fuel)
  PROVE  Groups!Refused(op, r, fuel)
<1>1. Call /\ ~ Fits(r, fuel) /\ reply' = <<"End", op, "LimitExceeded">> /\ world' = world
  BY DEF Refused
<1>2. PICK C : World(world, C, {}) /\ Grouped = Grp(C)
  <2>1. visit = Idle
    BY <1>1 DEF Call
  <2> QED BY <2>1, IdleWorld
<1>3. Len(Grouped.list[r]) > fuel
  BY <1>1, <1>2, FitsIs
<1>4. Grouped' = Grouped
  BY <1>1, GroupsStay
<1> QED BY <1>1, <1>3, <1>4, AbstractCall DEF Groups!Refused

LEMMA AbstractBeginMap ==
  ASSUME ListsSound, NEW r \in Root, NEW fuel \in 0 .. MaxBound, BeginMap(r, fuel)
  PROVE  Groups!BeginMap(r, fuel)
<1>1. PICK at : at = IF Chain(world, r) = <<>> THEN None ELSE Last(Chain(world, r))
  OBVIOUS
<1>2. Fits(r, fuel) /\ Started("Map", r, at, fuel, None) /\ world' = world
  BY <1>1 DEF BeginMap
<1>3. PICK C : World(world, C, {}) /\ Grouped = Grp(C)
  <2>1. visit = Idle
    BY <1>2 DEF Started
  <2> QED BY <2>1, IdleWorld
<1>4. PICK w, c, b : w = world /\ c = C[r] /\ b = w.prevs
  OBVIOUS
<1>5. World(w, C, {}) /\ r \in Place
  BY <1>3, <1>4, Places
<1>6. /\ b \in Links /\ c \in Seq(Node) /\ BackChained(b, c) /\ Chain(w, r) = c
      /\ \A j, k \in 1 .. Len(c) : c[j] = c[k] => j = k
  BY <1>4, <1>5, WorldParts, WorldWalks
<1>7. at = At(c, Len(c)) /\ Len(c) \in 0 .. Len(c)
  <2>1. Len(c) \in Nat /\ (c = <<>> <=> Len(c) = 0)
    BY <1>6
  <2>2. CASE c = <<>>
    BY <2>1, <2>2, <1>1, <1>4, <1>6 DEF At
  <2>3. CASE c # <<>>
    <3>1. Last(c) = c[Len(c)] /\ Len(c) \in 1 .. Len(c)
      BY <2>1, <2>3 DEF Last
    <3> QED BY <2>1, <2>3, <3>1, <1>1, <1>4, <1>6 DEF At
  <2> QED BY <2>2, <2>3
<1>8. Walk(b, at) = Reverse(c)
  <2>1. Walk(b, At(c, Len(c))) = Reverse(SubSeq(c, 1, Len(c)))
    BY <1>6, <1>7, WalkBack
  <2>2. SubSeq(c, 1, Len(c)) = c
    BY <1>6
  <2> QED BY <2>1, <2>2, <1>7
<1>9. PICK v, todo : v = [op |-> "Map", root |-> r, at |-> at, fuel |-> fuel, head |-> None]
                     /\ todo = Groups!Reverse(Grouped.list[r])
  OBVIOUS
<1>10. v.op = "Map" /\ v.op # "Idle" /\ v.at = at
  BY <1>9
<1>11. Grouped.list[r] = c
  BY <1>3, <1>4, GrpParts
<1>12. TodoIn(world', v) = todo
  <2>1. TodoIn(world', v) = Walk(world'.prevs, v.at)
    BY <1>10, VisitInIs
  <2> QED BY <2>1, <1>2, <1>4, <1>8, <1>9, <1>10, <1>11, AbstractReverse
<1>13. todo = TodoIn(world', [op |-> "Map", root |-> r, at |-> at, fuel |-> fuel, head |-> None])
  BY <1>9, <1>12
<1>14. PICK op : op = "Map"
  OBVIOUS
<1>15. /\ Visited = Groups!Idle
       /\ Visited' = [op |-> op, root |-> r, fuel |-> fuel, todo |-> todo]
       /\ reply' = <<"Begin", op>>
  <2>1. Started(op, r, at, fuel, None) /\ op # "Idle"
    BY <1>2, <1>14
  <2>2. todo = TodoIn(world', [op |-> op, root |-> r, at |-> at, fuel |-> fuel, head |-> None])
    BY <1>13, <1>14
  <2> QED BY <2>1, <2>2, AbstractStart
<1>16. Len(Grouped.list[r]) <= fuel
  BY <1>2, <1>3, FitsIs
<1>17. Grouped' = Grouped
  BY <1>2, GroupsStay
<1> QED BY <1>9, <1>14, <1>15, <1>16, <1>17 DEF Groups!BeginMap

LEMMA AbstractBeginClear ==
  ASSUME ListsSound, NEW r \in Root, NEW fuel \in 0 .. MaxBound, BeginClear(r, fuel)
  PROVE  Groups!BeginClear(r, fuel)
<1>1. PICK w, h, a : w = world /\ h = w.heads[r] /\ a = w.nexts
  OBVIOUS
<1>2. /\ Fits(r, fuel) /\ world' = [w EXCEPT !.heads[r] = None]
      /\ \/ h = None /\ Call /\ reply' = <<"Begin", "Clear">>
         \/ h # None /\ Started("Clear", r, a[h], fuel, h)
  BY <1>1 DEF BeginClear
<1>3. visit = Idle
  BY <1>2 DEF Call, Started
<1>4. PICK C : World(world, C, {}) /\ Grouped = Grp(C) /\ Visited = Groups!Idle
  BY <1>3, IdleWorld
<1>5. PICK c : c = C[r]
  OBVIOUS
<1>6. World(w, C, {}) /\ r \in Place
  BY <1>1, <1>4, Places
<1>7. /\ Chained(a, h, c) /\ a \in Links /\ c \in Seq(Node) /\ (h = None <=> c = <<>>)
      /\ C \in [Place -> Seq(Node)]
  BY <1>1, <1>5, <1>6, WorldParts, Neighbours
<1>8. Grouped.list[r] = c
  BY <1>4, <1>5, GrpParts
<1>9. PICK E : E = [C EXCEPT ![r] = <<>>]
  OBVIOUS
<1>10. World(world', E, Nodes(c))
  BY <1>2, <1>5, <1>6, <1>9, Emptying
<1>11. Grouped' = [Grouped EXCEPT !.list[r] = <<>>]
  <2>1. Grouped' = Grp(E)
    BY <1>10, GroupedThen
  <2>2. Grp([C EXCEPT ![r] = <<>>]) = [Grp(C) EXCEPT !.list[r] = <<>>]
    <3>1. PICK d : d = <<>>
      OBVIOUS
    <3>2. Grp([C EXCEPT ![r] = d]) = [Grp(C) EXCEPT !.list[r] = d]
      BY <1>7, GrpChanges, ZenonT(40)
    <3> QED BY ONLY <3>1, <3>2
  <2> QED BY <2>1, <2>2, <1>4, <1>9
<1>12. Len(Grouped.list[r]) <= fuel
  BY <1>2, <1>4, FitsIs
<1>13. CASE h = None
  <2>1. Call /\ reply' = <<"Begin", "Clear">>
    BY <1>2, <1>13
  <2>2. Visited' = Groups!Idle /\ c = <<>>
    BY <2>1, <1>7, <1>13, AbstractCall DEF Groups!Call
  <2> QED BY <2>1, <2>2, <1>4, <1>8, <1>11, <1>12 DEF Groups!BeginClear
<1>14. CASE h # None
  <2>1. c # <<>> /\ h = c[1] /\ h \in Node /\ Chained(a, a[h], Tail(c)) /\ Head(c) = h
    <3>1. c # <<>>
      BY <1>7, <1>14
    <3>2. h = c[1] /\ c[1] \in Node /\ Chained(a, a[c[1]], Tail(c))
      BY <3>1, <1>7, ChainTail
    <3>3. Head(c) = c[1]
      BY <3>1, <1>7
    <3> QED BY <3>1, <3>2, <3>3
  <2>2. world'.nexts = a
    <3>1. w \in Worlds
      BY <1>6 DEF World
    <3> QED BY <3>1, <1>1, <1>2 DEF Worlds
  <2>3. Walk(a, a[h]) = Tail(c)
    BY <2>1, <1>7, WalkIs
  <2>4. PICK at, op, todo : at = a[h] /\ op = "Clear" /\ todo = Tail(c) \o <<h>>
    OBVIOUS
  <2>5. PICK v : v = [op |-> op, root |-> r, at |-> at, fuel |-> fuel, head |-> h]
    OBVIOUS
  <2>6. v.op = "Clear" /\ v.op # "Idle" /\ v.at = at /\ v.head = h
    BY <2>4, <2>5
  <2>7. TodoIn(world', v) = todo
    <3>1. TodoIn(world', v) = Walk(world'.nexts, v.at) \o <<v.head>>
      BY <2>6, VisitInIs
    <3> QED BY <3>1, <2>2, <2>3, <2>4, <2>6
  <2>8. /\ Visited' = [op |-> op, root |-> r, fuel |-> fuel, todo |-> todo]
        /\ reply' = <<"Begin", op>>
    <3>1. Started(op, r, at, fuel, h) /\ op # "Idle"
      BY <1>2, <1>14, <2>4
    <3>2. todo = TodoIn(world', [op |-> op, root |-> r, at |-> at, fuel |-> fuel, head |-> h])
      BY <2>5, <2>7
    <3> QED BY <3>1, <3>2, AbstractStart
  <2>9. PICK list : list = Grouped.list[r]
    OBVIOUS
  <2>10. list # <<>> /\ todo = Tail(list) \o <<Head(list)>>
    BY <2>1, <2>4, <2>9, <1>8
  <2> QED BY <2>4, <2>8, <2>9, <2>10, <1>4, <1>11, <1>12 DEF Groups!BeginClear
<1> QED BY <1>13, <1>14

LEMMA AbstractFinish == ListsSound /\ Finish => Groups!Finish
<1> SUFFICES ASSUME ListsSound, Finish PROVE Groups!Finish
  OBVIOUS
<1>1. PICK C, X, y : World(world, C, X) /\ Travels(world, visit, C, X, y)
  BY DEF ListsSound
<1>2. visit # Idle /\ world' = world
  BY DEF Finish
<1>3. (Plain(visit, C) /\ X = {}) \/ Clearing(world, visit, X, y)
  BY <1>1, <1>2, SoundIs
<1>4. \/ visit.op # "Clear" /\ visit.at = None /\ End("Done")
      \/ (visit.op = "Clear" \/ visit.at # None) /\ visit.fuel = 0 /\ End("LimitExceeded")
  BY DEF Finish
<1>5. ASSUME Clearing(world, visit, X, y) PROVE visit.op = "Clear" /\ visit.fuel # 0
  <2>1. visit.op = "Clear" /\ y \in Seq(Node) /\ Len(y) < visit.fuel /\ visit.fuel \in Nat
    BY <1>5 DEF Clearing, Chained
  <2>2. Len(y) \in Nat
    BY <2>1
  <2> QED BY <2>1, <2>2
<1>6. Plain(visit, C) /\ X = {}
  BY <1>3, <1>4, <1>5
<1>7. visit.op # "Idle" /\ visit.op # "Clear" /\ visit.op \in PlainOps /\ visit.root \in Root
      /\ visit.at \in Nodes(C[visit.root]) \cup {None}
  BY <1>6, PlainIs DEF Plain
<1>8. /\ Visited # Groups!Idle /\ Visited.op = visit.op
      /\ Visited.fuel = visit.fuel /\ Visited.todo = TodoIn(world, visit)
  <2>1. /\ VisitIn(world, visit) = [op |-> visit.op, root |-> visit.root, fuel |-> visit.fuel,
                                    todo |-> TodoIn(world, visit)]
        /\ VisitIn(world, visit) # Groups!Idle
    BY <1>7, VisitInIs
  <2> QED BY <2>1, VisitedIs
<1>9. PICK w, r, c, at, nx, pv : /\ w = world /\ r = visit.root /\ c = C[r] /\ at = visit.at
                                 /\ nx = w.nexts /\ pv = w.prevs
  OBVIOUS
<1>10. World(w, C, {}) /\ r \in Root /\ r \in Place
  BY <1>1, <1>6, <1>7, <1>9, Places
<1>11. /\ nx \in Links /\ pv \in Links /\ Chained(nx, w.heads[r], c) /\ BackChained(pv, c)
       /\ c \in Seq(Node) /\ \A j, k \in 1 .. Len(c) : c[j] = c[k] => j = k
  BY <1>9, <1>10, WorldParts
<1>12. TodoIn(world, visit) = IF visit.op = "Map" THEN Walk(pv, at) ELSE Walk(nx, at)
  <2>1. CASE visit.op = "Map"
    BY <2>1, <1>7, <1>9, VisitInIs
  <2>2. CASE visit.op # "Map"
    <3>1. visit.op \in {"ForEach", "Find", "Count", "Prefix", "Tail"}
      BY <2>2, <1>7 DEF PlainOps
    <3> QED BY <3>1, <2>2, <1>7, <1>9, VisitInIs
  <2> QED BY <2>1, <2>2
<1>13. PICK s : s = TodoIn(world, visit)
  OBVIOUS
<1>14. at = None => s = <<>>
  BY <1>11, <1>12, <1>13, WalkNowhere
<1>15. ASSUME at # None PROVE s # <<>>
  <2>1. PICK i \in 1 .. Len(c) : at = c[i]
    BY <1>7, <1>9, <1>11, <1>15, NodesOf
  <2>2. at = At(c, i) /\ i \in 1 .. Len(c) + 1 /\ i \in 0 .. Len(c)
    BY <2>1, <1>11 DEF At
  <2>3. Walk(nx, At(c, i)) = SubSeq(c, i, Len(c))
    BY <1>11, <2>2, WalkFrom
  <2>4. SubSeq(c, i, Len(c)) # <<>>
    BY <1>11, RestIs
  <2>5. Walk(pv, At(c, i)) = Reverse(SubSeq(c, 1, i))
    BY <1>11, <2>2, WalkBack
  <2>6. Reverse(SubSeq(c, 1, i)) # <<>>
    <3>1. PICK p : p = SubSeq(c, 1, i)
      OBVIOUS
    <3>2. i \in Nat /\ i # 0 /\ i <= Len(c)
      BY <1>11
    <3>3. Len(p) = i
      BY <3>1, <3>2, <1>11
    <3>4. Reverse(p) = [k \in 1 .. i |-> p[(i - k) + 1]]
      BY <3>3 DEF Reverse
    <3>5. 1 \in 1 .. i
      BY <3>2
    <3>6. DOMAIN <<>> = {} /\ DOMAIN Reverse(p) = 1 .. i
      BY <3>4
    <3> QED BY <3>1, <3>5, <3>6
  <2> QED BY <2>2, <2>3, <2>4, <2>5, <2>6, <1>12, <1>13
<1>16. Grouped' = Grouped
  BY <1>2, GroupsStay
<1>17. ASSUME NEW answer, End(answer) PROVE Groups!End(answer)
  BY <1>8, <1>17, IdleThen DEF End, Groups!End
<1>18. CASE visit.at = None /\ End("Done")
  BY <1>8, <1>9, <1>13, <1>14, <1>16, <1>17, <1>18 DEF Groups!Finish
<1>19. CASE visit.at # None /\ visit.fuel = 0 /\ End("LimitExceeded")
  BY <1>7, <1>8, <1>9, <1>13, <1>15, <1>16, <1>17, <1>19 DEF Groups!Finish
<1> QED BY <1>4, <1>7, <1>18, <1>19

-----------------------------------------------------------------------------
(* The lists implement the groups.                                         *)

LEMMA AbstractStutter == UNCHANGED listsVars => UNCHANGED <<Grouped, Visited, reply>>
<1> SUFFICES ASSUME UNCHANGED listsVars PROVE UNCHANGED <<Grouped, Visited, reply>>
  OBVIOUS
<1>1. world' = world /\ visit' = visit /\ reply' = reply
  BY DEF listsVars
<1>2. VisitIn(world', visit') = VisitIn(world, visit)
  BY <1>1
<1> QED BY <1>1, <1>2, GroupsStay, VisitedIs

LEMMA AbstractNext ==
  ListsSound /\ [ListsNext]_listsVars => Groups!GroupsNext \/ UNCHANGED <<Grouped, Visited, reply>>
<1> SUFFICES ASSUME ListsSound, [ListsNext]_listsVars
             PROVE  Groups!GroupsNext \/ UNCHANGED <<Grouped, Visited, reply>>
  OBVIOUS
<1>1. CASE UNCHANGED listsVars
  BY <1>1, AbstractStutter
<1>2. CASE EditCall
  BY <1>2, AbstractEditCall DEF Groups!GroupsNext
<1>3. CASE \E s \in UNION {[1 .. k -> Node] : k \in 0 .. MaxBound} :
             PoolNew(s) \/ \E r \in Root : Build(r, s)
  <2>1. PICK k \in 0 .. MaxBound : \E s \in [1 .. k -> Node] :
          PoolNew(s) \/ \E r \in Root : Build(r, s)
    BY <1>3
  <2>2. PICK s \in [1 .. k -> Node] : PoolNew(s) \/ \E r \in Root : Build(r, s)
    BY <2>1
  <2>3. Groups!NewPool(s) \/ \E r \in Root : Groups!Build(r, s)
    BY <2>2, AbstractPoolNew, AbstractBuild
  <2>4. s \in UNION {[1 .. j -> Node] : j \in 0 .. MaxBound}
    OBVIOUS
  <2> QED BY <2>3, <2>4 DEF Groups!GroupsNext
<1>4. CASE \E r \in Root : Query(r)
  BY <1>4, AbstractQuery DEF Groups!GroupsNext
<1>5. CASE \E r \in Root : \E fuel \in 0 .. MaxBound :
             \E op \in {"ForEach", "Find", "Count", "Prefix"} : Begin(op, r, fuel)
  <2>1. \E r \in Root : \E fuel \in 0 .. MaxBound :
          \E op \in {"ForEach", "Find", "Count", "Prefix"} : Groups!Begin(op, r, fuel)
    BY <1>5, AbstractBegin
  <2> QED BY <2>1 DEF Groups!GroupsNext
<1>6. CASE \E r \in Root : \E fuel \in 0 .. MaxBound : \E op \in {"Map", "Clear"} : Refused(op, r, fuel)
  <2>1. \E r \in Root : \E fuel \in 0 .. MaxBound : \E op \in {"Map", "Clear"} : Groups!Refused(op, r, fuel)
    BY <1>6, AbstractRefused
  <2> QED BY <2>1 DEF Groups!GroupsNext
<1>7. CASE \E r \in Root : \E fuel \in 0 .. MaxBound : BeginMap(r, fuel)
  <2>1. \E r \in Root : \E fuel \in 0 .. MaxBound : Groups!BeginMap(r, fuel)
    BY <1>7, AbstractBeginMap
  <2> QED BY <2>1 DEF Groups!GroupsNext
<1>8. CASE \E r \in Root : \E fuel \in 0 .. MaxBound : BeginClear(r, fuel)
  <2>1. \E r \in Root : \E fuel \in 0 .. MaxBound : Groups!BeginClear(r, fuel)
    BY <1>8, AbstractBeginClear
  <2> QED BY <2>1 DEF Groups!GroupsNext
<1>9. CASE Finish
  BY <1>9, AbstractFinish DEF Groups!GroupsNext
<1>10. CASE VisitEach
  BY <1>10, AbstractVisitEach DEF Groups!GroupsNext
<1>11. CASE VisitStaying
  BY <1>11, AbstractVisitStaying DEF Groups!GroupsNext
<1>12. CASE Hit
  BY <1>12, AbstractHit DEF Groups!GroupsNext
<1>13. CASE FilterPrefix
  BY <1>13, AbstractFilterPrefix DEF Groups!GroupsNext
<1>14. CASE FilterTail
  BY <1>14, AbstractFilterTail DEF Groups!GroupsNext
<1>15. CASE ClearRest
  BY <1>15, AbstractClearRest DEF Groups!GroupsNext
<1>16. CASE ClearFirst
  BY <1>16, AbstractClearFirst DEF Groups!GroupsNext
<1> QED BY <1>1, <1>2, <1>3, <1>4, <1>5, <1>6, <1>7, <1>8, <1>9, <1>10, <1>11, <1>12, <1>13,
           <1>14, <1>15, <1>16, Zenon DEF ListsNext

LEMMA AbstractInit == ListsInit => Groups!GroupsInit
<1> SUFFICES ASSUME ListsInit PROVE Groups!GroupsInit
  OBVIOUS
<1>1. PICK w : w = world
  OBVIOUS
<1>2. /\ w.nexts = [n \in Node |-> None] /\ (\A r \in Root : w.heads[r] = None)
      /\ w.pool.head = None /\ visit = Idle /\ reply = <<"New">>
  BY <1>1 DEF ListsInit
<1>3. w.nexts \in Links
  BY <1>2 DEF Links
<1>4. PICK a : a = w.nexts /\ a \in Links
  BY <1>3
<1>5. Walk(a, None) = <<>>
  BY <1>4, WalkNowhere
<1>6. (\A r \in Root : Chain(w, r) = <<>>) /\ Free(w) = <<>>
  BY <1>2, <1>4, <1>5 DEF Chain, Free
<1>7. Grouped = [list |-> [r \in Root |-> <<>>], pool |-> <<>>]
  BY <1>1, <1>6 DEF Grouped
<1>8. Visited = Groups!Idle
  BY <1>2, VisitedIs DEF VisitIn, Groups!Idle
<1> QED BY <1>2, <1>7, <1>8 DEF Groups!GroupsInit

(* Traversals, filters and clears do what they would on sequences: each    *)
(* node is visited once and in order, whatever their callbacks edit, and a *)
(* filter fails only where its list was changed under it.                  *)
THEOREM ListsImplementGroups == ListsSpec => ImplementsGroups
<1>1. ListsInit => Groups!GroupsInit
  BY AbstractInit
<1>2. ListsSound /\ [ListsNext]_listsVars => [Groups!GroupsNext]_(Groups!vars)
  BY AbstractNext DEF Groups!vars
<1> QED BY <1>1, <1>2, SoundAlways, PTL DEF ListsSpec, ImplementsGroups, Groups!GroupsSpec

-----------------------------------------------------------------------------
(* Step bounds.  Edits that add no node to the list visited leave no more  *)
(* to see of it than there was.                                            *)

\* Sequences that do not repeat.
Apart(c) == c \in Seq(Node) /\ \A j, k \in 1 .. Len(c) : c[j] = c[k] => j = k

\* d lost nodes of c, but none of K, and no node of K gained neighbours.
Shorter(d, c, K) ==
  /\ Apart(d) /\ Len(d) <= Len(c)
  /\ \A n \in Nodes(c) : n \in K =>
       /\ n \in Nodes(d)
       /\ Len(Groups!After(d, n)) <= Len(Groups!After(c, n))
       /\ Len(Groups!Before(d, n)) <= Len(Groups!Before(c, n))

LEMMA AroundIs ==
  ASSUME NEW c, Apart(c), NEW i \in 1 .. Len(c)
  PROVE  /\ Groups!After(c, c[i]) \in Seq(Node) /\ Len(Groups!After(c, c[i])) = Len(c) - i
         /\ Groups!Before(c, c[i]) \in Seq(Node) /\ Len(Groups!Before(c, c[i])) = i - 1
<1>1. c \in Seq(Node) /\ \A j, k \in 1 .. Len(c) : c[j] = c[k] => j = k
  BY DEF Apart
<1>2. /\ Groups!After(c, c[i]) = SubSeq(c, i + 1, Len(c))
      /\ Groups!Before(c, c[i]) = SubSeq(c, 1, i - 1)
  BY <1>1, IndexIs
<1>3. i + 1 \in 1 .. Len(c) + 1 /\ Len(c) - (i + 1) + 1 = Len(c) - i
  BY <1>1
<1>4. SubSeq(c, i + 1, Len(c)) \in Seq(Node) /\ Len(SubSeq(c, i + 1, Len(c))) = Len(c) - i
  BY <1>1, <1>3, PartIs
<1>5. SubSeq(c, 1, i - 1) \in Seq(Node) /\ Len(SubSeq(c, 1, i - 1)) = i - 1
  BY <1>1
<1> QED BY <1>2, <1>4, <1>5

LEMMA SameIsShorter == ASSUME NEW c, Apart(c), NEW K PROVE Shorter(c, c, K)
<1>1. \A n \in Nodes(c) : /\ Len(Groups!After(c, n)) \in Int
                          /\ Len(Groups!Before(c, n)) \in Int
  <2>1. TAKE n \in Nodes(c)
  <2>2. PICK i \in 1 .. Len(c) : n = c[i]
    BY NodesOf DEF Apart
  <2>3. Groups!After(c, n) \in Seq(Node) /\ Groups!Before(c, n) \in Seq(Node)
    BY <2>2, AroundIs
  <2> QED BY <2>3
<1>2. Len(c) \in Int
  BY DEF Apart
<1> QED BY <1>1, <1>2 DEF Shorter

LEMMA ShorterStill ==
  ASSUME NEW c, Apart(c), NEW d, NEW f, NEW K, Shorter(d, c, K), Shorter(f, d, K)
  PROVE  Shorter(f, c, K)
<1>1. Len(c) \in Nat /\ Len(d) \in Nat /\ Len(f) \in Nat
  BY DEF Apart, Shorter
<1>2. \A s : Apart(s) => \A n \in Nodes(s) : /\ Len(Groups!After(s, n)) \in Nat
                                             /\ Len(Groups!Before(s, n)) \in Nat
  <2> TAKE s
  <2> HAVE Apart(s)
  <2> TAKE n \in Nodes(s)
  <2>2. PICK i \in 1 .. Len(s) : n = s[i]
    BY NodesOf DEF Apart
  <2>3. Groups!After(s, n) \in Seq(Node) /\ Groups!Before(s, n) \in Seq(Node)
    BY <2>2, AroundIs
  <2> QED BY <2>3
<1>3. Apart(d) /\ Apart(f) /\ Len(f) <= Len(c)
  BY <1>1 DEF Shorter
<1>4. ASSUME NEW n \in Nodes(c), n \in K
      PROVE  /\ n \in Nodes(f)
             /\ Len(Groups!After(f, n)) <= Len(Groups!After(c, n))
             /\ Len(Groups!Before(f, n)) <= Len(Groups!Before(c, n))
  <2>1. /\ n \in Nodes(d)
        /\ Len(Groups!After(d, n)) <= Len(Groups!After(c, n))
        /\ Len(Groups!Before(d, n)) <= Len(Groups!Before(c, n))
    BY <1>4 DEF Shorter
  <2>2. /\ n \in Nodes(f)
        /\ Len(Groups!After(f, n)) <= Len(Groups!After(d, n))
        /\ Len(Groups!Before(f, n)) <= Len(Groups!Before(d, n))
    BY <1>4, <2>1 DEF Shorter
  <2>3. /\ Len(Groups!After(c, n)) \in Nat /\ Len(Groups!Before(c, n)) \in Nat
        /\ Len(Groups!After(d, n)) \in Nat /\ Len(Groups!Before(d, n)) \in Nat
        /\ Len(Groups!After(f, n)) \in Nat /\ Len(Groups!Before(f, n)) \in Nat
    BY <1>2, <1>3, <2>1, <2>2
  <2> QED BY <2>1, <2>2, <2>3
<1> QED BY <1>3, <1>4 DEF Shorter

LEMMA RemovalShortens ==
  ASSUME NEW c, Apart(c), NEW m \in Nodes(c), NEW K, m \notin K
  PROVE  Shorter(Groups!Without(c, m), c, K) /\ Len(Groups!Without(c, m)) = Len(c) - 1
<1>1. c \in Seq(Node) /\ \A j, k \in 1 .. Len(c) : c[j] = c[k] => j = k
  BY DEF Apart
<1>2. PICK i \in 1 .. Len(c) : m = c[i]
  BY <1>1, NodesOf
<1>3. PICK d : d = RemoveAt(c, i)
  OBVIOUS
<1>4. Groups!Without(c, m) = d
  BY <1>1, <1>2, <1>3, IndexIs
<1>5. d \in Seq(Node) /\ Len(d) = Len(c) - 1
      /\ \A k \in 1 .. Len(c) - 1 : d[k] = IF k < i THEN c[k] ELSE c[k + 1]
  <2>1. /\ RemoveAt(c, i) \in Seq(Node) /\ Len(RemoveAt(c, i)) = Len(c) - 1
        /\ \A k \in 1 .. Len(c) - 1 : RemoveAt(c, i)[k] = IF k < i THEN c[k] ELSE c[k + 1]
    BY <1>1, Shortened
  <2> QED BY <2>1, <1>3
<1>6. Apart(d)
  <2>1. ASSUME NEW j \in 1 .. Len(d), NEW k \in 1 .. Len(d), d[j] = d[k] PROVE j = k
    <3>1. Len(c) \in Nat /\ j \in 1 .. Len(c) - 1 /\ k \in 1 .. Len(c) - 1
      BY <1>1, <1>5
    <3>2. PICK p \in 1 .. Len(c) : d[j] = c[p] /\ p = IF j < i THEN j ELSE j + 1
      BY <1>5, <3>1
    <3>3. PICK q \in 1 .. Len(c) : d[k] = c[q] /\ q = IF k < i THEN k ELSE k + 1
      BY <1>5, <3>1
    <3>4. p = q
      BY <1>1, <2>1, <3>2, <3>3
    <3> QED BY <3>1, <3>2, <3>3, <3>4
  <2> QED BY <1>5, <2>1 DEF Apart
<1>7. ASSUME NEW n \in Nodes(c), n \in K
      PROVE  /\ n \in Nodes(d)
             /\ Len(Groups!After(d, n)) <= Len(Groups!After(c, n))
             /\ Len(Groups!Before(d, n)) <= Len(Groups!Before(c, n))
  <2>1. PICK j \in 1 .. Len(c) : n = c[j]
    BY <1>1, NodesOf
  <2>2. j # i /\ Len(c) \in Nat
    BY <1>1, <1>2, <1>7, <2>1
  <2>3. PICK k \in 1 .. Len(d) : d[k] = n /\ k = IF j < i THEN j ELSE j - 1
    <3>1. CASE j < i
      <4>1. j \in 1 .. Len(c) - 1
        BY <2>2, <3>1
      <4>2. d[j] = c[j] /\ j \in 1 .. Len(d)
        BY <1>5, <3>1, <4>1
      <4> QED BY <4>2, <2>1, <3>1
    <3>2. CASE ~ (j < i)
      <4>1. PICK l \in 1 .. Len(c) - 1 : l = j - 1
        BY <2>2, <3>2
      <4>2. ~ (l < i) /\ l + 1 = j
        BY <2>2, <3>2, <4>1
      <4>3. d[l] = c[l + 1] /\ l \in 1 .. Len(d)
        BY <1>5, <4>1, <4>2
      <4>4. d[l] = n
        BY <4>2, <4>3, <2>1
      <4> QED BY <4>1, <4>3, <4>4, <3>2
    <3> QED BY <3>1, <3>2
  <2>4. /\ Len(Groups!After(c, n)) = Len(c) - j /\ Len(Groups!Before(c, n)) = j - 1
        /\ Len(Groups!After(d, n)) = Len(d) - k /\ Len(Groups!Before(d, n)) = k - 1
    <3>1. Len(Groups!After(c, c[j])) = Len(c) - j /\ Len(Groups!Before(c, c[j])) = j - 1
      BY AroundIs
    <3>2. Len(Groups!After(d, d[k])) = Len(d) - k /\ Len(Groups!Before(d, d[k])) = k - 1
      BY <1>6, AroundIs
    <3> QED BY <2>1, <2>3, <3>1, <3>2
  <2>5. n \in Nodes(d)
    BY <1>5, <2>3, NodesOf
  <2> QED BY <1>5, <2>2, <2>3, <2>4, <2>5
<1>8. Len(d) <= Len(c)
  BY <1>1, <1>5
<1> QED BY <1>4, <1>5, <1>6, <1>7, <1>8 DEF Shorter

\* The sequences of all roots and of the pool.
Groupings == [list : [Root -> Seq(Node)], pool : Seq(Node)]

\* No call puts a node into the list of r.
Leaves(call, r) == call \notin AddsTo(r)

LEMMA GroupsPut ==
  ASSUME NEW g \in Groupings, NEW r \in Root, NEW d \in Seq(Node)
  PROVE  /\ [g EXCEPT !.list[r] = d] \in Groupings
         /\ [g EXCEPT !.list[r] = d].list[r] = d
         /\ \A q \in Root : q # r => [g EXCEPT !.list[r] = d].list[q] = g.list[q]
         /\ [g EXCEPT !.pool = d] \in Groupings
         /\ [g EXCEPT !.pool = d].list = g.list
BY DEF Groupings

LEMMA WithoutIs ==
  ASSUME NEW c \in Seq(Node), NEW n \in Nodes(c)
  PROVE  Groups!Without(c, n) \in Seq(Node)
<1>1. DOMAIN c = 1 .. Len(c)
  OBVIOUS
<1>2. \E k \in 1 .. Len(c) : c[k] = n
  BY NodesOf
<1>3. PICK i \in 1 .. Len(c) : i = Groups!IndexIn(c, n)
  BY <1>1, <1>2 DEF Groups!IndexIn
<1>4. Groups!Without(c, n) = RemoveAt(c, i)
  BY <1>3 DEF Groups!Without, Groups!RemoveAt, RemoveAt
<1> QED BY <1>4, Shortened

LEMMA RemovedFromIs ==
  ASSUME NEW g \in Groupings, NEW q \in Root, NEW n \in Nodes(g.list[q])
  PROVE  /\ Groups!Removed(g, q, n) \in Groupings
         /\ Groups!Removed(g, q, n).list[q] = Groups!Without(g.list[q], n)
         /\ \A r \in Root : r # q => Groups!Removed(g, q, n).list[r] = g.list[r]
<1>1. g.list[q] \in Seq(Node)
  BY DEF Groupings
<1>2. PICK d \in Seq(Node) : d = Groups!Without(g.list[q], n)
  BY <1>1, WithoutIs
<1>3. Groups!Removed(g, q, n) = [g EXCEPT !.list[q] = d]
  BY <1>2 DEF Groups!Removed
<1>4. /\ [g EXCEPT !.list[q] = d] \in Groupings
      /\ [g EXCEPT !.list[q] = d].list[q] = d
      /\ \A r \in Root : r # q => [g EXCEPT !.list[q] = d].list[r] = g.list[r]
  BY GroupsPut, ZenonT(40)
<1> QED BY <1>2, <1>3, <1>4, ZenonT(40)

LEMMA PrependedIs ==
  ASSUME NEW g \in Groupings, NEW q \in Root, NEW n \in Node
  PROVE  /\ Groups!Prepended(g, q, n) \in Groupings
         /\ \A r \in Root : r # q => Groups!Prepended(g, q, n).list[r] = g.list[r]
<1>1. PICK d \in Seq(Node) : d = <<n>> \o g.list[q]
  <2>1. PICK s \in Seq(Node) : s = g.list[q]
    BY DEF Groupings
  <2>2. <<n>> \o s \in Seq(Node)
    OBVIOUS
  <2> QED BY <2>1, <2>2
<1>2. Groups!Prepended(g, q, n) = [g EXCEPT !.list[q] = d]
  BY <1>1 DEF Groups!Prepended
<1>3. /\ [g EXCEPT !.list[q] = d] \in Groupings
      /\ \A r \in Root : r # q => [g EXCEPT !.list[q] = d].list[r] = g.list[r]
  BY GroupsPut, ZenonT(40)
<1> QED BY <1>2, <1>3, ZenonT(40)

LEMMA RemovedShortens ==
  ASSUME NEW g \in Groupings, NEW r \in Root, Apart(g.list[r]), NEW q \in Root,
         NEW J, NEW n \in Nodes(g.list[q]) \ J
  PROVE  /\ Groups!Removed(g, q, n) \in Groupings
         /\ Shorter(Groups!Removed(g, q, n).list[r], g.list[r], J)
<1>1. n \in Nodes(g.list[q]) /\ n \notin J
  OBVIOUS
<1>2. CASE q = r
  <2>1. Shorter(Groups!Without(g.list[r], n), g.list[r], J)
    BY <1>1, <1>2, RemovalShortens
  <2> QED BY <1>1, <1>2, <2>1, RemovedFromIs
<1>3. CASE q # r
  <2>1. Groups!Removed(g, q, n).list[r] = g.list[r]
    BY <1>1, <1>3, RemovedFromIs
  <2>2. Shorter(g.list[r], g.list[r], J)
    BY SameIsShorter
  <2> QED BY <1>1, <2>1, <2>2, RemovedFromIs
<1> QED BY <1>2, <1>3

\* The ways in which e may edit g.
EditForm(e, g, J) ==
  \/ e = Groups!Edit(<<"none">>, g)
  \/ \E q \in Root, n \in Groups!Detached(g) \ J :
       e = Groups!Edit(<<"prepend", q, n>>, Groups!Prepended(g, q, n))
  \/ \E n \in Groups!Detached(g) \ J :
       e = Groups!Edit(<<"pool_free", n>>, [g EXCEPT !.pool = <<n>> \o @])
  \/ \E n \in Groups!Detached(g) \ J : e = Groups!Edit(<<"pool_next", n>>, g)
  \/ g.pool # <<>> /\ e = Groups!Edit(<<"pool_next", g.pool[1]>>, [g EXCEPT !.pool = Tail(@)])
  \/ \E q \in Root : \E n \in Groups!Nodes(g.list[q]) \ J :
       e = Groups!Edit(<<"remove", q, n>>, Groups!Removed(g, q, n))
  \/ \E q \in Root : \E n \in Groups!Nodes(g.list[q]) \ J, p \in Root :
       e = Groups!Edit(<<"move", q, p, n>>, Groups!Prepended(Groups!Removed(g, q, n), p, n))

LEMMA EditForms ==
  ASSUME NEW g, NEW J, NEW e \in Groups!Edits(g, J)
  PROVE  EditForm(e, g, J)
<1> DEFINE idle == Groups!Detached(g) \ J
           S1 == {Groups!Edit(<<"none">>, g)}
           S2 == {Groups!Edit(<<"prepend", r, n>>, Groups!Prepended(g, r, n)) : r \in Root, n \in idle}
           S3 == {Groups!Edit(<<"pool_free", n>>, [g EXCEPT !.pool = <<n>> \o @]) : n \in idle}
           Fresh == {Groups!Edit(<<"pool_next", n>>, g) : n \in idle}
           Reused == {Groups!Edit(<<"pool_next", g.pool[1]>>, [g EXCEPT !.pool = Tail(@)])}
           Removals(r) == {Groups!Edit(<<"remove", r, n>>, Groups!Removed(g, r, n)) :
                             n \in Groups!Nodes(g.list[r]) \ J}
           Moves(r) == {Groups!Edit(<<"move", r, q, n>>, Groups!Prepended(Groups!Removed(g, r, n), q, n)) :
                          n \in Groups!Nodes(g.list[r]) \ J, q \in Root}
           S4 == IF g.pool = <<>> THEN Fresh ELSE Reused
           S5 == UNION {Removals(r) : r \in Root}
           S6 == UNION {Moves(r) : r \in Root}
<1>1. Groups!Edits(g, J) = UNION {S1, S2, S3, S4, S5, S6}
  BY DEF Groups!Edits
<1>2. e \in S1 => e = Groups!Edit(<<"none">>, g)
  OBVIOUS
<1>3. e \in S2 => \E q \in Root, n \in Groups!Detached(g) \ J :
                    e = Groups!Edit(<<"prepend", q, n>>, Groups!Prepended(g, q, n))
  OBVIOUS
<1>4. e \in S3 => \E n \in Groups!Detached(g) \ J :
                    e = Groups!Edit(<<"pool_free", n>>, [g EXCEPT !.pool = <<n>> \o @])
  OBVIOUS
<1>5. e \in Fresh => \E n \in Groups!Detached(g) \ J : e = Groups!Edit(<<"pool_next", n>>, g)
  OBVIOUS
<1>6. e \in Reused => e = Groups!Edit(<<"pool_next", g.pool[1]>>, [g EXCEPT !.pool = Tail(@)])
  OBVIOUS
<1>7. \A q \in Root : e \in Removals(q) =>
        \E n \in Groups!Nodes(g.list[q]) \ J : e = Groups!Edit(<<"remove", q, n>>, Groups!Removed(g, q, n))
  OBVIOUS
<1>8. \A q \in Root : e \in Moves(q) =>
        \E n \in Groups!Nodes(g.list[q]) \ J, p \in Root :
          e = Groups!Edit(<<"move", q, p, n>>, Groups!Prepended(Groups!Removed(g, q, n), p, n))
  <2> HIDE DEF Moves, S1, S2, S3, S4, S5, S6, Removals, Fresh, Reused
  <2> SUFFICES ASSUME NEW q \in Root, e \in Moves(q)
               PROVE  \E n \in Groups!Nodes(g.list[q]) \ J, p \in Root :
                        e = Groups!Edit(<<"move", q, p, n>>,
                                        Groups!Prepended(Groups!Removed(g, q, n), p, n))
    BY Zenon
  <2> DEFINE M == Groups!Nodes(g.list[q]) \ J
             Moved(n, p) == Groups!Edit(<<"move", q, p, n>>,
                                        Groups!Prepended(Groups!Removed(g, q, n), p, n))
  <2>1. e \in {Moved(n, p) : n \in M, p \in Root}
    BY ONLY e \in Moves(q) DEF Moves
  <2> HIDE DEF M, Moved
  <2>2. \E n \in M, p \in Root : e = Moved(n, p)
    BY ONLY <2>1
  <2> QED BY <2>2 DEF M, Moved
<1> HIDE DEF S1, S2, S3, Fresh, Reused, Removals, Moves
<1>9. e \in S4 => e \in Fresh \/ (g.pool # <<>> /\ e \in Reused)
  OBVIOUS
<1>10. e \in S5 => \E q \in Root : e \in Removals(q)
  OBVIOUS
<1>11. e \in S6 => \E q \in Root : e \in Moves(q)
  OBVIOUS
<1> HIDE DEF S4, S5, S6
<1>12. e \in S1 \/ e \in S2 \/ e \in S3 \/ e \in S4 \/ e \in S5 \/ e \in S6
  BY <1>1
<1>13. CASE e \in S1
  BY <1>2, <1>13 DEF EditForm
<1>14. CASE e \in S2
  BY <1>3, <1>14, ZenonT(40) DEF EditForm
<1>15. CASE e \in S3
  BY <1>4, <1>15, ZenonT(40) DEF EditForm
<1>16. CASE e \in S4
  BY <1>5, <1>6, <1>9, <1>16, ZenonT(40) DEF EditForm
<1>17. CASE e \in S5
  BY <1>7, <1>10, <1>17, ZenonT(40) DEF EditForm
<1>18. CASE e \in S6
  BY <1>8, <1>11, <1>18, ZenonT(40) DEF EditForm
<1> QED BY <1>12, <1>13, <1>14, <1>15, <1>16, <1>17, <1>18, Zenon

(* An edit that puts no node into a list leaves no more of it.             *)
LEMMA EditShortens ==
  ASSUME NEW g \in Groupings, NEW r \in Root, Apart(g.list[r]), NEW J,
         NEW e \in Groups!Edits(g, J), Leaves(e.call, r)
  PROVE  e.to \in Groupings /\ Shorter(e.to.list[r], g.list[r], J)
<1>1. Shorter(g.list[r], g.list[r], J)
  BY SameIsShorter
<1>2. CASE e = Groups!Edit(<<"none">>, g)
  BY <1>1, <1>2 DEF Groups!Edit
<1>3. CASE \E q \in Root, n \in Groups!Detached(g) \ J :
             e = Groups!Edit(<<"prepend", q, n>>, Groups!Prepended(g, q, n))
  <2>1. PICK q \in Root, n \in Node : e = Groups!Edit(<<"prepend", q, n>>, Groups!Prepended(g, q, n))
    BY <1>3 DEF Groups!Detached
  <2>2. e.call = <<"prepend", q, n>> /\ e.to = Groups!Prepended(g, q, n)
    BY <2>1 DEF Groups!Edit
  <2>3. q # r
    BY <2>2 DEF Leaves, AddsTo
  <2>4. e.to \in Groupings /\ e.to.list[r] = g.list[r]
    BY <2>2, <2>3, PrependedIs
  <2> QED BY <1>1, <2>4
<1>4. CASE \E n \in Groups!Detached(g) \ J :
             e = Groups!Edit(<<"pool_free", n>>, [g EXCEPT !.pool = <<n>> \o @])
  <2>1. PICK n \in Node : e = Groups!Edit(<<"pool_free", n>>, [g EXCEPT !.pool = <<n>> \o g.pool])
    BY <1>4 DEF Groups!Detached
  <2>2. PICK d \in Seq(Node) : d = <<n>> \o g.pool
    <3>1. PICK s \in Seq(Node) : s = g.pool
      BY DEF Groupings
    <3>2. <<n>> \o s \in Seq(Node)
      OBVIOUS
    <3> QED BY <3>1, <3>2
  <2>3. e.to = [g EXCEPT !.pool = d]
    BY <2>1, <2>2 DEF Groups!Edit
  <2>4. e.to \in Groupings /\ e.to.list = g.list
    <3>1. [g EXCEPT !.pool = d] \in Groupings /\ [g EXCEPT !.pool = d].list = g.list
      BY GroupsPut, ZenonT(40)
    <3> QED BY <2>3, <3>1
  <2> QED BY <1>1, <2>4
<1>5. CASE \E n \in Groups!Detached(g) \ J : e = Groups!Edit(<<"pool_next", n>>, g)
  BY <1>1, <1>5 DEF Groups!Edit
<1>6. CASE g.pool # <<>> /\ e = Groups!Edit(<<"pool_next", g.pool[1]>>, [g EXCEPT !.pool = Tail(@)])
  <2>1. PICK d \in Seq(Node) : d = Tail(g.pool)
    <3>1. PICK s \in Seq(Node) : s = g.pool /\ s # <<>>
      BY <1>6 DEF Groupings
    <3>2. Tail(s) \in Seq(Node)
      BY <3>1
    <3> QED BY <3>1, <3>2
  <2>2. e.to = [g EXCEPT !.pool = d]
    BY <1>6, <2>1 DEF Groups!Edit
  <2>3. e.to \in Groupings /\ e.to.list = g.list
    <3>1. [g EXCEPT !.pool = d] \in Groupings /\ [g EXCEPT !.pool = d].list = g.list
      BY GroupsPut, ZenonT(40)
    <3> QED BY <2>2, <3>1
  <2> QED BY <1>1, <2>3
<1>7. CASE \E q \in Root : \E n \in Groups!Nodes(g.list[q]) \ J :
             e = Groups!Edit(<<"remove", q, n>>, Groups!Removed(g, q, n))
  <2>a. PICK q \in Root : \E n \in Groups!Nodes(g.list[q]) \ J :
          e = Groups!Edit(<<"remove", q, n>>, Groups!Removed(g, q, n))
    BY <1>7
  <2>1. PICK n \in Nodes(g.list[q]) \ J :
          e = Groups!Edit(<<"remove", q, n>>, Groups!Removed(g, q, n))
    BY <2>a, AbstractNodes
  <2>2. e.to = Groups!Removed(g, q, n)
    BY <2>1 DEF Groups!Edit
  <2> QED BY <2>2, RemovedShortens
<1>8. CASE \E q \in Root : \E n \in Groups!Nodes(g.list[q]) \ J, p \in Root :
             e = Groups!Edit(<<"move", q, p, n>>, Groups!Prepended(Groups!Removed(g, q, n), p, n))
  <2>a. PICK q \in Root : \E n \in Groups!Nodes(g.list[q]) \ J, p \in Root :
          e = Groups!Edit(<<"move", q, p, n>>, Groups!Prepended(Groups!Removed(g, q, n), p, n))
    BY <1>8
  <2>1. PICK n \in Nodes(g.list[q]) \ J, p \in Root :
          e = Groups!Edit(<<"move", q, p, n>>, Groups!Prepended(Groups!Removed(g, q, n), p, n))
    BY <2>a, AbstractNodes
  <2>2. PICK f : f = Groups!Removed(g, q, n)
    OBVIOUS
  <2>3. e.call = <<"move", q, p, n>> /\ e.to = Groups!Prepended(f, p, n)
    BY <2>1, <2>2 DEF Groups!Edit
  <2>4. n \in Node
    <3>1. g.list[q] \in Seq(Node)
      BY DEF Groupings
    <3> QED BY <3>1, NodesOf
  <2>5. p # r
    BY <2>3, <2>4 DEF Leaves, AddsTo
  <2>6. f \in Groupings /\ Shorter(f.list[r], g.list[r], J)
    BY <2>2, RemovedShortens
  <2>7. e.to \in Groupings /\ e.to.list[r] = f.list[r]
    BY <2>3, <2>4, <2>5, <2>6, PrependedIs
  <2> QED BY <2>6, <2>7
<1>9. EditForm(e, g, J)
  BY EditForms
<1> QED BY <1>2, <1>3, <1>4, <1>5, <1>6, <1>7, <1>8, <1>9, ZenonT(40) DEF EditForm

\* A traversal stands at the place i of the list c of its root r.
Stands(c, i, r) ==
  /\ r = visit.root /\ r \in Root /\ visit.fuel \in Nat
  /\ visit.op # "Idle" /\ visit.op # "Clear"
  /\ Visited.root = r /\ Visited.op = visit.op
  /\ Grouped \in Groupings /\ c = Grouped.list[r] /\ Apart(c)
  /\ i \in 1 .. Len(c) /\ visit.at = c[i] /\ Groups!Seen = c[i]
  /\ world.heads[r] = c[1]
  /\ visit.op # "Map" => /\ Groups!Rest = SubSeq(c, i + 1, Len(c))
                         /\ Len(Todo) = Len(c) - i + 1
  /\ visit.op = "Map" => Len(Todo) = i

LEMMA ReverseLength ==
  ASSUME NEW s \in Seq(Node) PROVE Len(Reverse(s)) = Len(s)
<1>1. PICK n \in Nat : n = Len(s)
  OBVIOUS
<1>2. PICK t : t = Reverse(s)
  OBVIOUS
<1>3. t = [k \in 1 .. n |-> s[(n - k) + 1]]
  BY <1>1, <1>2 DEF Reverse
<1>4. \A k \in 1 .. n : s[(n - k) + 1] \in Node
  <2>1. TAKE k \in 1 .. n
  <2>2. (n - k) + 1 \in 1 .. n
    BY <1>1
  <2>3. s[(n - k) + 1] \in Node
    BY <1>1, <2>2, NodesOf
  <2> QED BY <2>3
<1>5. t \in Seq(Node) /\ DOMAIN t = 1 .. n
  BY <1>3, <1>4
<1>6. Len(t) = n
  BY <1>5
<1> QED BY <1>1, <1>2, <1>6

LEMMA StandsSomewhere ==
  ASSUME ListsSound, NEW ops \in SUBSET PlainOps, Visiting(ops)
  PROVE  \E c, i, r : Stands(c, i, r)
<1>1. PICK C : /\ World(world, C, {}) /\ Plain(visit, C) /\ visit.root \in Root /\ visit.op \in ops
               /\ visit.fuel > 0 /\ Grouped = Grp(C) /\ Groups!Visiting(ops)
               /\ Visited.root = visit.root /\ Visited.op = visit.op
               /\ C[visit.root] \in Seq(Node) /\ Groups!Seen = visit.at
               /\ \E i \in 1 .. Len(C[visit.root]) :
                    /\ visit.at = C[visit.root][i]
                    /\ visit.op # "Map" =>
                         Groups!Rest = SubSeq(C[visit.root], i + 1, Len(C[visit.root]))
  BY AtPlace
<1>2. PICK w, r, c, n : w = world /\ r = visit.root /\ c = C[r] /\ n = visit.at
  OBVIOUS
<1>3. PICK i \in 1 .. Len(c) : n = c[i] /\ (visit.op # "Map" => Groups!Rest = SubSeq(c, i + 1, Len(c)))
  BY <1>1, <1>2
<1>4. World(w, C, {}) /\ r \in Root /\ r \in Place
  BY <1>1, <1>2, Places
<1>5. /\ w.nexts \in Links /\ w.prevs \in Links /\ w.heads[r] = At(c, 1)
      /\ Chained(w.nexts, w.heads[r], c) /\ BackChained(w.prevs, c) /\ c \in Seq(Node)
      /\ C \in [Place -> Seq(Node)]
      /\ \A j, k \in 1 .. Len(c) : c[j] = c[k] => j = k
  BY <1>2, <1>4, WorldParts
<1>6. Apart(c)
  BY <1>5 DEF Apart
<1>7. visit.op # "Idle" /\ visit.op # "Clear" /\ visit.fuel \in Nat /\ visit.op \in PlainOps
  BY <1>1, PlainIs
<1>8. Grouped \in Groupings /\ c = Grouped.list[r]
  <2>1. \A p \in Place : C[p] \in Seq(Node)
    BY <1>5
  <2>2. Grp(C) \in Groupings
    BY <2>1, Places DEF Grp, Groupings
  <2> QED BY <1>1, <1>2, <1>4, <2>2, GrpParts
<1>9. n = At(c, i) /\ w.heads[r] = c[1]
  <2>1. 1 \in 1 .. Len(c)
    BY <1>3, <1>5
  <2> QED BY <1>3, <1>5, <2>1 DEF At
<1>10. Todo = TodoIn(w, visit)
  BY <1>2 DEF Todo, TodoIn
<1>11. ASSUME visit.op = "Map" PROVE Len(Todo) = i
  <2>1. Todo = Walk(w.prevs, n)
    BY <1>2, <1>7, <1>10, <1>11, VisitInIs
  <2>2. i \in 0 .. Len(c)
    BY <1>5
  <2>3. Walk(w.prevs, At(c, i)) = Reverse(SubSeq(c, 1, i))
    BY <1>5, <2>2, WalkBack
  <2>4. PICK p \in Seq(Node) : p = SubSeq(c, 1, i) /\ Len(p) = i
    <3>1. i \in Nat /\ i <= Len(c) /\ 1 <= i
      BY <1>5
    <3>2. SubSeq(c, 1, i) \in Seq(Node) /\ Len(SubSeq(c, 1, i)) = i
      BY <1>5, <3>1
    <3> QED BY <3>2
  <2> QED BY <1>9, <2>1, <2>3, <2>4, ReverseLength
<1>12. ASSUME visit.op # "Map" PROVE Len(Todo) = Len(c) - i + 1
  <2>1. visit.op \in {"ForEach", "Find", "Count", "Prefix", "Tail"}
    BY <1>7, <1>12 DEF PlainOps
  <2>2. Todo = Walk(w.nexts, n)
    BY <1>2, <1>7, <1>10, <2>1, VisitInIs
  <2>3. i \in 1 .. Len(c) + 1
    BY <1>5
  <2>4. Walk(w.nexts, At(c, i)) = SubSeq(c, i, Len(c))
    BY <1>5, <2>3, WalkFrom
  <2>5. Len(SubSeq(c, i, Len(c))) = Len(c) - i + 1
    BY <1>5, <2>3, PartIs
  <2> QED BY <1>9, <2>2, <2>4, <2>5
<1>13. Stands(c, i, r)
  BY <1>1, <1>2, <1>3, <1>4, <1>6, <1>7, <1>8, <1>9, <1>11, <1>12 DEF Stands
<1> QED BY <1>13

LEMMA FromShortens ==
  ASSUME NEW c, Apart(c), NEW i \in 1 .. Len(c), NEW t, t = SubSeq(c, i + 1, Len(c)),
         NEW J, J = Groups!First(t), NEW d, Shorter(d, c, J)
  PROVE  Len(Groups!From(d, t)) \in Nat /\ Len(Groups!From(d, t)) <= Len(c) - i
<1>1. c \in Seq(Node) /\ Apart(d) /\ i + 1 \in 1 .. Len(c) + 1
  BY DEF Apart, Shorter
<1>2. Len(t) = Len(c) - i /\ t \in Seq(Node)
  <2>1. SubSeq(c, i + 1, Len(c)) \in Seq(Node) /\ Len(SubSeq(c, i + 1, Len(c))) = Len(c) - (i + 1) + 1
    BY <1>1, PartIs
  <2> QED BY <1>1, <2>1
<1>3. CASE t = <<>>
  BY <1>1, <1>2, <1>3 DEF Groups!From
<1>4. CASE t # <<>>
  <2>1. 1 \in 1 .. Len(t) /\ DOMAIN t = 1 .. Len(t)
    BY <1>2, <1>4
  <2>2. PICK j \in 1 .. Len(c) : j = i + 1
    BY <1>1, <1>2, <2>1
  <2>3. t[1] = c[j]
    BY <1>1, <1>2, <2>1, <2>2
  <2>4. c[j] \in J
    BY <2>1, <2>3 DEF Groups!First
  <2>5. c[j] \in Nodes(c)
    BY <1>1, NodesOf
  <2>6. c[j] \in Nodes(d) /\ Len(Groups!After(d, c[j])) <= Len(Groups!After(c, c[j]))
    BY <2>4, <2>5 DEF Shorter
  <2>7. Len(Groups!After(c, c[j])) = Len(c) - j
    BY AroundIs
  <2>8. PICK a \in Seq(Node) : a = Groups!After(d, c[j])
    <3>1. d \in Seq(Node)
      BY <1>1 DEF Apart
    <3>2. PICK k \in 1 .. Len(d) : c[j] = d[k]
      BY <2>6, <3>1, NodesOf
    <3>3. Groups!After(d, d[k]) \in Seq(Node)
      BY <1>1, AroundIs
    <3> QED BY <3>2, <3>3
  <2>9. Groups!From(d, t) = <<c[j]>> \o a
    BY <1>4, <2>3, <2>8 DEF Groups!From
  <2>10. c[j] \in Node
    BY <1>1
  <2>11. Len(<<c[j]>> \o a) = 1 + Len(a)
    BY <2>8, <2>10
  <2>12. Len(a) \in Nat /\ Len(c) \in Nat /\ Len(a) <= Len(c) - j
    BY <1>1, <2>6, <2>7, <2>8
  <2> QED BY <2>2, <2>9, <2>11, <2>12
<1> QED BY <1>3, <1>4

\* The step adds no node to the list visited.
NoneAdded == \A k \in {3, 5} \cap DOMAIN reply' : Leaves(reply'[k], visit.root)

\* One node less is left to see.
OneSeen ==
  /\ Len(Visited'.todo) \in Nat /\ Len(Todo) \in Nat
  /\ Len(Visited'.todo) <= Len(Todo) - 1 /\ Visited'.fuel = visit.fuel - 1

LEMMA WentOn ==
  ASSUME NEW c, NEW i, NEW r, Stands(c, i, r), NEW op, NEW todo, Groups!GoOn(op, todo)
  PROVE  Visited'.todo = todo /\ Visited'.fuel = visit.fuel - 1
<1>1. Visited = [op |-> visit.op, root |-> visit.root, fuel |-> visit.fuel, todo |-> Todo]
  BY DEF Visited, Stands, Idle
<1>2. Visited' = [Visited EXCEPT !.op = op, !.fuel = @ - 1, !.todo = todo]
  BY DEF Groups!GoOn
<1> QED BY <1>1, <1>2

LEMMA CallAt3 ==
  ASSUME NEW a, NEW b, NEW call, reply' = <<a, b, call>>, NoneAdded
  PROVE  Leaves(call, visit.root)
<1>1. 3 \in {3, 5} \cap DOMAIN reply' /\ reply'[3] = call
  OBVIOUS
<1> QED BY <1>1 DEF NoneAdded

LEMMA CallsAt3And5 ==
  ASSUME NEW a, NEW b, NEW call, NEW n, NEW then, reply' = <<a, b, call, n, then>>, NoneAdded
  PROVE  Leaves(call, visit.root) /\ Leaves(then, visit.root)
<1>1. 3 \in {3, 5} \cap DOMAIN reply' /\ reply'[3] = call
  OBVIOUS
<1>2. 5 \in {3, 5} \cap DOMAIN reply' /\ reply'[5] = then
  OBVIOUS
<1> QED BY <1>1, <1>2 DEF NoneAdded

LEMMA EachBounded == ListsSound /\ VisitEach /\ NoneAdded => OneSeen
<1> SUFFICES ASSUME ListsSound, VisitEach, NoneAdded PROVE OneSeen
  OBVIOUS
<1>1. Visiting({"ForEach"}) /\ {"ForEach"} \in SUBSET PlainOps
  BY DEF VisitEach, PlainOps
<1>2. PICK c, i, r : Stands(c, i, r)
  BY <1>1, StandsSomewhere
<1>3. PICK t, J : t = Groups!Rest /\ J = Groups!First(t)
  OBVIOUS
<1>4. visit.op # "Map"
  BY <1>1 DEF Visiting
<1>5. /\ r = visit.root /\ r \in Root /\ Visited.root = r /\ Grouped \in Groupings
      /\ c = Grouped.list[r] /\ Apart(c) /\ i \in 1 .. Len(c)
      /\ t = SubSeq(c, i + 1, Len(c)) /\ Len(Todo) = Len(c) - i + 1
  BY <1>2, <1>3, <1>4 DEF Stands
<1>6. PICK e \in Groups!Edits(Grouped, J) :
        /\ reply' = <<"ForEach", Groups!Seen, e.call>>
        /\ Groups!GoOn("ForEach", Groups!From(e.to.list[Visited.root], t))
  BY <1>3, AbstractVisitEach DEF Groups!VisitEach
<1>7. Leaves(e.call, r)
  BY <1>5, <1>6, CallAt3
<1>8. Shorter(e.to.list[r], c, J)
  BY <1>5, <1>7, EditShortens
<1>9. PICK d : d = e.to.list[r]
  OBVIOUS
<1>10. Len(Groups!From(d, t)) \in Nat /\ Len(Groups!From(d, t)) <= Len(c) - i
  BY <1>3, <1>5, <1>8, <1>9, FromShortens
<1>11. Visited'.todo = Groups!From(d, t) /\ Visited'.fuel = visit.fuel - 1
  BY <1>2, <1>5, <1>6, <1>9, WentOn
<1>12. Len(c) \in Nat
  BY <1>5 DEF Apart
<1> QED BY <1>5, <1>10, <1>11, <1>12 DEF OneSeen

LEMMA StayingBounded == ListsSound /\ VisitStaying /\ NoneAdded => OneSeen
<1> SUFFICES ASSUME ListsSound, VisitStaying, NoneAdded PROVE OneSeen
  OBVIOUS
<1>1. Visiting({"Find", "Count", "Map"}) /\ {"Find", "Count", "Map"} \in SUBSET PlainOps
  BY DEF VisitStaying, PlainOps
<1>2. PICK c, i, r : Stands(c, i, r)
  BY <1>1, StandsSomewhere
<1>3. PICK n, J, o : n = c[i] /\ J = {n} /\ o = visit.op
  OBVIOUS
<1>4. /\ r = visit.root /\ r \in Root /\ Visited.root = r /\ Visited.op = o /\ Grouped \in Groupings
      /\ c = Grouped.list[r] /\ Apart(c) /\ i \in 1 .. Len(c) /\ Groups!Seen = n
  BY <1>2, <1>3 DEF Stands
<1>5. \E e \in Groups!Edits(Grouped, {Groups!Seen}) :
        /\ reply' = <<Visited.op, Groups!Seen, e.call>>
        /\ Groups!GoOn(Visited.op,
             IF Visited.op = "Map" THEN Groups!Reverse(Groups!Before(e.to.list[Visited.root], Groups!Seen))
                                   ELSE Groups!After(e.to.list[Visited.root], Groups!Seen))
  BY AbstractVisitStaying DEF Groups!VisitStaying
<1>6. PICK e \in Groups!Edits(Grouped, J) :
        /\ reply' = <<o, n, e.call>>
        /\ Groups!GoOn(o, IF o = "Map" THEN Groups!Reverse(Groups!Before(e.to.list[r], n))
                                       ELSE Groups!After(e.to.list[r], n))
  BY <1>3, <1>4, <1>5
<1>7. Leaves(e.call, r)
  BY <1>4, <1>6, CallAt3
<1>8. Shorter(e.to.list[r], c, J)
  BY <1>4, <1>7, EditShortens
<1>9. PICK d, b, a : d = e.to.list[r] /\ b = Groups!Before(d, n) /\ a = Groups!After(d, n)
  OBVIOUS
<1>10. n \in Nodes(c) /\ n \in J
  BY <1>3, <1>4, NodesOf DEF Apart
<1>11. /\ Apart(d) /\ n \in Nodes(d)
       /\ Len(a) <= Len(Groups!After(c, n)) /\ Len(b) <= Len(Groups!Before(c, n))
  BY <1>8, <1>9, <1>10 DEF Shorter
<1>12. Len(Groups!After(c, n)) = Len(c) - i /\ Len(Groups!Before(c, n)) = i - 1
  BY <1>3, <1>4, AroundIs
<1>13. a \in Seq(Node) /\ b \in Seq(Node)
  <2>1. d \in Seq(Node)
    BY <1>11 DEF Apart
  <2>2. PICK k \in 1 .. Len(d) : n = d[k]
    BY <1>11, <2>1, NodesOf
  <2>3. Groups!After(d, d[k]) \in Seq(Node) /\ Groups!Before(d, d[k]) \in Seq(Node)
    BY <1>11, AroundIs
  <2> QED BY <1>9, <2>2, <2>3
<1>14. Len(c) \in Nat /\ Len(a) \in Nat /\ Len(b) \in Nat
  BY <1>4, <1>13 DEF Apart
<1>15. CASE o = "Map"
  <2>1. Visited'.todo = Groups!Reverse(b) /\ Visited'.fuel = visit.fuel - 1
    BY <1>2, <1>6, <1>9, <1>15, WentOn
  <2>2. Len(Groups!Reverse(b)) = Len(b)
    BY <1>13, AbstractReverse, ReverseLength
  <2>3. Len(Todo) = i
    BY <1>2, <1>3, <1>15 DEF Stands
  <2> QED BY <1>4, <1>11, <1>12, <1>14, <2>1, <2>2, <2>3 DEF OneSeen
<1>16. CASE o # "Map"
  <2>1. Visited'.todo = a /\ Visited'.fuel = visit.fuel - 1
    BY <1>2, <1>6, <1>9, <1>16, WentOn
  <2>2. Len(Todo) = Len(c) - i + 1
    BY <1>2, <1>3, <1>16 DEF Stands
  <2> QED BY <1>4, <1>11, <1>12, <1>14, <2>1, <2>2 DEF OneSeen
<1> QED BY <1>15, <1>16

(* The node that a filter drops, then the edit that dropping it leads to.  *)
LEMMA DropShortens ==
  ASSUME NEW g \in Groupings, NEW r \in Root, Apart(g.list[r]), NEW J,
         NEW n \in Nodes(g.list[r]) \ J,
         NEW e \in Groups!Edits(Groups!Removed(g, r, n), J), Leaves(e.call, r)
  PROVE  Shorter(e.to.list[r], g.list[r], J) /\ Len(e.to.list[r]) <= Len(g.list[r]) - 1
<1>1. n \in Nodes(g.list[r]) /\ n \notin J
  OBVIOUS
<1>2. PICK f : f = Groups!Removed(g, r, n)
  OBVIOUS
<1>3. f \in Groupings /\ f.list[r] = Groups!Without(g.list[r], n)
  BY <1>1, <1>2, RemovedFromIs
<1>4. PICK c, d, b : c = g.list[r] /\ d = f.list[r] /\ b = e.to.list[r]
  OBVIOUS
<1>5. Shorter(d, c, J) /\ Len(d) = Len(c) - 1
  <2>1. Shorter(Groups!Without(c, n), c, J) /\ Len(Groups!Without(c, n)) = Len(c) - 1
    BY <1>1, <1>4, RemovalShortens
  <2> QED BY <2>1, <1>3, <1>4
<1>6. Apart(d)
  BY <1>5 DEF Shorter
<1>7. Shorter(b, d, J)
  <2>1. e \in Groups!Edits(f, J) /\ Apart(f.list[r])
    BY <1>2, <1>4, <1>6
  <2>2. Shorter(e.to.list[r], f.list[r], J)
    BY <1>3, <2>1, EditShortens
  <2> QED BY <1>4, <2>2
<1>8. Shorter(b, c, J)
  BY <1>4, <1>5, <1>7, ShorterStill
<1>9. Len(b) <= Len(d)
  BY <1>7 DEF Shorter
<1> QED BY <1>4, <1>5, <1>8, <1>9

LEMMA TailBounded == ListsSound /\ FilterTail /\ NoneAdded => OneSeen \/ Visited' = Groups!Idle
<1> SUFFICES ASSUME ListsSound, FilterTail, NoneAdded PROVE OneSeen \/ Visited' = Groups!Idle
  OBVIOUS
<1>1. Visiting({"Tail"}) /\ {"Tail"} \in SUBSET PlainOps
  BY DEF FilterTail, PlainOps
<1>2. PICK c, i, r : Stands(c, i, r)
  BY <1>1, StandsSomewhere
<1>3. PICK n, t, J : n = c[i] /\ t = Groups!Rest /\ J = Groups!First(t)
  OBVIOUS
<1>4. visit.op # "Map"
  BY <1>1 DEF Visiting
<1>5. /\ r = visit.root /\ r \in Root /\ Visited.root = r /\ Grouped \in Groupings
      /\ c = Grouped.list[r] /\ Apart(c) /\ i \in 1 .. Len(c) /\ Groups!Seen = n
      /\ t = SubSeq(c, i + 1, Len(c)) /\ Len(Todo) = Len(c) - i + 1
  BY <1>2, <1>3, <1>4 DEF Stands
<1>6. c \in Seq(Node) /\ Len(c) \in Nat /\ \A j, k \in 1 .. Len(c) : c[j] = c[k] => j = k
  BY <1>5 DEF Apart
<1>7. PICK e \in Groups!Edits(Grouped, J) :
        \/ /\ reply' = <<"Keep", Groups!Seen, e.call>>
           /\ Groups!GoOn("Tail", Groups!From(e.to.list[Visited.root], t))
        \/ /\ Groups!Seen \in Groups!NonFirst(e.to.list[Visited.root])
           /\ \E d \in Groups!Edits(Groups!Removed(e.to, Visited.root, Groups!Seen), J) :
                /\ reply' = <<"Drop", Groups!Seen, e.call, Groups!Seen, d.call>>
                /\ Groups!GoOn("Tail", Groups!From(d.to.list[Visited.root], t))
        \/ Visited' = Groups!Idle
  BY <1>3, AbstractFilterTail DEF Groups!FilterRest, Groups!End
<1>8. ASSUME NEW d, Shorter(d, c, J), Groups!GoOn("Tail", Groups!From(d, t)) PROVE OneSeen
  <2>1. Len(Groups!From(d, t)) \in Nat /\ Len(Groups!From(d, t)) <= Len(c) - i
    BY <1>3, <1>5, <1>8, FromShortens
  <2>2. Visited'.todo = Groups!From(d, t) /\ Visited'.fuel = visit.fuel - 1
    BY <1>2, <1>8, WentOn
  <2> QED BY <1>5, <1>6, <2>1, <2>2 DEF OneSeen
<1>9. CASE /\ reply' = <<"Keep", Groups!Seen, e.call>>
           /\ Groups!GoOn("Tail", Groups!From(e.to.list[Visited.root], t))
  <2>1. Leaves(e.call, r)
    BY <1>5, <1>9, CallAt3
  <2>2. Shorter(e.to.list[r], c, J)
    BY <1>5, <2>1, EditShortens
  <2> QED BY <1>5, <1>8, <1>9, <2>2
<1>10. CASE /\ Groups!Seen \in Groups!NonFirst(e.to.list[Visited.root])
            /\ \E d \in Groups!Edits(Groups!Removed(e.to, Visited.root, Groups!Seen), J) :
                 /\ reply' = <<"Drop", Groups!Seen, e.call, Groups!Seen, d.call>>
                 /\ Groups!GoOn("Tail", Groups!From(d.to.list[Visited.root], t))
  <2>1. n \in Groups!NonFirst(e.to.list[r])
    BY <1>5, <1>10
  <2>2. PICK d \in Groups!Edits(Groups!Removed(e.to, r, n), J) :
          /\ reply' = <<"Drop", n, e.call, n, d.call>>
          /\ Groups!GoOn("Tail", Groups!From(d.to.list[r], t))
    BY <1>5, <1>10
  <2>3. Leaves(e.call, r) /\ Leaves(d.call, r)
    BY <1>5, <2>2, CallsAt3And5
  <2>4. e.to \in Groupings /\ Shorter(e.to.list[r], c, J)
    BY <1>5, <2>3, EditShortens
  <2>5. Apart(e.to.list[r])
    BY <2>4 DEF Shorter
  <2>6. n \in Nodes(e.to.list[r])
    <3>1. PICK b \in Seq(Node) : b = e.to.list[r]
      BY <2>5 DEF Apart
    <3>2. PICK k \in 2 .. Len(b) : n = b[k]
      BY <2>1, <3>1 DEF Groups!NonFirst
    <3>3. k \in 1 .. Len(b)
      BY <3>1, <3>2
    <3> QED BY <3>1, <3>2, <3>3, NodesOf
  <2>7. n \notin J
    <3>1. ASSUME n \in J PROVE FALSE
      <4>1. \A m \in Node : m \in Groups!First(SubSeq(c, i + 1, Len(c))) => m = At(c, i + 1)
        BY <1>5, <1>6, RestIs
      <4>2. n \in Node
        BY <1>3, <1>5, <1>6, NodesOf
      <4>3. n = At(c, i + 1)
        BY <1>3, <1>5, <3>1, <4>1, <4>2
      <4>4. i + 1 \in 1 .. Len(c) /\ c[i] = c[i + 1]
        <5>1. n # None
          BY <1>3, <1>5, <1>6, NodesOf
        <5> QED BY <1>3, <4>3, <5>1 DEF At
      <4> QED BY <1>5, <1>6, <4>4
    <3> QED BY <3>1
  <2>8. Shorter(d.to.list[r], e.to.list[r], J)
    BY <1>5, <2>2, <2>3, <2>4, <2>5, <2>6, <2>7, DropShortens
  <2>9. Shorter(d.to.list[r], c, J)
    BY <1>5, <2>4, <2>8, ShorterStill
  <2> QED BY <1>8, <2>2, <2>9
<1> QED BY <1>7, <1>9, <1>10

\* Until a node is kept, a filter stands on the first node.
OnFirst == visit.op = "Prefix" => visit.at = world.heads[visit.root]

LEMMA PrefixBounded ==
  ListsSound /\ OnFirst /\ FilterPrefix /\ NoneAdded => OneSeen \/ Visited' = Groups!Idle
<1> SUFFICES ASSUME ListsSound, OnFirst, FilterPrefix, NoneAdded
             PROVE  OneSeen \/ Visited' = Groups!Idle
  OBVIOUS
<1>1. Visiting({"Prefix"}) /\ {"Prefix"} \in SUBSET PlainOps
  BY DEF FilterPrefix, PlainOps
<1>2. PICK c, i, r : Stands(c, i, r)
  BY <1>1, StandsSomewhere
<1>3. visit.op = "Prefix" /\ visit.op # "Map"
  BY <1>1 DEF Visiting
<1>4. /\ r = visit.root /\ r \in Root /\ Visited.root = r /\ Grouped \in Groupings
      /\ c = Grouped.list[r] /\ Apart(c) /\ i \in 1 .. Len(c)
      /\ visit.at = c[i] /\ world.heads[r] = c[1] /\ Len(Todo) = Len(c) - i + 1
  BY <1>2, <1>3 DEF Stands
<1>5. c \in Seq(Node) /\ Len(c) \in Nat /\ \A j, k \in 1 .. Len(c) : c[j] = c[k] => j = k
  BY <1>4 DEF Apart
<1>6. Len(Todo) = Len(c)
  <2>1. c[i] = c[1] /\ 1 \in 1 .. Len(c)
    BY <1>3, <1>4, <1>5 DEF OnFirst
  <2>2. i = 1
    BY <1>4, <1>5, <2>1
  <2> QED BY <1>4, <1>5, <2>2
<1>7. PICK J : J = {}
  OBVIOUS
<1>8. \E e \in Groups!Edits(Grouped, {}) :
        \/ Visited' = Groups!Idle
        \/ /\ e.to.list[Visited.root] # <<>>
           /\ reply' = <<"Keep", Groups!Seen, e.call>>
           /\ Groups!GoOn("Tail", Tail(e.to.list[Visited.root]))
        \/ /\ e.to.list[Visited.root] # <<>>
           /\ \E d \in Groups!Edits(Groups!Removed(e.to, Visited.root, Head(e.to.list[Visited.root])), {}) :
                /\ reply' = <<"Drop", Groups!Seen, e.call, Head(e.to.list[Visited.root]), d.call>>
                /\ Groups!GoOn("Prefix", d.to.list[Visited.root])
  BY AbstractFilterPrefix DEF Groups!FilterFirst, Groups!End
<1>9. PICK e \in Groups!Edits(Grouped, J) :
        \/ Visited' = Groups!Idle
        \/ /\ e.to.list[r] # <<>>
           /\ reply' = <<"Keep", Groups!Seen, e.call>>
           /\ Groups!GoOn("Tail", Tail(e.to.list[r]))
        \/ /\ e.to.list[r] # <<>>
           /\ \E d \in Groups!Edits(Groups!Removed(e.to, r, Head(e.to.list[r])), J) :
                /\ reply' = <<"Drop", Groups!Seen, e.call, Head(e.to.list[r]), d.call>>
                /\ Groups!GoOn("Prefix", d.to.list[r])
  BY <1>4, <1>7, <1>8
<1>10. ASSUME Leaves(e.call, r)
       PROVE  e.to \in Groupings /\ Apart(e.to.list[r]) /\ Len(e.to.list[r]) <= Len(c)
  <2>1. e.to \in Groupings /\ Shorter(e.to.list[r], c, J)
    BY <1>4, <1>10, EditShortens
  <2> QED BY <2>1 DEF Shorter
<1>11. CASE /\ e.to.list[r] # <<>>
            /\ reply' = <<"Keep", Groups!Seen, e.call>>
            /\ Groups!GoOn("Tail", Tail(e.to.list[r]))
  <2>1. Leaves(e.call, r)
    BY <1>4, <1>11, CallAt3
  <2>2. PICK b \in Seq(Node) : b = e.to.list[r] /\ Len(b) <= Len(c) /\ b # <<>>
    BY <1>10, <1>11, <2>1 DEF Apart
  <2>3. Len(Tail(b)) = Len(b) - 1 /\ Len(Tail(b)) \in Nat
    BY <2>2
  <2>4. Visited'.todo = Tail(b) /\ Visited'.fuel = visit.fuel - 1
    BY <1>2, <1>11, <2>2, WentOn
  <2> QED BY <1>5, <1>6, <2>2, <2>3, <2>4 DEF OneSeen
<1>12. CASE /\ e.to.list[r] # <<>>
            /\ \E d \in Groups!Edits(Groups!Removed(e.to, r, Head(e.to.list[r])), J) :
                 /\ reply' = <<"Drop", Groups!Seen, e.call, Head(e.to.list[r]), d.call>>
                 /\ Groups!GoOn("Prefix", d.to.list[r])
  <2>1. PICK n : n = Head(e.to.list[r])
    OBVIOUS
  <2>2. PICK d \in Groups!Edits(Groups!Removed(e.to, r, n), J) :
          /\ reply' = <<"Drop", Groups!Seen, e.call, n, d.call>>
          /\ Groups!GoOn("Prefix", d.to.list[r])
    BY <1>12, <2>1
  <2>3. Leaves(e.call, r) /\ Leaves(d.call, r)
    BY <1>4, <2>2, CallsAt3And5
  <2>4. n \in Nodes(e.to.list[r]) \ J
    <3>1. PICK b \in Seq(Node) : b = e.to.list[r] /\ b # <<>>
      BY <1>10, <1>12, <2>3 DEF Apart
    <3>2. 1 \in 1 .. Len(b) /\ n = b[1]
      BY <2>1, <3>1
    <3>3. n \in Nodes(b)
      BY <3>1, <3>2, NodesOf
    <3> QED BY <1>7, <3>1, <3>3
  <2>5. e.to \in Groupings /\ Apart(e.to.list[r]) /\ Len(e.to.list[r]) <= Len(c)
    BY <1>10, <2>3
  <2>6. Shorter(d.to.list[r], e.to.list[r], J) /\ Len(d.to.list[r]) <= Len(e.to.list[r]) - 1
    BY <1>4, <2>2, <2>3, <2>4, <2>5, DropShortens
  <2>7. PICK b, f : b = e.to.list[r] /\ f = d.to.list[r]
    OBVIOUS
  <2>8. Len(b) \in Nat /\ Len(f) \in Nat
    BY <2>5, <2>6, <2>7 DEF Apart, Shorter
  <2>9. Visited'.todo = f /\ Visited'.fuel = visit.fuel - 1
    BY <1>2, <2>2, <2>7, WentOn
  <2> QED BY <1>5, <1>6, <2>5, <2>6, <2>7, <2>8, <2>9 DEF OneSeen
<1> QED BY <1>9, <1>11, <1>12

LEMMA OnFirstInit == ListsInit => OnFirst
BY DEF ListsInit, OnFirst, Idle

(* The steps that leave a filter where it has kept no node yet.            *)
LEMMA OnFirstNext ==
  ASSUME ListsSound, OnFirst, [ListsNext]_listsVars
  PROVE  OnFirst'
<1>1. CASE UNCHANGED listsVars
  BY <1>1 DEF OnFirst, listsVars
<1>2. ASSUME visit' = Idle PROVE OnFirst'
  BY <1>2 DEF OnFirst, Idle
<1>3. ASSUME visit'.op # "Prefix" PROVE OnFirst'
  BY <1>3 DEF OnFirst
<1>4. CASE EditCall
  BY <1>2, <1>4 DEF EditCall, Call
<1>5. CASE \E s \in UNION {[1 .. k -> Node] : k \in 0 .. MaxBound} :
             PoolNew(s) \/ \E r \in Root : Build(r, s)
  <2>1. visit' = Idle
    BY <1>5, Zenon DEF PoolNew, Build, Call
  <2> QED BY <1>2, <2>1
<1>6. CASE \E r \in Root : Query(r)
  BY <1>2, <1>6, Zenon DEF Query, Call
<1>7. CASE \E r \in Root : \E fuel \in 0 .. MaxBound :
             \E op \in {"ForEach", "Find", "Count", "Prefix"} : Begin(op, r, fuel)
  <2>1. PICK op, r, fuel : Begin(op, r, fuel)
    BY <1>7
  <2>2. visit'.root = r /\ visit'.at = world.heads[r] /\ world' = world
    BY <2>1 DEF Begin, Started
  <2> QED BY <2>2 DEF OnFirst
<1>8. CASE \E r \in Root : \E fuel \in 0 .. MaxBound : \E op \in {"Map", "Clear"} : Refused(op, r, fuel)
  BY <1>2, <1>8, Zenon DEF Refused, Call
<1>9. CASE \E r \in Root : \E fuel \in 0 .. MaxBound : BeginMap(r, fuel)
  <2>1. visit'.op = "Map"
    BY <1>9 DEF BeginMap, Started
  <2> QED BY <1>3, <2>1
<1>10. CASE \E r \in Root : \E fuel \in 0 .. MaxBound : BeginClear(r, fuel)
  <2>1. visit' = Idle \/ visit'.op = "Clear"
    BY <1>10 DEF BeginClear, Started, Call
  <2> QED BY <1>2, <1>3, <2>1
<1>11. CASE Finish \/ Hit \/ ClearFirst
  BY <1>2, <1>11, Zenon DEF Finish, Hit, ClearFirst, End
<1>12. ASSUME NEW ops \in SUBSET PlainOps, Visiting(ops)
       PROVE  /\ visit.op # "Idle" /\ visit.op \in ops
              /\ visit \in [op : PlainOps, root : Root, at : Node \cup {None}, fuel : Nat,
                            head : Node \cup {None}]
  <2>1. PICK C : Plain(visit, C) /\ visit.op \in ops
    BY <1>12, AtPlace
  <2> QED BY <2>1, PlainIs
<1>13. CASE VisitEach
  <2>1. Visiting({"ForEach"}) /\ {"ForEach"} \in SUBSET PlainOps
    BY <1>13 DEF VisitEach, PlainOps
  <2>2. PICK at : GoOn("ForEach", at)
    BY <1>13 DEF VisitEach
  <2>3. visit'.op = "ForEach"
    BY <1>12, <2>1, <2>2, Going
  <2> QED BY <1>3, <2>3
<1>14. CASE VisitStaying
  <2>1. Visiting({"Find", "Count", "Map"}) /\ {"Find", "Count", "Map"} \in SUBSET PlainOps
    BY <1>14 DEF VisitStaying, PlainOps
  <2>2. PICK at, op : GoOn(op, at) /\ op = visit.op
    BY <1>14 DEF VisitStaying
  <2>3. op # "Idle" /\ op # "Prefix"
    BY <1>12, <2>1, <2>2
  <2>4. visit'.op = op
    BY <1>12, <2>1, <2>2, <2>3, Going
  <2> QED BY <1>3, <2>3, <2>4
<1>15. CASE FilterTail
  <2>1. Visiting({"Tail"}) /\ {"Tail"} \in SUBSET PlainOps
    BY <1>15 DEF FilterTail, PlainOps
  <2>2. visit' = Idle \/ \E at : GoOn("Tail", at)
    BY <1>15, ZenonT(40) DEF FilterTail, End
  <2>3. ASSUME NEW at, GoOn("Tail", at) PROVE visit'.op = "Tail"
    BY <1>12, <2>1, <2>3, Going
  <2> QED BY <1>2, <1>3, <2>2, <2>3
<1>16. CASE FilterPrefix
  <2>1. Visiting({"Prefix"}) /\ {"Prefix"} \in SUBSET PlainOps
    BY <1>16 DEF FilterPrefix, PlainOps
  <2>2. \/ visit' = Idle
        \/ \E at : GoOn("Tail", at)
        \/ \E d : world' = d /\ GoOn("Prefix", d.heads[visit.root])
    BY <1>16, ZenonT(40) DEF FilterPrefix, FilterKept, End
  <2>3. ASSUME NEW at, GoOn("Tail", at) PROVE visit'.op = "Tail"
    BY <1>12, <2>1, <2>3, Going
  <2>4. ASSUME NEW d, world' = d, GoOn("Prefix", d.heads[visit.root]) PROVE OnFirst'
    <3>1. visit \in [op : PlainOps, root : Root, at : Node \cup {None}, fuel : Nat,
                     head : Node \cup {None}]
      BY <1>12, <2>1
    <3>2. visit'.at = d.heads[visit.root] /\ visit'.root = visit.root
      BY <2>4, <3>1 DEF GoOn
    <3> QED BY <2>4, <3>2 DEF OnFirst
  <2> QED BY <1>2, <1>3, <2>2, <2>3, <2>4
<1>17. CASE ClearRest
  <2>1. visit.op = "Clear" /\ \E at : GoOn("Clear", at)
    BY <1>17 DEF ClearRest, Visiting
  <2>2. PICK C, X, y : World(world, C, X) /\ Travels(world, visit, C, X, y)
    BY DEF ListsSound
  <2>3. visit \in [op : {"Clear"}, root : Root, at : Node \cup {None}, fuel : Nat, head : Node]
    <3>1. ~ Plain(visit, C)
      BY <2>1, PlainIs
    <3>2. visit # Idle
      BY <2>1 DEF Idle
    <3> QED BY <2>2, <3>1, <3>2 DEF Travels, Clearing
  <2>4. visit'.op = "Clear"
    BY <2>1, <2>3 DEF GoOn
  <2> QED BY <1>3, <2>4
<1> QED BY <1>1, <1>4, <1>5, <1>6, <1>7, <1>8, <1>9, <1>10, <1>11, <1>13, <1>14, <1>15, <1>16,
           <1>17, Zenon DEF ListsNext

LEMMA OnFirstAlways == ListsSpec => []OnFirst
<1>1. ListsSound /\ OnFirst /\ [ListsNext]_listsVars => OnFirst'
  BY OnFirstNext
<1> QED BY <1>1, OnFirstInit, SoundAlways, PTL DEF ListsSpec

\* What BoundGoesOnSufficing says of a step.
BoundGoesOn ==
  /\ visit.op \notin {"Idle", "Clear"} /\ visit'.op # "Idle"
  /\ Len(Todo) <= visit.fuel
  /\ \A k \in {3, 5} \cap DOMAIN reply' : reply'[k] \notin AddsTo(visit.root)
  => Len(Todo') <= visit'.fuel

LEMMA BoundGoesOnNext == ListsSound /\ OnFirst /\ ListsNext => BoundGoesOn
<1> SUFFICES ASSUME ListsSound, OnFirst, ListsNext,
                    visit.op # "Idle", visit.op # "Clear", visit'.op # "Idle",
                    Len(Todo) <= visit.fuel, NoneAdded
             PROVE  Len(Todo') <= visit'.fuel
  BY DEF BoundGoesOn, NoneAdded, Leaves
<1>1. visit # Idle /\ visit' # Idle
  BY DEF Idle
<1>2. VisitEach \/ VisitStaying \/ FilterPrefix \/ FilterTail
  <2>1. ~ EditCall
    BY <1>1 DEF EditCall, Call
  <2>2. ~ \E s \in UNION {[1 .. k -> Node] : k \in 0 .. MaxBound} :
            PoolNew(s) \/ \E r \in Root : Build(r, s)
    BY <1>1, Zenon DEF PoolNew, Build, Call
  <2>3. ~ \E r \in Root : Query(r)
    BY <1>1, Zenon DEF Query, Call
  <2>4. ~ \E r \in Root : \E fuel \in 0 .. MaxBound :
            \/ \E op \in {"ForEach", "Find", "Count", "Prefix"} : Begin(op, r, fuel)
            \/ \E op \in {"Map", "Clear"} : Refused(op, r, fuel)
            \/ BeginMap(r, fuel)
            \/ BeginClear(r, fuel)
    BY <1>1, Zenon DEF Begin, Refused, BeginMap, BeginClear, Started, Call
  <2>5. ~ Finish /\ ~ Hit
    BY <1>1, Zenon DEF Finish, Hit, End
  <2>6. ~ ClearRest /\ ~ ClearFirst
    BY DEF ClearRest, ClearFirst, Visiting
  <2> QED BY <2>1, <2>2, <2>3, <2>4, <2>5, <2>6, Zenon DEF ListsNext
<1>3. Visited' = [op |-> visit'.op, root |-> visit'.root, fuel |-> visit'.fuel, todo |-> Todo']
  BY <1>1 DEF Visited
<1>4. Visited' # Groups!Idle
  BY <1>3 DEF Groups!Idle
<1>5. OneSeen
  BY <1>2, <1>4, EachBounded, StayingBounded, PrefixBounded, TailBounded
<1>6. Visited'.todo = Todo' /\ Visited'.fuel = visit'.fuel
  BY <1>3
<1>7. visit.fuel \in Nat
  <2>1. PICK ops \in SUBSET PlainOps : Visiting(ops)
    BY <1>2 DEF VisitEach, VisitStaying, FilterPrefix, FilterTail, PlainOps
  <2>2. PICK c, i, r : Stands(c, i, r)
    BY <2>1, StandsSomewhere
  <2> QED BY <2>2 DEF Stands
<1> QED BY <1>5, <1>6, <1>7 DEF OneSeen

(* While callbacks put no node into the list visited, a step bound that    *)
(* covers the nodes left to see goes on covering them, whatever else they  *)
(* remove, move and recycle, the node visited included (fold_left, find,   *)
(* count, map and filter of intrusive_list.bend).                          *)
THEOREM BoundAlwaysSuffices == ListsSpec => BoundGoesOnSufficing
<1>1. ListsSound /\ OnFirst /\ [ListsNext]_listsVars => [BoundGoesOn]_listsVars
  BY BoundGoesOnNext
<1>2. ListsSpec => [][BoundGoesOn]_listsVars
  BY <1>1, SoundAlways, OnFirstAlways, PTL DEF ListsSpec
<1> QED BY <1>2 DEF BoundGoesOnSufficing, BoundGoesOn
=============================================================================
