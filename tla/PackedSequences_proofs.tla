----------------------- MODULE PackedSequences_proofs ------------------------
(***************************************************************************)
(* Proofs about the containers of MCSequences that pack a sequence: the    *)
(* stack of chunks, and the list and the set of bits in words.  Together   *)
(* with Sequences_proofs they say that each container is the sequence it   *)
(* promises.                                                               *)
(***************************************************************************)
EXTENDS Sequences_proofs

-----------------------------------------------------------------------------
(* The stack.  A sequence of sequences, joined.                            *)

LEMMA FlattenedIs ==
  ASSUME NEW Lists, Joinable(Lists), NEW ss \in Seq(Lists), NEW g, JoinedUpTo(Lists, ss, g)
  PROVE  S!FlattenSeq(ss) = g[Len(ss)]
<1>1. PICK n \in Nat : n = Len(ss)
  OBVIOUS
<1>2. CASE n = 0
  <2>1. Len(ss) = 0 /\ ss = <<>>
    <3>1. Len(ss) = 0
      BY <1>1, <1>2
    <3> QED BY <3>1
  <2>2. S!FlattenSeq(ss) = ss
    BY <2>1 DEF S!FlattenSeq
  <2>3. g[Len(ss)] = <<>>
    BY <2>1 DEF JoinedUpTo
  <2> QED BY <2>1, <2>2, <2>3
<1>3. CASE n # 0
  <2> DEFINE Eq(f) == f = [i \in 1 .. n |-> IF i = 1 THEN ss[i] ELSE f[i - 1] \o ss[i]]
             h == [i \in 1 .. n |-> g[i]]
  <2>1. \A i \in 1 .. n : g[i] = g[i - 1] \o ss[i]
    <3> SUFFICES ASSUME NEW i \in 1 .. n PROVE g[i] = g[i - 1] \o ss[i]
      OBVIOUS
    <3>1. PICK k \in 0 .. n - 1 : k = i - 1 /\ k + 1 = i
      OBVIOUS
    <3> QED BY <3>1, <1>1 DEF JoinedUpTo
  <2>2. \A i \in 1 .. n : ss[i] \in Lists
    BY <1>1
  <2>3. ASSUME NEW i \in 1 .. n
        PROVE  h[i] = IF i = 1 THEN ss[i] ELSE h[i - 1] \o ss[i]
    <3>1. CASE i = 1
      <4>1. g[1] = <<>> \o ss[1] /\ 1 \in 1 .. n
        <5>1. 1 \in 1 .. n /\ 1 - 1 = 0 /\ g[0] = <<>>
          BY <3>1 DEF JoinedUpTo
        <5>2. g[1] = g[1 - 1] \o ss[1]
          BY <5>1, <2>1
        <5> QED BY <5>1, <5>2
      <4>2. <<>> \o ss[1] = ss[1]
        BY <4>1, <2>2 DEF Joinable
      <4> QED BY <3>1, <4>1, <4>2
    <3>2. CASE i # 1
      <4>1. i - 1 \in 1 .. n /\ h[i - 1] = g[i - 1] /\ h[i] = g[i]
        BY <3>2
      <4> QED BY <3>2, <4>1, <2>1
    <3> QED BY <3>1, <3>2
  <2>4. Eq(h)
    BY <2>3
  <2>5. PICK f : f = CHOOSE x : Eq(x)
    BY Zenon
  <2> HIDE DEF h
  <2>6. Eq(f)
    BY <2>4, <2>5, Zenon
  <2>7. S!FlattenSeq(ss) = f[n]
    BY <1>1, <1>3, <2>5 DEF S!FlattenSeq
  <2> DEFINE T == {k \in 0 .. n - 1 : f[k + 1] = h[k + 1]}
  <2>8. 0 \in T
    BY <1>3, <2>4, <2>6
  <2>9. ASSUME NEW k \in 0 .. (n - 1) - 1, k \in T PROVE k + 1 \in T
    <3>1. k + 1 \in 1 .. n /\ (k + 1) + 1 \in 1 .. n /\ (k + 1) + 1 # 1
          /\ ((k + 1) + 1) - 1 = k + 1 /\ k + 1 \in 0 .. n - 1
      OBVIOUS
    <3>2. f[(k + 1) + 1] = f[k + 1] \o ss[(k + 1) + 1]
      BY <3>1, <2>6
    <3>3. h[(k + 1) + 1] = h[k + 1] \o ss[(k + 1) + 1]
      BY <3>1, <2>4
    <3>4. f[k + 1] = h[k + 1]
      BY <2>9
    <3> QED BY <3>1, <3>2, <3>3, <3>4
  <2> HIDE DEF T
  <2>10. n - 1 \in Nat /\ n - 1 \in 0 .. n - 1 /\ (n - 1) + 1 = n /\ n \in 1 .. n
    BY <1>3
  <2>11. n - 1 \in T
    <3>1. PICK p \in Nat : p = n - 1
      BY <2>10
    <3>2. \A k \in 0 .. p - 1 : k \in T => k + 1 \in T
      BY <3>1, <2>9
    <3>3. \A k \in 0 .. p : k \in T
      BY <2>8, <3>2, BoundedInduction
    <3> QED BY <3>1, <3>3
  <2>12. f[n] = h[n]
    BY <2>10, <2>11 DEF T
  <2> QED BY <1>1, <2>7, <2>10, <2>12 DEF h
<1> QED BY <1>2, <1>3

LEMMA FlattenedFront ==
  ASSUME NEW Lists, Joinable(Lists), NEW s \in Lists, NEW rest \in Seq(Lists), NEW ss \in Seq(Lists),
         Len(ss) = Len(rest) + 1, ss[1] = s, \A k \in 1 .. Len(rest) : ss[k + 1] = rest[k]
  PROVE  /\ S!FlattenSeq(rest) \in Lists
         /\ S!FlattenSeq(ss) = s \o S!FlattenSeq(rest)
<1>1. PICK n \in Nat : n = Len(rest)
  OBVIOUS
<1>2. PICK g : JoinedUpTo(Lists, rest, g)
  BY JoinedUpToExists
<1>3. S!FlattenSeq(rest) = g[n] /\ g[n] \in Lists
  <2>1. S!FlattenSeq(rest) = g[n]
    BY <1>1, <1>2, FlattenedIs
  <2>2. n \in 0 .. n /\ g \in [0 .. n -> Lists]
    BY <1>1, <1>2 DEF JoinedUpTo
  <2> QED BY <2>1, <2>2
<1>4. ss \in Seq(Lists) /\ Len(ss) = n + 1 /\ ss[1] = s
      /\ \A k \in 1 .. n : ss[k + 1] = rest[k]
  BY <1>1
<1> DEFINE h == [k \in 0 .. n + 1 |-> IF k = 0 THEN <<>> ELSE s \o g[k - 1]]
<1>5. g \in [0 .. n -> Lists] /\ g[0] = <<>>
      /\ \A k \in 0 .. n - 1 : g[k + 1] = g[k] \o rest[k + 1]
  BY <1>1, <1>2 DEF JoinedUpTo
<1>6. \A k \in 1 .. n + 1 : k - 1 \in 0 .. n /\ k \in 0 .. n + 1 /\ k # 0
  OBVIOUS
<1>7. \A k \in 1 .. n + 1 : h[k] = s \o g[k - 1] /\ s \o g[k - 1] \in Lists
  <2> SUFFICES ASSUME NEW k \in 1 .. n + 1
               PROVE  h[k] = s \o g[k - 1] /\ s \o g[k - 1] \in Lists
    OBVIOUS
  <2>1. h[k] = s \o g[k - 1]
    BY <1>6
  <2>2. g[k - 1] \in Lists
    BY <1>5, <1>6
  <2> QED BY <2>1, <2>2 DEF Joinable
<1>8. h \in [0 .. n + 1 -> Lists]
  <2> SUFFICES ASSUME NEW k \in 0 .. n + 1 PROVE h[k] \in Lists
    OBVIOUS
  <2>1. CASE k = 0
    BY <2>1 DEF Joinable
  <2>2. CASE k # 0
    <3>1. k \in 1 .. n + 1
      BY <2>2
    <3> QED BY <3>1, <1>7
  <2> QED BY <2>1, <2>2
<1>9. h[0] = <<>>
  OBVIOUS
<1> HIDE DEF h
<1>10. ASSUME NEW k \in 0 .. n PROVE h[k + 1] = h[k] \o ss[k + 1]
  <2>1. k + 1 \in 1 .. n + 1 /\ (k + 1) - 1 = k
    OBVIOUS
  <2>2. h[k + 1] = s \o g[k]
    BY <2>1, <1>7
  <2>3. CASE k = 0
    <3>1. s \o g[0] = s /\ <<>> \o s = s
      BY <1>5 DEF Joinable
    <3> QED BY <2>2, <2>3, <3>1, <1>4, <1>9
  <2>4. CASE k # 0
    <3>1. PICK j \in 0 .. n - 1 : j = k - 1 /\ j + 1 = k /\ k \in 1 .. n
      BY <2>4
    <3>2. g[k] = g[j] \o rest[k] /\ g[j] \in Lists /\ rest[k] \in Lists /\ ss[k + 1] = rest[k]
      <4>1. g[k] = g[j] \o rest[k] /\ g[j] \in Lists
        <5>1. g[j + 1] = g[j] \o rest[j + 1]
          BY <1>5
        <5>2. j \in 0 .. n
          OBVIOUS
        <5>3. g[j] \in Lists
          BY <5>2, <1>5
        <5> QED BY <3>1, <5>1, <5>3
      <4>2. rest[k] \in Lists /\ ss[k + 1] = rest[k]
        BY <3>1, <1>1, <1>4
      <4> QED BY <4>1, <4>2
    <3>3. h[k] = s \o g[j]
      <4>1. k \in 1 .. n + 1
        BY <3>1
      <4> QED BY <3>1, <4>1, <1>7
    <3>4. (s \o g[j]) \o rest[k] = s \o (g[j] \o rest[k])
      <4>1. PICK a \in Lists, b \in Lists : a = g[j] /\ b = rest[k]
        BY <3>2
      <4>2. (s \o a) \o b = s \o (a \o b)
        BY DEF Joinable
      <4> QED BY <4>1, <4>2
    <3> QED BY <2>2, <3>2, <3>3, <3>4
  <2> QED BY <2>3, <2>4
<1>11. JoinedUpTo(Lists, ss, h)
  <2>1. (n + 1) - 1 = n
    OBVIOUS
  <2> QED BY <2>1, <1>4, <1>8, <1>9, <1>10 DEF JoinedUpTo
<1>12. S!FlattenSeq(ss) = h[n + 1]
  BY <1>4, <1>11, FlattenedIs
<1>13. h[n + 1] = s \o g[n]
  <2>1. n + 1 \in 1 .. n + 1 /\ (n + 1) - 1 = n
    OBVIOUS
  <2> QED BY <2>1, <1>7
<1> QED BY <1>3, <1>12, <1>13

(* Chunks.                                                                 *)

ChunkSet ==
  {c \in [d : 0 .. StackDepth, n : Nat \ {0}, count : Nat,
          arr : UNION {[S!Slots(k) -> Value \cup {NoValue}] : k \in 0 .. StackDepth}] :
     /\ c.n <= 2 ^ c.d
     /\ c.arr \in [S!Slots(c.d) -> Value \cup {NoValue}]
     /\ \A s \in S!Slots(c.d) : c.arr[s] # NoValue <=> s < c.n}

LEMMA ChunkIs ==
  ASSUME NEW c
  PROVE  c \in ChunkSet <=>
           /\ c = [d |-> c.d, n |-> c.n, count |-> c.count, arr |-> c.arr]
           /\ c.d \in 0 .. StackDepth /\ c.n \in Nat \ {0} /\ c.count \in Nat
           /\ c.n <= 2 ^ c.d
           /\ c.arr \in [S!Slots(c.d) -> Value \cup {NoValue}]
           /\ \A s \in S!Slots(c.d) : c.arr[s] # NoValue <=> s < c.n
  BY DEF ChunkSet

\* The elements of a chunk, the last one pushed first.
Chunked(c) == [i \in 1 .. c.n |-> c.arr[c.n - i]]

LEMMA ChunkSlots ==
  ASSUME NEW m \in Nat
  PROVE  /\ 2 ^ m \in Nat /\ 2 ^ m > 0 /\ 2 ^ (m + 1) = 2 * 2 ^ m
         /\ S!Slots(m) = 0 .. 2 ^ m - 1 /\ S!Slots(m + 1) = 0 .. 2 * 2 ^ m - 1
<1>1. Slots(m) = S!Slots(m) /\ Slots(m + 1) = S!Slots(m + 1)
  BY DEF Slots, S!Slots
<1> QED BY <1>1, SlotsOf

LEMMA ChunkedIs ==
  ASSUME NEW c \in ChunkSet
  PROVE  /\ S!ItemsOf(c) = Chunked(c)
         /\ Chunked(c) \in Seq(Value) /\ Len(Chunked(c)) = c.n
         /\ c.n \in Nat /\ c.n > 0 /\ Chunked(c)[1] = c.arr[c.n - 1]
         /\ c.arr[c.n - 1] # NoValue /\ Chunked(c) # <<>>
         /\ \A s \in Nat : s < c.n => c.arr[s] \in Value
<1>1. PICK n \in Nat, m \in Nat : n = c.n /\ n > 0 /\ m = c.d
  BY ChunkIs
<1>2. PICK t \in Nat : t = 2 ^ m /\ S!Slots(m) = 0 .. t - 1
  BY ChunkSlots
<1>3. PICK a : a = c.arr /\ a \in [0 .. t - 1 -> Value \cup {NoValue}]
        /\ n <= t /\ \A s \in 0 .. t - 1 : a[s] # NoValue <=> s < n
  BY <1>1, <1>2, ChunkIs
<1>4. \A s \in Nat : s < n => s \in 0 .. t - 1 /\ a[s] \in Value /\ a[s] # NoValue
  BY <1>3
<1> DEFINE Eq(f) == f = [k \in 0 .. n |->
                          IF k = 0 THEN <<>>
                          ELSE IF a[k - 1] # NoValue THEN <<a[k - 1]>> \o f[k - 1]
                          ELSE f[k - 1]]
           part(k) == [i \in 1 .. k |-> a[k - i]]
           g == [k \in 0 .. n |-> part(k)]
<1>5. ASSUME NEW k \in 0 .. n PROVE part(k) \in Seq(Value) /\ Len(part(k)) = k
  <2>1. \A i \in 1 .. k : k - i \in Nat /\ k - i < n
    OBVIOUS
  <2>2. part(k) \in [1 .. k -> Value]
    BY <2>1, <1>4
  <2> QED BY <2>2
<1>6. ASSUME NEW k \in 0 .. n
      PROVE  g[k] = IF k = 0 THEN <<>>
                    ELSE IF a[k - 1] # NoValue THEN <<a[k - 1]>> \o g[k - 1]
                    ELSE g[k - 1]
  <2>1. CASE k = 0
    BY <2>1
  <2>2. CASE k # 0
    <3>1. PICK j \in 0 .. n : j = k - 1 /\ j < n /\ j + 1 = k
      BY <2>2
    <3>2. PICK u : u = part(k)
      OBVIOUS
    <3>3. PICK w : w = part(j)
      OBVIOUS
    <3>4. PICK x \in Value : x = a[j] /\ x # NoValue
      BY <3>1, <1>4
    <3>5. u \in Seq(Value) /\ Len(u) = 1 + j /\ w \in Seq(Value) /\ Len(w) = j
          /\ <<x>> \in Seq(Value) /\ Len(<<x>>) = 1
      <4> HIDE DEF part
      <4>1. part(k) \in Seq(Value) /\ Len(part(k)) = k
        BY <1>5
      <4>2. part(j) \in Seq(Value) /\ Len(part(j)) = j
        BY <1>5
      <4>3. k = 1 + j
        BY <3>1
      <4> QED BY <3>2, <3>3, <4>1, <4>2, <4>3
    <3>6. \A i \in 1 .. 1 : u[i] = <<x>>[i]
      <4>1. 1 \in 1 .. k /\ k - 1 = j
        BY <3>1
      <4>2. u[1] = a[k - 1]
        BY <3>2, <4>1
      <4> QED BY <3>4, <4>1, <4>2
    <3>7. ASSUME NEW i \in 1 .. j PROVE u[1 + i] = w[i]
      <4>1. 1 + i \in 1 .. k /\ k - (1 + i) = j - i
        BY <3>1
      <4> QED BY <4>1, <3>2, <3>3
    <3>8. u = <<x>> \o w
      <4>1. Len(u) = Len(<<x>>) + Len(w)
        BY <3>5
      <4>2. \A i \in 1 .. Len(<<x>>) : u[i] = <<x>>[i]
        BY <3>5, <3>6
      <4>3. \A i \in 1 .. Len(w) : u[Len(<<x>>) + i] = w[i]
        BY <3>5, <3>7
      <4>4. PICK y : y = <<x>>
        OBVIOUS
      <4> QED BY <3>5, <4>1, <4>2, <4>3, <4>4, JoinIs
    <3>9. g[k] = u /\ g[j] = w
      BY <3>2, <3>3
    <3> HIDE DEF g, part
    <3> QED BY <2>2, <3>1, <3>4, <3>8, <3>9
  <2> QED BY <2>1, <2>2
<1>7. Eq(g)
  BY <1>6
<1>8. PICK f : f = CHOOSE x : Eq(x)
  BY Zenon
<1>9. S!ItemsOf(c) = f[n]
  BY <1>1, <1>3, <1>8 DEF S!ItemsOf
<1> HIDE DEF g, part
<1>10. Eq(f)
  BY <1>7, <1>8, Zenon
<1> DEFINE T == {k \in 0 .. n : f[k] = g[k]}
<1>11. 0 \in T
  BY <1>7, <1>10
<1>12. ASSUME NEW k \in 0 .. n - 1, k \in T PROVE k + 1 \in T
  <2>1. k + 1 \in 0 .. n /\ k + 1 # 0 /\ (k + 1) - 1 = k
    OBVIOUS
  <2>2. f[k + 1] = IF a[k] # NoValue THEN <<a[k]>> \o f[k] ELSE f[k]
    BY <2>1, <1>10
  <2>3. g[k + 1] = IF a[k] # NoValue THEN <<a[k]>> \o g[k] ELSE g[k]
    BY <2>1, <1>7
  <2>4. f[k] = g[k]
    BY <1>12
  <2> QED BY <2>1, <2>2, <2>3, <2>4
<1> HIDE DEF T
<1>13. n \in T /\ n \in 0 .. n
  BY <1>11, <1>12, BoundedInduction
<1>14. f[n] = part(n)
  BY <1>13 DEF T, g
<1>15. Chunked(c) = part(n)
  BY <1>1, <1>3 DEF Chunked, part
<1>16. part(n)[1] = a[n - 1] /\ n - 1 \in Nat /\ n - 1 < n
  BY <1>1 DEF part
<1>17. part(n) \in Seq(Value) /\ Len(part(n)) = n
  BY <1>5, <1>13
<1>18. part(n) # <<>>
  BY <1>1, <1>17
<1>19. a[n - 1] # NoValue /\ \A s \in Nat : s < n => a[s] \in Value
  BY <1>4, <1>16
<1> QED BY <1>1, <1>3, <1>9, <1>14, <1>15, <1>16, <1>17, <1>18, <1>19

(* Chunks upon chunks.  Below the top one they are full, and each counts   *)
(* the elements from it down.                                              *)

StackShape(cs) ==
  /\ cs \in Seq(ChunkSet)
  /\ \A k \in 1 .. Len(cs) :
       /\ k > 1 => cs[k].n = 2 ^ StackDepth /\ cs[k].d = StackDepth
       /\ cs[k].count = cs[k].n + (IF k < Len(cs) THEN cs[k + 1].count ELSE 0)

StackItems(cs) == S!FlattenSeq([k \in DOMAIN cs |-> S!ItemsOf(cs[k])])

\* c may lie on the chunks of `rest'.
LiesOn(c, rest) ==
  /\ c.count = c.n + S!CountOf(rest)
  /\ rest # <<>> => rest[1].n = 2 ^ StackDepth /\ rest[1].d = StackDepth

LEMMA StackPut ==
  ASSUME NEW c \in ChunkSet, NEW rest, StackShape(rest), LiesOn(c, rest),
         NEW cs, cs = <<c>> \o rest
  PROVE  StackShape(cs) /\ cs # <<>> /\ cs[1] = c /\ Tail(cs) = rest
<1>1. PICK n \in Nat : n = Len(rest) /\ rest \in Seq(ChunkSet)
  BY DEF StackShape
<1>2. /\ cs \in Seq(ChunkSet) /\ Len(cs) = n + 1 /\ cs # <<>> /\ cs[1] = c
      /\ Tail(cs) = rest /\ \A k \in 1 .. n : cs[k + 1] = rest[k]
  BY <1>1
<1>3. ASSUME NEW k \in 1 .. n + 1
      PROVE  /\ k > 1 => cs[k].n = 2 ^ StackDepth /\ cs[k].d = StackDepth
             /\ cs[k].count = cs[k].n + (IF k < n + 1 THEN cs[k + 1].count ELSE 0)
  <2>1. CASE k = 1
    <3>1. CASE n = 0
      <4>1. rest = <<>> /\ ~ (k < n + 1)
        BY <2>1, <3>1, <1>1
      <4>2. c.count = c.n + 0
        BY <4>1 DEF LiesOn, S!CountOf
      <4> QED BY <2>1, <4>1, <4>2, <1>2
    <3>2. CASE n # 0
      <4>1. rest # <<>> /\ k < n + 1 /\ 1 \in 1 .. n
        BY <2>1, <3>2, <1>1
      <4>2. c.count = c.n + rest[1].count
        BY <4>1 DEF LiesOn, S!CountOf
      <4>3. cs[1 + 1] = rest[1]
        BY <4>1, <1>2
      <4> QED BY <2>1, <4>1, <4>2, <4>3, <1>2
    <3> QED BY <3>1, <3>2
  <2>2. CASE k # 1
    <3>1. PICK j \in 1 .. n : j = k - 1 /\ j + 1 = k
      BY <2>2
    <3>2. cs[k] = rest[j]
      BY <3>1, <1>2
    <3>3. /\ j > 1 => rest[j].n = 2 ^ StackDepth /\ rest[j].d = StackDepth
          /\ rest[j].count = rest[j].n + (IF j < n THEN rest[j + 1].count ELSE 0)
      BY <1>1 DEF StackShape
    <3>4. rest[j].n = 2 ^ StackDepth /\ rest[j].d = StackDepth
      <4>1. CASE j = 1
        <5>1. rest # <<>>
          BY <4>1, <1>1
        <5> QED BY <4>1, <5>1 DEF LiesOn
      <4>2. CASE j # 1
        <5>1. j > 1
          BY <4>2
        <5> QED BY <5>1, <3>3
      <4> QED BY <4>1, <4>2
    <3>5. CASE j < n
      <4>1. k < n + 1 /\ j + 1 \in 1 .. n /\ (j + 1) + 1 = k + 1
        BY <3>1, <3>5
      <4>2. cs[k + 1] = rest[j + 1]
        BY <4>1, <1>2
      <4> QED BY <3>2, <3>3, <3>4, <3>5, <4>1, <4>2
    <3>6. CASE ~ (j < n)
      <4>1. ~ (k < n + 1)
        BY <3>1, <3>6
      <4> QED BY <3>2, <3>3, <3>4, <3>6, <4>1
    <3> QED BY <3>5, <3>6
  <2> QED BY <2>1, <2>2
<1> QED BY <1>2, <1>3 DEF StackShape

LEMMA StackSplit ==
  ASSUME NEW cs, StackShape(cs), cs # <<>>
  PROVE  \E c \in ChunkSet, rest \in Seq(ChunkSet) :
           /\ c = cs[1] /\ rest = Tail(cs) /\ cs = <<c>> \o rest
           /\ StackShape(rest) /\ LiesOn(c, rest) /\ Len(cs) = Len(rest) + 1
<1>1. cs \in Seq(ChunkSet)
  BY DEF StackShape
<1>2. PICK c \in ChunkSet, rest \in Seq(ChunkSet), n \in Nat :
        c = cs[1] /\ rest = Tail(cs) /\ cs = <<c>> \o rest /\ n = Len(rest)
        /\ Len(cs) = n + 1
  <2>1. /\ cs[1] \in ChunkSet /\ Tail(cs) \in Seq(ChunkSet) /\ Len(Tail(cs)) = Len(cs) - 1
        /\ Len(cs) > 0 /\ cs = <<cs[1]>> \o Tail(cs)
    BY <1>1, FirstAndRest
  <2>2. Len(Tail(cs)) \in Nat /\ Len(cs) = Len(Tail(cs)) + 1
    BY <1>1, <2>1
  <2> QED BY <2>1, <2>2, Zenon
<1>3. \A k \in 1 .. n : rest[k] = cs[k + 1]
  BY <1>2
<1>4. ASSUME NEW k \in 1 .. n + 1
      PROVE  /\ k > 1 => cs[k].n = 2 ^ StackDepth /\ cs[k].d = StackDepth
             /\ cs[k].count = cs[k].n + (IF k < n + 1 THEN cs[k + 1].count ELSE 0)
  BY <1>2 DEF StackShape
<1>5. ASSUME NEW k \in 1 .. n
      PROVE  /\ rest[k].n = 2 ^ StackDepth /\ rest[k].d = StackDepth
             /\ rest[k].count = rest[k].n + (IF k < n THEN rest[k + 1].count ELSE 0)
  <2>1. PICK j \in 1 .. n + 1 : j = k + 1 /\ j > 1 /\ (j < n + 1 <=> k < n)
    OBVIOUS
  <2>2. rest[k] = cs[j]
    BY <2>1, <1>3
  <2>3. CASE k < n
    <3>1. k + 1 \in 1 .. n /\ (k + 1) + 1 = j + 1
      BY <2>1, <2>3
    <3>2. rest[k + 1] = cs[j + 1]
      BY <3>1, <1>3
    <3> QED BY <2>1, <2>2, <2>3, <3>2, <1>4
  <2>4. CASE ~ (k < n)
    BY <2>1, <2>2, <2>4, <1>4
  <2> QED BY <2>3, <2>4
<1>6. StackShape(rest)
  BY <1>2, <1>5 DEF StackShape
<1>7. LiesOn(c, rest)
  <2>1. 1 \in 1 .. n + 1
    OBVIOUS
  <2>2. c.count = c.n + (IF 1 < n + 1 THEN cs[1 + 1].count ELSE 0)
    BY <1>2, <1>4, <2>1
  <2>3. CASE n = 0
    <3>1. rest = <<>> /\ ~ (1 < n + 1)
      BY <2>3, <1>2
    <3> QED BY <2>2, <3>1 DEF LiesOn, S!CountOf
  <2>4. CASE n # 0
    <3>1. rest # <<>> /\ 1 \in 1 .. n /\ 1 < n + 1
      BY <2>4, <1>2
    <3>2. rest[1] = cs[1 + 1]
      BY <3>1, <1>3
    <3>3. rest[1].n = 2 ^ StackDepth /\ rest[1].d = StackDepth
      BY <3>1, <1>5
    <3> QED BY <2>2, <3>1, <3>2, <3>3 DEF LiesOn, S!CountOf
  <2> QED BY <2>3, <2>4
<1> QED BY <1>2, <1>6, <1>7

LEMMA StackItemsOfPut ==
  ASSUME NEW c \in ChunkSet, NEW rest \in Seq(ChunkSet), NEW cs, cs = <<c>> \o rest
  PROVE  /\ StackItems(rest) \in Seq(Value)
         /\ StackItems(cs) = Chunked(c) \o StackItems(rest)
<1>1. PICK n \in Nat : n = Len(rest)
  OBVIOUS
<1>2. PICK ss : ss = [k \in DOMAIN cs |-> S!ItemsOf(cs[k])]
  OBVIOUS
<1>3. PICK ts : ts = [k \in DOMAIN rest |-> S!ItemsOf(rest[k])]
  OBVIOUS
<1>4. /\ cs \in Seq(ChunkSet) /\ Len(cs) = n + 1 /\ cs[1] = c
      /\ \A k \in 1 .. n : cs[k + 1] = rest[k]
  BY <1>1
<1>5. PICK Lists : Lists = Seq(Value)
  OBVIOUS
<1>6. \A e \in ChunkSet : S!ItemsOf(e) = Chunked(e) /\ S!ItemsOf(e) \in Lists
  <2> SUFFICES ASSUME NEW e \in ChunkSet PROVE S!ItemsOf(e) = Chunked(e) /\ Chunked(e) \in Lists
    OBVIOUS
  <2> QED BY <1>5, ChunkedIs
<1>7. ts \in Seq(Lists) /\ Len(ts) = n /\ \A k \in 1 .. n : ts[k] = S!ItemsOf(rest[k])
  <2>1. DOMAIN rest = 1 .. n /\ \A k \in 1 .. n : rest[k] \in ChunkSet
    BY <1>1
  <2>2. ts \in [1 .. n -> Lists]
    BY <2>1, <1>3, <1>6
  <2> QED BY <2>1, <2>2, <1>3
<1>8. ss \in Seq(Lists) /\ Len(ss) = n + 1 /\ \A k \in 1 .. n + 1 : ss[k] = S!ItemsOf(cs[k])
  <2>1. DOMAIN cs = 1 .. n + 1 /\ \A k \in 1 .. n + 1 : cs[k] \in ChunkSet
    BY <1>4
  <2>2. ss \in [1 .. n + 1 -> Lists]
    BY <2>1, <1>2, <1>6
  <2> QED BY <2>1, <2>2, <1>2
<1>9. PICK e \in Lists : e = Chunked(c) /\ e = S!ItemsOf(c)
  BY <1>6
<1>10. ss[1] = e
  BY <1>4, <1>8, <1>9
<1>11. ASSUME NEW k \in 1 .. n PROVE ss[k + 1] = ts[k]
  <2>1. k + 1 \in 1 .. n + 1
    OBVIOUS
  <2> QED BY <2>1, <1>4, <1>7, <1>8
<1>12. /\ S!FlattenSeq(ts) \in Seq(Value)
       /\ S!FlattenSeq(ss) = e \o S!FlattenSeq(ts)
  <2>1. e \in Lists /\ ts \in Seq(Lists) /\ ss \in Seq(Lists) /\ Joinable(Lists)
    BY <1>5, <1>7, <1>8, SequencesJoin
  <2>2. Len(ss) = Len(ts) + 1 /\ \A k \in 1 .. Len(ts) : ss[k + 1] = ts[k]
    BY <1>7, <1>8, <1>11
  <2>3. /\ S!FlattenSeq(ts) \in Lists
        /\ S!FlattenSeq(ss) = e \o S!FlattenSeq(ts)
    BY ONLY <2>1, <2>2, <1>10, FlattenedFront
  <2> QED BY <2>3, <1>5
<1> QED BY <1>2, <1>3, <1>9, <1>12 DEF StackItems

LEMMA StackItemsOfNone == StackItems(<<>>) = <<>>
<1>1. PICK ss : ss = [k \in DOMAIN <<>> |-> S!ItemsOf(<<>>[k])]
  OBVIOUS
<1>2. ss = <<>> /\ Len(ss) = 0
  BY <1>1
<1>3. S!FlattenSeq(ss) = ss
  BY <1>2 DEF S!FlattenSeq
<1> QED BY <1>1, <1>2, <1>3 DEF StackItems

(* The count of the top chunk is the length of the stack.                  *)
LEMMA StackCounts ==
  ASSUME NEW cs, StackShape(cs)
  PROVE  StackItems(cs) \in Seq(Value) /\ Len(StackItems(cs)) = S!CountOf(cs)
         /\ S!CountOf(cs) \in Nat
<1> DEFINE Counted(w) == /\ StackItems(w) \in Seq(Value)
                         /\ Len(StackItems(w)) = S!CountOf(w) /\ S!CountOf(w) \in Nat
           T == {n \in Nat : \A w \in Seq(ChunkSet) : StackShape(w) /\ Len(w) = n => Counted(w)}
<1>1. 0 \in T
  <2> SUFFICES ASSUME NEW w \in Seq(ChunkSet), Len(w) = 0 PROVE Counted(w)
    OBVIOUS
  <2>1. w = <<>>
    OBVIOUS
  <2>2. StackItems(w) = <<>> /\ S!CountOf(w) = 0
    BY <2>1, StackItemsOfNone DEF S!CountOf
  <2>3. <<>> \in Seq(Value) /\ Len(<<>>) = 0
    OBVIOUS
  <2> QED BY <2>2, <2>3
<1>2. ASSUME NEW n \in Nat, n \in T PROVE n + 1 \in T
  <2> SUFFICES ASSUME NEW w \in Seq(ChunkSet), StackShape(w), Len(w) = n + 1 PROVE Counted(w)
    OBVIOUS
  <2>1. w # <<>>
    OBVIOUS
  <2>2. PICK c \in ChunkSet, rest \in Seq(ChunkSet) :
          /\ c = w[1] /\ rest = Tail(w) /\ w = <<c>> \o rest
          /\ StackShape(rest) /\ LiesOn(c, rest) /\ Len(w) = Len(rest) + 1
    BY <2>1, StackSplit
  <2>3. Len(rest) = n
    BY <2>2
  <2>4. Counted(rest)
    BY <1>2, <2>2, <2>3
  <2>5. StackItems(w) = Chunked(c) \o StackItems(rest)
    BY <2>2, StackItemsOfPut
  <2>6. Chunked(c) \in Seq(Value) /\ Len(Chunked(c)) = c.n /\ c.n \in Nat
    BY ChunkedIs
  <2>7. S!CountOf(w) = c.n + S!CountOf(rest)
    BY <2>1, <2>2 DEF LiesOn, S!CountOf
  <2>8. StackItems(w) \in Seq(Value) /\ Len(StackItems(w)) = c.n + S!CountOf(rest)
    <3>1. PICK a \in Seq(Value), b \in Seq(Value) :
            /\ a = Chunked(c) /\ b = StackItems(rest) /\ StackItems(w) = a \o b
            /\ Len(a) = c.n /\ Len(b) = S!CountOf(rest)
      BY <2>4, <2>5, <2>6
    <3>2. a \o b \in Seq(Value) /\ Len(a \o b) = Len(a) + Len(b)
      OBVIOUS
    <3> QED BY <3>1, <3>2
  <2> QED BY <2>4, <2>6, <2>7, <2>8
<1> HIDE DEF Counted
<1>3. PICK n \in Nat : n = Len(cs) /\ cs \in Seq(ChunkSet)
  BY DEF StackShape
<1> HIDE DEF T
<1>4. n \in T
  BY <1>1, <1>2, SetInduction
<1>5. Counted(cs)
  BY <1>3, <1>4 DEF T
<1> QED BY <1>5 DEF Counted

StackGood == StackShape(chunks') /\ S!Ends!EndNext

StackIsChunks == StackShape(chunks)

LEMMA StackItemsIs == S!Items = StackItems(chunks)
  BY DEF S!Items, StackItems

LEMMA ChunkMade ==
  ASSUME NEW m \in 0 .. StackDepth, NEW n \in Nat, n # 0, NEW l \in Nat, n <= 2 ^ m,
         NEW f \in [S!Slots(m) -> Value \cup {NoValue}],
         \A s \in S!Slots(m) : f[s] # NoValue <=> s < n,
         NEW b, b = [d |-> m, n |-> n, count |-> l, arr |-> f]
  PROVE  b \in ChunkSet
<1>1. f \in UNION {[S!Slots(k) -> Value \cup {NoValue}] : k \in 0 .. StackDepth}
  OBVIOUS
<1>2. b.d = m /\ b.n = n /\ b.count = l /\ b.arr = f
  OBVIOUS
<1>3. b \in [d : 0 .. StackDepth, n : Nat \ {0}, count : Nat,
             arr : UNION {[S!Slots(k) -> Value \cup {NoValue}] : k \in 0 .. StackDepth}]
  BY <1>1
<1> QED BY <1>2, <1>3 DEF ChunkSet

(* An element comes to a chunk with room, also one that has just grown.    *)
LEMMA ChunkPlaced ==
  ASSUME NEW c, c = [d |-> c.d, n |-> c.n, count |-> c.count, arr |-> c.arr],
         c.d \in 0 .. StackDepth, c.n \in Nat, c.count \in Nat, c.n < 2 ^ c.d,
         c.arr \in [S!Slots(c.d) -> Value \cup {NoValue}],
         \A s \in S!Slots(c.d) : c.arr[s] # NoValue <=> s < c.n,
         NEW x \in Value, NEW b, b = S!Placed(c, x)
  PROVE  /\ b \in ChunkSet /\ b.count = c.count + 1 /\ b.n = c.n + 1
         /\ Chunked(b) = <<x>> \o Chunked(c)
<1>0. PICK a : a = c.arr
  OBVIOUS
<1>1. PICK m \in 0 .. StackDepth, n \in Nat, l \in Nat :
        m = c.d /\ n = c.n /\ l = c.count /\ a = c.arr
  BY <1>0
<1>2. m \in Nat /\ NoValue \notin Value
  BY SequencesAssumption DEF S!StackAssumption
<1>3. PICK t \in Nat : t = 2 ^ m /\ S!Slots(m) = 0 .. t - 1
  BY <1>2, ChunkSlots
<1>4. PICK f : f = [a EXCEPT ![n] = x]
  OBVIOUS
<1>5. b = [d |-> m, n |-> n + 1, count |-> l + 1, arr |-> f]
  BY <1>1, <1>4 DEF S!Placed
<1>6. b.d = m /\ b.n = n + 1 /\ b.count = l + 1 /\ b.arr = f
      /\ b = [d |-> b.d, n |-> b.n, count |-> b.count, arr |-> b.arr]
  BY <1>5
<1>7. n < t /\ a \in [0 .. t - 1 -> Value \cup {NoValue}]
      /\ \A s \in 0 .. t - 1 : a[s] # NoValue <=> s < n
  BY <1>1, <1>3
<1>8. n \in 0 .. t - 1
  BY <1>7
<1>9. f \in [0 .. t - 1 -> Value \cup {NoValue}] /\ f[n] = x
      /\ \A s \in 0 .. t - 1 : s # n => f[s] = a[s]
  BY <1>4, <1>7, <1>8
<1>10. \A s \in 0 .. t - 1 : f[s] # NoValue <=> s < n + 1
  <2> SUFFICES ASSUME NEW s \in 0 .. t - 1 PROVE f[s] # NoValue <=> s < n + 1
    OBVIOUS
  <2>1. CASE s = n
    BY <2>1, <1>2, <1>9
  <2>2. CASE s # n
    <3>1. s < n <=> s < n + 1
      BY <2>2
    <3> QED BY <3>1, <2>2, <1>7, <1>9
  <2> QED BY <2>1, <2>2
<1>11. b \in ChunkSet
  <2>1. PICK k \in Nat, j \in Nat : k = n + 1 /\ j = l + 1 /\ k # 0 /\ k <= 2 ^ m
    BY <1>3, <1>7
  <2>2. b = [d |-> m, n |-> k, count |-> j, arr |-> f]
    BY <1>5, <2>1
  <2>3. f \in [S!Slots(m) -> Value \cup {NoValue}]
        /\ \A s \in S!Slots(m) : f[s] # NoValue <=> s < k
    BY <1>3, <1>9, <1>10, <2>1
  <2> QED BY ONLY m \in 0 .. StackDepth, <2>1, <2>2, <2>3, ChunkMade
<1>12. \A s \in Nat : s < n => s \in 0 .. t - 1 /\ a[s] \in Value
  BY <1>7
<1>13. PICK u : u = Chunked(b)
  OBVIOUS
<1>14. PICK w : w = Chunked(c)
  OBVIOUS
<1>15. u \in Seq(Value) /\ Len(u) = n + 1 /\ u = [i \in 1 .. n + 1 |-> f[n + 1 - i]]
  <2>1. Chunked(b) \in Seq(Value) /\ Len(Chunked(b)) = b.n
    BY <1>11, ChunkedIs
  <2> QED BY <2>1, <1>6, <1>13, SMTT(30) DEF Chunked
<1>16. w \in Seq(Value) /\ Len(w) = n /\ w = [i \in 1 .. n |-> a[n - i]]
  <2>1. w = [i \in 1 .. n |-> a[n - i]]
    BY <1>1, <1>14 DEF Chunked
  <2>2. \A i \in 1 .. n : n - i \in Nat /\ n - i < n
    OBVIOUS
  <2>3. w \in [1 .. n -> Value]
    BY <2>1, <2>2, <1>12
  <2> QED BY <2>1, <2>3
<1>17. PICK p \in Seq(Value) : p = <<x>> /\ Len(p) = 1 /\ p[1] = x
  <2>1. <<x>> \in Seq(Value) /\ Len(<<x>>) = 1 /\ <<x>>[1] = x
    OBVIOUS
  <2> QED BY <2>1
<1>18. u[1] = x
  <2>1. 1 \in 1 .. n + 1 /\ n + 1 - 1 = n
    BY SMTT(30)
  <2> QED BY <2>1, <1>9, <1>15
<1>19. ASSUME NEW i \in 1 .. n PROVE u[1 + i] = w[i]
  <2>1. 1 + i \in 1 .. n + 1 /\ n + 1 - (1 + i) = n - i /\ n - i \in Nat /\ n - i < n /\ n - i # n
    BY SMTT(30)
  <2>2. n - i \in 0 .. t - 1
    BY <2>1, <1>12
  <2>3. u[1 + i] = f[n - i]
    BY <2>1, <1>15
  <2> QED BY <2>1, <2>2, <2>3, <1>9, <1>16
<1>20. u = p \o w
  <2>1. Len(u) = Len(p) + Len(w)
    BY <1>15, <1>16, <1>17
  <2>2. \A i \in 1 .. Len(p) : u[i] = p[i]
    BY <1>17, <1>18
  <2>3. \A i \in 1 .. Len(w) : u[Len(p) + i] = w[i]
    BY <1>16, <1>17, <1>19
  <2>4. u \in Seq(Value) /\ p \in Seq(Value) /\ w \in Seq(Value)
    BY <1>15, <1>16
  <2> QED BY ONLY <2>1, <2>2, <2>3, <2>4, JoinIs
<1> QED BY <1>1, <1>6, <1>11, <1>13, <1>14, <1>17, <1>20

LEMMA ChunkStarts ==
  ASSUME NEW l \in Nat, NEW x \in Value, NEW b, b = S!NewChunk(l, x)
  PROVE  b \in ChunkSet /\ b.count = l + 1 /\ b.n = 1 /\ Chunked(b) = <<x>>
<1>1. StackDepth \in Nat /\ NoValue \notin Value
  BY SequencesAssumption DEF S!StackAssumption
<1>2. 2 ^ 0 = 1 /\ S!Slots(0) = {0}
  BY PowerOfTwo DEF S!Slots
<1>3. PICK f : f = [s \in S!Slots(0) |-> x]
  OBVIOUS
<1>4. b = [d |-> 0, n |-> 1, count |-> l + 1, arr |-> f]
  BY <1>3 DEF S!NewChunk
<1>5. f \in [S!Slots(0) -> Value \cup {NoValue}] /\ f[0] = x
      /\ \A s \in S!Slots(0) : f[s] # NoValue <=> s < 1
  BY <1>1, <1>2, <1>3
<1>6. b.d = 0 /\ b.n = 1 /\ b.count = l + 1 /\ b.arr = f
      /\ b = [d |-> b.d, n |-> b.n, count |-> b.count, arr |-> b.arr]
  BY <1>4
<1>7. b \in ChunkSet
  <2>1. PICK m \in 0 .. StackDepth, n \in Nat, k \in Nat :
          m = 0 /\ n = 1 /\ k = l + 1 /\ n # 0 /\ n <= 2 ^ m
    <3>1. 0 \in 0 .. StackDepth /\ l + 1 \in Nat /\ 1 # 0 /\ 1 <= 2 ^ 0
      BY <1>1, <1>2
    <3> QED BY <3>1
  <2>2. b = [d |-> m, n |-> n, count |-> k, arr |-> f]
        /\ f \in [S!Slots(m) -> Value \cup {NoValue}]
        /\ \A s \in S!Slots(m) : f[s] # NoValue <=> s < n
    BY <1>4, <1>5, <2>1
  <2> QED BY ONLY <2>1, <2>2, ChunkMade
<1>8. Chunked(b) = <<x>>
  <2>1. Chunked(b) = [i \in 1 .. 1 |-> f[1 - i]]
    BY <1>6 DEF Chunked
  <2>2. \A i \in 1 .. 1 : f[1 - i] = x
    BY <1>5
  <2> QED BY <2>1, <2>2
<1> QED BY <1>6, <1>7, <1>8

\* A chunk that is taken from, when it keeps an element.
LEMMA ChunkPopped ==
  ASSUME NEW c \in ChunkSet, c.n # 1,
         NEW b, b = [c EXCEPT !.n = @ - 1, !.arr[c.n - 1] = NoValue, !.count = @ - 1],
         c.count >= c.n
  PROVE  /\ b \in ChunkSet /\ b.count = c.count - 1 /\ b.n = c.n - 1
         /\ Chunked(c) = <<c.arr[c.n - 1]>> \o Chunked(b)
<1>0. PICK a : a = c.arr
  OBVIOUS
<1>1. PICK m \in 0 .. StackDepth, n \in Nat, l \in Nat :
        m = c.d /\ n = c.n - 1 /\ n + 1 = c.n /\ n # 0 /\ l = c.count - 1 /\ a = c.arr
        /\ c = [d |-> c.d, n |-> c.n, count |-> c.count, arr |-> c.arr]
  BY <1>0, ChunkIs
<1>2. m \in Nat /\ NoValue \notin Value
  BY SequencesAssumption DEF S!StackAssumption
<1>3. PICK t \in Nat : t = 2 ^ m /\ S!Slots(m) = 0 .. t - 1
  BY <1>2, ChunkSlots
<1>4. PICK f : f = [a EXCEPT ![n] = NoValue]
  OBVIOUS
<1>5. b = [d |-> m, n |-> n, count |-> l, arr |-> f]
  BY <1>1, <1>4
<1>6. b.d = m /\ b.n = n /\ b.count = l /\ b.arr = f
      /\ b = [d |-> b.d, n |-> b.n, count |-> b.count, arr |-> b.arr]
  BY ONLY <1>5
<1>7. n < t /\ a \in [0 .. t - 1 -> Value \cup {NoValue}]
      /\ \A s \in 0 .. t - 1 : a[s] # NoValue <=> s < n + 1
  <2>1. c.n <= t /\ c.arr \in [0 .. t - 1 -> Value \cup {NoValue}]
        /\ \A s \in 0 .. t - 1 : c.arr[s] # NoValue <=> s < c.n
    BY <1>1, <1>3, ChunkIs
  <2> QED BY <1>1, <2>1
<1>8. n \in 0 .. t - 1
  BY <1>7
<1>9. f \in [0 .. t - 1 -> Value \cup {NoValue}] /\ f[n] = NoValue
      /\ \A s \in 0 .. t - 1 : s # n => f[s] = a[s]
  BY <1>4, <1>7, <1>8
<1>10. \A s \in 0 .. t - 1 : f[s] # NoValue <=> s < n
  <2> SUFFICES ASSUME NEW s \in 0 .. t - 1 PROVE f[s] # NoValue <=> s < n
    OBVIOUS
  <2>1. CASE s = n
    BY <2>1, <1>9
  <2>2. CASE s # n
    <3>1. s < n <=> s < n + 1
      BY <2>2
    <3> QED BY <3>1, <2>2, <1>7, <1>9
  <2> QED BY <2>1, <2>2
<1>11. b \in ChunkSet
  <2>1. n # 0 /\ n <= 2 ^ m
    BY <1>1, <1>3, <1>7
  <2>2. f \in [S!Slots(m) -> Value \cup {NoValue}]
        /\ \A s \in S!Slots(m) : f[s] # NoValue <=> s < n
    BY <1>3, <1>9, <1>10
  <2> QED BY <2>1, <2>2, <1>5, ChunkMade
<1>12. PICK x : x = a[n] /\ x \in Value
  BY <1>7, <1>8
<1>13. PICK u : u = Chunked(c)
  OBVIOUS
<1>14. PICK w : w = Chunked(b)
  OBVIOUS
<1>15. u \in Seq(Value) /\ Len(u) = n + 1 /\ u = [i \in 1 .. n + 1 |-> a[n + 1 - i]]
  <2>1. Chunked(c) \in Seq(Value) /\ Len(Chunked(c)) = c.n
    BY ChunkedIs
  <2> QED BY <2>1, <1>1, <1>13, SMTT(30) DEF Chunked
<1>16. w \in Seq(Value) /\ Len(w) = n /\ w = [i \in 1 .. n |-> f[n - i]]
  <2>1. Chunked(b) \in Seq(Value) /\ Len(Chunked(b)) = b.n
    BY <1>11, ChunkedIs
  <2>2. w = [i \in 1 .. n |-> f[n - i]]
    BY <1>6, <1>14 DEF Chunked
  <2> QED BY <2>1, <2>2, <1>6, <1>14
<1>17. PICK p \in Seq(Value) : p = <<x>> /\ Len(p) = 1 /\ p[1] = x
  <2>1. <<x>> \in Seq(Value) /\ Len(<<x>>) = 1 /\ <<x>>[1] = x
    BY <1>12
  <2> QED BY <2>1
<1>18. u[1] = x
  <2>1. 1 \in 1 .. n + 1 /\ n + 1 - 1 = n
    BY SMTT(30)
  <2> QED BY <2>1, <1>12, <1>15
<1>19. ASSUME NEW i \in 1 .. n PROVE u[1 + i] = w[i]
  <2>1. 1 + i \in 1 .. n + 1 /\ n + 1 - (1 + i) = n - i /\ n - i \in Nat /\ n - i < n /\ n - i # n
    BY SMTT(30)
  <2>2. n - i \in 0 .. t - 1
    BY <2>1, <1>7
  <2>3. u[1 + i] = a[n - i]
    BY <2>1, <1>15
  <2> QED BY <2>1, <2>2, <2>3, <1>9, <1>16
<1>20. u = p \o w
  <2>1. Len(u) = Len(p) + Len(w)
    BY <1>15, <1>16, <1>17
  <2>2. \A i \in 1 .. Len(p) : u[i] = p[i]
    BY <1>17, <1>18
  <2>3. \A i \in 1 .. Len(w) : u[Len(p) + i] = w[i]
    BY <1>16, <1>17, <1>19
  <2>4. u \in Seq(Value) /\ p \in Seq(Value) /\ w \in Seq(Value)
    BY <1>15, <1>16
  <2> QED BY ONLY <2>1, <2>2, <2>3, <2>4, JoinIs
<1> QED BY <1>1, <1>6, <1>11, <1>12, <1>13, <1>14, <1>17, <1>20

LEMMA FrontOf ==
  ASSUME NEW V, NEW x \in V, NEW t \in Seq(V), NEW s, s = <<x>> \o t
  PROVE  s # <<>> /\ s[1] = x /\ Tail(s) = t
  OBVIOUS

LEMMA StackPush ==
  ASSUME StackIsChunks, NEW x \in Value, S!Push(x)
  PROVE  StackGood
<1>1. PICK cs, ds : cs = chunks /\ ds = chunks'
  OBVIOUS
<1>2. ds = S!Pushed(cs, x) /\ sobs' = <<"PushFront", x>> /\ StackShape(cs)
  BY <1>1 DEF S!Push, StackIsChunks
<1>3. StackDepth \in Nat
  BY SequencesAssumption DEF S!StackAssumption
<1>4. SUFFICES StackShape(ds) /\ StackItems(ds) = <<x>> \o StackItems(cs)
  <2>1. S!Items = StackItems(cs) /\ S!Items' = StackItems(ds)
    BY <1>1 DEF S!Items, StackItems
  <2>2. S!Ends!PushFront(x)
    BY <1>2, <1>4, <2>1 DEF S!Ends!PushFront
  <2> QED BY <1>1, <1>4, <2>2 DEF StackGood, S!Ends!EndNext
<1>5. StackItems(cs) \in Seq(Value) /\ S!CountOf(cs) \in Nat /\ cs \in Seq(ChunkSet)
  BY <1>2, StackCounts DEF StackShape
<1>6. <<x>> \in Seq(Value)
  OBVIOUS
<1>7. CASE cs = <<>>
  <2>0. PICK l \in Nat : l = 0
    OBVIOUS
  <2>1. PICK b : l = 0 /\ b = S!NewChunk(l, x)
    BY <2>0
  <2>2. b \in ChunkSet /\ b.count = 1 /\ b.n = 1 /\ Chunked(b) = <<x>>
    BY <2>1, ChunkStarts
  <2>3. ds = <<b>>
    BY <1>2, <1>7, <2>1 DEF S!Pushed
  <2>4. ds = <<b>> \o cs
    BY <1>7, <2>2, <2>3
  <2>5. LiesOn(b, cs)
    BY <1>7, <2>2 DEF LiesOn, S!CountOf
  <2>6. StackShape(ds)
    BY <1>2, <2>2, <2>4, <2>5, StackPut
  <2>7. StackItems(ds) = Chunked(b) \o StackItems(cs)
    BY <1>5, <2>2, <2>4, StackItemsOfPut
  <2> QED BY <2>2, <2>6, <2>7
<1>8. CASE cs # <<>>
  <2>1. PICK c \in ChunkSet, rest \in Seq(ChunkSet) :
          /\ c = cs[1] /\ rest = Tail(cs) /\ cs = <<c>> \o rest
          /\ StackShape(rest) /\ LiesOn(c, rest) /\ Len(cs) = Len(rest) + 1
    BY <1>2, <1>8, StackSplit
  <2>2. /\ c = [d |-> c.d, n |-> c.n, count |-> c.count, arr |-> c.arr]
        /\ c.d \in 0 .. StackDepth /\ c.n \in Nat \ {0} /\ c.count \in Nat
        /\ c.n <= 2 ^ c.d
        /\ c.arr \in [S!Slots(c.d) -> Value \cup {NoValue}]
        /\ \A s \in S!Slots(c.d) : c.arr[s] # NoValue <=> s < c.n
    BY ChunkIs
  <2>3. StackItems(rest) \in Seq(Value) /\ StackItems(cs) = Chunked(c) \o StackItems(rest)
    BY <2>1, StackItemsOfPut
  <2>4. Chunked(c) \in Seq(Value)
    BY ChunkedIs
  <2>5. S!CountOf(rest) \in Nat /\ c.count = c.n + S!CountOf(rest)
    BY <2>1, StackCounts DEF LiesOn
  <2>6. ASSUME NEW b \in ChunkSet, b.count = c.count + 1, b.n = c.n + 1,
               Chunked(b) = <<x>> \o Chunked(c), ds = <<b>> \o rest
        PROVE  StackShape(ds) /\ StackItems(ds) = <<x>> \o StackItems(cs)
    <3>1. LiesOn(b, rest)
      <4>1. b.count = b.n + S!CountOf(rest)
        BY <2>2, <2>5, <2>6
      <4> QED BY <2>1, <4>1 DEF LiesOn
    <3>2. StackShape(ds)
      BY <2>1, <2>6, <3>1, StackPut
    <3>3. StackItems(ds) = Chunked(b) \o StackItems(rest)
      BY <2>6, StackItemsOfPut
    <3>4. PICK u \in Seq(Value), v \in Seq(Value), w \in Seq(Value) :
            u = <<x>> /\ v = Chunked(c) /\ w = StackItems(rest)
      BY <1>6, <2>3, <2>4
    <3>5. (u \o v) \o w = u \o (v \o w)
      BY JoinAssociative
    <3> QED BY <2>3, <2>6, <3>2, <3>3, <3>4, <3>5
  <2>7. CASE S!HasRoom(c)
    <3>1. PICK b : b = S!Placed(c, x)
      OBVIOUS
    <3>2. c.n < 2 ^ c.d
      BY <2>7 DEF S!HasRoom
    <3>3. b \in ChunkSet /\ b.count = c.count + 1 /\ b.n = c.n + 1
          /\ Chunked(b) = <<x>> \o Chunked(c)
      BY <2>2, <3>1, <3>2, ChunkPlaced
    <3>4. ds = <<b>> \o rest
      BY <1>2, <1>8, <2>1, <2>7, <3>1 DEF S!Pushed
    <3> QED BY <2>6, <3>3, <3>4
  <2>8. CASE ~ S!HasRoom(c) /\ S!MayGrow(c)
    <3>1. PICK m \in Nat : m = c.d /\ m + 1 \in 0 .. StackDepth
      BY <1>3, <2>2, <2>8 DEF S!MayGrow
    <3>2. PICK t \in Nat : t > 0 /\ t = 2 ^ m /\ 2 ^ (m + 1) = 2 * t
            /\ S!Slots(m) = 0 .. t - 1 /\ S!Slots(m + 1) = 0 .. 2 * t - 1
      BY ChunkSlots
    <3>3. c.n = t
      <4>1. c.n <= t /\ ~ (c.n < t)
        BY <2>2, <2>8, <3>1, <3>2 DEF S!HasRoom
      <4> QED BY <2>2, <4>1
    <3>4. PICK f : f = S!GrownArr(c)
      OBVIOUS
    <3>5. f = [s \in S!Slots(m + 1) |-> IF s \in S!Slots(m) THEN c.arr[s] ELSE NoValue]
      BY <3>1, <3>4 DEF S!GrownArr
    <3>6. PICK g : g = [c EXCEPT !.d = @ + 1, !.arr = f]
      OBVIOUS
    <3>7. g = [d |-> m + 1, n |-> t, count |-> c.count, arr |-> f]
      BY <2>2, <3>1, <3>3, <3>6
    <3>8. g.d = m + 1 /\ g.n = t /\ g.count = c.count /\ g.arr = f
          /\ g = [d |-> g.d, n |-> g.n, count |-> g.count, arr |-> g.arr]
      BY ONLY <3>7
    <3>9. f \in [S!Slots(m + 1) -> Value \cup {NoValue}]
          /\ \A s \in S!Slots(m + 1) : f[s] # NoValue <=> s < t
      <4>1. c.arr \in [S!Slots(m) -> Value \cup {NoValue}]
            /\ \A s \in S!Slots(m) : c.arr[s] # NoValue
        BY <2>2, <3>1, <3>2, <3>3, SMTT(30)
      <4>2. \A s \in S!Slots(m + 1) : s \in S!Slots(m) <=> s < t
        BY <3>2
      <4> QED BY <3>5, <4>1, <4>2
    <3>10. PICK b : b = S!Placed(g, x)
      OBVIOUS
    <3>11. b \in ChunkSet /\ b.count = g.count + 1 /\ b.n = g.n + 1
           /\ Chunked(b) = <<x>> \o Chunked(g)
      <4>1. g.d \in 0 .. StackDepth /\ g.n \in Nat /\ g.count \in Nat /\ g.n < 2 ^ g.d
        BY <2>2, <3>1, <3>2, <3>8
      <4>2. g.arr \in [S!Slots(g.d) -> Value \cup {NoValue}]
            /\ \A s \in S!Slots(g.d) : g.arr[s] # NoValue <=> s < g.n
        BY <3>8, <3>9
      <4> QED BY ONLY <3>8, <3>10, <4>1, <4>2, x \in Value, ChunkPlaced
    <3>12. Chunked(g) = Chunked(c)
      <4>1. \A i \in 1 .. t : t - i \in S!Slots(m) /\ t - i \in S!Slots(m + 1)
        BY <3>2
      <4>2. \A i \in 1 .. t : f[t - i] = c.arr[t - i]
        BY <4>1, <3>5
      <4> QED BY <4>2, <3>3, <3>8 DEF Chunked
    <3>13. ds = <<b>> \o rest
      BY <1>2, <1>8, <2>1, <2>8, <3>4, <3>6, <3>10 DEF S!Pushed
    <3> QED BY <2>6, <3>3, <3>8, <3>11, <3>12, <3>13
  <2>9. CASE ~ S!HasRoom(c) /\ ~ S!MayGrow(c)
    <3>1. c.d = StackDepth
      BY <1>3, <2>2, <2>9 DEF S!MayGrow
    <3>2. c.n = 2 ^ StackDepth
      <4>1. PICK t \in Nat : t = 2 ^ StackDepth
        BY <1>3, PowerOfTwo
      <4>2. c.n <= t /\ ~ (c.n < t)
        BY <2>2, <2>9, <3>1, <4>1 DEF S!HasRoom
      <4> QED BY <2>2, <4>1, <4>2
    <3>0. PICK l \in Nat : l = c.count
      BY <2>2
    <3>3. PICK b : l = c.count /\ b = S!NewChunk(l, x)
      BY <3>0
    <3>4. b \in ChunkSet /\ b.count = l + 1 /\ b.n = 1 /\ Chunked(b) = <<x>>
      BY <3>3, ChunkStarts
    <3>5. ds = <<b>> \o cs
      BY <1>2, <1>8, <2>1, <2>9, <3>3 DEF S!Pushed
    <3>6. LiesOn(b, cs)
      <4>1. S!CountOf(cs) = l
        BY <1>8, <2>1, <3>3 DEF S!CountOf
      <4>2. b.count = b.n + S!CountOf(cs)
        BY <3>4, <4>1
      <4> QED BY <2>1, <3>1, <3>2, <4>2 DEF LiesOn
    <3>7. StackShape(ds)
      BY <1>2, <3>4, <3>5, <3>6, StackPut
    <3>8. StackItems(ds) = Chunked(b) \o StackItems(cs)
      BY <1>5, <3>4, <3>5, StackItemsOfPut
    <3> QED BY <3>4, <3>7, <3>8
  <2> QED BY <2>7, <2>8, <2>9
<1> QED BY <1>7, <1>8

LEMMA StackPops ==
  ASSUME StackIsChunks, S!Pop \/ S!Peek
  PROVE  StackGood
<1>1. PICK cs, ds : cs = chunks /\ ds = chunks'
  OBVIOUS
<1>2. StackShape(cs)
  BY <1>1 DEF StackIsChunks
<1>3. S!Items = StackItems(cs) /\ S!Items' = StackItems(ds)
  BY <1>1 DEF S!Items, StackItems
<1>4. CASE cs = <<>>
  <2>1. StackItems(cs) = <<>>
    BY <1>4, StackItemsOfNone
  <2>2. ds = cs /\ (sobs' = <<"PopFront", "Empty">> \/ sobs' = <<"PeekFront", "Empty">>)
    BY <1>1, <1>4 DEF S!Pop, S!Peek, S!Bare
  <2>3. PICK call \in {"PopFront", "PeekFront"} : sobs' = <<call, "Empty">>
    BY <2>2
  <2>4. S!Ends!Refused(call)
    BY <1>3, <2>1, <2>2, <2>3 DEF S!Ends!Refused
  <2> QED BY <1>1, <1>2, <2>2, <2>4 DEF StackGood, S!Ends!EndNext
<1>5. CASE cs # <<>>
  <2>1. PICK c \in ChunkSet, rest \in Seq(ChunkSet) :
          /\ c = cs[1] /\ rest = Tail(cs) /\ cs = <<c>> \o rest
          /\ StackShape(rest) /\ LiesOn(c, rest) /\ Len(cs) = Len(rest) + 1
    BY <1>2, <1>5, StackSplit
  <2>2. PICK n \in Nat, x \in Value :
          /\ n = c.n /\ n > 0 /\ x = c.arr[n - 1] /\ x # NoValue
          /\ Chunked(c) \in Seq(Value) /\ Len(Chunked(c)) = n /\ Chunked(c)[1] = x
    <3>1. /\ S!ItemsOf(c) = Chunked(c)
          /\ Chunked(c) \in Seq(Value) /\ Len(Chunked(c)) = c.n
          /\ c.n \in Nat /\ c.n > 0 /\ Chunked(c)[1] = c.arr[c.n - 1]
          /\ c.arr[c.n - 1] # NoValue /\ Chunked(c) # <<>>
          /\ \A s \in Nat : s < c.n => c.arr[s] \in Value
      BY ChunkedIs
    <3>2. c.n - 1 \in Nat /\ c.n - 1 < c.n
      BY <3>1
    <3> QED BY <3>1, <3>2
  <2>3. StackItems(rest) \in Seq(Value) /\ StackItems(cs) = Chunked(c) \o StackItems(rest)
    BY <2>1, StackItemsOfPut
  <2>4. S!Top = x /\ ~ S!Bare
    <3>1. S!Top = x
      BY <1>1, <2>1, <2>2 DEF S!Top
    <3> QED BY <1>1, <1>5, <2>1, <2>2, <3>1 DEF S!Bare
  <2>5. PICK e \in Seq(Value) : e = <<x>> /\ Len(e) = 1
    <3>1. <<x>> \in Seq(Value) /\ Len(<<x>>) = 1
      OBVIOUS
    <3> QED BY <3>1
  <2>6. CASE S!Peek
    <3>1. ds = cs /\ sobs' = <<"PeekFront", "Done", x>>
      BY <1>1, <2>4, <2>6 DEF S!Peek
    <3>2. StackItems(cs) # <<>> /\ StackItems(cs)[1] = x
      BY <2>2, <2>3
    <3>3. S!Ends!Look
      BY <1>3, <3>1, <3>2 DEF S!Ends!Look
    <3> QED BY <1>1, <1>2, <3>1, <3>3 DEF StackGood, S!Ends!EndNext
  <2>7. ASSUME S!Pop, StackItems(cs) = e \o StackItems(ds), StackItems(ds) \in Seq(Value)
        PROVE  S!Ends!EndNext
    <3>1. sobs' = <<"PopFront", "Done", x>>
      BY <2>4, <2>7 DEF S!Pop
    <3>2. PICK s, t \in Seq(Value) : t = StackItems(ds) /\ s = <<x>> \o t /\ s = StackItems(cs)
      <4>1. PICK t \in Seq(Value) : t = StackItems(ds)
        BY <2>7
      <4>2. e \o t \in Seq(Value)
        BY Joined
      <4> QED BY <2>5, <2>7, <4>1, <4>2
    <3>3. s # <<>> /\ s[1] = x /\ Tail(s) = t
      BY <3>2, FrontOf
    <3>4. S!Ends!PopFront
      BY <1>3, <3>1, <3>2, <3>3 DEF S!Ends!PopFront
    <3> QED BY <3>4 DEF S!Ends!EndNext
  <2>8. CASE S!Pop /\ n = 1
    <3>1. ds = rest
      BY <1>1, <2>1, <2>2, <2>4, <2>8 DEF S!Pop, S!Popped
    <3>2. Chunked(c) = e
      BY <2>2, <2>5, <2>8
    <3>3. S!Ends!EndNext
      BY <2>3, <2>7, <2>8, <3>1, <3>2
    <3> QED BY <1>1, <2>1, <3>1, <3>3 DEF StackGood
  <2>9. CASE S!Pop /\ n # 1
    <3>1. PICK b : b = [c EXCEPT !.n = @ - 1, !.arr[c.n - 1] = NoValue, !.count = @ - 1]
      OBVIOUS
    <3>2. ds = <<b>> \o rest
      BY <1>1, <2>1, <2>2, <2>4, <2>9, <3>1 DEF S!Pop, S!Popped
    <3>3. S!CountOf(rest) \in Nat /\ c.count = c.n + S!CountOf(rest) /\ c.n # 1 /\ c.count >= c.n
      <4>1. S!CountOf(rest) \in Nat
        BY <2>1, StackCounts
      <4>2. c.count = c.n + S!CountOf(rest)
        BY <2>1 DEF LiesOn
      <4> QED BY <2>2, <2>9, <4>1, <4>2
    <3>4. b \in ChunkSet /\ b.count = c.count - 1 /\ b.n = c.n - 1
          /\ Chunked(c) = <<c.arr[c.n - 1]>> \o Chunked(b)
      BY <3>1, <3>3, ChunkPopped
    <3>5. LiesOn(b, rest)
      <4>1. b.count = b.n + S!CountOf(rest)
        BY <2>2, <3>3, <3>4
      <4> QED BY <2>1, <4>1 DEF LiesOn
    <3>6. StackShape(ds)
      BY <2>1, <3>2, <3>4, <3>5, StackPut
    <3>7. StackItems(ds) = Chunked(b) \o StackItems(rest)
      BY <3>2, <3>4, StackItemsOfPut
    <3>8. PICK v \in Seq(Value), w \in Seq(Value) : v = Chunked(b) /\ w = StackItems(rest)
      BY <2>3, <3>4, ChunkedIs
    <3>9. (e \o v) \o w = e \o (v \o w) /\ v \o w \in Seq(Value)
      BY Joined, JoinAssociative
    <3>10. StackItems(cs) = e \o StackItems(ds) /\ StackItems(ds) \in Seq(Value)
      BY <2>2, <2>3, <2>5, <3>4, <3>7, <3>8, <3>9
    <3>11. S!Ends!EndNext
      BY <2>7, <2>9, <3>10
    <3> QED BY <1>1, <3>6, <3>11 DEF StackGood
  <2> QED BY <2>6, <2>8, <2>9
<1> QED BY <1>4, <1>5

LEMMA StackStep ==
  ASSUME StackIsChunks, S!Next
  PROVE  StackGood
<1>1. ASSUME S!Length \/ S!ToList PROVE StackGood
  <2>1. PICK cs : cs = chunks /\ cs = chunks'
    BY <1>1 DEF S!Length, S!ToList
  <2>2. S!Items = StackItems(cs) /\ S!Items' = StackItems(cs)
    BY <2>1 DEF S!Items, StackItems
  <2>3. Len(StackItems(cs)) = S!CountOf(cs)
    BY <2>1, StackCounts DEF StackIsChunks
  <2>4. sobs' = <<"Length", Len(StackItems(cs))>> \/ sobs' = <<"ToList", StackItems(cs)>>
    BY <1>1, <2>1, <2>2, <2>3 DEF S!Length, S!ToList
  <2>5. S!Ends!Look
    BY <2>2, <2>4 DEF S!Ends!Look
  <2> QED BY <2>1, <2>5 DEF StackGood, StackIsChunks, S!Ends!EndNext
<1> QED BY <1>1, StackPush, StackPops DEF S!Next

LEMMA StackInvariant == EachSpec => []StackIsChunks
<1>1. EachInit => StackIsChunks
  <2> SUFFICES ASSUME S!Init PROVE StackShape(chunks)
    BY DEF EachInit, StackIsChunks
  <2>1. chunks = <<>> /\ <<>> \in Seq(ChunkSet) /\ Len(<<>>) = 0
    BY DEF S!Init
  <2> QED BY <2>1 DEF StackShape
<1>2. StackIsChunks /\ [EachNext]_all => StackIsChunks'
  <2> SUFFICES ASSUME StackIsChunks, [EachNext]_all PROVE StackIsChunks'
    OBVIOUS
  <2>1. CASE StackNext
    BY <2>1, StackStep DEF StackNext, StackGood, StackIsChunks
  <2>2. CASE UNCHANGED stackVars
    BY <2>2 DEF stackVars, StackIsChunks
  <2> QED BY <2>1, <2>2, OnlyOneIsUsed
<1> QED BY <1>1, <1>2, PTL DEF EachSpec

(* Under the top chunk of a stack all chunks are full, and no slot above   *)
(* the elements of a chunk holds anything (push_full, pop_fin).            *)
THEOREM LowerChunksAreFull == EachSpec => []ChunksAreFull
<1>1. StackIsChunks => ChunksAreFull
  <2> SUFFICES ASSUME StackShape(chunks) PROVE S!ChunksAreFull
    BY DEF StackIsChunks, ChunksAreFull
  <2> SUFFICES ASSUME NEW k \in DOMAIN chunks
               PROVE  /\ k > 1 => chunks[k].n = 2 ^ StackDepth /\ chunks[k].d = StackDepth
                      /\ \A s \in S!Slots(chunks[k].d) :
                           chunks[k].arr[s] = NoValue <=> s >= chunks[k].n
    BY DEF S!ChunksAreFull
  <2>1. chunks \in Seq(ChunkSet) /\ k \in 1 .. Len(chunks)
    BY DEF StackShape
  <2>2. PICK c \in ChunkSet : c = chunks[k]
    BY <2>1
  <2>3. c.n \in Nat /\ c.d \in Nat /\ \A s \in S!Slots(c.d) : c.arr[s] # NoValue <=> s < c.n
    BY ChunkIs
  <2>4. \A s \in S!Slots(c.d) : s \in Nat
    <3>1. PICK m \in Nat : m = c.d
      BY <2>3
    <3>2. 2 ^ m \in Nat /\ S!Slots(m) = 0 .. 2 ^ m - 1
      BY ChunkSlots
    <3>3. \A s \in 0 .. 2 ^ m - 1 : s \in Nat
      OBVIOUS
    <3> QED BY <3>1, <3>2, <3>3
  <2>5. \A s \in S!Slots(c.d) : c.arr[s] = NoValue <=> s >= c.n
    BY <2>3, <2>4
  <2> QED BY <2>1, <2>2, <2>5 DEF StackShape
<1> QED BY <1>1, StackInvariant, PTL

(* The stack is one sequence changed at its front, across the boundaries   *)
(* of its chunks.                                                          *)
THEOREM StackIsASequence == EachSpec => S!ImplementsEnds
<1>1. EachInit => S!Ends!EndInit
  <2> SUFFICES ASSUME S!Init PROVE S!Ends!EndInit
    BY DEF EachInit
  <2>1. S!Items = StackItems(<<>>)
    BY DEF S!Items, StackItems, S!Init
  <2> QED BY <2>1, StackItemsOfNone DEF S!Init, S!Ends!EndInit
<1>2. StackIsChunks /\ [EachNext]_all => [S!Ends!EndNext]_<<S!Items, sobs>>
  <2> SUFFICES ASSUME StackIsChunks, [EachNext]_all
               PROVE  S!Ends!EndNext \/ UNCHANGED <<S!Items, sobs>>
    OBVIOUS
  <2>1. CASE StackNext
    BY <2>1, StackStep DEF StackNext, StackGood
  <2>2. CASE UNCHANGED stackVars
    BY <2>2 DEF stackVars, S!Items
  <2> QED BY <2>1, <2>2, OnlyOneIsUsed
<1> QED BY <1>1, <1>2, StackInvariant, PTL
        DEF EachSpec, S!ImplementsEnds, S!Ends!EndSpec, S!Ends!vars

-----------------------------------------------------------------------------
(* Bits in words: bit i is at place i % WordBits of word i \div WordBits.   *)

BitAt(f, i) == i % WordBits \in f[i \div WordBits]

BitsOf(f, len) == [i \in 1 .. len |-> BitAt(f, i - 1)]

\* The first n words hold `len' bits, and every bit beyond them is zero.
Masked(f, n, len) ==
  /\ n \in Nat /\ len \in Nat /\ len <= n * WordBits
  /\ f \in [0 .. n - 1 -> Words]
  /\ \A j \in Nat : j < n * WordBits /\ BitAt(f, j) => j < len

LEMMA WordBitsPositive == WordBits \in Nat \ {0}
  BY SequencesAssumption

LEMMA BitsOfBits ==
  ASSUME NEW f, NEW len \in Nat
  PROVE  /\ BitsOf(f, len) \in Seq(BOOLEAN) /\ Len(BitsOf(f, len)) = len
         /\ \A j \in Nat : j < len => BitsOf(f, len)[j + 1] = BitAt(f, j)
<1>1. \A i \in 1 .. len : BitAt(f, i - 1) \in BOOLEAN
  BY DEF BitAt
<1>2. BitsOf(f, len) \in [1 .. len -> BOOLEAN]
  BY <1>1 DEF BitsOf
<1>3. BitsOf(f, len) \in Seq(BOOLEAN) /\ Len(BitsOf(f, len)) = len
  BY <1>2
<1>4. \A j \in Nat : j < len => j + 1 \in 1 .. len /\ (j + 1) - 1 = j
  OBVIOUS
<1>5. \A j \in Nat : j < len => BitsOf(f, len)[j + 1] = BitAt(f, j)
  BY <1>4 DEF BitsOf
<1> QED BY <1>3, <1>5

(* The same said of each word: what the programs' masked tail is.          *)
LEMMA MaskedWords ==
  ASSUME NEW f, NEW n, NEW len, Masked(f, n, len)
  PROVE  \A p \in 0 .. n - 1 : \A k \in f[p] : p * WordBits + k < len
<1> SUFFICES ASSUME NEW p \in 0 .. n - 1, NEW k \in f[p] PROVE p * WordBits + k < len
  OBVIOUS
<1>1. n \in Nat /\ f[p] \in Words /\ p \in Nat
  BY DEF Masked
<1>2. k \in 0 .. WordBits - 1
  BY <1>1 DEF Words
<1>3. PICK i : i = p * WordBits + k
  OBVIOUS
<1>4. i \in Nat /\ i \div WordBits = p /\ i % WordBits = k
  BY <1>1, <1>2, <1>3, PlaceIs, WordBitsPositive
<1>5. BitAt(f, i)
  BY <1>4 DEF BitAt
<1>6. i < n * WordBits
  BY <1>1, <1>4, PlaceFits, WordBitsPositive
<1> QED BY <1>3, <1>4, <1>5, <1>6 DEF Masked

WordWith(w, k, v) == IF v THEN w \cup {k} ELSE w \ {k}

\* Bit i of the first n words is v, and every other as before.
Rewrites(g, f, n, i, v) ==
  /\ g \in [0 .. n - 1 -> Words] /\ (BitAt(g, i) <=> v)
  /\ \A j \in Nat : j < n * WordBits /\ j # i => (BitAt(g, j) <=> BitAt(f, j))

(* One bit is written and no other changes.                                *)
LEMMA BitPut ==
  ASSUME NEW n \in Nat, NEW f \in [0 .. n - 1 -> Words],
         NEW i \in Nat, i \div WordBits \in 0 .. n - 1, NEW v \in BOOLEAN,
         NEW w, w = WordWith(f[i \div WordBits], i % WordBits, v),
         NEW g, g = [f EXCEPT ![i \div WordBits] = w]
  PROVE  w \in Words /\ Rewrites(g, f, n, i, v)
<1>1. PICK p \in Nat, k \in 0 .. WordBits - 1 :
        p = i \div WordBits /\ k = i % WordBits /\ i = p * WordBits + k
  BY PlaceOf, WordBitsPositive
<1>2. p \in 0 .. n - 1
  BY <1>1
<1>3. f[p] \in Words /\ w = IF v THEN f[p] \cup {k} ELSE f[p] \ {k}
  BY <1>1, <1>2 DEF WordWith
<1>4. w \in Words
  BY <1>1, <1>3 DEF Words
<1>5. g = [f EXCEPT ![p] = w]
  BY <1>1
<1>6. g \in [0 .. n - 1 -> Words] /\ g[p] = w /\ \A r \in 0 .. n - 1 : r # p => g[r] = f[r]
  BY <1>2, <1>4, <1>5
<1>7. BitAt(g, i) <=> v
  BY <1>1, <1>3, <1>6 DEF BitAt
<1>8. ASSUME NEW j \in Nat, j < n * WordBits, j # i PROVE BitAt(g, j) <=> BitAt(f, j)
  <2>1. PICK r \in Nat, h \in 0 .. WordBits - 1 :
          r = j \div WordBits /\ h = j % WordBits /\ j = r * WordBits + h
    BY PlaceOf, WordBitsPositive
  <2>2. r \in 0 .. n - 1
    BY <2>1, <1>8, PlaceFits, WordBitsPositive
  <2>3. CASE r = p
    <3>1. h # k
      BY <2>1, <2>3, <1>1, <1>8
    <3>2. h \in w <=> h \in f[p]
      BY <3>1, <1>3
    <3> QED BY <2>1, <2>3, <3>2, <1>6 DEF BitAt
  <2>4. CASE r # p
    BY <2>1, <2>2, <2>4, <1>6 DEF BitAt
  <2> QED BY <2>3, <2>4
<1> QED BY <1>4, <1>6, <1>7, <1>8 DEF Rewrites

(* What calls make of masked bits.                                         *)
LEMMA MaskedAssigned ==
  ASSUME NEW n, NEW len, NEW f, Masked(f, n, len), NEW i \in Nat, i < len,
         NEW v \in BOOLEAN, NEW g, Rewrites(g, f, n, i, v)
  PROVE  /\ Masked(g, n, len)
         /\ BitsOf(g, len) = [BitsOf(f, len) EXCEPT ![i + 1] = v]
<1>0. /\ g \in [0 .. n - 1 -> Words] /\ (BitAt(g, i) <=> v)
      /\ \A j \in Nat : j < n * WordBits /\ j # i => (BitAt(g, j) <=> BitAt(f, j))
  BY DEF Rewrites
<1>1. PICK m \in Nat : m = n * WordBits /\ len <= m /\ len \in Nat /\ n \in Nat
  BY PlaceFits, WordBitsPositive DEF Masked
<1>2. ASSUME NEW j \in Nat, j < m, BitAt(g, j) PROVE j < len
  <2>1. CASE j = i
    BY <2>1
  <2>2. CASE j # i
    BY <1>0, <1>1, <1>2, <2>2 DEF Masked
  <2> QED BY <2>1, <2>2
<1>3. Masked(g, n, len)
  BY <1>0, <1>1, <1>2 DEF Masked
<1>4. PICK a, b : a = BitsOf(f, len) /\ b = BitsOf(g, len)
  OBVIOUS
<1>5. /\ a \in Seq(BOOLEAN) /\ Len(a) = len /\ b \in Seq(BOOLEAN) /\ Len(b) = len
      /\ \A j \in Nat : j < len => a[j + 1] = BitAt(f, j) /\ b[j + 1] = BitAt(g, j)
  BY <1>1, <1>4, BitsOfBits
<1>6. PICK c : c = [a EXCEPT ![i + 1] = v]
  OBVIOUS
<1>7. c \in Seq(BOOLEAN) /\ Len(c) = len
      /\ \A k \in 1 .. len : c[k] = IF k = i + 1 THEN v ELSE a[k]
  BY <1>1, <1>5, <1>6
<1>8. ASSUME NEW k \in 1 .. len PROVE b[k] = c[k]
  <2>1. PICK j \in Nat : j = k - 1 /\ j + 1 = k /\ j < len /\ j < m
    BY <1>1
  <2>2. b[k] = BitAt(g, j) /\ a[k] = BitAt(f, j) /\ b[k] \in BOOLEAN /\ a[k] \in BOOLEAN
    BY <1>5, <2>1
  <2>3. CASE j = i
    BY <1>0, <2>1, <2>2, <2>3, <1>7
  <2>4. CASE j # i
    <3>1. BitAt(g, j) <=> BitAt(f, j)
      BY <1>0, <1>1, <2>1, <2>4
    <3>2. c[k] = a[k]
      BY <1>7, <2>1, <2>4
    <3> QED BY <2>2, <3>1, <3>2
  <2> QED BY <2>3, <2>4
<1>9. b = c
  BY <1>5, <1>7, <1>8, SameElements
<1> QED BY <1>3, <1>4, <1>6, <1>9

(* One bit more, in a word that is there or in a new one.                  *)
LEMMA MaskedPushed ==
  ASSUME NEW n, NEW len, NEW f, Masked(f, n, len), NEW v \in BOOLEAN,
         NEW m \in Nat, n <= m, len < m * WordBits,
         NEW g \in [0 .. m - 1 -> Words], BitAt(g, len) <=> v,
         \A j \in Nat : j < n * WordBits /\ j # len => (BitAt(g, j) <=> BitAt(f, j)),
         \A j \in Nat : j < m * WordBits /\ ~ (j < n * WordBits) /\ j # len => ~ BitAt(g, j)
  PROVE  /\ Masked(g, m, len + 1)
         /\ BitsOf(g, len + 1) = Append(BitsOf(f, len), v)
<1>1. PICK e \in Nat, t \in Nat :
        e = n * WordBits /\ t = m * WordBits /\ len <= e /\ len \in Nat
  BY PlaceFits, WordBitsPositive DEF Masked
<1>2. ASSUME NEW j \in Nat, j < t, BitAt(g, j) PROVE j < len + 1
  <2>1. CASE j = len
    BY <1>1, <2>1
  <2>2. CASE j # len /\ j < e
    <3>1. BitAt(f, j)
      BY <1>1, <1>2, <2>2
    <3>2. j < len
      BY <1>1, <2>2, <3>1 DEF Masked
    <3> QED BY <1>1, <3>2
  <2>3. CASE j # len /\ ~ (j < e)
    BY <1>1, <1>2, <2>3
  <2> QED BY <2>1, <2>2, <2>3
<1>3. Masked(g, m, len + 1)
  BY <1>1, <1>2 DEF Masked
<1>4. PICK a, b : a = BitsOf(f, len) /\ b = BitsOf(g, len + 1)
  OBVIOUS
<1>5. a \in Seq(BOOLEAN) /\ Len(a) = len
      /\ \A j \in Nat : j < len => a[j + 1] = BitAt(f, j)
  BY <1>1, <1>4, BitsOfBits
<1>6. b \in Seq(BOOLEAN) /\ Len(b) = len + 1
      /\ \A j \in Nat : j < len + 1 => b[j + 1] = BitAt(g, j)
  <2>1. len + 1 \in Nat
    BY <1>1
  <2> QED BY <1>4, <2>1, BitsOfBits
<1>7. PICK c : c = Append(a, v)
  OBVIOUS
<1>8. c \in Seq(BOOLEAN) /\ Len(c) = len + 1 /\ c[len + 1] = v
      /\ \A k \in 1 .. len : c[k] = a[k]
  BY <1>1, <1>5, <1>7
<1>9. ASSUME NEW k \in 1 .. len + 1 PROVE b[k] = c[k]
  <2>1. PICK j \in Nat : j = k - 1 /\ j + 1 = k /\ j < len + 1
    BY <1>1
  <2>2. b[k] = BitAt(g, j) /\ b[k] \in BOOLEAN
    BY <1>6, <2>1
  <2>3. CASE j = len
    BY <2>1, <2>2, <2>3, <1>8
  <2>4. CASE j # len
    <3>1. j < len /\ k \in 1 .. len /\ j < e
      BY <1>1, <2>1, <2>4
    <3>2. BitAt(g, j) <=> BitAt(f, j)
      BY <1>1, <2>4, <3>1
    <3>3. c[k] = BitAt(f, j) /\ c[k] \in BOOLEAN
      BY <1>5, <1>8, <2>1, <3>1
    <3> QED BY <2>2, <3>2, <3>3
  <2> QED BY <2>3, <2>4
<1>10. len + 1 \in Nat
  BY <1>1
<1>11. b = c
  BY <1>6, <1>8, <1>9, <1>10, SameElements
<1> QED BY <1>3, <1>4, <1>7, <1>11

(* One bit less: it is overwritten if it is a one.                         *)
LEMMA MaskedPopped ==
  ASSUME NEW n, NEW len, NEW f, Masked(f, n, len), NEW m \in Nat, len = m + 1,
         NEW v, ~ v, NEW g, Rewrites(g, f, n, m, v)
  PROVE  /\ Masked(g, n, m)
         /\ BitsOf(f, len) # <<>> /\ BitsOf(f, len)[Len(BitsOf(f, len))] = BitAt(f, m)
         /\ BitsOf(g, m) = SubSeq(BitsOf(f, len), 1, Len(BitsOf(f, len)) - 1)
<1>0. /\ g \in [0 .. n - 1 -> Words] /\ ~ BitAt(g, m)
      /\ \A j \in Nat : j < n * WordBits /\ j # m => (BitAt(g, j) <=> BitAt(f, j))
  BY DEF Rewrites
<1>1. PICK e \in Nat : e = n * WordBits /\ len <= e /\ n \in Nat
  BY PlaceFits, WordBitsPositive DEF Masked
<1>2. ASSUME NEW j \in Nat, j < e, BitAt(g, j) PROVE j < m
  <2>1. j # m
    BY <1>0, <1>2
  <2>2. BitAt(f, j)
    BY <1>0, <1>1, <1>2, <2>1
  <2>3. j < len
    BY <1>0, <1>1, <1>2, <2>2 DEF Masked
  <2> QED BY <2>1, <2>3
<1>3. Masked(g, n, m)
  BY <1>0, <1>1, <1>2 DEF Masked
<1>4. PICK a, b : a = BitsOf(f, len) /\ b = BitsOf(g, m)
  OBVIOUS
<1>5. a \in Seq(BOOLEAN) /\ Len(a) = m + 1
      /\ \A j \in Nat : j < m + 1 => a[j + 1] = BitAt(f, j)
  BY <1>4, BitsOfBits
<1>6. b \in Seq(BOOLEAN) /\ Len(b) = m /\ \A j \in Nat : j < m => b[j + 1] = BitAt(g, j)
  BY <1>4, BitsOfBits
<1>7. PICK c : c = SubSeq(a, 1, m)
  OBVIOUS
<1>8. c \in Seq(BOOLEAN) /\ Len(c) = m /\ \A k \in 1 .. m : c[k] = a[k]
  BY <1>5, <1>7
<1>9. ASSUME NEW k \in 1 .. m PROVE b[k] = c[k]
  <2>1. PICK j \in Nat : j = k - 1 /\ j + 1 = k /\ j < m /\ j < m + 1 /\ j # m /\ j < e
    BY <1>1
  <2>2. BitAt(g, j) <=> BitAt(f, j)
    BY <1>0, <1>1, <2>1
  <2>3. b[k] = BitAt(g, j) /\ b[k] \in BOOLEAN /\ c[k] = BitAt(f, j) /\ c[k] \in BOOLEAN
    BY <1>5, <1>6, <1>8, <2>1
  <2> QED BY <2>2, <2>3
<1>10. b = c
  BY <1>6, <1>8, <1>9, SameElements
<1>11. a # <<>> /\ Len(a) - 1 = m /\ a[Len(a)] = BitAt(f, m)
  BY <1>5
<1> QED BY <1>3, <1>4, <1>7, <1>10, <1>11

-----------------------------------------------------------------------------
(* Counting and listing go word by word.                                   *)

\* The ones in the first p words.
OnesBelow(f, p) == { j \in Nat : j < p * WordBits /\ BitAt(f, j) }

OnesIn(f, p) == { p * WordBits + k : k \in f[p] }

LEMMA OnesOfWord ==
  ASSUME NEW n \in Nat, NEW f \in [0 .. n - 1 -> Words], NEW p \in 0 .. n - 1
  PROVE  /\ IsFiniteSet(OnesIn(f, p)) /\ Cardinality(OnesIn(f, p)) = Cardinality(f[p])
         /\ Cardinality(f[p]) \in Nat
         /\ OnesBelow(f, p + 1) = OnesBelow(f, p) \cup OnesIn(f, p)
         /\ OnesBelow(f, p) \cap OnesIn(f, p) = {}
<1>1. PICK w : w = f[p] /\ w \in Words
  OBVIOUS
<1>2. w \subseteq 0 .. WordBits - 1 /\ IsFiniteSet(w) /\ p \in Nat /\ WordBits \in Nat
  <2>1. w \subseteq 0 .. WordBits - 1 /\ 0 \in Int /\ WordBits - 1 \in Int
    BY <1>1, WordBitsPositive DEF Words
  <2>2. IsFiniteSet(0 .. WordBits - 1)
    BY <2>1, FS_Interval
  <2>3. IsFiniteSet(w)
    BY <2>1, <2>2, FS_Subset
  <2> QED BY <2>1, <2>3, WordBitsPositive
<1>3. PICK e \in Nat : e = p * WordBits /\ (p + 1) * WordBits = e + WordBits
  <2>1. p * WordBits \in Nat /\ (p + 1) * WordBits = p * WordBits + WordBits
    BY <1>2
  <2> QED BY <2>1
<1>4. OnesIn(f, p) = { e + k : k \in w }
  BY <1>1, <1>3 DEF OnesIn
<1>5. IsFiniteSet(OnesIn(f, p)) /\ Cardinality(OnesIn(f, p)) = Cardinality(w)
  <2>1. PICK More : More = { e + k : k \in w } /\ More = OnesIn(f, p)
    BY <1>4
  <2>2. PICK h : h = [k \in w |-> e + k]
    OBVIOUS
  <2>3. \A k, m \in w : h[k] = h[m] => k = m
    BY <1>2, <2>2
  <2>4. h \in [w -> More] /\ \A j \in More : \E k \in w : h[k] = j
    BY <2>1, <2>2
  <2>5. h \in Bijection(w, More)
    BY <2>3, <2>4 DEF Bijection, Injection, Surjection, IsInjective
  <2>6. ExistsBijection(w, More)
    BY <2>5 DEF ExistsBijection
  <2> QED BY <2>1, <2>6, <1>2, FS_Bijection
<1>6. Cardinality(w) \in Nat
  BY <1>2, FS_CardinalityType
<1>7. ASSUME NEW k \in 0 .. WordBits - 1
      PROVE  e + k \in Nat /\ (BitAt(f, e + k) <=> k \in w)
  <2>1. PICK i : i = p * WordBits + k
    OBVIOUS
  <2>2. i \in Nat /\ i \div WordBits = p /\ i % WordBits = k
    BY <1>2, <2>1, PlaceIs, WordBitsPositive
  <2>3. i = e + k
    BY <2>1, <1>3
  <2> QED BY <1>1, <2>2, <2>3 DEF BitAt
<1>8. OnesBelow(f, p + 1) = { j \in Nat : j < e + WordBits /\ BitAt(f, j) }
      /\ OnesBelow(f, p) = { j \in Nat : j < e /\ BitAt(f, j) }
  BY <1>3 DEF OnesBelow
<1>9. ASSUME NEW j \in OnesBelow(f, p + 1), j \notin OnesBelow(f, p) PROVE j \in OnesIn(f, p)
  <2>1. j \in Nat /\ e <= j /\ j < e + WordBits /\ BitAt(f, j)
    BY <1>8, <1>9
  <2>2. PICK k \in 0 .. WordBits - 1 : j = e + k
    <3>1. j - e \in 0 .. WordBits - 1 /\ j = e + (j - e)
      BY <1>2, <2>1
    <3> QED BY <3>1
  <2>3. k \in w
    BY <1>7, <2>1, <2>2
  <2> QED BY <1>4, <2>2, <2>3
<1>10. ASSUME NEW j \in OnesIn(f, p)
       PROVE  j \in OnesBelow(f, p + 1) /\ j \notin OnesBelow(f, p)
  <2>1. PICK k \in w : j = e + k
    BY <1>4
  <2>2. k \in 0 .. WordBits - 1
    BY <1>2
  <2>3. j \in Nat /\ BitAt(f, j) /\ ~ (j < e) /\ j < e + WordBits
    BY <1>2, <1>7, <2>1, <2>2
  <2> QED BY <1>8, <2>3
<1>11. OnesBelow(f, p) \subseteq OnesBelow(f, p + 1)
  BY <1>2, <1>8
<1> QED BY <1>1, <1>5, <1>6, <1>9, <1>10, <1>11

(* What a count over all words finds when the bits beyond the last are     *)
(* zero.                                                                   *)
LEMMA OnesAreCounted ==
  ASSUME NEW n, NEW len, NEW f, Masked(f, n, len), NEW c, c[0] = 0,
         \A p \in 0 .. n - 1 : c[p + 1] = c[p] + Cardinality(f[p])
  PROVE  c[n] = Cardinality({ i \in DOMAIN BitsOf(f, len) : BitsOf(f, len)[i] })
<1>1. n \in Nat /\ len \in Nat /\ f \in [0 .. n - 1 -> Words]
  BY DEF Masked
<1> DEFINE T == { p \in 0 .. n : IsFiniteSet(OnesBelow(f, p)) /\ c[p] = Cardinality(OnesBelow(f, p)) }
<1>2. 0 \in T
  <2>1. 0 * WordBits = 0
    BY WordBitsPositive
  <2>2. OnesBelow(f, 0) = {}
    BY <2>1 DEF OnesBelow
  <2>3. IsFiniteSet({}) /\ Cardinality({}) = 0 /\ 0 \in 0 .. n
    BY <1>1, FS_EmptySet
  <2> QED BY <2>2, <2>3
<1>3. ASSUME NEW p \in 0 .. n - 1, p \in T PROVE p + 1 \in T
  <2>1. PICK Ones, More : Ones = OnesBelow(f, p) /\ More = OnesIn(f, p)
    OBVIOUS
  <2>2. /\ IsFiniteSet(More) /\ Cardinality(More) = Cardinality(f[p]) /\ Cardinality(More) \in Nat
        /\ OnesBelow(f, p + 1) = Ones \cup More /\ Ones \cap More = {}
    BY <1>1, <2>1, OnesOfWord
  <2>3. IsFiniteSet(Ones) /\ c[p] = Cardinality(Ones) /\ Cardinality(Ones) \in Nat
    BY <1>3, <2>1, FS_CardinalityType
  <2>4. IsFiniteSet(Ones \cup More)
        /\ Cardinality(Ones \cup More) = Cardinality(Ones) + Cardinality(More) - Cardinality(Ones \cap More)
    BY <2>2, <2>3, FS_Union
  <2>5. Cardinality(Ones \cap More) = 0
    BY <2>2, FS_EmptySet
  <2>6. c[p + 1] = Cardinality(Ones \cup More)
    BY <2>2, <2>3, <2>4, <2>5
  <2>7. p + 1 \in 0 .. n
    BY <1>1
  <2> QED BY <2>2, <2>4, <2>6, <2>7
<1> HIDE DEF T
<1>4. n \in T
  <2>1. \A p \in 0 .. n : p \in T
    BY <1>1, <1>2, <1>3, BoundedInduction
  <2>2. n \in 0 .. n
    BY <1>1
  <2> QED BY <2>1, <2>2
<1>5. PICK Ones : Ones = OnesBelow(f, n) /\ IsFiniteSet(Ones) /\ c[n] = Cardinality(Ones)
  BY <1>4 DEF T
<1>6. PICK b : b = BitsOf(f, len)
  OBVIOUS
<1>7. b \in Seq(BOOLEAN) /\ Len(b) = len /\ \A j \in Nat : j < len => b[j + 1] = BitAt(f, j)
  BY <1>1, <1>6, BitsOfBits
<1>8. PICK More : More = { i \in DOMAIN b : b[i] }
  OBVIOUS
<1>9. PICK e \in Nat : e = n * WordBits /\ len <= e
  BY <1>1, PlaceFits, WordBitsPositive DEF Masked
<1>10. Ones = { j \in Nat : j < len /\ BitAt(f, j) }
  <2>1. Ones = { j \in Nat : j < e /\ BitAt(f, j) }
    BY <1>5, <1>9 DEF OnesBelow
  <2>2. \A j \in Nat : j < e /\ BitAt(f, j) => j < len
    BY <1>9 DEF Masked
  <2> QED BY <1>1, <1>9, <2>1, <2>2
<1>11. Ones = { j \in Nat : j < len /\ b[j + 1] } /\ DOMAIN b = 1 .. len
  BY <1>7, <1>10
<1>12. \A j \in Ones : j \in Nat /\ j + 1 \in More
  BY <1>1, <1>8, <1>11
<1>13. \A i \in More : i - 1 \in Ones /\ i \in Nat /\ (i - 1) + 1 = i
  BY <1>1, <1>8, <1>11
<1>14. Cardinality(More) = Cardinality(Ones)
  <2> DEFINE h == [j \in Ones |-> j + 1]
  <2>1. h \in Bijection(Ones, More)
    BY <1>12, <1>13 DEF Bijection, Injection, Surjection, IsInjective
  <2>2. ExistsBijection(Ones, More)
    BY <2>1 DEF ExistsBijection
  <2> QED BY <2>2, <1>5, FS_Bijection
<1> QED BY <1>5, <1>6, <1>8, <1>14

\* What of the first len bits the first p words hold, and word p itself.
ListedBelow(len, p) == IF p * WordBits < len THEN p * WordBits ELSE len

ListedIn(len, p) ==
  IF len < p * WordBits THEN 0
  ELSE IF len - p * WordBits < WordBits THEN len - p * WordBits ELSE WordBits

ListedWord(f, len, p) == [k \in 1 .. ListedIn(len, p) |-> k - 1 \in f[p]]

LEMMA BitOfWord ==
  ASSUME NEW f, NEW p \in Nat, NEW k \in 0 .. WordBits - 1
  PROVE  p * WordBits + k \in Nat /\ BitAt(f, p * WordBits + k) = (k \in f[p])
<1>1. PICK i : i = p * WordBits + k
  OBVIOUS
<1>2. i \in Nat /\ i \div WordBits = p /\ i % WordBits = k
  BY <1>1, PlaceIs, WordBitsPositive
<1>3. BitAt(f, i) = (k \in f[p])
  BY <1>2 DEF BitAt
<1> QED BY <1>1, <1>2, <1>3

LEMMA ListedPiece ==
  ASSUME NEW f, NEW len \in Nat, NEW p \in Nat
  PROVE  /\ ListedWord(f, len, p) \in Seq(BOOLEAN)
         /\ Len(ListedWord(f, len, p)) = ListedIn(len, p) /\ ListedIn(len, p) \in Nat
         /\ \A k \in 1 .. ListedIn(len, p) : ListedWord(f, len, p)[k] = (k - 1 \in f[p])
<1>1. PICK e \in Nat : e = p * WordBits
  BY WordBitsPositive
<1>2. PICK m : m = ListedIn(len, p)
  OBVIOUS
<1>3. m = IF len < e THEN 0 ELSE IF len - e < WordBits THEN len - e ELSE WordBits
  BY <1>1, <1>2 DEF ListedIn
<1>4. m \in Nat
  <2>1. WordBits \in Nat
    BY WordBitsPositive
  <2> QED BY ONLY <2>1, <1>3, len \in Nat, e \in Nat
<1>5. PICK s : s = ListedWord(f, len, p)
  OBVIOUS
<1>6. s = [k \in 1 .. m |-> k - 1 \in f[p]]
  BY <1>2, <1>5 DEF ListedWord
<1>7. \A k \in 1 .. m : (k - 1 \in f[p]) \in BOOLEAN
  OBVIOUS
<1>8. s \in [1 .. m -> BOOLEAN] /\ \A k \in 1 .. m : s[k] = (k - 1 \in f[p])
  BY <1>6, <1>7
<1>9. s \in Seq(BOOLEAN) /\ Len(s) = m
  BY ONLY <1>4, <1>8
<1> QED BY <1>2, <1>4, <1>5, <1>8, <1>9

(* The bits of one word, joined to those before it.                        *)
LEMMA WordIsListed ==
  ASSUME NEW f, NEW len \in Nat, NEW p \in Nat
  PROVE  BitsOf(f, ListedBelow(len, p + 1))
           = BitsOf(f, ListedBelow(len, p)) \o ListedWord(f, len, p)
<1>s. PICK s : s = ListedWord(f, len, p)
  OBVIOUS
<1>0. s \in Seq(BOOLEAN) /\ Len(s) = ListedIn(len, p)
      /\ \A k \in 1 .. ListedIn(len, p) : s[k] = (k - 1 \in f[p])
  <2>1. /\ ListedWord(f, len, p) \in Seq(BOOLEAN)
        /\ Len(ListedWord(f, len, p)) = ListedIn(len, p) /\ ListedIn(len, p) \in Nat
        /\ \A k \in 1 .. ListedIn(len, p) : ListedWord(f, len, p)[k] = (k - 1 \in f[p])
    BY ListedPiece, ZenonT(40)
  <2> QED BY <1>s, <2>1
<1>1. PICK e \in Nat : e = p * WordBits /\ (p + 1) * WordBits = e + WordBits
  <2>1. p * WordBits \in Nat /\ (p + 1) * WordBits = p * WordBits + WordBits
    BY WordBitsPositive
  <2> QED BY <2>1
<1>2. PICK m, t, u :
        m = ListedIn(len, p) /\ t = ListedBelow(len, p) /\ u = ListedBelow(len, p + 1)
  OBVIOUS
<1>3. m = IF len < e THEN 0 ELSE IF len - e < WordBits THEN len - e ELSE WordBits
  BY <1>1, <1>2 DEF ListedIn
<1>4. /\ t = IF e < len THEN e ELSE len
      /\ u = IF e + WordBits < len THEN e + WordBits ELSE len
  BY <1>1, <1>2 DEF ListedBelow
<1>5. /\ m \in Nat /\ t \in Nat /\ u \in Nat
      /\ u = t + m /\ m <= WordBits /\ (m > 0 => t = e)
  <2>1. WordBits \in Nat
    BY WordBitsPositive
  <2> QED BY ONLY <2>1, <1>3, <1>4, len \in Nat, e \in Nat
<1>6. PICK a, b : a = BitsOf(f, t) /\ b = BitsOf(f, u)
  OBVIOUS
<1>7. a \in Seq(BOOLEAN) /\ Len(a) = t /\ \A j \in Nat : j < t => a[j + 1] = BitAt(f, j)
  BY <1>5, <1>6, BitsOfBits
<1>8. b \in Seq(BOOLEAN) /\ Len(b) = u /\ \A j \in Nat : j < u => b[j + 1] = BitAt(f, j)
  BY <1>5, <1>6, BitsOfBits
<1>9. PICK c : c = a \o s
  OBVIOUS
<1>10. c \in Seq(BOOLEAN) /\ Len(c) = u
       /\ (\A i \in 1 .. t : c[i] = a[i]) /\ (\A k \in 1 .. m : c[t + k] = s[k])
  <2>1. /\ a \o s \in Seq(BOOLEAN) /\ Len(a \o s) = Len(a) + Len(s)
        /\ \A i \in 1 .. Len(a) : (a \o s)[i] = a[i]
        /\ \A i \in 1 .. Len(s) : (a \o s)[Len(a) + i] = s[i]
    <3>1. PICK V : V = BOOLEAN
      OBVIOUS
    <3>2. a \in Seq(V) /\ s \in Seq(V)
      BY <1>0, <1>7, <3>1
    <3>3. /\ a \o s \in Seq(V) /\ Len(a \o s) = Len(a) + Len(s)
          /\ \A i \in 1 .. Len(a) : (a \o s)[i] = a[i]
          /\ \A i \in 1 .. Len(s) : (a \o s)[Len(a) + i] = s[i]
      BY ONLY <3>2, Joined
    <3> QED BY <3>1, <3>3
  <2>2. Len(s) = m
    BY <1>0, <1>2
  <2> QED BY <2>1, <2>2, <1>5, <1>7, <1>9
<1>11. ASSUME NEW i \in 1 .. u PROVE b[i] = c[i]
  <2>1. PICK j \in Nat : j = i - 1 /\ j + 1 = i /\ j < u
    BY <1>5
  <2>2. b[i] = BitAt(f, j)
    BY <1>8, <2>1
  <2>3. CASE i <= t
    <3>1. i \in 1 .. t /\ j < t
      BY <1>5, <2>1, <2>3
    <3> QED BY <2>1, <2>2, <3>1, <1>7, <1>10
  <2>4. CASE ~ (i <= t)
    <3>1. PICK k \in 1 .. m : i = t + k
      <4>1. i - t \in 1 .. m /\ i = t + (i - t)
        BY <1>5, <2>4
      <4> QED BY <4>1
    <3>2. k - 1 \in 0 .. WordBits - 1 /\ j = p * WordBits + (k - 1)
      <4>1. WordBits \in Nat
        BY WordBitsPositive
      <4>2. k - 1 \in 0 .. WordBits - 1 /\ j = e + (k - 1)
        BY <4>1, <1>5, <2>1, <3>1
      <4> QED BY <4>2, <1>1
    <3>3. BitAt(f, j) = (k - 1 \in f[p])
      <4>1. PICK h \in 0 .. WordBits - 1 : h = k - 1 /\ j = p * WordBits + h
        BY <3>2
      <4>2. BitAt(f, p * WordBits + h) = (h \in f[p])
        BY ONLY p \in Nat, BitOfWord
      <4> QED BY <4>1, <4>2
    <3>5. c[i] = s[k] /\ s[k] = (k - 1 \in f[p])
      BY <1>0, <1>2, <1>10, <3>1
    <3> QED BY <2>2, <3>3, <3>5
  <2> QED BY <2>3, <2>4
<1>12. b = c
  BY <1>8, <1>10, <1>11, SameElements
<1> QED BY <1>s, <1>2, <1>6, <1>9, <1>12

LEMMA BitsAreListed ==
  ASSUME NEW n \in Nat, NEW len \in Nat, len <= n * WordBits, NEW f,
         NEW ss, ss = [p \in 1 .. n |-> ListedWord(f, len, p - 1)]
  PROVE  S!FlattenSeq(ss) = BitsOf(f, len)
<1>1. PICK Lists : Lists = Seq(BOOLEAN) /\ Joinable(Lists)
  BY SequencesJoin
<1> DEFINE g == [p \in 0 .. n |-> BitsOf(f, ListedBelow(len, p))]
<1>2. \A p \in Nat : ListedWord(f, len, p) \in Lists
      /\ BitsOf(f, ListedBelow(len, p + 1)) = BitsOf(f, ListedBelow(len, p)) \o ListedWord(f, len, p)
  BY <1>1, ListedPiece, WordIsListed
<1>3. \A p \in 1 .. n : p - 1 \in Nat /\ ss[p] = ListedWord(f, len, p - 1)
  OBVIOUS
<1>4. ss = [p \in 1 .. n |-> ss[p]] /\ \A p \in 1 .. n : ss[p] \in Lists
  BY <1>2, <1>3
<1>5. ss \in Seq(Lists) /\ Len(ss) = n
  BY <1>4
<1>6. \A p \in 0 .. n : g[p] = BitsOf(f, ListedBelow(len, p)) /\ ListedBelow(len, p) \in Nat
  BY WordBitsPositive DEF ListedBelow
<1>7. g \in [0 .. n -> Lists]
  BY <1>1, <1>6, BitsOfBits
<1>8. \A k \in 0 .. n - 1 : k \in 0 .. n /\ k + 1 \in 0 .. n /\ k + 1 \in 1 .. n /\ (k + 1) - 1 = k
                              /\ k \in Nat
  OBVIOUS
<1>9. 0 \in 0 .. n /\ n \in 0 .. n /\ 0 * WordBits = 0 /\ ListedBelow(len, 0) = 0
      /\ ListedBelow(len, n) = len
  <2>1. n * WordBits \in Nat /\ 0 * WordBits = 0
    BY WordBitsPositive
  <2> QED BY <2>1 DEF ListedBelow
<1> HIDE DEF g
<1>10. g[0] = <<>>
  <2>1. g[0] = BitsOf(f, 0)
    BY <1>6, <1>9
  <2>2. BitsOf(f, 0) \in Seq(BOOLEAN) /\ Len(BitsOf(f, 0)) = 0
    BY BitsOfBits
  <2> QED BY <2>1, <2>2
<1>11. \A k \in 0 .. n - 1 : g[k + 1] = g[k] \o ss[k + 1]
  BY <1>2, <1>3, <1>6, <1>8
<1>12. JoinedUpTo(Lists, ss, g)
  BY <1>5, <1>7, <1>10, <1>11 DEF JoinedUpTo
<1>13. S!FlattenSeq(ss) = g[n]
  BY <1>1, <1>5, <1>12, FlattenedIs
<1> QED BY <1>6, <1>9, <1>13

-----------------------------------------------------------------------------
(* The list of bits.                                                       *)

LEMMA ListOps ==
  \A a, x :
    /\ L!HasRoom(a) = HasRoom(a) /\ L!MayGrow(a) = MayGrow(a)
    /\ L!Pushed(a, x) = Pushed(a, x) /\ L!ClearedWhole(a) = ClearedWhole(a)
    /\ (L!Packed(a) <=> /\ a.cap = 2 ^ a.depth /\ a.depth <= a.limit /\ a.limit <= WordsDepth
                        /\ DOMAIN a.slots = Slots(a.depth)
                        /\ \A s \in Slots(a.depth) : a.slots[s] # NoValue <=> s < a.length)
    /\ L!NewList(x) = [limit |-> x, len |-> 0,
                       words |-> [limit |-> WordsDepth, depth |-> 0, cap |-> 1,
                                  length |-> 0, slots |-> EmptySlots(0)]]
  BY DEF L!HasRoom, HasRoom, L!MayGrow, MayGrow, L!Pushed, Pushed, L!Placed, Placed,
         L!Grown, Grown, L!Slots, Slots, L!ClearedWhole, ClearedWhole, L!Packed,
         L!NewList, L!NewArray, L!ClampLimit, L!EmptySlots, EmptySlots

\* The words in use, and the bits they stand for.
WordsOf(l) == [p \in 0 .. l.words.length - 1 |-> l.words.slots[p]]

ListBits(l) == BitsOf(WordsOf(l), l.len)

ListGood(l) ==
  /\ DOMAIN l = {"limit", "len", "words"}
  /\ l.limit = <<"None">> \/ (l.limit[2] \in Nat /\ l.limit = <<"Some", l.limit[2]>>)
  /\ Block(l.words, Words, WordsDepth) /\ l.words.limit = WordsDepth
  /\ Masked(WordsOf(l), l.words.length, l.len)

LEMMA ListConstants ==
  /\ WordBits \in Nat \ {0} /\ WordsDepth \in Nat
  /\ NoValue \notin Words
  /\ \A m \in BitLimits : m = <<"None">> \/ (m[2] \in Nat /\ m = <<"Some", m[2]>>)
<1>1. \A m \in BitLimits : m = <<"None">> \/ (m[2] \in Nat /\ m = <<"Some", m[2]>>)
  BY SequencesAssumption DEF L!None, L!Some
<1>2. NoValue \notin Words
  BY SequencesAssumption
<1> QED BY <1>1, <1>2, SequencesAssumption

LEMMA WordsOfBlock ==
  ASSUME NEW l, Block(l.words, Words, WordsDepth)
  PROVE  /\ l.words.length \in Nat
         /\ WordsOf(l) \in [0 .. l.words.length - 1 -> Words]
         /\ \A p \in Nat : p < l.words.length =>
              /\ p \in 0 .. l.words.length - 1 /\ p \in Slots(l.words.depth)
              /\ WordsOf(l)[p] = l.words.slots[p] /\ l.words.slots[p] # NoValue
              /\ l.words.slots[p] \in Words
<1>0. PICK a : a = l.words
  OBVIOUS
<1>1. PICK n \in Nat, m \in Nat : a = l.words /\ n = a.length /\ m = a.depth
  BY <1>0 DEF Block
<1>2. PICK c \in Nat : c = 2 ^ m /\ Slots(m) = 0 .. c - 1
  BY SlotsOf
<1>3. /\ n <= c /\ a.slots \in [Slots(m) -> Words \cup {NoValue}]
      /\ \A s \in Slots(m) : a.slots[s] # NoValue <=> s < n
  BY <1>1, <1>2 DEF Block
<1>4. \A p \in Nat : p < n =>
        p \in 0 .. n - 1 /\ p \in Slots(m) /\ a.slots[p] # NoValue /\ a.slots[p] \in Words
  BY <1>2, <1>3
<1>5. WordsOf(l) = [p \in 0 .. n - 1 |-> a.slots[p]]
  BY <1>1 DEF WordsOf
<1>6. \A p \in 0 .. n - 1 : p \in Nat /\ p < n
  OBVIOUS
<1>7. WordsOf(l) \in [0 .. n - 1 -> Words]
  BY <1>4, <1>5, <1>6
<1>8. \A p \in Nat : p < n => WordsOf(l)[p] = a.slots[p]
  BY <1>4, <1>5
<1> QED BY <1>1, <1>4, <1>7, <1>8

LEMMA NoBits ==
  ASSUME NEW f \in [0 .. 0 - 1 -> Words]
  PROVE  Masked(f, 0, 0) /\ BitsOf(f, 0) = <<>>
<1>1. 0 * WordBits = 0
  BY ListConstants
<1>2. \A j \in Nat : j < 0 * WordBits /\ BitAt(f, j) => j < 0
  BY <1>1
<1>3. 0 <= 0 * WordBits /\ 0 \in Nat
  BY <1>1
<1>4. BitsOf(f, 0) \in Seq(BOOLEAN) /\ Len(BitsOf(f, 0)) = 0
  BY <1>3, BitsOfBits
<1> QED BY <1>2, <1>3, <1>4 DEF Masked

LEMMA NewListGood ==
  ASSUME NEW x, x = <<"None">> \/ (x[2] \in Nat /\ x = <<"Some", x[2]>>),
         NEW l, l = L!NewList(x)
  PROVE  ListGood(l) /\ l.limit = x /\ l.len = 0 /\ ListBits(l) = <<>>
<1>1. PICK a : a = [limit |-> WordsDepth, depth |-> 0, cap |-> 1,
                    length |-> 0, slots |-> EmptySlots(0)]
  OBVIOUS
<1>2. /\ DOMAIN l = {"limit", "len", "words"} /\ l.limit = x /\ l.len = 0 /\ l.words = a
  BY <1>1, ListOps
<1>3. Block(a, Words, WordsDepth)
  <2>1. WordsDepth \in Nat /\ WordsDepth <= WordsDepth
    BY ListConstants
  <2> QED BY <2>1, <1>1, NewBlock
<1>4. a.limit = WordsDepth /\ a.length = 0
  BY <1>1
<1>5. PICK f : f = WordsOf(l)
  OBVIOUS
<1>6. f \in [0 .. 0 - 1 -> Words]
  <2>1. Block(l.words, Words, WordsDepth)
    BY <1>2, <1>3
  <2>2. WordsOf(l) \in [0 .. l.words.length - 1 -> Words]
    BY <2>1, WordsOfBlock
  <2> QED BY <2>2, <1>2, <1>4, <1>5
<1>7. Masked(f, 0, 0) /\ BitsOf(f, 0) = <<>>
  BY <1>6, NoBits
<1>8. ListGood(l)
  BY <1>2, <1>3, <1>4, <1>5, <1>7 DEF ListGood
<1>9. ListBits(l) = <<>>
  BY <1>2, <1>5, <1>7 DEF ListBits
<1> QED BY <1>2, <1>8, <1>9

(* One bit of the list is overwritten.                                     *)
LEMMA ListPut ==
  ASSUME NEW l, ListGood(l), NEW i \in Nat, i \div WordBits \in 0 .. l.words.length - 1,
         NEW v \in BOOLEAN, NEW b, b = L!Put(l, i, v)
  PROVE  /\ DOMAIN b = {"limit", "len", "words"}
         /\ b.limit = l.limit /\ b.len = l.len
         /\ Block(b.words, Words, WordsDepth) /\ b.words.limit = WordsDepth
         /\ b.words.length = l.words.length
         /\ Rewrites(WordsOf(b), WordsOf(l), l.words.length, i, v)
<1>0. PICK a, f : a = l.words /\ f = WordsOf(l)
  OBVIOUS
<1>1. PICK n \in Nat : a = l.words /\ n = a.length /\ f = WordsOf(l)
  BY <1>0 DEF ListGood, Block
<1>2. Block(a, Words, WordsDepth) /\ a.limit = WordsDepth /\ i \div WordBits \in 0 .. n - 1
      /\ DOMAIN l = {"limit", "len", "words"}
  BY <1>1 DEF ListGood
<1>3. f \in [0 .. n - 1 -> Words]
      /\ \A p \in Nat : p < n => f[p] = a.slots[p]
  BY <1>1, <1>2, WordsOfBlock
<1>4. PICK r \in Nat, k \in Nat : r = i \div WordBits /\ k = i % WordBits /\ r \in 0 .. n - 1
  <2>1. i \div WordBits \in Nat /\ i % WordBits \in 0 .. WordBits - 1
    BY PlaceOf, ListConstants
  <2>2. i \div WordBits \in 0 .. n - 1
    BY <1>2
  <2> QED BY <2>1, <2>2
<1>5. r < n
  BY <1>4
<1>6. PICK w : w = WordWith(f[r], k, v)
  OBVIOUS
<1>7. PICK c : c = [a EXCEPT !.slots[r] = w]
  OBVIOUS
<1>8. f[r] = a.slots[r]
  BY <1>3, <1>5
<1>9. DOMAIN b = {"limit", "len", "words"} /\ b.limit = l.limit /\ b.len = l.len /\ b.words = c
  <2>1. "words" \in DOMAIN l /\ "slots" \in DOMAIN a
    BY <1>2 DEF Block, BlockFields
  <2>2. b = [l EXCEPT !.words.slots[r] = w]
    BY <1>1, <1>4, <1>6, <1>8 DEF L!Put, L!WordPut, L!WordIx, L!BitIx, WordWith
  <2> QED BY <2>1, <2>2, <1>1, <1>2, <1>7
<1>10. PICK g : g = [f EXCEPT ![i \div WordBits] = w]
  OBVIOUS
<1>11. w = WordWith(f[i \div WordBits], i % WordBits, v)
  BY <1>4, <1>6
<1>12. w \in Words /\ Rewrites(g, f, n, i, v)
  <2>1. i \div WordBits \in 0 .. n - 1
    BY <1>4
  <2>2. f \in [0 .. n - 1 -> Words]
    BY <1>3
  <2> QED BY ONLY <2>1, <2>2, <1>10, <1>11, BitPut, n \in Nat, i \in Nat, v \in BOOLEAN
<1>13. /\ Block(c, Words, WordsDepth)
       /\ c.limit = a.limit /\ c.length = a.length
       /\ c.slots[r] = w
       /\ \A s \in Slots(a.depth) : s # r => c.slots[s] = a.slots[s]
  <2>1. NoValue \notin Words /\ r < a.length
    BY <1>1, <1>5, ListConstants
  <2> QED BY <2>1, <1>2, <1>7, <1>12, BlockWritten
<1>14. WordsOf(b) = g
  <2>1. \A p \in 0 .. n - 1 : p \in Nat /\ p < n /\ p \in Slots(a.depth) /\ f[p] = a.slots[p]
    BY <1>1, <1>2, WordsOfBlock
  <2>2. \A p \in 0 .. n - 1 : g[p] = c.slots[p]
    BY <2>1, <1>3, <1>4, <1>10, <1>13
  <2>3. WordsOf(b) = [p \in 0 .. n - 1 |-> c.slots[p]]
    BY <1>1, <1>9, <1>13 DEF WordsOf
  <2> QED BY <2>2, <2>3, <1>12 DEF Rewrites
<1> QED BY <1>1, <1>2, <1>9, <1>12, <1>13, <1>14

(* What CanPush allows is what the sequence of bits has room for.          *)
LEMMA ListRoom ==
  ASSUME NEW l, ListGood(l), NEW room, room = WordBits * 2 ^ WordsDepth
  PROVE  /\ room \in Nat /\ l.len \in Nat /\ l.len <= room
         /\ L!Inside(l) <=> l.len < l.words.length * WordBits
         /\ ~ L!Inside(l) => l.len = l.words.length * WordBits
         /\ L!Inside(l) \/ L!MayAppend(l) <=> l.len < room
<1>1. PICK a : a = l.words
  OBVIOUS
<1>2. PICK n \in Nat, t \in Nat :
        /\ n = a.length /\ t = 2 ^ a.limit /\ n <= t
        /\ HasRoom(a) \/ MayGrow(a) => n < t
        /\ ~ (HasRoom(a) \/ MayGrow(a)) => n = t
  <2>1. Block(a, Words, WordsDepth)
    BY <1>1 DEF ListGood
  <2>2. /\ a.length \in Nat /\ a.cap \in Nat /\ a.cap > 0 /\ 2 ^ a.limit \in Nat
        /\ a.length <= a.cap /\ a.cap <= 2 ^ a.limit
        /\ HasRoom(a) \/ MayGrow(a) => a.length < 2 ^ a.limit
        /\ ~ (HasRoom(a) \/ MayGrow(a)) => a.length = 2 ^ a.limit
    BY <2>1, BlockBounds
  <2> QED BY <2>2
<1>3. t = 2 ^ WordsDepth /\ l.len \in Nat /\ l.len <= n * WordBits
  BY <1>1, <1>2 DEF ListGood, Masked
<1>4. PICK e \in Nat, r \in Nat :
        /\ e = n * WordBits /\ r = t * WordBits /\ r = room
        /\ n < t => e < r
        /\ n = t => e = r
  <2>1. n * WordBits \in Nat /\ t * WordBits \in Nat /\ t * WordBits = WordBits * t
    BY ListConstants
  <2>2. ASSUME n < t PROVE n * WordBits < t * WordBits
    <3>1. n * WordBits + WordBits <= t * WordBits
      BY <2>2, Products, ListConstants
    <3> QED BY <2>1, <3>1, ListConstants
  <2> QED BY <1>3, <2>1, <2>2
<1>5. L!Inside(l) <=> l.len < e
  BY <1>1, <1>2, <1>4 DEF L!Inside
<1>6. L!MayAppend(l) <=> HasRoom(a) \/ MayGrow(a)
  BY <1>1, ListOps DEF L!MayAppend
<1> QED BY <1>1, <1>2, <1>3, <1>4, <1>5, <1>6

LEMMA LongerIs ==
  ASSUME NEW l, DOMAIN l = {"limit", "len", "words"}, NEW b, b = L!Longer(l)
  PROVE  DOMAIN b = {"limit", "len", "words"} /\ b.limit = l.limit
         /\ b.len = l.len + 1 /\ b.words = l.words
  BY DEF L!Longer

(* A bit more in a word that is there.                                     *)
LEMMA ListPushedInside ==
  ASSUME NEW l, ListGood(l), L!Inside(l), NEW v \in BOOLEAN, NEW b, b = L!BitPushed(l, v)
  PROVE  /\ ListGood(b) /\ b.limit = l.limit /\ b.len = l.len + 1
         /\ ListBits(b) = Append(ListBits(l), v)
<1>1. PICK n \in Nat, len \in Nat : n = l.words.length /\ len = l.len /\ len < n * WordBits
  BY ListRoom, WordsOfBlock DEF ListGood
<1>2. PICK f : f = WordsOf(l) /\ Masked(f, n, len)
  BY <1>1 DEF ListGood
<1>3. PICK c : c = IF v THEN L!Put(l, len, TRUE) ELSE l
  OBVIOUS
<1>4. b = L!Longer(c)
  BY <1>1, <1>3 DEF L!BitPushed
<1>5. /\ DOMAIN c = {"limit", "len", "words"}
      /\ c.limit = l.limit /\ c.len = len
      /\ Block(c.words, Words, WordsDepth) /\ c.words.limit = WordsDepth
      /\ c.words.length = n
      /\ Rewrites(WordsOf(c), f, n, len, v)
  <2>1. CASE v
    <3>0. v = TRUE
      BY <2>1
    <3>1. c = L!Put(l, len, v)
      BY <3>0, <1>3
    <3>2. len \div WordBits \in 0 .. l.words.length - 1
      BY <1>1, PlaceFits, ListConstants
    <3>3. /\ DOMAIN c = {"limit", "len", "words"}
          /\ c.limit = l.limit /\ c.len = l.len
          /\ Block(c.words, Words, WordsDepth) /\ c.words.limit = WordsDepth
          /\ c.words.length = l.words.length
          /\ Rewrites(WordsOf(c), WordsOf(l), l.words.length, len, v)
      BY <3>1, <3>2, ListPut
    <3> QED BY <3>3, <1>1, <1>2
  <2>2. CASE ~ v
    <3>1. c = l /\ ~ BitAt(f, len)
      <4>1. ~ BitAt(f, len)
        BY <1>1, <1>2 DEF Masked
      <4> QED BY <2>2, <4>1, <1>3
    <3>2. f \in [0 .. n - 1 -> Words]
      BY <1>2 DEF Masked
    <3>3. Rewrites(f, f, n, len, v)
      BY <2>2, <3>1, <3>2 DEF Rewrites
    <3> QED BY <3>1, <3>3, <1>1, <1>2 DEF ListGood
  <2> QED BY <2>1, <2>2
<1>6. PICK g : g = WordsOf(c)
  OBVIOUS
<1>7. Masked(g, n, len + 1) /\ BitsOf(g, len + 1) = Append(BitsOf(f, len), v)
  <2>1. /\ g \in [0 .. n - 1 -> Words] /\ (BitAt(g, len) <=> v)
        /\ \A j \in Nat : j < n * WordBits /\ j # len => (BitAt(g, j) <=> BitAt(f, j))
    BY <1>5, <1>6 DEF Rewrites
  <2>2. \A j \in Nat : j < n * WordBits /\ ~ (j < n * WordBits) /\ j # len => ~ BitAt(g, j)
    OBVIOUS
  <2>3. n <= n /\ len < n * WordBits
    BY <1>1
  <2> QED BY <2>1, <2>2, <2>3, <1>2, MaskedPushed
<1>8. /\ DOMAIN b = {"limit", "len", "words"} /\ b.limit = l.limit
      /\ b.len = len + 1 /\ b.words = c.words
  BY <1>4, <1>5, LongerIs
<1>9. WordsOf(b) = g
  BY <1>6, <1>8 DEF WordsOf
<1>10. ListGood(b)
  BY <1>5, <1>7, <1>8, <1>9 DEF ListGood
<1> QED BY <1>1, <1>2, <1>7, <1>8, <1>9, <1>10 DEF ListBits

(* A bit more in a new word.                                               *)
LEMMA ListPushedBeyond ==
  ASSUME NEW l, ListGood(l), ~ L!Inside(l), L!MayAppend(l), NEW v \in BOOLEAN,
         NEW b, b = L!BitPushed(l, v)
  PROVE  /\ ListGood(b) /\ b.limit = l.limit /\ b.len = l.len + 1
         /\ ListBits(b) = Append(ListBits(l), v)
<1>1. PICK n \in Nat, len \in Nat : n = l.words.length /\ len = l.len /\ len = n * WordBits
  BY ListRoom, WordsOfBlock DEF ListGood
<1>2. PICK f, a : f = WordsOf(l) /\ a = l.words
  OBVIOUS
<1>3. /\ Masked(f, n, len) /\ Block(a, Words, WordsDepth) /\ a.limit = WordsDepth /\ a.length = n
      /\ DOMAIN l = {"limit", "len", "words"}
  BY <1>1, <1>2 DEF ListGood
<1>4. PICK w : w = WordWith({}, 0, v)
  OBVIOUS
<1>5. w \in Words /\ (0 \in w <=> v) /\ \A k \in Nat : k # 0 => k \notin w
  BY <1>4, ListConstants DEF WordWith, Words
<1>6. PICK e, c : e = Pushed(a, w) /\ c = [l EXCEPT !.words = e]
  OBVIOUS
<1>7. b = L!Longer(c)
  BY <1>2, <1>4, <1>6, ListOps DEF L!BitPushed, L!WordPut, WordWith
<1>8. DOMAIN c = {"limit", "len", "words"} /\ c.limit = l.limit /\ c.len = len /\ c.words = e
  BY <1>1, <1>3, <1>6
<1>9. /\ DOMAIN b = {"limit", "len", "words"} /\ b.limit = l.limit
      /\ b.len = len + 1 /\ b.words = e
  BY <1>7, <1>8, LongerIs
<1>10. /\ Block(e, Words, WordsDepth)
       /\ e.limit = a.limit /\ e.length = a.length + 1
       /\ e.cap = IF a.length < a.cap THEN a.cap ELSE 2 * a.cap
       /\ a.length \in Slots(e.depth) /\ e.slots[a.length] = w
       /\ \A s \in Slots(a.depth) : s < a.length =>
            s \in Slots(e.depth) /\ e.slots[s] = a.slots[s]
  <2>1. HasRoom(a) \/ MayGrow(a)
    BY <1>2, ListOps DEF L!MayAppend
  <2>2. NoValue \notin Words
    BY ListConstants
  <2> QED BY <2>1, <2>2, <1>3, <1>5, <1>6, BlockPushed
<1>11. PICK m \in Nat : m = n + 1 /\ m - 1 = n /\ m * WordBits = len + WordBits
                        /\ n * WordBits = len
  <2>1. (n + 1) * WordBits = n * WordBits + WordBits
    BY ListConstants
  <2> QED BY <2>1, <1>1
<1>12. PICK g : g = WordsOf(b)
  OBVIOUS
<1>13. /\ g \in [0 .. m - 1 -> Words]
       /\ \A p \in Nat : p < m => g[p] = e.slots[p]
  <2>1. Block(b.words, Words, WordsDepth) /\ b.words = e /\ e.length = m
    BY <1>3, <1>9, <1>10, <1>11
  <2> QED BY <2>1, <1>12, WordsOfBlock
<1>14. \A p \in Nat : p < n => g[p] = f[p]
  <2>1. \A p \in Nat : p < n => p \in Slots(a.depth) /\ f[p] = a.slots[p]
    BY <1>2, <1>3, WordsOfBlock
  <2> QED BY <2>1, <1>3, <1>10, <1>11, <1>13
<1>15. g[n] = w
  BY <1>3, <1>10, <1>11, <1>13
<1>16. BitAt(g, len) <=> v
  <2>1. 0 \in 0 .. WordBits - 1 /\ len = n * WordBits + 0
    BY <1>1, ListConstants
  <2>2. len \in Nat /\ len \div WordBits = n /\ len % WordBits = 0
    BY <2>1, PlaceIs, ListConstants
  <2> QED BY <2>2, <1>5, <1>15 DEF BitAt
<1>17. ASSUME NEW j \in Nat, j < n * WordBits, j # len PROVE BitAt(g, j) <=> BitAt(f, j)
  <2>1. j \div WordBits \in 0 .. n - 1
    BY <1>17, PlaceFits, ListConstants
  <2>2. g[j \div WordBits] = f[j \div WordBits]
    BY <2>1, <1>14
  <2> QED BY <2>2 DEF BitAt
<1>18. ASSUME NEW j \in Nat, j < m * WordBits, ~ (j < n * WordBits), j # len PROVE ~ BitAt(g, j)
  <2>1. PICK k \in Nat : j = len + k /\ k # 0 /\ k \in 0 .. WordBits - 1
    <3>1. j - len \in Nat /\ j = len + (j - len) /\ j - len # 0 /\ j - len \in 0 .. WordBits - 1
      BY <1>11, <1>18, ListConstants
    <3> QED BY <3>1
  <2>2. j = n * WordBits + k
    BY <2>1, <1>1
  <2>3. j \in Nat /\ j \div WordBits = n /\ j % WordBits = k
    BY <2>1, <2>2, PlaceIs, ListConstants
  <2> QED BY <2>1, <2>3, <1>5, <1>15 DEF BitAt
<1>19. Masked(g, m, len + 1) /\ BitsOf(g, len + 1) = Append(BitsOf(f, len), v)
  <2>1. n <= m /\ len < m * WordBits
    BY <1>11, ListConstants
  <2>2. g \in [0 .. m - 1 -> Words]
    BY <1>13
  <2>3. \A j \in Nat : j < n * WordBits /\ j # len => (BitAt(g, j) <=> BitAt(f, j))
    BY <1>17
  <2>4. \A j \in Nat : j < m * WordBits /\ ~ (j < n * WordBits) /\ j # len => ~ BitAt(g, j)
    BY <1>18
  <2>5. Masked(f, n, len)
    BY <1>3
  <2> QED BY <2>1, <2>2, <2>3, <2>4, <2>5, <1>16, MaskedPushed
<1>20. ListGood(b)
  BY <1>3, <1>9, <1>10, <1>11, <1>12, <1>19 DEF ListGood
<1> QED BY <1>1, <1>2, <1>9, <1>12, <1>19, <1>20 DEF ListBits

LEMMA ListReads ==
  ASSUME NEW l, ListGood(l), NEW i \in Nat, i < l.len
  PROVE  /\ i < l.words.length * WordBits
         /\ i \div WordBits \in 0 .. l.words.length - 1
         /\ L!HasWord(l, L!WordIx(i))
         /\ L!WordGet(L!WordAt(l, L!WordIx(i)), L!BitIx(i)) = BitAt(WordsOf(l), i)
<1>1. PICK n \in Nat : n = l.words.length
  BY WordsOfBlock DEF ListGood
<1>2. i < n * WordBits
  <2>1. n * WordBits \in Nat /\ l.len \in Nat /\ l.len <= n * WordBits
    BY <1>1, PlaceFits, ListConstants DEF ListGood, Masked
  <2> QED BY <2>1
<1>3. PICK p \in Nat : p = i \div WordBits /\ p \in 0 .. n - 1 /\ p < n
  <2>1. i \div WordBits \in 0 .. n - 1
    BY <1>2, PlaceFits, ListConstants
  <2>2. i \div WordBits \in Nat
    BY <2>1
  <2>3. \A x \in Nat : x \in 0 .. n - 1 => x < n
    OBVIOUS
  <2> QED BY <2>1, <2>2, <2>3
<1>4. /\ WordsOf(l)[p] = l.words.slots[p] /\ l.words.slots[p] # NoValue
  BY <1>1, <1>3, WordsOfBlock DEF ListGood
<1>5. L!HasWord(l, L!WordIx(i))
  BY <1>1, <1>3, <1>4 DEF L!HasWord, L!WordIx
<1>6. L!WordGet(L!WordAt(l, L!WordIx(i)), L!BitIx(i)) = BitAt(WordsOf(l), i)
  BY <1>3, <1>4 DEF L!WordGet, L!WordAt, L!WordIx, L!BitIx, BitAt
<1> QED BY <1>1, <1>2, <1>3, <1>5, <1>6

LEMMA ListBitsOf ==
  ASSUME NEW l, ListGood(l)
  PROVE  /\ l.len \in Nat
         /\ ListBits(l) \in Seq(BOOLEAN) /\ Len(ListBits(l)) = l.len
         /\ \A i \in Nat : i < l.len => ListBits(l)[i + 1] = BitAt(WordsOf(l), i)
<1>1. PICK len \in Nat : len = l.len
  BY DEF ListGood, Masked
<1>2. /\ BitsOf(WordsOf(l), len) \in Seq(BOOLEAN) /\ Len(BitsOf(WordsOf(l), len)) = len
      /\ \A j \in Nat : j < len => BitsOf(WordsOf(l), len)[j + 1] = BitAt(WordsOf(l), j)
  BY BitsOfBits
<1> QED BY <1>1, <1>2 DEF ListBits

\* The bits that the refinement reads off the words.
LEMMA ListBitsAre ==
  ASSUME NEW l, ListGood(l)
  PROVE  [i \in 1 .. l.len |->
            L!WordGet(L!WordAt(l, L!WordIx(i - 1)), L!BitIx(i - 1))] = ListBits(l)
<1>1. PICK len \in Nat : len = l.len
  BY ListBitsOf
<1>2. \A i \in 1 .. len : i - 1 \in Nat /\ i - 1 < l.len
  BY <1>1
<1>3. \A i \in 1 .. len :
        L!WordGet(L!WordAt(l, L!WordIx(i - 1)), L!BitIx(i - 1)) = BitAt(WordsOf(l), i - 1)
  BY <1>2, ListReads
<1>4. ListBits(l) = [i \in 1 .. len |-> BitAt(WordsOf(l), i - 1)]
  BY <1>1 DEF ListBits, BitsOf
<1> QED BY <1>1, <1>3, <1>4

LEMMA ListAssigned ==
  ASSUME NEW l, ListGood(l), NEW i \in Nat, i < l.len, NEW v \in BOOLEAN,
         NEW b, b = L!Put(l, i, v)
  PROVE  /\ ListGood(b) /\ b.limit = l.limit
         /\ ListBits(b) = [ListBits(l) EXCEPT ![i + 1] = v]
<1>1. PICK n, len, f, g :
        n = l.words.length /\ len = l.len /\ f = WordsOf(l) /\ g = WordsOf(b)
  OBVIOUS
<1>2. /\ DOMAIN b = {"limit", "len", "words"}
      /\ b.limit = l.limit /\ b.len = l.len
      /\ Block(b.words, Words, WordsDepth) /\ b.words.limit = WordsDepth
      /\ b.words.length = l.words.length
      /\ Rewrites(WordsOf(b), WordsOf(l), l.words.length, i, v)
  <2>1. i \div WordBits \in 0 .. l.words.length - 1
    BY ListReads
  <2> QED BY <2>1, ListPut
<1>3. Masked(f, n, len) /\ i < len
  BY <1>1 DEF ListGood
<1>4. Rewrites(g, f, n, i, v)
  BY <1>1, <1>2
<1>5. Masked(g, n, len) /\ BitsOf(g, len) = [BitsOf(f, len) EXCEPT ![i + 1] = v]
  BY <1>3, <1>4, MaskedAssigned
<1>6. ListGood(b)
  BY <1>1, <1>2, <1>5 DEF ListGood
<1> QED BY <1>1, <1>2, <1>5, <1>6 DEF ListBits

LEMMA ListPopped ==
  ASSUME NEW l, ListGood(l), l.len # 0, NEW b, b = L!BitPopped(l)
  PROVE  /\ ListGood(b) /\ b.limit = l.limit
         /\ L!HasWord(l, L!WordIx(l.len - 1))
         /\ ListBits(l) # <<>> /\ ListBits(l)[Len(ListBits(l))] = L!LastBit(l)
         /\ ListBits(b) = SubSeq(ListBits(l), 1, Len(ListBits(l)) - 1)
<1>1. PICK m \in Nat : m = l.len - 1 /\ l.len = m + 1 /\ m < l.len
  BY ListBitsOf
<1>2. PICK n, len, f : n = l.words.length /\ len = l.len /\ f = WordsOf(l)
  OBVIOUS
<1>3. Masked(f, n, len) /\ len = m + 1 /\ DOMAIN l = {"limit", "len", "words"}
      /\ Block(l.words, Words, WordsDepth) /\ l.words.limit = WordsDepth
  BY <1>1, <1>2 DEF ListGood
<1>4. L!HasWord(l, L!WordIx(m)) /\ L!LastBit(l) = BitAt(f, m)
      /\ m < n * WordBits /\ m \div WordBits \in 0 .. l.words.length - 1
  BY <1>1, <1>2, ListReads DEF L!LastBit
<1>5. PICK v : v = FALSE /\ v \in BOOLEAN /\ ~ v
  OBVIOUS
<1>6. PICK c : c = IF L!LastBit(l) THEN L!Put(l, m, v) ELSE l
  OBVIOUS
<1>7. b = [c EXCEPT !.len = m]
  BY <1>1, <1>5, <1>6 DEF L!BitPopped
<1>8. /\ DOMAIN c = {"limit", "len", "words"}
      /\ c.limit = l.limit
      /\ Block(c.words, Words, WordsDepth) /\ c.words.limit = WordsDepth
      /\ c.words.length = n
      /\ Rewrites(WordsOf(c), f, n, m, v)
  <2>1. CASE L!LastBit(l)
    <3>1. c = L!Put(l, m, v) /\ v \in BOOLEAN
      BY <2>1, <1>5, <1>6
    <3>2. m \div WordBits \in 0 .. l.words.length - 1
      BY <1>4
    <3>3. /\ DOMAIN c = {"limit", "len", "words"}
          /\ c.limit = l.limit /\ c.len = l.len
          /\ Block(c.words, Words, WordsDepth) /\ c.words.limit = WordsDepth
          /\ c.words.length = l.words.length
          /\ Rewrites(WordsOf(c), WordsOf(l), l.words.length, m, v)
      BY <3>1, <3>2, ListPut
    <3> QED BY <3>3, <1>2, <1>5
  <2>2. CASE ~ L!LastBit(l)
    <3>1. c = l /\ ~ BitAt(f, m)
      BY <2>2, <1>4, <1>6
    <3>2. f \in [0 .. n - 1 -> Words]
      BY <1>3 DEF Masked
    <3>3. Rewrites(f, f, n, m, v)
      BY <3>1, <3>2, <1>5 DEF Rewrites
    <3> QED BY <3>1, <3>3, <1>2, <1>3
  <2> QED BY <2>1, <2>2
<1>9. /\ DOMAIN b = {"limit", "len", "words"} /\ b.limit = l.limit
      /\ b.len = m /\ b.words = c.words
  BY <1>7, <1>8
<1>10. PICK g : g = WordsOf(b)
  OBVIOUS
<1>11. Rewrites(g, f, n, m, v)
  <2>1. WordsOf(b) = WordsOf(c)
    BY <1>9 DEF WordsOf
  <2> QED BY <2>1, <1>8, <1>10
<1>12. /\ Masked(g, n, m)
       /\ BitsOf(f, len) # <<>> /\ BitsOf(f, len)[Len(BitsOf(f, len))] = BitAt(f, m)
       /\ BitsOf(g, m) = SubSeq(BitsOf(f, len), 1, Len(BitsOf(f, len)) - 1)
  <2>1. Masked(f, n, len)
    BY <1>3
  <2>2. len = m + 1
    BY <1>3
  <2>3. Rewrites(g, f, n, m, v)
    BY <1>11
  <2>4. n \in Nat
    BY <1>2, WordsOfBlock DEF ListGood
  <2> QED BY ONLY <2>1, <2>2, <2>3, <2>4, <1>5, MaskedPopped, m \in Nat, ListConstants
<1>13. ListGood(b)
  BY <1>8, <1>9, <1>10, <1>12 DEF ListGood
<1> QED BY <1>1, <1>2, <1>4, <1>9, <1>10, <1>12, <1>13 DEF ListBits

LEMMA ListCleared ==
  ASSUME NEW l, ListGood(l), NEW b, b = [l EXCEPT !.len = 0, !.words = L!ClearedWhole(@)]
  PROVE  ListGood(b) /\ b.limit = l.limit /\ ListBits(b) = <<>>
<1>1. PICK a, c : a = l.words /\ c = ClearedWhole(a)
  OBVIOUS
<1>2. Block(a, Words, WordsDepth) /\ a.limit = WordsDepth /\ DOMAIN l = {"limit", "len", "words"}
  BY <1>1 DEF ListGood
<1>3. /\ Block(c, Words, WordsDepth)
      /\ c.limit = a.limit /\ c.depth = a.depth /\ c.cap = a.cap /\ c.length = 0
  <2>1. PICK e : e = ClearedDown(a)
    OBVIOUS
  <2>2. /\ Block(e, Words, WordsDepth) /\ e = ClearedWhole(a)
        /\ e.limit = a.limit /\ e.depth = a.depth /\ e.cap = a.cap /\ e.length = 0
    BY <1>2, <2>1, BlockCleared
  <2> QED BY <1>1, <2>2
<1>4. DOMAIN b = {"limit", "len", "words"} /\ b.limit = l.limit /\ b.len = 0 /\ b.words = c
  BY <1>1, <1>2, ListOps
<1>5. PICK f : f = WordsOf(b)
  OBVIOUS
<1>6. f \in [0 .. 0 - 1 -> Words]
  <2>1. Block(b.words, Words, WordsDepth)
    BY <1>3, <1>4
  <2>2. WordsOf(b) \in [0 .. b.words.length - 1 -> Words]
    BY <2>1, WordsOfBlock
  <2> QED BY <2>2, <1>3, <1>4, <1>5
<1>7. Masked(f, 0, 0) /\ BitsOf(f, 0) = <<>>
  BY <1>6, NoBits
<1>8. ListGood(b)
  BY <1>2, <1>3, <1>4, <1>5, <1>7 DEF ListGood
<1> QED BY <1>4, <1>5, <1>7, <1>8 DEF ListBits

LEMMA ListPushed ==
  ASSUME NEW l, ListGood(l), L!CanPush(l), NEW v \in BOOLEAN, NEW b, b = L!BitPushed(l, v)
  PROVE  /\ ListGood(b) /\ b.limit = l.limit /\ b.len = l.len + 1
         /\ ListBits(b) = Append(ListBits(l), v)
<1>1. CASE L!Inside(l)
  BY <1>1, ListPushedInside
<1>2. CASE ~ L!Inside(l)
  <2>1. L!MayAppend(l)
    BY <1>2 DEF L!CanPush
  <2> QED BY <1>2, <2>1, ListPushedBeyond
<1> QED BY <1>1, <1>2

(* Lists made of bits.                                                     *)

Taken(bs, k) == [i \in 1 .. k |-> bs[i]]

LEMMA TakenMore ==
  ASSUME NEW n \in Nat, NEW bs \in [1 .. n -> BOOLEAN], NEW k \in 0 .. n - 1
  PROVE  Append(Taken(bs, k), bs[k + 1]) = Taken(bs, k + 1)
<1>1. PICK s, t : s = Taken(bs, k) /\ t = Taken(bs, k + 1)
  OBVIOUS
<1>2. \A i \in 1 .. k : bs[i] \in BOOLEAN
  OBVIOUS
<1>3. s \in Seq(BOOLEAN) /\ Len(s) = k /\ \A i \in 1 .. k : s[i] = bs[i]
  BY <1>1, <1>2 DEF Taken
<1>4. \A i \in 1 .. k + 1 : bs[i] \in BOOLEAN
  OBVIOUS
<1>5. t \in Seq(BOOLEAN) /\ Len(t) = k + 1 /\ \A i \in 1 .. k + 1 : t[i] = bs[i]
  BY <1>1, <1>4 DEF Taken
<1>6. PICK v \in BOOLEAN : v = bs[k + 1]
  BY <1>4
<1>7. PICK a : a = Append(s, v)
  OBVIOUS
<1>8. /\ a \in Seq(BOOLEAN) /\ Len(a) = k + 1 /\ a[k + 1] = v
      /\ \A i \in 1 .. k : a[i] = s[i]
  BY <1>3, <1>7
<1>9. ASSUME NEW i \in 1 .. k + 1 PROVE a[i] = t[i]
  <2>1. CASE i = k + 1
    BY <2>1, <1>5, <1>6, <1>8
  <2>2. CASE i # k + 1
    <3>1. i \in 1 .. k
      BY <2>2
    <3> QED BY <3>1, <1>3, <1>5, <1>8
  <2> QED BY <2>1, <2>2
<1>10. a = t
  BY <1>5, <1>8, <1>9, SameElements
<1> QED BY <1>1, <1>6, <1>7, <1>10

(* The words of a list take one word more than it begins with.             *)
LEMMA ListHasRoom == WordBits + 1 <= WordBits * 2 ^ WordsDepth
<1>1. PICK m \in Nat : WordsDepth = m + 1
  <2>1. WordsDepth \in Nat \ {0}
    BY SequencesAssumption
  <2>2. WordsDepth - 1 \in Nat /\ WordsDepth = (WordsDepth - 1) + 1
    BY <2>1
  <2> QED BY <2>2
<1>2. PICK t \in Nat : t = 2 ^ WordsDepth /\ 1 < t
  <2>1. PICK c \in Nat \ {0} : c = 2 ^ m /\ 2 ^ WordsDepth = 2 * c
    BY <1>1, PowerOfTwo
  <2> QED BY <2>1
<1>3. 1 * WordBits + WordBits <= t * WordBits
  BY <1>2, Products, WordBitsPositive
<1>4. PICK e \in Nat : e = t * WordBits /\ e = WordBits * t
  BY WordBitsPositive
<1>5. 1 * WordBits = WordBits
  BY WordBitsPositive
<1> QED BY <1>2, <1>3, <1>4, <1>5, WordBitsPositive

LEMMA ListMade ==
  ASSUME NEW n \in 0 .. WordBits + 1, NEW bs \in [1 .. n -> BOOLEAN],
         NEW b, b = L!Made(bs)
  PROVE  ListGood(b) /\ b.limit = <<"None">> /\ ListBits(b) = bs
<1>0. n \in Nat /\ Len(bs) = n
  BY WordBitsPositive
<1> DEFINE Next(l, v) == IF L!CanPush(l) THEN L!BitPushed(l, v) ELSE l
           Eq(k, f) == f = [i \in 0 .. k |->
                              IF i = 0 THEN L!NewList(L!None) ELSE Next(f[i - 1], bs[i])]
           E == {k \in 0 .. n : \E f : Eq(k, f)}
<1>1. 0 \in E
  <2> DEFINE f == [i \in 0 .. 0 |-> L!NewList(L!None)]
  <2>1. Eq(0, f) /\ 0 \in 0 .. n
    BY <1>0
  <2> HIDE DEF f, Eq
  <2> QED BY <2>1
<1>2. ASSUME NEW k \in 0 .. n - 1, k \in E PROVE k + 1 \in E
  <2>1. PICK f : Eq(k, f)
    BY <1>2
  <2>2. PICK x : x = Next(f[k], bs[k + 1])
    OBVIOUS
  <2> DEFINE g == [i \in 0 .. k + 1 |-> IF i = k + 1 THEN x ELSE f[i]]
  <2>3. ASSUME NEW i \in 0 .. k + 1
        PROVE  g[i] = IF i = 0 THEN L!NewList(L!None) ELSE Next(g[i - 1], bs[i])
    <3> HIDE DEF Next
    <3>1. CASE i = k + 1
      <4>1. g[i] = x /\ i # 0 /\ i - 1 = k
        BY <3>1
      <4>2. g[i - 1] = f[k]
        BY <4>1
      <4> QED BY <4>1, <4>2, <3>1, <2>2
    <3>2. CASE i # k + 1
      <4>1. i \in 0 .. k /\ g[i] = f[i]
        BY <3>2
      <4>2. f[i] = IF i = 0 THEN L!NewList(L!None) ELSE Next(f[i - 1], bs[i])
        BY <2>1, <4>1
      <4>3. i # 0 => i - 1 \in 0 .. k + 1 /\ i - 1 # k + 1
        BY <4>1
      <4>4. i # 0 => g[i - 1] = f[i - 1]
        BY <4>3
      <4> HIDE DEF g
      <4> QED BY <4>1, <4>2, <4>4
    <3> QED BY <3>1, <3>2
  <2>4. Eq(k + 1, g)
    <3> HIDE DEF Next
    <3> QED BY <2>3
  <2>5. k + 1 \in 0 .. n
    BY <1>0
  <2> HIDE DEF g, Eq
  <2> QED BY <2>4, <2>5
<1>3. \E f : Eq(n, f)
  <2> HIDE DEF Eq
  <2>1. n \in 0 .. n
    BY <1>0
  <2> HIDE DEF E
  <2>2. \A k \in 0 .. n : k \in E
    BY <1>0, <1>1, <1>2, BoundedInduction
  <2> QED BY <2>1, <2>2 DEF E
<1>4. PICK f : f = CHOOSE h : Eq(n, h)
  OBVIOUS
<1>5. Eq(n, f)
  <2> HIDE DEF Eq
  <2> QED BY <1>3, <1>4
<1>6. b = f[n]
  BY <1>0, <1>4 DEF L!Made
<1> HIDE DEF E
<1> DEFINE G == {k \in 0 .. n : /\ ListGood(f[k]) /\ f[k].limit = <<"None">> /\ f[k].len = k
                                /\ ListBits(f[k]) = Taken(bs, k)}
<1>7. 0 \in G
  <2>1. PICK x, l : x = <<"None">> /\ l = L!NewList(x)
    OBVIOUS
  <2>2. f[0] = l
    BY <1>0, <1>5, <2>1 DEF L!None
  <2>3. ListGood(l) /\ l.limit = x /\ l.len = 0 /\ ListBits(l) = <<>>
    BY <2>1, NewListGood
  <2>4. Taken(bs, 0) = <<>> /\ 0 \in 0 .. n
    BY <1>0 DEF Taken
  <2> QED BY <2>1, <2>2, <2>3, <2>4
<1>8. ASSUME NEW k \in 0 .. n - 1, k \in G PROVE k + 1 \in G
  <2>1. PICK l : l = f[k] /\ ListGood(l) /\ l.limit = <<"None">> /\ l.len = k
                 /\ ListBits(l) = Taken(bs, k)
    BY <1>8
  <2>2. PICK v \in BOOLEAN : v = bs[k + 1]
    BY <1>0
  <2>3. k + 1 \in 0 .. n /\ k + 1 # 0 /\ (k + 1) - 1 = k
    BY <1>0
  <2>4. f[k + 1] = Next(l, v)
    <3> HIDE DEF Next
    <3> QED BY <1>5, <2>1, <2>2, <2>3
  <2>5. L!CanPush(l)
    <3>1. PICK room \in Nat : room = WordBits * 2 ^ WordsDepth
          /\ (L!Inside(l) \/ L!MayAppend(l) <=> l.len < room)
      BY <2>1, ListRoom
    <3>2. k < WordBits + 1 /\ WordBits \in Nat
      BY <1>0, WordBitsPositive
    <3>3. l.len < room
      BY <3>1, <3>2, <2>1, ListHasRoom
    <3> QED BY <3>1, <3>3, <2>1 DEF L!CanPush, L!Below, L!None
  <2>6. PICK c : c = L!BitPushed(l, v) /\ f[k + 1] = c
    BY <2>4, <2>5
  <2>7. /\ ListGood(c) /\ c.limit = l.limit /\ c.len = l.len + 1
        /\ ListBits(c) = Append(ListBits(l), v)
    BY <2>1, <2>5, <2>6, ListPushed
  <2>8. ListBits(c) = Taken(bs, k + 1)
    BY <1>0, <2>1, <2>2, <2>7, TakenMore
  <2> QED BY <2>1, <2>3, <2>6, <2>7, <2>8
<1>9. n \in G
  <2> HIDE DEF Eq, G
  <2>1. n \in 0 .. n
    BY <1>0
  <2>2. \A k \in 0 .. n : k \in G
    BY <1>0, <1>7, <1>8, BoundedInduction
  <2> QED BY <2>1, <2>2
<1>10. Taken(bs, n) = bs
  BY <1>0 DEF Taken
<1> HIDE DEF Eq
<1> QED BY <1>6, <1>9, <1>10

-----------------------------------------------------------------------------
(* What counting and listing a list answer.                                *)

CountOfWords(n, h) ==
  LET upto[x \in 0 .. n] == IF x = 0 THEN 0 ELSE upto[x - 1] + Cardinality(h[x - 1])
  IN upto[n]

OnesOf(s) == { i \in DOMAIN s : s[i] }

LEMMA WordsAreCounted ==
  ASSUME NEW n, NEW len, NEW f, Masked(f, n, len),
         NEW h, \A p \in 0 .. n - 1 : h[p] = f[p]
  PROVE  CountOfWords(n, h) = Cardinality(OnesOf(BitsOf(f, len)))
<1>1. n \in Nat /\ f \in [0 .. n - 1 -> Words]
  BY DEF Masked
<1>2. PICK a : a = [p \in 0 .. n - 1 |-> Cardinality(h[p])]
  OBVIOUS
<1>3. a \in [0 .. n - 1 -> Nat]
  <2>1. \A p \in 0 .. n - 1 : Cardinality(h[p]) \in Nat
    BY <1>1, OnesOfWord
  <2> QED BY <2>1, <1>2
<1>4. \E c : SumsUpTo(n, a, c)
  BY <1>1, <1>3, SumsExist
<1> DEFINE Eq(c) == c = [x \in 0 .. n |-> IF x = 0 THEN 0 ELSE c[x - 1] + Cardinality(h[x - 1])]
<1>5. ASSUME NEW c, SumsUpTo(n, a, c) PROVE Eq(c)
  <2>1. \A x \in 0 .. n : x # 0 => x - 1 \in 0 .. n - 1
    BY <1>1
  <2>2. \A x \in 0 .. n : x # 0 => a[x - 1] = Cardinality(h[x - 1])
    BY <2>1, <1>2
  <2>3. c = [x \in 0 .. n |-> IF x = 0 THEN 0 ELSE c[x - 1] + a[x - 1]]
    BY <1>5 DEF SumsUpTo
  <2> QED BY <2>2, <2>3
<1>6. PICK c : c = CHOOSE e : Eq(e)
  OBVIOUS
<1>7. Eq(c)
  <2> HIDE DEF Eq
  <2> QED BY <1>4, <1>5, <1>6
<1>8. CountOfWords(n, h) = c[n]
  BY <1>6 DEF CountOfWords
<1>9. c[0] = 0 /\ \A p \in 0 .. n - 1 : c[p + 1] = c[p] + Cardinality(f[p])
  <2>1. 0 \in 0 .. n /\ \A p \in 0 .. n - 1 : p + 1 \in 0 .. n /\ p + 1 # 0 /\ (p + 1) - 1 = p
    BY <1>1
  <2>2. c[0] = 0
    BY <2>1, <1>7
  <2>3. ASSUME NEW p \in 0 .. n - 1 PROVE c[p + 1] = c[p] + Cardinality(f[p])
    <3>1. PICK x \in 0 .. n : x = p + 1 /\ x # 0 /\ x - 1 = p
      BY <2>1
    <3>2. c[x] = c[x - 1] + Cardinality(h[x - 1])
      BY <3>1, <1>7
    <3>3. h[p] = f[p]
      OBVIOUS
    <3> QED BY <3>1, <3>2, <3>3
  <2> QED BY <2>2, <2>3
<1> HIDE DEF Eq
<1>10. c[n] = Cardinality({ i \in DOMAIN BitsOf(f, len) : BitsOf(f, len)[i] })
  BY <1>9, OnesAreCounted
<1> QED BY <1>8, <1>10 DEF OnesOf

LEMMA ListCounted ==
  ASSUME NEW l, ListGood(l)
  PROVE  L!Count(l) = L!Cardinality(OnesOf(ListBits(l)))
<1>1. PICK n, len, f, h :
        n = l.words.length /\ len = l.len /\ f = WordsOf(l) /\ h = l.words.slots
  OBVIOUS
<1>2. Masked(f, n, len)
  BY <1>1 DEF ListGood
<1>3. \A p \in 0 .. n - 1 : h[p] = f[p]
  BY <1>1 DEF WordsOf
<1>4. CountOfWords(n, h) = Cardinality(OnesOf(BitsOf(f, len)))
  BY <1>2, <1>3, WordsAreCounted
<1>5. \A w : L!Cardinality(w) = Cardinality(w)
  BY DEF L!Cardinality, Cardinality
<1>6. L!Count(l) = CountOfWords(n, h)
  BY <1>1, <1>5 DEF L!Count, L!WordAt, CountOfWords
<1> QED BY <1>1, <1>4, <1>5, <1>6 DEF ListBits

LEMMA ListListed ==
  ASSUME NEW l, ListGood(l)
  PROVE  L!ToList(l) = ListBits(l)
<1>1. PICK n, len, f : n = l.words.length /\ len = l.len /\ f = WordsOf(l)
  OBVIOUS
<1>2. n \in Nat /\ len \in Nat /\ len <= n * WordBits
  BY <1>1 DEF ListGood, Masked
<1>3. PICK ss : ss = [p \in 1 .. n |-> ListedWord(f, len, p - 1)]
  OBVIOUS
<1>4. S!FlattenSeq(ss) = BitsOf(f, len)
  BY <1>2, <1>3, BitsAreListed
<1>5. \A x \in 1 .. n : l.words.slots[x - 1] = f[x - 1]
  <2>1. \A x \in 1 .. n : x - 1 \in 0 .. n - 1
    BY <1>2
  <2> QED BY <2>1, <1>1 DEF WordsOf
<1>6. \A x \in 1 .. n : L!ListedOf(l, x - 1) = ListedWord(f, len, x - 1)
  BY <1>1, <1>5 DEF L!ListedOf, L!WordGet, L!WordAt, ListedWord, ListedIn
<1>7. L!ToList(l) = L!FlattenSeq(ss)
  BY <1>1, <1>3, <1>6 DEF L!ToList
<1>8. L!FlattenSeq(ss) = S!FlattenSeq(ss)
  BY DEF L!FlattenSeq, S!FlattenSeq
<1> QED BY <1>1, <1>4, <1>7, <1>8 DEF ListBits

-----------------------------------------------------------------------------
(* Every call on the list is a call on the sequence of its bits.           *)

ListIsMasked == ListGood(list)

\* What a call leaves behind, and what it is a call on.
ListStepIs ==
  /\ ListGood(list')
  /\ L!BitsPromised!BitNext

LEMMA ListMirrors ==
  /\ ListGood(list) => L!Bits = ListBits(list)
  /\ ListGood(list') => L!Bits' = ListBits(list')
<1>1. ListGood(list) => L!Bits = ListBits(list)
  BY ListBitsAre DEF L!Bits
<1>2. ListGood(list') => L!Bits' = ListBits(list')
  <2>1. PICK l : l = list'
    OBVIOUS
  <2>2. L!Bits' = [i \in 1 .. l.len |->
                     L!WordGet(L!WordAt(l, L!WordIx(i - 1)), L!BitIx(i - 1))]
    BY <2>1 DEF L!Bits
  <2> QED BY <2>1, <2>2, ListBitsAre
<1> QED BY <1>1, <1>2

(* What is only read or refused.                                           *)
LEMMA ListAnswers ==
  ASSUME ListIsMasked, list' = list, NEW call, NEW result,
         lobs' = call \o result
  PROVE  ListGood(list') /\ L!BitsPromised!Answer(call, result)
  BY ListMirrors DEF ListIsMasked, L!BitsPromised!Answer

LEMMA ListLooks ==
  ASSUME ListIsMasked, L!Look
  PROVE  ListStepIs
<1>1. PICK l, s : l = list /\ l = list' /\ s = ListBits(l)
  BY DEF L!Look
<1>2. ListGood(l) /\ L!Bits = s /\ L!Bits' = s /\ Len(s) = l.len
  BY <1>1, ListMirrors, ListBitsOf DEF ListIsMasked
<1>3. L!Count(l) = L!Cardinality(OnesOf(s)) /\ L!ToList(l) = s
  BY <1>1, <1>2, ListCounted, ListListed
<1>4. \/ lobs' = <<"Length", Len(s)>>
      \/ lobs' = <<"Limit", l.limit>>
      \/ lobs' = <<"Count", L!Cardinality(OnesOf(s))>>
      \/ lobs' = <<"ToList", s>>
  BY <1>1, <1>2, <1>3 DEF L!Look
<1>5. L!BitsPromised!Cardinality(L!BitsPromised!Ones) = L!Cardinality(OnesOf(s))
  BY <1>2 DEF L!BitsPromised!Cardinality, L!Cardinality, L!BitsPromised!Ones, OnesOf
<1>6. /\ lobs' = <<"Length", Len(s)>> => lobs' = <<"Length">> \o <<Len(s)>>
      /\ lobs' = <<"Limit", l.limit>> => lobs' = <<"Limit">> \o <<l.limit>>
      /\ lobs' = <<"Count", L!Cardinality(OnesOf(s))>>
           => lobs' = <<"Count">> \o <<L!Cardinality(OnesOf(s))>>
      /\ lobs' = <<"ToList", s>> => lobs' = <<"ToList">> \o <<s>>
  OBVIOUS
<1>7. L!BitsPromised!Look
  BY <1>1, <1>2, <1>4, <1>5, <1>6 DEF L!BitsPromised!Look, L!BitsPromised!Answer
<1> QED BY <1>1, <1>2, <1>7 DEF ListStepIs, L!BitsPromised!BitNext

LEMMA ListGets ==
  ASSUME ListIsMasked, NEW i \in 0 .. list.len, L!Get(i)
  PROVE  ListStepIs
<1>1. PICK l, s : l = list /\ l = list' /\ s = ListBits(l)
  BY DEF L!Get
<1>2. ListGood(l) /\ L!Bits = s /\ L!Bits' = s /\ Len(s) = l.len /\ l.len \in Nat
  BY <1>1, ListMirrors, ListBitsOf DEF ListIsMasked
<1>3. i \in Nat /\ i \in 0 .. Len(L!Bits)
  BY <1>1, <1>2
<1>4. L!BitsPromised!Read(i)
  <2>1. CASE i < l.len
    <3>1. L!HasWord(l, L!WordIx(i))
          /\ L!WordGet(L!WordAt(l, L!WordIx(i)), L!BitIx(i)) = s[i + 1]
      BY <1>1, <1>2, <1>3, <2>1, ListReads, ListBitsOf
    <3>2. lobs' = <<"Get", i>> \o <<"Done", s[i + 1]>>
      BY <1>1, <2>1, <3>1 DEF L!Get
    <3> QED BY <1>1, <1>2, <2>1, <3>2 DEF L!BitsPromised!Read, L!BitsPromised!Answer
  <2>2. CASE ~ (i < l.len)
    <3>1. lobs' = <<"Get", i>> \o <<"IndexOutOfRange">>
      BY <1>1, <2>2 DEF L!Get
    <3>2. i >= Len(s)
      BY <1>2, <1>3, <2>2
    <3> QED BY <1>1, <1>2, <3>1, <3>2 DEF L!BitsPromised!Read, L!BitsPromised!Answer
  <2> QED BY <2>1, <2>2
<1> QED BY <1>1, <1>2, <1>3, <1>4 DEF ListStepIs, L!BitsPromised!BitNext

LEMMA ListAssigns ==
  ASSUME ListIsMasked, NEW i \in 0 .. list.len, NEW v \in BOOLEAN, L!Assign(i, v)
  PROVE  ListStepIs
<1>1. PICK l, b, s : l = list /\ b = list' /\ s = ListBits(l)
  OBVIOUS
<1>2. ListGood(l) /\ L!Bits = s /\ Len(s) = l.len /\ l.len \in Nat
  BY <1>1, ListMirrors, ListBitsOf DEF ListIsMasked
<1>3. i \in Nat /\ i \in 0 .. Len(L!Bits)
  BY <1>1, <1>2
<1>4. CASE i < l.len
  <2>1. L!HasWord(l, L!WordIx(i))
    BY <1>2, <1>3, <1>4, ListReads
  <2>2. b = L!Put(l, i, v) /\ lobs' = <<"Assign", i, v, "Done">>
    BY <1>1, <1>4, <2>1 DEF L!Assign
  <2>3. ListGood(b) /\ b.limit = l.limit /\ ListBits(b) = [s EXCEPT ![i + 1] = v]
    BY <1>1, <1>2, <1>3, <1>4, <2>2, ListAssigned
  <2>4. L!Bits' = [s EXCEPT ![i + 1] = v]
    BY <1>1, <2>3, ListMirrors
  <2>5. L!BitsPromised!Write(i, v)
    BY <1>1, <1>2, <1>4, <2>2, <2>3, <2>4 DEF L!BitsPromised!Write
  <2> QED BY <1>1, <1>3, <2>3, <2>5 DEF ListStepIs, L!BitsPromised!BitNext
<1>5. CASE ~ (i < l.len)
  <2>1. b = l /\ lobs' = <<"Assign", i, v>> \o <<"IndexOutOfRange">>
    BY <1>1, <1>5 DEF L!Assign
  <2>2. i >= Len(s)
    BY <1>2, <1>3, <1>5
  <2>3. L!Bits' = s
    BY <1>1, <1>2, <2>1, ListMirrors
  <2>4. L!BitsPromised!Write(i, v)
    BY <1>1, <1>2, <2>1, <2>2, <2>3 DEF L!BitsPromised!Write, L!BitsPromised!Answer
  <2> QED BY <1>1, <1>2, <1>3, <2>1, <2>4 DEF ListStepIs, L!BitsPromised!BitNext
<1> QED BY <1>4, <1>5

LEMMA ListPushes ==
  ASSUME ListIsMasked, NEW v \in BOOLEAN, L!Push(v)
  PROVE  ListStepIs
<1>1. PICK l, b, s : l = list /\ b = list' /\ s = ListBits(l)
  OBVIOUS
<1>2. ListGood(l) /\ L!Bits = s /\ Len(s) = l.len /\ l.len \in Nat
  BY <1>1, ListMirrors, ListBitsOf DEF ListIsMasked
<1>3. PICK room \in Nat : /\ room = WordBits * 2 ^ WordsDepth
                          /\ ((L!Inside(l) \/ L!MayAppend(l)) <=> l.len < room)
  BY <1>2, ListRoom
<1>4. L!CanPush(l) <=> Len(s) < L!BitsPromised!Most
  <2>1. l.limit = <<"None">> \/ (l.limit[2] \in Nat /\ l.limit = <<"Some", l.limit[2]>>)
    BY <1>2 DEF ListGood
  <2>2. CASE l.limit = <<"None">>
    BY <1>1, <1>2, <1>3, <2>2 DEF L!CanPush, L!Below, L!None, L!BitsPromised!Most
  <2>3. CASE l.limit # <<"None">>
    <3>1. PICK m \in Nat : m = l.limit[2]
      BY <2>1, <2>3
    <3>2. L!BitsPromised!Most = IF m < room THEN m ELSE room
      BY <1>1, <1>3, <2>3, <3>1 DEF L!BitsPromised!Most
    <3>3. L!CanPush(l) <=> l.len < m /\ l.len < room
      BY <1>1, <1>3, <2>3, <3>1 DEF L!CanPush, L!Below, L!None
    <3> QED BY <1>2, <3>1, <3>2, <3>3
  <2> QED BY <2>2, <2>3
<1>5. CASE L!CanPush(l)
  <2>1. b = L!BitPushed(l, v) /\ lobs' = <<"Push", v, "Done">>
    BY <1>1, <1>5 DEF L!Push
  <2>2. ListGood(b) /\ b.limit = l.limit /\ ListBits(b) = Append(s, v)
    BY <1>1, <1>2, <1>5, <2>1, ListPushed
  <2>3. L!Bits' = Append(s, v)
    BY <1>1, <2>2, ListMirrors
  <2>4. L!BitsPromised!Push(v)
    BY <1>1, <1>2, <1>4, <1>5, <2>1, <2>2, <2>3 DEF L!BitsPromised!Push
  <2> QED BY <1>1, <2>2, <2>4 DEF ListStepIs, L!BitsPromised!BitNext
<1>6. CASE ~ L!CanPush(l)
  <2>1. b = l /\ lobs' = <<"Push", v>> \o <<"Full">>
    BY <1>1, <1>6 DEF L!Push
  <2>2. Len(s) >= L!BitsPromised!Most
    <3>1. L!BitsPromised!Most \in Nat
      <4>1. l.limit = <<"None">> \/ (l.limit[2] \in Nat /\ l.limit = <<"Some", l.limit[2]>>)
        BY <1>2 DEF ListGood
      <4> QED BY <1>1, <1>3, <4>1 DEF L!BitsPromised!Most
    <3> QED BY <1>2, <1>4, <1>6, <3>1
  <2>3. L!Bits' = s
    BY <1>1, <1>2, <2>1, ListMirrors
  <2>4. L!BitsPromised!Push(v)
    BY <1>1, <1>2, <2>1, <2>2, <2>3 DEF L!BitsPromised!Push, L!BitsPromised!Answer
  <2> QED BY <1>1, <1>2, <2>1, <2>4 DEF ListStepIs, L!BitsPromised!BitNext
<1> QED BY <1>5, <1>6

LEMMA ListPops ==
  ASSUME ListIsMasked, L!Pop
  PROVE  ListStepIs
<1>1. PICK l, b, s : l = list /\ b = list' /\ s = ListBits(l)
  OBVIOUS
<1>2. ListGood(l) /\ L!Bits = s /\ s \in Seq(BOOLEAN) /\ Len(s) = l.len /\ l.len \in Nat
  BY <1>1, ListMirrors, ListBitsOf DEF ListIsMasked
<1>3. CASE l.len = 0
  <2>1. b = l /\ lobs' = <<"Pop">> \o <<"Empty">>
    BY <1>1, <1>3 DEF L!Pop
  <2>2. s = <<>>
    BY <1>2, <1>3
  <2>3. L!Bits' = s
    BY <1>1, <1>2, <2>1, ListMirrors
  <2>4. L!BitsPromised!Pop
    BY <1>1, <1>2, <2>1, <2>2, <2>3 DEF L!BitsPromised!Pop, L!BitsPromised!Answer
  <2> QED BY <1>1, <1>2, <2>1, <2>4 DEF ListStepIs, L!BitsPromised!BitNext
<1>4. CASE l.len # 0
  <2>1. PICK c : c = L!BitPopped(l)
    OBVIOUS
  <2>2. /\ ListGood(c) /\ c.limit = l.limit
        /\ L!HasWord(l, L!WordIx(l.len - 1))
        /\ s # <<>> /\ s[Len(s)] = L!LastBit(l)
        /\ ListBits(c) = SubSeq(s, 1, Len(s) - 1)
    BY <1>1, <1>2, <1>4, <2>1, ListPopped
  <2>3. b = c /\ lobs' = <<"Pop", "Done", L!LastBit(l)>>
    BY <1>1, <1>4, <2>1, <2>2 DEF L!Pop
  <2>4. L!Bits' = SubSeq(s, 1, Len(s) - 1)
    BY <1>1, <2>2, <2>3, ListMirrors
  <2>5. L!BitsPromised!Pop
    BY <1>1, <1>2, <2>2, <2>3, <2>4 DEF L!BitsPromised!Pop
  <2> QED BY <1>1, <2>2, <2>3, <2>5 DEF ListStepIs, L!BitsPromised!BitNext
<1> QED BY <1>3, <1>4

LEMMA ListClears ==
  ASSUME ListIsMasked, L!Clear
  PROVE  ListStepIs
<1>1. PICK l, b : l = list /\ b = list'
  OBVIOUS
<1>2. ListGood(l) /\ b = [l EXCEPT !.len = 0, !.words = L!ClearedWhole(@)]
      /\ lobs' = <<"Clear">>
  BY <1>1 DEF L!Clear, ListIsMasked
<1>3. ListGood(b) /\ b.limit = l.limit /\ ListBits(b) = <<>>
  BY <1>2, ListCleared
<1>4. L!Bits' = <<>>
  BY <1>1, <1>3, ListMirrors
<1>5. L!BitsPromised!Clear
  BY <1>1, <1>2, <1>3, <1>4 DEF L!BitsPromised!Clear
<1> QED BY <1>1, <1>3, <1>5 DEF ListStepIs, L!BitsPromised!BitNext

LEMMA ListIsMade ==
  ASSUME NEW bs \in L!MadeOf, L!FromBools(bs)
  PROVE  ListStepIs
<1>1. PICK n \in 0 .. WordBits + 1 : bs \in [1 .. n -> BOOLEAN]
  BY DEF L!MadeOf
<1>2. PICK b : b = list' /\ b = L!Made(bs) /\ lobs' = <<"FromBools", bs>>
  BY DEF L!FromBools
<1>3. ListGood(b) /\ b.limit = <<"None">> /\ ListBits(b) = bs
  BY <1>1, <1>2, ListMade
<1>4. L!Bits' = bs
  BY <1>2, <1>3, ListMirrors
<1>5. lobs'[1] = "FromBools" /\ lobs'[2] = bs
  BY <1>2
<1>6. L!BitsPromised!FromBools(lobs'[2])
  BY <1>2, <1>3, <1>4, <1>5 DEF L!BitsPromised!FromBools
<1> QED BY <1>2, <1>3, <1>5, <1>6 DEF ListStepIs, L!BitsPromised!BitNext

LEMMA ListStep ==
  ASSUME ListIsMasked, L!Next
  PROVE  ListStepIs
  BY ListLooks, ListPops, ListClears, ListPushes, ListGets, ListAssigns, ListIsMade DEF L!Next

LEMMA ListInvariant == EachSpec => []ListIsMasked
<1>1. EachInit => ListIsMasked
  <2> SUFFICES ASSUME L!Init PROVE ListIsMasked
    BY DEF EachInit
  <2>0. PICK l : l = list
    OBVIOUS
  <2>1. PICK x \in BitLimits : l = list /\ l = L!NewList(x)
    BY <2>0 DEF L!Init
  <2> QED BY <2>1, ListConstants, NewListGood DEF ListIsMasked
<1>2. ListIsMasked /\ [EachNext]_all => ListIsMasked'
  <2> SUFFICES ASSUME ListIsMasked, [EachNext]_all PROVE ListIsMasked'
    OBVIOUS
  <2>1. CASE BitlistNext
    BY <2>1, ListStep DEF BitlistNext, ListStepIs, ListIsMasked
  <2>2. CASE UNCHANGED listVars
    BY <2>2 DEF listVars, ListIsMasked
  <2> QED BY <2>1, <2>2, OnlyOneIsUsed
<1> QED BY <1>1, <1>2, PTL DEF EachSpec

LEMMA ListTailIsZero ==
  ASSUME ListIsMasked
  PROVE  L!TailIsZero
<1>1. PICK l, n, len, f : l = list /\ n = l.words.length /\ len = l.len /\ f = WordsOf(l)
  OBVIOUS
<1>2. Masked(f, n, len) /\ Block(l.words, Words, WordsDepth)
  BY <1>1 DEF ListIsMasked, ListGood
<1>3. \A p \in 0 .. n - 1 : f[p] = L!WordAt(l, p)
  BY <1>1 DEF WordsOf, L!WordAt
<1>4. \A p \in 0 .. n - 1 : \A k \in f[p] : p * WordBits + k < len
  BY <1>2, MaskedWords
<1>5. \A p \in 0 .. n - 1 : \A k \in L!WordAt(l, p) : p * WordBits + k < len
  BY <1>3, <1>4
<1>6. L!Packed(l.words)
  BY <1>2, ListOps DEF Block
<1> QED BY <1>1, <1>5, <1>6 DEF L!TailIsZero

(* The words of the list are one sequence of bits within the limit and the *)
(* capacity, whatever was pushed, popped and cleared before.               *)
THEOREM BitlistIsASequence == EachSpec => L!ImplementsBits
<1>1. EachInit => L!BitsPromised!BitInit
  <2> SUFFICES ASSUME L!Init PROVE L!BitsPromised!BitInit
    BY DEF EachInit
  <2>0. PICK l : l = list
    OBVIOUS
  <2>1. PICK x \in BitLimits : l = list /\ l = L!NewList(x)
    BY <2>0 DEF L!Init
  <2>2. ListGood(l) /\ ListBits(l) = <<>>
    BY <2>1, ListConstants, NewListGood
  <2>3. L!Bits = <<>>
    BY <2>1, <2>2, ListMirrors
  <2> QED BY <2>3 DEF L!Init, L!BitsPromised!BitInit
<1>2. ListIsMasked /\ [EachNext]_all => [L!BitsPromised!BitNext]_<<L!Bits, list.limit, lobs>>
  <2> SUFFICES ASSUME ListIsMasked, [EachNext]_all
               PROVE  L!BitsPromised!BitNext \/ UNCHANGED <<L!Bits, list.limit, lobs>>
    OBVIOUS
  <2>1. CASE BitlistNext
    BY <2>1, ListStep DEF BitlistNext, ListStepIs
  <2>2. CASE UNCHANGED listVars
    <3>1. list' = list /\ lobs' = lobs
      BY <2>2 DEF listVars
    <3>2. L!Bits' = L!Bits
      BY <3>1, ListMirrors DEF ListIsMasked
    <3> QED BY <3>1, <3>2
  <2> QED BY <2>1, <2>2, OnlyOneIsUsed
<1> QED BY <1>1, <1>2, ListInvariant, PTL
        DEF EachSpec, L!ImplementsBits, L!BitsPromised!BitSpec, L!BitsPromised!vars

-----------------------------------------------------------------------------
(* The set of bits.                                                        *)

LEMMA SetOps ==
  \A s, i, v, w, k :
    /\ B!Bit(s, i) = BitAt(s.words, i)
    /\ B!WordPut(v, w, k) = WordWith(w, k, v)
    /\ B!WordIx(i) = i \div WordBits /\ B!BitIx(i) = i % WordBits
  BY DEF B!Bit, BitAt, B!WordPut, WordWith, B!WordIx, B!BitIx, B!WordGet

SetBits(s) == BitsOf(s.words, s.len)

SetRoom == WordBits * 2 ^ WordsDepth

SetGood(s) ==
  /\ DOMAIN s = {"len", "depth", "words"}
  /\ s.len <= SetRoom /\ s.depth = B!DepthFor(s.len) /\ s.depth \in Nat
  /\ Masked(s.words, 2 ^ s.depth, s.len)

(* The least depth that holds so many bits does.                           *)
LEMMA DepthHolds ==
  ASSUME NEW n \in Nat, n <= SetRoom
  PROVE  B!DepthFor(n) \in Nat /\ n <= WordBits * 2 ^ B!DepthFor(n)
<1>1. WordsDepth \in Nat
  BY ListConstants
<1> DEFINE T == {v \in 0 .. WordsDepth : n <= WordBits * 2 ^ v} \cup {WordsDepth}
<1>2. \A v \in T : v \in Nat /\ n <= WordBits * 2 ^ v
  BY <1>1 DEF SetRoom
<1>3. \E x \in T : \A y \in T : x <= y
  <2>1. T \subseteq Nat /\ T # {}
    BY <1>2
  <2> HIDE DEF T
  <2> QED BY <2>1, LeastNumber
<1>4. B!DepthFor(n) = CHOOSE x \in T : \A y \in T : x <= y
  BY DEF B!DepthFor, B!Min
<1> HIDE DEF T
<1>5. B!DepthFor(n) \in T
  BY <1>3, <1>4
<1> QED BY <1>2, <1>5

LEMMA NewSetGood ==
  ASSUME NEW n \in Nat, n <= SetRoom, NEW s, s = B!NewSet(n)
  PROVE  /\ SetGood(s) /\ s.len = n
         /\ \A j \in Nat : j < n => ~ BitAt(s.words, j)
<1>1. PICK dp \in Nat : dp = B!DepthFor(n) /\ n <= WordBits * 2 ^ dp
  BY DepthHolds
<1>2. PICK m \in Nat : m = 2 ^ dp
  BY PowerOfTwo
<1>3. DOMAIN s = {"len", "depth", "words"} /\ s.len = n /\ s.depth = dp
      /\ s.words = [v \in 0 .. m - 1 |-> {}]
  BY <1>1, <1>2 DEF B!NewSet
<1>4. PICK f : f = s.words
  OBVIOUS
<1>5. f \in [0 .. m - 1 -> Words]
  BY <1>3, <1>4 DEF Words
<1>6. PICK e \in Nat : e = m * WordBits /\ n <= e
  <2>1. m * WordBits \in Nat /\ m * WordBits = WordBits * m
    BY WordBitsPositive
  <2> QED BY <2>1, <1>1, <1>2
<1>7. ASSUME NEW j \in Nat, j < e PROVE ~ BitAt(f, j)
  <2>1. j \div WordBits \in 0 .. m - 1
    BY <1>6, <1>7, PlaceFits, WordBitsPositive
  <2>2. f[j \div WordBits] = {}
    BY <2>1, <1>3, <1>4
  <2> QED BY <2>2 DEF BitAt
<1>8. Masked(f, m, n)
  BY <1>5, <1>6, <1>7 DEF Masked
<1>9. SetGood(s)
  BY <1>1, <1>2, <1>3, <1>4, <1>8 DEF SetGood
<1>10. \A j \in Nat : j < n => j < e
  BY <1>6
<1> QED BY <1>3, <1>4, <1>7, <1>9, <1>10

LEMMA SetBitsAre ==
  ASSUME NEW s, SetGood(s)
  PROVE  /\ s.len \in Nat
         /\ SetBits(s) \in Seq(BOOLEAN) /\ Len(SetBits(s)) = s.len
         /\ \A i \in Nat : i < s.len => SetBits(s)[i + 1] = BitAt(s.words, i)
         /\ [i \in 1 .. s.len |-> B!Bit(s, i - 1)] = SetBits(s)
<1>0. PICK f : f = s.words
  OBVIOUS
<1>1. PICK len \in Nat : len = s.len /\ f = s.words
  BY <1>0 DEF SetGood, Masked
<1>2. /\ BitsOf(f, len) \in Seq(BOOLEAN) /\ Len(BitsOf(f, len)) = len
      /\ \A j \in Nat : j < len => BitsOf(f, len)[j + 1] = BitAt(f, j)
  BY BitsOfBits
<1>3. [i \in 1 .. s.len |-> B!Bit(s, i - 1)] = SetBits(s)
  BY SetOps DEF SetBits, BitsOf
<1> QED BY <1>1, <1>2, <1>3 DEF SetBits

LEMMA SetAssigned ==
  ASSUME NEW s, SetGood(s), NEW i \in Nat, i < s.len, NEW v \in BOOLEAN,
         NEW b, b = B!Assigned(s, i, v)
  PROVE  /\ SetGood(b) /\ b.len = s.len
         /\ SetBits(b) = [SetBits(s) EXCEPT ![i + 1] = v]
<1>1. PICK n, len, f : n = 2 ^ s.depth /\ len = s.len /\ f = s.words
  OBVIOUS
<1>2. /\ Masked(f, n, len) /\ i < len /\ DOMAIN s = {"len", "depth", "words"}
      /\ f \in [0 .. n - 1 -> Words] /\ n \in Nat /\ len \in Nat /\ len <= n * WordBits
  BY <1>1 DEF SetGood, Masked
<1>3. i \div WordBits \in 0 .. n - 1
  <2>1. i < n * WordBits
    <3>1. n * WordBits \in Nat
      BY <1>2, WordBitsPositive
    <3> QED BY <1>2, <3>1
  <2> QED BY <1>2, <2>1, PlaceFits, WordBitsPositive
<1>4. PICK w : w = WordWith(f[i \div WordBits], i % WordBits, v)
  OBVIOUS
<1>5. PICK g : g = [f EXCEPT ![i \div WordBits] = w]
  OBVIOUS
<1>6. Rewrites(g, f, n, i, v)
  BY <1>2, <1>3, <1>4, <1>5, BitPut
<1>7. b = [s EXCEPT !.words = g]
  BY <1>1, <1>2, <1>4, <1>5, SetOps DEF B!Assigned
<1>8. DOMAIN b = {"len", "depth", "words"} /\ b.len = s.len /\ b.depth = s.depth /\ b.words = g
  BY <1>2, <1>7
<1>9. Masked(f, n, len) /\ i < len
  BY <1>2
<1>10. Masked(g, n, len) /\ BitsOf(g, len) = [BitsOf(f, len) EXCEPT ![i + 1] = v]
  BY <1>6, <1>9, MaskedAssigned
<1> QED BY <1>1, <1>8, <1>10 DEF SetGood, SetBits

(* Sets made of bits, one bit after the other.                             *)

FirstOf(bs, n, k) == [i \in 1 .. n |-> i <= k /\ bs[i]]

LEMMA FirstOneMore ==
  ASSUME NEW n \in Nat, NEW bs \in [1 .. n -> BOOLEAN], NEW k \in 0 .. n - 1
  PROVE  FirstOf(bs, n, k + 1)
           = IF bs[k + 1] THEN [FirstOf(bs, n, k) EXCEPT ![k + 1] = TRUE] ELSE FirstOf(bs, n, k)
<1>1. ASSUME NEW i \in 1 .. n, i # k + 1 PROVE i <= k + 1 <=> i <= k
  BY <1>1
<1>2. k + 1 \in 1 .. n /\ ~ (k + 1 <= k) /\ k + 1 <= k + 1 /\ bs[k + 1] \in BOOLEAN
  OBVIOUS
<1>3. CASE bs[k + 1]
  <2> DEFINE s == FirstOf(bs, n, k + 1)
             t == [FirstOf(bs, n, k) EXCEPT ![k + 1] = TRUE]
  <2>1. s = [i \in 1 .. n |-> s[i]] /\ t = [i \in 1 .. n |-> t[i]]
    BY DEF FirstOf
  <2>2. ASSUME NEW i \in 1 .. n PROVE s[i] = t[i]
    <3>1. CASE i = k + 1
      BY <3>1, <1>2, <1>3 DEF FirstOf
    <3>2. CASE i # k + 1
      BY <3>2, <1>1 DEF FirstOf
    <3> QED BY <3>1, <3>2
  <2> HIDE DEF s, t
  <2>3. s = t
    BY <2>1, <2>2
  <2> QED BY <2>3, <1>3 DEF s, t
<1>4. CASE ~ bs[k + 1]
  <2>1. ASSUME NEW i \in 1 .. n PROVE (i <= k + 1 /\ bs[i]) = (i <= k /\ bs[i])
    <3>1. CASE i = k + 1
      BY <3>1, <1>2, <1>4
    <3>2. CASE i # k + 1
      BY <3>2, <1>1
    <3> QED BY <3>1, <3>2
  <2> QED BY <2>1, <1>4 DEF FirstOf
<1> QED BY <1>3, <1>4

LEMMA SetMade ==
  ASSUME NEW n \in Nat, n <= SetRoom, NEW bs \in [1 .. n -> BOOLEAN],
         NEW b, b = B!FromBools(bs)
  PROVE  SetGood(b) /\ b.len = n /\ SetBits(b) = bs
<1>0. Len(bs) = n
  OBVIOUS
<1> DEFINE Next(s, i) == IF bs[i] THEN B!Assigned(s, i - 1, TRUE) ELSE s
           Eq(k, f) == f = [i \in 0 .. k |-> IF i = 0 THEN B!NewSet(n) ELSE Next(f[i - 1], i)]
           E == {k \in 0 .. n : \E f : Eq(k, f)}
<1>1. 0 \in E
  <2> DEFINE f == [i \in 0 .. 0 |-> B!NewSet(n)]
  <2>1. Eq(0, f) /\ 0 \in 0 .. n
    OBVIOUS
  <2> HIDE DEF f, Eq
  <2> QED BY <2>1
<1>2. ASSUME NEW k \in 0 .. n - 1, k \in E PROVE k + 1 \in E
  <2>1. PICK f : Eq(k, f)
    BY <1>2
  <2>2. PICK x : x = Next(f[k], k + 1)
    OBVIOUS
  <2> DEFINE g == [i \in 0 .. k + 1 |-> IF i = k + 1 THEN x ELSE f[i]]
  <2>3. ASSUME NEW i \in 0 .. k + 1
        PROVE  g[i] = IF i = 0 THEN B!NewSet(n) ELSE Next(g[i - 1], i)
    <3> HIDE DEF Next
    <3>1. CASE i = k + 1
      <4>1. g[i] = x /\ i # 0 /\ i - 1 = k
        BY <3>1
      <4>2. g[i - 1] = f[k]
        BY <4>1
      <4> QED BY <4>1, <4>2, <3>1, <2>2
    <3>2. CASE i # k + 1
      <4>1. i \in 0 .. k /\ g[i] = f[i]
        BY <3>2
      <4>2. f[i] = IF i = 0 THEN B!NewSet(n) ELSE Next(f[i - 1], i)
        BY <2>1, <4>1
      <4>3. i # 0 => i - 1 \in 0 .. k + 1 /\ i - 1 # k + 1
        BY <4>1
      <4>4. i # 0 => g[i - 1] = f[i - 1]
        BY <4>3
      <4> HIDE DEF g
      <4> QED BY <4>1, <4>2, <4>4
    <3> QED BY <3>1, <3>2
  <2>4. Eq(k + 1, g)
    <3> HIDE DEF Next
    <3> QED BY <2>3
  <2>5. k + 1 \in 0 .. n
    OBVIOUS
  <2> HIDE DEF g, Eq
  <2> QED BY <2>4, <2>5
<1>3. \E f : Eq(n, f)
  <2> HIDE DEF Eq
  <2>1. n \in 0 .. n
    OBVIOUS
  <2> HIDE DEF E
  <2>2. \A k \in 0 .. n : k \in E
    BY <1>1, <1>2, BoundedInduction
  <2> QED BY <2>1, <2>2 DEF E
<1>4. PICK f : f = CHOOSE h : Eq(n, h)
  OBVIOUS
<1>5. Eq(n, f)
  <2> HIDE DEF Eq
  <2> QED BY <1>3, <1>4
<1>6. b = f[n]
  BY <1>0, <1>4 DEF B!FromBools
<1> HIDE DEF E
<1> DEFINE G == {k \in 0 .. n : /\ SetGood(f[k]) /\ f[k].len = n
                                /\ SetBits(f[k]) = FirstOf(bs, n, k)}
<1>7. 0 \in G
  <2>1. PICK s : s = B!NewSet(n) /\ f[0] = s
    BY <1>5
  <2>2. SetGood(s) /\ s.len = n /\ \A j \in Nat : j < n => ~ BitAt(s.words, j)
    BY <2>1, NewSetGood
  <2>3. ASSUME NEW i \in 1 .. n PROVE BitAt(s.words, i - 1) = FALSE /\ ~ (i <= 0)
    <3>1. i - 1 \in Nat /\ i - 1 < n
      OBVIOUS
    <3>2. ~ BitAt(s.words, i - 1)
      BY <3>1, <2>2
    <3> QED BY <3>2 DEF BitAt
  <2>4. SetBits(s) = FirstOf(bs, n, 0)
    BY <2>2, <2>3 DEF SetBits, BitsOf, FirstOf
  <2> QED BY <2>1, <2>2, <2>4
<1>8. ASSUME NEW k \in 0 .. n - 1, k \in G PROVE k + 1 \in G
  <2>1. PICK s, c : s = f[k] /\ c = f[k + 1]
    OBVIOUS
  <2>2. SetGood(s) /\ s.len = n /\ SetBits(s) = FirstOf(bs, n, k)
    BY <1>8, <2>1
  <2>3. k + 1 \in 0 .. n /\ k + 1 # 0 /\ (k + 1) - 1 = k
    OBVIOUS
  <2>4. c = Next(s, k + 1)
    <3> HIDE DEF Next
    <3> QED BY <1>5, <2>1, <2>3
  <2>5. CASE bs[k + 1]
    <3>1. PICK v \in BOOLEAN : v = TRUE
      OBVIOUS
    <3>2. c = B!Assigned(s, k, v) /\ k \in Nat /\ k < s.len
      BY <2>2, <2>3, <2>4, <2>5, <3>1
    <3>3. SetGood(c) /\ c.len = s.len /\ SetBits(c) = [SetBits(s) EXCEPT ![k + 1] = v]
      BY <2>2, <3>2, SetAssigned
    <3>4. FirstOf(bs, n, k + 1) = [FirstOf(bs, n, k) EXCEPT ![k + 1] = TRUE]
      BY <2>5, FirstOneMore
    <3> QED BY <2>1, <2>2, <2>3, <3>1, <3>3, <3>4
  <2>6. CASE ~ bs[k + 1]
    <3>1. c = s
      BY <2>4, <2>6
    <3>2. FirstOf(bs, n, k + 1) = FirstOf(bs, n, k)
      BY <2>6, FirstOneMore
    <3> QED BY <2>1, <2>2, <2>3, <3>1, <3>2
  <2> QED BY <2>5, <2>6
<1>9. n \in G
  <2> HIDE DEF Eq, G
  <2>1. n \in 0 .. n
    OBVIOUS
  <2>2. \A k \in 0 .. n : k \in G
    BY <1>7, <1>8, BoundedInduction
  <2> QED BY <2>1, <2>2
<1>10. FirstOf(bs, n, n) = bs
  <2>1. \A i \in 1 .. n : (i <= n /\ bs[i]) = bs[i]
    OBVIOUS
  <2> QED BY <2>1 DEF FirstOf
<1> HIDE DEF Eq
<1> QED BY <1>6, <1>9, <1>10

(* Combining the words combines the bits.                                  *)
CombinedWords(k, n, f, h) == [v \in 0 .. n - 1 |-> B!WordOp(k, f[v], h[v])]

CombinedBits(k, a, c) == [i \in DOMAIN a |-> B!BitsPromised!Together(k, a[i], c[i])]

LEMMA WordsCombine ==
  ASSUME NEW k \in {"Union", "Intersection", "Difference", "Xor"},
         NEW n, NEW len, NEW f, Masked(f, n, len), NEW h, Masked(h, n, len),
         NEW g, g = CombinedWords(k, n, f, h)
  PROVE  /\ Masked(g, n, len)
         /\ BitsOf(g, len) = CombinedBits(k, BitsOf(f, len), BitsOf(h, len))
<1>1. /\ n \in Nat /\ len \in Nat /\ len <= n * WordBits
      /\ f \in [0 .. n - 1 -> Words] /\ h \in [0 .. n - 1 -> Words]
      /\ \A j \in Nat : j < n * WordBits /\ BitAt(f, j) => j < len
      /\ \A j \in Nat : j < n * WordBits /\ BitAt(h, j) => j < len
  BY DEF Masked
<1>2. \A v, w, x : (x \in B!WordOp(k, v, w)) = B!BitsPromised!Together(k, x \in v, x \in w)
  <2>1. CASE k = "Union"
    BY <2>1 DEF B!WordOp, B!BitsPromised!Together
  <2>2. CASE k = "Intersection"
    BY <2>2 DEF B!WordOp, B!BitsPromised!Together
  <2>3. CASE k = "Difference"
    BY <2>3 DEF B!WordOp, B!BitsPromised!Together
  <2>4. CASE k = "Xor"
    BY <2>4 DEF B!WordOp, B!BitsPromised!Together
  <2> QED BY <2>1, <2>2, <2>3, <2>4
<1>3. \A v, w \in Words : B!WordOp(k, v, w) \in Words
  BY DEF B!WordOp, Words
<1>4. g \in [0 .. n - 1 -> Words]
  BY <1>1, <1>3 DEF CombinedWords
<1>5. PICK e \in Nat : e = n * WordBits /\ len <= e
  BY <1>1, PlaceFits, WordBitsPositive
<1>6. ASSUME NEW j \in Nat, j < e
      PROVE  BitAt(g, j) = B!BitsPromised!Together(k, BitAt(f, j), BitAt(h, j))
  <2>1. j \div WordBits \in 0 .. n - 1
    BY <1>1, <1>5, <1>6, PlaceFits, WordBitsPositive
  <2>2. g[j \div WordBits] = B!WordOp(k, f[j \div WordBits], h[j \div WordBits])
    BY <2>1 DEF CombinedWords
  <2> QED BY <2>2, <1>2 DEF BitAt
<1>7. ASSUME NEW j \in Nat, j < e, BitAt(g, j) PROVE j < len
  <2>0. BitAt(f, j) \in BOOLEAN /\ BitAt(h, j) \in BOOLEAN
    BY DEF BitAt
  <2>1. PICK p, r : p = BitAt(f, j) /\ r = BitAt(h, j) /\ p \in BOOLEAN /\ r \in BOOLEAN
    BY <2>0
  <2>2. ~ p /\ ~ r => ~ B!BitsPromised!Together(k, p, r)
    <3>1. CASE k = "Union"
      BY <3>1 DEF B!BitsPromised!Together
    <3>2. CASE k = "Intersection"
      BY <3>2 DEF B!BitsPromised!Together
    <3>3. CASE k = "Difference"
      BY <3>3 DEF B!BitsPromised!Together
    <3>4. CASE k = "Xor"
      <4>1. ASSUME ~ p, ~ r PROVE p = r
        BY <2>1, <4>1
      <4>2. B!BitsPromised!Together(k, p, r) = (p # r)
        BY <3>4 DEF B!BitsPromised!Together
      <4> QED BY <4>1, <4>2
    <3> QED BY <3>1, <3>2, <3>3, <3>4
  <2>3. B!BitsPromised!Together(k, p, r)
    BY <1>6, <1>7, <2>1
  <2>4. p \/ r
    BY <2>2, <2>3
  <2> QED BY <1>1, <1>5, <1>7, <2>1, <2>4
<1>8. Masked(g, n, len)
  BY <1>1, <1>4, <1>5, <1>7 DEF Masked
<1>9. PICK a, c : a = BitsOf(f, len) /\ c = BitsOf(h, len)
  OBVIOUS
<1>10. /\ \A j \in Nat : j < len => a[j + 1] = BitAt(f, j)
       /\ \A j \in Nat : j < len => c[j + 1] = BitAt(h, j)
       /\ DOMAIN a = 1 .. len
  BY <1>1, <1>9, BitsOfBits
<1>11. ASSUME NEW i \in 1 .. len
       PROVE  BitAt(g, i - 1) = B!BitsPromised!Together(k, a[i], c[i])
  <2>1. PICK j \in Nat : j = i - 1 /\ j + 1 = i /\ j < len /\ j < e
    BY <1>1, <1>5
  <2> QED BY <2>1, <1>6, <1>10
<1>12. BitsOf(g, len) = [i \in 1 .. len |-> B!BitsPromised!Together(k, a[i], c[i])]
  BY <1>11 DEF BitsOf
<1> QED BY <1>8, <1>9, <1>10, <1>12 DEF CombinedBits

-----------------------------------------------------------------------------
(* What counting and listing a set answer.                                 *)

\* After i places the ones among them have been picked, in order.
Picks(n, a, f) ==
  f = [i \in 0 .. n |-> IF i = 0 THEN <<>>
                        ELSE IF a[i - 1] THEN Append(f[i - 1], i - 1) ELSE f[i - 1]]

LEMMA PicksExist ==
  ASSUME NEW n \in Nat, NEW a \in [0 .. n - 1 -> BOOLEAN]
  PROVE  \E f : Picks(n, a, f)
<1> DEFINE Lists == Seq(Nat)
           step == [t \in (0 .. n - 1) \X Lists |-> IF a[t[1]] THEN Append(t[2], t[1]) ELSE t[2]]
<1>1. \A k \in 0 .. n - 1, s \in Lists : step[<<k, s>>] = IF a[k] THEN Append(s, k) ELSE s
  OBVIOUS
<1>2. step \in [(0 .. n - 1) \X Lists -> Lists]
  <2>1. ASSUME NEW t \in (0 .. n - 1) \X Lists
        PROVE  (IF a[t[1]] THEN Append(t[2], t[1]) ELSE t[2]) \in Lists
    <3>1. t[1] \in Nat /\ t[2] \in Seq(Nat)
      OBVIOUS
    <3>2. Append(t[2], t[1]) \in Seq(Nat)
      BY <3>1
    <3> QED BY <3>1, <3>2
  <2> QED BY <2>1
<1>3. <<>> \in Lists
  OBVIOUS
<1> HIDE DEF step, Lists
<1>4. PICK f : Runs(n, Lists, <<>>, step, f)
  BY <1>2, <1>3, RunExists
<1>5. f \in [0 .. n -> Lists] /\ f[0] = <<>> /\ \A k \in 0 .. n - 1 : f[k + 1] = step[<<k, f[k]>>]
  BY <1>4 DEF Runs
<1>6. ASSUME NEW i \in 0 .. n
      PROVE  f[i] = IF i = 0 THEN <<>>
                    ELSE IF a[i - 1] THEN Append(f[i - 1], i - 1) ELSE f[i - 1]
  <2>1. CASE i = 0
    BY <2>1, <1>5
  <2>2. CASE i # 0
    <3>1. PICK k \in 0 .. n - 1 : k = i - 1 /\ k + 1 = i /\ k \in 0 .. n
      BY <2>2
    <3>2. f[i] = step[<<k, f[k]>>] /\ f[k] \in Lists
      BY <3>1, <1>5
    <3> QED BY <2>2, <3>1, <3>2, <1>1
  <2> QED BY <2>1, <2>2
<1>7. Picks(n, a, f)
  BY <1>5, <1>6 DEF Picks
<1> QED BY <1>7

(* Nothing is picked beyond the last one.                                  *)
LEMMA PicksAgree ==
  ASSUME NEW n \in Nat, NEW m \in Nat, n <= m, NEW a, NEW c,
         \A j \in 0 .. n - 1 : c[j] = a[j],
         \A j \in 0 .. m - 1 : j >= n => ~ c[j],
         NEW f, Picks(n, a, f), NEW g, Picks(m, c, g)
  PROVE  g[m] = f[n]
<1> DEFINE T == {k \in 0 .. m : g[k] = IF k <= n THEN f[k] ELSE f[n]}
<1>1. 0 \in T
  <2>1. 0 \in 0 .. n /\ 0 \in 0 .. m /\ 0 <= n
    OBVIOUS
  <2>2. f[0] = <<>> /\ g[0] = <<>>
    BY <2>1 DEF Picks
  <2> QED BY <2>1, <2>2
<1>2. ASSUME NEW k \in 0 .. m - 1, k \in T PROVE k + 1 \in T
  <2>1. PICK i \in 0 .. m : i = k + 1 /\ i # 0 /\ i - 1 = k
    OBVIOUS
  <2>2. g[i] = IF c[k] THEN Append(g[k], k) ELSE g[k]
    BY <2>1 DEF Picks
  <2>3. CASE k < n
    <3>1. i \in 0 .. n /\ i <= n /\ k <= n /\ k \in 0 .. n - 1
      BY <2>1, <2>3
    <3>2. f[i] = IF a[k] THEN Append(f[k], k) ELSE f[k]
      BY <2>1, <3>1 DEF Picks
    <3>3. g[k] = f[k] /\ c[k] = a[k]
      BY <1>2, <3>1
    <3> QED BY <2>1, <2>2, <3>1, <3>2, <3>3
  <2>4. CASE ~ (k < n)
    <3>1. ~ c[k] /\ ~ (i <= n) /\ (k <= n => k = n)
      BY <2>1, <2>4
    <3>2. g[k] = f[n]
      BY <1>2, <3>1
    <3> QED BY <2>1, <2>2, <3>1, <3>2
  <2> QED BY <2>3, <2>4
<1> HIDE DEF T
<1>3. \A k \in 0 .. m : k \in T
  BY <1>1, <1>2, BoundedInduction
<1>4. m \in T /\ (m <= n => m = n)
  BY <1>3
<1> QED BY <1>4 DEF T

MembersOf(s) ==
  LET upto[i \in 0 .. Len(s)] ==
        IF i = 0 THEN <<>>
        ELSE IF s[i] THEN Append(upto[i - 1], i - 1) ELSE upto[i - 1]
  IN upto[Len(s)]

LEMMA MembersArePicked ==
  ASSUME NEW n \in Nat, NEW s \in Seq(BOOLEAN), Len(s) = n, NEW a,
         a = [j \in 0 .. n - 1 |-> s[j + 1]]
  PROVE  \E f : Picks(n, a, f) /\ MembersOf(s) = f[n]
<1>1. a \in [0 .. n - 1 -> BOOLEAN] /\ \A i \in 0 .. n : i # 0 => a[i - 1] = s[i]
  OBVIOUS
<1>2. \E f : Picks(n, a, f)
  BY <1>1, PicksExist
<1> DEFINE Eq(f) == f = [i \in 0 .. n |-> IF i = 0 THEN <<>>
                           ELSE IF s[i] THEN Append(f[i - 1], i - 1) ELSE f[i - 1]]
<1>3. ASSUME NEW f PROVE Eq(f) <=> Picks(n, a, f)
  BY <1>1 DEF Picks
<1>4. PICK f : f = CHOOSE h : Eq(h)
  OBVIOUS
<1>5. MembersOf(s) = f[n]
  BY <1>4 DEF MembersOf
<1>6. Eq(f)
  <2> HIDE DEF Eq
  <2> QED BY <1>2, <1>3, <1>4
<1> HIDE DEF Eq
<1> QED BY <1>3, <1>5, <1>6

LEMMA SetListed ==
  ASSUME NEW s, SetGood(s)
  PROVE  B!Members(s) = MembersOf(SetBits(s))
<1>1. PICK n, len, f : n = 2 ^ s.depth /\ len = s.len /\ f = s.words
  OBVIOUS
<1>2. Masked(f, n, len) /\ n \in Nat /\ len \in Nat /\ len <= n * WordBits
      /\ \A j \in Nat : j < n * WordBits /\ BitAt(f, j) => j < len
  BY <1>1 DEF SetGood, Masked
<1>3. PICK e \in Nat : e = n * WordBits /\ e = WordBits * n /\ len <= e
  <2>1. n * WordBits \in Nat /\ n * WordBits = WordBits * n
    BY <1>2, WordBitsPositive
  <2> QED BY <2>1, <1>2
<1>4. PICK c : c = [j \in 0 .. e - 1 |-> BitAt(f, j)]
  OBVIOUS
<1>5. c \in [0 .. e - 1 -> BOOLEAN]
  <2>1. \A j \in 0 .. e - 1 : BitAt(f, j) \in BOOLEAN
    BY DEF BitAt
  <2> QED BY <1>4, <2>1
<1> DEFINE Eq(g) == g = [i \in 0 .. e |-> IF i = 0 THEN <<>>
                           ELSE IF B!Bit(s, i - 1) THEN Append(g[i - 1], i - 1) ELSE g[i - 1]]
<1>6. ASSUME NEW g PROVE Eq(g) <=> Picks(e, c, g)
  <2>1. \A i \in 0 .. e : i # 0 => i - 1 \in 0 .. e - 1
    OBVIOUS
  <2>2. \A i \in 0 .. e : i # 0 => c[i - 1] = B!Bit(s, i - 1)
    BY <2>1, <1>1, <1>4, SetOps
  <2> QED BY <2>2 DEF Picks
<1>7. PICK g : g = CHOOSE h : Eq(h)
  OBVIOUS
<1>8. B!Members(s) = g[e]
  BY <1>1, <1>3, <1>7 DEF B!Members
<1>9. \E h : Picks(e, c, h)
  BY <1>5, PicksExist
<1>10. Picks(e, c, g)
  <2> HIDE DEF Eq
  <2> QED BY <1>6, <1>7, <1>9
<1> HIDE DEF Eq
<1>11. PICK b : b = SetBits(s)
  OBVIOUS
<1>12. b \in Seq(BOOLEAN) /\ Len(b) = len /\ \A j \in Nat : j < len => b[j + 1] = BitAt(f, j)
  BY <1>1, <1>11, SetBitsAre
<1>13. PICK a : a = [j \in 0 .. len - 1 |-> b[j + 1]]
  OBVIOUS
<1>14. PICK h : Picks(len, a, h) /\ MembersOf(b) = h[len]
  BY <1>2, <1>12, <1>13, MembersArePicked
<1>15. ASSUME NEW j \in 0 .. len - 1 PROVE c[j] = a[j]
  <2>1. j \in Nat /\ j < len /\ j \in 0 .. e - 1
    BY <1>2, <1>3
  <2> QED BY <2>1, <1>4, <1>12, <1>13
<1>16. ASSUME NEW j \in 0 .. e - 1, j >= len PROVE ~ c[j]
  <2>1. j \in Nat /\ j < n * WordBits /\ ~ (j < len)
    BY <1>2, <1>3, <1>16
  <2> QED BY <2>1, <1>2, <1>4
<1>17. g[e] = h[len]
  BY <1>2, <1>3, <1>10, <1>14, <1>15, <1>16, PicksAgree, SMTT(30)
<1> QED BY <1>8, <1>11, <1>14, <1>17

LEMMA SetCounted ==
  ASSUME NEW s, SetGood(s)
  PROVE  B!Count(s) = B!Cardinality(OnesOf(SetBits(s)))
<1>1. PICK n, len, f : n = 2 ^ s.depth /\ len = s.len /\ f = s.words
  OBVIOUS
<1>2. Masked(f, n, len)
  BY <1>1 DEF SetGood
<1>3. CountOfWords(n, f) = Cardinality(OnesOf(BitsOf(f, len)))
  BY <1>2, WordsAreCounted
<1>4. \A w : B!Cardinality(w) = Cardinality(w)
  BY DEF B!Cardinality, Cardinality
<1>5. B!Count(s) = CountOfWords(n, f)
  BY <1>1, <1>4 DEF B!Count, CountOfWords
<1> QED BY <1>1, <1>3, <1>4, <1>5 DEF SetBits

-----------------------------------------------------------------------------
(* Every call on the set is a call on the sequence of its bits.            *)

SetIsMasked == SetGood(set)

SetStepIs ==
  /\ SetGood(set')
  /\ B!BitsPromised!BitNext

LEMMA SetMirrors ==
  /\ SetGood(set) => B!Bits = SetBits(set)
  /\ SetGood(set') => B!Bits' = SetBits(set')
<1>1. SetGood(set) => B!Bits = SetBits(set)
  BY SetBitsAre DEF B!Bits
<1>2. SetGood(set') => B!Bits' = SetBits(set')
  <2>1. PICK s : s = set'
    OBVIOUS
  <2>2. B!Bits' = [i \in 1 .. s.len |-> B!Bit(s, i - 1)]
    BY <2>1 DEF B!Bits, B!Bit, B!WordGet, B!WordIx, B!BitIx
  <2> QED BY <2>1, <2>2, SetBitsAre
<1> QED BY <1>1, <1>2

LEMMA SetLooks ==
  ASSUME SetIsMasked, B!Look
  PROVE  SetStepIs
<1>1. PICK s, b : s = set /\ s = set' /\ b = SetBits(s)
  BY DEF B!Look
<1>2. SetGood(s) /\ B!Bits = b /\ B!Bits' = b /\ Len(b) = s.len
  BY <1>1, SetMirrors, SetBitsAre DEF SetIsMasked
<1>3. B!Count(s) = B!Cardinality(OnesOf(b)) /\ B!Members(s) = MembersOf(b)
  BY <1>1, <1>2, SetCounted, SetListed
<1>4. \/ bobs' = <<"Length">> \o <<Len(b)>>
      \/ bobs' = <<"Count">> \o <<B!Cardinality(OnesOf(b))>>
      \/ bobs' = <<"Members">> \o <<MembersOf(b)>>
  BY <1>1, <1>2, <1>3 DEF B!Look
<1>5. B!BitsPromised!Cardinality(B!BitsPromised!Ones) = B!Cardinality(OnesOf(b))
  BY <1>2 DEF B!BitsPromised!Cardinality, B!Cardinality, B!BitsPromised!Ones, OnesOf
<1>6. B!BitsPromised!Members = MembersOf(b)
  BY <1>2 DEF B!BitsPromised!Members, MembersOf
<1>7. B!BitsPromised!Look
  BY <1>1, <1>2, <1>4, <1>5, <1>6 DEF B!BitsPromised!Look, B!BitsPromised!Answer
<1> QED BY <1>1, <1>2, <1>7 DEF SetStepIs, B!BitsPromised!BitNext

LEMMA SetGets ==
  ASSUME SetIsMasked, NEW i \in 0 .. set.len, B!Get(i)
  PROVE  SetStepIs
<1>1. PICK s, b : s = set /\ s = set' /\ b = SetBits(s)
  BY DEF B!Get
<1>2. SetGood(s) /\ B!Bits = b /\ B!Bits' = b /\ Len(b) = s.len /\ s.len \in Nat
  BY <1>1, SetMirrors, SetBitsAre DEF SetIsMasked
<1>3. i \in Nat /\ i \in 0 .. Len(B!Bits)
  BY <1>1, <1>2
<1>4. B!BitsPromised!Read(i)
  <2>1. CASE i < s.len
    <3>1. B!Bit(s, i) = b[i + 1]
      BY <1>1, <1>2, <1>3, <2>1, SetBitsAre, SetOps
    <3>2. bobs' = <<"Get", i>> \o <<"Done", b[i + 1]>>
      BY <1>1, <2>1, <3>1 DEF B!Get
    <3> QED BY <1>1, <1>2, <2>1, <3>2 DEF B!BitsPromised!Read, B!BitsPromised!Answer
  <2>2. CASE ~ (i < s.len)
    <3>1. bobs' = <<"Get", i>> \o <<"IndexOutOfRange">>
      BY <1>1, <2>2 DEF B!Get
    <3>2. i >= Len(b)
      BY <1>2, <1>3, <2>2
    <3> QED BY <1>1, <1>2, <3>1, <3>2 DEF B!BitsPromised!Read, B!BitsPromised!Answer
  <2> QED BY <2>1, <2>2
<1> QED BY <1>1, <1>2, <1>3, <1>4 DEF SetStepIs, B!BitsPromised!BitNext

LEMMA SetAssigns ==
  ASSUME SetIsMasked, NEW i \in 0 .. set.len, NEW v \in BOOLEAN, B!Assign(i, v)
  PROVE  SetStepIs
<1>1. PICK s, c, b : s = set /\ c = set' /\ b = SetBits(s)
  OBVIOUS
<1>2. SetGood(s) /\ B!Bits = b /\ Len(b) = s.len /\ s.len \in Nat
  BY <1>1, SetMirrors, SetBitsAre DEF SetIsMasked
<1>3. i \in Nat /\ i \in 0 .. Len(B!Bits)
  BY <1>1, <1>2
<1>4. CASE i < s.len
  <2>1. c = B!Assigned(s, i, v) /\ bobs' = <<"Assign", i, v, "Done">>
    BY <1>1, <1>4 DEF B!Assign
  <2>2. SetGood(c) /\ SetBits(c) = [b EXCEPT ![i + 1] = v]
    BY <1>1, <1>2, <1>3, <1>4, <2>1, SetAssigned
  <2>3. B!Bits' = [b EXCEPT ![i + 1] = v]
    BY <1>1, <2>2, SetMirrors
  <2>4. B!BitsPromised!Write(i, v)
    BY <1>1, <1>2, <1>4, <2>1, <2>3 DEF B!BitsPromised!Write
  <2> QED BY <1>1, <1>3, <2>2, <2>4 DEF SetStepIs, B!BitsPromised!BitNext
<1>5. CASE ~ (i < s.len)
  <2>1. c = s /\ bobs' = <<"Assign", i, v>> \o <<"IndexOutOfRange">>
    BY <1>1, <1>5 DEF B!Assign
  <2>2. i >= Len(b)
    BY <1>2, <1>3, <1>5
  <2>3. B!Bits' = b
    BY <1>1, <1>2, <2>1, SetMirrors
  <2>4. B!BitsPromised!Write(i, v)
    BY <1>1, <1>2, <2>1, <2>2, <2>3 DEF B!BitsPromised!Write, B!BitsPromised!Answer
  <2> QED BY <1>1, <1>2, <1>3, <2>1, <2>4 DEF SetStepIs, B!BitsPromised!BitNext
<1> QED BY <1>4, <1>5

LEMMA SetCombines ==
  ASSUME SetIsMasked, NEW k \in {"Union", "Intersection", "Difference", "Xor"},
         NEW ys \in B!Operands, B!Combine(k, ys)
  PROVE  SetStepIs
<1>1. PICK s, c, b : s = set /\ c = set' /\ b = SetBits(s)
  OBVIOUS
<1>2. SetGood(s) /\ B!Bits = b /\ b \in Seq(BOOLEAN) /\ Len(b) = s.len
  BY <1>1, SetMirrors, SetBitsAre DEF SetIsMasked
<1>3. PICK len \in Nat : len = s.len /\ len <= SetRoom
  BY <1>2 DEF SetGood, Masked
<1>4. PICK m \in Nat : ys \in [1 .. m -> BOOLEAN] /\ Len(ys) = m
  <2>1. PICK m \in {len, len + 1} : ys \in [1 .. m -> BOOLEAN]
    BY <1>1, <1>3 DEF B!Operands
  <2>2. m \in Nat
    BY <2>1
  <2> QED BY <2>1, <2>2
<1>5. CASE m = len
  <2>1. PICK o : o = B!FromBools(ys)
    OBVIOUS
  <2>2. SetGood(o) /\ o.len = len /\ SetBits(o) = ys
    BY <1>3, <1>4, <1>5, <2>1, SetMade
  <2>3. PICK n, f, h, g : /\ n = 2 ^ s.depth /\ f = s.words /\ h = o.words
                          /\ g = CombinedWords(k, n, f, h)
    OBVIOUS
  <2>4. o.depth = s.depth
    BY <1>2, <1>3, <2>2 DEF SetGood
  <2>5. Masked(f, n, len) /\ DOMAIN f = 0 .. n - 1 /\ DOMAIN s = {"len", "depth", "words"}
    BY <1>2, <1>3, <2>3 DEF SetGood, Masked
  <2>6. Masked(h, n, len)
    BY <2>2, <2>3, <2>4 DEF SetGood
  <2>7. c = [s EXCEPT !.words = g] /\ bobs' = <<k, ys, "Done">>
    BY <1>1, <1>3, <1>4, <1>5, <2>1, <2>3, <2>4, <2>5
       DEF B!Combine, CombinedWords
  <2>8. DOMAIN c = {"len", "depth", "words"} /\ c.len = s.len /\ c.depth = s.depth /\ c.words = g
    BY <2>5, <2>7
  <2>9. /\ Masked(g, n, len)
        /\ BitsOf(g, len) = CombinedBits(k, BitsOf(f, len), BitsOf(h, len))
    <3>1. Masked(f, n, len) /\ Masked(h, n, len)
      BY <2>5, <2>6
    <3>2. g = CombinedWords(k, n, f, h)
      BY <2>3
    <3>3. k \in {"Union", "Intersection", "Difference", "Xor"}
      OBVIOUS
    <3> QED BY ONLY <3>1, <3>2, <3>3, WordsCombine
  <2>10. SetGood(c)
    BY <1>2, <1>3, <2>3, <2>8, <2>9 DEF SetGood
  <2>11. SetBits(c) = CombinedBits(k, b, ys)
    BY <1>1, <1>3, <2>2, <2>3, <2>8, <2>9 DEF SetBits
  <2>12. B!Bits' = [i \in DOMAIN b |-> B!BitsPromised!Together(k, b[i], ys[i])]
    BY <1>1, <2>10, <2>11, SetMirrors DEF CombinedBits
  <2>13. bobs'[1] = k /\ bobs'[2] = ys
    BY <2>7
  <2>14. B!BitsPromised!Combine(bobs'[1], bobs'[2])
    BY <1>2, <1>3, <1>4, <1>5, <2>7, <2>12, <2>13 DEF B!BitsPromised!Combine
  <2> QED BY <1>1, <2>10, <2>13, <2>14 DEF SetStepIs, B!BitsPromised!BitNext
<1>6. CASE m # len
  <2>1. c = s /\ bobs' = <<k, ys>> \o <<"LengthMismatch">>
    BY <1>1, <1>3, <1>4, <1>6 DEF B!Combine
  <2>2. B!Bits' = b
    BY <1>1, <1>2, <2>1, SetMirrors
  <2>3. bobs'[1] = k /\ bobs'[2] = ys
    BY <2>1
  <2>4. B!BitsPromised!Combine(bobs'[1], bobs'[2])
    BY <1>2, <1>3, <1>4, <1>6, <2>1, <2>2, <2>3
       DEF B!BitsPromised!Combine, B!BitsPromised!Answer
  <2> QED BY <1>1, <1>2, <2>1, <2>3, <2>4 DEF SetStepIs, B!BitsPromised!BitNext
<1> QED BY <1>5, <1>6

LEMMA SetStep ==
  ASSUME SetIsMasked, B!Next
  PROVE  SetStepIs
  BY SetLooks, SetGets, SetAssigns, SetCombines DEF B!Next

LEMMA SetsAreMade ==
  ASSUME B!Init
  PROVE  \E n \in Nat : n <= SetRoom /\ set = B!NewSet(n)
<1>1. PICK n \in Sizes : set = B!NewSet(n)
  BY DEF B!Init
<1>2. Sizes \subseteq 0 .. WordBits * 2 ^ WordsDepth
  BY SequencesAssumption
<1>3. n \in 0 .. SetRoom
  BY <1>1, <1>2 DEF SetRoom
<1>4. n \in Nat /\ n <= SetRoom
  BY <1>3
<1> QED BY <1>1, <1>4

LEMMA SetInvariant == EachSpec => []SetIsMasked
<1>1. EachInit => SetIsMasked
  <2> SUFFICES ASSUME B!Init PROVE SetIsMasked
    BY DEF EachInit
  <2> QED BY SetsAreMade, NewSetGood DEF SetIsMasked
<1>2. SetIsMasked /\ [EachNext]_all => SetIsMasked'
  <2> SUFFICES ASSUME SetIsMasked, [EachNext]_all PROVE SetIsMasked'
    OBVIOUS
  <2>1. CASE BitsetNext
    BY <2>1, SetStep DEF BitsetNext, SetStepIs, SetIsMasked
  <2>2. CASE UNCHANGED setVars
    BY <2>2 DEF setVars, SetIsMasked
  <2> QED BY <2>1, <2>2, OnlyOneIsUsed
<1> QED BY <1>1, <1>2, PTL DEF EachSpec

(* The words of the set are one sequence of bits of fixed length, whatever *)
(* was assigned and combined before.                                       *)
THEOREM BitsetIsASequence == EachSpec => B!ImplementsBits
<1>1. EachInit => B!BitsPromised!BitInit
  <2> SUFFICES ASSUME B!Init PROVE B!BitsPromised!BitInit
    BY DEF EachInit
  <2>0. PICK s : s = set
    OBVIOUS
  <2>1. PICK n \in Nat : n <= SetRoom /\ s = set /\ s = B!NewSet(n)
    BY <2>0, SetsAreMade
  <2>2. SetGood(s) /\ s.len = n /\ \A j \in Nat : j < n => ~ BitAt(s.words, j)
    BY <2>1, NewSetGood
  <2>3. ASSUME NEW i \in DOMAIN B!Bits PROVE ~ B!Bits[i]
    <3>1. B!Bits = SetBits(s) /\ Len(SetBits(s)) = n /\ SetBits(s) \in Seq(BOOLEAN)
          /\ \A j \in Nat : j < n => SetBits(s)[j + 1] = BitAt(s.words, j)
      BY <2>1, <2>2, SetMirrors, SetBitsAre
    <3>2. PICK j \in Nat : j + 1 = i /\ j < n
      <4>1. i \in 1 .. n
        BY <2>3, <3>1
      <4>2. i - 1 \in Nat /\ (i - 1) + 1 = i /\ i - 1 < n
        BY <4>1
      <4> QED BY <4>2
    <3> QED BY <2>2, <3>1, <3>2
  <2> QED BY <2>3 DEF B!Init, B!BitsPromised!BitInit
<1>2. SetIsMasked /\ [EachNext]_all => [B!BitsPromised!BitNext]_<<B!Bits, <<"None">>, bobs>>
  <2> SUFFICES ASSUME SetIsMasked, [EachNext]_all
               PROVE  B!BitsPromised!BitNext \/ UNCHANGED <<B!Bits, <<"None">>, bobs>>
    OBVIOUS
  <2>1. CASE BitsetNext
    BY <2>1, SetStep DEF BitsetNext, SetStepIs
  <2>2. CASE UNCHANGED setVars
    <3>1. set' = set /\ bobs' = bobs
      BY <2>2 DEF setVars
    <3>2. B!Bits' = B!Bits
      BY <3>1, SetMirrors DEF SetIsMasked
    <3> QED BY <3>1, <3>2
  <2> QED BY <2>1, <2>2, OnlyOneIsUsed
<1> QED BY <1>1, <1>2, SetInvariant, PTL
        DEF EachSpec, B!ImplementsBits, B!BitsPromised!BitSpec, B!BitsPromised!vars

(* What is stored beyond the length of a list of bits or the size of a set *)
(* of bits is zero, whatever is pushed, popped, assigned and combined      *)
(* (push_in, pop_bit, zip_go).                                             *)
THEOREM TailsAreZero == EachSpec => []BitsAreMasked
<1>1. ListIsMasked /\ SetIsMasked => BitsAreMasked
  <2> SUFFICES ASSUME ListIsMasked, SetIsMasked PROVE BitsAreMasked
    OBVIOUS
  <2>1. PICK s, n, len, f : s = set /\ n = 2 ^ s.depth /\ len = s.len /\ f = s.words
    OBVIOUS
  <2>2. Masked(f, n, len)
    BY <2>1 DEF SetIsMasked, SetGood
  <2>3. \A p \in DOMAIN f : \A k \in f[p] : p * WordBits + k < len
    <3>1. DOMAIN f = 0 .. n - 1
      BY <2>2 DEF Masked
    <3> QED BY <2>2, <3>1, MaskedWords
  <2>4. B!TailIsZero
    BY <2>1, <2>3 DEF B!TailIsZero
  <2> QED BY <2>4, ListTailIsZero DEF BitsAreMasked
<1> QED BY <1>1, ListInvariant, SetInvariant, PTL

(* Every container is the sequence it promises, whichever is used: its     *)
(* deque, queue, stack, arrays and bits answer what the plain sequence     *)
(* would (push_front, pop_fin, push_full, reserve, push_in, combine).      *)
THEOREM ContainersAreSequences == EachSpec => EachImplementsSequence
  BY DequeIsASequence, QueueIsASequence, StackIsASequence, CopiedArrayIsAVector,
     OwnedArrayIsAVector, BitlistIsASequence, BitsetIsASequence, PTL
     DEF EachImplementsSequence
=============================================================================
