-------------------------- MODULE ProbeTable_proofs --------------------------
(***************************************************************************)
(* Proofs about the bucket table of ProbeTable, which the hash map and the *)
(* LRU cache share: probing round the end of the table, placing a pair,    *)
(* growing and backward-shift deletion.                                    *)
(***************************************************************************)
EXTENDS ProbeTable, Foundations

-----------------------------------------------------------------------------
(* Going round the table.                                                  *)

LEMMA RoundOnce ==
  ASSUME NEW m \in Nat \ {0}, NEW a \in 0 .. 2 * m - 1
  PROVE  a % m = IF a < m THEN a ELSE a - m
<1>1. CASE a < m
  BY <1>1
<1>2. CASE ~ (a < m)
  <2>1. PICK b \in 0 .. m - 1 : a = b + m
    BY <1>2
  <2>2. (b + m) % m = b
    BY <2>1
  <2> QED BY <2>1, <2>2, <1>2
<1> QED BY <1>1, <1>2

LEMMA Distances ==
  ASSUME NEW mask \in Nat, NEW i \in 0 .. mask, NEW k \in 0 .. mask
  PROVE  Distance(i, k, mask) = IF i <= k THEN k - i ELSE k - i + mask + 1
<1> DEFINE a == k + (mask + 1) - i
<1>1. a \in 0 .. 2 * (mask + 1) - 1 /\ mask + 1 \in Nat \ {0}
  OBVIOUS
<1>2. a < mask + 1 <=> ~ (i <= k)
  OBVIOUS
<1>3. a % (mask + 1) = IF a < mask + 1 THEN a ELSE a - (mask + 1)
  <2>1. PICK b, m : b = a /\ m = mask + 1
    OBVIOUS
  <2>2. b \in 0 .. 2 * m - 1 /\ m \in Nat \ {0}
    BY <2>1, <1>1
  <2> HIDE DEF a
  <2>3. b % m = IF b < m THEN b ELSE b - m
    BY <2>2, RoundOnce
  <2> QED BY <2>1, <2>3
<1> QED BY <1>2, <1>3 DEF Distance

LEMMA Positions ==
  ASSUME NEW mask \in Nat, NEW i \in 0 .. mask, NEW d \in 0 .. mask
  PROVE  (i + d) % (mask + 1) = IF i + d <= mask THEN i + d ELSE i + d - (mask + 1)
<1>1. i + d \in 0 .. 2 * (mask + 1) - 1 /\ mask + 1 \in Nat \ {0}
  OBVIOUS
<1>2. PICK b, m : b = i + d /\ m = mask + 1
  OBVIOUS
<1>3. b \in 0 .. 2 * m - 1 /\ m \in Nat \ {0}
  BY <1>1, <1>2
<1>4. b % m = IF b < m THEN b ELSE b - m
  BY <1>3, RoundOnce
<1> QED BY <1>2, <1>4

(* The bucket at a distance is at that distance.                           *)
LEMMA PositionAtDistance ==
  ASSUME NEW mask \in Nat, NEW i \in 0 .. mask
  PROVE  /\ \A k \in 0 .. mask : /\ Distance(i, k, mask) \in 0 .. mask
                                 /\ (i + Distance(i, k, mask)) % (mask + 1) = k
         /\ \A d \in 0 .. mask : /\ (i + d) % (mask + 1) \in 0 .. mask
                                 /\ Distance(i, (i + d) % (mask + 1), mask) = d
<1>1. ASSUME NEW k \in 0 .. mask
      PROVE  /\ Distance(i, k, mask) \in 0 .. mask
             /\ (i + Distance(i, k, mask)) % (mask + 1) = k
  <2>1. PICK d : d = Distance(i, k, mask)
    OBVIOUS
  <2>2. d = IF i <= k THEN k - i ELSE k - i + mask + 1
    BY <2>1, Distances
  <2>3. d \in 0 .. mask
    BY <2>2
  <2>4. (i + d) % (mask + 1) = k
    <3>1. (i + d) % (mask + 1) = IF i + d <= mask THEN i + d ELSE i + d - (mask + 1)
      BY <2>3, Positions
    <3> QED BY <3>1, <2>2
  <2> QED BY <2>1, <2>3, <2>4
<1>2. ASSUME NEW d \in 0 .. mask
      PROVE  /\ (i + d) % (mask + 1) \in 0 .. mask
             /\ Distance(i, (i + d) % (mask + 1), mask) = d
  <2>1. PICK k : k = (i + d) % (mask + 1)
    OBVIOUS
  <2>2. k = IF i + d <= mask THEN i + d ELSE i + d - (mask + 1)
    BY <2>1, Positions
  <2>3. k \in 0 .. mask
    BY <2>2
  <2>4. Distance(i, k, mask) = d
    BY <2>2, <2>3, Distances
  <2> QED BY <2>1, <2>3, <2>4
<1> QED BY <1>1, <1>2

LEMMA HomeIsABucket ==
  ASSUME NEW mask \in Nat, NEW w \in Word
  PROVE  Home(w, mask) \in 0 .. mask
<1>1. PICK f \in Nat, m \in Nat \ {0} : f = Fold[w] /\ m = mask + 1
  BY ProbeTableAssumption
<1>2. f % m \in 0 .. m - 1
  OBVIOUS
<1> QED BY <1>1, <1>2 DEF Home

(* A probe ends at the bucket it reaches first.                            *)
LEMMA FirstIsReached ==
  ASSUME NEW mask \in Nat, NEW i \in 0 .. mask, NEW S, NEW k \in 0 .. mask, k \in S
  PROVE  /\ FirstOf(S, i, mask) \in S /\ FirstOf(S, i, mask) \in 0 .. mask
         /\ Distance(i, FirstOf(S, i, mask), mask) <= Distance(i, k, mask)
<1> DEFINE at(d) == (i + d) % (mask + 1)
           T == {d \in 0 .. mask : at(d) \in S}
           P(d) == at(d) \in S /\ \A e \in 0 .. d - 1 : at(e) \notin S
           d0 == CHOOSE d \in 0 .. mask : P(d)
<1>1. Distance(i, k, mask) \in T
  BY PositionAtDistance
<1>2. PICK d \in T : \A e \in T : d <= e
  <2> HIDE DEF at
  <2>1. T \subseteq Nat /\ T # {}
    BY <1>1
  <2> HIDE DEF T
  <2> QED BY <2>1, LeastNumber
<1>3. d0 \in 0 .. mask /\ P(d0)
  <2> HIDE DEF at
  <2>1. d \in 0 .. mask /\ at(d) \in S
    OBVIOUS
  <2>2. \A e \in 0 .. d - 1 : at(e) \notin S
    BY <1>2
  <2>3. \E e \in 0 .. mask : P(e)
    BY <2>1, <2>2
  <2> HIDE DEF P
  <2> QED BY <2>3
<1>4. FirstOf(S, i, mask) = at(d0)
  BY DEF FirstOf
<1> HIDE DEF d0
<1>5. at(d0) \in S /\ at(d0) \in 0 .. mask /\ Distance(i, at(d0), mask) = d0
  BY <1>3, PositionAtDistance
<1>6. d0 <= Distance(i, k, mask)
  <2>1. PICK e \in 0 .. mask : e = Distance(i, k, mask) /\ at(e) = k
    BY PositionAtDistance
  <2> HIDE DEF at
  <2>2. ~ (e \in 0 .. d0 - 1)
    BY <2>1, <1>3
  <2> QED BY <2>1, <2>2, <1>3
<1> QED BY <1>4, <1>5, <1>6

LEMMA SameDistance ==
  ASSUME NEW mask \in Nat, NEW i \in 0 .. mask, NEW k \in 0 .. mask, NEW j \in 0 .. mask,
         Distance(i, k, mask) = Distance(i, j, mask)
  PROVE  k = j
<1>1. Distance(i, k, mask) = IF i <= k THEN k - i ELSE k - i + mask + 1
  BY Distances
<1>2. Distance(i, j, mask) = IF i <= j THEN j - i ELSE j - i + mask + 1
  BY Distances
<1>3. PICK d \in Int : d = Distance(i, k, mask)
  BY <1>1
<1>4. d = IF i <= k THEN k - i ELSE k - i + mask + 1
  BY <1>1, <1>3
<1>5. d = IF i <= j THEN j - i ELSE j - i + mask + 1
  BY <1>2, <1>3
<1> QED BY <1>4, <1>5

(* The ways from a over b to c and from a to c differ by one round at most.*)
LEMMA Around ==
  ASSUME NEW mask \in Nat, NEW a \in 0 .. mask, NEW b \in 0 .. mask, NEW c \in 0 .. mask
  PROVE  /\ Distance(a, b, mask) \in 0 .. mask /\ Distance(b, c, mask) \in 0 .. mask
         /\ Distance(a, c, mask) \in 0 .. mask
         /\ Distance(a, b, mask) + Distance(b, c, mask) =
              IF Distance(a, b, mask) <= Distance(a, c, mask) THEN Distance(a, c, mask)
              ELSE Distance(a, c, mask) + mask + 1
         /\ Distance(a, b, mask) = 0 <=> a = b
<1>1. PICK ab : ab = Distance(a, b, mask)
  OBVIOUS
<1>2. PICK bc : bc = Distance(b, c, mask)
  OBVIOUS
<1>3. PICK ac : ac = Distance(a, c, mask)
  OBVIOUS
<1>4. ab = IF a <= b THEN b - a ELSE b - a + mask + 1
  BY <1>1, Distances
<1>5. bc = IF b <= c THEN c - b ELSE c - b + mask + 1
  BY <1>2, Distances
<1>6. ac = IF a <= c THEN c - a ELSE c - a + mask + 1
  BY <1>3, Distances
<1>7. /\ ab \in 0 .. mask /\ bc \in 0 .. mask /\ ac \in 0 .. mask
      /\ ab + bc = IF ab <= ac THEN ac ELSE ac + mask + 1
      /\ ab = 0 <=> a = b
  BY <1>4, <1>5, <1>6
<1> QED BY <1>1, <1>2, <1>3, <1>7

-----------------------------------------------------------------------------
(* Tables.                                                                 *)

LEMMA Words == Word \subseteq Nat \ {0}
  BY ProbeTableAssumption DEF Word

Pair == [w : Word \cup {0}, l : Nat]

Full(tab) == DOMAIN tab \ Vacant(tab)

Pairs(tab) == {tab[i] : i \in Full(tab)}

\* A table whose pairs have links of their own and are reached by their probes.
Table(tab, mask) ==
  /\ mask \in Nat
  /\ tab \in [Buckets(mask) -> Pair]
  /\ \A i \in Buckets(mask) : tab[i].w = 0 <=> tab[i].l = Nil
  /\ \A i, j \in Full(tab) : tab[i].l = tab[j].l => i = j
  /\ ProbesReach(tab, mask)

LEMMA TableFacts ==
  ASSUME NEW mask, NEW tab, Table(tab, mask)
  PROVE  /\ DOMAIN tab = 0 .. mask /\ mask \in Nat
         /\ \A i \in 0 .. mask : tab[i] = Bucket(tab[i].w, tab[i].l)
         /\ \A i \in 0 .. mask : i \in Full(tab) <=> tab[i].w # 0
         /\ \A i \in 0 .. mask : i \in Vacant(tab) <=> tab[i].w = 0
         /\ \A i \in 0 .. mask : i \in Vacant(tab) <=> tab[i].l = Nil
         /\ \A i \in Full(tab) : /\ tab[i].w \in Word /\ tab[i].l \in Nat \ {0}
                                 /\ Home(tab[i].w, mask) \in 0 .. mask
         /\ Full(tab) \cup Vacant(tab) = 0 .. mask /\ Full(tab) \cap Vacant(tab) = {}
<1>1. DOMAIN tab = 0 .. mask /\ mask \in Nat
  BY DEF Table, Buckets
<1>2. \A i \in 0 .. mask : tab[i] \in Pair
  BY DEF Table, Buckets
<1>3. \A i \in 0 .. mask : tab[i] = Bucket(tab[i].w, tab[i].l)
  BY <1>2 DEF Pair, Bucket
<1>4. \A i \in 0 .. mask : i \in Full(tab) <=> tab[i].w # 0
  BY <1>1 DEF Full, Vacant
<1>5. \A i \in 0 .. mask : i \in Vacant(tab) <=> tab[i].w = 0
  BY <1>1 DEF Vacant
<1>6. \A i \in 0 .. mask : tab[i].w = 0 <=> tab[i].l = Nil
  BY DEF Table, Buckets
<1>7. \A i \in 0 .. mask : tab[i].w # 0 => tab[i].w \in Word /\ tab[i].l \in Nat \ {0}
  BY <1>2, <1>6 DEF Pair, Nil
<1>8. \A i \in Full(tab) : /\ tab[i].w \in Word /\ tab[i].l \in Nat \ {0}
                           /\ Home(tab[i].w, mask) \in 0 .. mask
  <2>1. \A i \in Full(tab) : i \in 0 .. mask
    BY <1>1 DEF Full
  <2> QED BY <2>1, <1>1, <1>4, <1>7, HomeIsABucket
<1>9. Full(tab) \cup Vacant(tab) = 0 .. mask /\ Full(tab) \cap Vacant(tab) = {}
  BY <1>1 DEF Full, Vacant
<1> QED BY <1>1, <1>3, <1>4, <1>5, <1>6, <1>8, <1>9

(* What it takes to be a table, pair by pair.                              *)
LEMMA TableFrom ==
  ASSUME NEW mask \in Nat, NEW tab, DOMAIN tab = 0 .. mask,
         tab = [i \in 0 .. mask |-> tab[i]],
         \A i \in 0 .. mask : \/ tab[i] = Vacancy
                              \/ \E w \in Word, l \in Nat \ {0} : tab[i] = Bucket(w, l),
         \A i, j \in Full(tab) : tab[i].l = tab[j].l => i = j,
         \A i \in Full(tab), v \in Vacant(tab) :
           LET home == Home(tab[i].w, mask)
           IN Distance(home, i, mask) < Distance(home, v, mask)
  PROVE  Table(tab, mask)
<1>1. \A i \in 0 .. mask : tab[i] \in Pair /\ (tab[i].w = 0 <=> tab[i].l = Nil)
  BY Words DEF Vacancy, Bucket, Pair, Nil
<1>2. tab \in [0 .. mask -> Pair]
  BY <1>1
<1> QED BY <1>1, <1>2 DEF Table, Buckets, ProbesReach, Full

LEMMA NewTableIsTable ==
  ASSUME NEW mask \in Nat
  PROVE  Table(NewTable(mask), mask) /\ Full(NewTable(mask)) = {}
<1> DEFINE tab == NewTable(mask)
<1>1. tab = [i \in 0 .. mask |-> Vacancy]
  BY DEF NewTable, Buckets
<1>2. Vacant(tab) = 0 .. mask
  BY <1>1 DEF Vacant, Vacancy, Bucket
<1>3. Full(tab) = {}
  BY <1>1, <1>2 DEF Full
<1> HIDE DEF tab
<1>4. tab = [i \in 0 .. mask |-> tab[i]] /\ DOMAIN tab = 0 .. mask
      /\ \A i \in 0 .. mask : tab[i] = Vacancy
  BY <1>1
<1>5. Table(tab, mask)
  BY <1>3, <1>4, TableFrom
<1> QED BY <1>3, <1>5 DEF tab

-----------------------------------------------------------------------------
(* Placing a pair.                                                         *)

LEMMA InsRawWorks ==
  ASSUME NEW mask, NEW tab, Table(tab, mask), Vacant(tab) # {},
         NEW w \in Word, NEW l \in Nat \ {0}, \A b \in Pairs(tab) : b.l # l
  PROVE  LET a == FirstOf(Vacant(tab), Home(w, mask), mask)
             new == InsRaw(tab, mask, w, l)
         IN /\ Table(new, mask)
            /\ a \in Vacant(tab) /\ new[a] = Bucket(w, l)
            /\ \A i \in 0 .. mask : i # a => new[i] = tab[i]
            /\ Full(new) = Full(tab) \cup {a}
            /\ Pairs(new) = Pairs(tab) \cup {Bucket(w, l)}
<1> DEFINE home == Home(w, mask)
           a == FirstOf(Vacant(tab), home, mask)
           new == InsRaw(tab, mask, w, l)
<1>1. /\ DOMAIN tab = 0 .. mask /\ mask \in Nat
      /\ Full(tab) \cup Vacant(tab) = 0 .. mask /\ Full(tab) \cap Vacant(tab) = {}
  BY TableFacts
<1>2. home \in 0 .. mask
  BY <1>1, HomeIsABucket
<1>3. \A v \in Vacant(tab) : v \in 0 .. mask
  BY <1>1
<1>4. /\ a \in Vacant(tab) /\ a \in 0 .. mask
      /\ \A v \in Vacant(tab) : Distance(home, a, mask) <= Distance(home, v, mask)
  <2> HIDE DEF home
  <2>1. PICK v \in Vacant(tab) : v \in 0 .. mask
    BY <1>3
  <2> QED BY <2>1, <1>1, <1>2, <1>3, FirstIsReached
<1> HIDE DEF a, home
<1>5. new = [tab EXCEPT ![a] = Bucket(w, l)]
  BY DEF InsRaw, PutBucket, a, home
<1> HIDE DEF new
<1>6. /\ DOMAIN new = 0 .. mask /\ new[a] = Bucket(w, l)
      /\ \A i \in 0 .. mask : i # a => new[i] = tab[i]
      /\ new = [i \in 0 .. mask |-> new[i]]
  <2>1. tab = [i \in 0 .. mask |-> tab[i]]
    BY DEF Table, Buckets
  <2> QED BY <2>1, <1>1, <1>4, <1>5
<1>7. new[a].w = w /\ new[a].l = l /\ w # 0
  BY <1>6, Words DEF Bucket
<1>8. Vacant(new) = Vacant(tab) \ {a}
  BY <1>1, <1>6, <1>7 DEF Vacant
<1>9. Full(new) = Full(tab) \cup {a}
  BY <1>1, <1>4, <1>6, <1>8 DEF Full
<1>10. \A i \in Full(tab) : new[i] = tab[i] /\ i # a
  BY <1>1, <1>4, <1>6
<1>11. Pairs(new) = Pairs(tab) \cup {Bucket(w, l)}
  <2>1. Pairs(new) = {new[i] : i \in Full(tab)} \cup {new[a]}
    BY <1>9 DEF Pairs
  <2>2. {new[i] : i \in Full(tab)} = {tab[i] : i \in Full(tab)}
    BY <1>10
  <2> QED BY <2>1, <2>2, <1>6 DEF Pairs
<1>12. ASSUME NEW i \in 0 .. mask
       PROVE  new[i] = Vacancy \/ \E x \in Word, k \in Nat \ {0} : new[i] = Bucket(x, k)
  <2>1. CASE i = a
    BY <2>1, <1>6
  <2>2. CASE i # a /\ i \in Full(tab)
    BY <2>2, <1>6, TableFacts
  <2>3. CASE i # a /\ i \in Vacant(tab)
    <3>1. tab[i].w = 0 /\ tab[i].l = Nil /\ tab[i] = Bucket(tab[i].w, tab[i].l)
      BY <2>3, TableFacts
    <3> QED BY <2>3, <3>1, <1>6 DEF Vacancy
  <2> QED BY <2>1, <2>2, <2>3, <1>1
<1>13. ASSUME NEW i \in Full(new), NEW j \in Full(new), new[i].l = new[j].l PROVE i = j
  <2>1. \A k \in Full(tab) : tab[k].l # l
    BY DEF Pairs
  <2>2. CASE i \in Full(tab) /\ j \in Full(tab)
    BY <2>2, <1>10, <1>13 DEF Table
  <2>3. CASE i = a /\ j \in Full(tab)
    BY <2>1, <2>3, <1>7, <1>10, <1>13
  <2>4. CASE i \in Full(tab) /\ j = a
    BY <2>1, <2>4, <1>7, <1>10, <1>13
  <2> QED BY <2>2, <2>3, <2>4, <1>9
<1>14. ASSUME NEW i \in Full(new), NEW v \in Vacant(new)
       PROVE  Distance(Home(new[i].w, mask), i, mask) < Distance(Home(new[i].w, mask), v, mask)
  <2>1. v \in Vacant(tab) /\ v # a
    BY <1>8
  <2>2. CASE i = a
    <3>1. Distance(home, a, mask) <= Distance(home, v, mask)
      BY <2>1, <1>4
    <3>2. Distance(home, a, mask) # Distance(home, v, mask)
      BY <2>1, <1>1, <1>2, <1>3, <1>4, SameDistance DEF home
    <3>3. Distance(home, a, mask) \in 0 .. mask /\ Distance(home, v, mask) \in 0 .. mask
      BY <2>1, <1>1, <1>2, <1>3, <1>4, PositionAtDistance DEF home
    <3>4. PICK p \in Int, q \in Int :
            p = Distance(home, a, mask) /\ q = Distance(home, v, mask)
      BY <3>3
    <3>5. p < q
      BY <3>1, <3>2, <3>4
    <3> QED BY <2>2, <3>4, <3>5, <1>7 DEF home
  <2>3. CASE i \in Full(tab)
    <3>1. new[i] = tab[i] /\ i \in Buckets(mask) \ Vacant(tab)
      BY <2>3, <1>1, <1>10 DEF Buckets
    <3> QED BY <2>1, <3>1 DEF Table, ProbesReach
  <2> QED BY <2>2, <2>3, <1>9
<1>15. Table(new, mask)
  BY <1>1, <1>6, <1>12, <1>13, <1>14, TableFrom
<1> QED BY <1>4, <1>6, <1>9, <1>11, <1>15 DEF new, a, home

-----------------------------------------------------------------------------
(* Growth.                                                                 *)

(* Buckets that are full are finitely many; fewer than there are leave one *)
(* vacant.                                                                 *)
LEMMA FullIsFinite ==
  ASSUME NEW mask, NEW tab, Table(tab, mask)
  PROVE  /\ IsFiniteSet(Full(tab)) /\ Cardinality(Full(tab)) \in Nat
         /\ Cardinality(Full(tab)) < mask + 1 => Vacant(tab) # {}
<1>1. /\ mask \in Nat /\ Full(tab) \cup Vacant(tab) = 0 .. mask
  BY TableFacts
<1>2. IsFiniteSet(0 .. mask) /\ Cardinality(0 .. mask) = mask + 1
  <2>1. IsFiniteSet(0 .. mask)
    BY <1>1, FS_Interval
  <2>2. Cardinality(0 .. mask) = IF 0 > mask THEN 0 ELSE mask - 0 + 1
    BY <1>1, FS_Interval
  <2> QED BY <2>1, <2>2, <1>1
<1>3. IsFiniteSet(Full(tab))
  BY <1>1, <1>2, FS_Subset
<1>4. Cardinality(Full(tab)) \in Nat
  BY <1>3, FS_CardinalityType
<1>5. Vacant(tab) = {} => Full(tab) = 0 .. mask
  BY <1>1
<1>6. Cardinality(Full(tab)) < mask + 1 => Vacant(tab) # {}
  BY <1>1, <1>2, <1>4, <1>5
<1> QED BY <1>3, <1>4, <1>6

(* The doubled table holds the pairs of the old one and has room.          *)
LEMMA GrowTabWorks ==
  ASSUME NEW mask, NEW tab, Table(tab, mask)
  PROVE  LET new == GrowTab(tab, mask)
         IN /\ Table(new, GrownMask(mask))
            /\ Pairs(new) = Pairs(tab) /\ Vacant(new) # {}
<1> DEFINE m == mask + 1
           big == GrownMask(mask)
           Put(k, t) == InsRaw(t, big, tab[k].w, tab[k].l)
           Step(k, t) == IF tab[k].w = 0 THEN t ELSE Put(k, t)
           Seen(k) == {i \in Full(tab) : i < k}
           Good(k, t) == /\ Table(t, big) /\ Pairs(t) = {tab[i] : i \in Seen(k)}
                         /\ Cardinality(Full(t)) <= k
           All == [0 .. big -> Pair]
           step == [kt \in (0 .. m - 1) \X All |->
                      IF Good(kt[1], kt[2]) THEN Step(kt[1], kt[2]) ELSE NewTable(big)]
           Eq(f) == f = [k \in 0 .. m |-> IF k = 0 THEN NewTable(big)
                                          ELSE Step(k - 1, f[k - 1])]
           moved == CHOOSE f : Eq(f)
<1>1. /\ DOMAIN tab = 0 .. mask /\ mask \in Nat /\ m \in Nat
      /\ big = 2 * mask + 1 /\ big \in Nat
  BY TableFacts DEF GrownMask
<1> HIDE DEF big
<1>2. Good(0, NewTable(big))
  <2>1. Table(NewTable(big), big) /\ Full(NewTable(big)) = {}
    BY <1>1, NewTableIsTable
  <2>2. Cardinality(Full(NewTable(big))) = 0
    BY <2>1, FS_EmptySet
  <2>3. Seen(0) = {}
    BY <1>1 DEF Full
  <2> QED BY <2>1, <2>2, <2>3 DEF Pairs
<1>3. ASSUME NEW k \in 0 .. m - 1, NEW t, Good(k, t) PROVE Good(k + 1, Step(k, t))
  <2>1. k \in 0 .. mask /\ k \in Nat
    BY <1>1
  <2>2. Cardinality(Full(t)) \in Nat /\ Vacant(t) # {} /\ IsFiniteSet(Full(t))
    <3>1. Cardinality(Full(t)) \in Nat /\ IsFiniteSet(Full(t))
      BY <1>3, FullIsFinite
    <3>2. Cardinality(Full(t)) < big + 1
      BY <3>1, <2>1, <1>1, <1>3
    <3> QED BY <3>1, <3>2, <1>3, FullIsFinite
  <2>3. CASE tab[k].w = 0
    <3>1. k \notin Full(tab)
      BY <2>1, <2>3, TableFacts
    <3>2. Seen(k + 1) = Seen(k)
      BY <3>1, <2>1, <1>1 DEF Full
    <3>3. Step(k, t) = t
      BY <2>3
    <3>4. Cardinality(Full(t)) <= k + 1
      BY <2>1, <2>2, <1>3
    <3> QED BY <3>2, <3>3, <3>4, <1>3
  <2>4. CASE tab[k].w # 0
    <3> DEFINE w == tab[k].w
               l == tab[k].l
               a == FirstOf(Vacant(t), Home(w, big), big)
    <3>1. k \in Full(tab) /\ w \in Word /\ l \in Nat \ {0} /\ tab[k] = Bucket(w, l)
      BY <2>1, <2>4, TableFacts
    <3>2. \A b \in Pairs(t) : b.l # l
      <4>1. ASSUME NEW i \in Seen(k) PROVE tab[i].l # l
        <5>1. i \in Full(tab) /\ i # k
          BY <2>1
        <5> QED BY <5>1, <3>1 DEF Table
      <4> QED BY <4>1, <1>3
    <3>3. Step(k, t) = InsRaw(t, big, w, l)
      BY <2>4
    <3> HIDE DEF w, l, Step
    <3>4. /\ Table(Step(k, t), big) /\ a \in Vacant(t)
          /\ Full(Step(k, t)) = Full(t) \cup {a}
          /\ Pairs(Step(k, t)) = Pairs(t) \cup {Bucket(w, l)}
      BY <3>1, <3>2, <3>3, <2>2, <1>3, InsRawWorks
    <3> HIDE DEF a
    <3>5. Seen(k + 1) = Seen(k) \cup {k}
      BY <3>1, <2>1, <1>1 DEF Full
    <3>6. Pairs(Step(k, t)) = {tab[i] : i \in Seen(k + 1)}
      <4>1. {tab[i] : i \in Seen(k) \cup {k}} = {tab[i] : i \in Seen(k)} \cup {tab[k]}
        OBVIOUS
      <4>2. Pairs(t) = {tab[i] : i \in Seen(k)}
        BY <1>3
      <4> HIDE DEF Seen
      <4> QED BY <4>1, <4>2, <3>1, <3>4, <3>5
    <3>7. Cardinality(Full(Step(k, t))) <= k + 1
      <4>1. a \notin Full(t)
        BY <3>4 DEF Full
      <4>2. Cardinality(Full(t) \cup {a}) = Cardinality(Full(t)) + 1
        BY <4>1, <2>2, FS_AddElement
      <4> QED BY <4>2, <3>4, <2>1, <2>2, <1>3
    <3> QED BY <3>4, <3>6, <3>7
  <2> QED BY <2>3, <2>4
<1>4. \A k, t : Good(k, t) => t \in All
  BY DEF Table, Buckets
<1>5. ASSUME NEW k \in 0 .. m - 1, NEW t \in All
      PROVE  step[<<k, t>>] = IF Good(k, t) THEN Step(k, t) ELSE NewTable(big)
  OBVIOUS
<1> HIDE DEF Step, Good, All
<1>6. step \in [(0 .. m - 1) \X All -> All]
  <2>1. ASSUME NEW k \in 0 .. m - 1, NEW t \in All
        PROVE  (IF Good(k, t) THEN Step(k, t) ELSE NewTable(big)) \in All
    BY <1>2, <1>3, <1>4
  <2> QED BY <2>1
<1> HIDE DEF step, m
<1>7. PICK f : Runs(m, All, NewTable(big), step, f)
  <2>1. NewTable(big) \in All
    BY <1>2, <1>4
  <2> QED BY <2>1, <1>1, <1>6, RunExists
<1>8. f \in [0 .. m -> All] /\ f[0] = NewTable(big)
  BY <1>7 DEF Runs
<1>9. \A k \in 0 .. m - 1 : f[k + 1] = step[<<k, f[k]>>]
  BY <1>7 DEF Runs
<1>10. \A k \in 0 .. m : Good(k, f[k])
  <2> DEFINE S == {k \in 0 .. m : Good(k, f[k])}
  <2>1. 0 \in S
    BY <1>1, <1>2, <1>8
  <2>2. ASSUME NEW k \in 0 .. m - 1, k \in S PROVE k + 1 \in S
    <3>1. PICK t \in All : t = f[k] /\ Good(k, t)
      BY <2>2, <1>4
    <3>2. f[k + 1] = Step(k, t)
      BY <3>1, <1>5, <1>9
    <3>3. Good(k + 1, f[k + 1])
      BY <3>1, <3>2, <1>3
    <3>4. k + 1 \in 0 .. m
      BY <1>1
    <3> QED BY <3>3, <3>4
  <2> HIDE DEF S
  <2>3. \A k \in 0 .. m : k \in S
    BY <2>1, <2>2, <1>1, BoundedInduction
  <2> QED BY <2>3 DEF S
<1>11. Eq(moved)
  <2>1. ASSUME NEW k \in 0 .. m, k # 0 PROVE f[k] = Step(k - 1, f[k - 1])
    <3>1. PICK j \in 0 .. m - 1 : k = j + 1
      BY <2>1, <1>1
    <3>2. k - 1 = j /\ j \in 0 .. m
      BY <3>1, <1>1
    <3>3. PICK t \in All : t = f[j] /\ Good(j, t)
      BY <3>2, <1>4, <1>10
    <3>4. f[k] = Step(j, t)
      BY <3>1, <3>3, <1>5, <1>9
    <3> QED BY <3>2, <3>3, <3>4
  <2>2. Eq(f)
    BY <2>1, <1>8
  <2> HIDE DEF Eq
  <2> QED BY <2>2
<1>12. GrowTab(tab, mask) = moved[m]
  BY DEF GrowTab, Step, m, big
<1> HIDE DEF moved
<1> DEFINE T == {k \in 0 .. m : Good(k, moved[k])}
<1>13. 0 \in T
  <2>1. moved[0] = NewTable(big)
    BY <1>1, <1>11
  <2> QED BY <2>1, <1>1, <1>2
<1>14. ASSUME NEW j \in 0 .. m - 1, j \in T PROVE j + 1 \in T
  <2>1. PICK k \in 0 .. m : k = j + 1
    BY <1>1
  <2>2. k # 0 /\ k - 1 = j
    BY <2>1
  <2>3. moved[k] = Step(k - 1, moved[k - 1])
    BY <1>11, <2>2
  <2>4. moved[k] = Step(j, moved[j])
    BY <2>2, <2>3
  <2>5. Good(j + 1, moved[k])
    BY <2>4, <1>3, <1>14
  <2> QED BY <2>1, <2>5
<1> HIDE DEF T
<1>15. m \in T
  <2>1. \A k \in 0 .. m : k \in T
    BY <1>1, <1>13, <1>14, BoundedInduction
  <2> QED BY <2>1, <1>1
<1> DEFINE new == GrowTab(tab, mask)
<1>16. Good(m, new)
  BY <1>12, <1>15 DEF T
<1> HIDE DEF new
<1>17. Table(new, big) /\ Pairs(new) = {tab[i] : i \in Seen(m)} /\ Cardinality(Full(new)) <= m
  BY <1>16 DEF Good
<1>18. Seen(m) = Full(tab)
  BY <1>1 DEF Full, m
<1>19. Vacant(new) # {}
  <2>1. Cardinality(Full(new)) \in Nat
    BY <1>17, FullIsFinite
  <2>2. Cardinality(Full(new)) < big + 1
    BY <2>1, <1>1, <1>17 DEF m
  <2> QED BY <2>2, <1>17, FullIsFinite
<1> QED BY <1>17, <1>18, <1>19 DEF Pairs, new, big

-----------------------------------------------------------------------------
(* Deletion by backward shift.                                             *)

(* A pair whose probe does not go over the end of the run does not go over *)
(* a hole in the run, unless it is in the run behind the hole.             *)
LEMMA EndGuards ==
  ASSUME NEW mask \in Nat, NEW at \in 0 .. mask, NEW hole \in 0 .. mask,
         NEW end \in 0 .. mask, NEW i \in 0 .. mask, NEW home \in 0 .. mask,
         Distance(at, hole, mask) < Distance(at, end, mask),
         \/ Distance(at, i, mask) < Distance(at, hole, mask)
         \/ Distance(at, end, mask) < Distance(at, i, mask),
         Distance(home, i, mask) < Distance(home, end, mask)
  PROVE  Distance(home, i, mask) < Distance(home, hole, mask)
<1> DEFINE D(a, b) == Distance(a, b, mask)
<1>1. /\ D(at, hole) + D(hole, end) =
           IF D(at, hole) <= D(at, end) THEN D(at, end) ELSE D(at, end) + mask + 1
      /\ D(at, hole) \in 0 .. mask /\ D(hole, end) \in 0 .. mask /\ D(at, end) \in 0 .. mask
  BY Around
<1>2. /\ D(at, hole) + D(hole, i) =
           IF D(at, hole) <= D(at, i) THEN D(at, i) ELSE D(at, i) + mask + 1
      /\ D(hole, i) \in 0 .. mask /\ D(at, i) \in 0 .. mask
  BY Around
<1>3. /\ D(home, hole) + D(hole, end) =
           IF D(home, hole) <= D(home, end) THEN D(home, end) ELSE D(home, end) + mask + 1
      /\ D(home, hole) \in 0 .. mask /\ D(home, end) \in 0 .. mask
  BY Around
<1>4. /\ D(home, hole) + D(hole, i) =
           IF D(home, hole) <= D(home, i) THEN D(home, i) ELSE D(home, i) + mask + 1
      /\ D(home, i) \in 0 .. mask
  BY Around
<1>5. /\ D(at, hole) < D(at, end) /\ D(home, i) < D(home, end)
      /\ D(at, i) < D(at, hole) \/ D(at, end) < D(at, i)
  OBVIOUS
<1> HIDE DEF D
<1> SUFFICES D(home, i) < D(home, hole)
  BY DEF D
<1> QED BY <1>1, <1>2, <1>3, <1>4, <1>5

(* A pair moves back over no vacant bucket, and one that stays does not    *)
(* need the hole.                                                          *)
LEMMA MovesBackOver ==
  ASSUME NEW mask \in Nat, NEW hole \in 0 .. mask, NEW k \in 0 .. mask,
         NEW home \in 0 .. mask, hole # k
  PROVE  /\ Distance(home, k, mask) >= Distance(hole, k, mask) =>
              Distance(home, hole, mask) < Distance(home, k, mask)
         /\ ~ (Distance(home, k, mask) >= Distance(hole, k, mask)) =>
              Distance(home, k, mask) < Distance(home, hole, mask)
<1> DEFINE D(a, b) == Distance(a, b, mask)
<1>1. /\ D(home, hole) + D(hole, k) =
           IF D(home, hole) <= D(home, k) THEN D(home, k) ELSE D(home, k) + mask + 1
      /\ D(home, hole) \in 0 .. mask /\ D(hole, k) \in 0 .. mask /\ D(home, k) \in 0 .. mask
  BY Around
<1>2. D(hole, k) # 0
  BY Around
<1> HIDE DEF D
<1>3. /\ D(home, k) >= D(hole, k) => D(home, hole) < D(home, k)
      /\ ~ (D(home, k) >= D(hole, k)) => D(home, k) < D(home, hole)
  BY <1>1, <1>2
<1> QED BY <1>3 DEF D

LEMMA NextIsNearer ==
  ASSUME NEW mask \in Nat, NEW at \in 0 .. mask, NEW next \in 0 .. mask,
         NEW v \in 0 .. mask
  PROVE  Distance(at, next, mask) = 1 /\ v # at =>
           /\ Distance(at, v, mask) = Distance(next, v, mask) + 1
           /\ Distance(next, v, mask) \in 0 .. mask
<1> DEFINE D(a, b) == Distance(a, b, mask)
<1>1. D(at, next) + D(next, v) =
        IF D(at, next) <= D(at, v) THEN D(at, v) ELSE D(at, v) + mask + 1
  BY Around
<1>2. D(at, next) \in 0 .. mask /\ D(next, v) \in 0 .. mask /\ D(at, v) \in 0 .. mask
  BY Around
<1>3. D(at, v) # 0 \/ v = at
  BY Around
<1> HIDE DEF D
<1>4. D(at, next) = 1 /\ v # at => D(at, v) = D(next, v) + 1 /\ D(next, v) \in 0 .. mask
  BY <1>1, <1>2, <1>3
<1> QED BY <1>4 DEF D

(* The run behind bucket at ends with the first vacant bucket.             *)
LEMMA EndOfRun ==
  ASSUME NEW mask, NEW tab, Table(tab, mask), NEW at \in Full(tab), Vacant(tab) # {}
  PROVE  LET end == FirstOf(Vacant(tab), BNext(at, mask), mask)
         IN /\ end \in Vacant(tab) /\ end \in 0 .. mask
            /\ Distance(at, end, mask) \in 1 .. mask
            /\ \A v \in Vacant(tab) : Distance(at, end, mask) <= Distance(at, v, mask)
<1> DEFINE next == BNext(at, mask)
           end == FirstOf(Vacant(tab), next, mask)
           D(a, b) == Distance(a, b, mask)
<1>1. /\ mask \in Nat /\ at \in 0 .. mask /\ at \notin Vacant(tab)
      /\ \A v \in Vacant(tab) : v \in 0 .. mask
  BY TableFacts
<1>2. PICK v0 \in Vacant(tab) : v0 \in 0 .. mask /\ v0 # at
  BY <1>1
<1>3. 1 \in 0 .. mask
  BY <1>1, <1>2
<1>4. next \in 0 .. mask /\ D(at, next) = 1
  <2>1. (at + 1) % (mask + 1) \in 0 .. mask /\ D(at, (at + 1) % (mask + 1)) = 1
    BY <1>1, <1>3, PositionAtDistance
  <2> QED BY <2>1 DEF BNext
<1> HIDE DEF next, D
<1>5. \A v \in Vacant(tab) : D(at, v) = D(next, v) + 1 /\ D(next, v) \in 0 .. mask
  <2> SUFFICES ASSUME NEW v \in Vacant(tab)
               PROVE  D(at, v) = D(next, v) + 1 /\ D(next, v) \in 0 .. mask
    OBVIOUS
  <2>1. v \in 0 .. mask /\ v # at
    BY <1>1
  <2> QED BY <2>1, <1>1, <1>4, NextIsNearer DEF D
<1>6. end \in Vacant(tab) /\ \A v \in Vacant(tab) : D(next, end) <= D(next, v)
  BY <1>1, <1>2, <1>4, FirstIsReached DEF D
<1> HIDE DEF end
<1>7. \A v \in Vacant(tab) : D(at, end) <= D(at, v)
  BY <1>5, <1>6
<1>8. D(at, end) \in 1 .. mask
  <2>1. D(at, end) \in 0 .. mask
    BY <1>1, <1>6, Around DEF D
  <2>2. D(at, end) = D(next, end) + 1 /\ D(next, end) \in Nat
    BY <1>5, <1>6
  <2> QED BY <2>1, <2>2
<1> QED BY <1>1, <1>6, <1>7, <1>8 DEF D, end, next

\* What holds when the shift has looked at the d buckets behind at: the pairs
\* outside the hole are those of the table but for at's, and the pairs behind
\* the hole that it looked at do not need it.
Shifting(tab, mask, at, d, s) ==
  /\ s \in [tab : [0 .. mask -> Pair], hole : 0 .. mask]
  /\ s.hole \in Full(tab) /\ Distance(at, s.hole, mask) <= d
  /\ \A i \in 0 .. mask : Distance(at, s.hole, mask) < Distance(at, i, mask) =>
       s.tab[i] = tab[i]
  /\ \A v \in Vacant(tab) : s.tab[v] = tab[v]
  /\ {s.tab[i] : i \in Full(tab) \ {s.hole}} = {tab[i] : i \in Full(tab) \ {at}}
  /\ \A i, j \in Full(tab) \ {s.hole} : s.tab[i].l = s.tab[j].l => i = j
  /\ \A i \in Full(tab) \ {s.hole} :
       LET home == Home(s.tab[i].w, mask)
       IN /\ \A v \in Vacant(tab) : Distance(home, i, mask) < Distance(home, v, mask)
          /\ /\ Distance(at, s.hole, mask) < Distance(at, i, mask)
             /\ Distance(at, i, mask) <= d
             => Distance(home, i, mask) < Distance(home, s.hole, mask)

LEMMA ShiftStarts ==
  ASSUME NEW mask, NEW tab, Table(tab, mask), NEW at \in Full(tab)
  PROVE  Shifting(tab, mask, at, 0, [tab |-> tab, hole |-> at])
<1> DEFINE s == [tab |-> tab, hole |-> at]
<1>1. /\ mask \in Nat /\ at \in 0 .. mask /\ tab \in [0 .. mask -> Pair]
      /\ \A i \in Full(tab) : i \in 0 .. mask
  BY TableFacts DEF Table, Buckets
<1>2. Distance(at, at, mask) = 0 /\ \A i \in 0 .. mask : Distance(at, i, mask) \in 0 .. mask
  BY <1>1, Around
<1>3. s.tab = tab /\ s.hole = at /\ s \in [tab : [0 .. mask -> Pair], hole : 0 .. mask]
  BY <1>1
<1> HIDE DEF s
<1>4. \A i \in 0 .. mask : ~ (/\ Distance(at, at, mask) < Distance(at, i, mask)
                               /\ Distance(at, i, mask) <= 0)
  BY <1>2
<1>5. \A i \in Full(tab), v \in Vacant(tab) :
        LET home == Home(tab[i].w, mask) IN Distance(home, i, mask) < Distance(home, v, mask)
  BY DEF Table, ProbesReach, Full, Buckets
<1>6. \A i, j \in Full(tab) : tab[i].l = tab[j].l => i = j
  BY DEF Table
<1>7. Distance(at, at, mask) <= 0
  BY <1>2
<1>8. Shifting(tab, mask, at, 0, s)
  BY <1>1, <1>3, <1>4, <1>5, <1>6, <1>7 DEF Shifting
<1> QED BY <1>8 DEF s

(* One bucket further, the pair there moves into the hole or stays.        *)
LEMMA ShiftGoesOn ==
  ASSUME NEW mask, NEW tab, Table(tab, mask), NEW at \in Full(tab),
         NEW d \in Nat, d + 1 <= mask,
         \A v \in Vacant(tab) : d + 1 < Distance(at, v, mask),
         NEW s, Shifting(tab, mask, at, d, s)
  PROVE  LET k == (at + (d + 1)) % (mask + 1)
         IN Shifting(tab, mask, at, d + 1,
              IF MovesBack(tab[k].w, s.hole, k, mask)
              THEN [tab |-> [s.tab EXCEPT ![s.hole] = tab[k]], hole |-> k]
              ELSE s)
<1> DEFINE k == (at + (d + 1)) % (mask + 1)
           home == Home(tab[k].w, mask)
           t == [s.tab EXCEPT ![s.hole] = tab[k]]
           D(a, b) == Distance(a, b, mask)
<1>1. /\ mask \in Nat /\ at \in 0 .. mask /\ tab \in [0 .. mask -> Pair]
      /\ \A i \in Full(tab) : i \in 0 .. mask /\ i \notin Vacant(tab)
      /\ Full(tab) \cup Vacant(tab) = 0 .. mask
  BY TableFacts DEF Table, Buckets
<1>2. PICK e : e = d + 1
  OBVIOUS
<1>3. k \in 0 .. mask /\ D(at, k) = e
  <2>1. e \in 0 .. mask
    BY <1>1, <1>2
  <2>2. (at + e) % (mask + 1) \in 0 .. mask /\ Distance(at, (at + e) % (mask + 1), mask) = e
    BY <2>1, <1>1, PositionAtDistance
  <2> QED BY <2>2, <1>2
<1> DEFINE hole == s.hole
<1>4. /\ s.tab \in [0 .. mask -> Pair] /\ hole \in 0 .. mask /\ hole \in Full(tab)
      /\ D(at, hole) <= d /\ s = [tab |-> s.tab, hole |-> hole]
  BY DEF Shifting
<1>5. D(at, hole) \in 0 .. mask /\ \A i \in 0 .. mask : D(at, i) \in 0 .. mask
  BY <1>1, <1>4, Around
<1>6. k \in Full(tab) /\ k # hole
  <2>1. k \notin Vacant(tab)
    BY <1>2, <1>3
  <2>2. e > d
    BY <1>2
  <2> QED BY <2>1, <2>2, <1>1, <1>2, <1>3, <1>4, <1>5
<1>7. s.tab[k] = tab[k] /\ home \in 0 .. mask
  <2>1. D(at, hole) < D(at, k)
    BY <1>2, <1>3, <1>4, <1>5
  <2>2. home \in 0 .. mask
    BY <1>6, TableFacts
  <2> QED BY <2>1, <2>2, <1>3 DEF Shifting
<1>8. MovesBack(tab[k].w, hole, k, mask) <=> D(home, k) >= D(hole, k)
  BY DEF MovesBack
<1>9. /\ D(home, k) >= D(hole, k) => D(home, hole) < D(home, k)
      /\ ~ (D(home, k) >= D(hole, k)) => D(home, k) < D(home, hole)
  <2> HIDE DEF home, k, hole
  <2> QED BY <1>1, <1>3, <1>4, <1>6, <1>7, MovesBackOver
<1>10. \A v \in Vacant(tab) : D(home, k) < D(home, v)
  BY <1>6 DEF Table, ProbesReach, Full, Buckets
<1>11. \A v \in Vacant(tab) : v \in 0 .. mask /\ D(home, v) \in 0 .. mask
  <2> HIDE DEF home
  <2> QED BY <1>1, <1>7, Around
<1> HIDE DEF k, home
<1>12. CASE MovesBack(tab[k].w, hole, k, mask)
  <2> DEFINE u == [tab |-> t, hole |-> k]
  <2>1. /\ t \in [0 .. mask -> Pair] /\ t[hole] = tab[k]
        /\ \A i \in 0 .. mask : i # hole => t[i] = s.tab[i]
    BY <1>1, <1>3, <1>4
  <2> HIDE DEF t
  <2>2. u.tab = t /\ u.hole = k /\ u \in [tab : [0 .. mask -> Pair], hole : 0 .. mask]
    BY <2>1, <1>3
  <2> HIDE DEF u
  <2>3. \A i \in 0 .. mask : D(at, k) < D(at, i) => t[i] = tab[i]
    <3> SUFFICES ASSUME NEW i \in 0 .. mask, D(at, k) < D(at, i) PROVE t[i] = tab[i]
      OBVIOUS
    <3>1. D(at, hole) < D(at, i)
      BY <1>2, <1>3, <1>4, <1>5
    <3>2. i # hole /\ s.tab[i] = tab[i]
      BY <3>1, <1>5 DEF Shifting
    <3> QED BY <3>2, <2>1
  <2>4. \A v \in Vacant(tab) : t[v] = tab[v]
    <3>1. \A v \in Vacant(tab) : v # hole /\ s.tab[v] = tab[v]
      BY <1>1, <1>4 DEF Shifting
    <3> QED BY <3>1, <2>1, <1>11
  <2>5. {t[i] : i \in Full(tab) \ {k}} = {tab[i] : i \in Full(tab) \ {at}}
    <3>1. Full(tab) \ {k} = (Full(tab) \ {hole, k}) \cup {hole}
      BY <1>4, <1>6
    <3>2. Full(tab) \ {hole} = (Full(tab) \ {hole, k}) \cup {k}
      BY <1>6
    <3>3. \A i \in Full(tab) \ {hole, k} : t[i] = s.tab[i]
      BY <2>1, <1>1
    <3>4. {t[i] : i \in Full(tab) \ {k}} = {t[i] : i \in Full(tab) \ {hole, k}} \cup {t[hole]}
      BY <3>1
    <3>5. {s.tab[i] : i \in Full(tab) \ {hole}} =
            {s.tab[i] : i \in Full(tab) \ {hole, k}} \cup {s.tab[k]}
      BY <3>2
    <3>6. {t[i] : i \in Full(tab) \ {hole, k}} = {s.tab[i] : i \in Full(tab) \ {hole, k}}
      BY <3>3
    <3>7. {s.tab[i] : i \in Full(tab) \ {hole}} = {tab[i] : i \in Full(tab) \ {at}}
      BY DEF Shifting
    <3> QED BY <3>4, <3>5, <3>6, <3>7, <2>1, <1>7
  <2>6. \A i \in Full(tab) \ {k} :
          \E j \in Full(tab) \ {hole} : /\ t[i] = s.tab[j]
                                        /\ i = hole => j = k
                                        /\ i # hole => j = i
    <3> SUFFICES ASSUME NEW i \in Full(tab) \ {k}
                 PROVE  \E j \in Full(tab) \ {hole} : /\ t[i] = s.tab[j]
                                                      /\ i = hole => j = k
                                                      /\ i # hole => j = i
      OBVIOUS
    <3>1. CASE i = hole
      BY <3>1, <2>1, <1>6, <1>7
    <3>2. CASE i # hole
      BY <3>2, <2>1, <1>1
    <3> QED BY <3>1, <3>2
  <2>7. \A i, j \in Full(tab) \ {k} : t[i].l = t[j].l => i = j
    <3> SUFFICES ASSUME NEW i \in Full(tab) \ {k}, NEW j \in Full(tab) \ {k}, t[i].l = t[j].l
                 PROVE  i = j
      OBVIOUS
    <3>1. PICK p \in Full(tab) \ {hole} : t[i] = s.tab[p] /\ (i = hole => p = k) /\ (i # hole => p = i)
      BY <2>6
    <3>2. PICK q \in Full(tab) \ {hole} : t[j] = s.tab[q] /\ (j = hole => q = k) /\ (j # hole => q = j)
      BY <2>6
    <3>3. p = q
      BY <3>1, <3>2 DEF Shifting
    <3> QED BY <3>1, <3>2, <3>3
  <2>8. ASSUME NEW i \in Full(tab) \ {k}, NEW v \in Vacant(tab)
        PROVE  D(Home(t[i].w, mask), i) < D(Home(t[i].w, mask), v)
    <3>1. CASE i = hole
      <4>1. D(home, hole) < D(home, k) /\ D(home, k) < D(home, v)
        BY <1>8, <1>9, <1>10, <1>12
      <4>2. D(home, hole) \in 0 .. mask /\ D(home, k) \in 0 .. mask /\ D(home, v) \in 0 .. mask
        BY <1>1, <1>3, <1>4, <1>7, <1>11, Around
      <4>3. PICK a \in Int, b \in Int, c \in Int :
              a = D(home, hole) /\ b = D(home, k) /\ c = D(home, v)
        BY <4>2
      <4>4. a < c
        BY <4>1, <4>3
      <4> QED BY <3>1, <4>3, <4>4, <2>1 DEF home
    <3>2. CASE i # hole
      <4>1. t[i] = s.tab[i] /\ i \in Full(tab) \ {hole}
        BY <3>2, <2>1, <1>1
      <4> QED BY <4>1 DEF Shifting
    <3> QED BY <3>1, <3>2
  <2>9. \A i \in 0 .. mask : ~ (D(at, k) < D(at, i) /\ D(at, i) <= e)
    BY <1>2, <1>3, <1>5
  <2>10. D(at, k) <= e
    BY <1>2, <1>3
  <2>11. Shifting(tab, mask, at, e, u)
    <3>1. \A i \in Full(tab) \ {k} :
            LET h == Home(t[i].w, mask)
            IN /\ \A v \in Vacant(tab) : D(h, i) < D(h, v)
               /\ D(at, k) < D(at, i) /\ D(at, i) <= e => D(h, i) < D(h, k)
      BY <2>8, <2>9, <1>1
    <3> HIDE DEF D, hole
    <3>2. /\ u \in [tab : [0 .. mask -> Pair], hole : 0 .. mask]
          /\ u.hole \in Full(tab) /\ D(at, u.hole) <= e
          /\ \A i \in 0 .. mask : D(at, u.hole) < D(at, i) => u.tab[i] = tab[i]
          /\ \A v \in Vacant(tab) : u.tab[v] = tab[v]
      BY <2>2, <2>3, <2>4, <2>10, <1>6
    <3>3. /\ {u.tab[i] : i \in Full(tab) \ {u.hole}} = {tab[i] : i \in Full(tab) \ {at}}
          /\ \A i, j \in Full(tab) \ {u.hole} : u.tab[i].l = u.tab[j].l => i = j
      <4> HIDE DEF t
      <4>1. u.tab = t /\ u.hole = k
        BY <2>2
      <4>2. {u.tab[i] : i \in Full(tab) \ {u.hole}} = {t[i] : i \in Full(tab) \ {k}}
        BY <4>1
      <4>3. \A i, j \in Full(tab) \ {u.hole} : u.tab[i].l = u.tab[j].l => i = j
        BY <4>1, <2>7
      <4> QED BY <4>2, <4>3, <2>5
    <3>4. \A i \in Full(tab) \ {u.hole} :
            LET h == Home(u.tab[i].w, mask)
            IN /\ \A v \in Vacant(tab) : D(h, i) < D(h, v)
               /\ D(at, u.hole) < D(at, i) /\ D(at, i) <= e => D(h, i) < D(h, u.hole)
      BY <2>2, <3>1
    <3> QED BY <3>2, <3>3, <3>4 DEF Shifting, D
  <2> QED BY <2>11, <1>2, <1>12 DEF u, t, k
<1>13. CASE ~ MovesBack(tab[k].w, hole, k, mask)
  <2>1. ASSUME NEW i \in Full(tab) \ {hole}, D(at, hole) < D(at, i), D(at, i) <= e
        PROVE  D(Home(s.tab[i].w, mask), i) < D(Home(s.tab[i].w, mask), hole)
    <3>1. CASE i = k
      BY <3>1, <1>7, <1>8, <1>9, <1>13 DEF home
    <3>2. CASE i # k
      <4>1. D(at, i) # e
        BY <3>2, <1>1, <1>3, SameDistance
      <4>2. D(at, i) <= d
        BY <4>1, <2>1, <1>1, <1>2, <1>5
      <4> QED BY <4>2, <2>1 DEF Shifting
    <3> QED BY <3>1, <3>2
  <2>2. D(at, hole) <= e
    BY <1>2, <1>4, <1>5
  <2>3. Shifting(tab, mask, at, e, s)
    BY <2>1, <2>2 DEF Shifting
  <2> QED BY <2>3, <1>2, <1>13 DEF k
<1> QED BY <1>12, <1>13

(* The shift, taken as far as the last bucket of the run.                  *)
LEMMA ShiftEnds ==
  ASSUME NEW mask, NEW tab, Table(tab, mask), NEW at \in Full(tab), NEW e \in 0 .. mask,
         \A v \in Vacant(tab) : e < Distance(at, v, mask)
  PROVE  LET shifted[d \in 0 .. mask] ==
               IF d = 0 THEN [tab |-> tab, hole |-> at]
               ELSE LET s == shifted[d - 1]
                        k == (at + d) % (mask + 1)
                    IN IF MovesBack(tab[k].w, s.hole, k, mask)
                       THEN [tab |-> [s.tab EXCEPT ![s.hole] = tab[k]], hole |-> k]
                       ELSE s
         IN Shifting(tab, mask, at, e, shifted[e])
<1> DEFINE All == [tab : [0 .. mask -> Pair], hole : 0 .. mask]
           start == [tab |-> tab, hole |-> at]
           K(d) == (at + d) % (mask + 1)
           Step(d, s) == IF MovesBack(tab[K(d)].w, s.hole, K(d), mask)
                         THEN [tab |-> [s.tab EXCEPT ![s.hole] = tab[K(d)]], hole |-> K(d)]
                         ELSE s
           step == [ds \in (0 .. mask - 1) \X All |-> Step(ds[1] + 1, ds[2])]
           Eq(f) == f = [d \in 0 .. mask |-> IF d = 0 THEN start ELSE Step(d, f[d - 1])]
           shifted == CHOOSE f : Eq(f)
<1>1. /\ mask \in Nat /\ at \in 0 .. mask /\ tab \in [0 .. mask -> Pair]
  BY TableFacts DEF Table, Buckets
<1>2. start \in All
  BY <1>1
<1>3. \A d \in 0 .. mask : \A s \in All : Step(d, s) \in All
  <2> SUFFICES ASSUME NEW d \in 0 .. mask, NEW s \in All PROVE Step(d, s) \in All
    OBVIOUS
  <2>1. K(d) \in 0 .. mask
    BY <1>1, PositionAtDistance
  <2> HIDE DEF K
  <2>2. tab[K(d)] \in Pair /\ s.hole \in 0 .. mask /\ s.tab \in [0 .. mask -> Pair]
    BY <2>1, <1>1
  <2>3. [tab |-> [s.tab EXCEPT ![s.hole] = tab[K(d)]], hole |-> K(d)] \in All
    BY <2>1, <2>2
  <2> HIDE DEF All
  <2> QED BY <2>3
<1>4. \A d \in 0 .. mask - 1 : \A s \in All : step[<<d, s>>] = Step(d + 1, s)
  OBVIOUS
<1>5. step \in [(0 .. mask - 1) \X All -> All]
  <2>1. \A d \in 0 .. mask - 1 : \A s \in All : Step(d + 1, s) \in All
    BY <1>1, <1>3
  <2> HIDE DEF All, Step
  <2> QED BY <2>1
<1>6. ASSUME NEW d \in 0 .. mask - 1, NEW s, d + 1 <= e, Shifting(tab, mask, at, d, s)
      PROVE  Shifting(tab, mask, at, d + 1, Step(d + 1, s))
  <2>1. d \in Nat /\ d + 1 <= mask
    BY <1>1
  <2>2. \A v \in Vacant(tab) : d + 1 < Distance(at, v, mask)
    <3> SUFFICES ASSUME NEW v \in Vacant(tab) PROVE d + 1 < Distance(at, v, mask)
      OBVIOUS
    <3>1. v \in 0 .. mask
      BY TableFacts
    <3>2. Distance(at, v, mask) \in 0 .. mask /\ e < Distance(at, v, mask)
      BY <3>1, <1>1, PositionAtDistance
    <3> QED BY <3>2, <2>1, <1>6
  <2> QED BY <2>1, <2>2, <1>6, ShiftGoesOn
<1> HIDE DEF All, Step, start, step
<1>7. PICK f : Runs(mask, All, start, step, f)
  BY <1>1, <1>2, <1>5, RunExists
<1>8. f \in [0 .. mask -> All] /\ f[0] = start
  BY <1>7 DEF Runs
<1>9. Eq(shifted)
  <2>1. ASSUME NEW d \in 0 .. mask, d # 0 PROVE f[d] = Step(d, f[d - 1])
    <3>1. PICK j \in 0 .. mask - 1 : d = j + 1
      BY <2>1, <1>1
    <3>2. d - 1 = j /\ j \in 0 .. mask
      BY <3>1, <1>1
    <3>3. PICK s \in All : s = f[j]
      BY <3>2, <1>8
    <3>4. f[j + 1] = step[<<j, f[j]>>]
      BY <1>7 DEF Runs
    <3>5. f[d] = Step(j + 1, s)
      BY <3>1, <3>3, <3>4, <1>4
    <3> QED BY <3>1, <3>2, <3>3, <3>5
  <2>2. Eq(f)
    BY <2>1, <1>8
  <2> HIDE DEF Eq
  <2> QED BY <2>2
<1>10. shifted[0] = start /\ \A d \in 0 .. mask - 1 : shifted[d + 1] = Step(d + 1, shifted[d])
  <2> HIDE DEF shifted
  <2>1. ASSUME NEW j \in 0 .. mask - 1 PROVE shifted[j + 1] = Step(j + 1, shifted[j])
    <3>1. PICK d \in 0 .. mask : d = j + 1
      BY <1>1
    <3>2. d # 0 /\ d - 1 = j
      BY <3>1
    <3>3. shifted[d] = Step(d, shifted[d - 1])
      BY <1>9, <3>2
    <3> QED BY <3>1, <3>2, <3>3
  <2>2. shifted[0] = start
    BY <1>1, <1>9
  <2> QED BY <2>1, <2>2
<1> HIDE DEF shifted
<1> DEFINE T == {d \in 0 .. mask : d <= e => Shifting(tab, mask, at, d, shifted[d])}
<1>11. 0 \in T
  BY <1>1, <1>10, ShiftStarts DEF start
<1>12. ASSUME NEW j \in 0 .. mask - 1, j \in T PROVE j + 1 \in T
  <2>1. j + 1 \in 0 .. mask
    BY <1>1
  <2>2. CASE j + 1 <= e
    <3>1. j <= e
      BY <2>2, <1>1
    <3>2. Shifting(tab, mask, at, j, shifted[j])
      BY <3>1, <1>12
    <3>3. Shifting(tab, mask, at, j + 1, Step(j + 1, shifted[j]))
      BY <3>2, <2>2, <1>6
    <3> QED BY <3>3, <2>1, <1>10
  <2> QED BY <2>1, <2>2
<1> HIDE DEF T
<1>13. e \in T
  <2>1. \A d \in 0 .. mask : d \in T
    BY <1>1, <1>11, <1>12, BoundedInduction
  <2> QED BY <2>1
<1>14. Shifting(tab, mask, at, e, shifted[e])
  BY <1>1, <1>13 DEF T
<1> QED BY <1>14 DEF shifted, Step, start

(* Without the pair of bucket at, the others are reached by their probes.  *)
LEMMA DelAtWorks ==
  ASSUME NEW mask, NEW tab, Table(tab, mask), NEW at \in Full(tab), Vacant(tab) # {}
  PROVE  LET new == DelAt(tab, mask, at)
         IN /\ Table(new, mask) /\ Vacant(new) # {}
            /\ Pairs(new) = Pairs(tab) \ {tab[at]}
<1> DEFINE end == FirstOf(Vacant(tab), BNext(at, mask), mask)
           D(a, b) == Distance(a, b, mask)
           new == DelAt(tab, mask, at)
<1>1. /\ mask \in Nat /\ at \in 0 .. mask /\ tab \in [0 .. mask -> Pair]
      /\ \A i \in Full(tab) : i \in 0 .. mask /\ i \notin Vacant(tab)
      /\ Full(tab) \cup Vacant(tab) = 0 .. mask
  BY TableFacts DEF Table, Buckets
<1>2. /\ end \in Vacant(tab) /\ end \in 0 .. mask /\ D(at, end) \in 1 .. mask
      /\ \A v \in Vacant(tab) : D(at, end) <= D(at, v)
  BY EndOfRun
<1>3. PICK e \in 0 .. mask : e = D(at, end) - 1
  BY <1>1, <1>2
<1>4. \A v \in Vacant(tab) : D(at, v) \in 0 .. mask /\ e < D(at, v)
  <2> SUFFICES ASSUME NEW v \in Vacant(tab) PROVE D(at, v) \in 0 .. mask /\ e < D(at, v)
    OBVIOUS
  <2>1. v \in 0 .. mask
    BY <1>1
  <2>2. D(at, v) \in 0 .. mask
    BY <2>1, <1>1, PositionAtDistance
  <2> QED BY <2>2, <1>2, <1>3
<1>5. PICK s : Shifting(tab, mask, at, e, s) /\ new = PutBucket(s.tab, s.hole, 0, Nil)
  <2> HIDE DEF D
  <2> DEFINE shifted[d \in 0 .. mask] ==
               IF d = 0 THEN [tab |-> tab, hole |-> at]
               ELSE LET s == shifted[d - 1]
                        k == (at + d) % (mask + 1)
                    IN IF MovesBack(tab[k].w, s.hole, k, mask)
                       THEN [tab |-> [s.tab EXCEPT ![s.hole] = tab[k]], hole |-> k]
                       ELSE s
  <2>1. Shifting(tab, mask, at, e, shifted[e])
    BY <1>4, ShiftEnds DEF D
  <2>2. e = Distance(at, end, mask) - 1
    BY <1>3 DEF D
  <2>3. new = PutBucket(shifted[e].tab, shifted[e].hole, 0, Nil)
    BY <2>2 DEF DelAt
  <2> QED BY <2>1, <2>3
<1> HIDE DEF end, new
<1> DEFINE hole == s.hole
           Others == Full(tab) \ {hole}
<1>6. /\ s.tab \in [0 .. mask -> Pair] /\ hole \in 0 .. mask /\ hole \in Full(tab)
      /\ D(at, hole) <= e
  BY <1>5 DEF Shifting
<1>7. /\ new = [i \in 0 .. mask |-> new[i]] /\ DOMAIN new = 0 .. mask
      /\ new[hole] = Vacancy /\ \A i \in 0 .. mask : i # hole => new[i] = s.tab[i]
  BY <1>5, <1>6 DEF PutBucket, Vacancy
<1>8. \A i \in Others : i \in 0 .. mask /\ new[i] = s.tab[i]
  BY <1>1, <1>7
<1>9. \A v \in Vacant(tab) : new[v] = Vacancy
  <2> SUFFICES ASSUME NEW v \in Vacant(tab) PROVE new[v] = Vacancy
    OBVIOUS
  <2>1. v # hole /\ v \in 0 .. mask
    BY <1>1, <1>6
  <2>2. s.tab[v] = tab[v]
    BY <1>5 DEF Shifting
  <2>3. tab[v] = Vacancy
    <3>1. tab[v].w = 0 /\ tab[v].l = Nil /\ tab[v] = Bucket(tab[v].w, tab[v].l)
      BY <2>1, TableFacts
    <3> QED BY <3>1 DEF Vacancy
  <2> QED BY <2>1, <2>2, <2>3, <1>7
<1>10. {s.tab[i] : i \in Others} = {tab[i] : i \in Full(tab) \ {at}}
  BY <1>5 DEF Shifting
<1>11. ASSUME NEW i \in Others
       PROVE  \E w \in Word, l \in Nat \ {0} : new[i] = Bucket(w, l)
  <2>1. PICK j \in Full(tab) \ {at} : s.tab[i] = tab[j]
    BY <1>10
  <2>2. tab[j].w \in Word /\ tab[j].l \in Nat \ {0} /\ tab[j] = Bucket(tab[j].w, tab[j].l)
    BY <1>1, TableFacts
  <2> QED BY <2>1, <2>2, <1>8
<1>12. \A i \in Others : new[i].w # 0 /\ new[i].w \in Word
  <2> SUFFICES ASSUME NEW i \in Others PROVE new[i].w # 0 /\ new[i].w \in Word
    OBVIOUS
  <2>1. PICK w \in Word, l \in Nat \ {0} : new[i] = Bucket(w, l)
    BY <1>11
  <2>2. w # 0
    BY Words
  <2> QED BY <2>1, <2>2 DEF Bucket
<1>13. Vacancy.w = 0
  BY DEF Vacancy, Bucket
<1>14. Vacant(new) = Vacant(tab) \cup {hole} /\ Full(new) = Others
  <2>1. 0 .. mask = Others \cup {hole} \cup Vacant(tab)
    BY <1>1, <1>6
  <2>2. Vacant(new) = Vacant(tab) \cup {hole}
    BY <2>1, <1>1, <1>7, <1>9, <1>12, <1>13 DEF Vacant
  <2> QED BY <2>1, <2>2, <1>1, <1>7 DEF Full
<1>15. ASSUME NEW i \in Others, NEW v \in Vacant(new)
       PROVE  D(Home(new[i].w, mask), i) < D(Home(new[i].w, mask), v)
  <2> DEFINE home == Home(new[i].w, mask)
  <2>1. home \in 0 .. mask /\ home = Home(s.tab[i].w, mask)
    BY <1>1, <1>8, <1>12, HomeIsABucket
  <2>2. \A u \in Vacant(tab) : D(home, i) < D(home, u)
    BY <2>1, <1>5 DEF Shifting
  <2>3. /\ D(at, hole) < D(at, i) /\ D(at, i) <= e => D(home, i) < D(home, hole)
    BY <2>1, <1>5 DEF Shifting
  <2> HIDE DEF home
  <2>4. CASE v = hole
    <3>1. CASE D(at, hole) < D(at, i) /\ D(at, i) <= e
      BY <3>1, <2>3, <2>4 DEF home
    <3>2. CASE ~ (D(at, hole) < D(at, i) /\ D(at, i) <= e)
      <4>1. /\ D(at, i) \in 0 .. mask /\ D(at, hole) \in 0 .. mask /\ D(at, end) \in 0 .. mask
        BY <1>1, <1>2, <1>6, <1>8, PositionAtDistance
      <4>2. D(at, i) # D(at, hole) /\ D(at, i) # D(at, end)
        <5>1. i # hole /\ i # end /\ i \in 0 .. mask
          BY <1>1, <1>2, <1>8
        <5> QED BY <5>1, <1>1, <1>2, <1>6, SameDistance
      <4>3. D(at, hole) < D(at, end)
        BY <4>1, <1>3, <1>6
      <4>4. D(at, i) < D(at, hole) \/ D(at, end) < D(at, i)
        BY <4>1, <4>2, <3>2, <1>3
      <4>5. D(home, i) < D(home, end)
        BY <2>2, <1>2
      <4>6. D(home, i) < D(home, hole)
        <5>1. i \in 0 .. mask
          BY <1>8
        <5>2. PICK x \in 0 .. mask, y \in 0 .. mask : x = hole /\ y = end
          BY <1>2, <1>6
        <5>3. /\ D(at, x) < D(at, y) /\ D(home, i) < D(home, y)
              /\ D(at, i) < D(at, x) \/ D(at, y) < D(at, i)
          BY <4>3, <4>4, <4>5, <5>2
        <5>4. D(home, i) < D(home, x)
          BY <5>1, <5>3, <2>1, <1>1, EndGuards
        <5> QED BY <5>2, <5>4
      <4> QED BY <4>6, <2>4 DEF home
    <3> QED BY <3>1, <3>2
  <2>5. CASE v \in Vacant(tab)
    BY <2>2, <2>5 DEF home
  <2> QED BY <2>4, <2>5, <1>14
<1>16. ASSUME NEW i \in 0 .. mask
       PROVE  new[i] = Vacancy \/ \E w \in Word, l \in Nat \ {0} : new[i] = Bucket(w, l)
  BY <1>1, <1>7, <1>9, <1>11
<1>17. \A i, j \in Full(new) : new[i].l = new[j].l => i = j
  <2>1. \A i, j \in Others : s.tab[i].l = s.tab[j].l => i = j
    BY <1>5 DEF Shifting
  <2> QED BY <2>1, <1>8, <1>14
<1>18. Table(new, mask)
  BY <1>1, <1>7, <1>14, <1>15, <1>16, <1>17, TableFrom
<1>19. Pairs(new) = Pairs(tab) \ {tab[at]}
  <2>1. Pairs(new) = {s.tab[i] : i \in Others}
    BY <1>8, <1>14 DEF Pairs
  <2>2. {tab[i] : i \in Full(tab) \ {at}} = Pairs(tab) \ {tab[at]}
    <3>1. \A i \in Full(tab) \ {at} : tab[i] # tab[at]
      BY DEF Table
    <3> QED BY <3>1 DEF Pairs
  <2> QED BY <2>1, <2>2, <1>10
<1> QED BY <1>14, <1>18, <1>19 DEF new

-----------------------------------------------------------------------------
(* Keys.                                                                   *)

\* The key of a pair.
KeyIn(ks, b) == KeyOf(b.w, ks[Slot(b.l)])

\* Pairs of different keys, each with its key's word and string.
Keyed(ks, P) ==
  /\ \A b \in P : /\ KeyIn(ks, b) \in Key /\ b.w = WordOf[KeyIn(ks, b)]
                  /\ ks[Slot(b.l)] = Stored(KeyIn(ks, b))
  /\ \A b, c \in P : KeyIn(ks, b) = KeyIn(ks, c) => b = c

(* The word and the string stored for a key give the key.                  *)
LEMMA KeyOfStored ==
  ASSUME NEW key \in Key
  PROVE  KeyOf(WordOf[key], Stored(key)) = key
<1>1. CASE key \in Short
  <2>1. IsShort(WordOf[key])
    BY <1>1 DEF IsShort
  <2>2. \A k \in Short : WordOf[k] = WordOf[key] => k = key
    BY ProbeTableAssumption
  <2>3. (CHOOSE k \in Short : WordOf[k] = WordOf[key]) = key
    BY <1>1, <2>2
  <2> QED BY <2>1, <2>3 DEF KeyOf
<1>2. CASE key \notin Short
  <2>1. ~ IsShort(WordOf[key])
    BY <1>2, ProbeTableAssumption DEF IsShort
  <2> QED BY <1>2, <2>1 DEF KeyOf, Stored
<1> QED BY <1>1, <1>2

(* Fewer pairs, of slots whose strings stay.                               *)
LEMMA KeyedKept ==
  ASSUME NEW ks, NEW P, Keyed(ks, P), NEW Q \in SUBSET P,
         NEW new, \A b \in Q : new[Slot(b.l)] = ks[Slot(b.l)]
  PROVE  Keyed(new, Q) /\ \A b \in Q : KeyIn(new, b) = KeyIn(ks, b)
<1>1. \A b \in Q : KeyIn(new, b) = KeyIn(ks, b)
  BY DEF KeyIn
<1> QED BY <1>1 DEF Keyed

(* The pair of a new key in a slot that was given its string.              *)
LEMMA KeyedWith ==
  ASSUME NEW ks, NEW P, Keyed(ks, P), NEW key \in Key, \A b \in P : KeyIn(ks, b) # key,
         NEW new, \A b \in P : new[Slot(b.l)] = ks[Slot(b.l)],
         NEW l, new[Slot(l)] = Stored(key)
  PROVE  LET b == Bucket(WordOf[key], l)
         IN Keyed(new, P \cup {b}) /\ KeyIn(new, b) = key
<1> DEFINE c == Bucket(WordOf[key], l)
<1>1. c.w = WordOf[key] /\ c.l = l
  BY DEF Bucket
<1>2. KeyIn(new, c) = key
  BY <1>1, KeyOfStored DEF KeyIn
<1>3. Keyed(new, P) /\ \A b \in P : KeyIn(new, b) = KeyIn(ks, b)
  BY KeyedKept
<1> HIDE DEF c
<1>4. /\ KeyIn(new, c) \in Key /\ c.w = WordOf[KeyIn(new, c)]
      /\ new[Slot(c.l)] = Stored(KeyIn(new, c))
  BY <1>1, <1>2
<1>5. \A b \in P : KeyIn(new, b) # KeyIn(new, c)
  BY <1>2, <1>3
<1>6. Keyed(new, P \cup {c})
  BY <1>3, <1>4, <1>5 DEF Keyed
<1> QED BY <1>2, <1>6 DEF c

(* A bucket holds a key when its pair is that of the key.                  *)
LEMMA HoldsItsKey ==
  ASSUME NEW mask, NEW tab, Table(tab, mask), NEW ks, Keyed(ks, Pairs(tab)),
         NEW key \in Key, NEW i \in 0 .. mask
  PROVE  Holds(tab, ks, i, key) <=> i \in Full(tab) /\ KeyIn(ks, tab[i]) = key
<1> DEFINE own == KeyIn(ks, tab[i])
<1>1. i \in Full(tab) => /\ own \in Key /\ tab[i].w = WordOf[own]
                         /\ ks[Slot(tab[i].l)] = Stored(own)
  BY DEF Keyed, Pairs
<1> HIDE DEF own
<1>2. ASSUME Holds(tab, ks, i, key) PROVE i \in Full(tab) /\ own = key
  <2>1. tab[i].w = WordOf[key]
    BY <1>2 DEF Holds
  <2>2. i \in Full(tab)
    <3>1. WordOf[key] # 0
      BY ProbeTableAssumption
    <3> QED BY <2>1, <3>1, TableFacts
  <2>3. own \in Key /\ WordOf[own] = WordOf[key]
    BY <1>1, <2>1, <2>2
  <2>4. CASE key \in Short \/ own \in Short
    BY <2>2, <2>3, <2>4, ProbeTableAssumption
  <2>5. CASE key \notin Short /\ own \notin Short
    BY <2>2, <2>5, <1>1, <1>2 DEF Holds, Stored
  <2> QED BY <2>2, <2>4, <2>5
<1>3. ASSUME i \in Full(tab), own = key PROVE Holds(tab, ks, i, key)
  BY <1>1, <1>3 DEF Holds, Stored
<1> QED BY <1>2, <1>3 DEF own

(* A probe for a key ends at its pair, if the table has one, and else at   *)
(* the first vacant bucket.                                                *)
LEMMA ProbeFinds ==
  ASSUME NEW mask, NEW tab, Table(tab, mask), Vacant(tab) # {},
         NEW ks, Keyed(ks, Pairs(tab)), NEW key \in Key
  PROVE  LET at == Probe(tab, ks, mask, key)
         IN \/ /\ at \in Full(tab) /\ tab[at] \in Pairs(tab) /\ KeyIn(ks, tab[at]) = key
               /\ LinkFound(tab, ks, mask, key) = tab[at].l /\ tab[at].l # Nil
            \/ /\ \A b \in Pairs(tab) : KeyIn(ks, b) # key
               /\ at \in Vacant(tab) /\ LinkFound(tab, ks, mask, key) = Nil
               /\ at = FirstOf(Vacant(tab), Home(WordOf[key], mask), mask)
<1> DEFINE home == Home(WordOf[key], mask)
           S == {i \in Buckets(mask) : tab[i].w = 0 \/ Holds(tab, ks, i, key)}
           at == Probe(tab, ks, mask, key)
           D(a, b) == Distance(a, b, mask)
<1>1. /\ mask \in Nat /\ Full(tab) \cup Vacant(tab) = 0 .. mask
      /\ Full(tab) \cap Vacant(tab) = {} /\ home \in 0 .. mask
  <2>1. WordOf[key] \in Word
    BY DEF Word
  <2> QED BY <2>1, TableFacts, HomeIsABucket
<1>2. S = Vacant(tab) \cup {i \in Full(tab) : KeyIn(ks, tab[i]) = key}
  BY <1>1, TableFacts, HoldsItsKey DEF Buckets
<1>3. at = FirstOf(S, home, mask)
  BY DEF Probe
<1>4. LinkFound(tab, ks, mask, key) = tab[at].l
  BY DEF LinkFound
<1> HIDE DEF S, home, at
<1>5. PICK v \in 0 .. mask : v \in Vacant(tab)
  BY <1>1
<1>6. at \in S /\ at \in 0 .. mask /\ \A k \in S : D(home, at) <= D(home, k)
  <2>1. \A k \in S : k \in 0 .. mask
    BY <1>1, <1>2
  <2>2. v \in S
    BY <1>2, <1>5
  <2> QED BY <2>1, <2>2, <1>1, <1>3, <1>5, FirstIsReached
<1>7. CASE at \in Full(tab)
  <2>1. KeyIn(ks, tab[at]) = key
    BY <1>1, <1>2, <1>6, <1>7
  <2>2. tab[at].l # Nil
    BY <1>7, TableFacts DEF Nil
  <2> QED BY <2>1, <2>2, <1>4, <1>7 DEF Pairs, at
<1>8. CASE at \in Vacant(tab)
  <2>1. ASSUME NEW i \in Full(tab), KeyIn(ks, tab[i]) = key PROVE FALSE
    <3>1. tab[i].w = WordOf[key]
      BY <2>1 DEF Keyed, Pairs
    <3>2. D(home, i) < D(home, at)
      BY <3>1, <1>8 DEF Table, ProbesReach, Full, Buckets, home
    <3>3. i \in S /\ D(home, i) \in 0 .. mask /\ D(home, at) \in 0 .. mask
      BY <2>1, <1>1, <1>2, <1>6, PositionAtDistance
    <3>4. D(home, at) <= D(home, i)
      BY <3>3, <1>6
    <3> QED BY <3>2, <3>3, <3>4
  <2>2. S = Vacant(tab)
    BY <2>1, <1>2
  <2>3. tab[at].l = Nil
    BY <1>6, <1>8, TableFacts
  <2>4. \A b \in Pairs(tab) : KeyIn(ks, b) # key
    BY <2>1 DEF Pairs
  <2> QED BY <2>2, <2>3, <2>4, <1>3, <1>4, <1>8 DEF at, home
<1> QED BY <1>1, <1>6, <1>7, <1>8

(* The full buckets are as many as the slots that their pairs link to.     *)
LEMMA FullCount ==
  ASSUME NEW mask, NEW tab, Table(tab, mask)
  PROVE  Cardinality(Full(tab)) = Cardinality({Slot(b.l) : b \in Pairs(tab)})
<1> DEFINE f == [i \in Full(tab) |-> Slot(tab[i].l)]
           L == {Slot(b.l) : b \in Pairs(tab)}
<1>1. \A i \in Full(tab) : tab[i] \in Pairs(tab) /\ tab[i].l \in Nat
  BY TableFacts DEF Pairs
<1>2. f \in [Full(tab) -> L]
  BY <1>1
<1>3. \A i, j \in Full(tab) : f[i] = f[j] => i = j
  <2>1. \A i, j \in Full(tab) : Slot(tab[i].l) = Slot(tab[j].l) => tab[i].l = tab[j].l
    BY <1>1 DEF Slot
  <2> QED BY <2>1 DEF Table
<1>4. \A s \in L : \E i \in Full(tab) : f[i] = s
  BY DEF Pairs
<1> HIDE DEF f, L
<1>5. f \in Bijection(Full(tab), L)
  BY <1>2, <1>3, <1>4 DEF Bijection, Injection, Surjection, IsInjective
<1>6. IsFiniteSet(Full(tab))
  BY FullIsFinite
<1> QED BY <1>5, <1>6, FS_Bijection DEF ExistsBijection, L

-----------------------------------------------------------------------------
(* Listing the keys.                                                       *)

\* The sequence w has the keys of the full buckets from i on, each once.
Lists(tab, ks, i, w) ==
  /\ w \in Seq(Key)
  /\ \A a, b \in 1 .. Len(w) : w[a] = w[b] => a = b
  /\ \A a \in 1 .. Len(w) : \E k \in Full(tab) : i <= k /\ w[a] = KeyIn(ks, tab[k])
  /\ \A k \in Full(tab) : i <= k => \E a \in 1 .. Len(w) : w[a] = KeyIn(ks, tab[k])

(* The walk goes on at bucket i.                                           *)
LEMMA ListGoesOn ==
  ASSUME NEW mask, NEW tab, Table(tab, mask), NEW ks, Keyed(ks, Pairs(tab)),
         NEW i \in 0 .. mask, NEW w, Lists(tab, ks, i + 1, w)
  PROVE  Lists(tab, ks, i,
           IF tab[i].w = 0 THEN w ELSE <<KeyIn(ks, tab[i])>> \o w)
<1>1. /\ i \in Full(tab) <=> tab[i].w # 0
      /\ \A k \in Full(tab) : k \in 0 .. mask
  BY TableFacts DEF Full
<1>2. \A k \in Full(tab) : i <= k <=> (k = i \/ i + 1 <= k)
  BY <1>1
<1>3. CASE tab[i].w = 0
  <2>1. \A k \in Full(tab) : i <= k <=> i + 1 <= k
    BY <1>1, <1>2, <1>3
  <2> QED BY <2>1, <1>3 DEF Lists
<1>4. CASE tab[i].w # 0
  <2> DEFINE x == KeyIn(ks, tab[i])
             n == Len(w)
             v == <<x>> \o w
  <2>1. \A j, k \in Full(tab) : KeyIn(ks, tab[j]) = KeyIn(ks, tab[k]) => j = k
    BY DEF Keyed, Pairs, Table
  <2>2. x \in Key /\ w \in Seq(Key) /\ i \in Full(tab)
    BY <1>1, <1>4 DEF Keyed, Pairs, Lists
  <2>3. \A a \in 1 .. n : w[a] # x
    <3> SUFFICES ASSUME NEW a \in 1 .. n, w[a] = x PROVE FALSE
      OBVIOUS
    <3>1. PICK k \in Full(tab) : i + 1 <= k /\ w[a] = KeyIn(ks, tab[k])
      BY DEF Lists
    <3>2. k = i
      BY <3>1, <2>1, <2>2
    <3> QED BY <3>1, <3>2
  <2> HIDE DEF x
  <2>4. /\ v \in Seq(Key) /\ Len(v) = n + 1 /\ n \in Nat /\ v[1] = x
        /\ \A a \in 1 .. n : v[a + 1] = w[a]
    BY <2>2
  <2> HIDE DEF v, n
  <2>5. \A a \in 1 .. Len(v) : a = 1 \/ \E b \in 1 .. n : a = b + 1
    <3> SUFFICES ASSUME NEW a \in 1 .. Len(v), a # 1 PROVE \E b \in 1 .. n : a = b + 1
      OBVIOUS
    <3>1. a - 1 \in 1 .. n /\ a = (a - 1) + 1
      BY <2>4
    <3> QED BY <3>1
  <2>6. \A a \in 1 .. n : a + 1 \in 1 .. Len(v)
    BY <2>4
  <2>7. \A a, b \in 1 .. Len(v) : v[a] = v[b] => a = b
    <3> SUFFICES ASSUME NEW a \in 1 .. Len(v), NEW b \in 1 .. Len(v), v[a] = v[b]
                 PROVE  a = b
      OBVIOUS
    <3>1. CASE a = 1 \/ b = 1
      BY <3>1, <2>3, <2>4, <2>5
    <3>2. CASE a # 1 /\ b # 1
      <4>1. PICK c \in 1 .. n, d \in 1 .. n : a = c + 1 /\ b = d + 1
        BY <3>2, <2>5
      <4>2. w[c] = w[d]
        BY <4>1, <2>4
      <4>3. c = d
        BY <4>2 DEF Lists, n
      <4> QED BY <4>1, <4>3
    <3> QED BY <3>1, <3>2
  <2>8. \A a \in 1 .. Len(v) : \E k \in Full(tab) : i <= k /\ v[a] = KeyIn(ks, tab[k])
    <3> SUFFICES ASSUME NEW a \in 1 .. Len(v)
                 PROVE  \E k \in Full(tab) : i <= k /\ v[a] = KeyIn(ks, tab[k])
      OBVIOUS
    <3>1. CASE a = 1
      BY <3>1, <2>2, <2>4, <1>2 DEF x
    <3>2. CASE a # 1
      <4>1. PICK c \in 1 .. n : a = c + 1
        BY <3>2, <2>5
      <4>2. v[a] = w[c]
        BY <4>1, <2>4
      <4>3. PICK k \in Full(tab) : i + 1 <= k /\ w[c] = KeyIn(ks, tab[k])
        BY DEF Lists, n
      <4> QED BY <4>2, <4>3, <1>2
    <3> QED BY <3>1, <3>2
  <2>9. \A k \in Full(tab) : i <= k => \E a \in 1 .. Len(v) : v[a] = KeyIn(ks, tab[k])
    <3> SUFFICES ASSUME NEW k \in Full(tab), i <= k
                 PROVE  \E a \in 1 .. Len(v) : v[a] = KeyIn(ks, tab[k])
      OBVIOUS
    <3>1. CASE k = i
      <4>1. 1 \in 1 .. Len(v)
        BY <2>4
      <4> QED BY <3>1, <4>1, <2>4 DEF x
    <3>2. CASE k # i
      <4>1. PICK a \in 1 .. n : w[a] = KeyIn(ks, tab[k])
        BY <3>2, <1>2 DEF Lists, n
      <4> QED BY <4>1, <2>4, <2>6
    <3> QED BY <3>1, <3>2
  <2>10. Lists(tab, ks, i, v)
    BY <2>4, <2>7, <2>8, <2>9 DEF Lists
  <2> QED BY <2>10, <1>4 DEF v, x
<1> QED BY <1>3, <1>4

(* The list of the keys has each key of the table once.                    *)
LEMMA KeysListed ==
  ASSUME NEW mask, NEW tab, Table(tab, mask), NEW ks, Keyed(ks, Pairs(tab))
  PROVE  Lists(tab, ks, 0, KeyList(tab, ks, mask))
<1> DEFINE m == mask + 1
           Step(j, w) == IF tab[m - j].w = 0 THEN w ELSE <<KeyIn(ks, tab[m - j])>> \o w
           step == [jw \in (0 .. m - 1) \X Seq(Key) |->
                      IF Lists(tab, ks, m - jw[1], jw[2]) THEN Step(jw[1] + 1, jw[2]) ELSE <<>>]
           Listed(j, w) == LET b == tab[mask + 1 - j]
                           IN IF b.w = 0 THEN w ELSE <<KeyOf(b.w, ks[Slot(b.l)])>> \o w
           Eq(f) == f = [j \in 0 .. mask + 1 |->
                           IF j = 0 THEN <<>> ELSE Listed(j, f[j - 1])]
           walk == CHOOSE f : Eq(f)
<1>1. mask \in Nat /\ m \in Nat
  BY TableFacts
<1>2. ASSUME NEW j \in 0 .. m - 1, NEW w, Lists(tab, ks, m - j, w)
      PROVE  Lists(tab, ks, m - (j + 1), Step(j + 1, w))
  <2>1. PICK i \in 0 .. mask : i = m - (j + 1)
    BY <1>1
  <2>2. m - j = i + 1
    BY <2>1, <1>1
  <2>3. Lists(tab, ks, i, IF tab[i].w = 0 THEN w ELSE <<KeyIn(ks, tab[i])>> \o w)
    BY <2>2, <1>2, ListGoesOn
  <2> QED BY <2>1, <2>3
<1>3. Lists(tab, ks, m - 0, <<>>)
  <2>1. \A k \in Full(tab) : ~ (m - 0 <= k)
    BY <1>1, TableFacts
  <2> QED BY <2>1 DEF Lists
<1>4. step \in [(0 .. m - 1) \X Seq(Key) -> Seq(Key)]
  <2>1. \A j \in 0 .. m - 1 : \A w \in Seq(Key) :
          Lists(tab, ks, m - j, w) => Step(j + 1, w) \in Seq(Key)
    BY <1>2 DEF Lists
  <2> HIDE DEF Step, m
  <2> QED BY <2>1
<1>5. \A j \in 0 .. m - 1 : \A w \in Seq(Key) :
        Lists(tab, ks, m - j, w) => step[<<j, w>>] = Step(j + 1, w)
  OBVIOUS
<1>0. m = mask + 1 /\ \A j \in 0 .. m : \A w : Listed(j, w) = Step(j, w)
  <2>1. \A j \in 0 .. m : mask + 1 - j = m - j
    BY <1>1
  <2> QED BY <2>1 DEF KeyIn
<1> HIDE DEF Step, step, m, Listed
<1>6. PICK f : Runs(m, Seq(Key), <<>>, step, f)
  <2>1. <<>> \in Seq(Key)
    OBVIOUS
  <2> QED BY <2>1, <1>1, <1>4, RunExists
<1>7. f \in [0 .. m -> Seq(Key)] /\ f[0] = <<>>
      /\ \A j \in 0 .. m - 1 : f[j + 1] = step[<<j, f[j]>>]
  BY <1>6 DEF Runs
<1>8. ASSUME NEW j \in 0 .. m - 1, Lists(tab, ks, m - j, f[j])
      PROVE  f[j + 1] = Step(j + 1, f[j]) /\ Lists(tab, ks, m - (j + 1), f[j + 1])
  <2>1. f[j] \in Seq(Key) /\ f[j + 1] = step[<<j, f[j]>>]
    BY <1>8, <1>7 DEF Lists
  <2>2. f[j + 1] = Step(j + 1, f[j])
    BY <2>1, <1>8, <1>5
  <2> QED BY <2>2, <1>8, <1>2
<1> DEFINE T == {j \in 0 .. m : Lists(tab, ks, m - j, f[j])}
<1>9. \A j \in 0 .. m : Lists(tab, ks, m - j, f[j])
  <2>1. 0 \in T
    BY <1>1, <1>3, <1>7
  <2>2. \A j \in 0 .. m - 1 : j \in T => j + 1 \in T
    BY <1>1, <1>8
  <2> HIDE DEF T
  <2>3. \A j \in 0 .. m : j \in T
    BY <2>1, <2>2, <1>1, BoundedInduction
  <2> QED BY <2>3 DEF T
<1>10. Eq(walk)
  <2>1. ASSUME NEW j \in 0 .. m, j # 0 PROVE f[j] = Step(j, f[j - 1])
    <3>1. PICK k \in 0 .. m - 1 : j = k + 1
      BY <2>1, <1>1
    <3>2. j - 1 = k /\ k \in 0 .. m
      BY <3>1, <1>1
    <3>3. f[k + 1] = Step(k + 1, f[k])
      BY <3>2, <1>8, <1>9
    <3> QED BY <3>1, <3>2, <3>3
  <2>2. Eq(f)
    BY <2>1, <1>0, <1>7
  <2> HIDE DEF Eq
  <2> QED BY <2>2
<1> DEFINE S == {j \in 0 .. m : walk[j] = f[j]}
<1>11. m \in S
  <2> HIDE DEF walk
  <2>1. 0 \in S
    BY <1>0, <1>1, <1>7, <1>10
  <2>2. ASSUME NEW k \in 0 .. m - 1, k \in S PROVE k + 1 \in S
    <3>1. PICK j \in 0 .. m : j = k + 1
      BY <1>1
    <3>2. j # 0 /\ j - 1 = k
      BY <3>1
    <3>3. walk[j] = Step(j, walk[k])
      BY <3>2, <1>0, <1>10
    <3>4. f[k + 1] = Step(k + 1, f[k])
      BY <2>2, <1>8, <1>9
    <3> QED BY <3>1, <3>3, <3>4, <2>2
  <2> HIDE DEF S
  <2>3. \A j \in 0 .. m : j \in S
    BY <2>1, <2>2, <1>1, BoundedInduction
  <2> QED BY <2>3, <1>1
<1>12. Lists(tab, ks, m - m, walk[m])
  BY <1>1, <1>9, <1>11
<1>13. m - m = 0
  BY <1>1
<1>14. KeyList(tab, ks, mask) = walk[m]
  BY DEF KeyList, walk, Eq, Listed, m
<1> HIDE DEF walk
<1> QED BY <1>12, <1>13, <1>14

-----------------------------------------------------------------------------
(* The stack of free slots.                                                *)

\* m slots of S, each once, chained from the link top.
FreeStack(stack, m, top, next, S) ==
  LET at(k) == IF k <= m THEN Link(stack[k]) ELSE Nil
  IN /\ stack \in [1 .. m -> S]
     /\ \A j, k \in 1 .. m : stack[j] = stack[k] => j = k
     /\ top = at(1)
     /\ \A k \in 1 .. m : next[stack[k]] = at(k + 1)

LEMMA SlotOnTop ==
  ASSUME NEW m \in Nat, NEW top, NEW next, NEW S \in SUBSET Nat,
         NEW stack, FreeStack(stack, m, top, next, S)
  PROVE  /\ top = Nil <=> m = 0
         /\ top # Nil => Slot(top) \in S /\ Slot(top) = stack[1] /\ top = Link(Slot(top))
         /\ top \in Nat
<1>1. CASE m = 0
  BY <1>1 DEF FreeStack, Nil
<1>2. CASE m # 0
  <2>1. 1 \in 1 .. m
    BY <1>2
  <2>2. stack[1] \in S /\ stack[1] \in Nat /\ top = Link(stack[1])
    <3>1. stack \in [1 .. m -> S] /\ top = IF 1 <= m THEN Link(stack[1]) ELSE Nil
      BY DEF FreeStack
    <3>2. stack[1] \in S
      BY <2>1, <3>1
    <3>3. 1 <= m
      BY <2>1
    <3> QED BY <3>1, <3>2, <3>3
  <2> QED BY <1>2, <2>2 DEF Link, Slot, Nil
<1> QED BY <1>1, <1>2

(* Popping the top leaves a stack of the others.                           *)
LEMMA StackPopped ==
  ASSUME NEW m \in Nat, NEW top, NEW next, NEW S \in SUBSET Nat,
         NEW stack, FreeStack(stack, m, top, next, S), top # Nil
  PROVE  /\ m - 1 \in Nat
         /\ \E rest : FreeStack(rest, m - 1, next[Slot(top)], next, S \ {Slot(top)})
<1>1. PICK p \in Nat : m = p + 1
  <2>1. m # 0
    BY SlotOnTop
  <2>2. m - 1 \in Nat /\ m = (m - 1) + 1
    BY <2>1
  <2> QED BY <2>2
<1> DEFINE rest == [k \in 1 .. p |-> stack[k + 1]]
           at(k) == IF k <= m THEN Link(stack[k]) ELSE Nil
           below(k) == IF k <= p THEN Link(rest[k]) ELSE Nil
<1>2. /\ stack \in [1 .. m -> S] /\ \A j, k \in 1 .. m : stack[j] = stack[k] => j = k
      /\ \A k \in 1 .. m : next[stack[k]] = at(k + 1)
  BY DEF FreeStack
<1>3. Slot(top) = stack[1]
  BY SlotOnTop
<1>4. \A k \in 1 .. p : k + 1 \in 1 .. m /\ k + 1 # 1 /\ rest[k] = stack[k + 1]
  BY <1>1
<1>5. 1 \in 1 .. m
  BY <1>1
<1>6. rest \in [1 .. p -> S \ {Slot(top)}]
  BY <1>2, <1>3, <1>4, <1>5
<1>7. \A j, k \in 1 .. p : rest[j] = rest[k] => j = k
  <2> SUFFICES ASSUME NEW j \in 1 .. p, NEW k \in 1 .. p, rest[j] = rest[k] PROVE j = k
    OBVIOUS
  <2>1. j + 1 = k + 1
    BY <1>2, <1>4
  <2> QED BY <2>1
<1> HIDE DEF rest
<1>8. \A k \in Nat \ {0} : below(k) = at(k + 1)
  <2> SUFFICES ASSUME NEW k \in Nat \ {0} PROVE below(k) = at(k + 1)
    OBVIOUS
  <2>1. k <= p <=> k + 1 <= m
    BY <1>1
  <2>2. k <= p => rest[k] = stack[k + 1]
    BY <1>4
  <2> QED BY <2>1, <2>2
<1>9. next[Slot(top)] = below(1)
  BY <1>2, <1>3, <1>5, <1>8
<1>10. \A k \in 1 .. p : next[rest[k]] = below(k + 1)
  <2> SUFFICES ASSUME NEW k \in 1 .. p PROVE next[rest[k]] = below(k + 1)
    OBVIOUS
  <2>1. PICK j \in 1 .. m : j = k + 1
    BY <1>4
  <2>2. next[stack[j]] = at(j + 1) /\ rest[k] = stack[j]
    BY <2>1, <1>2, <1>4
  <2>3. below(j) = at(j + 1)
    BY <2>1, <1>8
  <2> QED BY <2>1, <2>2, <2>3
<1>11. FreeStack(rest, p, next[Slot(top)], next, S \ {Slot(top)})
  BY <1>6, <1>7, <1>9, <1>10 DEF FreeStack
<1>12. m - 1 = p
  BY <1>1
<1> QED BY <1>11, <1>12

(* A slot that was not on the stack is pushed.                             *)
LEMMA StackPushed ==
  ASSUME NEW m \in Nat, NEW top, NEW next, NEW S \in SUBSET Nat,
         NEW stack, FreeStack(stack, m, top, next, S),
         NEW x \in Nat, x \notin S, NEW new, new[x] = top, \A s \in S : new[s] = next[s]
  PROVE  \E more : FreeStack(more, m + 1, Link(x), new, S \cup {x})
<1> DEFINE more == [k \in 1 .. m + 1 |-> IF k = 1 THEN x ELSE stack[k - 1]]
           at(k) == IF k <= m THEN Link(stack[k]) ELSE Nil
           above(k) == IF k <= m + 1 THEN Link(more[k]) ELSE Nil
<1>1. /\ stack \in [1 .. m -> S] /\ \A j, k \in 1 .. m : stack[j] = stack[k] => j = k
      /\ \A k \in 1 .. m : next[stack[k]] = at(k + 1)
      /\ top = at(1)
  BY DEF FreeStack
<1>2. \A k \in 1 .. m + 1 : k # 1 => k - 1 \in 1 .. m /\ more[k] = stack[k - 1]
  OBVIOUS
<1>3. 1 \in 1 .. m + 1 /\ more[1] = x
  OBVIOUS
<1>4. more \in [1 .. m + 1 -> S \cup {x}]
  BY <1>1, <1>2, <1>3
<1> HIDE DEF more
<1>5. \A j, k \in 1 .. m + 1 : more[j] = more[k] => j = k
  <2> SUFFICES ASSUME NEW j \in 1 .. m + 1, NEW k \in 1 .. m + 1, more[j] = more[k]
               PROVE  j = k
    OBVIOUS
  <2>1. CASE j # 1 /\ k # 1
    <3>1. j - 1 = k - 1
      BY <2>1, <1>1, <1>2
    <3> QED BY <3>1
  <2>2. CASE j = 1 /\ k # 1
    BY <2>2, <1>1, <1>2, <1>3
  <2>3. CASE j # 1 /\ k = 1
    BY <2>3, <1>1, <1>2, <1>3
  <2> QED BY <2>1, <2>2, <2>3
<1>6. \A k \in 1 .. m + 1 : above(k + 1) = at(k)
  <2> SUFFICES ASSUME NEW k \in 1 .. m + 1 PROVE above(k + 1) = at(k)
    OBVIOUS
  <2>1. k + 1 <= m + 1 <=> k <= m
    OBVIOUS
  <2>2. CASE k <= m
    <3>1. PICK j \in 1 .. m + 1 : j = k + 1 /\ j # 1 /\ j - 1 = k
      BY <2>2
    <3>2. more[j] = stack[k]
      BY <3>1, <1>2
    <3> QED BY <2>1, <2>2, <3>1, <3>2
  <2> QED BY <2>1, <2>2
<1>7. above(1) = Link(x)
  BY <1>3
<1>8. \A k \in 1 .. m + 1 : new[more[k]] = above(k + 1)
  <2> SUFFICES ASSUME NEW k \in 1 .. m + 1 PROVE new[more[k]] = above(k + 1)
    OBVIOUS
  <2>1. above(k + 1) = at(k)
    BY <1>6
  <2>2. CASE k = 1
    BY <2>1, <2>2, <1>1, <1>3
  <2>3. CASE k # 1
    <3>1. PICK j \in 1 .. m : j = k - 1 /\ k = j + 1
      BY <2>3, <1>2
    <3>2. more[k] = stack[j] /\ stack[j] \in S
      BY <3>1, <2>3, <1>1, <1>2
    <3>3. next[stack[j]] = at(j + 1)
      BY <1>1
    <3> QED BY <2>1, <3>1, <3>2, <3>3
  <2> QED BY <2>2, <2>3
<1> HIDE DEF above, at
<1>9. FreeStack(more, m + 1, Link(x), new, S \cup {x})
  BY <1>4, <1>5, <1>7, <1>8 DEF FreeStack, above
<1> QED BY <1>9
=============================================================================
