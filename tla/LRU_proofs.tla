------------------------------ MODULE LRU_proofs ------------------------------
(***************************************************************************)
(* Proofs about the LRU cache of LRU: its recency list, its bucket table   *)
(* and its stack of free slots agree after every call.                     *)
(***************************************************************************)
EXTENDS LRU, ProbeTable_proofs

-----------------------------------------------------------------------------
(* Chains: the links of the recency list, oldest first, between two Nils.  *)

\* The links of chain are those of n slots of S, each once.
Orders(chain, n, S) ==
  /\ n \in Nat /\ chain \in [0 .. n + 1 -> Nat]
  /\ chain[0] = Nil /\ chain[n + 1] = Nil
  /\ \A k \in 1 .. n : chain[k] # Nil /\ Slot(chain[k]) \in S
  /\ \A j, k \in 1 .. n : chain[j] = chain[k] => j = k

\* The list's ends and its cells spell the chain.
Spells(chain, n, head, tail, prevs, nexts) ==
  /\ head = chain[1] /\ tail = chain[n]
  /\ \A k \in 1 .. n : /\ prevs[Slot(chain[k])] = chain[k - 1]
                       /\ nexts[Slot(chain[k])] = chain[k + 1]

\* The slots of a chain.
SlotsOf(chain, n) == {Slot(chain[k]) : k \in 1 .. n}

Without(chain, n, k) == [j \in 0 .. n |-> IF j < k THEN chain[j] ELSE chain[j + 1]]

With(chain, n, l) ==
  [j \in 0 .. n + 2 |-> IF j <= n THEN chain[j] ELSE IF j = n + 1 THEN l ELSE Nil]

(* Links that are not Nil are told apart by their slots.                   *)
LEMMA LinksOfSlots ==
  /\ \A l \in Nat : l # Nil => Slot(l) \in Nat /\ Link(Slot(l)) = l
  /\ \A s \in Nat : Slot(Link(s)) = s /\ Link(s) \in Nat \ {0} /\ Link(s) # Nil
  BY DEF Slot, Link, Nil

LEMMA ChainLinks ==
  ASSUME NEW chain, NEW n, NEW S, Orders(chain, n, S)
  PROVE  /\ n \in Nat
         /\ \A k \in 1 .. n : /\ chain[k] \in Nat /\ chain[k] # Nil
                              /\ Link(Slot(chain[k])) = chain[k]
                              /\ Slot(chain[k]) \in S /\ Slot(chain[k]) \in Nat
         /\ \A j, k \in 1 .. n : Slot(chain[j]) = Slot(chain[k]) => j = k
         /\ \A k \in 0 .. n + 1 : chain[k] = Nil <=> k = 0 \/ k = n + 1
<1>1. n \in Nat /\ chain \in [0 .. n + 1 -> Nat] /\ chain[0] = Nil /\ chain[n + 1] = Nil
  BY DEF Orders
<1>2. \A k \in 1 .. n : k \in 0 .. n + 1 /\ chain[k] \in Nat
  BY <1>1
<1>3. \A k \in 1 .. n : chain[k] # Nil /\ Slot(chain[k]) \in S
  BY DEF Orders
<1>4. \A k \in 1 .. n : Link(Slot(chain[k])) = chain[k] /\ Slot(chain[k]) \in Nat
  BY <1>2, <1>3, LinksOfSlots
<1>5. \A j, k \in 1 .. n : Slot(chain[j]) = Slot(chain[k]) => j = k
  BY <1>4 DEF Orders
<1>6. \A k \in 0 .. n + 1 : chain[k] = Nil <=> k = 0 \/ k = n + 1
  BY <1>1, <1>3
<1> QED BY <1>1, <1>2, <1>3, <1>4, <1>5, <1>6

(* A chain without one of its links.                                       *)
LEMMA WithoutOrders ==
  ASSUME NEW chain, NEW n, NEW S, Orders(chain, n, S), NEW k \in 1 .. n
  PROVE  LET rest == Without(chain, n, k)
         IN /\ n - 1 \in Nat /\ Orders(rest, n - 1, S)
            /\ SlotsOf(rest, n - 1) = SlotsOf(chain, n) \ {Slot(chain[k])}
<1> DEFINE rest == Without(chain, n, k)
           Place(j) == IF j < k THEN j ELSE j + 1
<1>1. n \in Nat /\ n - 1 \in Nat /\ chain \in [0 .. n + 1 -> Nat]
      /\ chain[0] = Nil /\ chain[n + 1] = Nil /\ k \in Nat /\ 1 <= k /\ k <= n
  BY DEF Orders
<1>2. (n - 1) + 1 = n
  BY <1>1
<1>3. \A j \in 0 .. n : rest[j] = chain[Place(j)] /\ Place(j) \in 0 .. n + 1
  BY <1>1 DEF Without
<1>4. rest = [j \in 0 .. n |-> rest[j]]
  BY DEF Without
<1> HIDE DEF rest
<1>5. rest \in [0 .. n -> Nat]
  BY <1>1, <1>3, <1>4
<1>6. \A j \in 1 .. n - 1 : Place(j) \in 1 .. n /\ Place(j) # k
  BY <1>1
<1>7. \A i, j \in 1 .. n - 1 : Place(i) = Place(j) => i = j
  BY <1>1
<1>8. \A i \in 1 .. n : i # k => \E j \in 1 .. n - 1 : Place(j) = i
  <2> SUFFICES ASSUME NEW i \in 1 .. n, i # k PROVE \E j \in 1 .. n - 1 : Place(j) = i
    OBVIOUS
  <2>1. CASE i < k
    <3>1. i \in 1 .. n - 1 /\ Place(i) = i
      BY <2>1, <1>1
    <3> QED BY <3>1
  <2>2. CASE i > k
    <3>1. i - 1 \in 1 .. n - 1 /\ Place(i - 1) = i
      BY <2>2, <1>1
    <3> QED BY <3>1
  <2> QED BY <2>1, <2>2, <1>1
<1>9. Place(0) = 0 /\ Place(n) = n + 1 /\ 0 \in 0 .. n /\ n \in 0 .. n
  BY <1>1
<1>10. \A j \in 1 .. n - 1 : j \in 0 .. n
  BY <1>1
<1> HIDE DEF Place
<1>11. rest[0] = Nil /\ rest[n] = Nil
  BY <1>1, <1>3, <1>9
<1>12. \A j \in 1 .. n - 1 : rest[j] # Nil /\ Slot(rest[j]) \in S
  BY <1>3, <1>6, <1>10 DEF Orders
<1>13. \A i, j \in 1 .. n - 1 : rest[i] = rest[j] => i = j
  BY <1>3, <1>6, <1>7, <1>10 DEF Orders
<1>14. Orders(rest, n - 1, S)
  BY <1>1, <1>2, <1>5, <1>11, <1>12, <1>13 DEF Orders
<1>15. SlotsOf(rest, n - 1) = SlotsOf(chain, n) \ {Slot(chain[k])}
  <2>1. \A i, j \in 1 .. n : Slot(chain[i]) = Slot(chain[j]) => i = j
    BY ChainLinks
  <2>2. \A j \in 1 .. n - 1 : rest[j] = chain[Place(j)]
    BY <1>3, <1>10
  <2> QED BY <2>1, <2>2, <1>6, <1>8 DEF SlotsOf
<1> QED BY <1>1, <1>14, <1>15 DEF rest

(* A chain with one link more.                                             *)
LEMMA WithOrders ==
  ASSUME NEW chain, NEW n, NEW S, Orders(chain, n, S), NEW l \in Nat, l # Nil,
         Slot(l) \in S, Slot(l) \notin SlotsOf(chain, n)
  PROVE  LET more == With(chain, n, l)
         IN /\ Orders(more, n + 1, S)
            /\ SlotsOf(more, n + 1) = SlotsOf(chain, n) \cup {Slot(l)}
<1> DEFINE more == With(chain, n, l)
<1>1. n \in Nat /\ n + 1 \in Nat /\ chain \in [0 .. n + 1 -> Nat]
      /\ chain[0] = Nil /\ chain[n + 1] = Nil
  BY DEF Orders
<1>2. (n + 1) + 1 = n + 2 /\ 0 \in 0 .. n + 1 /\ Nil \in Nat
  BY <1>1 DEF Nil
<1>3. more = [j \in 0 .. n + 2 |-> more[j]]
  BY DEF With
<1>4. /\ \A j \in 0 .. n : more[j] = chain[j] /\ chain[j] \in Nat
      /\ more[n + 1] = l /\ more[n + 2] = Nil
  BY <1>1 DEF With
<1> HIDE DEF more
<1>5. \A j \in 0 .. n + 2 : j \in 0 .. n \/ j = n + 1 \/ j = n + 2
  BY <1>1
<1>6. more \in [0 .. n + 2 -> Nat]
  BY <1>2, <1>3, <1>4, <1>5
<1>7. \A j \in 1 .. n + 1 : j = n + 1 \/ (j \in 1 .. n /\ j \in 0 .. n)
  BY <1>1
<1>8. /\ n + 1 \in 1 .. n + 1 /\ 0 \in 0 .. n
      /\ \A j \in 1 .. n : j \in 1 .. n + 1 /\ j \in 0 .. n
  BY <1>1
<1>9. \A j \in 1 .. n + 1 : more[j] # Nil /\ Slot(more[j]) \in S
  BY <1>4, <1>7 DEF Orders
<1>10. \A j \in 1 .. n : more[j] # l
  BY <1>4, <1>8 DEF SlotsOf
<1>11. \A i, j \in 1 .. n + 1 : more[i] = more[j] => i = j
  BY <1>4, <1>7, <1>10 DEF Orders
<1>12. Orders(more, n + 1, S)
  BY <1>1, <1>2, <1>4, <1>6, <1>8, <1>9, <1>11 DEF Orders
<1>13. SlotsOf(more, n + 1) = SlotsOf(chain, n) \cup {Slot(l)}
  BY <1>4, <1>7, <1>8 DEF SlotsOf
<1> QED BY <1>12, <1>13 DEF more

(* What a guarded write changes in a block of links.                       *)
LEMMA SetIfWrites ==
  ASSUME NEW links, NEW l, NEW x, l = Nil \/ Slot(l) \in DOMAIN links
  PROVE  LET new == SetIf(links, l, x)
         IN /\ DOMAIN new = DOMAIN links
            /\ l # Nil => new[Slot(l)] = x
            /\ \A i \in DOMAIN links : l = Nil \/ i # Slot(l) => new[i] = links[i]
  BY DEF SetIf

(* Unlinking a slot makes the list spell the chain without it.             *)
LEMMA UnlinkedSpells ==
  ASSUME NEW chain, NEW n, NEW S, Orders(chain, n, S), NEW k \in 1 .. n,
         NEW head, NEW tail, NEW prevs, NEW nexts,
         Spells(chain, n, head, tail, prevs, nexts),
         S \subseteq DOMAIN prevs, S \subseteq DOMAIN nexts
  PROVE  LET s == Slot(chain[k])
             p == prevs[s]
             q == nexts[s]
             ps == SetIf(prevs, q, p)
             ns == SetIf(nexts, p, q)
         IN /\ Spells(Without(chain, n, k), n - 1, IF p = Nil THEN q ELSE head,
                      IF q = Nil THEN p ELSE tail, ps, ns)
            /\ DOMAIN ps = DOMAIN prevs /\ DOMAIN ns = DOMAIN nexts
            /\ \A i \in DOMAIN nexts : i \notin SlotsOf(chain, n) => ns[i] = nexts[i]
<1> DEFINE s == Slot(chain[k])
           p == prevs[s]
           q == nexts[s]
           ps == SetIf(prevs, q, p)
           ns == SetIf(nexts, p, q)
           rest == Without(chain, n, k)
<1>1. /\ n \in Nat /\ k \in Nat /\ 1 <= k /\ k <= n
      /\ \A j \in 1 .. n : Slot(chain[j]) \in S
      /\ \A i, j \in 1 .. n : Slot(chain[i]) = Slot(chain[j]) => i = j
      /\ \A j \in 0 .. n + 1 : chain[j] = Nil <=> j = 0 \/ j = n + 1
  BY ChainLinks
<1>2. /\ head = chain[1] /\ tail = chain[n]
      /\ \A j \in 1 .. n : /\ prevs[Slot(chain[j])] = chain[j - 1]
                           /\ nexts[Slot(chain[j])] = chain[j + 1]
  BY DEF Spells
<1>3. p = chain[k - 1] /\ q = chain[k + 1]
  BY <1>2
<1>4. /\ \A j \in 0 .. k - 1 : rest[j] = chain[j]
      /\ \A j \in k .. n : rest[j] = chain[j + 1]
  BY <1>1 DEF Without
<1>5. (p = Nil <=> k = 1) /\ (q = Nil <=> k = n)
  <2>1. k - 1 \in 0 .. n + 1 /\ k + 1 \in 0 .. n + 1
    BY <1>1
  <2>2. (chain[k - 1] = Nil <=> (k - 1 = 0 \/ k - 1 = n + 1))
        /\ (chain[k + 1] = Nil <=> (k + 1 = 0 \/ k + 1 = n + 1))
    BY <2>1, <1>1
  <2> QED BY <2>2, <1>1, <1>3
<1>6. (k # 1 => k - 1 \in 1 .. n) /\ (k # n => k + 1 \in 1 .. n)
  BY <1>1
<1>7. /\ p = Nil \/ Slot(p) \in DOMAIN nexts
      /\ q = Nil \/ Slot(q) \in DOMAIN prevs
  BY <1>1, <1>3, <1>5, <1>6
<1> HIDE DEF p, q, rest, s
<1>8. /\ DOMAIN ps = DOMAIN prevs
      /\ q # Nil => ps[Slot(q)] = p
      /\ \A i \in DOMAIN prevs : q = Nil \/ i # Slot(q) => ps[i] = prevs[i]
  BY <1>7, SetIfWrites
<1>9. /\ DOMAIN ns = DOMAIN nexts
      /\ p # Nil => ns[Slot(p)] = q
      /\ \A i \in DOMAIN nexts : p = Nil \/ i # Slot(p) => ns[i] = nexts[i]
  BY <1>7, SetIfWrites
<1> HIDE DEF ps, ns
<1>10. /\ \A j \in 1 .. n : j # k + 1 => ps[Slot(chain[j])] = chain[j - 1]
       /\ k # n => ps[Slot(chain[k + 1])] = chain[k - 1]
  <2>1. ASSUME NEW j \in 1 .. n, j # k + 1 PROVE ps[Slot(chain[j])] = chain[j - 1]
    <3>1. q = Nil \/ Slot(chain[j]) # Slot(q)
      BY <2>1, <1>1, <1>3, <1>5, <1>6
    <3> QED BY <3>1, <1>1, <1>2, <1>8
  <2> QED BY <2>1, <1>3, <1>5, <1>8
<1>11. /\ \A j \in 1 .. n : j # k - 1 => ns[Slot(chain[j])] = chain[j + 1]
       /\ k # 1 => ns[Slot(chain[k - 1])] = chain[k + 1]
  <2>1. ASSUME NEW j \in 1 .. n, j # k - 1 PROVE ns[Slot(chain[j])] = chain[j + 1]
    <3>1. p = Nil \/ Slot(chain[j]) # Slot(p)
      BY <2>1, <1>1, <1>3, <1>5, <1>6
    <3> QED BY <3>1, <1>1, <1>2, <1>9
  <2> QED BY <2>1, <1>3, <1>5, <1>9
<1>12. ASSUME NEW j \in 1 .. n - 1
       PROVE  /\ ps[Slot(rest[j])] = rest[j - 1]
              /\ ns[Slot(rest[j])] = rest[j + 1]
  <2>1. CASE j < k
    <3>1. /\ j \in 0 .. k - 1 /\ j - 1 \in 0 .. k - 1 /\ j \in 1 .. n /\ j # k + 1
          /\ j # k - 1 => j + 1 \in 0 .. k - 1
          /\ j = k - 1 => k # 1 /\ j + 1 = k /\ k \in k .. n
      BY <2>1, <1>1
    <3>2. rest[j] = chain[j] /\ rest[j - 1] = chain[j - 1]
      BY <3>1, <1>4
    <3>3. ps[Slot(rest[j])] = rest[j - 1]
      BY <3>1, <3>2, <1>10
    <3>4. CASE j # k - 1
      BY <3>1, <3>2, <3>3, <3>4, <1>4, <1>11
    <3>5. CASE j = k - 1
      BY <3>1, <3>2, <3>3, <3>5, <1>4, <1>11
    <3> QED BY <3>4, <3>5
  <2>2. CASE j >= k
    <3>1. /\ j \in k .. n /\ j + 1 \in k .. n /\ j + 1 \in 1 .. n /\ j + 1 # k - 1
          /\ j # k => j - 1 \in k .. n /\ j + 1 # k + 1 /\ (j - 1) + 1 = j /\ (j + 1) - 1 = j
          /\ k \in k .. n /\ k # n /\ k - 1 \in 0 .. k - 1
      BY <2>2, <1>1
    <3>2. rest[j] = chain[j + 1] /\ rest[j + 1] = chain[(j + 1) + 1]
      BY <3>1, <1>4
    <3>3. ns[Slot(rest[j])] = rest[j + 1]
      BY <3>1, <3>2, <1>11
    <3>4. CASE j # k
      BY <3>1, <3>2, <3>3, <3>4, <1>4, <1>10
    <3>5. CASE j = k
      BY <3>1, <3>2, <3>3, <3>5, <1>4, <1>10
    <3> QED BY <3>4, <3>5
  <2> QED BY <2>1, <2>2, <1>1
<1>13. rest[1] = IF p = Nil THEN q ELSE head
  <2>1. /\ k = 1 => 1 \in k .. n
        /\ k # 1 => 1 \in 0 .. k - 1
    BY <1>1
  <2> QED BY <2>1, <1>2, <1>3, <1>4, <1>5
<1>14. rest[n - 1] = IF q = Nil THEN p ELSE tail
  <2>1. /\ k = n => n - 1 \in 0 .. k - 1
        /\ k # n => n - 1 \in k .. n /\ (n - 1) + 1 = n
    BY <1>1
  <2> QED BY <2>1, <1>2, <1>3, <1>4, <1>5
<1>15. Spells(rest, n - 1, IF p = Nil THEN q ELSE head, IF q = Nil THEN p ELSE tail, ps, ns)
  BY <1>12, <1>13, <1>14 DEF Spells
<1>16. \A i \in DOMAIN nexts : i \notin SlotsOf(chain, n) => ns[i] = nexts[i]
  <2>1. p # Nil => Slot(p) \in SlotsOf(chain, n)
    BY <1>3, <1>5, <1>6 DEF SlotsOf
  <2> QED BY <2>1, <1>9
<1> QED BY <1>8, <1>9, <1>15, <1>16 DEF rest, ps, ns, p, q, s

(* Linking a slot at the tail makes the list spell the chain with it.      *)
LEMMA LinkedSpells ==
  ASSUME NEW chain, NEW n, NEW S, Orders(chain, n, S), NEW l \in Nat, l # Nil,
         Slot(l) \notin SlotsOf(chain, n),
         NEW head, NEW tail, NEW prevs, NEW nexts,
         Spells(chain, n, head, tail, prevs, nexts),
         S \subseteq DOMAIN prevs, S \subseteq DOMAIN nexts,
         Slot(l) \in DOMAIN prevs, Slot(l) \in DOMAIN nexts
  PROVE  LET ps == [prevs EXCEPT ![Slot(l)] = tail]
             ns == SetIf([nexts EXCEPT ![Slot(l)] = Nil], tail, l)
         IN /\ Spells(With(chain, n, l), n + 1, IF tail = Nil THEN l ELSE head, l, ps, ns)
            /\ DOMAIN ps = DOMAIN prevs /\ DOMAIN ns = DOMAIN nexts
            /\ \A i \in DOMAIN nexts :
                 i \notin SlotsOf(chain, n) \cup {Slot(l)} => ns[i] = nexts[i]
<1> DEFINE s == Slot(l)
           blank == [nexts EXCEPT ![s] = Nil]
           ps == [prevs EXCEPT ![s] = tail]
           ns == SetIf(blank, tail, l)
           more == With(chain, n, l)
<1>1. /\ n \in Nat
      /\ \A j \in 1 .. n : Slot(chain[j]) \in S
      /\ \A i, j \in 1 .. n : Slot(chain[i]) = Slot(chain[j]) => i = j
      /\ \A j \in 0 .. n + 1 : chain[j] = Nil <=> j = 0 \/ j = n + 1
  BY ChainLinks
<1>2. /\ head = chain[1] /\ tail = chain[n]
      /\ \A j \in 1 .. n : /\ prevs[Slot(chain[j])] = chain[j - 1]
                           /\ nexts[Slot(chain[j])] = chain[j + 1]
  BY DEF Spells
<1>3. tail = Nil <=> n = 0
  <2>1. n \in 0 .. n + 1
    BY <1>1
  <2>2. chain[n] = Nil <=> n = 0 \/ n = n + 1
    BY <2>1, <1>1
  <2> QED BY <2>2, <1>1, <1>2
<1>4. n # 0 => n \in 1 .. n
  BY <1>1
<1>5. \A j \in 1 .. n : Slot(chain[j]) # s
  BY DEF SlotsOf
<1>6. /\ DOMAIN ps = DOMAIN prevs /\ DOMAIN blank = DOMAIN nexts
      /\ ps[s] = tail /\ blank[s] = Nil
      /\ \A i \in DOMAIN prevs : i # s => ps[i] = prevs[i]
      /\ \A i \in DOMAIN nexts : i # s => blank[i] = nexts[i]
  OBVIOUS
<1>7. tail = Nil \/ Slot(tail) \in DOMAIN blank
  BY <1>1, <1>2, <1>3, <1>4, <1>6
<1> HIDE DEF blank, ps
<1>8. /\ DOMAIN ns = DOMAIN blank
      /\ tail # Nil => ns[Slot(tail)] = l
      /\ \A i \in DOMAIN blank : tail = Nil \/ i # Slot(tail) => ns[i] = blank[i]
  BY <1>7, SetIfWrites
<1> HIDE DEF ns
<1>9. /\ \A j \in 0 .. n : more[j] = chain[j]
      /\ more[n + 1] = l /\ more[n + 2] = Nil
  BY <1>1 DEF With
<1> HIDE DEF more, s
<1>10. ASSUME NEW j \in 1 .. n
       PROVE  /\ ps[Slot(more[j])] = more[j - 1]
              /\ ns[Slot(more[j])] = more[j + 1]
  <2>1. /\ j \in 0 .. n /\ j - 1 \in 0 .. n
        /\ j # n => j + 1 \in 0 .. n
    BY <1>1
  <2>2. more[j] = chain[j] /\ more[j - 1] = chain[j - 1]
    BY <2>1, <1>9
  <2>3. ps[Slot(chain[j])] = chain[j - 1]
    BY <1>1, <1>2, <1>5, <1>6
  <2>4. CASE j = n
    <3>1. tail # Nil /\ ns[Slot(chain[j])] = l
      BY <2>4, <1>1, <1>2, <1>3, <1>8
    <3> QED BY <2>2, <2>3, <2>4, <3>1, <1>9
  <2>5. CASE j # n
    <3>1. Slot(chain[j]) \in DOMAIN nexts /\ (tail = Nil \/ Slot(chain[j]) # Slot(tail))
      BY <2>5, <1>1, <1>2, <1>3, <1>4
    <3>2. ns[Slot(chain[j])] = chain[j + 1]
      BY <3>1, <1>2, <1>5, <1>6, <1>8
    <3> QED BY <2>1, <2>2, <2>3, <2>5, <3>2, <1>9
  <2> QED BY <2>4, <2>5
<1>11. ps[Slot(more[n + 1])] = more[(n + 1) - 1] /\ ns[Slot(more[n + 1])] = more[(n + 1) + 1]
  <2>1. (n + 1) - 1 = n /\ (n + 1) + 1 = n + 2 /\ n \in 0 .. n
    BY <1>1
  <2>2. tail = Nil \/ s # Slot(tail)
    BY <1>2, <1>3, <1>4, <1>5
  <2>3. ns[s] = Nil
    BY <2>2, <1>6, <1>8 DEF s
  <2> QED BY <2>1, <2>3, <1>2, <1>6, <1>9 DEF s
<1>12. \A j \in 1 .. n + 1 : j = n + 1 \/ j \in 1 .. n
  BY <1>1
<1>13. more[1] = IF tail = Nil THEN l ELSE head
  <2>1. n # 0 => 1 \in 0 .. n
    BY <1>1
  <2> QED BY <2>1, <1>1, <1>2, <1>3, <1>9
<1>14. Spells(more, n + 1, IF tail = Nil THEN l ELSE head, l, ps, ns)
  BY <1>9, <1>10, <1>11, <1>12, <1>13 DEF Spells
<1>15. \A i \in DOMAIN nexts : i \notin SlotsOf(chain, n) \cup {s} => ns[i] = nexts[i]
  <2>1. tail # Nil => Slot(tail) \in SlotsOf(chain, n)
    BY <1>2, <1>3, <1>4 DEF SlotsOf
  <2> QED BY <2>1, <1>6, <1>8
<1> QED BY <1>6, <1>8, <1>14, <1>15 DEF more, ps, ns, blank, s

-----------------------------------------------------------------------------
(* The record of a cache.                                                  *)

Fields == { "cap", "n", "head", "tail", "free", "fresh", "size", "life", "mask",
            "tab", "ks", "ents", "prevs", "nexts", "words", "due" }

\* The fields that hold a block of the arena.
Blocks(c) ==
  /\ DOMAIN c.ks = Slots(c.size) /\ DOMAIN c.ents = Slots(c.size)
  /\ DOMAIN c.prevs = Slots(c.size) /\ DOMAIN c.nexts = Slots(c.size)
  /\ DOMAIN c.words = Slots(c.size) /\ DOMAIN c.due = Slots(c.size)

\* Only the fields F of c differ in d.
Changes(c, d, F) == DOMAIN d = Fields /\ \A f \in Fields \ F : d[f] = c[f]

ListFields == {"head", "tail", "prevs", "nexts"}

(* What the program's record operations make of the fields.                *)
LEMMA UnlinkedFields ==
  ASSUME NEW c, DOMAIN c = Fields, NEW s
  PROVE  LET d == Unlinked(c, s)
             p == c.prevs[s]
             q == c.nexts[s]
         IN /\ d.head = (IF p = Nil THEN q ELSE c.head)
            /\ d.tail = (IF q = Nil THEN p ELSE c.tail)
            /\ d.prevs = SetIf(c.prevs, q, p) /\ d.nexts = SetIf(c.nexts, p, q)
            /\ Changes(c, d, ListFields)
  BY DEF Unlinked, Fields, Changes, ListFields

LEMMA LinkTailFields ==
  ASSUME NEW c, DOMAIN c = Fields, NEW s
  PROVE  LET d == LinkTail(c, s)
         IN /\ d.head = (IF c.tail = Nil THEN Link(s) ELSE c.head)
            /\ d.tail = Link(s)
            /\ d.prevs = [c.prevs EXCEPT ![s] = c.tail]
            /\ d.nexts = SetIf([c.nexts EXCEPT ![s] = Nil], c.tail, Link(s))
            /\ Changes(c, d, ListFields)
  BY DEF LinkTail, Fields, Changes, ListFields

-----------------------------------------------------------------------------
(* Caches whose parts agree.                                               *)

Sized(c) ==
  /\ DOMAIN c = Fields
  /\ c.n \in Nat /\ c.fresh \in Nat /\ c.size \in Nat \ {0}
  /\ c.n <= c.fresh /\ c.fresh <= c.size
  /\ Blocks(c)

ListGood(c, chain) ==
  /\ Orders(chain, c.n, Slots(c.fresh))
  /\ Spells(chain, c.n, c.head, c.tail, c.prevs, c.nexts)

\* The slots L are those of the pairs in the table, each under its word.
TableGood(c, L) ==
  /\ Table(c.tab, c.mask) /\ Keyed(c.ks, Pairs(c.tab)) /\ 2 * c.n <= c.mask + 1
  /\ Pairs(c.tab) = {Bucket(c.words[s], Link(s)) : s \in L}

\* The slots that are not in L are on the free stack.
FreeGood(c, L) ==
  \E stack : FreeStack(stack, c.fresh - c.n, c.free, c.nexts, Slots(c.fresh) \ L)

Good(c, chain) ==
  /\ Sized(c) /\ ListGood(c, chain)
  /\ TableGood(c, SlotsOf(chain, c.n)) /\ FreeGood(c, SlotsOf(chain, c.n))

\* The slots S keep what they hold.
Same(c, d, S) ==
  \A s \in S : /\ d.words[s] = c.words[s] /\ d.ks[s] = c.ks[s]
               /\ d.ents[s] = c.ents[s] /\ d.due[s] = c.due[s]

LEMMA SlotsGrow ==
  ASSUME NEW m \in Nat, NEW n \in Nat, m <= n
  PROVE  Slots(m) \subseteq Slots(n)
  BY DEF Slots

(* The slots that are in use or free lie within the blocks.                *)
LEMMA GoodSlots ==
  ASSUME NEW c, NEW chain, Good(c, chain)
  PROVE  /\ Slots(c.fresh) \subseteq Slots(c.size) /\ Slots(c.size) \subseteq Nat
         /\ DOMAIN c.prevs = Slots(c.size) /\ DOMAIN c.nexts = Slots(c.size)
         /\ SlotsOf(chain, c.n) \subseteq Slots(c.fresh)
         /\ c.fresh - c.n \in Nat /\ c.n \in Nat
<1>1. Slots(c.fresh) \subseteq Slots(c.size) /\ Slots(c.size) \subseteq Nat
  BY DEF Good, Sized, Slots
<1>2. SlotsOf(chain, c.n) \subseteq Slots(c.fresh)
  BY DEF Good, ListGood, Orders, SlotsOf
<1>3. c.fresh - c.n \in Nat /\ c.n \in Nat
  BY DEF Good, Sized
<1> QED BY <1>1, <1>2, <1>3 DEF Good, Sized, Blocks

(* The free stack only depends on the cells of the free slots.             *)
LEMMA StackKept ==
  ASSUME NEW m, NEW top, NEW next, NEW S, NEW stack, FreeStack(stack, m, top, next, S),
         NEW new, \A s \in S : new[s] = next[s]
  PROVE  FreeStack(stack, m, top, new, S)
  BY DEF FreeStack

(* The last link of a chain stays where it is when it is moved to the end. *)
LEMMA LastMoved ==
  ASSUME NEW chain, NEW n, NEW S, Orders(chain, n, S), n # 0
  PROVE  With(Without(chain, n, n), n - 1, chain[n]) = chain
<1> DEFINE rest == Without(chain, n, n)
<1>1. n \in Nat /\ chain \in [0 .. n + 1 -> Nat] /\ chain[n + 1] = Nil
  BY DEF Orders
<1>2. (n - 1) + 1 = n /\ (n - 1) + 2 = n + 1 /\ \A j \in 0 .. n - 1 : j < n /\ j \in 0 .. n
  BY <1>1
<1>3. \A j \in 0 .. n - 1 : rest[j] = chain[j]
  BY <1>2 DEF Without
<1> HIDE DEF rest
<1>4. With(rest, n - 1, chain[n]) =
        [j \in 0 .. n + 1 |-> IF j <= n - 1 THEN rest[j] ELSE IF j = n THEN chain[n] ELSE Nil]
  BY <1>2 DEF With
<1>5. ASSUME NEW j \in 0 .. n + 1
      PROVE (IF j <= n - 1 THEN rest[j] ELSE IF j = n THEN chain[n] ELSE Nil) = chain[j]
  <2>1. (j <= n - 1 /\ j \in 0 .. n - 1) \/ (~ (j <= n - 1) /\ j = n) \/ (~ (j <= n - 1) /\ j # n /\ j = n + 1)
    BY <1>1
  <2> QED BY <2>1, <1>1, <1>3
<1>6. chain = [j \in 0 .. n + 1 |-> chain[j]]
  BY <1>1
<1> QED BY <1>4, <1>5, <1>6 DEF rest

(* Moving an entry to the end of the list keeps all the rest.              *)
LEMMA TouchedIsGood ==
  ASSUME NEW c, NEW chain, Good(c, chain), NEW k \in 1 .. c.n
  PROVE  LET d == Touched(c, Slot(chain[k]))
         IN /\ Good(d, With(Without(chain, c.n, k), c.n - 1, chain[k]))
            /\ Changes(c, d, ListFields)
<1> DEFINE n == c.n
           s == Slot(chain[k])
           L == SlotsOf(chain, n)
           S == Slots(c.fresh)
           rest == Without(chain, n, k)
           new == With(rest, n - 1, chain[k])
           e == Unlinked(c, s)
           d == LinkTail(e, s)
<1>1. /\ S \subseteq DOMAIN c.prevs /\ S \subseteq DOMAIN c.nexts
      /\ L \subseteq S /\ n \in Nat /\ DOMAIN c = Fields
  BY GoodSlots DEF Good, Sized
<1>2. Orders(chain, n, S) /\ Spells(chain, n, c.head, c.tail, c.prevs, c.nexts)
  BY DEF Good, ListGood
<1>3. chain[k] \in Nat /\ chain[k] # Nil /\ Link(s) = chain[k] /\ s \in L
  BY <1>2, ChainLinks DEF SlotsOf
<1>4. CASE Link(s) = c.tail
  <2>1. Touched(c, s) = c
    BY <1>4 DEF Touched
  <2>2. k = n
    <3>1. n \in 1 .. n /\ chain[k] = chain[n]
      BY <1>1, <1>2, <1>3, <1>4 DEF Spells
    <3> QED BY <3>1, <1>2 DEF Orders
  <2>3. new = chain
    BY <2>2, <1>1, <1>2, LastMoved
  <2> QED BY <2>1, <2>3, <1>1 DEF Changes
<1>5. CASE Link(s) # c.tail
  <2>1. Touched(c, s) = d
    BY <1>5 DEF Touched
  <2>2. /\ n - 1 \in Nat /\ Orders(rest, n - 1, S) /\ SlotsOf(rest, n - 1) = L \ {s}
        /\ (n - 1) + 1 = n
    BY <1>1, <1>2, WithoutOrders
  <2>3. /\ Changes(c, e, ListFields) /\ DOMAIN e = Fields
        /\ Spells(rest, n - 1, e.head, e.tail, e.prevs, e.nexts)
        /\ DOMAIN e.prevs = DOMAIN c.prevs /\ DOMAIN e.nexts = DOMAIN c.nexts
        /\ \A i \in DOMAIN c.nexts : i \notin L => e.nexts[i] = c.nexts[i]
    <3>1. /\ e.head = (IF c.prevs[s] = Nil THEN c.nexts[s] ELSE c.head)
          /\ e.tail = (IF c.nexts[s] = Nil THEN c.prevs[s] ELSE c.tail)
          /\ e.prevs = SetIf(c.prevs, c.nexts[s], c.prevs[s])
          /\ e.nexts = SetIf(c.nexts, c.prevs[s], c.nexts[s])
          /\ Changes(c, e, ListFields)
      BY <1>1, UnlinkedFields
    <3> HIDE DEF e, rest
    <3> QED BY <3>1, <1>1, <1>2, UnlinkedSpells DEF rest, Changes
  <2> HIDE DEF e, rest
  <2>4. /\ Changes(e, d, ListFields)
        /\ Spells(new, (n - 1) + 1, d.head, d.tail, d.prevs, d.nexts)
        /\ DOMAIN d.prevs = DOMAIN e.prevs /\ DOMAIN d.nexts = DOMAIN e.nexts
        /\ \A i \in DOMAIN e.nexts :
             i \notin SlotsOf(rest, n - 1) \cup {s} => d.nexts[i] = e.nexts[i]
    <3>1. /\ d.head = (IF e.tail = Nil THEN Link(s) ELSE e.head)
          /\ d.tail = Link(s)
          /\ d.prevs = [e.prevs EXCEPT ![s] = e.tail]
          /\ d.nexts = SetIf([e.nexts EXCEPT ![s] = Nil], e.tail, Link(s))
          /\ Changes(e, d, ListFields)
      BY <2>3, LinkTailFields
    <3>2. /\ S \subseteq DOMAIN e.prevs /\ S \subseteq DOMAIN e.nexts
          /\ s \in DOMAIN e.prevs /\ s \in DOMAIN e.nexts /\ s \notin SlotsOf(rest, n - 1)
      BY <1>1, <1>3, <2>2, <2>3
    <3>3. PICK l, m : l = chain[k] /\ m = n - 1
      OBVIOUS
    <3>4. l \in Nat /\ l # Nil /\ Slot(l) = s /\ Link(s) = l
      BY <1>3, <3>3
    <3>5. Orders(rest, m, S) /\ Spells(rest, m, e.head, e.tail, e.prevs, e.nexts)
          /\ s \notin SlotsOf(rest, m)
      BY <2>2, <2>3, <3>2, <3>3
    <3> HIDE DEF d, s
    <3>6. /\ Spells(With(rest, m, l), m + 1, IF e.tail = Nil THEN l ELSE e.head,
                    l, [e.prevs EXCEPT ![s] = e.tail],
                    SetIf([e.nexts EXCEPT ![s] = Nil], e.tail, l))
          /\ DOMAIN [e.prevs EXCEPT ![s] = e.tail] = DOMAIN e.prevs
          /\ DOMAIN SetIf([e.nexts EXCEPT ![s] = Nil], e.tail, l) = DOMAIN e.nexts
          /\ \A i \in DOMAIN e.nexts :
               i \notin SlotsOf(rest, m) \cup {s} =>
               SetIf([e.nexts EXCEPT ![s] = Nil], e.tail, l)[i] = e.nexts[i]
      BY <3>2, <3>4, <3>5, LinkedSpells
    <3> QED BY <3>1, <3>3, <3>4, <3>6
  <2>5. Orders(new, n, S) /\ SlotsOf(new, n) = L
    <3>1. Orders(new, (n - 1) + 1, S) /\ SlotsOf(new, (n - 1) + 1) = (L \ {s}) \cup {s}
      BY <1>1, <1>3, <2>2, WithOrders
    <3> QED BY <3>1, <2>2, <1>3
  <2>6. Changes(c, d, ListFields)
    BY <2>3, <2>4 DEF Changes
  <2> HIDE DEF d, new
  <2>7. /\ d.n = n /\ d.fresh = c.fresh /\ d.size = c.size /\ d.ks = c.ks /\ d.ents = c.ents
        /\ d.words = c.words /\ d.due = c.due /\ d.tab = c.tab /\ d.mask = c.mask
        /\ d.free = c.free /\ DOMAIN d = Fields
    BY <2>6 DEF Changes, Fields, ListFields
  <2>8. Sized(d)
    BY <2>3, <2>4, <2>7 DEF Good, Sized, Blocks
  <2>9. ListGood(d, new)
    BY <2>2, <2>4, <2>5, <2>7 DEF ListGood
  <2>10. TableGood(d, L)
    BY <2>7 DEF Good, TableGood
  <2>11. FreeGood(d, L)
    <3>1. \A i \in S \ L : d.nexts[i] = c.nexts[i]
      BY <1>1, <1>3, <2>2, <2>3, <2>4
    <3> QED BY <3>1, <2>7, StackKept DEF Good, FreeGood
  <2> QED BY <2>1, <2>5, <2>6, <2>7, <2>8, <2>9, <2>10, <2>11 DEF Good, new, rest
<1> QED BY <1>4, <1>5

-----------------------------------------------------------------------------
(* Dropping an entry.                                                      *)

\* The cache with another table.
Retabled(c, tab) == [c EXCEPT !.tab = tab]

SlotDropped(c, tab, s, e, d) ==
  /\ d.n = c.n - 1 /\ d.free = Link(s)
  /\ d.ents = [c.ents EXCEPT ![s] = NoValue]
  /\ d.nexts = [e.nexts EXCEPT ![s] = c.free]
  /\ d.head = e.head /\ d.tail = e.tail /\ d.prevs = e.prevs /\ d.tab = tab
  /\ Changes(c, d, ListFields \cup {"n", "free", "ents", "tab"})

LEMMA DropSlotFields ==
  ASSUME NEW c, DOMAIN c = Fields, NEW tab, NEW s
  PROVE  LET b == Retabled(c, tab)
         IN SlotDropped(c, tab, s, Unlinked(b, s), DropSlot(b, s))
<1> DEFINE b == Retabled(c, tab)
           e == Unlinked(b, s)
           d == DropSlot(b, s)
<1>1. DOMAIN b = Fields /\ b.tab = tab /\ \A f \in Fields \ {"tab"} : b[f] = c[f]
  BY DEF Fields, Retabled
<1> HIDE DEF b
<1>2. Changes(b, e, ListFields)
  BY <1>1, UnlinkedFields
<1> HIDE DEF e
<1>3. /\ DOMAIN e = Fields /\ e.tab = tab /\ e.ents = c.ents /\ b.n = c.n /\ b.free = c.free
      /\ \A f \in Fields \ (ListFields \cup {"tab"}) : e[f] = c[f]
  BY <1>1, <1>2 DEF Changes, Fields, ListFields
<1>4. d = [e EXCEPT !.n = c.n - 1, !.ents = [c.ents EXCEPT ![s] = NoValue],
                    !.free = Link(s), !.nexts = [e.nexts EXCEPT ![s] = c.free]]
  BY <1>3 DEF DropSlot, Fields, e
<1> HIDE DEF d
<1>5. /\ d.n = c.n - 1 /\ d.free = Link(s)
      /\ d.ents = [c.ents EXCEPT ![s] = NoValue]
      /\ d.nexts = [e.nexts EXCEPT ![s] = c.free]
  BY <1>3, <1>4 DEF Fields
<1>6. DOMAIN d = Fields /\ \A f \in Fields \ {"n", "ents", "free", "nexts"} : d[f] = e[f]
  BY <1>3, <1>4
<1>7. d.head = e.head /\ d.tail = e.tail /\ d.prevs = e.prevs /\ d.tab = e.tab
  BY <1>6 DEF Fields
<1>8. Changes(c, d, ListFields \cup {"n", "free", "ents", "tab"})
  BY <1>3, <1>6 DEF Changes, ListFields
<1> QED BY <1>3, <1>5, <1>7, <1>8 DEF SlotDropped, b, e, d

\* d is c without its k-th entry.
Dropped(c, chain, k, d) ==
  /\ Good(d, Without(chain, c.n, k)) /\ d.n = c.n - 1
  /\ Changes(c, d, ListFields \cup {"n", "free", "ents", "tab"})
  /\ Same(c, d, SlotsOf(chain, c.n) \ {Slot(chain[k])})

(* Dropping a slot whose pair is out of the table.                         *)
LEMMA DropSlotDrops ==
  ASSUME NEW c, NEW chain, Good(c, chain), NEW k \in 1 .. c.n, NEW s, s = Slot(chain[k]),
         NEW tab, Table(tab, c.mask),
         Pairs(tab) = Pairs(c.tab) \ {Bucket(c.words[s], Link(s))}
  PROVE  Dropped(c, chain, k, DropSlot(Retabled(c, tab), s))
<1> DEFINE b == Retabled(c, tab)
           d == DropSlot(b, s)
           e == Unlinked(b, s)
           S == Slots(c.fresh)
<1>1. PICK n, L, rest : n = c.n /\ L = SlotsOf(chain, n) /\ rest = Without(chain, n, k)
  OBVIOUS
<1>2. /\ S \subseteq Slots(c.size) /\ Slots(c.size) \subseteq Nat /\ L \subseteq S
      /\ DOMAIN c.prevs = Slots(c.size) /\ DOMAIN c.nexts = Slots(c.size)
      /\ c.fresh - n \in Nat /\ n \in Nat /\ DOMAIN c = Fields
  BY <1>1, GoodSlots DEF Good, Sized
<1>3. Orders(chain, n, S) /\ Spells(chain, n, c.head, c.tail, c.prevs, c.nexts) /\ k \in 1 .. n
  BY <1>1 DEF Good, ListGood
<1>4. s \in L /\ s \in S /\ s \in Slots(c.size) /\ s \in Nat
  BY <1>1, <1>2 DEF SlotsOf
<1>5. n - 1 \in Nat /\ Orders(rest, n - 1, S) /\ SlotsOf(rest, n - 1) = L \ {s}
  BY <1>1, <1>3, WithoutOrders
<1>6. /\ DOMAIN b = Fields /\ b.head = c.head /\ b.tail = c.tail
      /\ b.prevs = c.prevs /\ b.nexts = c.nexts
  BY <1>2 DEF Fields, Retabled
<1> HIDE DEF b
<1>7. /\ Spells(rest, n - 1, e.head, e.tail, e.prevs, e.nexts)
      /\ DOMAIN e.prevs = DOMAIN c.prevs /\ DOMAIN e.nexts = DOMAIN c.nexts
      /\ \A i \in DOMAIN c.nexts : i \notin L => e.nexts[i] = c.nexts[i]
  <2>1. /\ e.head = (IF c.prevs[s] = Nil THEN c.nexts[s] ELSE c.head)
        /\ e.tail = (IF c.nexts[s] = Nil THEN c.prevs[s] ELSE c.tail)
        /\ e.prevs = SetIf(c.prevs, c.nexts[s], c.prevs[s])
        /\ e.nexts = SetIf(c.nexts, c.prevs[s], c.nexts[s])
    BY <1>6, UnlinkedFields
  <2>2. S \subseteq DOMAIN c.prevs /\ S \subseteq DOMAIN c.nexts
    BY <1>2
  <2> HIDE DEF e
  <2> QED BY <2>1, <2>2, <1>1, <1>3, UnlinkedSpells
<1>8. /\ d.n = n - 1 /\ d.free = Link(s) /\ d.ents = [c.ents EXCEPT ![s] = NoValue]
      /\ d.nexts = [e.nexts EXCEPT ![s] = c.free]
      /\ d.head = e.head /\ d.tail = e.tail /\ d.prevs = e.prevs /\ d.tab = tab
      /\ Changes(c, d, ListFields \cup {"n", "free", "ents", "tab"})
  <2>1. SlotDropped(c, tab, s, e, d)
    BY <1>2, DropSlotFields DEF b
  <2> HIDE DEF e, d
  <2> QED BY <2>1, <1>1 DEF SlotDropped
<1> HIDE DEF e, d
<1>9. /\ d.fresh = c.fresh /\ d.size = c.size /\ d.ks = c.ks /\ d.words = c.words
      /\ d.due = c.due /\ d.mask = c.mask /\ DOMAIN d = Fields
  BY <1>8 DEF Changes, Fields, ListFields
<1>10. \A i \in DOMAIN c.nexts : i # s => d.nexts[i] = e.nexts[i]
  BY <1>7, <1>8
<1>11. DOMAIN d.nexts = DOMAIN c.nexts /\ d.nexts[s] = c.free
  BY <1>2, <1>4, <1>7, <1>8
<1>12. Sized(d)
  <2>1. Blocks(d)
    BY <1>2, <1>7, <1>8, <1>9, <1>11 DEF Good, Sized, Blocks
  <2> QED BY <2>1, <1>1, <1>5, <1>8, <1>9 DEF Good, Sized
<1>13. ListGood(d, rest)
  <2>1. \A j \in 1 .. n - 1 : d.nexts[Slot(rest[j])] = e.nexts[Slot(rest[j])]
    <3>1. \A j \in 1 .. n - 1 : Slot(rest[j]) \in L \ {s}
      BY <1>5 DEF SlotsOf
    <3> QED BY <3>1, <1>2, <1>10
  <2>2. Spells(rest, n - 1, d.head, d.tail, d.prevs, d.nexts)
    BY <2>1, <1>7, <1>8 DEF Spells
  <2> QED BY <2>2, <1>5, <1>8, <1>9 DEF ListGood
<1>14. TableGood(d, L \ {s})
  <2>1. Pairs(tab) \in SUBSET Pairs(c.tab)
    OBVIOUS
  <2>2. Keyed(c.ks, Pairs(tab))
    BY <2>1, KeyedKept DEF Good, TableGood
  <2>3. Pairs(tab) = {Bucket(c.words[i], Link(i)) : i \in L \ {s}}
    <3>1. Pairs(c.tab) = {Bucket(c.words[i], Link(i)) : i \in L}
      BY <1>1 DEF Good, TableGood
    <3>2. \A i \in L : Bucket(c.words[i], Link(i)) = Bucket(c.words[s], Link(s)) => i = s
      <4>1. \A i \in L : Slot(Bucket(c.words[i], Link(i)).l) = i
        BY <1>2, LinksOfSlots DEF Bucket
      <4> QED BY <4>1, <1>4
    <3> QED BY <3>1, <3>2, <1>4
  <2>4. 2 * (n - 1) <= c.mask + 1
    <3>1. 2 * n <= c.mask + 1 /\ c.mask \in Nat
      BY <1>1 DEF Good, TableGood, Table
    <3> QED BY <3>1, <1>2
  <2>5. Pairs(d.tab) = {Bucket(d.words[i], Link(i)) : i \in L \ {s}}
    BY <2>3, <1>8, <1>9
  <2> QED BY <2>2, <2>4, <2>5, <1>8, <1>9 DEF TableGood
<1>15. FreeGood(d, L \ {s})
  <2>1. PICK stack : FreeStack(stack, c.fresh - n, c.free, c.nexts, S \ L)
    BY <1>1 DEF Good, FreeGood
  <2>2. \A i \in S \ L : d.nexts[i] = c.nexts[i]
    BY <1>2, <1>4, <1>7, <1>10
  <2>3. S \ L \in SUBSET Nat /\ s \notin S \ L
    BY <1>2, <1>4
  <2>4. \E more : FreeStack(more, (c.fresh - n) + 1, Link(s), d.nexts, (S \ L) \cup {s})
    <3>1. PICK m : m = c.fresh - n /\ m \in Nat
      BY <1>2
    <3>2. FreeStack(stack, m, c.free, c.nexts, S \ L)
      BY <2>1, <3>1
    <3>3. \E more : FreeStack(more, m + 1, Link(s), d.nexts, (S \ L) \cup {s})
      BY <3>1, <3>2, <2>2, <2>3, <1>4, <1>11, StackPushed
    <3> QED BY <3>1, <3>3
  <2>5. c.fresh - (n - 1) = (c.fresh - n) + 1 /\ (S \ L) \cup {s} = S \ (L \ {s})
    BY <1>2, <1>4, <1>5 DEF Good, Sized
  <2>6. d.fresh - d.n = (c.fresh - n) + 1
    BY <2>5, <1>8, <1>9
  <2>7. PICK more : FreeStack(more, (c.fresh - n) + 1, Link(s), d.nexts, (S \ L) \cup {s})
    BY <2>4
  <2>8. FreeStack(more, d.fresh - d.n, d.free, d.nexts, Slots(d.fresh) \ (L \ {s}))
    BY <2>5, <2>6, <2>7, <1>8, <1>9
  <2> QED BY <2>8 DEF FreeGood
<1>16. Same(c, d, L \ {s})
  <2>1. DOMAIN c.ents = Slots(c.size)
    BY DEF Good, Sized, Blocks
  <2>2. \A i \in L \ {s} : d.ents[i] = c.ents[i]
    BY <2>1, <1>2, <1>8
  <2> QED BY <2>2, <1>9 DEF Same
<1>17. Good(d, rest)
  BY <1>5, <1>8, <1>12, <1>13, <1>14, <1>15 DEF Good
<1> QED BY <1>1, <1>8, <1>16, <1>17 DEF Dropped, d, b

(* The slots of a chain are as many as its links, and half of the buckets  *)
(* are vacant.                                                             *)
LEMMA ChainCount ==
  ASSUME NEW chain, NEW n, NEW S, Orders(chain, n, S)
  PROVE  IsFiniteSet(SlotsOf(chain, n)) /\ Cardinality(SlotsOf(chain, n)) = n
<1> DEFINE f == [k \in 1 .. n |-> Slot(chain[k])]
           L == SlotsOf(chain, n)
<1>1. n \in Nat /\ \A j, k \in 1 .. n : Slot(chain[j]) = Slot(chain[k]) => j = k
  BY ChainLinks
<1>2. f \in [1 .. n -> L] /\ \A s \in L : \E k \in 1 .. n : f[k] = s
  BY DEF SlotsOf
<1>3. \A j, k \in 1 .. n : f[j] = f[k] => j = k
  BY <1>1
<1> HIDE DEF f, L
<1>4. f \in Bijection(1 .. n, L)
  BY <1>2, <1>3 DEF Bijection, Injection, Surjection, IsInjective
<1>5. IsFiniteSet(1 .. n) /\ Cardinality(1 .. n) = n
  <2>1. IsFiniteSet(1 .. n) /\ Cardinality(1 .. n) = IF 1 > n THEN 0 ELSE n - 1 + 1
    BY <1>1, FS_Interval
  <2> QED BY <2>1, <1>1
<1> QED BY <1>4, <1>5, FS_Bijection DEF ExistsBijection, L

LEMMA GoodTable ==
  ASSUME NEW c, NEW chain, Good(c, chain)
  PROVE  /\ Table(c.tab, c.mask) /\ Keyed(c.ks, Pairs(c.tab)) /\ c.mask \in Nat
         /\ { Slot(b.l) : b \in Pairs(c.tab) } = SlotsOf(chain, c.n)
         /\ Cardinality(Full(c.tab)) = c.n /\ Vacant(c.tab) # {}
         /\ \A k \in 1 .. c.n :
              Bucket(c.words[Slot(chain[k])], chain[k]) \in Pairs(c.tab)
         /\ \A b \in Pairs(c.tab) : \E k \in 1 .. c.n :
              b = Bucket(c.words[Slot(chain[k])], chain[k])
<1>1. PICK n, L : n = c.n /\ L = SlotsOf(chain, n)
  OBVIOUS
<1>2. /\ Table(c.tab, c.mask) /\ Keyed(c.ks, Pairs(c.tab)) /\ 2 * n <= c.mask + 1
      /\ Pairs(c.tab) = {Bucket(c.words[s], Link(s)) : s \in L}
  BY <1>1 DEF Good, TableGood
<1>3. Orders(chain, n, Slots(c.fresh))
  BY <1>1 DEF Good, ListGood
<1>4. L \subseteq Nat /\ \A k \in 1 .. n : Link(Slot(chain[k])) = chain[k]
  BY <1>1, <1>3, ChainLinks DEF SlotsOf
<1>5. { Slot(b.l) : b \in Pairs(c.tab) } = L
  <2>1. \A s \in L : Slot(Bucket(c.words[s], Link(s)).l) = s
    BY <1>4, LinksOfSlots DEF Bucket
  <2> QED BY <2>1, <1>2
<1>6. Cardinality(Full(c.tab)) = n /\ n \in Nat /\ c.mask \in Nat
  <2>1. Cardinality(L) = n /\ n \in Nat
    BY <1>1, <1>3, ChainCount DEF Orders
  <2>2. Cardinality(Full(c.tab)) = Cardinality({ Slot(b.l) : b \in Pairs(c.tab) })
    BY <1>2, FullCount
  <2> QED BY <2>1, <2>2, <1>2, <1>5 DEF Table
<1>7. Vacant(c.tab) # {}
  <2>1. n < c.mask + 1
    BY <1>2, <1>6
  <2> QED BY <2>1, <1>2, <1>6, FullIsFinite
<1>8. /\ \A k \in 1 .. n : Bucket(c.words[Slot(chain[k])], chain[k]) \in Pairs(c.tab)
      /\ \A b \in Pairs(c.tab) : \E k \in 1 .. n :
           b = Bucket(c.words[Slot(chain[k])], chain[k])
  <2>1. \A k \in 1 .. n : Slot(chain[k]) \in L
    BY <1>1 DEF SlotsOf
  <2>2. \A s \in L : \E k \in 1 .. n : s = Slot(chain[k])
    BY <1>1 DEF SlotsOf
  <2> QED BY <2>1, <2>2, <1>2, <1>4
<1> QED BY <1>1, <1>2, <1>5, <1>6, <1>7, <1>8

(* Looking for a link's bucket along the probe of its word finds it.       *)
LEMMA DelLinkFinds ==
  ASSUME NEW mask, NEW tab, Table(tab, mask), NEW at \in Full(tab)
  PROVE  DelLink(tab, mask, tab[at].w, tab[at].l) = DelAt(tab, mask, at)
<1>1. PICK w, l, home : w = tab[at].w /\ l = tab[at].l /\ home = Home(w, mask)
  OBVIOUS
<1>2. /\ mask \in Nat /\ w \in Word /\ l \in Nat \ {0} /\ home \in 0 .. mask
      /\ at \in 0 .. mask
      /\ \A i \in 0 .. mask : i \in Vacant(tab) <=> tab[i].l = Nil
      /\ Full(tab) \cup Vacant(tab) = 0 .. mask
  BY <1>1, TableFacts
<1> DEFINE S == { i \in Buckets(mask) : tab[i].l = l }
<1>3. S = {at}
  <2>1. \A i \in 0 .. mask : tab[i].l = l => i \in Full(tab)
    BY <1>2 DEF Nil
  <2>2. \A i \in 0 .. mask : tab[i].l = l => i = at
    BY <2>1, <1>1 DEF Table
  <2> QED BY <2>2, <1>1, <1>2 DEF Buckets
<1>4. FirstOf(S, home, mask) \in S
  <2> HIDE DEF S
  <2>1. at \in S
    BY <1>3
  <2> QED BY <2>1, <1>2, FirstIsReached
<1>5. FirstOf(S, home, mask) = at
  BY <1>3, <1>4
<1> QED BY <1>1, <1>5 DEF DelLink

(* Both ways to drop an entry: found by its link, or by a probe.           *)
LEMMA RemoveSlotDrops ==
  ASSUME NEW c, NEW chain, Good(c, chain), NEW k \in 1 .. c.n
  PROVE  Dropped(c, chain, k, RemoveSlot(c, Slot(chain[k])))
<1>1. PICK s, w, l : s = Slot(chain[k]) /\ w = c.words[s] /\ l = chain[k] /\ l = Link(s)
  BY ChainLinks DEF Good, ListGood
<1>2. /\ Table(c.tab, c.mask) /\ Vacant(c.tab) # {} /\ Bucket(w, l) \in Pairs(c.tab)
  BY <1>1, GoodTable
<1>3. PICK at \in Full(c.tab) : c.tab[at] = Bucket(w, l)
  BY <1>2 DEF Pairs
<1>4. c.tab[at].w = w /\ c.tab[at].l = l
  BY <1>3 DEF Bucket
<1>5. PICK tab : tab = DelLink(c.tab, c.mask, w, l)
  OBVIOUS
<1>6. tab = DelAt(c.tab, c.mask, at)
  BY <1>2, <1>4, <1>5, DelLinkFinds
<1>7. Table(tab, c.mask) /\ Pairs(tab) = Pairs(c.tab) \ {Bucket(w, l)}
  BY <1>2, <1>3, <1>6, DelAtWorks
<1>8. Pairs(tab) = Pairs(c.tab) \ {Bucket(c.words[s], Link(s))}
  BY <1>1, <1>7
<1>9. Dropped(c, chain, k, DropSlot(Retabled(c, tab), s))
  BY <1>1, <1>7, <1>8, DropSlotDrops
<1>10. RemoveSlot(c, s) = DropSlot(Retabled(c, tab), s)
  BY <1>1, <1>5 DEF RemoveSlot, Retabled
<1> QED BY <1>1, <1>9, <1>10

LEMMA DropAtDrops ==
  ASSUME NEW c, NEW chain, Good(c, chain), NEW k \in 1 .. c.n,
         NEW at \in Full(c.tab), c.tab[at].l = chain[k]
  PROVE  Dropped(c, chain, k, DropAt(c, at))
<1>1. PICK s, tab : s = Slot(chain[k]) /\ tab = DelAt(c.tab, c.mask, at)
  OBVIOUS
<1>2. Table(c.tab, c.mask) /\ Vacant(c.tab) # {}
  BY GoodTable
<1>3. c.tab[at] = Bucket(c.words[s], Link(s))
  <2>1. Bucket(c.words[s], chain[k]) \in Pairs(c.tab) /\ Link(s) = chain[k]
    BY <1>1, GoodTable, ChainLinks DEF Good, ListGood
  <2>2. PICK i \in Full(c.tab) : c.tab[i] = Bucket(c.words[s], chain[k])
    BY <2>1 DEF Pairs
  <2>3. c.tab[i].l = c.tab[at].l
    BY <2>2 DEF Bucket
  <2>4. i = at
    BY <2>3, <1>2 DEF Table
  <2> QED BY <2>1, <2>2, <2>4
<1>4. Table(tab, c.mask) /\ Pairs(tab) = Pairs(c.tab) \ {Bucket(c.words[s], Link(s))}
  BY <1>1, <1>2, <1>3, DelAtWorks
<1>5. Dropped(c, chain, k, DropSlot(Retabled(c, tab), s))
  BY <1>1, <1>4, DropSlotDrops
<1>6. DropAt(c, at) = DropSlot(Retabled(c, tab), s)
  BY <1>1 DEF DropAt, Retabled
<1> QED BY <1>5, <1>6

\* The oldest entry is the first of the chain.
LEMMA EvictOldestDrops ==
  ASSUME NEW c, NEW chain, Good(c, chain), c.n # 0
  PROVE  Dropped(c, chain, 1, EvictOldest(c))
<1>1. 1 \in 1 .. c.n /\ c.head = chain[1]
  BY DEF Good, Sized, ListGood, Spells
<1> QED BY <1>1, RemoveSlotDrops DEF EvictOldest

-----------------------------------------------------------------------------
(* Taking a slot.                                                          *)

\* The list and the free stack of c agree, whatever its table is.
Linked(c, chain) ==
  Sized(c) /\ ListGood(c, chain) /\ FreeGood(c, SlotsOf(chain, c.n))

SlotFields ==
  {"free", "fresh", "size", "ks", "ents", "prevs", "nexts", "words", "due"}

\* In t, slot s is off the free stack of c, and all else is as it was.
Taken(c, L, s, t) ==
  /\ s \in Slots(t.fresh) /\ s \notin L /\ L \subseteq Slots(t.fresh)
  /\ t.fresh \in Nat /\ t.size \in Nat \ {0} /\ c.n + 1 <= t.fresh /\ t.fresh <= t.size
  /\ Slots(c.size) \subseteq Slots(t.size) /\ Blocks(t)
  /\ \A i \in Slots(c.size) : t.prevs[i] = c.prevs[i] /\ t.nexts[i] = c.nexts[i]
  /\ Same(c, t, Slots(c.size))
  /\ \E stack : FreeStack(stack, t.fresh - (c.n + 1), t.free, t.nexts,
                          Slots(t.fresh) \ (L \cup {s}))
  /\ Changes(c, t, SlotFields)
  /\ t.fresh > c.fresh => c.n = c.fresh

(* The slot on top of the free stack.                                      *)
LEMMA TopIsTaken ==
  ASSUME NEW c, NEW chain, Linked(c, chain), c.free # Nil
  PROVE  Taken(c, SlotsOf(chain, c.n), NextSlot(c), SlotTaken(c))
<1>1. PICK n, L, s, m : n = c.n /\ L = SlotsOf(chain, n) /\ s = Slot(c.free) /\ m = c.fresh - n
  OBVIOUS
<1> DEFINE t == SlotTaken(c)
           S == Slots(c.fresh)
<1>2. /\ DOMAIN c = Fields /\ n \in Nat /\ c.fresh \in Nat /\ c.size \in Nat \ {0}
      /\ n <= c.fresh /\ c.fresh <= c.size /\ Blocks(c)
  BY <1>1 DEF Linked, Sized
<1>3. t = [c EXCEPT !.free = c.nexts[s]] /\ NextSlot(c) = s
  BY <1>1 DEF SlotTaken, NextSlot
<1> HIDE DEF t
<1>4. t.free = c.nexts[s] /\ Changes(c, t, {"free"})
  BY <1>2, <1>3 DEF Changes, Fields
<1>5. /\ t.fresh = c.fresh /\ t.size = c.size /\ t.ks = c.ks /\ t.ents = c.ents
      /\ t.prevs = c.prevs /\ t.nexts = c.nexts /\ t.words = c.words /\ t.due = c.due
  BY <1>4 DEF Changes, Fields
<1>6. m \in Nat /\ S \ L \in SUBSET Nat /\ L \subseteq S
  BY <1>1, <1>2 DEF Slots, Linked, ListGood, Orders, SlotsOf
<1>7. PICK stack : FreeStack(stack, m, c.free, c.nexts, S \ L)
  BY <1>1 DEF Linked, FreeGood
<1>8. s \in S \ L
  BY <1>1, <1>6, <1>7, SlotOnTop
<1>9. m - 1 \in Nat /\ \E rest : FreeStack(rest, m - 1, c.nexts[s], c.nexts, (S \ L) \ {s})
  BY <1>1, <1>6, <1>7, StackPopped
<1>10. m - 1 = c.fresh - (n + 1) /\ n + 1 <= c.fresh /\ (S \ L) \ {s} = S \ (L \cup {s})
  BY <1>1, <1>2, <1>9
<1>11. \E rest : FreeStack(rest, t.fresh - (n + 1), t.free, t.nexts, Slots(t.fresh) \ (L \cup {s}))
  BY <1>4, <1>5, <1>9, <1>10
<1>12. Blocks(t) /\ Same(c, t, Slots(c.size))
  BY <1>2, <1>5 DEF Blocks, Same
<1>13. Changes(c, t, SlotFields)
  BY <1>4 DEF Changes, SlotFields
<1>14. ~ t.fresh > c.fresh
  BY <1>2, <1>5
<1> QED BY <1>1, <1>2, <1>3, <1>5, <1>6, <1>8, <1>10, <1>11, <1>12, <1>13, <1>14 DEF Taken, t

\* With every slot below fresh in use, fresh is taken.
LEMMA NoneFree ==
  ASSUME NEW c, NEW chain, Linked(c, chain), c.free = Nil
  PROVE  /\ c.n = c.fresh /\ SlotsOf(chain, c.n) \subseteq Slots(c.fresh)
         /\ \A next, S : FreeStack(<<>>, 0, Nil, next, S)
<1>1. PICK n, L, m : n = c.n /\ L = SlotsOf(chain, n) /\ m = c.fresh - n
  OBVIOUS
<1>2. m \in Nat /\ Slots(c.fresh) \ L \in SUBSET Nat /\ n \in Nat /\ c.fresh \in Nat
  BY <1>1 DEF Slots, Linked, Sized
<1>3. PICK stack : FreeStack(stack, m, c.free, c.nexts, Slots(c.fresh) \ L)
  BY <1>1 DEF Linked, FreeGood
<1>4. m = 0
  BY <1>2, <1>3, SlotOnTop
<1>5. \A next, S : FreeStack(<<>>, 0, Nil, next, S)
  <2>1. \A S : <<>> \in [1 .. 0 -> S]
    OBVIOUS
  <2>2. ~ 1 <= 0 /\ 1 .. 0 = {}
    OBVIOUS
  <2> QED BY <2>1, <2>2 DEF FreeStack
<1>6. L \subseteq Slots(c.fresh)
  BY <1>1 DEF Linked, ListGood, Orders, SlotsOf
<1> QED BY <1>1, <1>2, <1>4, <1>5, <1>6

LEMMA FreshIsTaken ==
  ASSUME NEW c, NEW chain, Linked(c, chain), c.free = Nil, NEW t, DOMAIN t = Fields,
         t.fresh = c.fresh + 1, t.free = c.free, Changes(c, t, SlotFields),
         t.size \in Nat \ {0}, t.fresh <= t.size, Blocks(t), c.size <= t.size,
         \A i \in Slots(c.size) : t.prevs[i] = c.prevs[i] /\ t.nexts[i] = c.nexts[i],
         Same(c, t, Slots(c.size))
  PROVE  Taken(c, SlotsOf(chain, c.n), c.fresh, t)
<1>1. PICK n, s, L : n = c.n /\ s = c.fresh /\ L = SlotsOf(chain, n)
  OBVIOUS
<1>2. n = s /\ L \subseteq Slots(s) /\ s \in Nat /\ c.size \in Nat
  BY <1>1, NoneFree DEF Linked, Sized
<1>3. /\ s \in Slots(t.fresh) /\ s \notin L /\ L \subseteq Slots(t.fresh)
      /\ t.fresh \in Nat /\ t.fresh - (n + 1) = 0 /\ n + 1 <= t.fresh
      /\ Slots(c.size) \subseteq Slots(t.size)
  BY <1>1, <1>2 DEF Slots
<1>4. FreeStack(<<>>, t.fresh - (n + 1), t.free, t.nexts, Slots(t.fresh) \ (L \cup {s}))
  BY <1>3, NoneFree
<1> QED BY <1>1, <1>2, <1>3, <1>4 DEF Taken

(* Doubling a block keeps what it holds.                                   *)
LEMMA Extending ==
  ASSUME NEW cap \in Nat, NEW block, NEW blank
  PROVE  /\ DOMAIN Extended(block, cap, blank) = Slots(2 * cap)
         /\ \A i \in Slots(cap) : Extended(block, cap, blank)[i] = block[i]
  BY DEF Extended, Slots

LEMMA SlotTakenTakes ==
  ASSUME NEW c, NEW chain, Linked(c, chain)
  PROVE  Taken(c, SlotsOf(chain, c.n), NextSlot(c), SlotTaken(c))
<1> DEFINE t == SlotTaken(c)
<1>1. /\ DOMAIN c = Fields /\ c.fresh \in Nat /\ c.size \in Nat \ {0}
      /\ c.fresh <= c.size /\ Blocks(c)
  BY DEF Linked, Sized
<1>2. CASE c.free # Nil
  BY <1>2, TopIsTaken
<1>3. CASE c.free = Nil /\ c.fresh < c.size
  <2>1. t = [c EXCEPT !.fresh = c.fresh + 1] /\ NextSlot(c) = c.fresh
    BY <1>1, <1>3 DEF SlotTaken, NextSlot, Fields
  <2> HIDE DEF t
  <2>2. t.fresh = c.fresh + 1 /\ Changes(c, t, {"fresh"})
    BY <1>1, <2>1 DEF Changes, Fields
  <2>3. /\ t.free = c.free /\ t.size = c.size /\ t.ks = c.ks /\ t.ents = c.ents
        /\ t.prevs = c.prevs /\ t.nexts = c.nexts /\ t.words = c.words /\ t.due = c.due
    BY <2>2 DEF Changes, Fields
  <2>4. Blocks(t) /\ Same(c, t, Slots(c.size)) /\ Changes(c, t, SlotFields) /\ DOMAIN t = Fields
    BY <1>1, <2>2, <2>3 DEF Blocks, Same, Changes, SlotFields
  <2>5. t.fresh <= t.size /\ c.size <= t.size
    BY <1>1, <1>3, <2>2, <2>3
  <2>6. Taken(c, SlotsOf(chain, c.n), c.fresh, t)
    BY <1>1, <1>3, <2>2, <2>3, <2>4, <2>5, FreshIsTaken
  <2> QED BY <2>1, <2>6 DEF t
<1>4. CASE c.free = Nil /\ ~ c.fresh < c.size
  <2>1. t = [c EXCEPT !.fresh = c.fresh + 1, !.size = 2 * c.size,
                      !.ks = Extended(c.ks, c.size, Empty),
                      !.ents = Extended(c.ents, c.size, NoValue),
                      !.prevs = Extended(c.prevs, c.size, Nil),
                      !.nexts = Extended(c.nexts, c.size, Nil),
                      !.words = Extended(c.words, c.size, 0),
                      !.due = Extended(c.due, c.size, {})] /\ NextSlot(c) = c.fresh
    BY <1>1, <1>4 DEF SlotTaken, NextSlot, Fields
  <2> HIDE DEF t
  <2>2. /\ t.fresh = c.fresh + 1 /\ t.size = 2 * c.size
        /\ t.ks = Extended(c.ks, c.size, Empty) /\ t.ents = Extended(c.ents, c.size, NoValue)
        /\ t.prevs = Extended(c.prevs, c.size, Nil) /\ t.nexts = Extended(c.nexts, c.size, Nil)
        /\ t.words = Extended(c.words, c.size, 0) /\ t.due = Extended(c.due, c.size, {})
    BY <1>1, <2>1 DEF Fields
  <2>3. Changes(c, t, SlotFields) /\ t.free = c.free /\ DOMAIN t = Fields
    BY <1>1, <2>1 DEF Changes, Fields, SlotFields
  <2>4. Blocks(t) /\ Same(c, t, Slots(c.size))
        /\ \A i \in Slots(c.size) : t.prevs[i] = c.prevs[i] /\ t.nexts[i] = c.nexts[i]
    BY <1>1, <2>2, Extending DEF Blocks, Same
  <2>5. t.fresh <= t.size /\ c.size <= t.size /\ t.size \in Nat \ {0}
    BY <1>1, <1>4, <2>2
  <2>6. Taken(c, SlotsOf(chain, c.n), c.fresh, t)
    BY <1>1, <1>4, <2>2, <2>3, <2>4, <2>5, FreshIsTaken
  <2> QED BY <2>1, <2>6 DEF t
<1> QED BY <1>2, <1>3, <1>4

-----------------------------------------------------------------------------
(* Adding an entry.                                                        *)

\* Slot s of t filled with a new entry, before it is linked.
Filled(t, s, key, x, due) ==
  [PutEnt(t, s, x, due) EXCEPT !.n = @ + 1, !.ks[s] = Stored(key), !.words[s] = WordOf[key]]

EntryFields == {"n", "ks", "words", "ents", "due"}

IsFilled(t, s, key, x, due, r) ==
  /\ r.n = t.n + 1
  /\ r.ks = [t.ks EXCEPT ![s] = Stored(key)] /\ r.words = [t.words EXCEPT ![s] = WordOf[key]]
  /\ r.ents = [t.ents EXCEPT ![s] = x] /\ r.due = [t.due EXCEPT ![s] = due]
  /\ Changes(t, r, EntryFields)

LEMMA FilledFields ==
  ASSUME NEW t, DOMAIN t = Fields, NEW s, NEW key, NEW x, NEW due
  PROVE  IsFilled(t, s, key, x, due, Filled(t, s, key, x, due))
<1> DEFINE p == PutEnt(t, s, x, due)
           r == Filled(t, s, key, x, due)
<1>1. p.ents = [t.ents EXCEPT ![s] = x] /\ p.due = [t.due EXCEPT ![s] = due]
      /\ Changes(t, p, {"ents", "due"})
  BY DEF PutEnt, Changes, Fields
<1>2. r = [p EXCEPT !.n = p.n + 1, !.ks = [p.ks EXCEPT ![s] = Stored(key)],
                    !.words = [p.words EXCEPT ![s] = WordOf[key]]]
  BY DEF Filled
<1> HIDE DEF p, r
<1>3. p.n = t.n /\ p.ks = t.ks /\ p.words = t.words /\ DOMAIN p = Fields
  BY <1>1 DEF Changes, Fields
<1>4. r.n = p.n + 1 /\ r.ks = [p.ks EXCEPT ![s] = Stored(key)]
      /\ r.words = [p.words EXCEPT ![s] = WordOf[key]] /\ r.ents = p.ents /\ r.due = p.due
  BY <1>2, <1>3 DEF Fields
<1>5. DOMAIN r = Fields /\ \A f \in Fields \ {"n", "ks", "words"} : r[f] = p[f]
  BY <1>2, <1>3
<1>6. Changes(t, r, EntryFields)
  BY <1>1, <1>5 DEF Changes, EntryFields
<1> QED BY <1>1, <1>3, <1>4, <1>6 DEF IsFilled, r

InsertFields == SlotFields \cup ListFields \cup EntryFields

\* d is c with a new entry at the end of its chain, in slot s.
Inserted(c, chain, s, key, x, due, d) ==
  /\ Linked(d, With(chain, c.n, Link(s))) /\ d.n = c.n + 1
  /\ SlotsOf(With(chain, c.n, Link(s)), c.n + 1) = SlotsOf(chain, c.n) \cup {s}
  /\ s \notin SlotsOf(chain, c.n) /\ s \in Nat
  /\ Changes(c, d, InsertFields) /\ Same(c, d, SlotsOf(chain, c.n))
  /\ d.words[s] = WordOf[key] /\ d.ks[s] = Stored(key) /\ d.ents[s] = x /\ d.due[s] = due
  /\ d.fresh > c.fresh => c.n = c.fresh

LEMMA InsertSlotInserts ==
  ASSUME NEW c, NEW chain, Linked(c, chain), NEW key, NEW x, NEW due
  PROVE  Inserted(c, chain, NextSlot(c), key, x, due, InsertSlot(c, key, x, due))
<1> DEFINE r == Filled(SlotTaken(c), NextSlot(c), key, x, due)
           d == LinkTail(r, NextSlot(c))
<1>1. InsertSlot(c, key, x, due) = d
  BY DEF InsertSlot, Filled
<1>2. PICK n, L, s, t : n = c.n /\ L = SlotsOf(chain, n) /\ s = NextSlot(c) /\ t = SlotTaken(c)
  OBVIOUS
<1>3. Taken(c, L, s, t)
  BY <1>2, SlotTakenTakes
<1>4. /\ s \in Slots(t.fresh) /\ s \notin L /\ L \subseteq Slots(t.fresh)
      /\ t.fresh \in Nat /\ t.size \in Nat \ {0} /\ n + 1 <= t.fresh /\ t.fresh <= t.size
      /\ Slots(c.size) \subseteq Slots(t.size) /\ Blocks(t)
      /\ \A i \in Slots(c.size) : t.prevs[i] = c.prevs[i] /\ t.nexts[i] = c.nexts[i]
      /\ Same(c, t, Slots(c.size)) /\ Changes(c, t, SlotFields)
      /\ t.fresh > c.fresh => c.n = c.fresh
      /\ \E stack : FreeStack(stack, t.fresh - (n + 1), t.free, t.nexts,
                              Slots(t.fresh) \ (L \cup {s}))
  BY <1>2, <1>3 DEF Taken
<1>5. /\ n \in Nat /\ Orders(chain, n, Slots(c.fresh)) /\ Slots(c.fresh) \subseteq Slots(c.size)
      /\ Spells(chain, n, c.head, c.tail, c.prevs, c.nexts) /\ L \subseteq Slots(c.fresh)
  <2>1. n \in Nat /\ c.fresh \in Nat /\ c.size \in Nat /\ c.fresh <= c.size
    BY <1>2 DEF Linked, Sized
  <2>2. Orders(chain, n, Slots(c.fresh)) /\ Spells(chain, n, c.head, c.tail, c.prevs, c.nexts)
    BY <1>2 DEF Linked, ListGood
  <2> QED BY <2>1, <2>2, <1>2, SlotsGrow DEF Orders, SlotsOf
<1>6. PICK l : l = Link(s) /\ l \in Nat /\ l # Nil /\ Slot(l) = s /\ s \in Nat
  BY <1>4, LinksOfSlots DEF Slots
<1>7. /\ r.n = n + 1
      /\ r.ks = [t.ks EXCEPT ![s] = Stored(key)] /\ r.words = [t.words EXCEPT ![s] = WordOf[key]]
      /\ r.ents = [t.ents EXCEPT ![s] = x] /\ r.due = [t.due EXCEPT ![s] = due]
      /\ Changes(t, r, EntryFields)
  <2>1. IsFilled(t, s, key, x, due, r) /\ t.n = n
    BY <1>2, <1>4, FilledFields DEF Changes, SlotFields, Fields
  <2> HIDE DEF r
  <2> QED BY <2>1 DEF IsFilled
<1> HIDE DEF r
<1>8. /\ r.head = c.head /\ r.tail = c.tail /\ r.prevs = t.prevs /\ r.nexts = t.nexts
      /\ r.fresh = t.fresh /\ r.size = t.size /\ r.free = t.free /\ DOMAIN r = Fields
  BY <1>4, <1>7 DEF Changes, EntryFields, SlotFields, Fields
<1>9. /\ d.head = (IF r.tail = Nil THEN l ELSE r.head) /\ d.tail = l
      /\ d.prevs = [r.prevs EXCEPT ![s] = r.tail]
      /\ d.nexts = SetIf([r.nexts EXCEPT ![s] = Nil], r.tail, l)
      /\ Changes(r, d, ListFields)
  <2>1. /\ d.head = (IF r.tail = Nil THEN Link(NextSlot(c)) ELSE r.head)
        /\ d.tail = Link(NextSlot(c))
        /\ d.prevs = [r.prevs EXCEPT ![NextSlot(c)] = r.tail]
        /\ d.nexts = SetIf([r.nexts EXCEPT ![NextSlot(c)] = Nil], r.tail, Link(NextSlot(c)))
        /\ Changes(r, d, ListFields)
    BY <1>8, LinkTailFields
  <2> HIDE DEF d
  <2> QED BY <2>1, <1>2, <1>6
<1> HIDE DEF d
<1>10. /\ d.n = r.n /\ d.ks = r.ks /\ d.words = r.words /\ d.ents = r.ents /\ d.due = r.due
       /\ d.fresh = t.fresh /\ d.size = t.size /\ d.free = t.free /\ DOMAIN d = Fields
  BY <1>8, <1>9 DEF Changes, ListFields, Fields
<1>11. /\ Slots(t.fresh) \subseteq Slots(t.size) /\ Slots(c.fresh) \subseteq Slots(t.size)
       /\ DOMAIN t.prevs = Slots(t.size) /\ DOMAIN t.nexts = Slots(t.size)
       /\ DOMAIN t.ks = Slots(t.size) /\ DOMAIN t.words = Slots(t.size)
       /\ DOMAIN t.ents = Slots(t.size) /\ DOMAIN t.due = Slots(t.size)
       /\ s \in Slots(t.size)
  BY <1>4, <1>5, SlotsGrow DEF Blocks
<1>12. Spells(chain, n, c.head, c.tail, t.prevs, t.nexts)
  <2>1. \A k \in 1 .. n : Slot(chain[k]) \in Slots(c.size)
    BY <1>5 DEF Orders
  <2> QED BY <2>1, <1>4, <1>5 DEF Spells
<1>13. /\ Spells(With(chain, n, l), n + 1, d.head, d.tail, d.prevs, d.nexts)
       /\ DOMAIN d.prevs = DOMAIN t.prevs /\ DOMAIN d.nexts = DOMAIN t.nexts
       /\ \A i \in DOMAIN t.nexts : i \notin L \cup {s} => d.nexts[i] = t.nexts[i]
  <2>1. Spells(chain, n, r.head, r.tail, r.prevs, r.nexts)
    BY <1>8, <1>12
  <2>2. PICK S : S = Slots(c.fresh)
    OBVIOUS
  <2>3. /\ S \subseteq DOMAIN r.prevs /\ S \subseteq DOMAIN r.nexts
        /\ Slot(l) \in DOMAIN r.prevs /\ Slot(l) \in DOMAIN r.nexts
        /\ Slot(l) \notin SlotsOf(chain, n) /\ l \in Nat /\ l # Nil /\ Orders(chain, n, S)
    BY <2>2, <1>2, <1>4, <1>5, <1>6, <1>8, <1>11
  <2>4. /\ Spells(With(chain, n, l), n + 1, IF r.tail = Nil THEN l ELSE r.head,
                  l, [r.prevs EXCEPT ![Slot(l)] = r.tail],
                  SetIf([r.nexts EXCEPT ![Slot(l)] = Nil], r.tail, l))
        /\ DOMAIN [r.prevs EXCEPT ![Slot(l)] = r.tail] = DOMAIN r.prevs
        /\ DOMAIN SetIf([r.nexts EXCEPT ![Slot(l)] = Nil], r.tail, l) = DOMAIN r.nexts
        /\ \A i \in DOMAIN r.nexts :
             i \notin SlotsOf(chain, n) \cup {Slot(l)} =>
             SetIf([r.nexts EXCEPT ![Slot(l)] = Nil], r.tail, l)[i] = r.nexts[i]
    BY <2>1, <2>3, LinkedSpells
  <2> QED BY <2>4, <1>2, <1>6, <1>8, <1>9
<1>14. Orders(With(chain, n, l), n + 1, Slots(t.fresh))
       /\ SlotsOf(With(chain, n, l), n + 1) = L \cup {s}
  <2>1. Orders(chain, n, Slots(t.fresh))
    <3>1. \A k \in 1 .. n : Slot(chain[k]) \in Slots(t.fresh)
      BY <1>2, <1>4 DEF SlotsOf
    <3> QED BY <3>1, <1>5 DEF Orders
  <2>2. Slot(l) \in Slots(t.fresh) /\ Slot(l) \notin SlotsOf(chain, n)
    BY <1>2, <1>4, <1>6
  <2> QED BY <2>1, <2>2, <1>2, <1>6, WithOrders
<1>15. Sized(d)
  <2>1. Blocks(d)
    BY <1>7, <1>8, <1>10, <1>11, <1>13 DEF Blocks
  <2> QED BY <2>1, <1>4, <1>5, <1>7, <1>10 DEF Sized
<1>16. ListGood(d, With(chain, n, l))
  BY <1>7, <1>10, <1>13, <1>14 DEF ListGood
<1>17. FreeGood(d, L \cup {s})
  <2>1. PICK stack : FreeStack(stack, t.fresh - (n + 1), t.free, t.nexts,
                               Slots(t.fresh) \ (L \cup {s}))
    BY <1>4
  <2>2. \A i \in Slots(t.fresh) \ (L \cup {s}) : d.nexts[i] = t.nexts[i]
    BY <1>11, <1>13
  <2>3. FreeStack(stack, t.fresh - (n + 1), t.free, d.nexts, Slots(t.fresh) \ (L \cup {s}))
    BY <2>1, <2>2, StackKept
  <2> QED BY <2>3, <1>7, <1>10 DEF FreeGood
<1>18. Same(c, d, L)
  <2>1. \A i \in L : i \in Slots(c.size) /\ i \in Slots(t.size) /\ i # s
    BY <1>4, <1>5
  <2> QED BY <2>1, <1>4, <1>7, <1>10, <1>11 DEF Same
<1>19. Changes(c, d, InsertFields)
  BY <1>4, <1>7, <1>9 DEF Changes, InsertFields
<1>20. d.words[s] = WordOf[key] /\ d.ks[s] = Stored(key) /\ d.ents[s] = x /\ d.due[s] = due
  BY <1>7, <1>10, <1>11
<1>21. Linked(d, With(chain, n, l))
  BY <1>7, <1>10, <1>14, <1>15, <1>16, <1>17 DEF Linked
<1>22. Inserted(c, chain, s, key, x, due, d)
  BY <1>2, <1>4, <1>6, <1>7, <1>10, <1>14, <1>18, <1>19, <1>20, <1>21 DEF Inserted
<1> QED BY <1>1, <1>2, <1>22

(* The list and the free stack do not depend on the other fields.          *)
LEMMA LinkedKept ==
  ASSUME NEW c, NEW chain, Linked(c, chain), NEW d,
         Changes(c, d, {"tab", "mask", "cap", "life", "ents", "due"}),
         DOMAIN d.ents = DOMAIN c.ents, DOMAIN d.due = DOMAIN c.due
  PROVE  Linked(d, chain) /\ d.n = c.n /\ d.fresh = c.fresh
<1>1. /\ d.n = c.n /\ d.fresh = c.fresh /\ d.size = c.size /\ d.head = c.head
      /\ d.tail = c.tail /\ d.prevs = c.prevs /\ d.nexts = c.nexts /\ d.free = c.free
      /\ d.ks = c.ks /\ d.words = c.words /\ DOMAIN d = Fields
  BY DEF Changes, Fields
<1>2. Sized(d)
  BY <1>1 DEF Linked, Sized, Blocks
<1>3. ListGood(d, chain)
  BY <1>1 DEF Linked, ListGood
<1>4. FreeGood(d, SlotsOf(chain, d.n))
  BY <1>1 DEF Linked, FreeGood
<1> QED BY <1>1, <1>2, <1>3, <1>4 DEF Linked

(* Growing the table makes room for a pair.                                *)
LEMMA RoomIsGood ==
  ASSUME NEW c, NEW chain, Good(c, chain)
  PROVE  LET r == Room(c)
         IN /\ Good(r, chain) /\ r.n = c.n /\ 2 * (c.n + 1) <= r.mask + 1
            /\ Changes(c, r, {"mask", "tab"})
<1> DEFINE r == Room(c)
           tab == GrowTab(c.tab, c.mask)
           big == GrownMask(c.mask)
<1>1. /\ Table(c.tab, c.mask) /\ Keyed(c.ks, Pairs(c.tab)) /\ 2 * c.n <= c.mask + 1
      /\ Pairs(c.tab) = {Bucket(c.words[s], Link(s)) : s \in SlotsOf(chain, c.n)}
      /\ c.mask \in Nat /\ c.n \in Nat /\ DOMAIN c = Fields /\ Linked(c, chain)
  BY DEF Good, TableGood, Table, Sized, Linked
<1>2. CASE 2 * (c.n + 1) > c.mask + 1
  <2>1. r = [c EXCEPT !.mask = big, !.tab = tab]
    BY <1>2 DEF Room
  <2>2. Table(tab, big) /\ Pairs(tab) = Pairs(c.tab)
    BY <1>1, GrowTabWorks
  <2>3. big + 1 = 2 * (c.mask + 1)
    BY <1>1 DEF GrownMask
  <2> HIDE DEF r, tab, big
  <2>4. r.mask = big /\ r.tab = tab /\ Changes(c, r, {"mask", "tab"})
    BY <2>1, <1>1 DEF Changes, Fields
  <2>5. r.ks = c.ks /\ r.words = c.words /\ r.ents = c.ents /\ r.due = c.due /\ r.n = c.n
    BY <2>4 DEF Changes, Fields
  <2>6. Linked(r, chain)
    BY <2>4, <2>5, <1>1, LinkedKept DEF Changes
  <2>7. 2 * (c.n + 1) <= r.mask + 1 /\ 2 * r.n <= r.mask + 1
    BY <2>3, <2>4, <2>5, <1>1
  <2>8. TableGood(r, SlotsOf(chain, r.n))
    BY <2>2, <2>4, <2>5, <2>7, <1>1 DEF TableGood
  <2> QED BY <2>4, <2>5, <2>6, <2>7, <2>8 DEF Good, Linked, r
<1>3. CASE ~ (2 * (c.n + 1) > c.mask + 1)
  <2>1. r = c
    BY <1>3 DEF Room
  <2> QED BY <2>1, <1>1, <1>3 DEF Changes
<1> QED BY <1>2, <1>3

\* d is c with a new entry at the end of its chain.
Added(c, chain, key, x, due, d) ==
  \E s \in Nat \ SlotsOf(chain, c.n) :
    /\ Good(d, With(chain, c.n, Link(s))) /\ d.n = c.n + 1
    /\ Same(c, d, SlotsOf(chain, c.n))
    /\ d.words[s] = WordOf[key] /\ d.ks[s] = Stored(key) /\ d.ents[s] = x /\ d.due[s] = due
    /\ d.cap = c.cap /\ d.life = c.life
    /\ d.fresh > c.fresh => c.n = c.fresh

(* A new key whose pair is in the table.                                   *)
LEMMA InsertSlotAdds ==
  ASSUME NEW c, NEW chain, Good(c, chain), NEW key \in Key, NEW x, NEW due,
         \A b \in Pairs(c.tab) : KeyIn(c.ks, b) # key, 2 * (c.n + 1) <= c.mask + 1,
         NEW tab, Table(tab, c.mask),
         Pairs(tab) = Pairs(c.tab) \cup {Bucket(WordOf[key], Link(NextSlot(c)))}
  PROVE  Added(c, chain, key, x, due, InsertSlot(Retabled(c, tab), key, x, due))
<1> DEFINE e == Retabled(c, tab)
<1>1. PICK n, L, s, d : n = c.n /\ L = SlotsOf(chain, n) /\ s = NextSlot(c)
                        /\ d = InsertSlot(e, key, x, due)
  OBVIOUS
<1>2. e.tab = tab /\ Changes(c, e, {"tab"})
  BY DEF Good, Sized, Retabled, Changes, Fields
<1> HIDE DEF e
<1>3. /\ e.ks = c.ks /\ e.words = c.words /\ e.ents = c.ents /\ e.due = c.due /\ e.n = n
      /\ e.mask = c.mask /\ e.cap = c.cap /\ e.life = c.life /\ e.fresh = c.fresh
      /\ e.free = c.free
  BY <1>1, <1>2 DEF Changes, Fields
<1>4. Linked(e, chain) /\ NextSlot(e) = s
  <2>1. Linked(c, chain)
    BY DEF Good, Linked
  <2> QED BY <2>1, <1>1, <1>2, <1>3, LinkedKept DEF Changes, NextSlot
<1>5. /\ Linked(d, With(chain, n, Link(s))) /\ d.n = n + 1
      /\ SlotsOf(With(chain, n, Link(s)), n + 1) = L \cup {s}
      /\ s \notin L /\ s \in Nat /\ Changes(e, d, InsertFields) /\ Same(e, d, L)
      /\ d.words[s] = WordOf[key] /\ d.ks[s] = Stored(key) /\ d.ents[s] = x /\ d.due[s] = due
      /\ d.fresh > e.fresh => n = e.fresh
  BY <1>1, <1>3, <1>4, InsertSlotInserts DEF Inserted
<1>6. d.tab = tab /\ d.mask = c.mask /\ d.cap = c.cap /\ d.life = c.life
  BY <1>2, <1>3, <1>5 DEF Changes, InsertFields, SlotFields, ListFields, EntryFields, Fields
<1>7. Same(c, d, L)
  BY <1>3, <1>5 DEF Same
<1>8. Keyed(c.ks, Pairs(c.tab)) /\ { Slot(b.l) : b \in Pairs(c.tab) } = L
      /\ Pairs(c.tab) = {Bucket(c.words[i], Link(i)) : i \in L}
  BY <1>1, GoodTable DEF Good, TableGood
<1>9. Keyed(d.ks, Pairs(tab))
  <2>1. \A b \in Pairs(c.tab) : d.ks[Slot(b.l)] = c.ks[Slot(b.l)]
    BY <1>7, <1>8 DEF Same
  <2>2. PICK ks, new : ks = c.ks /\ new = d.ks
    OBVIOUS
  <2>3. PICK l : l = Link(s) /\ Slot(l) = s
    BY <1>5, LinksOfSlots
  <2>4. Keyed(new, Pairs(c.tab) \cup {Bucket(WordOf[key], l)})
    <3>1. Keyed(ks, Pairs(c.tab)) /\ \A b \in Pairs(c.tab) : KeyIn(ks, b) # key
      BY <2>2, <1>8
    <3>2. \A b \in Pairs(c.tab) : new[Slot(b.l)] = ks[Slot(b.l)]
      BY <2>1, <2>2
    <3>3. new[Slot(l)] = Stored(key)
      BY <2>2, <2>3, <1>5
    <3> QED BY <3>1, <3>2, <3>3, KeyedWith
  <2> QED BY <2>2, <2>3, <2>4, <1>1
<1>10. Pairs(tab) = {Bucket(d.words[i], Link(i)) : i \in L \cup {s}}
  <2>1. \A i \in L : d.words[i] = c.words[i]
    BY <1>7 DEF Same
  <2>2. {Bucket(d.words[i], Link(i)) : i \in L} = Pairs(c.tab)
    BY <2>1, <1>8
  <2>3. Bucket(d.words[s], Link(s)) = Bucket(WordOf[key], Link(s))
    BY <1>5
  <2> QED BY <2>2, <2>3, <1>1
<1>11. TableGood(d, L \cup {s})
  BY <1>1, <1>5, <1>6, <1>9, <1>10 DEF TableGood
<1>12. Good(d, With(chain, n, Link(s)))
  BY <1>5, <1>11 DEF Good, Linked
<1>13. d.fresh > c.fresh => n = c.fresh
  BY <1>3, <1>5
<1>14. s \in Nat \ SlotsOf(chain, n)
  BY <1>1, <1>5
<1> QED BY <1>1, <1>5, <1>6, <1>7, <1>12, <1>13, <1>14 DEF Added, e

-----------------------------------------------------------------------------
(* Finding a key.                                                          *)

\* Bucket at of c holds the key of the k-th entry.
Hits(c, chain, key, at, k) ==
  /\ k \in 1 .. c.n /\ at \in Full(c.tab) /\ c.tab[at].l = chain[k] /\ chain[k] # Nil
  /\ KeyOf(c.words[Slot(chain[k])], c.ks[Slot(chain[k])]) = key

\* No entry has the key, and its probe ends at the vacant bucket at.
Misses(c, chain, key, at) ==
  /\ \A b \in Pairs(c.tab) : KeyIn(c.ks, b) # key
  /\ \A k \in 1 .. c.n : KeyOf(c.words[Slot(chain[k])], c.ks[Slot(chain[k])]) # key
  /\ at = FirstOf(Vacant(c.tab), Home(WordOf[key], c.mask), c.mask)

(* A probe ends at the bucket of the key's entry, or at a vacant one when  *)
(* the key has none; no two entries have the same key.                     *)
LEMMA KeyFound ==
  ASSUME NEW c, NEW chain, Good(c, chain), NEW key \in Key
  PROVE  LET at == Probe(c.tab, c.ks, c.mask, key)
         IN /\ c.tab[at].l # Nil => \E k : Hits(c, chain, key, at, k)
            /\ c.tab[at].l = Nil => Misses(c, chain, key, at)
            /\ \A k, j : Hits(c, chain, key, at, k) /\ j \in 1 .. c.n
                 /\ KeyOf(c.words[Slot(chain[j])], c.ks[Slot(chain[j])]) = key => j = k
<1>1. PICK tab, ks, mask, at : tab = c.tab /\ ks = c.ks /\ mask = c.mask
                               /\ at = Probe(tab, ks, mask, key)
  OBVIOUS
<1>2. /\ Table(tab, mask) /\ Vacant(tab) # {} /\ Keyed(ks, Pairs(tab))
      /\ \A k \in 1 .. c.n : Bucket(c.words[Slot(chain[k])], chain[k]) \in Pairs(tab)
      /\ \A b \in Pairs(tab) : \E k \in 1 .. c.n : b = Bucket(c.words[Slot(chain[k])], chain[k])
  BY <1>1, GoodTable
<1>3. \A k \in 1 .. c.n : KeyIn(ks, Bucket(c.words[Slot(chain[k])], chain[k])) =
                            KeyOf(c.words[Slot(chain[k])], ks[Slot(chain[k])])
  BY DEF KeyIn, Bucket
<1>4. \/ /\ at \in Full(tab) /\ tab[at] \in Pairs(tab) /\ KeyIn(ks, tab[at]) = key
         /\ tab[at].l # Nil
      \/ /\ \A b \in Pairs(tab) : KeyIn(ks, b) # key
         /\ tab[at].l = Nil
         /\ at = FirstOf(Vacant(tab), Home(WordOf[key], mask), mask)
  BY <1>1, <1>2, ProbeFinds DEF LinkFound
<1>5. ASSUME tab[at].l # Nil PROVE \E k : Hits(c, chain, key, at, k)
  <2>1. PICK k \in 1 .. c.n : tab[at] = Bucket(c.words[Slot(chain[k])], chain[k])
    BY <1>2, <1>4, <1>5
  <2>2. tab[at].l = chain[k]
    BY <2>1 DEF Bucket
  <2>3. KeyOf(c.words[Slot(chain[k])], c.ks[Slot(chain[k])]) = key
    BY <2>1, <1>1, <1>3, <1>4, <1>5
  <2> QED BY <2>2, <2>3, <1>1, <1>4, <1>5 DEF Hits
<1>6. ASSUME tab[at].l = Nil PROVE Misses(c, chain, key, at)
  <2>1. \A b \in Pairs(tab) : KeyIn(ks, b) # key
    BY <1>4, <1>6
  <2>2. \A k \in 1 .. c.n : KeyOf(c.words[Slot(chain[k])], ks[Slot(chain[k])]) # key
    BY <2>1, <1>2, <1>3
  <2> QED BY <2>1, <2>2, <1>1, <1>4, <1>6 DEF Misses
<1>7. ASSUME NEW k, NEW j \in 1 .. c.n, Hits(c, chain, key, at, k),
             KeyOf(c.words[Slot(chain[j])], c.ks[Slot(chain[j])]) = key
      PROVE  j = k
  <2>1. k \in 1 .. c.n /\ KeyOf(c.words[Slot(chain[k])], ks[Slot(chain[k])]) = key
    BY <1>1, <1>7 DEF Hits
  <2>2. Bucket(c.words[Slot(chain[k])], chain[k]) = Bucket(c.words[Slot(chain[j])], chain[j])
    BY <2>1, <1>1, <1>2, <1>3, <1>7 DEF Keyed
  <2>3. chain[k] = chain[j]
    BY <2>2 DEF Bucket
  <2> QED BY <2>1, <2>3 DEF Good, ListGood, Orders
<1> QED BY <1>1, <1>5, <1>6, <1>7

-----------------------------------------------------------------------------
(* What a call makes of the entries.                                       *)

\* d is c with its k-th entry written and moved to the end.
Moved(c, chain, k, x, due, d) ==
  LET s == Slot(chain[k])
  IN /\ Good(d, With(Without(chain, c.n, k), c.n - 1, chain[k])) /\ d.n = c.n
     /\ Same(c, d, SlotsOf(chain, c.n) \ {s})
     /\ d.words[s] = c.words[s] /\ d.ks[s] = c.ks[s] /\ d.ents[s] = x /\ d.due[s] = due
     /\ Changes(c, d, ListFields \cup {"ents", "due"})

(* A read that hits.                                                       *)
LEMMA TouchedMoves ==
  ASSUME NEW c, NEW chain, Good(c, chain), NEW k \in 1 .. c.n
  PROVE  LET s == Slot(chain[k])
         IN Moved(c, chain, k, c.ents[s], c.due[s], Touched(c, s))
<1>1. PICK s, d : s = Slot(chain[k]) /\ d = Touched(c, s)
  OBVIOUS
<1>2. Good(d, With(Without(chain, c.n, k), c.n - 1, chain[k])) /\ Changes(c, d, ListFields)
  BY <1>1, TouchedIsGood
<1>3. d.words = c.words /\ d.ks = c.ks /\ d.ents = c.ents /\ d.due = c.due /\ d.n = c.n
  BY <1>2 DEF Changes, ListFields, Fields
<1>4. Changes(c, d, ListFields \cup {"ents", "due"})
  BY <1>2 DEF Changes
<1>5. Same(c, d, SlotsOf(chain, c.n) \ {s})
  BY <1>3 DEF Same
<1> QED BY <1>1, <1>2, <1>3, <1>4, <1>5 DEF Moved

(* A write of a key that has an entry.                                     *)
LEMMA WrittenMoves ==
  ASSUME NEW c, NEW chain, Good(c, chain), NEW k \in 1 .. c.n, NEW x, NEW due
  PROVE  LET s == Slot(chain[k])
         IN Moved(c, chain, k, x, due, Touched(PutEnt(c, s, x, due), s))
<1>1. PICK s, L : s = Slot(chain[k]) /\ L = SlotsOf(chain, c.n)
  OBVIOUS
<1> DEFINE p == PutEnt(c, s, x, due)
           d == Touched(p, s)
<1>2. /\ p.ents = [c.ents EXCEPT ![s] = x] /\ p.due = [c.due EXCEPT ![s] = due]
      /\ Changes(c, p, {"ents", "due"})
  BY DEF PutEnt, Changes, Fields, Good, Sized
<1> HIDE DEF p
<1>3. /\ p.n = c.n /\ p.words = c.words /\ p.ks = c.ks /\ p.tab = c.tab /\ p.mask = c.mask
      /\ p.cap = c.cap
  BY <1>2 DEF Changes, Fields
<1>4. Linked(c, chain) /\ TableGood(c, L)
  BY <1>1 DEF Good, Linked
<1>5. Linked(p, chain)
  BY <1>2, <1>4, LinkedKept DEF Changes
<1>6. TableGood(p, L)
  BY <1>3, <1>4 DEF TableGood
<1>7. Good(p, chain) /\ k \in 1 .. p.n
  BY <1>1, <1>3, <1>5, <1>6 DEF Good, Linked
<1>8. Good(d, With(Without(chain, c.n, k), c.n - 1, chain[k])) /\ Changes(p, d, ListFields)
  BY <1>1, <1>3, <1>7, TouchedIsGood
<1> HIDE DEF d
<1>9. d.words = c.words /\ d.ks = c.ks /\ d.ents = p.ents /\ d.due = p.due /\ d.n = c.n
  BY <1>3, <1>8 DEF Changes, ListFields, Fields
<1>10. Changes(c, d, ListFields \cup {"ents", "due"})
  BY <1>2, <1>8 DEF Changes
<1>11. s \in Slots(c.size) /\ DOMAIN c.ents = Slots(c.size) /\ DOMAIN c.due = Slots(c.size)
       /\ L \subseteq Slots(c.size)
  BY <1>1, GoodSlots DEF Good, Sized, Blocks, SlotsOf
<1>12. d.ents[s] = x /\ d.due[s] = due
  BY <1>2, <1>9, <1>11
<1>13. Same(c, d, L \ {s})
  BY <1>2, <1>9, <1>11 DEF Same
<1> QED BY <1>1, <1>8, <1>9, <1>10, <1>12, <1>13 DEF Moved, d, p

(* An entry of a new key, in the room that there is.                       *)
LEMMA PlacedAdds ==
  ASSUME NEW c, NEW chain, Good(c, chain), NEW key \in Key, NEW x, NEW due,
         \A b \in Pairs(c.tab) : KeyIn(c.ks, b) # key, 2 * (c.n + 1) <= c.mask + 1
  PROVE  LET tab == InsRaw(c.tab, c.mask, WordOf[key], Link(NextSlot(c)))
         IN Added(c, chain, key, x, due, InsertSlot(Retabled(c, tab), key, x, due))
<1>1. PICK w, l, tab : w = WordOf[key] /\ l = Link(NextSlot(c)) /\ tab = InsRaw(c.tab, c.mask, w, l)
  OBVIOUS
<1>2. /\ Table(c.tab, c.mask) /\ Vacant(c.tab) # {}
      /\ { Slot(b.l) : b \in Pairs(c.tab) } = SlotsOf(chain, c.n)
  BY GoodTable
<1>3. w \in Word /\ l \in Nat \ {0} /\ \A b \in Pairs(c.tab) : b.l # l
  <2>1. Taken(c, SlotsOf(chain, c.n), NextSlot(c), SlotTaken(c))
    BY SlotTakenTakes DEF Good, Linked
  <2>2. NextSlot(c) \in Nat /\ NextSlot(c) \notin SlotsOf(chain, c.n)
    BY <2>1 DEF Taken, Slots
  <2>3. l \in Nat \ {0} /\ Slot(l) = NextSlot(c)
    BY <2>2, <1>1, LinksOfSlots
  <2>4. \A b \in Pairs(c.tab) : b.l # l
    BY <2>2, <2>3, <1>2
  <2> QED BY <2>3, <2>4, <1>1 DEF Word
<1>4. Table(tab, c.mask) /\ Pairs(tab) = Pairs(c.tab) \cup {Bucket(w, l)}
  BY <1>1, <1>2, <1>3, InsRawWorks
<1>5. Added(c, chain, key, x, due, InsertSlot(Retabled(c, tab), key, x, due))
  BY <1>1, <1>4, InsertSlotAdds
<1> QED BY <1>1, <1>5

LEMMA MissRoomAdds ==
  ASSUME NEW c, NEW chain, Good(c, chain), NEW key \in Key, NEW x, NEW due, NEW at,
         Misses(c, chain, key, at), 2 * (c.n + 1) <= c.mask + 1
  PROVE  Added(c, chain, key, x, due, MissRoom(c, at, key, x, due))
<1>1. PICK tab : tab = InsRaw(c.tab, c.mask, WordOf[key], Link(NextSlot(c)))
  OBVIOUS
<1>2. tab = PutBucket(c.tab, at, WordOf[key], Link(NextSlot(c)))
  BY <1>1 DEF InsRaw, Misses
<1>3. MissRoom(c, at, key, x, due) = InsertSlot(Retabled(c, tab), key, x, due)
  BY <1>2 DEF MissRoom, Retabled
<1>4. \A b \in Pairs(c.tab) : KeyIn(c.ks, b) # key
  BY DEF Misses
<1> QED BY <1>1, <1>3, <1>4, PlacedAdds

(* The pairs that a drop leaves have their keys.                           *)
LEMMA KeysLeft ==
  ASSUME NEW c, NEW chain, Good(c, chain), NEW k \in 1 .. c.n, NEW d, Dropped(c, chain, k, d)
  PROVE  \A b \in Pairs(d.tab) : b \in Pairs(c.tab) /\ KeyIn(d.ks, b) = KeyIn(c.ks, b)
<1>1. PICK n, L, s, R : n = c.n /\ L = SlotsOf(chain, n) /\ s = Slot(chain[k]) /\ R = L \ {s}
  OBVIOUS
<1>2. SlotsOf(Without(chain, n, k), n - 1) = R
  BY <1>1, WithoutOrders DEF Good, ListGood
<1>3. /\ Pairs(d.tab) = {Bucket(d.words[i], Link(i)) : i \in R} /\ Same(c, d, R)
      /\ Pairs(c.tab) = {Bucket(c.words[i], Link(i)) : i \in L}
  BY <1>1, <1>2 DEF Dropped, Good, TableGood
<1>4. \A i \in R : Slot(Link(i)) = i
  BY <1>1, GoodSlots, LinksOfSlots
<1>5. ASSUME NEW i \in R
      PROVE  LET b == Bucket(d.words[i], Link(i))
             IN b \in Pairs(c.tab) /\ KeyIn(d.ks, b) = KeyIn(c.ks, b)
  BY <1>1, <1>3, <1>4 DEF Same, KeyIn, Bucket
<1> QED BY <1>3, <1>5

\* d is c with its oldest entry gone and a new entry at the end.
Replaced(c, chain, key, x, due, d) ==
  \E e : Dropped(c, chain, 1, e) /\ Added(e, Without(chain, c.n, 1), key, x, due, d)

(* In a full cache, the oldest entry gives way.                            *)
LEMMA MissFullReplaces ==
  ASSUME NEW c, NEW chain, Good(c, chain), c.n # 0, NEW key \in Key, NEW x, NEW due,
         NEW at, Misses(c, chain, key, at)
  PROVE  Replaced(c, chain, key, x, due, MissFull(c, key, x, due))
<1>1. PICK e, rest, tab : /\ e = EvictOldest(c) /\ rest = Without(chain, c.n, 1)
                          /\ tab = InsRaw(e.tab, e.mask, WordOf[key], Link(NextSlot(e)))
  OBVIOUS
<1>2. Dropped(c, chain, 1, e) /\ 1 \in 1 .. c.n
  BY <1>1, EvictOldestDrops DEF Good, Sized
<1>3. Good(e, rest) /\ e.n = c.n - 1 /\ e.mask = c.mask
  BY <1>1, <1>2 DEF Dropped, Changes, ListFields, Fields
<1>4. \A b \in Pairs(e.tab) : KeyIn(e.ks, b) # key
  BY <1>2, KeysLeft DEF Misses
<1>5. 2 * (e.n + 1) <= e.mask + 1
  <2>1. c.n \in Nat /\ 2 * c.n <= c.mask + 1
    BY DEF Good, Sized, TableGood
  <2> QED BY <2>1, <1>3
<1>6. Added(e, rest, key, x, due, InsertSlot(Retabled(e, tab), key, x, due))
  BY <1>1, <1>3, <1>4, <1>5, PlacedAdds
<1>7. MissFull(c, key, x, due) = InsertSlot(Retabled(e, tab), key, x, due)
  BY <1>1 DEF MissFull, Retabled
<1> QED BY <1>1, <1>2, <1>6, <1>7 DEF Replaced

-----------------------------------------------------------------------------
(* Dropping the oldest entries.                                            *)

\* The chain without its first m links.
Rest(chain, n, m) == [j \in 0 .. n - m + 1 |-> IF j = 0 THEN Nil ELSE chain[j + m]]

DropFields == ListFields \cup {"n", "free", "ents", "tab"}

SameAt(c, d, s) ==
  /\ d.words[s] = c.words[s] /\ d.ks[s] = c.ks[s]
  /\ d.ents[s] = c.ents[s] /\ d.due[s] = c.due[s]

\* d is c without its first m entries.
EvictedBy(c, chain, m, d) ==
  /\ m \in 0 .. c.n /\ Good(d, Rest(chain, c.n, m)) /\ d.n = c.n - m
  /\ Changes(c, d, DropFields)
  /\ \A j \in m + 1 .. c.n : SameAt(c, d, Slot(chain[j]))

LEMMA RestGoesOn ==
  ASSUME NEW chain, NEW n \in Nat, NEW m \in 0 .. n, m # n
  PROVE  Without(Rest(chain, n, m), n - m, 1) = Rest(chain, n, m + 1)
<1> DEFINE r == Rest(chain, n, m)
<1>1. n - (m + 1) + 1 = n - m
  OBVIOUS
<1>2. ASSUME NEW j \in 0 .. n - m
      PROVE  (IF j < 1 THEN r[j] ELSE r[j + 1]) = (IF j = 0 THEN Nil ELSE chain[j + (m + 1)])
  <2>1. j \in 0 .. n - m + 1 /\ j + 1 \in 0 .. n - m + 1 /\ j + 1 # 0 /\ (j + 1) + m = j + (m + 1)
        /\ (j < 1 <=> j = 0)
    OBVIOUS
  <2> QED BY <2>1 DEF Rest
<1> HIDE DEF r
<1> QED BY <1>1, <1>2 DEF Without, Rest, r

LEMMA NothingEvicted ==
  ASSUME NEW c, NEW chain, Good(c, chain)
  PROVE  EvictedBy(c, chain, 0, c)
<1>1. c.n \in Nat /\ chain \in [0 .. c.n + 1 -> Nat] /\ chain[0] = Nil /\ DOMAIN c = Fields
  BY DEF Good, ListGood, Orders, Sized
<1>2. Rest(chain, c.n, 0) = chain
  <2>1. c.n - 0 + 1 = c.n + 1 /\ \A j \in 0 .. c.n + 1 : j + 0 = j
    BY <1>1
  <2>2. Rest(chain, c.n, 0) = [j \in 0 .. c.n + 1 |-> IF j = 0 THEN Nil ELSE chain[j + 0]]
    BY <2>1 DEF Rest
  <2> HIDE DEF Rest
  <2> QED BY <2>1, <2>2, <1>1
<1> QED BY <1>1, <1>2 DEF EvictedBy, Changes, SameAt

LEMMA EvictOneMore ==
  ASSUME NEW c, NEW chain, Good(c, chain), NEW m, NEW d, EvictedBy(c, chain, m, d), d.n # 0
  PROVE  EvictedBy(c, chain, m + 1, EvictOldest(d))
<1>1. PICK n, rest, e : n = c.n /\ rest = Rest(chain, n, m) /\ e = EvictOldest(d)
  OBVIOUS
<1>2. n \in Nat /\ m \in 0 .. n /\ m # n /\ d.n = n - m /\ Good(d, rest)
      /\ Orders(chain, n, Slots(c.fresh))
  BY <1>1 DEF EvictedBy, Good, Sized, ListGood
<1>3. Dropped(d, rest, 1, e)
  BY <1>1, <1>2, EvictOldestDrops
<1>4. Good(e, Without(rest, n - m, 1)) /\ e.n = n - m - 1 /\ Changes(d, e, DropFields)
      /\ Same(d, e, SlotsOf(rest, n - m) \ {Slot(rest[1])})
  BY <1>2, <1>3 DEF Dropped, DropFields
<1>5. Good(e, Rest(chain, n, m + 1)) /\ m + 1 \in 0 .. n /\ e.n = n - (m + 1)
  BY <1>1, <1>2, <1>4, RestGoesOn
<1>6. Changes(c, e, DropFields)
  BY <1>4 DEF EvictedBy, Changes
<1>7. ASSUME NEW j \in (m + 1) + 1 .. n
      PROVE  SameAt(c, e, Slot(chain[j]))
  <2>1. /\ j - m \in 1 .. n - m /\ j - m \in 0 .. n - m + 1 /\ (j - m) + m = j /\ j - m # 0 /\ j - m # 1
        /\ j \in m + 1 .. n /\ 1 \in 0 .. n - m + 1 /\ 1 \in 1 .. n - m
    BY <1>2
  <2>2. rest[j - m] = chain[j]
    BY <2>1, <1>1 DEF Rest
  <2>3. Slot(rest[j - m]) # Slot(rest[1])
    BY <2>1, <1>2, ChainLinks DEF Good, ListGood
  <2>4. Slot(chain[j]) \in SlotsOf(rest, n - m) \ {Slot(rest[1])}
    BY <2>1, <2>2, <2>3 DEF SlotsOf
  <2>5. SameAt(c, d, Slot(chain[j]))
    BY <2>1, <1>1 DEF EvictedBy
  <2> QED BY <2>4, <2>5, <1>4 DEF Same, SameAt
<1> QED BY <1>1, <1>5, <1>6, <1>7 DEF EvictedBy

\* The oldest of the entries left is the next of the chain.
LEMMA OldestLeft ==
  ASSUME NEW c, NEW chain, Good(c, chain), NEW m, NEW d, EvictedBy(c, chain, m, d)
  PROVE  /\ d.n = 0 <=> m = c.n
         /\ d.head = Nil <=> m = c.n
         /\ m # c.n => d.head = chain[m + 1] /\ d.due[Slot(d.head)] = c.due[Slot(chain[m + 1])]
<1>1. PICK n, rest : n = c.n /\ rest = Rest(chain, n, m)
  OBVIOUS
<1>2. n \in Nat /\ m \in 0 .. n /\ d.n = n - m /\ Good(d, rest) /\ Orders(chain, n, Slots(c.fresh))
  BY <1>1 DEF EvictedBy, Good, Sized, ListGood
<1>3. 1 \in 0 .. n - m + 1 /\ 1 # 0 /\ 1 + m = m + 1 /\ m + 1 \in 0 .. n + 1
      /\ (m + 1 = n + 1 <=> m = n) /\ (m # n => m + 1 \in m + 1 .. n) /\ m + 1 # 0
  BY <1>2
<1>4. d.head = chain[m + 1]
  <2>1. d.head = rest[1]
    BY <1>2 DEF Good, ListGood, Spells
  <2>2. rest[1] = chain[m + 1]
    BY <1>1, <1>3 DEF Rest
  <2> QED BY <2>1, <2>2
<1>5. chain[m + 1] = Nil <=> m = n
  BY <1>2, <1>3, ChainLinks
<1>6. m # n => d.due[Slot(chain[m + 1])] = c.due[Slot(chain[m + 1])]
  BY <1>1, <1>3 DEF EvictedBy, SameAt
<1> QED BY <1>1, <1>2, <1>4, <1>5, <1>6

(* keys drops the longest prefix of expired entries.                       *)
PrefixGone(c, chain, now, j, r) ==
  \E m \in 0 .. j :
    /\ EvictedBy(c, chain, m, r[1]) /\ r[2] = m
    /\ \A i \in 1 .. m : Expired(c.due[Slot(chain[i])], now)
    /\ m = j \/ m = c.n \/ ~ Expired(c.due[Slot(chain[m + 1])], now)

LEMMA PrefixGoesOn ==
  ASSUME NEW c, NEW chain, Good(c, chain), NEW now, NEW j \in 0 .. c.n - 1, NEW r,
         PrefixGone(c, chain, now, j, r)
  PROVE  PrefixGone(c, chain, now, j + 1,
           IF r[1].head # Nil /\ Expired(r[1].due[Slot(r[1].head)], now)
           THEN <<EvictOldest(r[1]), j + 1>> ELSE r)
<1>1. PICK m \in 0 .. j :
        /\ EvictedBy(c, chain, m, r[1]) /\ r[2] = m
        /\ \A i \in 1 .. m : Expired(c.due[Slot(chain[i])], now)
        /\ m = j \/ m = c.n \/ ~ Expired(c.due[Slot(chain[m + 1])], now)
  BY DEF PrefixGone
<1>2. PICK d, due : d = r[1] /\ due = c.due[Slot(chain[m + 1])]
  OBVIOUS
<1>3. /\ c.n \in Nat /\ j \in Nat /\ m \in Nat /\ m # c.n /\ j < c.n
      /\ m \in 0 .. j + 1 /\ m + 1 \in 0 .. j + 1
  BY DEF Good, Sized
<1>4. d.head # Nil /\ d.due[Slot(d.head)] = due /\ d.n # 0
  BY <1>1, <1>2, <1>3, OldestLeft
<1>5. CASE Expired(due, now)
  <2>1. m = j
    BY <1>1, <1>2, <1>3, <1>5
  <2>2. EvictedBy(c, chain, m + 1, EvictOldest(d))
    BY <1>1, <1>2, <1>4, EvictOneMore
  <2>3. \A i \in 1 .. m + 1 : Expired(c.due[Slot(chain[i])], now)
    <3>1. \A i \in 1 .. m + 1 : i \in 1 .. m \/ i = m + 1
      BY <1>3
    <3> QED BY <3>1, <1>1, <1>2, <1>5
  <2>4. PrefixGone(c, chain, now, j + 1, <<EvictOldest(d), j + 1>>)
    BY <2>1, <2>2, <2>3, <1>3 DEF PrefixGone
  <2> QED BY <2>4, <1>2, <1>4, <1>5
<1>6. CASE ~ Expired(due, now)
  <2>1. PrefixGone(c, chain, now, j + 1, r)
    BY <1>1, <1>2, <1>3, <1>6 DEF PrefixGone
  <2> QED BY <2>1, <1>2, <1>4, <1>6
<1> QED BY <1>5, <1>6

LEMMA PrefixIsDropped ==
  ASSUME NEW c, NEW chain, Good(c, chain), NEW now
  PROVE  PrefixGone(c, chain, now, c.n, PrefixDropped(c, now))
<1> DEFINE n == c.n
           Step(k, r) == IF r[1].head # Nil /\ Expired(r[1].due[Slot(r[1].head)], now)
                         THEN <<EvictOldest(r[1]), k>> ELSE r
           Body(k, f) == IF k = 0 THEN <<c, 0>>
                           ELSE LET d == f[k - 1][1]
                                IN IF d.head # Nil /\ Expired(d.due[Slot(d.head)], now)
                                   THEN <<EvictOldest(d), k>> ELSE f[k - 1]
           Eq(m, f) == f = [k \in 0 .. m |-> Body(k, f)]
<1>1. n \in Nat
  BY DEF Good, Sized
<1>2. \A k, f : Body(k, f) = IF k = 0 THEN <<c, 0>> ELSE Step(k, f[k - 1])
  OBVIOUS
<1> HIDE DEF Body, Step
<1>3. \A m \in Nat : \E f : Eq(m, f)
  <2> DEFINE S == {m \in Nat : \E f : Eq(m, f)}
  <2>1. 0 \in S
    <3> DEFINE f == [k \in 0 .. 0 |-> <<c, 0>>]
    <3>1. \A k \in 0 .. 0 : Body(k, f) = <<c, 0>>
      BY <1>2
    <3>2. f = [k \in 0 .. 0 |-> Body(k, f)]
      BY <3>1
    <3> QED BY <3>2
  <2>2. ASSUME NEW m \in Nat, m \in S PROVE m + 1 \in S
    <3>1. PICK f : Eq(m, f)
      BY <2>2
    <3> DEFINE g == [k \in 0 .. m + 1 |-> IF k = m + 1 THEN Step(m + 1, f[m]) ELSE f[k]]
    <3>2. \A k \in 0 .. m : k \in 0 .. m + 1 /\ k # m + 1 /\ g[k] = f[k]
      OBVIOUS
    <3>3. g[m + 1] = Step(m + 1, f[m])
      OBVIOUS
    <3>4. g = [k \in 0 .. m + 1 |-> g[k]]
      OBVIOUS
    <3> HIDE DEF g
    <3>5. ASSUME NEW k \in 0 .. m PROVE g[k] = Body(k, g)
      <4>1. g[k] = Body(k, f)
        BY <3>1, <3>2
      <4>2. k # 0 => k - 1 \in 0 .. m
        OBVIOUS
      <4>3. k # 0 => g[k - 1] = f[k - 1]
        BY <4>2, <3>2
      <4> QED BY <4>1, <4>3, <1>2
    <3>6. g[m + 1] = Body(m + 1, g)
      <4>1. (m + 1) - 1 = m /\ m + 1 # 0 /\ m \in 0 .. m
        OBVIOUS
      <4> QED BY <4>1, <3>2, <3>3, <1>2
    <3>7. \A k \in 0 .. m + 1 : k \in 0 .. m \/ k = m + 1
      OBVIOUS
    <3>8. Eq(m + 1, g)
      BY <3>4, <3>5, <3>6, <3>7
    <3> QED BY <3>8
  <2> HIDE DEF S
  <2>3. \A m \in Nat : m \in S
    BY <2>1, <2>2, SetInduction
  <2> QED BY <2>3 DEF S
<1> DEFINE step == CHOOSE f : Eq(n, f)
<1>4. Eq(n, step)
  BY <1>1, <1>3
<1>5. PrefixDropped(c, now) = step[n]
  BY DEF PrefixDropped, Body
<1> HIDE DEF step
<1>6. /\ step[0] = <<c, 0>>
      /\ \A j \in 0 .. n - 1 : step[j + 1] = Step(j + 1, step[j])
  <2>1. \A k \in 0 .. n : step[k] = Body(k, step)
    BY <1>4
  <2>2. 0 \in 0 .. n /\ \A j \in 0 .. n - 1 : j + 1 \in 0 .. n /\ j + 1 # 0 /\ (j + 1) - 1 = j
    BY <1>1
  <2> HIDE DEF Eq
  <2> QED BY <2>1, <2>2, <1>2
<1> DEFINE S == {j \in 0 .. n : PrefixGone(c, chain, now, j, step[j])}
<1>7. 0 \in S
  <2>1. EvictedBy(c, chain, 0, c) /\ 0 \in 0 .. n
    BY <1>1, NothingEvicted
  <2>2. PrefixGone(c, chain, now, 0, <<c, 0>>)
    BY <2>1 DEF PrefixGone
  <2> QED BY <2>1, <2>2, <1>6
<1>8. ASSUME NEW j \in 0 .. n - 1, j \in S PROVE j + 1 \in S
  <2>1. PrefixGone(c, chain, now, j + 1, Step(j + 1, step[j]))
    BY <1>8, PrefixGoesOn DEF Step
  <2> QED BY <2>1, <1>1, <1>6
<1> HIDE DEF S
<1>9. \A j \in 0 .. n : j \in S
  BY <1>1, <1>7, <1>8, BoundedInduction
<1> QED BY <1>1, <1>5, <1>9 DEF S

(* resize drops as many of the oldest entries as are too many.             *)
Over(c) == IF c.n > c.cap THEN c.n - c.cap ELSE 0

OverGone(c, chain, j, d) ==
  \E m \in 0 .. j : EvictedBy(c, chain, m, d) /\ m <= Over(c) /\ (m = j \/ m = Over(c))

LEMMA OverGoesOn ==
  ASSUME NEW c, NEW chain, Good(c, chain), c.cap \in Nat, NEW j \in 0 .. c.n - 1, NEW d,
         OverGone(c, chain, j, d)
  PROVE  OverGone(c, chain, j + 1, IF c.cap < d.n THEN EvictOldest(d) ELSE d)
<1>1. PICK m \in 0 .. j : EvictedBy(c, chain, m, d) /\ m <= Over(c) /\ (m = j \/ m = Over(c))
  BY DEF OverGone
<1>2. c.n \in Nat /\ d.n = c.n - m /\ m \in 0 .. j + 1 /\ m + 1 \in 0 .. j + 1 /\ m \in Nat
  BY <1>1 DEF Good, Sized, EvictedBy
<1>3. CASE c.cap < d.n
  <2>1. m + 1 <= Over(c) /\ m = j
    BY <1>1, <1>2, <1>3 DEF Over
  <2>2. d.n # 0
    BY <1>2, <1>3
  <2>3. EvictedBy(c, chain, m + 1, EvictOldest(d))
    BY <2>2, <1>1, EvictOneMore
  <2>4. OverGone(c, chain, j + 1, EvictOldest(d))
    BY <2>1, <2>3, <1>2 DEF OverGone
  <2> QED BY <2>4, <1>3
<1>4. CASE ~ c.cap < d.n
  <2>1. m = Over(c)
    BY <1>1, <1>2, <1>4 DEF Over
  <2>2. OverGone(c, chain, j + 1, d)
    BY <2>1, <1>1, <1>2 DEF OverGone
  <2> QED BY <2>2, <1>4
<1> QED BY <1>3, <1>4

LEMMA OverIsEvicted ==
  ASSUME NEW c, NEW chain, Good(c, chain), c.cap \in Nat
  PROVE  EvictedBy(c, chain, Over(c), EvictedTo(c))
<1> DEFINE n == c.n
           Step(d) == IF c.cap < d.n THEN EvictOldest(d) ELSE d
           Body(k, f) == IF k = 0 THEN c
                         ELSE IF c.cap < f[k - 1].n THEN EvictOldest(f[k - 1])
                         ELSE f[k - 1]
           Eq(m, f) == f = [k \in 0 .. m |-> Body(k, f)]
<1>1. n \in Nat
  BY DEF Good, Sized
<1>2. \A k, f : Body(k, f) = IF k = 0 THEN c ELSE Step(f[k - 1])
  OBVIOUS
<1> HIDE DEF Body, Step
<1>3. \A m \in Nat : \E f : Eq(m, f)
  <2> DEFINE S == {m \in Nat : \E f : Eq(m, f)}
  <2>1. 0 \in S
    <3> DEFINE f == [k \in 0 .. 0 |-> c]
    <3>1. \A k \in 0 .. 0 : Body(k, f) = c
      BY <1>2
    <3>2. f = [k \in 0 .. 0 |-> Body(k, f)]
      BY <3>1
    <3> QED BY <3>2
  <2>2. ASSUME NEW m \in Nat, m \in S PROVE m + 1 \in S
    <3>1. PICK f : Eq(m, f)
      BY <2>2
    <3> DEFINE g == [k \in 0 .. m + 1 |-> IF k = m + 1 THEN Step(f[m]) ELSE f[k]]
    <3>2. \A k \in 0 .. m : k \in 0 .. m + 1 /\ k # m + 1 /\ g[k] = f[k]
      OBVIOUS
    <3>3. g[m + 1] = Step(f[m])
      OBVIOUS
    <3>4. g = [k \in 0 .. m + 1 |-> g[k]]
      OBVIOUS
    <3> HIDE DEF g
    <3>5. ASSUME NEW k \in 0 .. m PROVE g[k] = Body(k, g)
      <4>1. g[k] = Body(k, f)
        BY <3>1, <3>2
      <4>2. k # 0 => k - 1 \in 0 .. m
        OBVIOUS
      <4>3. k # 0 => g[k - 1] = f[k - 1]
        BY <4>2, <3>2
      <4> QED BY <4>1, <4>3, <1>2
    <3>6. g[m + 1] = Body(m + 1, g)
      <4>1. (m + 1) - 1 = m /\ m + 1 # 0 /\ m \in 0 .. m
        OBVIOUS
      <4> QED BY <4>1, <3>2, <3>3, <1>2
    <3>7. \A k \in 0 .. m + 1 : k \in 0 .. m \/ k = m + 1
      OBVIOUS
    <3>8. Eq(m + 1, g)
      BY <3>4, <3>5, <3>6, <3>7
    <3> QED BY <3>8
  <2> HIDE DEF S
  <2>3. \A m \in Nat : m \in S
    BY <2>1, <2>2, SetInduction
  <2> QED BY <2>3 DEF S
<1> DEFINE step == CHOOSE f : Eq(n, f)
<1>4. Eq(n, step)
  BY <1>1, <1>3
<1>5. EvictedTo(c) = step[n]
  BY DEF EvictedTo, Body
<1> HIDE DEF step
<1>6. /\ step[0] = c
      /\ \A j \in 0 .. n - 1 : step[j + 1] = Step(step[j])
  <2>1. \A k \in 0 .. n : step[k] = Body(k, step)
    BY <1>4
  <2>2. 0 \in 0 .. n /\ \A j \in 0 .. n - 1 : j + 1 \in 0 .. n /\ j + 1 # 0 /\ (j + 1) - 1 = j
    BY <1>1
  <2> HIDE DEF Eq
  <2> QED BY <2>1, <2>2, <1>2
<1> DEFINE S == {j \in 0 .. n : OverGone(c, chain, j, step[j])}
<1>7. 0 \in S
  <2>1. EvictedBy(c, chain, 0, c) /\ 0 \in 0 .. n /\ 0 <= Over(c)
    BY <1>1, NothingEvicted DEF Over
  <2>2. OverGone(c, chain, 0, c)
    BY <2>1 DEF OverGone
  <2> QED BY <2>1, <2>2, <1>6
<1>8. ASSUME NEW j \in 0 .. n - 1, j \in S PROVE j + 1 \in S
  <2>1. OverGone(c, chain, j + 1, Step(step[j]))
    BY <1>8, OverGoesOn DEF Step
  <2> QED BY <2>1, <1>1, <1>6
<1> HIDE DEF S
<1>9. \A j \in 0 .. n : j \in S
  BY <1>1, <1>7, <1>8, BoundedInduction
<1>10. OverGone(c, chain, n, step[n])
  BY <1>1, <1>9 DEF S
<1>11. PICK m \in 0 .. n : EvictedBy(c, chain, m, step[n]) /\ m <= Over(c) /\ (m = n \/ m = Over(c))
  BY <1>10 DEF OverGone
<1>12. m = Over(c)
  BY <1>1, <1>11 DEF Over
<1> QED BY <1>5, <1>11, <1>12

-----------------------------------------------------------------------------
(* The walk along the list.                                                *)

(* A walk from the newest entry meets the links of the chain.              *)
LEMMA RecencyIsChain ==
  ASSUME NEW c, NEW chain, Good(c, chain)
  PROVE  Recency(c) = [k \in 1 .. c.n |-> chain[k]]
<1> DEFINE n == c.n
           Body(k, f) == IF k = 1 THEN c.tail ELSE c.prevs[Slot(f[k - 1])]
           Eq(f) == f = [k \in 1 .. n |-> Body(k, f)]
           at == CHOOSE f : Eq(f)
           g == [k \in 1 .. n |-> chain[n + 1 - k]]
<1>1. /\ n \in Nat /\ c.tail = chain[n]
      /\ \A k \in 1 .. n : c.prevs[Slot(chain[k])] = chain[k - 1]
  BY DEF Good, Sized, ListGood, Spells
<1>2. \A k \in 1 .. n : k # 1 => k - 1 \in 1 .. n /\ n + 1 - (k - 1) \in 1 .. n
                                 /\ n + 1 - (k - 1) - 1 = n + 1 - k
  BY <1>1
<1>3. Eq(g)
  <2>1. ASSUME NEW k \in 1 .. n PROVE chain[n + 1 - k] = Body(k, g)
    <3>1. CASE k = 1
      <4>1. n + 1 - k = n
        BY <3>1, <1>1
      <4> QED BY <3>1, <4>1, <1>1
    <3>2. CASE k # 1
      <4>1. g[k - 1] = chain[n + 1 - (k - 1)]
        BY <3>2, <1>2
      <4>2. PICK i : i = n + 1 - (k - 1)
        OBVIOUS
      <4>3. i \in 1 .. n /\ i - 1 = n + 1 - k
        BY <4>2, <3>2, <1>1
      <4>4. c.prevs[Slot(chain[i])] = chain[n + 1 - k]
        BY <4>3, <1>1
      <4>5. g[k - 1] = chain[i]
        BY <4>1, <4>2
      <4> HIDE DEF g
      <4> QED BY <3>2, <4>4, <4>5
    <3> QED BY <3>1, <3>2
  <2> QED BY <2>1
<1> HIDE DEF g
<1>4. Eq(at)
  BY <1>3
<1> HIDE DEF at
<1>5. DOMAIN at = 1 .. n /\ \A k \in 1 .. n : at[k] = Body(k, at)
  BY <1>4
<1> DEFINE S == {j \in Nat : j = 0 \/ at[j] = chain[n + 1 - j]}
<1>6. 0 \in S
  OBVIOUS
<1>7. ASSUME NEW j \in 0 .. n - 1, j \in S PROVE j + 1 \in S
  <2>1. j + 1 \in 1 .. n /\ (j + 1) - 1 = j /\ (j + 1 = 1 <=> j = 0) /\ n + 1 - 1 = n
        /\ n + 1 - (j + 1) = n + 1 - j - 1 /\ (j # 0 => n + 1 - j \in 1 .. n)
    BY <1>1
  <2>2. at[j + 1] = Body(j + 1, at)
    BY <2>1, <1>5
  <2>3. CASE j = 0
    BY <2>1, <2>2, <2>3, <1>1
  <2>4. CASE j # 0
    <3>1. at[j] = chain[n + 1 - j]
      BY <2>4, <1>7
    <3>2. at[j + 1] = c.prevs[Slot(chain[n + 1 - j])]
      BY <2>1, <2>2, <2>4, <3>1
    <3>3. at[j + 1] = chain[n + 1 - j - 1]
      BY <3>2, <2>1, <2>4, <1>1
    <3> QED BY <3>3, <2>1
  <2> QED BY <2>3, <2>4
<1> HIDE DEF S
<1>8. \A j \in 0 .. n : j \in S
  BY <1>1, <1>6, <1>7, BoundedInduction
<1>9. \A j \in 1 .. n : at[j] = chain[n + 1 - j]
  BY <1>1, <1>8 DEF S
<1>10. \A k \in 1 .. n : n + 1 - k \in 1 .. n /\ n + 1 - (n + 1 - k) = k
  BY <1>1
<1>11. Recency(c) = [k \in 1 .. n |-> at[n + 1 - k]]
  BY DEF Recency, at, Body
<1>12. \A k \in 1 .. n : at[n + 1 - k] = chain[k]
  BY <1>9, <1>10
<1> HIDE DEF Eq, Body
<1> QED BY <1>11, <1>12

-----------------------------------------------------------------------------
(* The entries, oldest first.                                              *)

EntryAt(c, l) ==
  LET s == Slot(l)
  IN [key |-> KeyOf(c.words[s], c.ks[s]), val |-> c.ents[s], due |-> c.due[s]]

EntriesOf(c, chain) == [k \in 1 .. c.n |-> EntryAt(c, chain[k])]

\* The sequence s without its k-th element.
Removed(s, k) == SubSeq(s, 1, k - 1) \o SubSeq(s, k + 1, Len(s))

LEMMA AppendedSequence ==
  ASSUME NEW D, NEW s \in Seq(D), NEW t \in Seq(D), NEW e \in D, Len(t) = Len(s) + 1,
         \A j \in 1 .. Len(s) : t[j] = s[j], t[Len(s) + 1] = e
  PROVE  t = Append(s, e)
<1>1. Append(s, e) \in Seq(D) /\ Len(Append(s, e)) = Len(s) + 1
  OBVIOUS
<1>2. ASSUME NEW j \in 1 .. Len(t) PROVE t[j] = Append(s, e)[j]
  <2>1. j \in 1 .. Len(s) \/ j = Len(s) + 1
    OBVIOUS
  <2> QED BY <2>1
<1> QED BY <1>1, <1>2, SameElements

(* The k-th element moved to the end, as e.                                *)
LEMMA MovedSequence ==
  ASSUME NEW D, NEW s \in Seq(D), NEW t \in Seq(D), NEW e \in D, NEW k \in 1 .. Len(s),
         Len(t) = Len(s), \A j \in 1 .. k - 1 : t[j] = s[j],
         \A j \in k .. Len(s) - 1 : t[j] = s[j + 1], t[Len(s)] = e
  PROVE  t = Append(Removed(s, k), e)
<1> DEFINE r == [j \in 1 .. Len(s) - 1 |-> t[j]]
<1>1. Len(s) \in Nat /\ Len(s) - 1 \in Nat /\ \A j \in 1 .. Len(s) - 1 : j \in 1 .. Len(t)
      /\ Len(s) - 1 + 1 = Len(s)
  OBVIOUS
<1>2. r \in Seq(D) /\ Len(r) = Len(s) - 1
  <2>1. r \in [1 .. Len(s) - 1 -> D]
    BY <1>1
  <2> HIDE DEF r
  <2> QED BY <2>1, <1>1
<1>3. \A j \in 1 .. Len(s) - 1 : r[j] = t[j]
  OBVIOUS
<1> HIDE DEF r
<1>4. r = Removed(s, k)
  <2>1. \A j \in 1 .. k - 1 : r[j] = s[j]
    BY <1>1, <1>3
  <2>2. \A j \in k .. Len(s) - 1 : r[j] = s[j + 1]
    BY <1>1, <1>3
  <2> QED BY <2>1, <2>2, <1>2, RemovedSequence DEF Removed
<1>5. PICK u : u = r
  OBVIOUS
<1>6. u \in Seq(D) /\ Len(t) = Len(u) + 1 /\ t[Len(u) + 1] = e
      /\ \A j \in 1 .. Len(u) : t[j] = u[j]
  BY <1>1, <1>2, <1>3, <1>5
<1>7. t = Append(u, e)
  BY <1>6, AppendedSequence
<1> QED BY <1>4, <1>5, <1>7

(* The elements after the m-th.                                            *)
LEMMA LaterSequence ==
  ASSUME NEW D, NEW s \in Seq(D), NEW t \in Seq(D), NEW m \in 0 .. Len(s),
         Len(t) = Len(s) - m, \A j \in 1 .. Len(t) : t[j] = s[j + m]
  PROVE  t = SubSeq(s, m + 1, Len(s))
<1> DEFINE u == SubSeq(s, m + 1, Len(s))
<1>1. u \in Seq(D) /\ Len(u) = Len(s) - m
  OBVIOUS
<1>2. \A j \in 1 .. Len(t) : u[j] = s[j + m]
  <2>1. \A j \in 1 .. Len(s) - m : u[j] = s[(m + 1) + j - 1] /\ (m + 1) + j - 1 = j + m
    OBVIOUS
  <2> QED BY <2>1
<1> HIDE DEF u
<1> QED BY <1>1, <1>2, SameElements DEF u

LEMMA EntriesAreSequence ==
  ASSUME NEW c, NEW chain, c.n \in Nat, NEW D, \A k \in 1 .. c.n : EntryAt(c, chain[k]) \in D
  PROVE  /\ EntriesOf(c, chain) \in Seq(D) /\ Len(EntriesOf(c, chain)) = c.n
         /\ \A k \in 1 .. c.n : EntriesOf(c, chain)[k] = EntryAt(c, chain[k])
<1> DEFINE s == EntriesOf(c, chain)
<1>1. s \in [1 .. c.n -> D]
  BY DEF EntriesOf
<1>2. \A k \in 1 .. c.n : s[k] = EntryAt(c, chain[k])
  BY DEF EntriesOf
<1> HIDE DEF s
<1> QED BY <1>1, <1>2 DEF s

\* The same entry in the same slot.
LEMMA SameEntry ==
  ASSUME NEW c, NEW d, NEW l, SameAt(c, d, Slot(l))
  PROVE  EntryAt(d, l) = EntryAt(c, l)
  BY DEF SameAt, EntryAt

(* What is left when an entry is dropped.                                  *)
LEMMA DroppedEntries ==
  ASSUME NEW c, NEW chain, Good(c, chain), NEW k \in 1 .. c.n, NEW d, Dropped(c, chain, k, d)
  PROVE  EntriesOf(d, Without(chain, c.n, k)) = Removed(EntriesOf(c, chain), k)
<1>1. PICK n, rest, s, t : /\ n = c.n /\ rest = Without(chain, n, k)
                           /\ s = EntriesOf(c, chain) /\ t = EntriesOf(d, rest)
  OBVIOUS
<1>2. n \in Nat /\ d.n = n - 1 /\ n - 1 \in Nat /\ k \in 1 .. n
  BY <1>1 DEF Good, Sized, Dropped
<1>3. /\ \A j \in 1 .. k - 1 : rest[j] = chain[j]
      /\ \A j \in k .. n - 1 : rest[j] = chain[j + 1]
  BY <1>1, <1>2 DEF Without
<1>4. \A j \in 1 .. n : j # k => EntryAt(d, chain[j]) = EntryAt(c, chain[j])
  <2>1. \A j \in 1 .. n : j # k => Slot(chain[j]) \in SlotsOf(chain, n) \ {Slot(chain[k])}
    BY <1>1, <1>2, ChainLinks DEF Good, ListGood, SlotsOf
  <2>2. \A j \in 1 .. n : j # k => SameAt(c, d, Slot(chain[j]))
    BY <2>1, <1>1 DEF Dropped, Same, SameAt
  <2> QED BY <2>2, SameEntry
<1>5. PICK D : /\ \A j \in 1 .. n : EntryAt(c, chain[j]) \in D
               /\ \A j \in 1 .. n - 1 : EntryAt(d, rest[j]) \in D
  <2> WITNESS {EntryAt(c, chain[j]) : j \in 1 .. n} \cup {EntryAt(d, rest[j]) : j \in 1 .. n - 1}
  <2> QED OBVIOUS
<1>6. s \in Seq(D) /\ Len(s) = n /\ \A j \in 1 .. n : s[j] = EntryAt(c, chain[j])
  BY <1>1, <1>2, <1>5, EntriesAreSequence
<1>7. t \in Seq(D) /\ Len(t) = n - 1 /\ \A j \in 1 .. n - 1 : t[j] = EntryAt(d, rest[j])
  BY <1>1, <1>2, <1>5, EntriesAreSequence
<1>8. \A j \in 1 .. k - 1 : t[j] = s[j]
  <2>1. \A j \in 1 .. k - 1 : j \in 1 .. n - 1 /\ j \in 1 .. n /\ j # k
    BY <1>2
  <2> QED BY <2>1, <1>3, <1>4, <1>6, <1>7
<1>9. \A j \in k .. Len(s) - 1 : t[j] = s[j + 1]
  <2>1. \A j \in k .. n - 1 : j \in 1 .. n - 1 /\ j + 1 \in 1 .. n /\ j + 1 # k
    BY <1>2
  <2> QED BY <2>1, <1>3, <1>4, <1>6, <1>7
<1>10. t = Removed(s, k)
  BY <1>2, <1>6, <1>7, <1>8, <1>9, RemovedSequence DEF Removed
<1> QED BY <1>1, <1>10

(* What an entry that is written or read again becomes.                    *)
LEMMA MovedEntries ==
  ASSUME NEW c, NEW chain, Good(c, chain), NEW k \in 1 .. c.n, NEW x, NEW due, NEW d,
         Moved(c, chain, k, x, due, d)
  PROVE  EntriesOf(d, With(Without(chain, c.n, k), c.n - 1, chain[k])) =
           Append(Removed(EntriesOf(c, chain), k),
                  [key |-> EntryAt(c, chain[k]).key, val |-> x, due |-> due])
<1>1. PICK n, l, new, s, t, e :
        /\ n = c.n /\ l = chain[k] /\ new = With(Without(chain, n, k), n - 1, l)
        /\ s = EntriesOf(c, chain) /\ t = EntriesOf(d, new)
        /\ e = [key |-> EntryAt(c, l).key, val |-> x, due |-> due]
  OBVIOUS
<1>2. n \in Nat /\ d.n = n /\ k \in 1 .. n
  BY <1>1 DEF Good, Sized, Moved
<1>3. /\ \A j \in 1 .. k - 1 : new[j] = chain[j]
      /\ \A j \in k .. n - 1 : new[j] = chain[j + 1]
      /\ new[n] = l
  <2>1. \A j \in 0 .. n + 1 : new[j] = IF j <= n - 1 THEN Without(chain, n, k)[j]
                                       ELSE IF j = n THEN l ELSE Nil
    <3>1. n - 1 + 2 = n + 1 /\ n - 1 + 1 = n
      BY <1>2
    <3> QED BY <3>1, <1>1 DEF With
  <2>2. \A j \in 0 .. n : Without(chain, n, k)[j] = IF j < k THEN chain[j] ELSE chain[j + 1]
    BY DEF Without
  <2>3. /\ \A j \in 1 .. k - 1 : j \in 0 .. n + 1 /\ j \in 0 .. n /\ j <= n - 1 /\ j < k
        /\ \A j \in k .. n - 1 : j \in 0 .. n + 1 /\ j \in 0 .. n /\ j <= n - 1 /\ ~ j < k
        /\ n \in 0 .. n + 1 /\ ~ n <= n - 1
    BY <1>2
  <2> QED BY <2>1, <2>2, <2>3
<1>4. \A j \in 1 .. n : j # k => EntryAt(d, chain[j]) = EntryAt(c, chain[j])
  <2>1. \A j \in 1 .. n : j # k => Slot(chain[j]) \in SlotsOf(chain, n) \ {Slot(chain[k])}
    BY <1>1, <1>2, ChainLinks DEF Good, ListGood, SlotsOf
  <2>2. \A j \in 1 .. n : j # k => SameAt(c, d, Slot(chain[j]))
    BY <2>1, <1>1 DEF Moved, Same, SameAt
  <2> QED BY <2>2, SameEntry
<1>5. EntryAt(d, l) = e
  BY <1>1 DEF Moved, EntryAt
<1>6. PICK D : /\ \A j \in 1 .. n : EntryAt(c, chain[j]) \in D
               /\ \A j \in 1 .. n : EntryAt(d, new[j]) \in D
               /\ e \in D
  <2> WITNESS {EntryAt(c, chain[j]) : j \in 1 .. n} \cup {EntryAt(d, new[j]) : j \in 1 .. n} \cup {e}
  <2> QED OBVIOUS
<1>7. s \in Seq(D) /\ Len(s) = n /\ \A j \in 1 .. n : s[j] = EntryAt(c, chain[j])
  BY <1>1, <1>2, <1>6, EntriesAreSequence
<1>8. t \in Seq(D) /\ Len(t) = n /\ \A j \in 1 .. n : t[j] = EntryAt(d, new[j])
  BY <1>1, <1>2, <1>6, EntriesAreSequence
<1>9. \A j \in 1 .. k - 1 : t[j] = s[j]
  <2>1. \A j \in 1 .. k - 1 : j \in 1 .. n /\ j # k
    BY <1>2
  <2> QED BY <2>1, <1>3, <1>4, <1>7, <1>8
<1>10. \A j \in k .. Len(s) - 1 : t[j] = s[j + 1]
  <2>1. \A j \in k .. n - 1 : j \in 1 .. n /\ j + 1 \in 1 .. n /\ j + 1 # k
    BY <1>2
  <2> QED BY <2>1, <1>3, <1>4, <1>7, <1>8
<1>11. t[Len(s)] = e
  BY <1>2, <1>3, <1>5, <1>7, <1>8
<1>12. t = Append(Removed(s, k), e)
  BY <1>2, <1>6, <1>7, <1>8, <1>9, <1>10, <1>11, MovedSequence
<1> QED BY <1>1, <1>12

(* A new entry comes last.                                                 *)
LEMMA AddedEntries ==
  ASSUME NEW c, NEW chain, Good(c, chain), NEW key \in Key, NEW x, NEW due, NEW d,
         Added(c, chain, key, x, due, d)
  PROVE  \E new : /\ Good(d, new) /\ d.n = c.n + 1 /\ d.cap = c.cap /\ d.life = c.life
                  /\ d.fresh > c.fresh => c.n = c.fresh
                  /\ EntriesOf(d, new) = Append(EntriesOf(c, chain),
                                                [key |-> key, val |-> x, due |-> due])
<1>1. PICK i \in Nat \ SlotsOf(chain, c.n) :
        /\ Good(d, With(chain, c.n, Link(i))) /\ d.n = c.n + 1
        /\ Same(c, d, SlotsOf(chain, c.n))
        /\ d.words[i] = WordOf[key] /\ d.ks[i] = Stored(key) /\ d.ents[i] = x /\ d.due[i] = due
        /\ d.cap = c.cap /\ d.life = c.life
        /\ d.fresh > c.fresh => c.n = c.fresh
  BY DEF Added
<1>2. PICK n, new, s, t, e :
        /\ n = c.n /\ new = With(chain, n, Link(i))
        /\ s = EntriesOf(c, chain) /\ t = EntriesOf(d, new)
        /\ e = [key |-> key, val |-> x, due |-> due]
  OBVIOUS
<1>3. n \in Nat /\ n + 1 \in Nat /\ d.n = n + 1
  BY <1>1, <1>2 DEF Good, Sized
<1>4. (\A j \in 1 .. n : new[j] = chain[j]) /\ new[n + 1] = Link(i)
  BY <1>2, <1>3 DEF With
<1>5. \A j \in 1 .. n : EntryAt(d, chain[j]) = EntryAt(c, chain[j])
  <2>1. \A j \in 1 .. n : SameAt(c, d, Slot(chain[j]))
    BY <1>1, <1>2 DEF Same, SameAt, SlotsOf
  <2> QED BY <2>1, SameEntry
<1>6. EntryAt(d, Link(i)) = e
  <2>1. Slot(Link(i)) = i
    BY LinksOfSlots
  <2>2. KeyOf(WordOf[key], Stored(key)) = key
    BY KeyOfStored
  <2> QED BY <2>1, <2>2, <1>1, <1>2 DEF EntryAt
<1>7. PICK D : /\ \A j \in 1 .. n : EntryAt(c, chain[j]) \in D
               /\ \A j \in 1 .. n + 1 : EntryAt(d, new[j]) \in D
               /\ e \in D
  <2> WITNESS {EntryAt(c, chain[j]) : j \in 1 .. n} \cup {EntryAt(d, new[j]) : j \in 1 .. n + 1} \cup {e}
  <2> QED OBVIOUS
<1>8. s \in Seq(D) /\ Len(s) = n /\ \A j \in 1 .. n : s[j] = EntryAt(c, chain[j])
  BY <1>2, <1>3, <1>7, EntriesAreSequence
<1>9. t \in Seq(D) /\ Len(t) = n + 1 /\ \A j \in 1 .. n + 1 : t[j] = EntryAt(d, new[j])
  BY <1>2, <1>3, <1>7, EntriesAreSequence
<1>10. \A j \in 1 .. Len(s) : t[j] = s[j]
  <2>1. \A j \in 1 .. n : j \in 1 .. n + 1
    BY <1>3
  <2> QED BY <2>1, <1>4, <1>5, <1>8, <1>9
<1>11. t[Len(s) + 1] = e /\ Len(t) = Len(s) + 1
  <2>1. n + 1 \in 1 .. n + 1
    BY <1>3
  <2> QED BY <2>1, <1>4, <1>6, <1>8, <1>9
<1>12. t = Append(s, e)
  BY <1>7, <1>8, <1>9, <1>10, <1>11, AppendedSequence
<1> QED BY <1>1, <1>2, <1>12

(* The entries after the oldest m.                                         *)
LEMMA EvictedEntries ==
  ASSUME NEW c, NEW chain, Good(c, chain), NEW m, NEW d, EvictedBy(c, chain, m, d)
  PROVE  EntriesOf(d, Rest(chain, c.n, m)) = SubSeq(EntriesOf(c, chain), m + 1, c.n)
<1>1. PICK n, rest, s, t : /\ n = c.n /\ rest = Rest(chain, n, m)
                           /\ s = EntriesOf(c, chain) /\ t = EntriesOf(d, rest)
  OBVIOUS
<1>2. n \in Nat /\ d.n = n - m /\ n - m \in Nat /\ m \in 0 .. n
  BY <1>1 DEF Good, Sized, EvictedBy
<1>3. \A j \in 1 .. n - m : rest[j] = chain[j + m]
  BY <1>1, <1>2 DEF Rest
<1>4. \A j \in m + 1 .. n : EntryAt(d, chain[j]) = EntryAt(c, chain[j])
  BY <1>1, SameEntry DEF EvictedBy
<1>5. PICK D : /\ \A j \in 1 .. n : EntryAt(c, chain[j]) \in D
               /\ \A j \in 1 .. n - m : EntryAt(d, rest[j]) \in D
  <2> WITNESS {EntryAt(c, chain[j]) : j \in 1 .. n} \cup {EntryAt(d, rest[j]) : j \in 1 .. n - m}
  <2> QED OBVIOUS
<1>6. s \in Seq(D) /\ Len(s) = n /\ \A j \in 1 .. n : s[j] = EntryAt(c, chain[j])
  BY <1>1, <1>2, <1>5, EntriesAreSequence
<1>7. t \in Seq(D) /\ Len(t) = n - m /\ \A j \in 1 .. n - m : t[j] = EntryAt(d, rest[j])
  BY <1>1, <1>2, <1>5, EntriesAreSequence
<1>8. \A j \in 1 .. Len(t) : t[j] = s[j + m]
  <2>1. \A j \in 1 .. n - m : j + m \in 1 .. n /\ j + m \in m + 1 .. n
    BY <1>2
  <2> QED BY <2>1, <1>3, <1>4, <1>6, <1>7
<1>9. t = SubSeq(s, m + 1, Len(s))
  BY <1>2, <1>6, <1>7, <1>8, LaterSequence
<1> QED BY <1>1, <1>6, <1>9

-----------------------------------------------------------------------------
(* The invariant.                                                          *)

CacheInv ==
  \E chain : Good(cache, chain) /\ cache.n <= cache.cap /\ cache.cap \in Nat \ {0}

\* The cache c, whose list has the links of chain, holds what the cache does.
Stands(c, chain) ==
  /\ Good(c, chain) /\ EntriesOf(c, chain) = Entries
  /\ c.cap \in Nat \ {0} /\ c.n <= c.cap
  /\ c.n = cache.n /\ c.cap = cache.cap /\ c.life = cache.life /\ c.fresh = cache.fresh

\* A fresh slot was taken only when no slot was free and the cache not full.
SlotsStep ==
  cache'.fresh > cache.fresh => cache.n = cache.fresh /\ cache.n < cache.cap

LEMMA EntriesAre ==
  ASSUME NEW chain, Good(cache, chain)
  PROVE  Entries = EntriesOf(cache, chain)
<1>1. Recency(cache) = [k \in 1 .. cache.n |-> chain[k]]
  BY RecencyIsChain
<1>2. \A k \in 1 .. cache.n : Recency(cache)[k] = chain[k]
  BY <1>1
<1> QED BY <1>2 DEF Entries, EntriesOf, EntryAt

LEMMA EntriesAreNext ==
  ASSUME NEW chain, Good(cache', chain)
  PROVE  Entries' = EntriesOf(cache', chain)
<1>1. PICK d : d = cache'
  OBVIOUS
<1>2. Recency(d) = [k \in 1 .. d.n |-> chain[k]]
  BY <1>1, RecencyIsChain
<1>3. \A k \in 1 .. d.n : Recency(d)[k] = chain[k]
  BY <1>2
<1> QED BY <1>1, <1>3 DEF Entries, EntriesOf, EntryAt

LEMMA CacheStands ==
  ASSUME CacheInv
  PROVE  \E chain : Stands(cache, chain)
  BY EntriesAre DEF CacheInv, Stands

LEMMA RoomStands ==
  ASSUME NEW chain, Stands(cache, chain)
  PROVE  Stands(Room(cache), chain) /\ 2 * (cache.n + 1) <= Room(cache).mask + 1
<1>1. PICK c, r : c = cache /\ r = Room(c)
  OBVIOUS
<1>2. /\ Good(r, chain) /\ r.n = c.n /\ 2 * (c.n + 1) <= r.mask + 1
      /\ Changes(c, r, {"mask", "tab"})
  BY <1>1, RoomIsGood DEF Stands
<1>3. /\ r.cap = c.cap /\ r.life = c.life /\ r.fresh = c.fresh /\ r.words = c.words
      /\ r.ks = c.ks /\ r.ents = c.ents /\ r.due = c.due
  BY <1>2 DEF Changes, Fields
<1>4. EntriesOf(r, chain) = EntriesOf(c, chain)
  BY <1>2, <1>3 DEF EntriesOf, EntryAt
<1> QED BY <1>1, <1>2, <1>3, <1>4 DEF Stands

(* What stands has as many entries as the abstract sequence.               *)
LEMMA StandingEntries ==
  ASSUME NEW c, NEW chain, Stands(c, chain)
  PROVE  /\ c.n \in Nat /\ Len(Entries) = c.n /\ DOMAIN Entries = 1 .. c.n
         /\ \A k \in 1 .. c.n : Entries[k] = EntryAt(c, chain[k])
<1>1. c.n \in Nat /\ Entries = EntriesOf(c, chain)
  BY DEF Stands, Good, Sized
<1>2. PICK D : \A k \in 1 .. c.n : EntryAt(c, chain[k]) \in D
  <2> WITNESS {EntryAt(c, chain[k]) : k \in 1 .. c.n}
  <2> QED OBVIOUS
<1>3. /\ EntriesOf(c, chain) \in Seq(D) /\ Len(EntriesOf(c, chain)) = c.n
      /\ \A k \in 1 .. c.n : EntriesOf(c, chain)[k] = EntryAt(c, chain[k])
  BY <1>1, <1>2, EntriesAreSequence
<1> QED BY <1>1, <1>3 DEF EntriesOf

-----------------------------------------------------------------------------
(* What the steps make of the entries.                                     *)

LEMMA DropStep ==
  ASSUME NEW c, NEW chain, Stands(c, chain), NEW k \in 1 .. c.n, Dropped(c, chain, k, cache')
  PROVE  /\ CacheInv' /\ Entries' = Removed(Entries, k) /\ SlotsStep
         /\ cache'.cap = cache.cap /\ cache'.life = cache.life
<1>1. PICK d, new : d = cache' /\ new = Without(chain, c.n, k)
  OBVIOUS
<1>2. Good(d, new) /\ d.n = c.n - 1 /\ d.cap = c.cap /\ d.life = c.life /\ d.fresh = c.fresh
  BY <1>1 DEF Dropped, Changes, ListFields, Fields
<1>3. EntriesOf(d, new) = Removed(EntriesOf(c, chain), k)
  BY <1>1, DroppedEntries DEF Stands
<1>4. Entries' = EntriesOf(d, new)
  BY <1>1, <1>2, EntriesAreNext
<1>5. d.n <= d.cap /\ c.fresh \in Nat
  BY <1>2 DEF Stands, Good, Sized
<1>6. CacheInv'
  BY <1>1, <1>2, <1>5 DEF CacheInv, Stands
<1>7. SlotsStep
  BY <1>1, <1>2, <1>5 DEF SlotsStep, Stands
<1> QED BY <1>1, <1>2, <1>3, <1>4, <1>6, <1>7 DEF Stands

LEMMA MoveStep ==
  ASSUME NEW c, NEW chain, Stands(c, chain), NEW k \in 1 .. c.n, NEW x, NEW due,
         Moved(c, chain, k, x, due, cache')
  PROVE  /\ CacheInv' /\ SlotsStep
         /\ Entries' = Append(Removed(Entries, k), [key |-> Entries[k].key, val |-> x, due |-> due])
         /\ cache'.cap = cache.cap /\ cache'.life = cache.life
<1>1. PICK d, new, e :
        /\ d = cache' /\ new = With(Without(chain, c.n, k), c.n - 1, chain[k])
        /\ e = [key |-> EntryAt(c, chain[k]).key, val |-> x, due |-> due]
  OBVIOUS
<1>2. Good(d, new) /\ d.n = c.n /\ d.cap = c.cap /\ d.life = c.life /\ d.fresh = c.fresh
  BY <1>1 DEF Moved, Changes, ListFields, Fields
<1>3. EntriesOf(d, new) = Append(Removed(EntriesOf(c, chain), k), e)
  BY <1>1, MovedEntries DEF Stands
<1>4. Entries' = EntriesOf(d, new)
  BY <1>1, <1>2, EntriesAreNext
<1>5. Entries[k] = EntryAt(c, chain[k]) /\ c.fresh \in Nat
  BY StandingEntries DEF Stands, Good, Sized
<1>6. CacheInv'
  BY <1>1, <1>2 DEF CacheInv, Stands
<1>7. SlotsStep
  BY <1>1, <1>2, <1>5 DEF SlotsStep, Stands
<1> QED BY <1>1, <1>2, <1>3, <1>4, <1>5, <1>6, <1>7 DEF Stands

LEMMA AddStep ==
  ASSUME NEW c, NEW chain, Stands(c, chain), c.n < c.cap, NEW key \in Key, NEW x, NEW due,
         Added(c, chain, key, x, due, cache')
  PROVE  /\ CacheInv' /\ SlotsStep
         /\ Entries' = Append(Entries, [key |-> key, val |-> x, due |-> due])
         /\ cache'.cap = cache.cap /\ cache'.life = cache.life
<1>1. PICK d, e : d = cache' /\ e = [key |-> key, val |-> x, due |-> due]
  OBVIOUS
<1>2. Good(c, chain) /\ Added(c, chain, key, x, due, d)
  BY <1>1 DEF Stands
<1>3. PICK new : /\ Good(d, new) /\ d.n = c.n + 1 /\ d.cap = c.cap /\ d.life = c.life
                 /\ d.fresh > c.fresh => c.n = c.fresh
                 /\ EntriesOf(d, new) = Append(EntriesOf(c, chain), e)
  BY <1>1, <1>2, AddedEntries
<1>4. Entries' = EntriesOf(d, new)
  BY <1>1, <1>3, EntriesAreNext
<1>5. d.n <= d.cap
  BY <1>3 DEF Stands, Good, Sized
<1>6. CacheInv'
  BY <1>1, <1>3, <1>5 DEF CacheInv, Stands
<1>7. SlotsStep
  BY <1>1, <1>3 DEF SlotsStep, Stands
<1> QED BY <1>1, <1>3, <1>4, <1>6, <1>7 DEF Stands

LEMMA ReplaceStep ==
  ASSUME NEW c, NEW chain, Stands(c, chain), c.n # 0, NEW key \in Key, NEW x, NEW due,
         Replaced(c, chain, key, x, due, cache')
  PROVE  /\ CacheInv' /\ SlotsStep
         /\ Entries' = Append(Tail(Entries), [key |-> key, val |-> x, due |-> due])
         /\ cache'.cap = cache.cap /\ cache'.life = cache.life
<1>1. PICK d, e, rest : /\ d = cache' /\ e = [key |-> key, val |-> x, due |-> due]
                        /\ rest = Without(chain, c.n, 1)
  OBVIOUS
<1>2. PICK b : Dropped(c, chain, 1, b) /\ Added(b, rest, key, x, due, d)
  BY <1>1 DEF Replaced
<1>3. c.n \in Nat /\ 1 \in 1 .. c.n /\ Good(c, chain) /\ c.fresh \in Nat /\ c.n <= c.fresh
  BY DEF Stands, Good, Sized
<1>4. /\ Good(b, rest) /\ b.n = c.n - 1 /\ b.cap = c.cap /\ b.life = c.life
      /\ b.fresh = c.fresh
  BY <1>1, <1>2 DEF Dropped, Changes, ListFields, Fields
<1>5. PICK new : /\ Good(d, new) /\ d.n = b.n + 1 /\ d.cap = b.cap /\ d.life = b.life
                 /\ d.fresh > b.fresh => b.n = b.fresh
                 /\ EntriesOf(d, new) = Append(EntriesOf(b, rest), e)
  BY <1>1, <1>2, <1>4, AddedEntries
<1>6. Entries' = EntriesOf(d, new)
  BY <1>1, <1>5, EntriesAreNext
<1>7. EntriesOf(b, rest) = Removed(Entries, 1)
  BY <1>1, <1>2, <1>3, DroppedEntries DEF Stands
<1>8. Removed(Entries, 1) = Tail(Entries)
  <2>1. PICK s, D : s = Entries /\ s \in Seq(D) /\ Len(s) # 0
    <3>1. PICK D : \A k \in 1 .. c.n : EntryAt(c, chain[k]) \in D
      <4> WITNESS {EntryAt(c, chain[k]) : k \in 1 .. c.n}
      <4> QED OBVIOUS
    <3>2. EntriesOf(c, chain) \in Seq(D)
      BY <3>1, <1>3, EntriesAreSequence
    <3> QED BY <3>2, StandingEntries DEF Stands
  <2>2. Tail(s) \in Seq(D) /\ Len(Tail(s)) = Len(s) - 1 /\ 1 \in 1 .. Len(s)
        /\ \A j \in 1 .. Len(s) - 1 : Tail(s)[j] = s[j + 1]
    BY <2>1
  <2>3. \A j \in 1 .. 1 - 1 : Tail(s)[j] = s[j]
    OBVIOUS
  <2>4. PICK t : t = Tail(s)
    OBVIOUS
  <2>5. t = Removed(s, 1)
    BY <2>1, <2>2, <2>3, <2>4, RemovedSequence DEF Removed
  <2> QED BY <2>1, <2>4, <2>5
<1>9. d.n = c.n /\ ~ d.fresh > c.fresh
  BY <1>3, <1>4, <1>5
<1>10. CacheInv'
  BY <1>1, <1>4, <1>5, <1>9 DEF CacheInv, Stands
<1>11. SlotsStep
  BY <1>1, <1>9 DEF SlotsStep, Stands
<1> QED BY <1>1, <1>4, <1>5, <1>6, <1>7, <1>8, <1>10, <1>11 DEF Stands

LEMMA EvictStep ==
  ASSUME NEW c, NEW chain, Good(c, chain), EntriesOf(c, chain) = Entries, c.fresh = cache.fresh,
         NEW m, EvictedBy(c, chain, m, cache'), c.n - m <= c.cap, c.cap \in Nat \ {0}
  PROVE  /\ CacheInv' /\ SlotsStep /\ Entries' = SubSeq(Entries, m + 1, c.n)
         /\ cache'.cap = c.cap /\ cache'.life = c.life
<1>1. PICK d, new : d = cache' /\ new = Rest(chain, c.n, m)
  OBVIOUS
<1>2. Good(d, new) /\ d.n = c.n - m /\ d.cap = c.cap /\ d.life = c.life /\ d.fresh = c.fresh
  BY <1>1 DEF EvictedBy, Changes, DropFields, ListFields, Fields
<1>3. EntriesOf(d, new) = SubSeq(EntriesOf(c, chain), m + 1, c.n)
  BY <1>1, EvictedEntries
<1>4. Entries' = EntriesOf(d, new)
  BY <1>1, <1>2, EntriesAreNext
<1>5. CacheInv'
  BY <1>1, <1>2 DEF CacheInv
<1>6. SlotsStep
  <2>1. c.fresh \in Nat
    BY DEF Good, Sized
  <2> QED BY <2>1, <1>1, <1>2 DEF SlotsStep
<1> QED BY <1>1, <1>2, <1>3, <1>4, <1>5, <1>6

-----------------------------------------------------------------------------
(* Every call keeps the invariant and is a step of the abstract cache.     *)

Kept == CacheInv' /\ SlotsStep

\* A key that is found is at a position of the abstract cache.
LEMMA FoundAt ==
  ASSUME NEW c, NEW chain, Stands(c, chain), NEW key \in Key,
         NEW at, at = Probe(c.tab, c.ks, c.mask, key), c.tab[at].l # Nil
  PROVE  \E k \in 1 .. c.n :
           /\ Hits(c, chain, key, at, k) /\ Slot(c.tab[at].l) = Slot(chain[k])
           /\ k \in Abstract!Position(key) /\ Entries[k].key = key
           /\ Entries[k].val = c.ents[Slot(chain[k])] /\ Entries[k].due = c.due[Slot(chain[k])]
<1>1. PICK k : Hits(c, chain, key, at, k)
  BY KeyFound DEF Stands
<1>2. k \in 1 .. c.n /\ c.tab[at].l = chain[k]
      /\ KeyOf(c.words[Slot(chain[k])], c.ks[Slot(chain[k])]) = key
  BY <1>1 DEF Hits
<1>3. DOMAIN Entries = 1 .. c.n /\ Entries[k] = EntryAt(c, chain[k])
  BY <1>2, StandingEntries
<1>4. PICK e : e = EntryAt(c, chain[k])
  OBVIOUS
<1>5. e.key = key /\ e.val = c.ents[Slot(chain[k])] /\ e.due = c.due[Slot(chain[k])]
  BY <1>2, <1>4 DEF EntryAt
<1>6. k \in Abstract!Position(key)
  BY <1>2, <1>3, <1>4, <1>5 DEF Abstract!Position
<1> QED BY <1>1, <1>2, <1>3, <1>4, <1>5, <1>6

LEMMA NotFound ==
  ASSUME NEW c, NEW chain, Stands(c, chain), NEW key \in Key,
         NEW at, at = Probe(c.tab, c.ks, c.mask, key), c.tab[at].l = Nil
  PROVE  Misses(c, chain, key, at) /\ Abstract!Position(key) = {}
<1>1. Misses(c, chain, key, at)
  BY KeyFound DEF Stands
<1>2. DOMAIN Entries = 1 .. c.n /\ \A k \in 1 .. c.n : Entries[k] = EntryAt(c, chain[k])
  BY StandingEntries
<1>3. ASSUME NEW k \in 1 .. c.n PROVE EntryAt(c, chain[k]).key # key
  <2>1. KeyOf(c.words[Slot(chain[k])], c.ks[Slot(chain[k])]) # key
    BY <1>1 DEF Misses
  <2> QED BY <2>1 DEF EntryAt
<1> QED BY <1>1, <1>2, <1>3 DEF Abstract!Position

LEMMA AddKeeps ==
  ASSUME CacheInv, NEW key \in Key, NEW x \in Value, NEW now \in Times, Add(key, x, now)
  PROVE  Kept /\ Abstract!Add(key, x, now)
<1>1. PICK chain : Stands(cache, chain)
  BY CacheStands
<1>2. PICK c, at, l, due :
        /\ c = Room(cache) /\ at = Probe(c.tab, c.ks, c.mask, key)
        /\ l = c.tab[at].l /\ due = Deadline(c, now)
  OBVIOUS
<1>3. Stands(c, chain) /\ 2 * (c.n + 1) <= c.mask + 1 /\ Good(c, chain)
  BY <1>1, <1>2, RoomStands DEF Stands
<1>4. Len(Entries) = c.n /\ c.n \in Nat /\ DOMAIN Entries = 1 .. c.n
  BY <1>3, StandingEntries
<1>5. PICK e : e = [key |-> key, val |-> x, due |-> due]
  OBVIOUS
<1>6. e = [key |-> key, val |-> x, due |-> {Wrap(now + i) : i \in cache.life}]
  BY <1>2, <1>3, <1>5 DEF Deadline, Stands
<1>7. CASE /\ l # Nil /\ obs' = <<"Add", key, x, now, FALSE, {"inserts"}>>
           /\ cache' = Touched(PutEnt(c, Slot(l), x, due), Slot(l))
  <2>1. PICK k \in 1 .. c.n : /\ Slot(l) = Slot(chain[k]) /\ k \in Abstract!Position(key)
                              /\ Entries[k].key = key
    BY <1>2, <1>3, <1>7, FoundAt
  <2>2. Moved(c, chain, k, x, due, cache')
    BY <2>1, <1>3, <1>7, WrittenMoves
  <2>3. /\ CacheInv' /\ SlotsStep /\ cache'.cap = cache.cap /\ cache'.life = cache.life
        /\ Entries' = Append(Removed(Entries, k), [key |-> Entries[k].key, val |-> x, due |-> due])
    BY <2>2, <1>3, MoveStep
  <2>4. Entries' = Append(Abstract!Without(k), e)
    BY <2>1, <2>3, <1>5 DEF Removed, Abstract!Without
  <2>5. Abstract!Add(key, x, now)
    BY <2>1, <2>3, <2>4, <1>6, <1>7 DEF Abstract!Add, Abstract!Answer
  <2> QED BY <2>3, <2>5 DEF Kept
<1>8. CASE /\ l = Nil /\ c.n < c.cap /\ cache' = MissRoom(c, at, key, x, due)
           /\ obs' = <<"Add", key, x, now, FALSE, {"inserts"}>>
  <2>1. Misses(c, chain, key, at) /\ Abstract!Position(key) = {}
    BY <1>2, <1>3, <1>8, NotFound
  <2>2. Added(c, chain, key, x, due, cache')
    BY <2>1, <1>3, <1>8, MissRoomAdds
  <2>3. /\ CacheInv' /\ SlotsStep /\ cache'.cap = cache.cap /\ cache'.life = cache.life
        /\ Entries' = Append(Entries, e)
    BY <2>2, <1>3, <1>5, <1>8, AddStep
  <2>4. Len(Entries) < cache.cap
    BY <1>3, <1>4, <1>8 DEF Stands
  <2>5. Abstract!Add(key, x, now)
    BY <2>1, <2>3, <2>4, <1>6, <1>8 DEF Abstract!Add, Abstract!Answer
  <2> QED BY <2>3, <2>5 DEF Kept
<1>9. CASE /\ l = Nil /\ c.cap <= c.n /\ cache' = MissFull(c, key, x, due)
           /\ obs' = <<"Add", key, x, now, TRUE, {"inserts", "evictions"}>>
  <2>1. Misses(c, chain, key, at) /\ Abstract!Position(key) = {}
    BY <1>2, <1>3, <1>9, NotFound
  <2>2. c.n # 0
    BY <1>3, <1>4, <1>9 DEF Stands
  <2>3. Replaced(c, chain, key, x, due, cache')
    BY <2>1, <2>2, <1>3, <1>9, MissFullReplaces
  <2>4. /\ CacheInv' /\ SlotsStep /\ cache'.cap = cache.cap /\ cache'.life = cache.life
        /\ Entries' = Append(Tail(Entries), e)
    BY <2>2, <2>3, <1>3, <1>5, ReplaceStep
  <2>5. Len(Entries) >= cache.cap
    BY <1>3, <1>4, <1>9 DEF Stands
  <2>6. Abstract!Add(key, x, now)
    BY <2>1, <2>4, <2>5, <1>6, <1>9 DEF Abstract!Add, Abstract!Answer
  <2> QED BY <2>4, <2>6 DEF Kept
<1> QED BY <1>2, <1>7, <1>8, <1>9 DEF Add

(* What a read or a removal finds.                                         *)
LEMMA KeyAt ==
  ASSUME NEW chain, Stands(cache, chain), NEW key \in Key
  PROVE  /\ LinkAt(key) # Nil => \E k \in 1 .. cache.n :
              /\ k \in Abstract!Position(key) /\ EntryOf(key) = <<"Some", Entries[k].val>>
              /\ Slot(LinkAt(key)) = Slot(chain[k])
              /\ \A now : Gone(key, now) <=> Abstract!Expired(Entries[k], now)
              /\ Dropped(cache, chain, k, DropAt(cache, At(key)))
              /\ Moved(cache, chain, k, Entries[k].val, Entries[k].due,
                       Touched(cache, Slot(LinkAt(key))))
         /\ LinkAt(key) = Nil => Abstract!Position(key) = {}
<1>1. PICK c, at, s : c = cache /\ at = Probe(c.tab, c.ks, c.mask, key) /\ s = Slot(c.tab[at].l)
  OBVIOUS
<1>2. at = At(key) /\ LinkAt(key) = c.tab[at].l
  BY <1>1 DEF At, LinkAt
<1>3. Good(c, chain)
  BY <1>1 DEF Stands
<1>4. ASSUME LinkAt(key) # Nil
      PROVE  \E k \in 1 .. c.n :
               /\ Hits(c, chain, key, at, k) /\ s = Slot(chain[k])
               /\ k \in Abstract!Position(key) /\ Entries[k].key = key
               /\ Entries[k].val = c.ents[s] /\ Entries[k].due = c.due[s]
  <2>1. c.tab[at].l # Nil /\ Stands(c, chain)
    BY <1>1, <1>2, <1>4
  <2>2. PICK k \in 1 .. c.n :
           /\ Hits(c, chain, key, at, k) /\ Slot(c.tab[at].l) = Slot(chain[k])
           /\ k \in Abstract!Position(key) /\ Entries[k].key = key
           /\ Entries[k].val = c.ents[Slot(chain[k])] /\ Entries[k].due = c.due[Slot(chain[k])]
    BY <2>1, <1>1, FoundAt
  <2> QED BY <2>2, <1>1
<1>5. ASSUME LinkAt(key) # Nil, NEW k \in 1 .. c.n, Hits(c, chain, key, at, k),
             s = Slot(chain[k]), Entries[k].val = c.ents[s], Entries[k].due = c.due[s]
      PROVE  /\ EntryOf(key) = <<"Some", Entries[k].val>>
             /\ \A now : Gone(key, now) <=> Abstract!Expired(Entries[k], now)
             /\ Dropped(c, chain, k, DropAt(c, at))
             /\ Moved(c, chain, k, Entries[k].val, Entries[k].due, Touched(c, s))
  <2>1. EntryOf(key) = <<"Some", Entries[k].val>>
    BY <1>1, <1>2, <1>5 DEF EntryOf
  <2>2. \A now : Gone(key, now) <=> Abstract!Expired(Entries[k], now)
    BY <1>1, <1>2, <1>5 DEF Gone, Expired, Abstract!Expired
  <2>3. Dropped(c, chain, k, DropAt(c, at))
    BY <1>3, <1>5, DropAtDrops DEF Hits
  <2>4. Moved(c, chain, k, c.ents[s], c.due[s], Touched(c, s))
    BY <1>3, <1>5, TouchedMoves
  <2> QED BY <2>1, <2>2, <2>3, <2>4, <1>5
<1>6. LinkAt(key) = Nil => Abstract!Position(key) = {}
  <2>1. Stands(c, chain)
    BY <1>1
  <2> QED BY <2>1, <1>1, <1>2, NotFound
<1> QED BY <1>1, <1>2, <1>4, <1>5, <1>6

\* A call that only answers.
LEMMA AnswerKeeps ==
  ASSUME CacheInv, cache' = cache
  PROVE  Kept /\ Entries' = Entries
<1>1. SlotsStep
  <2>1. cache.fresh \in Nat
    BY DEF CacheInv, Good, Sized
  <2> QED BY <2>1 DEF SlotsStep
<1>2. CacheInv'
  BY DEF CacheInv
<1>3. Entries' = Entries
  BY DEF Entries
<1> QED BY <1>1, <1>2, <1>3 DEF Kept

(* A call that drops the entry of a key, expired or not.                   *)
LEMMA DropKeeps ==
  ASSUME NEW chain, Stands(cache, chain), NEW k \in 1 .. cache.n,
         Dropped(cache, chain, k, cache')
  PROVE  /\ Kept /\ Entries' = Abstract!Without(k)
         /\ cache'.cap = cache.cap /\ cache'.life = cache.life
  BY DropStep DEF Kept, Removed, Abstract!Without

(* A read that hits makes its entry the newest.                            *)
LEMMA HitKeeps ==
  ASSUME NEW chain, Stands(cache, chain), NEW k \in 1 .. cache.n,
         Moved(cache, chain, k, Entries[k].val, Entries[k].due, cache')
  PROVE  /\ Kept /\ Entries' = Append(Abstract!Without(k), Entries[k])
         /\ cache'.cap = cache.cap /\ cache'.life = cache.life
<1>1. PICK e : e = Entries[k]
  OBVIOUS
<1>2. e = [key |-> e.key, val |-> e.val, due |-> e.due]
  <2>1. e = EntryAt(cache, chain[k])
    BY <1>1, StandingEntries
  <2> QED BY <2>1 DEF EntryAt
<1>3. /\ CacheInv' /\ SlotsStep /\ cache'.cap = cache.cap /\ cache'.life = cache.life
      /\ Entries' = Append(Removed(Entries, k), [key |-> e.key, val |-> e.val, due |-> e.due])
  BY <1>1, MoveStep
<1> QED BY <1>1, <1>2, <1>3 DEF Kept, Removed, Abstract!Without

LEMMA GetKeeps ==
  ASSUME CacheInv, NEW key \in Key, NEW now \in Times, Get(key, now)
  PROVE  Kept /\ Abstract!Get(key, now)
<1>1. PICK chain : Stands(cache, chain)
  BY CacheStands
<1>2. CASE LinkAt(key) = Nil /\ Answer(<<"Get", key, now, <<"None">>, {"misses"}>>)
  <2>1. cache' = cache /\ obs' = <<"Get", key, now, <<"None">>, {"misses"}>>
    BY <1>2 DEF Answer, Result
  <2>2. Kept /\ Entries' = Entries /\ Abstract!Position(key) = {}
    BY <2>1, <1>1, <1>2, AnswerKeeps, KeyAt
  <2> QED BY <2>1, <2>2 DEF Abstract!Get, Abstract!Answer
<1>3. CASE /\ LinkAt(key) # Nil /\ Gone(key, now)
           /\ Result(Expire(key), <<"Get", key, now, <<"None">>, {"removals", "misses"}>>)
  <2>1. cache' = DropAt(cache, At(key))
        /\ obs' = <<"Get", key, now, <<"None">>, {"removals", "misses"}>>
    BY <1>3 DEF Result, Expire
  <2>2. PICK k \in 1 .. cache.n :
          /\ k \in Abstract!Position(key) /\ Abstract!Expired(Entries[k], now)
          /\ Dropped(cache, chain, k, cache')
    BY <2>1, <1>1, <1>3, KeyAt
  <2>3. /\ Kept /\ Entries' = Abstract!Without(k)
        /\ cache'.cap = cache.cap /\ cache'.life = cache.life
    BY <2>2, <1>1, DropKeeps
  <2>4. Abstract!DropExpired(key, now)
    BY <2>2, <2>3 DEF Abstract!DropExpired
  <2> QED BY <2>1, <2>3, <2>4 DEF Abstract!Get, Abstract!Answer
<1>4. CASE /\ LinkAt(key) # Nil /\ ~ Gone(key, now)
           /\ Result(Touched(cache, Slot(LinkAt(key))),
                     <<"Get", key, now, EntryOf(key), {"hits"}>>)
  <2>1. cache' = Touched(cache, Slot(LinkAt(key)))
        /\ obs' = <<"Get", key, now, EntryOf(key), {"hits"}>>
    BY <1>4 DEF Result
  <2>2. PICK k \in 1 .. cache.n :
          /\ k \in Abstract!Position(key) /\ ~ Abstract!Expired(Entries[k], now)
          /\ EntryOf(key) = <<"Some", Entries[k].val>>
          /\ Moved(cache, chain, k, Entries[k].val, Entries[k].due, cache')
    BY <2>1, <1>1, <1>4, KeyAt
  <2>3. /\ Kept /\ Entries' = Append(Abstract!Without(k), Entries[k])
        /\ cache'.cap = cache.cap /\ cache'.life = cache.life
    BY <2>2, <1>1, HitKeeps
  <2>4. obs' = <<"Get", key, now, <<"Some", Entries[k].val>>, {"hits"}>>
    BY <2>1, <2>2
  <2> QED BY <2>2, <2>3, <2>4 DEF Abstract!Get, Abstract!Answer
<1> QED BY <1>2, <1>3, <1>4 DEF Get

LEMMA PeekKeeps ==
  ASSUME CacheInv, NEW key \in Key, NEW now \in Times, Peek(key, now)
  PROVE  Kept /\ Abstract!Peek(key, now)
<1>1. PICK chain : Stands(cache, chain)
  BY CacheStands
<1>2. CASE LinkAt(key) = Nil /\ Answer(<<"Peek", key, now, <<"None">>, {}>>)
  <2>1. cache' = cache /\ obs' = <<"Peek", key, now, <<"None">>, {}>>
    BY <1>2 DEF Answer, Result
  <2>2. Kept /\ Entries' = Entries /\ Abstract!Position(key) = {}
    BY <2>1, <1>1, <1>2, AnswerKeeps, KeyAt
  <2> QED BY <2>1, <2>2 DEF Abstract!Peek, Abstract!Untracked, Abstract!Answer
<1>3. CASE /\ LinkAt(key) # Nil /\ Gone(key, now)
           /\ Result(Expire(key), <<"Peek", key, now, <<"None">>, {"removals"}>>)
  <2>1. cache' = DropAt(cache, At(key))
        /\ obs' = <<"Peek", key, now, <<"None">>, {"removals"}>>
    BY <1>3 DEF Result, Expire
  <2>2. PICK k \in 1 .. cache.n :
          /\ k \in Abstract!Position(key) /\ Abstract!Expired(Entries[k], now)
          /\ Dropped(cache, chain, k, cache')
    BY <2>1, <1>1, <1>3, KeyAt
  <2>3. /\ Kept /\ Entries' = Abstract!Without(k)
        /\ cache'.cap = cache.cap /\ cache'.life = cache.life
    BY <2>2, <1>1, DropKeeps
  <2>4. Abstract!DropExpired(key, now)
    BY <2>2, <2>3 DEF Abstract!DropExpired
  <2> QED BY <2>1, <2>3, <2>4 DEF Abstract!Peek, Abstract!Untracked, Abstract!Answer
<1>4. CASE /\ LinkAt(key) # Nil /\ ~ Gone(key, now)
           /\ Answer(<<"Peek", key, now, EntryOf(key), {}>>)
  <2>1. cache' = cache /\ obs' = <<"Peek", key, now, EntryOf(key), {}>>
    BY <1>4 DEF Answer, Result
  <2>2. PICK k \in 1 .. cache.n :
          /\ k \in Abstract!Position(key) /\ ~ Abstract!Expired(Entries[k], now)
          /\ EntryOf(key) = <<"Some", Entries[k].val>>
    BY <1>1, <1>4, KeyAt
  <2>3. Kept /\ Entries' = Entries
    BY <2>1, AnswerKeeps
  <2>4. obs' = <<"Peek", key, now, <<"Some", Entries[k].val>>, {}>>
    BY <2>1, <2>2
  <2> QED BY <2>1, <2>2, <2>3, <2>4 DEF Abstract!Peek, Abstract!Untracked, Abstract!Answer
<1> QED BY <1>2, <1>3, <1>4 DEF Peek

LEMMA ContainsKeeps ==
  ASSUME CacheInv, NEW key \in Key, NEW now \in Times, Contains(key, now)
  PROVE  Kept /\ Abstract!Contains(key, now)
<1>1. PICK chain : Stands(cache, chain)
  BY CacheStands
<1>2. CASE LinkAt(key) = Nil /\ Answer(<<"Contains", key, now, FALSE, {}>>)
  <2>1. cache' = cache /\ obs' = <<"Contains", key, now, FALSE, {}>>
    BY <1>2 DEF Answer, Result
  <2>2. Kept /\ Entries' = Entries /\ Abstract!Position(key) = {}
    BY <2>1, <1>1, <1>2, AnswerKeeps, KeyAt
  <2> QED BY <2>1, <2>2 DEF Abstract!Contains, Abstract!Untracked, Abstract!Answer
<1>3. CASE /\ LinkAt(key) # Nil /\ Gone(key, now)
           /\ Result(Expire(key), <<"Contains", key, now, FALSE, {"removals"}>>)
  <2>1. cache' = DropAt(cache, At(key))
        /\ obs' = <<"Contains", key, now, FALSE, {"removals"}>>
    BY <1>3 DEF Result, Expire
  <2>2. PICK k \in 1 .. cache.n :
          /\ k \in Abstract!Position(key) /\ Abstract!Expired(Entries[k], now)
          /\ Dropped(cache, chain, k, cache')
    BY <2>1, <1>1, <1>3, KeyAt
  <2>3. /\ Kept /\ Entries' = Abstract!Without(k)
        /\ cache'.cap = cache.cap /\ cache'.life = cache.life
    BY <2>2, <1>1, DropKeeps
  <2>4. Abstract!DropExpired(key, now)
    BY <2>2, <2>3 DEF Abstract!DropExpired
  <2> QED BY <2>1, <2>3, <2>4 DEF Abstract!Contains, Abstract!Untracked, Abstract!Answer
<1>4. CASE /\ LinkAt(key) # Nil /\ ~ Gone(key, now)
           /\ Answer(<<"Contains", key, now, TRUE, {}>>)
  <2>1. cache' = cache /\ obs' = <<"Contains", key, now, TRUE, {}>>
    BY <1>4 DEF Answer, Result
  <2>2. PICK k \in 1 .. cache.n :
          k \in Abstract!Position(key) /\ ~ Abstract!Expired(Entries[k], now)
    BY <1>1, <1>4, KeyAt
  <2>3. Kept /\ Entries' = Entries
    BY <2>1, AnswerKeeps
  <2> QED BY <2>1, <2>2, <2>3 DEF Abstract!Contains, Abstract!Untracked, Abstract!Answer
<1> QED BY <1>2, <1>3, <1>4 DEF Contains

LEMMA RemoveKeeps ==
  ASSUME CacheInv, NEW key \in Key, Remove(key)
  PROVE  Kept /\ Abstract!Remove(key)
<1>1. PICK chain : Stands(cache, chain)
  BY CacheStands
<1>2. CASE LinkAt(key) = Nil /\ Answer(<<"Remove", key, <<"None">>, {}>>)
  <2>1. cache' = cache /\ obs' = <<"Remove", key, <<"None">>, {}>>
    BY <1>2 DEF Answer, Result
  <2>2. Kept /\ Entries' = Entries /\ Abstract!Position(key) = {}
    BY <2>1, <1>1, <1>2, AnswerKeeps, KeyAt
  <2> QED BY <2>1, <2>2 DEF Abstract!Remove, Abstract!Answer
<1>3. CASE /\ LinkAt(key) # Nil
           /\ Result(DropAt(cache, At(key)), <<"Remove", key, EntryOf(key), {"removals"}>>)
  <2>1. cache' = DropAt(cache, At(key)) /\ obs' = <<"Remove", key, EntryOf(key), {"removals"}>>
    BY <1>3 DEF Result
  <2>2. PICK k \in 1 .. cache.n :
          /\ k \in Abstract!Position(key) /\ EntryOf(key) = <<"Some", Entries[k].val>>
          /\ Dropped(cache, chain, k, cache')
    BY <2>1, <1>1, <1>3, KeyAt
  <2>3. /\ Kept /\ Entries' = Abstract!Without(k)
        /\ cache'.cap = cache.cap /\ cache'.life = cache.life
    BY <2>2, <1>1, DropKeeps
  <2>4. obs' = <<"Remove", key, <<"Some", Entries[k].val>>, {"removals"}>>
    BY <2>1, <2>2
  <2> QED BY <2>2, <2>3, <2>4 DEF Abstract!Remove, Abstract!Answer
<1> QED BY <1>2, <1>3 DEF Remove

\* The keys of a cache's entries, in the order that a walk of the list meets them.
LEMMA ListedKeys ==
  ASSUME NEW d, NEW chain, Good(d, chain), NEW s, s = EntriesOf(d, chain)
  PROVE  LET links == Recency(d)
         IN [k \in DOMAIN links |-> KeyOf(d.words[Slot(links[k])], d.ks[Slot(links[k])])]
              = [i \in DOMAIN s |-> s[i].key]
<1>1. PICK links : links = Recency(d)
  OBVIOUS
<1>2. DOMAIN links = 1 .. d.n /\ \A k \in 1 .. d.n : links[k] = chain[k]
  <2>1. links = [k \in 1 .. d.n |-> chain[k]]
    BY <1>1, RecencyIsChain
  <2> QED BY <2>1
<1>3. DOMAIN s = 1 .. d.n /\ \A k \in 1 .. d.n : s[k] = EntryAt(d, chain[k])
  BY DEF EntriesOf
<1>4. \A k \in 1 .. d.n :
        KeyOf(d.words[Slot(links[k])], d.ks[Slot(links[k])]) = s[k].key
  <2>1. \A l : EntryAt(d, l).key = KeyOf(d.words[Slot(l)], d.ks[Slot(l)])
    BY DEF EntryAt
  <2> QED BY <2>1, <1>2, <1>3
<1> QED BY <1>1, <1>2, <1>3, <1>4

LEMMA KeysKeeps ==
  ASSUME CacheInv, NEW now \in Times, Keys(now)
  PROVE  Kept /\ Abstract!Keys(now)
<1>1. PICK chain : Stands(cache, chain)
  BY CacheStands
<1>2. PICK c, p, d : c = cache /\ p = PrefixDropped(c, now) /\ d = p[1]
  OBVIOUS
<1>3. /\ cache' = d
      /\ obs' = <<"Keys", now, LET links == Recency(d)
                               IN [k \in DOMAIN links |-> KeyOf(d.words[Slot(links[k])],
                                                                d.ks[Slot(links[k])])], p[2]>>
  BY <1>2 DEF Keys, Result
<1>4. Good(c, chain) /\ EntriesOf(c, chain) = Entries /\ c.n <= c.cap /\ c.cap \in Nat \ {0}
  BY <1>1, <1>2 DEF Stands
<1>5. PrefixGone(c, chain, now, c.n, p)
  BY <1>2, <1>4, PrefixIsDropped
<1>6. PICK m \in 0 .. c.n :
        /\ EvictedBy(c, chain, m, d) /\ p[2] = m
        /\ \A i \in 1 .. m : Expired(c.due[Slot(chain[i])], now)
        /\ m = c.n \/ ~ Expired(c.due[Slot(chain[m + 1])], now)
  BY <1>2, <1>5 DEF PrefixGone
<1>7. PICK rest, s : rest = Rest(chain, c.n, m) /\ s = EntriesOf(d, rest)
  OBVIOUS
<1>8. Good(d, rest) /\ d.n = c.n - m /\ c.n \in Nat
  BY <1>4, <1>6, <1>7 DEF EvictedBy, Good, Sized
<1>9. /\ CacheInv' /\ SlotsStep /\ Entries' = SubSeq(Entries, m + 1, c.n)
      /\ cache'.cap = cache.cap /\ cache'.life = cache.life
  <2>1. c.n - m <= c.cap /\ c.fresh = cache.fresh /\ EvictedBy(c, chain, m, cache')
    BY <1>2, <1>3, <1>4, <1>6, <1>8
  <2> QED BY <2>1, <1>2, <1>4, EvictStep
<1>10. Entries' = s
  BY <1>3, <1>7, <1>8, EntriesAreNext
<1>11. Len(Entries) = c.n /\ \A k \in 1 .. c.n : Entries[k] = EntryAt(c, chain[k])
  BY <1>1, <1>2, StandingEntries
<1>12. obs' = <<"Keys", now, [i \in DOMAIN s |-> s[i].key], m>>
  BY <1>3, <1>6, <1>7, <1>8, ListedKeys
<1>13. \A i \in 1 .. m : Abstract!Expired(Entries[i], now)
  <2>1. \A i \in 1 .. m : i \in 1 .. c.n
    BY <1>8
  <2>2. \A l : EntryAt(c, l).due = c.due[Slot(l)]
    BY DEF EntryAt
  <2>3. \A i \in 1 .. m : Entries[i].due = c.due[Slot(chain[i])]
    BY <2>1, <2>2, <1>11
  <2> QED BY <2>3, <1>6 DEF Expired, Abstract!Expired
<1>14. s = <<>> \/ ~ Abstract!Expired(s[1], now)
  <2>1. CASE m = c.n
    <3>1. d.n = 0 /\ 1 .. 0 = {}
      BY <2>1, <1>8
    <3> QED BY <3>1, <1>7 DEF EntriesOf
  <2>2. CASE m # c.n
    <3>1. 1 \in 1 .. d.n /\ m + 1 \in m + 1 .. c.n /\ 1 \in 0 .. c.n - m + 1 /\ 1 + m = m + 1
      BY <2>2, <1>8
    <3>2. s[1] = EntryAt(d, rest[1]) /\ rest[1] = chain[m + 1]
      BY <3>1, <1>7 DEF EntriesOf, Rest
    <3>3. d.due[Slot(chain[m + 1])] = c.due[Slot(chain[m + 1])]
      BY <3>1, <1>6 DEF EvictedBy, SameAt
    <3> QED BY <2>2, <3>2, <3>3, <1>6 DEF EntryAt, Expired, Abstract!Expired
  <2> QED BY <2>1, <2>2
<1>15. Abstract!Keys(now)
  <2>1. m \in 0 .. Len(Entries) /\ s = SubSeq(Entries, m + 1, Len(Entries))
    BY <1>9, <1>10, <1>11
  <2> QED BY <2>1, <1>9, <1>10, <1>12, <1>13, <1>14 DEF Abstract!Keys, Abstract!Answer
<1> QED BY <1>9, <1>15 DEF Kept

LEMMA ResizeKeeps ==
  ASSUME CacheInv, NEW cap \in Capacities, Resize(cap)
  PROVE  Kept /\ Abstract!Resize(cap)
<1>1. PICK chain : Stands(cache, chain)
  BY CacheStands
<1>2. CASE cap = 0 /\ Answer(<<"Resize", cap, <<"Fail">>>>)
  <2>1. cache' = cache /\ obs' = <<"Resize", cap, <<"Fail">>>>
    BY <1>2 DEF Answer, Result
  <2>2. Kept /\ Entries' = Entries
    BY <2>1, AnswerKeeps
  <2> QED BY <2>1, <2>2, <1>2 DEF Abstract!Resize
<1>3. CASE cap # 0 /\ Result(EvictedTo([cache EXCEPT !.cap = cap]),
                             <<"Resize", cap, <<"Done",
                               cache.n - EvictedTo([cache EXCEPT !.cap = cap]).n>>>>)
  <2>1. PICK c, d, over : /\ c = [cache EXCEPT !.cap = cap] /\ d = EvictedTo(c)
                          /\ over = Over(c)
    OBVIOUS
  <2>2. cache' = d /\ obs' = <<"Resize", cap, <<"Done", cache.n - d.n>>>>
    BY <2>1, <1>3 DEF Result
  <2>3. Good(cache, chain) /\ EntriesOf(cache, chain) = Entries
    BY <1>1 DEF Stands
  <2>4. Changes(cache, c, {"cap"}) /\ c.cap = cap
    BY <2>1, <2>3 DEF Good, Sized, Changes, Fields
  <2>5. /\ c.n = cache.n /\ c.life = cache.life /\ c.fresh = cache.fresh /\ c.mask = cache.mask
        /\ c.tab = cache.tab /\ c.words = cache.words /\ c.ks = cache.ks
        /\ c.ents = cache.ents /\ c.due = cache.due
    BY <2>4 DEF Changes, Fields
  <2>6. Good(c, chain)
    <3>1. Linked(cache, chain) /\ TableGood(cache, SlotsOf(chain, cache.n))
      BY <2>3 DEF Good, Linked
    <3>2. Changes(cache, c, {"tab", "mask", "cap", "life", "ents", "due"})
      BY <2>4 DEF Changes
    <3>3. Linked(c, chain)
      BY <3>1, <3>2, <2>5, LinkedKept
    <3>4. TableGood(c, SlotsOf(chain, c.n))
      BY <3>1, <2>5 DEF TableGood
    <3> QED BY <3>3, <3>4 DEF Good, Linked
  <2>7. EntriesOf(c, chain) = Entries
    BY <2>3, <2>5 DEF EntriesOf, EntryAt
  <2>8. c.n \in Nat /\ cap \in Nat /\ cap \in Nat \ {0} /\ Len(Entries) = c.n
    BY <2>5, <2>6, <1>1, <1>3, StandingEntries, LRUAssumption DEF Good, Sized
  <2>9. /\ over = IF Len(Entries) > cap THEN Len(Entries) - cap ELSE 0
        /\ c.n - over <= cap
    BY <2>1, <2>4, <2>8 DEF Over
  <2>10. EvictedBy(c, chain, over, cache')
    BY <2>1, <2>2, <2>4, <2>6, <2>8, OverIsEvicted
  <2>11. /\ CacheInv' /\ SlotsStep /\ Entries' = SubSeq(Entries, over + 1, c.n)
         /\ cache'.cap = c.cap /\ cache'.life = c.life
    BY <2>4, <2>5, <2>6, <2>7, <2>8, <2>9, <2>10, EvictStep
  <2>12. d.n = c.n - over /\ over \in Int
    BY <2>2, <2>8, <2>9, <2>10 DEF EvictedBy
  <2>13. cache.n - d.n = over
    BY <2>5, <2>8, <2>12
  <2>14. Abstract!Resize(cap)
    <3>1. /\ cap # 0 /\ cache'.cap = cap /\ cache'.life = cache.life
          /\ Entries' = SubSeq(Entries, over + 1, Len(Entries))
          /\ obs' = <<"Resize", cap, <<"Done", over>>>>
      BY <2>2, <2>4, <2>5, <2>8, <2>11, <2>13, <1>3
    <3> QED BY <3>1, <2>9 DEF Abstract!Resize
  <2> QED BY <2>11, <2>14 DEF Kept
<1> QED BY <1>2, <1>3 DEF Resize

LEMMA SetLifetimeKeeps ==
  ASSUME CacheInv, NEW l \in Lifetimes, SetLifetime(l)
  PROVE  Kept /\ Abstract!SetLifetime(l)
<1>1. PICK chain : Stands(cache, chain)
  BY CacheStands
<1>2. PICK d : d = cache' /\ d = [cache EXCEPT !.life = l]
  BY DEF SetLifetime, Result
<1>3. /\ Good(cache, chain) /\ EntriesOf(cache, chain) = Entries
      /\ cache.cap \in Nat \ {0} /\ cache.n <= cache.cap
  BY <1>1 DEF Stands
<1>4. Changes(cache, d, {"life"}) /\ d.life = l
  BY <1>2, <1>3 DEF Good, Sized, Changes, Fields
<1>5. /\ d.n = cache.n /\ d.cap = cache.cap /\ d.fresh = cache.fresh /\ d.mask = cache.mask
      /\ d.tab = cache.tab /\ d.words = cache.words /\ d.ks = cache.ks
      /\ d.ents = cache.ents /\ d.due = cache.due
  BY <1>4 DEF Changes, Fields
<1>6. Good(d, chain)
  <2>1. Linked(cache, chain) /\ TableGood(cache, SlotsOf(chain, cache.n))
    BY <1>3 DEF Good, Linked
  <2>2. Changes(cache, d, {"tab", "mask", "cap", "life", "ents", "due"})
    BY <1>4 DEF Changes
  <2>3. Linked(d, chain)
    BY <2>1, <2>2, <1>5, LinkedKept
  <2>4. TableGood(d, SlotsOf(chain, d.n))
    BY <2>1, <1>5 DEF TableGood
  <2> QED BY <2>3, <2>4 DEF Good, Linked
<1>7. EntriesOf(d, chain) = Entries
  BY <1>3, <1>5 DEF EntriesOf, EntryAt
<1>8. Entries' = Entries
  BY <1>2, <1>6, <1>7, EntriesAreNext
<1>9. CacheInv'
  BY <1>2, <1>3, <1>5, <1>6 DEF CacheInv
<1>10. SlotsStep
  <2>1. cache.fresh \in Nat
    BY <1>3 DEF Good, Sized
  <2> QED BY <2>1, <1>2, <1>5 DEF SlotsStep
<1>11. Abstract!SetLifetime(l)
  BY <1>2, <1>4, <1>5, <1>8 DEF SetLifetime, Result, Abstract!SetLifetime
<1> QED BY <1>9, <1>10, <1>11 DEF Kept

NoChain == [j \in 0 .. 1 |-> Nil]

(* A cache with nothing on its list, on its free stack or in its table.    *)
LEMMA EmptyIsGood ==
  ASSUME NEW c, DOMAIN c = Fields, Blocks(c), c.size \in Nat \ {0}, c.n = 0, c.fresh = 0,
         c.head = Nil, c.tail = Nil, c.free = Nil, c.mask \in Nat, c.tab = NewTable(c.mask)
  PROVE  Good(c, NoChain) /\ EntriesOf(c, NoChain) = <<>>
<1>1. 1 .. 0 = {} /\ 0 + 1 = 1 /\ 0 \in 0 .. 1 /\ 1 \in 0 .. 1
  OBVIOUS
<1>2. NoChain \in [0 .. 1 -> Nat] /\ NoChain[0] = Nil /\ NoChain[1] = Nil
  BY <1>1 DEF NoChain, Nil
<1>3. SlotsOf(NoChain, 0) = {}
  BY <1>1 DEF SlotsOf
<1>4. Sized(c)
  BY DEF Sized
<1>5. ListGood(c, NoChain)
  BY <1>1, <1>2 DEF ListGood, Orders, Spells
<1>6. Table(c.tab, c.mask) /\ Pairs(c.tab) = {}
  <2>1. Table(c.tab, c.mask) /\ Full(c.tab) = {}
    BY NewTableIsTable
  <2> QED BY <2>1 DEF Pairs
<1>7. TableGood(c, SlotsOf(NoChain, c.n))
  <2>1. Keyed(c.ks, {})
    BY DEF Keyed
  <2>2. 2 * c.n <= c.mask + 1
    OBVIOUS
  <2> QED BY <2>1, <2>2, <1>3, <1>6 DEF TableGood
<1>8. FreeGood(c, SlotsOf(NoChain, c.n))
  <2> DEFINE none == [k \in 1 .. 0 |-> 0]
  <2>1. none \in [1 .. 0 -> Slots(c.fresh) \ SlotsOf(NoChain, c.n)]
    BY <1>1
  <2>2. c.fresh - c.n = 0
    OBVIOUS
  <2> HIDE DEF none
  <2>3. FreeStack(none, c.fresh - c.n, c.free, c.nexts, Slots(c.fresh) \ SlotsOf(NoChain, c.n))
    BY <2>1, <2>2, <1>1 DEF FreeStack
  <2> QED BY <2>3 DEF FreeGood
<1>9. EntriesOf(c, NoChain) = <<>>
  BY <1>1 DEF EntriesOf
<1> QED BY <1>4, <1>5, <1>7, <1>8, <1>9 DEF Good

LEMMA PurgeKeeps ==
  ASSUME CacheInv, Purge
  PROVE  Kept /\ Abstract!Purge
<1>1. PICK chain : Stands(cache, chain)
  BY CacheStands
<1>2. PICK d : d = cache' /\ d = Purged(cache) /\ obs' = <<"Purge", cache.n>>
  BY DEF Purge, Result
<1>3. Good(cache, chain) /\ cache.cap \in Nat \ {0} /\ Len(Entries) = cache.n
  BY <1>1, StandingEntries DEF Stands
<1>4. /\ Changes(cache, d, {"n", "head", "tail", "free", "fresh", "tab"})
      /\ d.n = 0 /\ d.head = Nil /\ d.tail = Nil /\ d.free = Nil /\ d.fresh = 0
      /\ d.tab = NewTable(cache.mask)
  BY <1>2, <1>3 DEF Purged, Good, Sized, Changes, Fields
<1>5. /\ DOMAIN d = Fields /\ d.size = cache.size /\ d.cap = cache.cap /\ d.life = cache.life
      /\ d.mask = cache.mask /\ d.ks = cache.ks /\ d.ents = cache.ents
      /\ d.prevs = cache.prevs /\ d.nexts = cache.nexts
      /\ d.words = cache.words /\ d.due = cache.due
  BY <1>4 DEF Changes, Fields
<1>6. Blocks(d) /\ d.size \in Nat \ {0} /\ d.mask \in Nat /\ cache.fresh \in Nat
  BY <1>3, <1>5 DEF Good, Sized, Blocks, TableGood, Table
<1>7. Good(d, NoChain) /\ EntriesOf(d, NoChain) = <<>>
  BY <1>4, <1>5, <1>6, EmptyIsGood
<1>8. Entries' = <<>>
  BY <1>2, <1>7, EntriesAreNext
<1>9. CacheInv'
  <2>1. d.n <= d.cap /\ d.cap \in Nat \ {0}
    BY <1>3, <1>4, <1>5
  <2> QED BY <2>1, <1>2, <1>7 DEF CacheInv
<1>10. SlotsStep
  BY <1>2, <1>4, <1>6 DEF SlotsStep
<1>11. Abstract!Purge
  BY <1>2, <1>3, <1>5, <1>8 DEF Abstract!Purge, Abstract!Answer
<1> QED BY <1>9, <1>10, <1>11 DEF Kept

LEMMA LengthKeeps ==
  ASSUME CacheInv, Length
  PROVE  Kept /\ Abstract!Size
<1>1. PICK chain : Stands(cache, chain)
  BY CacheStands
<1>2. cache' = cache /\ obs' = <<"Len", cache.n>>
  BY DEF Length, Answer, Result
<1>3. Kept /\ Entries' = Entries /\ Len(Entries) = cache.n
  BY <1>1, <1>2, AnswerKeeps, StandingEntries
<1> QED BY <1>2, <1>3 DEF Abstract!Size, Abstract!Answer

(* A new cache is empty.                                                   *)
LEMMA NewCacheIsGood ==
  ASSUME Init
  PROVE  CacheInv /\ Abstract!LRUCacheInit
<1>1. PICK cap \in Capacities : ~ Rejected(cap) /\ cache = NewCache(cap) /\ obs = <<"New">>
  BY DEF Init
<1>2. cap \in Nat \ {0} /\ cap \in Capacities \ {0, Reserved}
  BY <1>1, LRUAssumption DEF Rejected
<1>3. PICK c : c = cache
  OBVIOUS
<1>4. /\ DOMAIN c = Fields /\ c.cap = cap /\ c.n = 0 /\ c.fresh = 0 /\ c.size = 1
      /\ c.head = Nil /\ c.tail = Nil /\ c.free = Nil /\ c.mask = 1 /\ c.tab = NewTable(1)
      /\ c.life = {} /\ Blocks(c)
  BY <1>1, <1>3 DEF NewCache, Fields, Blocks
<1>5. Good(c, NoChain) /\ EntriesOf(c, NoChain) = <<>>
  BY <1>4, EmptyIsGood
<1>6. CacheInv
  <2>1. c.n <= c.cap
    BY <1>2, <1>4
  <2> QED BY <2>1, <1>2, <1>3, <1>4, <1>5 DEF CacheInv
<1>7. Entries = <<>>
  BY <1>3, <1>5, EntriesAre
<1> QED BY <1>1, <1>2, <1>3, <1>4, <1>6, <1>7 DEF Abstract!LRUCacheInit

(* Every step keeps the invariant and is a step of the abstract cache.     *)
LEMMA NextKeeps ==
  ASSUME CacheInv, Next
  PROVE  Kept /\ Abstract!LRUCacheNext
<1>1. ASSUME NEW key \in Key, NEW now \in Times, NEW x \in Value, Add(key, x, now)
      PROVE  Kept /\ Abstract!LRUCacheNext
  BY <1>1, AddKeeps DEF Abstract!LRUCacheNext
<1>2. ASSUME NEW key \in Key, NEW now \in Times, Get(key, now)
      PROVE  Kept /\ Abstract!LRUCacheNext
  BY <1>2, GetKeeps DEF Abstract!LRUCacheNext
<1>3. ASSUME NEW key \in Key, NEW now \in Times, Peek(key, now)
      PROVE  Kept /\ Abstract!LRUCacheNext
  BY <1>3, PeekKeeps DEF Abstract!LRUCacheNext
<1>4. ASSUME NEW key \in Key, NEW now \in Times, Contains(key, now)
      PROVE  Kept /\ Abstract!LRUCacheNext
  BY <1>4, ContainsKeeps DEF Abstract!LRUCacheNext
<1>5. ASSUME NEW key \in Key, Remove(key)
      PROVE  Kept /\ Abstract!LRUCacheNext
  BY <1>5, RemoveKeeps DEF Abstract!LRUCacheNext
<1>6. ASSUME NEW now \in Times, Keys(now)
      PROVE  Kept /\ Abstract!LRUCacheNext
  BY <1>6, KeysKeeps DEF Abstract!LRUCacheNext
<1>7. ASSUME NEW cap \in Capacities, Resize(cap)
      PROVE  Kept /\ Abstract!LRUCacheNext
  BY <1>7, ResizeKeeps DEF Abstract!LRUCacheNext
<1>8. ASSUME NEW l \in Lifetimes, SetLifetime(l)
      PROVE  Kept /\ Abstract!LRUCacheNext
  BY <1>8, SetLifetimeKeeps DEF Abstract!LRUCacheNext
<1>9. CASE Purge
  BY <1>9, PurgeKeeps DEF Abstract!LRUCacheNext
<1>10. CASE Length
  BY <1>10, LengthKeeps DEF Abstract!LRUCacheNext
<1> QED BY <1>1, <1>2, <1>3, <1>4, <1>5, <1>6, <1>7, <1>8, <1>9, <1>10 DEF Next

LEMMA StepKeeps ==
  ASSUME CacheInv, [Next]_vars
  PROVE  Kept /\ [Abstract!LRUCacheNext]_<<cache.cap, Entries, cache.life, obs>>
<1>1. CASE Next
  BY <1>1, NextKeeps
<1>2. CASE UNCHANGED vars
  <2>1. cache' = cache /\ obs' = obs
    BY <1>2 DEF vars
  <2>2. Kept /\ Entries' = Entries
    BY <2>1, AnswerKeeps
  <2> QED BY <2>1, <2>2
<1> QED BY <1>1, <1>2

-----------------------------------------------------------------------------
(* What holds of every cache.                                              *)

(* The inductive invariant: some chain of links spells the recency list,   *)
(* its slots are those of the table's pairs, and the rest are on the free  *)
(* stack, each once.                                                       *)
THEOREM CacheInvariant == Spec => []CacheInv
<1>1. Init => CacheInv
  BY NewCacheIsGood
<1>2. CacheInv /\ [Next]_vars => CacheInv'
  BY StepKeeps DEF Kept
<1> QED BY <1>1, <1>2, PTL DEF Spec

(* A chain that stands for the list gives the slots in use.                *)
LEMMA UsedAre ==
  ASSUME NEW c, NEW chain, Good(c, chain)
  PROVE  Used(c) = SlotsOf(chain, c.n)
<1>1. PICK links : links = Recency(c)
  OBVIOUS
<1>2. links = [k \in 1 .. c.n |-> chain[k]]
  BY <1>1, RecencyIsChain
<1>3. \A k \in 1 .. c.n : links[k] = chain[k]
  BY <1>2
<1> QED BY <1>1, <1>3 DEF Used, SlotsOf

(* The slots below fresh that are not on the list are on the free stack,   *)
(* each once: the two never share a slot, although they share the next     *)
(* links, and none is lost (drop_core, free_next, purge).                  *)
THEOREM SlotsNeverLeak == Spec => []NoSlotLeaks
<1>1. CacheInv => NoSlotLeaks
  <2> SUFFICES ASSUME CacheInv PROVE NoSlotLeaks
    OBVIOUS
  <2>1. PICK chain : Good(cache, chain)
    BY DEF CacheInv
  <2>2. PICK stack : FreeStack(stack, cache.fresh - cache.n, cache.free, cache.nexts,
                               Slots(cache.fresh) \ Used(cache))
    BY <2>1, UsedAre DEF Good, FreeGood
  <2> QED BY <2>2 DEF FreeStack, NoSlotLeaks
<1> QED BY <1>1, CacheInvariant, PTL

(* A fresh slot is taken only while the cache is not full and every other  *)
(* slot is in use: an eviction leaves its slot to the entry it made room   *)
(* for (alloc_pick, drop_core).                                            *)
THEOREM SlotsArePeak == Spec => SlotsFollowEntries
<1>1. CacheInv /\ [Next]_vars => SlotsStep
  BY StepKeeps DEF Kept
<1>2. CacheInv /\ [Next]_vars =>
        [cache'.fresh > cache.fresh => cache.n = cache.fresh /\ cache.n < cache.cap]_vars
  BY <1>1 DEF SlotsStep
<1> QED BY <1>2, CacheInvariant, PTL DEF Spec, SlotsFollowEntries

(* The table, the recency list and the free stack together implement a     *)
(* bounded sequence of entries in the order of their last use: what is     *)
(* evicted is the entry least recently used, whatever was expired,         *)
(* removed, resized or purged before (touch, evict_oldest, read, keys).    *)
THEOREM RefinesLRUCache == Spec => ImplementsCache
<1>1. Init => Abstract!LRUCacheInit
  BY NewCacheIsGood
<1>2. CacheInv /\ [Next]_vars =>
        [Abstract!LRUCacheNext]_<<cache.cap, Entries, cache.life, obs>>
  BY StepKeeps
<1> QED BY <1>1, <1>2, CacheInvariant, PTL
        DEF Spec, ImplementsCache, Abstract!LRUCacheSpec, Abstract!vars

\* The list's links between two Nils.
LEMMA LinksAreChain ==
  ASSUME NEW c, NEW chain, Good(c, chain)
  PROVE  LET links == <<Nil>> \o Recency(c) \o <<Nil>>
         IN \A k \in 1 .. c.n + 2 : links[k] = chain[k - 1]
<1>1. PICK n, r, s : n = c.n /\ r = Recency(c) /\ s = <<Nil>> \o r
  OBVIOUS
<1>2. n \in Nat /\ chain \in [0 .. n + 1 -> Nat] /\ chain[0] = Nil /\ chain[n + 1] = Nil
  BY <1>1 DEF Good, ListGood, Orders
<1>3. r = [k \in 1 .. n |-> chain[k]]
  BY <1>1, RecencyIsChain
<1>4. r \in Seq(Nat) /\ Len(r) = n /\ \A k \in 1 .. n : r[k] = chain[k]
  <2>1. \A k \in 1 .. n : chain[k] \in Nat
    BY <1>2
  <2>2. r \in [1 .. n -> Nat]
    BY <2>1, <1>3
  <2> QED BY <2>2, <1>2, <1>3
<1>5. Nil \in Nat
  BY DEF Nil
<1>6. /\ s \in Seq(Nat) /\ Len(s) = n + 1 /\ s[1] = Nil
      /\ \A k \in 2 .. n + 1 : s[k] = r[k - 1]
  BY <1>1, <1>4, <1>5
<1>7. \A k \in 1 .. n + 2 : (s \o <<Nil>>)[k] = IF k <= n + 1 THEN s[k] ELSE Nil
  BY <1>2, <1>5, <1>6
<1>8. ASSUME NEW k \in 1 .. n + 2 PROVE (s \o <<Nil>>)[k] = chain[k - 1]
  <2>1. CASE k = 1
    <3>1. 1 <= n + 1 /\ 1 - 1 = 0
      BY <1>2
    <3> QED BY <2>1, <3>1, <1>2, <1>6, <1>7
  <2>2. CASE k \in 2 .. n + 1
    <3>1. k <= n + 1 /\ k - 1 \in 1 .. n
      BY <2>2, <1>2
    <3> QED BY <2>2, <3>1, <1>4, <1>6, <1>7
  <2>3. CASE k = n + 2
    <3>1. ~ k <= n + 1 /\ k - 1 = n + 1
      BY <2>3, <1>2
    <3> QED BY <3>1, <1>2, <1>7
  <2>4. k = 1 \/ k \in 2 .. n + 1 \/ k = n + 2
    BY <1>2
  <2> QED BY <2>1, <2>2, <2>3, <2>4
<1> QED BY <1>1, <1>8

(* The recency list, walked from either end, has n slots, each once, and   *)
(* the buckets hold just these, each under the check word that its slot    *)
(* remembers and where a probe finds it (unlink, link_tail, del_link,      *)
(* del_at, room).                                                          *)
THEOREM ListMatchesTable == Spec => []ListAndTableAgree
<1>1. CacheInv => ListAndTableAgree
  <2> SUFFICES ASSUME CacheInv PROVE ListAndTableAgree
    OBVIOUS
  <2>1. PICK chain : Good(cache, chain)
    BY DEF CacheInv
  <2>2. PICK c, links : c = cache /\ links = <<Nil>> \o Recency(c) \o <<Nil>>
    OBVIOUS
  <2>3. /\ Good(c, chain) /\ c.n \in Nat /\ Orders(chain, c.n, Slots(c.fresh))
        /\ Spells(chain, c.n, c.head, c.tail, c.prevs, c.nexts)
        /\ TableGood(c, SlotsOf(chain, c.n)) /\ Table(c.tab, c.mask)
    BY <2>1, <2>2 DEF Good, ListGood, Sized, TableGood
  <2>4. \A k \in 1 .. c.n + 2 : links[k] = chain[k - 1]
    BY <2>2, <2>3, LinksAreChain
  <2>5. Used(c) = SlotsOf(chain, c.n) /\ Cardinality(Used(c)) = c.n
    BY <2>3, UsedAre, ChainCount
  <2>6. c.head = links[2] /\ c.tail = links[c.n + 1]
    <3>1. 2 \in 1 .. c.n + 2 /\ c.n + 1 \in 1 .. c.n + 2 /\ 2 - 1 = 1 /\ c.n + 1 - 1 = c.n
      BY <2>3
    <3> QED BY <3>1, <2>3, <2>4 DEF Spells
  <2>7. \A k \in 2 .. c.n + 1 : /\ c.prevs[Slot(links[k])] = links[k - 1]
                                /\ c.nexts[Slot(links[k])] = links[k + 1]
    <3>1. ASSUME NEW k \in 2 .. c.n + 1
          PROVE  /\ c.prevs[Slot(links[k])] = links[k - 1]
                 /\ c.nexts[Slot(links[k])] = links[k + 1]
      <4>1. /\ k \in 1 .. c.n + 2 /\ k - 1 \in 1 .. c.n + 2 /\ k + 1 \in 1 .. c.n + 2
            /\ k - 1 \in 1 .. c.n /\ k + 1 - 1 = (k - 1) + 1
        BY <2>3
      <4> QED BY <4>1, <2>3, <2>4 DEF Spells
    <3> QED BY <3>1
  <2>8. Buckets(c.mask) \ Vacant(c.tab) = Full(c.tab)
    BY <2>3 DEF Table, Full
  <2>9. Cardinality(Full(c.tab)) = c.n
    BY <2>3, GoodTable
  <2>10. /\ {c.tab[i] : i \in Full(c.tab)} = {Bucket(c.words[s], Link(s)) : s \in Used(c)}
         /\ ProbesReach(c.tab, c.mask)
    BY <2>3, <2>5 DEF TableGood, Table, Pairs
  <2>11. PICK full : full = Buckets(c.mask) \ Vacant(c.tab)
    OBVIOUS
  <2>12. /\ Cardinality(full) = c.n
         /\ {c.tab[i] : i \in full} = {Bucket(c.words[s], Link(s)) : s \in Used(c)}
    BY <2>8, <2>9, <2>10, <2>11
  <2> DEFINE ls == <<Nil>> \o Recency(cache) \o <<Nil>>
  <2>13. /\ cache.head = ls[2] /\ cache.tail = ls[cache.n + 1]
         /\ \A k \in 2 .. cache.n + 1 : /\ cache.prevs[Slot(ls[k])] = ls[k - 1]
                                       /\ cache.nexts[Slot(ls[k])] = ls[k + 1]
    BY <2>2, <2>6, <2>7
  <2>14. full = Buckets(cache.mask) \ Vacant(cache.tab) /\ Cardinality(Used(cache)) = cache.n
         /\ ProbesReach(cache.tab, cache.mask)
    BY <2>2, <2>5, <2>10, <2>11
  <2>15. /\ Cardinality(full) = cache.n
         /\ {cache.tab[i] : i \in full} = {Bucket(cache.words[s], Link(s)) : s \in Used(cache)}
    BY <2>2, <2>12
  <2> QED BY <2>13, <2>14, <2>15 DEF ListAndTableAgree
<1> QED BY <1>1, CacheInvariant, PTL
=============================================================================
