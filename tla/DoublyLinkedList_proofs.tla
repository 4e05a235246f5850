---------------------- MODULE DoublyLinkedList_proofs ----------------------
(***************************************************************************)
(* The safety properties of DoublyLinkedList and of its iterator,          *)
(* DListIterator, hold for all elements, any number of generations and any *)
(* bound on the arena; and what the operations of DListStorage preserve,   *)
(* for every storage.                                                      *)
(*                                                                         *)
(* The lemmas on chains leave Link and Slot unexpanded and the blocks      *)
(* untyped: that Slot undoes Link is all they need of the arithmetic.      *)
(***************************************************************************)
EXTENDS DListIterator, Foundations

-----------------------------------------------------------------------------
(* Chains of links, apart from any storage.                                *)

\* The links of chain designate slots, and so do those of the slots of live.
Decodes(chain, count, live) ==
  /\ \A i \in live : Slot(Link(i)) = i /\ Link(i) # Nil
  /\ \A k \in 1 .. count : Link(Slot(chain[k])) = chain[k]

\* c is chain with slot n as its k-th of count + 1.
Inserts(chain, count, k, n, c) ==
  /\ c[k] = Link(n)
  /\ \A j \in 0 .. k - 1 : c[j] = chain[j]
  /\ \A j \in k .. count + 1 : c[j + 1] = chain[j]

(* A chain with a new slot inserted enumerates the live slots and that one *)
(* (what link_in does to the list it is given).                            *)
LEMMA InsertedEnumerates ==
  ASSUME NEW count \in Nat, NEW chain, NEW c, NEW live, NEW k \in 1 .. count + 1,
         NEW n, n \notin live,
         Decodes(chain, count, live \cup {n}),
         Enumerates(chain, count, live), Inserts(chain, count, k, n, c)
  PROVE  Enumerates(c, count + 1, live \cup {n}) /\ Decodes(c, count + 1, live \cup {n})
<1>0. /\ \A i \in live \cup {n} : Slot(Link(i)) = i /\ Link(i) # Nil
      /\ \A j \in 1 .. count : Link(Slot(chain[j])) = chain[j]
      /\ chain[0] = Nil /\ chain[count + 1] = Nil
      /\ \A j \in 1 .. count : chain[j] # Nil /\ Slot(chain[j]) \in live
      /\ \A i \in live : \E j \in 1 .. count : chain[j] = Link(i)
      /\ \A i, j \in 1 .. count : chain[i] = chain[j] => i = j
      /\ c[k] = Link(n)
      /\ \A j \in 0 .. k - 1 : c[j] = chain[j]
      /\ \A j \in k .. count + 1 : c[j + 1] = chain[j]
  BY DEF Decodes, Enumerates, Inserts
<1>1. \A j \in 1 .. count + 1 : j > k => j - 1 \in k .. count /\ j - 1 + 1 = j
  OBVIOUS
<1>2. ASSUME NEW j \in 1 .. count + 1
      PROVE  \/ j < k /\ j \in 1 .. count /\ c[j] = chain[j]
             \/ j = k /\ c[j] = Link(n)
             \/ j > k /\ j - 1 \in 1 .. count /\ c[j] = chain[j - 1]
  <2>1. CASE j < k  BY <2>1, <1>0
  <2>2. CASE j = k  BY <2>2, <1>0
  <2>3. CASE j > k
    <3>1. j - 1 \in k .. count /\ j - 1 + 1 = j
      BY <2>3
    <3> QED BY <3>1, <2>3, <1>0
  <2> QED BY <2>1, <2>2, <2>3
<1>3. c[0] = Nil /\ c[count + 1 + 1] = Nil
  BY <1>0
<1>4. \A j \in 1 .. count + 1 : c[j] # Nil /\ Slot(c[j]) \in live \cup {n} /\ Link(Slot(c[j])) = c[j]
  BY <1>2, <1>0
<1>5. ASSUME NEW i \in live \cup {n}
      PROVE  \E j \in 1 .. count + 1 : c[j] = Link(i)
  <2>1. CASE i = n  BY <1>0, <2>1
  <2>2. CASE i \in live
    <3>1. PICK j \in 1 .. count : chain[j] = Link(i)
      BY <2>2, <1>0
    <3>2. CASE j < k  BY <1>0, <3>1, <3>2
    <3>3. CASE j >= k
      <4>1. j + 1 \in 1 .. count + 1 /\ j \in k .. count + 1
        BY <3>3
      <4> QED BY <1>0, <3>1, <4>1
    <3> QED BY <3>2, <3>3
  <2> QED BY <2>1, <2>2
<1>6. ASSUME NEW i \in 1 .. count + 1, NEW j \in 1 .. count + 1, c[i] = c[j]
      PROVE  i = j
  <2>1. \A h \in 1 .. count : chain[h] # Link(n)
    BY <1>0
  <2> QED BY <2>1, <1>2, <1>6, <1>0
<1>7. Enumerates(c, count + 1, live \cup {n})
  BY <1>3, <1>4, <1>5, <1>6 DEF Enumerates
<1>8. Decodes(c, count + 1, live \cup {n})
  BY <1>4, <1>0 DEF Decodes
<1> QED BY <1>7, <1>8

(* Writing the new slot's two links and one link of each neighbour makes   *)
(* the blocks follow the chain with the slot inserted (link_in).           *)
LEMMA InsertedFollows ==
  ASSUME NEW count \in Nat, NEW chain, NEW c, NEW live, NEW k \in 1 .. count + 1,
         NEW n, n \notin live,
         Decodes(chain, count, live \cup {n}),
         Enumerates(chain, count, live), Inserts(chain, count, k, n, c),
         NEW prevs, NEW nexts, Follows(chain, count, prevs, nexts),
         NEW p, NEW q,
         p[n] = chain[k - 1], chain[k] # Nil => p[Slot(chain[k])] = Link(n),
         \A i \in live : Link(i) # chain[k] => p[i] = prevs[i],
         q[n] = chain[k], chain[k - 1] # Nil => q[Slot(chain[k - 1])] = Link(n),
         \A i \in live : Link(i) # chain[k - 1] => q[i] = nexts[i]
  PROVE  Follows(c, count + 1, p, q)
<1>0. /\ \A i \in live \cup {n} : Slot(Link(i)) = i /\ Link(i) # Nil
      /\ \A j \in 1 .. count : Link(Slot(chain[j])) = chain[j]
      /\ chain[0] = Nil /\ chain[count + 1] = Nil
      /\ \A j \in 1 .. count : chain[j] # Nil /\ Slot(chain[j]) \in live
      /\ \A i, j \in 1 .. count : chain[i] = chain[j] => i = j
      /\ c[k] = Link(n)
      /\ \A j \in 0 .. k - 1 : c[j] = chain[j]
      /\ \A j \in k .. count + 1 : c[j + 1] = chain[j]
  BY DEF Decodes, Enumerates, Inserts
<1>1. \A j \in 1 .. count : prevs[Slot(chain[j])] = chain[j - 1] /\ nexts[Slot(chain[j])] = chain[j + 1]
  BY DEF Follows
<1>2. ASSUME NEW j \in 1 .. count
      PROVE  /\ j # k => p[Slot(chain[j])] = chain[j-1]
             /\ j # k - 1 => q[Slot(chain[j])] = chain[j+1]
             /\ j = k => p[Slot(chain[j])] = Link(n)
             /\ j = k - 1 => q[Slot(chain[j])] = Link(n)
  <2>1. j # k => chain[j] # chain[k]
    BY <1>0
  <2>2. j # k - 1 => chain[j] # chain[k-1]
    BY <1>0
  <2> QED BY <2>1, <2>2, <1>0, <1>1
<1>3. ASSUME NEW j \in 1 .. count + 1
      PROVE  p[Slot(c[j])] = c[j - 1] /\ q[Slot(c[j])] = c[j + 1]
  <2>1. CASE j < k 
    <3>1. j \in 1 .. count /\ c[j] = chain[j] /\ c[j-1] = chain[j-1]
      BY <2>1, <1>0
    <3>2. j = k - 1 => c[j + 1] = Link(n)
      BY <1>0
    <3>3. j # k - 1 => c[j + 1] = chain[j + 1]
      BY <2>1, <1>0
    <3> QED BY <2>1, <3>1, <3>2, <3>3, <1>2
  <2>2. CASE j = k
    <3>1. c[j-1] = chain[j-1] /\ c[j+1] = chain[j] /\ Slot(c[j]) = n
      BY <2>2, <1>0
    <3> QED BY <2>2, <3>1
  <2>3. CASE j > k
    <3>1. PICK h \in 1 .. count : h + 1 = j /\ h >= k
      BY <2>3
    <3>2. c[j] = chain[h] /\ c[j + 1] = chain[h + 1]
      BY <3>1, <1>0
    <3>3. h = k => c[j - 1] = Link(n)
      BY <3>1, <1>0
    <3>4. h # k => c[j - 1] = chain[h - 1]
      <4>1. CASE h # k
        <5>1. h - 1 \in k .. count + 1 /\ h - 1 + 1 = j - 1
          BY <4>1, <3>1
        <5> QED BY <5>1, <1>0
      <4> QED BY <4>1
    <3> QED BY <3>1, <3>2, <3>3, <3>4, <1>2
  <2> QED BY <2>1, <2>2, <2>3
<1> QED BY <1>3 DEF Follows

\* c is chain without its k-th of count.
Removes(chain, count, k, c) ==
  /\ \A j \in 0 .. k - 1 : c[j] = chain[j]
  /\ \A j \in k .. count : c[j] = chain[j + 1]

(* A chain without one slot enumerates the other live slots (rm_links).    *)
LEMMA RemovedEnumerates ==
  ASSUME NEW count \in Nat, NEW chain, NEW c, NEW live, NEW k \in 1 .. count,
         NEW n \in live, chain[k] = Link(n), Decodes(chain, count, live),
         Enumerates(chain, count, live), Removes(chain, count, k, c)
  PROVE  /\ Enumerates(c, count - 1, live \ {n})
         /\ Decodes(c, count - 1, live \ {n})
<1>0. /\ \A i \in live : Slot(Link(i)) = i /\ Link(i) # Nil
      /\ \A j \in 1 .. count : Link(Slot(chain[j])) = chain[j]
      /\ chain[0] = Nil /\ chain[count + 1] = Nil
      /\ \A j \in 1 .. count : chain[j] # Nil /\ Slot(chain[j]) \in live
      /\ \A i \in live : \E j \in 1 .. count : chain[j] = Link(i)
      /\ \A i, j \in 1 .. count : chain[i] = chain[j] => i = j
      /\ \A j \in 0 .. k - 1 : c[j] = chain[j]
      /\ \A j \in k .. count : c[j] = chain[j + 1]
  BY DEF Decodes, Enumerates, Removes
<1>1. ASSUME NEW j \in 1 .. count - 1
      PROVE  \/ j < k /\ j \in 1 .. count /\ c[j] = chain[j]
             \/ j >= k /\ j + 1 \in 1 .. count /\ c[j] = chain[j + 1]
  BY <1>0
<1>2. c[0] = Nil /\ c[count - 1 + 1] = Nil
  BY <1>0
<1>3. \A j \in 1 .. count : j # k => Slot(chain[j]) # n
  BY <1>0
<1>4. ASSUME NEW j \in 1 .. count - 1
      PROVE  c[j] # Nil /\ Slot(c[j]) \in live \ {n} /\ Link(Slot(c[j])) = c[j]
  BY <1>0, <1>1, <1>3
<1>5. ASSUME NEW i \in live \ {n}
      PROVE  \E j \in 1 .. count - 1 : c[j] = Link(i)
  <2>1. PICK j \in 1 .. count : chain[j] = Link(i)
    BY <1>0
  <2>2. j # k
    <3>1. Link(i) # Link(n)
      BY <1>0
    <3> QED BY <2>1, <3>1
  <2>3. CASE j < k
    <3>1. j \in 0 .. k - 1 /\ j \in 1 .. count - 1
      BY <2>3
    <3>2. c[j] = Link(i)
      BY <1>0, <2>1, <3>1
    <3> QED BY <3>1, <3>2
  <2>4. CASE j > k
    <3>1. PICK h \in 1 .. count - 1 : h + 1 = j /\ h \in k .. count
      BY <2>4
    <3>2. c[h] = Link(i)
      BY <1>0, <2>1, <3>1
    <3> QED BY <3>2
  <2> QED BY <2>2, <2>3, <2>4
<1>6. ASSUME NEW i \in 1 .. count - 1, NEW j \in 1 .. count - 1, c[i] = c[j]
      PROVE  i = j
  BY <1>1, <1>6, <1>0
<1>7. Enumerates(c, count - 1, live \ {n})
  BY <1>2, <1>4, <1>5, <1>6 DEF Enumerates
<1>8. Decodes(c, count - 1, live \ {n})
  BY <1>4, <1>0 DEF Decodes
<1> QED BY <1>7, <1>8

(* Writing one link of each neighbour of the removed slot makes the blocks *)
(* follow the chain without it (rm_links).                                 *)
LEMMA RemovedFollows ==
  ASSUME NEW count \in Nat, NEW chain, NEW c, NEW live, NEW k \in 1 .. count,
         Decodes(chain, count, live),
         Enumerates(chain, count, live), Removes(chain, count, k, c),
         NEW prevs, NEW nexts, Follows(chain, count, prevs, nexts),
         NEW p, NEW q,
         chain[k + 1] # Nil => p[Slot(chain[k + 1])] = chain[k - 1],
         \A i \in live : Link(i) # chain[k + 1] => p[i] = prevs[i],
         chain[k - 1] # Nil => q[Slot(chain[k - 1])] = chain[k + 1],
         \A i \in live : Link(i) # chain[k - 1] => q[i] = nexts[i]
  PROVE  Follows(c, count - 1, p, q)
<1>0. /\ \A i \in live : Slot(Link(i)) = i /\ Link(i) # Nil
      /\ \A j \in 1 .. count : Link(Slot(chain[j])) = chain[j]
      /\ chain[0] = Nil /\ chain[count + 1] = Nil
      /\ \A j \in 1 .. count : chain[j] # Nil /\ Slot(chain[j]) \in live
      /\ \A i, j \in 1 .. count : chain[i] = chain[j] => i = j
      /\ \A j \in 0 .. k - 1 : c[j] = chain[j]
      /\ \A j \in k .. count : c[j] = chain[j + 1]
  BY DEF Decodes, Enumerates, Removes
<1>1. \A j \in 1 .. count : /\ prevs[Slot(chain[j])] = chain[j - 1]
                            /\ nexts[Slot(chain[j])] = chain[j + 1]
  BY DEF Follows
<1>2. ASSUME NEW j \in 1 .. count
      PROVE  /\ j # k + 1 => p[Slot(chain[j])] = chain[j - 1]
             /\ j # k - 1 => q[Slot(chain[j])] = chain[j + 1]
             /\ j = k + 1 => p[Slot(chain[j])] = chain[k - 1]
             /\ j = k - 1 => q[Slot(chain[j])] = chain[k + 1]
  <2>1. j # k + 1 => chain[j] # chain[k + 1]
    BY <1>0
  <2>2. j # k - 1 => chain[j] # chain[k - 1]
    BY <1>0
  <2> QED BY <2>1, <2>2, <1>0, <1>1
<1>3. ASSUME NEW j \in 1 .. count - 1
      PROVE  p[Slot(c[j])] = c[j - 1] /\ q[Slot(c[j])] = c[j + 1]
  <2>1. CASE j < k
    <3>1. c[j] = chain[j] /\ c[j - 1] = chain[j - 1]
      BY <2>1, <1>0
    <3>2. /\ j = k - 1 => c[j + 1] = chain[k + 1]
          /\ j # k - 1 => c[j + 1] = chain[j + 1]
      BY <2>1, <1>0
    <3> QED BY <2>1, <3>1, <3>2, <1>2
  <2>2. CASE j >= k
    <3>1. PICK h \in 1 .. count : h = j + 1
      OBVIOUS
    <3>2. c[j] = chain[h] /\ c[j + 1] = chain[h + 1]
      BY <2>2, <3>1, <1>0
    <3>3. /\ h = k + 1 => c[j - 1] = chain[k - 1]
          /\ h # k + 1 => c[j - 1] = chain[h - 1]
      BY <2>2, <3>1, <1>0
    <3> QED BY <2>2, <3>1, <3>2, <3>3, <1>2
  <2> QED BY <2>1, <2>2
<1> QED BY <1>3 DEF Follows
-----------------------------------------------------------------------------
(* Blocks.                                                                 *)

(* Link and Slot undo each other on an arena (link, slot).                 *)
LEMMA LinkFacts ==
  ASSUME NEW cap \in Nat
  PROVE  /\ \A i \in Arena(cap) : /\ Slot(Link(i)) = i /\ Link(i) # Nil
                                   /\ Link(i) \in 0 .. cap
         /\ \A l \in 0 .. cap : l # Nil => Slot(l) \in Arena(cap) /\ Link(Slot(l)) = l
         /\ Nil \in 0 .. cap
  BY DEF Arena, Link, Slot, Nil

Writes(cap, block, x, y, p) ==
  /\ p \in [Arena(cap) -> 0 .. cap]
  /\ x # Nil => p[Slot(x)] = y
  /\ \A i \in Arena(cap) : Link(i) # x => p[i] = block[i]

(* What a relinking write changes in a block (set_next).                   *)
LEMMA SetNextWrites ==
  ASSUME NEW cap \in Nat, NEW block \in [Arena(cap) -> 0 .. cap],
         NEW x \in 0 .. cap, NEW y \in 0 .. cap
  PROVE  Writes(cap, block, x, y, SetNext(block, x, y))
<1>1. CASE x = Nil
  BY <1>1 DEF SetNext, Writes
<1>2. CASE x # Nil
  <2>1. Slot(x) \in Arena(cap) /\ Link(Slot(x)) = x
    BY <1>2, LinkFacts
  <2>2. SetNext(block, x, y) = [block EXCEPT ![Slot(x)] = y]
    BY <1>2 DEF SetNext
  <2> QED BY <1>2, <2>1, <2>2 DEF Writes
<1> QED BY <1>1, <1>2

\* A block with y written at the new slot n, and n at its neighbour x.
Spliced(block, n, y, x) == SetNext([block EXCEPT ![n] = y], x, Link(n))

Splices(cap, block, n, y, x, p) ==
  /\ p \in [Arena(cap) -> 0 .. cap]
  /\ p[n] = y
  /\ x # Nil => p[Slot(x)] = Link(n)
  /\ \A i \in Arena(cap) : i # n /\ Link(i) # x => p[i] = block[i]

(* What a block holds after the new slot n and a neighbour are written.    *)
LEMMA LinkInWrites ==
  ASSUME NEW cap \in Nat, NEW block \in [Arena(cap) -> 0 .. cap],
         NEW n \in Arena(cap), NEW y \in 0 .. cap, NEW x \in 0 .. cap, x # Link(n)
  PROVE  Splices(cap, block, n, y, x, Spliced(block, n, y, x))
<1> DEFINE b == [block EXCEPT ![n] = y]
<1>1. /\ b \in [Arena(cap) -> 0 .. cap] /\ b[n] = y
      /\ \A i \in Arena(cap) : i # n => b[i] = block[i]
  OBVIOUS
<1>2. Link(n) \in 0 .. cap
  BY LinkFacts
<1> HIDE DEF b
<1>3. Writes(cap, b, x, Link(n), SetNext(b, x, Link(n)))
  BY <1>1, <1>2, SetNextWrites
<1> QED BY <1>1, <1>3, LinkFacts DEF b, Spliced, Splices, Writes

-----------------------------------------------------------------------------
(* Storages.                                                               *)

(* The fields of a storage, one by one.                                    *)
LEMMA StorageFields ==
  ASSUME NEW cap \in Nat, NEW s \in Storages(cap)
  PROVE  /\ s.fresh \in 0 .. cap /\ s.free \in 0 .. cap /\ s.count \in Nat
         /\ s.head \in 0 .. cap /\ s.tail \in 0 .. cap /\ s.cap = cap
         /\ s.vals \in [Arena(cap) -> Value \cup {NoValue}]
         /\ s.prevs \in [Arena(cap) -> 0 .. cap]
         /\ s.nexts \in [Arena(cap) -> 0 .. cap]
         /\ Live(s) \subseteq Arena(cap)
  BY DEF Storages, Live

(* The chain of a storage is made of links to its slots.                   *)
LEMMA ChainDecodes ==
  ASSUME NEW cap \in Nat, NEW s \in Storages(cap),
         NEW chain \in Chains(s), Represents(s, chain),
         NEW live \in SUBSET Arena(cap)
  PROVE  /\ Decodes(chain, s.count, live)
         /\ \A j \in 0 .. s.count + 1 : chain[j] \in 0 .. cap
<1>1. s.count \in Nat /\ s.cap = cap
  BY StorageFields
<1>2. \A j \in 0 .. s.count + 1 : chain[j] \in 0 .. cap
  BY <1>1 DEF Chains
<1>3. \A j \in 1 .. s.count : chain[j] # Nil /\ chain[j] \in 0 .. cap
  BY <1>1, <1>2 DEF Represents, Enumerates
<1>4. \A j \in 1 .. s.count : Link(Slot(chain[j])) = chain[j]
  BY <1>3, LinkFacts
<1>5. \A i \in live : Slot(Link(i)) = i /\ Link(i) # Nil
  BY LinkFacts
<1> QED BY <1>2, <1>4, <1>5 DEF Decodes

\* The chain with link l as its k-th, and the chain without its k-th.
InsertedChain(chain, count, k, l) ==
  [j \in 0 .. count + 2 |-> IF j < k THEN chain[j]
                            ELSE IF j = k THEN l ELSE chain[j - 1]]

RemovedChain(chain, count, k) ==
  [j \in 0 .. count |-> IF j < k THEN chain[j] ELSE chain[j + 1]]

\* From s to t, of capacity cap: t holds the list c, of exactly the slots of
\* live, and the links of the slots of s outside both lists are as they were.
Relinks(cap, s, t, live, c) ==
  /\ t \in Storages(cap)
  /\ Live(t) = live
  /\ c \in Chains(t) /\ Represents(t, c)
  /\ \A i \in Arena(s.cap) \ (Live(s) \cup live) : t.nexts[i] = s.nexts[i]

(* Storing an element in a slot that is not live, between two neighbours   *)
(* of the list, inserts that slot in the list (link_in).                   *)
LEMMA LinkInRepresents ==
  ASSUME NEW cap \in Nat \ {0}, NEW s \in Storages(cap),
         NEW chain \in Chains(s), Represents(s, chain),
         NEW k \in 1 .. s.count + 1,
         NEW n \in Arena(cap), n \notin Live(s), NEW x \in Value,
         NEW nfresh \in 0 .. cap, NEW nfree \in 0 .. cap
  PROVE  Relinks(cap, s, LinkIn(s, n, nfresh, nfree, chain[k - 1], chain[k], x),
                 Live(s) \cup {n}, InsertedChain(chain, s.count, k, Link(n)))
<1> DEFINE a == chain[k - 1]
           b == chain[k]
           t == LinkIn(s, n, nfresh, nfree, a, b, x)
           c == InsertedChain(chain, s.count, k, Link(n))
<1>1. /\ s.count \in Nat /\ s.cap = cap /\ Live(s) \subseteq Arena(cap)
      /\ s.head \in 0 .. cap /\ s.tail \in 0 .. cap
      /\ s.vals \in [Arena(cap) -> Value \cup {NoValue}]
  BY StorageFields
<1>2. s.prevs \in [Arena(cap) -> 0 .. cap] /\ s.nexts \in [Arena(cap) -> 0 .. cap]
  BY StorageFields
<1>3. Live(s) \cup {n} \in SUBSET Arena(cap)
  BY <1>1
<1>4. /\ Decodes(chain, s.count, Live(s) \cup {n})
      /\ \A j \in 0 .. s.count + 1 : chain[j] \in 0 .. cap
  BY <1>3, ChainDecodes
<1>5. k \in 0 .. s.count + 1 /\ k - 1 \in 0 .. s.count + 1
  BY <1>1
<1>6. a \in 0 .. cap /\ b \in 0 .. cap
  BY <1>4, <1>5
<1>7. Enumerates(chain, s.count, Live(s)) /\ Follows(chain, s.count, s.prevs, s.nexts)
  BY DEF Represents
<1>8. s.head = chain[1] /\ s.tail = chain[s.count]
  BY DEF Represents
<1>9. \A j \in 0 .. s.count + 1 : chain[j] # Link(n)
  <2>1. \A j \in 1 .. s.count : chain[j] # Link(n)
    BY <1>7, LinkFacts DEF Enumerates
  <2>2. chain[0] # Link(n) /\ chain[s.count + 1] # Link(n)
    BY <1>7, LinkFacts DEF Enumerates
  <2> QED BY <1>1, <2>1, <2>2
<1>10. a # Link(n) /\ b # Link(n)
  BY <1>5, <1>9
<1> HIDE DEF a, b
<1>11. /\ t.prevs \in [Arena(cap) -> 0 .. cap]
       /\ t.prevs[n] = a
       /\ b # Nil => t.prevs[Slot(b)] = Link(n)
       /\ \A i \in Arena(cap) : i # n /\ Link(i) # b => t.prevs[i] = s.prevs[i]
  <2>1. t.prevs = Spliced(s.prevs, n, a, b)
    BY DEF LinkIn, Spliced
  <2> HIDE DEF t
  <2>2. Splices(cap, s.prevs, n, a, b, Spliced(s.prevs, n, a, b))
    BY <1>2, <1>6, <1>10, LinkInWrites
  <2> QED BY <2>1, <2>2 DEF Splices
<1>12. /\ t.nexts \in [Arena(cap) -> 0 .. cap]
       /\ t.nexts[n] = b
       /\ a # Nil => t.nexts[Slot(a)] = Link(n)
       /\ \A i \in Arena(cap) : i # n /\ Link(i) # a => t.nexts[i] = s.nexts[i]
  <2>1. t.nexts = Spliced(s.nexts, n, b, a)
    BY DEF LinkIn, Spliced
  <2> HIDE DEF t
  <2>2. Splices(cap, s.nexts, n, b, a, Spliced(s.nexts, n, b, a))
    BY <1>2, <1>6, <1>10, LinkInWrites
  <2> QED BY <2>1, <2>2 DEF Splices
<1>13. /\ t.vals = [s.vals EXCEPT ![n] = x] /\ t.count = s.count + 1 /\ t.cap = cap
       /\ t.fresh = nfresh /\ t.free = nfree
       /\ t.head = PickEnd(a, Link(n), s.head) /\ t.tail = PickEnd(b, Link(n), s.tail)
  BY <1>1 DEF LinkIn
<1>14. t \in Storages(cap)
  <2>1. t.head \in 0 .. cap /\ t.tail \in 0 .. cap
    BY <1>1, <1>13, LinkFacts DEF PickEnd
  <2>2. t.vals \in [Arena(cap) -> Value \cup {NoValue}]
    BY <1>1, <1>13
  <2>3. t = [ fresh |-> t.fresh, free |-> t.free, count |-> t.count,
              head |-> t.head, tail |-> t.tail, cap |-> t.cap,
              vals |-> t.vals, prevs |-> t.prevs, nexts |-> t.nexts ]
    BY DEF LinkIn
  <2>4. t.count \in Nat
    BY <1>1, <1>13
  <2> HIDE DEF t
  <2> QED BY <2>1, <2>2, <2>3, <2>4, <1>11, <1>12, <1>13 DEF Storages
<1> HIDE DEF t
<1>15. Live(t) = Live(s) \cup {n}
  BY <1>1, <1>13, NoValueAssumption DEF Live
<1>16. Inserts(chain, s.count, k, n, c) /\ c \in Chains(t)
  <2> USE DEF InsertedChain
  <2>1. \A j \in 0 .. s.count + 2 :
          (IF j < k THEN chain[j] ELSE IF j = k THEN Link(n) ELSE chain[j - 1])
            \in 0 .. cap
    <3>1. ASSUME NEW j \in 0 .. s.count + 2, j > k PROVE chain[j - 1] \in 0 .. cap
      <4>1. j - 1 \in 0 .. s.count + 1
        BY <1>1, <3>1
      <4> QED BY <4>1, <1>4
    <3>2. ASSUME NEW j \in 0 .. s.count + 2, j < k PROVE chain[j] \in 0 .. cap
      BY <1>1, <1>4, <3>2
    <3> QED BY <1>1, <3>1, <3>2, LinkFacts
  <2>2. c \in [0 .. s.count + 2 -> 0 .. cap]
    BY <2>1
  <2>3. c \in Chains(t)
    BY <1>1, <1>13, <2>2 DEF Chains
  <2>4. c[k] = Link(n)
    BY <1>1
  <2>5. ASSUME NEW j \in 0 .. k - 1 PROVE c[j] = chain[j]
    BY <1>1
  <2>6. ASSUME NEW j \in k .. s.count + 1 PROVE c[j + 1] = chain[j]
    <3>1. j + 1 \in 0 .. s.count + 2 /\ j + 1 > k /\ j + 1 - 1 = j
      BY <1>1
    <3> QED BY <3>1
  <2> QED BY <2>3, <2>4, <2>5, <2>6 DEF Inserts
<1> HIDE DEF c
<1>17. Enumerates(c, s.count + 1, Live(s) \cup {n})
  BY <1>1, <1>4, <1>7, <1>16, InsertedEnumerates
<1>18. Follows(c, s.count + 1, t.prevs, t.nexts)
  <2>1. /\ \A i \in Live(s) : Link(i) # b => t.prevs[i] = s.prevs[i]
        /\ \A i \in Live(s) : Link(i) # a => t.nexts[i] = s.nexts[i]
    BY <1>1, <1>11, <1>12
  <2> QED BY <1>1, <1>4, <1>7, <1>11, <1>12, <1>16, <2>1, InsertedFollows DEF a, b
<1>19. t.head = c[1] /\ t.tail = c[t.count]
  <2>1. t.head = c[1]
    <3>1. CASE k = 1
      BY <3>1, <1>7, <1>13, <1>16 DEF a, Enumerates, PickEnd, Inserts
    <3>2. CASE k # 1
      <4>1. k - 1 \in 1 .. s.count /\ 1 \in 0 .. k - 1
        BY <3>2, <1>1
      <4> QED BY <4>1, <1>7, <1>8, <1>13, <1>16 DEF a, Enumerates, PickEnd, Inserts
    <3> QED BY <3>1, <3>2
  <2>2. t.tail = c[s.count + 1]
    <3>1. CASE k = s.count + 1
      BY <3>1, <1>7, <1>13, <1>16 DEF b, Enumerates, PickEnd, Inserts
    <3>2. CASE k # s.count + 1
      <4>1. k \in 1 .. s.count /\ s.count \in k .. s.count + 1
        BY <3>2, <1>1
      <4> QED BY <4>1, <1>7, <1>8, <1>13, <1>16 DEF b, Enumerates, PickEnd, Inserts
    <3> QED BY <3>1, <3>2
  <2> QED BY <2>1, <2>2, <1>13
<1>20. Represents(t, c)
  BY <1>13, <1>15, <1>17, <1>18, <1>19 DEF Represents
<1>21. \A i \in Arena(cap) \ Live(t) : t.nexts[i] = s.nexts[i]
  <2>1. a # Nil => Slot(a) \in Live(s)
    <3>1. CASE k = 1
      BY <3>1, <1>7 DEF a, Enumerates
    <3>2. CASE k # 1
      <4>1. k - 1 \in 1 .. s.count
        BY <3>2, <1>1
      <4> QED BY <4>1, <1>7 DEF a, Enumerates
    <3> QED BY <3>1, <3>2
  <2> QED BY <2>1, <1>12, <1>15, LinkFacts
<1>22. Relinks(cap, s, t, Live(s) \cup {n}, c)
  BY <1>1, <1>14, <1>15, <1>16, <1>20, <1>21 DEF Relinks
<1> QED BY <1>22 DEF t, a, b, c

(* Unlinking a live slot takes it out of the list (rm_links).              *)
LEMMA UnlinkedRepresents ==
  ASSUME NEW cap \in Nat \ {0}, NEW s \in Storages(cap),
         NEW chain \in Chains(s), Represents(s, chain), NEW n \in Live(s),
         NEW k \in 1 .. s.count, chain[k] = Link(n)
  PROVE  Relinks(cap, s, Unlinked(s, n), Live(s) \ {n},
                 RemovedChain(chain, s.count, k))
<1>1. /\ s.count \in Nat /\ s.cap = cap /\ Live(s) \subseteq Arena(cap)
      /\ s.head \in 0 .. cap /\ s.tail \in 0 .. cap
      /\ s.fresh \in 0 .. cap /\ s.free \in 0 .. cap
      /\ s.vals \in [Arena(cap) -> Value \cup {NoValue}]
  BY StorageFields
<1>2. s.prevs \in [Arena(cap) -> 0 .. cap] /\ s.nexts \in [Arena(cap) -> 0 .. cap]
  BY StorageFields
<1>3. Enumerates(chain, s.count, Live(s)) /\ Follows(chain, s.count, s.prevs, s.nexts)
  BY DEF Represents
<1>4. s.head = chain[1] /\ s.tail = chain[s.count]
  BY DEF Represents
<1>5. /\ Decodes(chain, s.count, Live(s))
      /\ \A j \in 0 .. s.count + 1 : chain[j] \in 0 .. cap
  BY <1>1, ChainDecodes
<1>7. k - 1 \in 0 .. s.count + 1 /\ k + 1 \in 0 .. s.count + 1 /\ s.count - 1 \in Nat
  BY <1>1
<1>8. Slot(chain[k]) = n
  BY <1>5 DEF Decodes
<1> DEFINE a == s.prevs[n]
           b == s.nexts[n]
           t == Unlinked(s, n)
           c == RemovedChain(chain, s.count, k)
<1>9. a = chain[k - 1] /\ b = chain[k + 1]
  BY <1>3, <1>8 DEF Follows
<1>10. a \in 0 .. cap /\ b \in 0 .. cap
  BY <1>5, <1>7, <1>9
<1>11. /\ t.prevs = SetNext(s.prevs, b, a) /\ t.nexts = SetNext(s.nexts, a, b)
       /\ t.vals = [s.vals EXCEPT ![n] = NoValue] /\ t.count = s.count - 1
       /\ t.cap = cap /\ t.fresh = s.fresh /\ t.free = s.free
       /\ t.head = PickEnd(a, b, s.head) /\ t.tail = PickEnd(b, a, s.tail)
  BY <1>1 DEF Unlinked, Storages
<1> HIDE DEF a, b, t
<1>13. /\ t.prevs \in [Arena(cap) -> 0 .. cap]
       /\ b # Nil => t.prevs[Slot(b)] = a
       /\ \A i \in Arena(cap) : Link(i) # b => t.prevs[i] = s.prevs[i]
  <2>1. Writes(cap, s.prevs, b, a, SetNext(s.prevs, b, a))
    BY <1>2, <1>10, SetNextWrites
  <2> QED BY <2>1, <1>11 DEF Writes
<1>14. /\ t.nexts \in [Arena(cap) -> 0 .. cap]
       /\ a # Nil => t.nexts[Slot(a)] = b
       /\ \A i \in Arena(cap) : Link(i) # a => t.nexts[i] = s.nexts[i]
  <2>1. Writes(cap, s.nexts, a, b, SetNext(s.nexts, a, b))
    BY <1>2, <1>10, SetNextWrites
  <2> QED BY <2>1, <1>11 DEF Writes
<1>15. t \in Storages(cap)
  <2>1. t = [ s EXCEPT !.count = s.count - 1,
                       !.head = PickEnd(a, b, s.head),
                       !.tail = PickEnd(b, a, s.tail),
                       !.vals[n] = NoValue,
                       !.prevs = SetNext(s.prevs, b, a),
                       !.nexts = SetNext(s.nexts, a, b) ]
    BY DEF t, a, b, Unlinked
  <2>2. /\ PickEnd(a, b, s.head) \in 0 .. cap /\ PickEnd(b, a, s.tail) \in 0 .. cap
        /\ n \in Arena(cap)
    BY <1>1, <1>10 DEF PickEnd
  <2>3. /\ SetNext(s.prevs, b, a) \in [Arena(cap) -> 0 .. cap]
        /\ SetNext(s.nexts, a, b) \in [Arena(cap) -> 0 .. cap]
    BY <1>11, <1>13, <1>14
  <2> QED BY <2>1, <2>2, <2>3, <1>7 DEF Storages
<1>16. Live(t) = Live(s) \ {n}
  BY <1>1, <1>11, NoValueAssumption DEF Live
<1>17. Removes(chain, s.count, k, c) /\ c \in Chains(t)
  <2> USE DEF RemovedChain
  <2>1. \A j \in 0 .. s.count :
          (IF j < k THEN chain[j] ELSE chain[j + 1]) \in 0 .. cap
    BY <1>1, <1>5
  <2>2. c \in [0 .. s.count -> 0 .. cap] /\ t.count + 1 = s.count
    BY <1>1, <1>11, <2>1
  <2>3. c \in Chains(t)
    BY <1>11, <2>2 DEF Chains
  <2>4. \A j \in 0 .. k - 1 : c[j] = chain[j]
    BY <1>1
  <2>5. \A j \in k .. s.count : c[j] = chain[j + 1]
    BY <1>1
  <2> QED BY <2>3, <2>4, <2>5 DEF Removes
<1> HIDE DEF c
<1>18. Enumerates(c, s.count - 1, Live(s) \ {n})
  BY <1>1, <1>3, <1>5, <1>17, RemovedEnumerates
<1>19. Follows(c, s.count - 1, t.prevs, t.nexts)
  <2>1. /\ \A i \in Live(s) : Link(i) # b => t.prevs[i] = s.prevs[i]
        /\ \A i \in Live(s) : Link(i) # a => t.nexts[i] = s.nexts[i]
    BY <1>1, <1>13, <1>14
  <2> QED BY <1>1, <1>3, <1>5, <1>9, <1>13, <1>14, <1>17, <2>1, RemovedFollows
<1>20. t.head = c[1] /\ t.tail = c[s.count - 1]
  <2>1. t.head = c[1]
    <3>1. CASE k = 1
      BY <3>1, <1>1, <1>3, <1>9, <1>11, <1>17 DEF Enumerates, PickEnd, Removes
    <3>2. CASE k # 1
      <4>1. k - 1 \in 1 .. s.count /\ 1 \in 0 .. k - 1
        BY <3>2, <1>1
      <4> QED BY <4>1, <1>3, <1>4, <1>9, <1>11, <1>17 DEF Enumerates, PickEnd, Removes
    <3> QED BY <3>1, <3>2
  <2>2. t.tail = c[s.count - 1]
    <3>1. CASE k = s.count
      <4>1. s.count - 1 \in 0 .. k - 1 /\ b = Nil /\ chain[k - 1] = chain[s.count - 1]
        BY <3>1, <1>1, <1>3, <1>9 DEF Enumerates
      <4> QED BY <4>1, <1>9, <1>11, <1>17 DEF PickEnd, Removes
    <3>2. CASE k # s.count
      <4>1. k + 1 \in 1 .. s.count /\ s.count - 1 \in k .. s.count
            /\ s.count - 1 + 1 = s.count
        BY <3>2, <1>1
      <4> QED BY <4>1, <1>3, <1>4, <1>9, <1>11, <1>17 DEF Enumerates, PickEnd, Removes
    <3> QED BY <3>1, <3>2
  <2> QED BY <2>1, <2>2
<1>21. Represents(t, c)
  BY <1>11, <1>16, <1>18, <1>19, <1>20 DEF Represents
<1>22. \A i \in Arena(cap) \ Live(s) : t.nexts[i] = s.nexts[i]
  <2>1. a # Nil => Slot(a) \in Live(s)
    <3>1. CASE k = 1
      BY <3>1, <1>3, <1>9 DEF Enumerates
    <3>2. CASE k # 1
      <4>1. k - 1 \in 1 .. s.count
        BY <3>2, <1>1
      <4> QED BY <4>1, <1>3, <1>9 DEF Enumerates
    <3> QED BY <3>1, <3>2
  <2> QED BY <2>1, <1>14, LinkFacts
<1>23. Relinks(cap, s, t, Live(s) \ {n}, c)
  BY <1>1, <1>15, <1>16, <1>17, <1>21, <1>22 DEF Relinks
<1> QED BY <1>23 DEF t, c

(* Pushing a slot on the free stack leaves the list alone (recycle_slot).  *)
LEMMA RecycledRepresents ==
  ASSUME NEW cap \in Nat \ {0}, NEW s \in Storages(cap),
         NEW chain \in Chains(s), Represents(s, chain),
         NEW n \in Arena(cap), n \notin Live(s)
  PROVE  /\ RecycleSlot(s, n) \in Storages(cap)
         /\ Live(RecycleSlot(s, n)) = Live(s)
         /\ chain \in Chains(RecycleSlot(s, n))
         /\ Represents(RecycleSlot(s, n), chain)
<1> DEFINE t == RecycleSlot(s, n)
<1>1. /\ s.nexts \in [Arena(cap) -> 0 .. cap] /\ s.free \in 0 .. cap
      /\ s.cap = cap
  BY StorageFields
<1>2. /\ t.nexts = [s.nexts EXCEPT ![n] = s.free] /\ t.free = Link(n)
      /\ t.prevs = s.prevs /\ t.vals = s.vals /\ t.count = s.count
      /\ t.cap = s.cap /\ t.head = s.head /\ t.tail = s.tail /\ t.fresh = s.fresh
  BY DEF RecycleSlot, Storages
<1>3. t \in Storages(cap)
  <2>1. Link(n) \in 0 .. cap
    BY LinkFacts
  <2> QED BY <2>1, <1>1 DEF RecycleSlot, Storages
<1> HIDE DEF t
<1>4. /\ t.nexts \in [Arena(cap) -> 0 .. cap]
      /\ \A i \in Arena(cap) : i # n => t.nexts[i] = s.nexts[i]
  BY <1>1, <1>2
<1>6. Live(t) = Live(s)
  BY <1>2 DEF Live
<1>7. chain \in Chains(t)
  BY <1>2 DEF Chains
<1>8. Follows(chain, t.count, t.prevs, t.nexts)
  <2>1. \A k \in 1 .. s.count : Slot(chain[k]) \in Live(s)
    BY DEF Represents, Enumerates
  <2>2. \A k \in 1 .. s.count : t.nexts[Slot(chain[k])] = s.nexts[Slot(chain[k])]
    BY <2>1, <1>4, StorageFields
  <2> QED BY <2>2, <1>2 DEF Represents, Follows
<1>9. Represents(t, chain)
  BY <1>2, <1>6, <1>8 DEF Represents
<1> QED BY <1>3, <1>6, <1>7, <1>9 DEF t

(* Writing an element over another one leaves the links alone (set).       *)
LEMMA SetValueRepresents ==
  ASSUME NEW cap \in Nat \ {0}, NEW s \in Storages(cap),
         NEW chain \in Chains(s), Represents(s, chain),
         NEW n \in Live(s), NEW x \in Value
  PROVE  Relinks(cap, s, SetValue(s, n, x), Live(s), chain)
<1> DEFINE t == SetValue(s, n, x)
<1>1. s.vals \in [Arena(cap) -> Value \cup {NoValue}] /\ n \in Arena(cap) /\ s.cap = cap
  BY StorageFields
<1>2. t \in Storages(cap)
  BY <1>1 DEF SetValue, Storages
<1>3. /\ t.vals = [s.vals EXCEPT ![n] = x]
      /\ t.prevs = s.prevs /\ t.nexts = s.nexts /\ t.count = s.count
      /\ t.cap = s.cap /\ t.head = s.head /\ t.tail = s.tail
  BY DEF SetValue, Storages
<1> HIDE DEF t
<1>4. Live(t) = Live(s)
  BY <1>1, <1>3, NoValueAssumption DEF Live
<1>5. chain \in Chains(t) /\ Represents(t, chain)
  BY <1>3, <1>4 DEF Chains, Represents
<1>6. Relinks(cap, s, t, Live(s), chain)
  BY <1>2, <1>3, <1>4, <1>5 DEF Relinks
<1> QED BY <1>6 DEF t

(* Growth copies the blocks and adds slots that are not live (grown).      *)
LEMMA GrownRepresents ==
  ASSUME NEW cap \in Nat \ {0}, NEW s \in Storages(cap),
         NEW chain \in Chains(s), Represents(s, chain)
  PROVE  /\ Grown(s) \in Storages(2 * cap)
         /\ Live(Grown(s)) = Live(s)
         /\ chain \in Chains(Grown(s)) /\ Represents(Grown(s), chain)
         /\ \A i \in Arena(cap) : Grown(s).nexts[i] = s.nexts[i]
<1> DEFINE t == Grown(s)
<1>1. /\ s.fresh \in 0 .. cap /\ s.free \in 0 .. cap /\ s.count \in Nat
      /\ s.head \in 0 .. cap /\ s.tail \in 0 .. cap /\ s.cap = cap
  BY StorageFields
<1>2. /\ s.vals \in [Arena(cap) -> Value \cup {NoValue}]
      /\ s.prevs \in [Arena(cap) -> 0 .. cap]
      /\ s.nexts \in [Arena(cap) -> 0 .. cap]
      /\ Live(s) \subseteq Arena(cap)
  BY StorageFields
<1>3. /\ t.vals = GrownBlock(s.vals, cap, NoValue)
      /\ t.prevs = GrownBlock(s.prevs, cap, Nil)
      /\ t.nexts = GrownBlock(s.nexts, cap, Nil)
      /\ t.cap = 2 * cap /\ t.count = s.count /\ t.head = s.head /\ t.tail = s.tail
  BY <1>1 DEF Grown, Storages
<1>4. \A i \in Arena(2 * cap) : (i < cap <=> i \in Arena(cap))
  BY DEF Arena
<1>5. Arena(cap) \subseteq Arena(2 * cap) /\ 0 .. cap \subseteq 0 .. 2 * cap
  BY DEF Arena
<1>6. /\ GrownBlock(s.vals, cap, NoValue) \in [Arena(2 * cap) -> Value \cup {NoValue}]
      /\ \A i \in Arena(cap) : GrownBlock(s.vals, cap, NoValue)[i] = s.vals[i]
      /\ \A i \in Arena(2 * cap) \ Arena(cap) : GrownBlock(s.vals, cap, NoValue)[i] = NoValue
  BY <1>2, <1>4, <1>5 DEF GrownBlock
<1>7. /\ GrownBlock(s.prevs, cap, Nil) \in [Arena(2 * cap) -> 0 .. 2 * cap]
      /\ \A i \in Arena(cap) : GrownBlock(s.prevs, cap, Nil)[i] = s.prevs[i]
  BY <1>2, <1>4, <1>5, LinkFacts DEF GrownBlock
<1>8. /\ GrownBlock(s.nexts, cap, Nil) \in [Arena(2 * cap) -> 0 .. 2 * cap]
      /\ \A i \in Arena(cap) : GrownBlock(s.nexts, cap, Nil)[i] = s.nexts[i]
  BY <1>2, <1>4, <1>5, LinkFacts DEF GrownBlock
<1>9. t \in Storages(2 * cap)
  <2>1. /\ s.fresh \in 0 .. 2 * cap /\ s.free \in 0 .. 2 * cap
        /\ s.head \in 0 .. 2 * cap /\ s.tail \in 0 .. 2 * cap
    BY <1>1, <1>5
  <2> QED BY <2>1, <1>1, <1>6, <1>7, <1>8 DEF Grown, Storages
<1> HIDE DEF t
<1>10. Live(t) = Live(s)
  BY <1>1, <1>3, <1>5, <1>6 DEF Live
<1>11. chain \in Chains(t)
  <2>1. chain \in [0 .. s.count + 1 -> 0 .. cap]
    BY <1>1 DEF Chains
  <2>2. chain \in [0 .. s.count + 1 -> 0 .. 2 * cap]
    BY <2>1, <1>5
  <2> QED BY <2>2, <1>3 DEF Chains
<1>12. Follows(chain, s.count, t.prevs, t.nexts)
  <2>1. \A k \in 1 .. s.count : Slot(chain[k]) \in Arena(cap)
    BY <1>2 DEF Represents, Enumerates
  <2>2. Follows(chain, s.count, s.prevs, s.nexts)
    BY DEF Represents
  <2> QED BY <2>1, <2>2, <1>3, <1>7, <1>8 DEF Follows
<1>13. Represents(t, chain)
  BY <1>3, <1>10, <1>12 DEF Represents
<1> QED BY <1>3, <1>8, <1>9, <1>10, <1>11, <1>13 DEF t

(* Insertion in a fresh slot, in an arena grown if it is full              *)
(* (insert_room, insert_between).                                          *)
LEMMA InsertBetweenRepresents ==
  ASSUME NEW cap \in Nat \ {0}, NEW s \in Storages(cap),
         NEW chain \in Chains(s), Represents(s, chain),
         Live(s) \subseteq Arena(s.fresh),
         NEW k \in 1 .. s.count + 1, NEW x \in Value
  PROVE  LET t == InsertBetween(s, chain[k - 1], chain[k], x)
             c == InsertedChain(chain, s.count, k, Link(s.fresh))
         IN /\ s.fresh < cap => Relinks(cap, s, t, Live(s) \cup {s.fresh}, c)
            /\ ~ (s.fresh < cap) => Relinks(2 * cap, s, t, Live(s) \cup {s.fresh}, c)
            /\ t.fresh = s.fresh + 1 /\ t.free = s.free
<1> DEFINE t == InsertBetween(s, chain[k - 1], chain[k], x)
           c == InsertedChain(chain, s.count, k, Link(s.fresh))
<1>1. /\ s.fresh \in 0 .. cap /\ s.free \in 0 .. cap /\ s.cap = cap
      /\ s.count \in Nat
  BY StorageFields
<1>2. s.fresh \notin Live(s)
  <2>1. s.fresh \notin Arena(s.fresh)
    BY <1>1 DEF Arena
  <2> QED BY <2>1
<1>3. t.fresh = s.fresh + 1 /\ t.free = s.free
  BY DEF InsertBetween, LinkIn
<1>4. CASE s.fresh < cap
  <2>1. t = LinkIn(s, s.fresh, s.fresh + 1, s.free, chain[k - 1], chain[k], x)
    BY <1>1, <1>4 DEF InsertBetween, Roomy
  <2>2. s.fresh \in Arena(cap) /\ s.fresh + 1 \in 0 .. cap
    BY <1>1, <1>4 DEF Arena
  <2>3. PICK n, m, nfree : n = s.fresh /\ m = s.fresh + 1 /\ nfree = s.free
    OBVIOUS
  <2>4. Relinks(cap, s, LinkIn(s, n, m, nfree, chain[k - 1], chain[k], x),
                Live(s) \cup {n}, InsertedChain(chain, s.count, k, Link(n)))
    BY <2>2, <2>3, <1>1, <1>2, LinkInRepresents
  <2>5. Relinks(cap, s, t, Live(s) \cup {s.fresh}, c)
    BY <2>1, <2>3, <2>4
  <2> QED BY <2>5, <1>3, <1>4
<1>5. CASE ~ (s.fresh < cap)
  <2> DEFINE g == Grown(s)
  <2>1. /\ g \in Storages(2 * cap) /\ Live(g) = Live(s)
        /\ chain \in Chains(g) /\ Represents(g, chain)
        /\ \A i \in Arena(cap) : g.nexts[i] = s.nexts[i]
    BY GrownRepresents
  <2>2. g.count = s.count /\ g.cap = 2 * cap /\ g.fresh = s.fresh /\ g.free = s.free
    BY <1>1 DEF Grown, Storages
  <2>3. t = LinkIn(g, s.fresh, s.fresh + 1, s.free, chain[k - 1], chain[k], x)
    BY <1>1, <1>5 DEF InsertBetween, Roomy
  <2>4. /\ s.fresh \in Arena(2 * cap) /\ s.fresh + 1 \in 0 .. 2 * cap
        /\ s.free \in 0 .. 2 * cap /\ 2 * cap \in Nat \ {0}
    BY <1>1, <1>5 DEF Arena
  <2> HIDE DEF g, t
  <2>5. Relinks(2 * cap, g, t, Live(g) \cup {s.fresh}, c)
    <3>1. PICK n, m, nfree, big : n = s.fresh /\ m = s.fresh + 1 /\ nfree = s.free
                                  /\ big = 2 * cap
      OBVIOUS
    <3>2. Relinks(big, g, LinkIn(g, n, m, nfree, chain[k - 1], chain[k], x),
                  Live(g) \cup {n}, InsertedChain(chain, g.count, k, Link(n)))
      BY <2>1, <2>2, <2>4, <3>1, <1>1, <1>2, LinkInRepresents
    <3> QED BY <2>2, <2>3, <3>1, <3>2
  <2>6. Relinks(2 * cap, s, t, Live(s) \cup {s.fresh}, c)
    <3>1. Arena(cap) \subseteq Arena(2 * cap)
      BY DEF Arena
    <3> QED BY <3>1, <2>1, <2>2, <2>5, <1>1 DEF Relinks
  <2> QED BY <2>6, <1>3, <1>5 DEF t
<1> QED BY <1>4, <1>5

-----------------------------------------------------------------------------
(* The elements.                                                           *)

(* An insertion writes its element in one slot, and no other element       *)
(* moves, growth included (link_in, grown).                                *)
LEMMA InsertedElements ==
  ASSUME NEW cap \in Nat \ {0}, NEW s \in Storages(cap), NEW a, NEW b,
         NEW x \in Value
  PROVE  LET t == InsertBetweenFree(s, a, b, x)
             n == NextSlot(s)
         IN /\ t.count = s.count + 1 /\ t.vals[n] = x
            /\ \A i \in Arena(cap) : i # n => t.vals[i] = s.vals[i]
<1> DEFINE t == InsertBetweenFree(s, a, b, x)
           n == NextSlot(s)
<1>1. /\ s.fresh \in 0 .. cap /\ s.free \in 0 .. cap /\ s.cap = cap
      /\ s.vals \in [Arena(cap) -> Value \cup {NoValue}]
  BY StorageFields
<1>2. CASE s.free = Nil /\ s.fresh < cap
  <2>1. t.vals = [s.vals EXCEPT ![n] = x] /\ t.count = s.count + 1 /\ n \in Arena(cap)
    BY <1>1, <1>2 DEF InsertBetweenFree, InsertBetween, Roomy, LinkIn, NextSlot, Arena
  <2> HIDE DEF t, n
  <2> QED BY <2>1, <1>1 DEF t, n
<1>3. CASE s.free = Nil /\ ~ (s.fresh < cap)
  <2> DEFINE v == GrownBlock(s.vals, cap, NoValue)
  <2>1. /\ v \in [Arena(2 * cap) -> Value \cup {NoValue}]
        /\ \A i \in Arena(cap) : v[i] = s.vals[i]
    BY <1>1 DEF GrownBlock, Arena
  <2>2. /\ t.vals = [v EXCEPT ![n] = x] /\ t.count = s.count + 1
        /\ n \in Arena(2 * cap)
    BY <1>1, <1>3 DEF InsertBetweenFree, InsertBetween, Roomy, Grown, LinkIn, NextSlot,
                     Arena, Storages
  <2>3. Arena(cap) \subseteq Arena(2 * cap)
    BY DEF Arena
  <2> HIDE DEF v, t, n
  <2> QED BY <2>1, <2>2, <2>3 DEF t, n
<1>4. CASE s.free # Nil
  <2>1. Slot(s.free) \in Arena(cap)
    BY <1>1, <1>4, LinkFacts
  <2>2. t.vals = [s.vals EXCEPT ![n] = x] /\ t.count = s.count + 1 /\ n \in Arena(cap)
    BY <1>4, <2>1 DEF InsertBetweenFree, LinkIn, NextSlot
  <2> HIDE DEF t, n
  <2> QED BY <2>2, <1>1 DEF t, n
<1> QED BY <1>1, <1>2, <1>3, <1>4

(* A removal takes one element, whether its slot is recycled or retired.   *)
LEMMA RemovedElements ==
  ASSUME NEW cap \in Nat \ {0}, NEW s \in Storages(cap), NEW n \in Arena(cap),
         NEW t, t = Unlinked(s, n) \/ t = RecycleSlot(Unlinked(s, n), n)
  PROVE  /\ t.count = s.count - 1
         /\ \A i \in Arena(cap) : i # n => t.vals[i] = s.vals[i]
<1>1. s.vals \in [Arena(cap) -> Value \cup {NoValue}]
  BY StorageFields
<1>2. t.count = s.count - 1 /\ t.vals = [s.vals EXCEPT ![n] = NoValue]
  BY DEF Unlinked, RecycleSlot, Storages
<1> QED BY <1>1, <1>2

-----------------------------------------------------------------------------
(* Traversal.                                                              *)

(* Each link of the list holds an element.                                 *)
LEMMA ChainHolds ==
  ASSUME NEW s, NEW chain, Represents(s, chain)
  PROVE  \A k \in 1 .. s.count : Holds(s, chain[k])
  BY DEF Represents, Enumerates, Live, Holds

(* The backward walk visits the list's links, from the tail to the head    *)
(* (walk).                                                                 *)
LEMMA WalkIsChain ==
  ASSUME NEW s, s.count \in Nat, NEW chain, Represents(s, chain)
  PROVE  BackwardWalk(s) = [k \in 1 .. s.count |-> chain[k]]
<1> DEFINE F(f) == [k \in 1 .. s.count |->
                     IF k = 1 THEN s.tail
                     ELSE IF Holds(s, f[k - 1]) THEN s.prevs[Slot(f[k - 1])] ELSE Nil]
           w == [k \in 1 .. s.count |-> chain[s.count + 1 - k]]
           at == CHOOSE f : f = F(f)
<1>1. BackwardWalk(s) = [k \in 1 .. s.count |-> at[s.count + 1 - k]]
  BY DEF BackwardWalk
<1>2. /\ s.tail = chain[s.count]
      /\ \A j \in 1 .. s.count : s.prevs[Slot(chain[j])] = chain[j - 1]
      /\ \A j \in 1 .. s.count : Holds(s, chain[j])
  BY ChainHolds DEF Represents, Follows
<1>3. w = F(w)
  <2>1. ASSUME NEW k \in 1 .. s.count
        PROVE  w[k] = IF k = 1 THEN s.tail
                      ELSE IF Holds(s, w[k - 1]) THEN s.prevs[Slot(w[k - 1])] ELSE Nil
    <3>1. CASE k = 1
      BY <3>1, <1>2
    <3>2. CASE k # 1
      <4>1. k - 1 \in 1 .. s.count /\ s.count + 1 - (k - 1) \in 1 .. s.count
        BY <3>2
      <4>2. w[k - 1] = chain[s.count + 1 - (k - 1)]
        BY <4>1
      <4>3. s.count + 1 - (k - 1) - 1 = s.count + 1 - k
        OBVIOUS
      <4> HIDE DEF w
      <4>4. s.prevs[Slot(w[k - 1])] = chain[s.count + 1 - k] /\ Holds(s, w[k - 1])
        BY <4>1, <4>2, <4>3, <1>2
      <4> QED BY <3>2, <4>4 DEF w
    <3> QED BY <3>1, <3>2
  <2> QED BY <2>1
<1>4. at = F(at)
  <2> HIDE DEF F, w
  <2> QED BY <1>3
<1>5. \A k \in 0 .. s.count : k # 0 => at[k] = w[k]
  <2> DEFINE S == {k \in 0 .. s.count : k # 0 => at[k] = w[k]}
  <2>1. 0 \in S
    OBVIOUS
  <2>2. ASSUME NEW k \in 0 .. s.count - 1, k \in S PROVE k + 1 \in S
    <3>1. k + 1 \in 1 .. s.count
      OBVIOUS
    <3>2. at[k + 1] = F(at)[k + 1] /\ w[k + 1] = F(w)[k + 1]
      BY <1>3, <1>4
    <3>3. k # 0 => at[k] = w[k]
      BY <2>2
    <3> HIDE DEF at, w
    <3>4. F(at)[k + 1] = F(w)[k + 1]
      BY <3>1, <3>3
    <3> HIDE DEF F
    <3>5. at[k + 1] = w[k + 1]
      BY <3>2, <3>4
    <3> QED BY <3>1, <3>5
  <2> HIDE DEF S
  <2>3. \A k \in 0 .. s.count : k \in S
    BY <2>1, <2>2, BoundedInduction
  <2> QED BY <2>3 DEF S
<1> HIDE DEF at
<1>6. ASSUME NEW k \in 1 .. s.count PROVE at[s.count + 1 - k] = chain[k]
  <2>1. s.count + 1 - k \in 1 .. s.count /\ s.count + 1 - (s.count + 1 - k) = k
    OBVIOUS
  <2> DEFINE j == s.count + 1 - k
  <2>2. j \in 0 .. s.count /\ j # 0
    BY <2>1
  <2>3. at[j] = w[j]
    <3> HIDE DEF j, w
    <3> QED BY <2>2, <1>5
  <2> QED BY <2>1, <2>3
<1> QED BY <1>1, <1>6

(* to_list returns the elements in list order.                             *)
LEMMA ListIsChain ==
  ASSUME NEW s, s.count \in Nat, NEW chain, Represents(s, chain)
  PROVE  ToList(s) = [k \in 1 .. s.count |-> s.vals[Slot(chain[k])]]
<1> DEFINE c == s.count
           l(k) == BackwardWalk(s)[c + 1 - k]
           v(k) == s.vals[Slot(chain[k])]
           F(f) == [k \in 0 .. c |->
                     IF k = 0 THEN <<>>
                     ELSE IF Holds(s, l(k)) THEN <<s.vals[Slot(l(k))]>> \o f[k - 1]
                                            ELSE f[k - 1]]
           w == [k \in 0 .. c |-> [j \in 1 .. k |-> v(c - k + j)]]
           acc == CHOOSE f : f = F(f)
<1>1. ToList(s) = acc[c]
  BY DEF ToList
<1>2. ASSUME NEW k \in 1 .. c PROVE l(k) = chain[c + 1 - k] /\ Holds(s, l(k))
  <2>1. c + 1 - k \in 1 .. c
    OBVIOUS
  <2> QED BY <2>1, WalkIsChain, ChainHolds
<1>3. ASSUME NEW k \in 1 .. c PROVE w[k] = <<s.vals[Slot(l(k))]>> \o w[k - 1]
  <2> DEFINE t == w[k - 1]
             u == <<v(c + 1 - k)>>
  <2>0. k \in 0 .. c /\ k - 1 \in 0 .. c /\ s.vals[Slot(l(k))] = v(c + 1 - k)
    BY <1>2
  <2> HIDE DEF l, v
  <2>1. t = [j \in 1 .. k - 1 |-> v(c - (k - 1) + j)]
    BY <2>0
  <2>a. w[k] = [j \in 1 .. k |-> v(c - k + j)]
    BY <2>0
  <2> HIDE DEF w, t
  <2>2. Len(t) = k - 1 /\ DOMAIN t = 1 .. k - 1
    BY <2>1
  <2>3. ASSUME NEW j \in 1 .. k PROVE (u \o t)[j] = v(c - k + j)
    <3>1. CASE j = 1
      <4>1. c - k + 1 = c + 1 - k
        OBVIOUS
      <4> QED BY <3>1, <4>1, <2>2
    <3>2. CASE j # 1
      <4>1. j - 1 \in 1 .. k - 1 /\ c - (k - 1) + (j - 1) = c - k + j
        BY <3>2
      <4>2. t[j - 1] = v(c - k + j)
        BY <4>1, <2>1
      <4> QED BY <3>2, <4>1, <4>2, <2>2
    <3> QED BY <3>1, <3>2
  <2>4. u \o t = [j \in 1 .. k |-> v(c - k + j)]
    BY <2>2, <2>3
  <2> QED BY <2>0, <2>a, <2>4 DEF t
<1> HIDE DEF l, v
<1>4. w[0] = <<>> /\ w = [k \in 0 .. c |-> w[k]]
  <2>1. w[0] = [j \in 1 .. 0 |-> v(c - 0 + j)]
    OBVIOUS
  <2>2. 1 .. 0 = {}
    OBVIOUS
  <2> QED BY <2>1, <2>2
<1> HIDE DEF w
<1>5. w = F(w)
  <2>1. ASSUME NEW k \in 0 .. c PROVE w[k] = F(w)[k]
    <3>1. CASE k = 0
      BY <3>1, <1>4
    <3>2. CASE k # 0
      <4>1. k \in 1 .. c
        BY <3>2
      <4>2. Holds(s, l(k)) /\ w[k] = <<s.vals[Slot(l(k))]>> \o w[k - 1]
        BY <4>1, <1>2, <1>3
      <4>3. F(w)[k] = <<s.vals[Slot(l(k))]>> \o w[k - 1]
        BY <3>2, <4>2
      <4> QED BY <4>2, <4>3
    <3> QED BY <3>1, <3>2
  <2> QED BY <2>1, <1>4
<1>6. acc = F(acc)
  <2> HIDE DEF F
  <2> QED BY <1>5
<1> HIDE DEF acc
<1>7. \A k \in 0 .. c : acc[k] = w[k]
  <2> DEFINE S == {k \in 0 .. c : acc[k] = w[k]}
  <2>1. 0 \in S
    BY <1>4, <1>6
  <2>2. ASSUME NEW k \in 0 .. c - 1, k \in S PROVE k + 1 \in S
    <3>1. k + 1 \in 0 .. c /\ k + 1 # 0 /\ k + 1 - 1 = k
      OBVIOUS
    <3>2. F(acc)[k + 1] = F(w)[k + 1]
      BY <3>1, <2>2
    <3> HIDE DEF F
    <3> QED BY <3>1, <3>2, <1>5, <1>6
  <2> HIDE DEF S
  <2>3. \A k \in 0 .. c : k \in S
    BY <2>1, <2>2, BoundedInduction
  <2> QED BY <2>3 DEF S
<1>8. w[c] = [j \in 1 .. c |-> v(j)]
  BY DEF w
<1> QED BY <1>1, <1>7, <1>8 DEF v

-----------------------------------------------------------------------------
(* The stack of recycled slots.                                            *)

(* A step that keeps the stack's slots out of the list, and their links,   *)
(* keeps the stack.                                                        *)
LEMMA StackKept ==
  ASSUME NEW s, NEW t, NEW m \in Nat, NEW stack, stack \in Stacks(s, m),
         Stacked(s, m, stack), s.fresh \in Nat, t.fresh \in Nat, s.fresh <= t.fresh,
         t.free = s.free,
         \A k \in 1 .. m : /\ Slot(stack[k]) \notin Live(t)
                           /\ t.nexts[Slot(stack[k])] = s.nexts[Slot(stack[k])]
  PROVE  stack \in Stacks(t, m) /\ Stacked(t, m, stack)
<1>1. stack \in Stacks(t, m)
  <2>1. 0 .. s.fresh \subseteq 0 .. t.fresh
    OBVIOUS
  <2> QED BY <2>1 DEF Stacks
<1> QED BY <1>1 DEF Stacked

(* Taking the top of the stack leaves the rest of it (ins_free_pop).       *)
LEMMA StackPopped ==
  ASSUME NEW s, NEW t, NEW m \in Nat, NEW stack, stack \in Stacks(s, m),
         Stacked(s, m, stack), s.free # Nil, t.fresh = s.fresh,
         NEW n, n = Slot(s.free), t.free = s.nexts[n],
         NEW rest, rest = [k \in 1 .. m |-> stack[k + 1]],
         \A k \in 2 .. m : /\ Slot(stack[k]) \notin Live(t)
                           /\ t.nexts[Slot(stack[k])] = s.nexts[Slot(stack[k])]
  PROVE  /\ m # 0 /\ m - 1 \in Nat /\ stack[1] = s.free
         /\ rest \in Stacks(t, m - 1) /\ Stacked(t, m - 1, rest)
         /\ \A k \in 1 .. m - 1 : rest[k] = stack[k + 1]
<1>1. /\ stack[1] = s.free /\ stack[m + 1] = Nil
      /\ \A j, k \in 1 .. m : stack[j] = stack[k] => j = k
      /\ \A k \in 1 .. m : stack[k] # Nil /\ s.nexts[Slot(stack[k])] = stack[k + 1]
  BY DEF Stacked
<1>2. m # 0
  BY <1>1
<1>3. m - 1 \in Nat /\ m - 1 + 1 = m
  BY <1>2
<1>4. rest \in Stacks(t, m - 1)
  <2>1. \A k \in 1 .. m : stack[k + 1] \in 0 .. s.fresh
    BY DEF Stacks
  <2> QED BY <2>1, <1>3 DEF Stacks
<1>5. \A k \in 1 .. m : rest[k] = stack[k + 1]
  OBVIOUS
<1>6. t.free = rest[1] /\ rest[m - 1 + 1] = Nil
  BY <1>1, <1>2, <1>3, <1>5
<1>7. \A j, k \in 1 .. m - 1 : rest[j] = rest[k] => j = k
  BY <1>1, <1>5
<1>8. ASSUME NEW k \in 1 .. m - 1
      PROVE  /\ rest[k] # Nil /\ Slot(rest[k]) \notin Live(t)
             /\ t.nexts[Slot(rest[k])] = rest[k + 1]
  <2>1. PICK h \in 2 .. m : h = k + 1
    OBVIOUS
  <2>2. rest[k] = stack[h] /\ rest[k + 1] = stack[h + 1]
    BY <2>1, <1>5
  <2> QED BY <2>2, <1>1
<1>9. Stacked(t, m - 1, rest)
  BY <1>6, <1>7, <1>8 DEF Stacked
<1> QED BY <1>1, <1>2, <1>3, <1>4, <1>5, <1>9

PushedOn(stack, m, l) == [k \in 1 .. m + 2 |-> IF k = 1 THEN l ELSE stack[k - 1]]

\* From s to t: slot n, neither live nor stacked, goes on top of the stack.
Pushes(s, t, m, stack, n) ==
  /\ Link(n) \in 0 .. s.fresh /\ Link(n) # Nil /\ Slot(Link(n)) = n
  /\ n \notin Live(t) /\ \A k \in 1 .. m : stack[k] # Link(n)
  /\ t.fresh = s.fresh /\ t.free = Link(n) /\ t.nexts[n] = s.free
  /\ \A k \in 1 .. m : /\ Slot(stack[k]) \notin Live(t)
                       /\ t.nexts[Slot(stack[k])] = s.nexts[Slot(stack[k])]

(* Pushing a slot that is neither live nor stacked puts it on top          *)
(* (recycle_slot).                                                         *)
LEMMA StackPushed ==
  ASSUME NEW s, NEW t, NEW m \in Nat, NEW stack, stack \in Stacks(s, m),
         Stacked(s, m, stack), NEW n, Pushes(s, t, m, stack, n),
         NEW more, more = PushedOn(stack, m, Link(n))
  PROVE  /\ more \in Stacks(t, m + 1) /\ Stacked(t, m + 1, more)
         /\ more[1] = Link(n)
         /\ \A k \in 1 .. m : more[k + 1] = stack[k]
<1> USE DEF Pushes
<1>1. /\ stack[1] = s.free /\ stack[m + 1] = Nil
      /\ \A j, k \in 1 .. m : stack[j] = stack[k] => j = k
      /\ \A k \in 1 .. m : stack[k] # Nil /\ s.nexts[Slot(stack[k])] = stack[k + 1]
  BY DEF Stacked
<1>2. more \in Stacks(t, m + 1)
  <2>1. \A k \in 1 .. m + 1 : stack[k] \in 0 .. s.fresh
    BY DEF Stacks
  <2>2. \A k \in 1 .. m + 2 : (IF k = 1 THEN Link(n) ELSE stack[k - 1]) \in 0 .. s.fresh
    BY <2>1
  <2>3. m + 1 + 1 = m + 2
    OBVIOUS
  <2> QED BY <2>2, <2>3 DEF Stacks, PushedOn
<1>3. more[1] = Link(n)
  BY DEF PushedOn
<1>4. ASSUME NEW k \in 1 .. m + 1 PROVE more[k + 1] = stack[k]
  <2>1. k + 1 \in 1 .. m + 2 /\ k + 1 # 1 /\ k + 1 - 1 = k
    OBVIOUS
  <2> QED BY <2>1 DEF PushedOn
<1>5. ASSUME NEW k \in 1 .. m + 1
      PROVE  k = 1 \/ \E h \in 1 .. m : k = h + 1 /\ more[k] = stack[h]
  <2>1. CASE k # 1
    <3>1. PICK h \in 1 .. m : k = h + 1
      BY <2>1
    <3> QED BY <3>1, <1>4
  <2> QED BY <2>1
<1>6. \A j, k \in 1 .. m + 1 : more[j] = more[k] => j = k
  BY <1>1, <1>3, <1>5
<1>7. ASSUME NEW k \in 1 .. m + 1
      PROVE  /\ more[k] # Nil /\ Slot(more[k]) \notin Live(t)
             /\ t.nexts[Slot(more[k])] = more[k + 1]
  <2>1. CASE k = 1
    <3>1. more[k + 1] = stack[1]
      BY <2>1, <1>4
    <3> QED BY <2>1, <3>1, <1>1, <1>3
  <2>2. CASE k # 1
    <3>1. PICK h \in 1 .. m : k = h + 1 /\ more[k] = stack[h]
      BY <2>2, <1>5
    <3>2. more[k + 1] = stack[h + 1]
      BY <3>1, <1>4
    <3> QED BY <3>1, <3>2, <1>1
  <2> QED BY <2>1, <2>2
<1>8. more[m + 1 + 1] = Nil
  BY <1>1, <1>4
<1>9. Stacked(t, m + 1, more)
  BY <1>1, <1>3, <1>6, <1>7, <1>8 DEF Stacked
<1> QED BY <1>2, <1>3, <1>4, <1>9

-----------------------------------------------------------------------------
(* The inductive invariant.                                                *)

\* Every handle issued names a slot in use, at its generation or an older one.
IssuedBelow ==
  \A h \in issued : h.id \in Arena(storage.fresh) /\ h.generation <= gens[h.id]

\* The handle of a live slot's generation is issued.
LiveIssued ==
  \A i \in Live(storage) : i \in Arena(storage.fresh) /\ H(i, gens[i]) \in issued

\* The generation of a stacked slot is not issued yet, and a slot that is
\* neither live nor stacked has issued its last one.
Recycles(m, stack) ==
  /\ Stacked(storage, m, stack)
  /\ \A k \in 1 .. m : H(Slot(stack[k]), gens[Slot(stack[k])]) \notin issued
  /\ \A i \in Arena(storage.fresh) \ Live(storage) :
       i \in Exhausted \/ \E k \in 1 .. m : stack[k] = Link(i)

Recycling == \E m \in Nat : \E stack \in Stacks(storage, m) : Recycles(m, stack)

IInv ==
  /\ TypeOK
  /\ storage.fresh <= MaxSlots
  /\ LinksConsistent
  /\ IssuedBelow
  /\ LiveIssued
  /\ Recycling

-----------------------------------------------------------------------------
(* Lemmas.                                                                 *)

(* A handle is its id and its generation.                                  *)
LEMMA HandleFields ==
  /\ \A i, g : H(i, g).id = i /\ H(i, g).generation = g
  /\ \A i \in 0 .. MaxSlots, g \in 0 .. MaxGen : H(i, g) \in Handle
  /\ \A h \in Handle : /\ h = H(h.id, h.generation)
                       /\ h.id \in 0 .. MaxSlots /\ h.generation \in 0 .. MaxGen
<1>1. \A i, g : H(i, g).id = i /\ H(i, g).generation = g
  BY DEF H
<1>2. \A i \in 0 .. MaxSlots, g \in 0 .. MaxGen : H(i, g) \in Handle
  BY DEF H, Handle
<1>3. \A h \in Handle : /\ h = H(h.id, h.generation)
                        /\ h.id \in 0 .. MaxSlots /\ h.generation \in 0 .. MaxGen
  BY DEF H, Handle
<1> QED BY <1>1, <1>2, <1>3

(* Growing the generations keeps those of the slots in use.                *)
LEMMA GrownGensFacts ==
  ASSUME NEW cap \in Nat \ {0}, NEW g \in [Arena(cap) -> 0 .. MaxGen],
         NEW id \in 0 .. cap
  PROVE  /\ GrownGens(g, id) \in [Arena(IF id < cap THEN cap ELSE 2 * cap) -> 0 .. MaxGen]
         /\ \A i \in Arena(cap) : GrownGens(g, id)[i] = g[i]
<1> USE DListAssumption
<1>1. CASE id < cap
  <2>1. id \in Arena(cap)
    BY <1>1 DEF Arena
  <2> QED BY <1>1, <2>1 DEF GrownGens
<1>2. CASE id = cap
  <2>1. id \notin Arena(cap)
    BY <1>2 DEF Arena
  <2>2. \A i \in Arena(2 * cap) : i < cap <=> i \in Arena(cap)
    BY DEF Arena
  <2>3. Arena(cap) \subseteq Arena(2 * cap)
    BY DEF Arena
  <2> QED BY <1>2, <2>1, <2>2, <2>3 DEF GrownGens, GrownBlock
<1> QED BY <1>1, <1>2

(* The free stack has at most as many slots as are in use.                 *)
LEMMA StackBounded ==
  ASSUME NEW s, s.fresh \in Nat, NEW m \in Nat, NEW stack \in Stacks(s, m),
         Stacked(s, m, stack)
  PROVE  m <= s.fresh
<1> DEFINE f == [k \in 1 .. m |-> stack[k]]
<1>1. \A k \in 1 .. m : stack[k] \in 1 .. s.fresh
  BY DEF Stacks, Stacked, Nil
<1>2. f \in Injection(1 .. m, 1 .. s.fresh)
  BY <1>1 DEF Injection, IsInjective, Stacked
<1>3. ASSUME NEW n \in Nat
      PROVE  IsFiniteSet(1 .. n) /\ Cardinality(1 .. n) = n
  <2>1. Cardinality(1 .. n) = IF 1 > n THEN 0 ELSE n - 1 + 1
    BY FS_Interval
  <2>2. IsFiniteSet(1 .. n)
    BY FS_Interval
  <2> QED BY <2>1, <2>2
<1>4. Cardinality(1 .. m) <= Cardinality(1 .. s.fresh)
  BY <1>2, <1>3, FS_Injection
<1> QED BY <1>3, <1>4

-----------------------------------------------------------------------------
(* The properties follow from the invariant.                               *)

(* A slot that is stacked is not exhausted.                                *)
LEMMA StackedNotExhausted ==
  ASSUME IInv, NEW m \in Nat, NEW stack \in Stacks(storage, m), Recycles(m, stack),
         NEW k \in 1 .. m
  PROVE  /\ Slot(stack[k]) \in Arena(storage.fresh)
         /\ Link(Slot(stack[k])) = stack[k]
         /\ Slot(stack[k]) \notin Exhausted
<1> DEFINE i == Slot(stack[k])
<1>1. storage.fresh \in Nat /\ storage.cap \in Nat \ {0} /\ storage.fresh <= storage.cap
  BY StorageFields DEF IInv, TypeOK, IsStorage
<1>2. i \in Arena(storage.fresh) /\ Link(i) = stack[k]
  BY <1>1, LinkFacts DEF Stacks, Recycles, Stacked
<1>3. gens[i] \in 0 .. MaxGen
  <2>1. i \in Arena(storage.cap)
    BY <1>1, <1>2 DEF Arena
  <2> QED BY <2>1 DEF IInv, TypeOK
<1>4. H(i, gens[i]) \notin issued
  BY DEF Recycles
<1>5. H(i, MaxGen) \notin issued
  <2>1. SUFFICES ASSUME H(i, MaxGen) \in issued PROVE FALSE
    OBVIOUS
  <2>2. MaxGen <= gens[i]
    BY <2>1, HandleFields DEF IInv, IssuedBelow
  <2>3. gens[i] = MaxGen
    BY <1>3, <2>2, DListAssumption
  <2> QED BY <2>1, <2>3, <1>4
<1> QED BY <1>2, <1>5 DEF Exhausted

LEMMA IInvImpliesNoSlotLeaks == IInv => NoSlotLeaks
<1> SUFFICES ASSUME IInv PROVE NoSlotLeaks
  OBVIOUS
<1>0. PICK m \in Nat : \E stack \in Stacks(storage, m) : Recycles(m, stack)
  BY DEF IInv, Recycling
<1>1. PICK stack \in Stacks(storage, m) : Recycles(m, stack)
  BY <1>0
<1>2. storage.fresh \in Nat
  BY StorageFields DEF IInv, TypeOK, IsStorage
<1>3. m \in 0 .. storage.fresh
  <2>1. Stacked(storage, m, stack)
    BY <1>1 DEF Recycles
  <2>2. m <= storage.fresh
    BY <1>2, <2>1, StackBounded
  <2> QED BY <1>2, <2>2
<1>4. ASSUME NEW i \in Arena(storage.fresh) \ Live(storage)
      PROVE  i \in Exhausted <=> \A k \in 1 .. m : stack[k] # Link(i)
  <2>1. \A k \in 1 .. m : stack[k] = Link(i) => Slot(stack[k]) = i
    BY <1>2, LinkFacts
  <2>2. \A k \in 1 .. m : Slot(stack[k]) \notin Exhausted
    BY <1>1, StackedNotExhausted
  <2> QED BY <1>1, <2>1, <2>2 DEF Recycles
<1>5. Stacked(storage, m, stack)
  BY <1>1 DEF Recycles
<1> QED BY <1>1, <1>3, <1>4, <1>5 DEF NoSlotLeaks

-----------------------------------------------------------------------------
(* Initialisation.                                                         *)

LEMMA InitIInv == Init => IInv
<1> SUFFICES ASSUME Init PROVE IInv
  OBVIOUS
<1>1. storage = NewStorage /\ gens = [i \in Arena(1) |-> 0] /\ issued = {}
  BY DEF Init
<1>2. Arena(1) = {0}
  BY DEF Arena
<1>3. NewStorage \in Storages(1)
  BY DEF NewStorage, Storages, Nil
<1>4. /\ NewStorage.cap = 1 /\ NewStorage.fresh = 0 /\ NewStorage.count = 0
      /\ NewStorage.head = Nil /\ NewStorage.tail = Nil /\ NewStorage.free = Nil
      /\ NewStorage.vals = [i \in Arena(1) |-> NoValue]
  BY DEF NewStorage
<1>5. TypeOK
  BY <1>1, <1>3, <1>4, DListAssumption DEF TypeOK, IsStorage
<1>6. Live(storage) = {}
  BY <1>1, <1>4 DEF Live
<1>7. LinksConsistent
  <2> DEFINE chain == [j \in 0 .. 1 |-> Nil]
  <2>1. chain \in Chains(storage)
    BY <1>1, <1>4 DEF Chains, Nil
  <2>2. Represents(storage, chain)
    BY <1>1, <1>4, <1>6 DEF Represents, Enumerates, Follows
  <2> QED BY <2>1, <2>2 DEF LinksConsistent
<1>8. Arena(storage.fresh) = {}
  BY <1>1, <1>4 DEF Arena
<1>9. Recycling
  <2> DEFINE stack == [j \in 1 .. 1 |-> Nil]
  <2>1. stack \in Stacks(storage, 0)
    BY <1>1, <1>4 DEF Stacks, Nil
  <2>2. Recycles(0, stack)
    BY <1>1, <1>4, <1>6, <1>8 DEF Recycles, Stacked
  <2> QED BY <2>1, <2>2 DEF Recycling
<1>10. storage.fresh <= MaxSlots
  BY <1>1, <1>4, DListAssumption
<1> QED BY <1>1, <1>5, <1>6, <1>7, <1>9, <1>10 DEF IInv, IssuedBelow, LiveIssued

-----------------------------------------------------------------------------
(* Insertion.                                                              *)

\* What an insertion in slot n does, wherever the slot comes from: the next
\* handle of the slot is new, and the other slots keep their generations.
Fills(n, cap, c) ==
  /\ cap \in Nat \ {0}
  /\ Relinks(cap, storage, storage', Live(storage) \cup {n}, c)
  /\ storage'.fresh \in Nat /\ storage'.fresh >= storage.fresh
  /\ storage'.fresh <= MaxSlots /\ n \in Arena(storage'.fresh)
  /\ gens' \in [Arena(cap) -> 0 .. MaxGen]
  /\ \A i \in Arena(storage.fresh) : gens'[i] = gens[i]
  /\ issued' = issued \cup {H(n, gens'[n])}
  /\ H(n, gens'[n]) \notin issued

LEMMA FillsKeeps ==
  ASSUME IInv, NEW n, NEW cap, NEW c, Fills(n, cap, c)
  PROVE  /\ TypeOK' /\ LinksConsistent' /\ IssuedBelow' /\ LiveIssued'
         /\ H(n, gens'[n]) \in Handle
         /\ \A h \in issued : ~ Valid(h) => ~ Valid(h)'
<1>1. /\ cap \in Nat \ {0} /\ storage' \in Storages(cap)
      /\ Live(storage') = Live(storage) \cup {n}
      /\ c \in Chains(storage') /\ Represents(storage', c)
      /\ storage'.fresh \in Nat /\ storage'.fresh >= storage.fresh
      /\ storage'.fresh <= MaxSlots /\ n \in Arena(storage'.fresh)
  BY DEF Fills, Relinks
<1>2. /\ gens' \in [Arena(cap) -> 0 .. MaxGen]
      /\ \A i \in Arena(storage.fresh) : gens'[i] = gens[i]
      /\ issued' = issued \cup {H(n, gens'[n])}
      /\ H(n, gens'[n]) \notin issued
  BY DEF Fills
<1>3. storage.fresh \in Nat
  BY StorageFields DEF IInv, TypeOK, IsStorage
<1>4. /\ storage'.cap = cap /\ storage'.fresh <= cap
      /\ storage'.vals \in [Arena(cap) -> Value \cup {NoValue}]
      /\ Live(storage') \subseteq Arena(cap)
  BY <1>1, StorageFields
<1>5. /\ n \in Arena(cap) /\ n \in 0 .. MaxSlots
      /\ Arena(storage.fresh) \subseteq Arena(storage'.fresh)
  BY <1>1, <1>3, <1>4, DListAssumption DEF Arena
<1>6. gens'[n] \in 0 .. MaxGen
  BY <1>2, <1>5
<1>7. H(n, gens'[n]) \in Handle
  BY <1>5, <1>6, HandleFields
<1>8. TypeOK'
  <2>1. issued' \subseteq Handle
    BY <1>2, <1>7 DEF IInv, TypeOK
  <2> QED BY <2>1, <1>1, <1>2, <1>4 DEF TypeOK, IsStorage
<1>9. LinksConsistent'
  BY <1>1 DEF LinksConsistent
<1>10. IssuedBelow'
  <2>1. \A h \in issued : /\ h.id \in Arena(storage'.fresh)
                          /\ h.generation <= gens'[h.id]
    BY <1>2, <1>5 DEF IInv, IssuedBelow
  <2>2. /\ H(n, gens'[n]).id \in Arena(storage'.fresh)
        /\ H(n, gens'[n]).generation <= gens'[H(n, gens'[n]).id]
    BY <1>1, <1>6, HandleFields, DListAssumption
  <2> QED BY <2>1, <2>2, <1>2 DEF IssuedBelow
<1>11. LiveIssued'
  <2>1. ASSUME NEW i \in Live(storage)
        PROVE  i \in Arena(storage'.fresh) /\ H(i, gens'[i]) \in issued'
    BY <1>2, <1>5 DEF IInv, LiveIssued
  <2>2. n \in Arena(storage'.fresh) /\ H(n, gens'[n]) \in issued'
    BY <1>1, <1>2
  <2> QED BY <2>1, <2>2, <1>1 DEF LiveIssued
<1>12. ASSUME NEW h \in issued, ~ Valid(h) PROVE ~ Valid(h)'
  <2>1. SUFFICES ASSUME Valid(h)' PROVE FALSE
    OBVIOUS
  <2>2. gens'[h.id] = h.generation /\ storage'.vals[h.id] # NoValue
    BY <2>1 DEF Valid, Readable
  <2>3. /\ h.id \in Arena(storage.fresh) /\ h = H(h.id, h.generation)
    BY HandleFields DEF IInv, TypeOK, IssuedBelow
  <2>4. h.id # n
    BY <1>2, <2>2, <2>3
  <2>5. h.id \in Live(storage')
    BY <2>2, <2>3, <1>1, <1>3, <1>4 DEF Live, Arena
  <2>6. h.id \in Live(storage)
    BY <2>4, <2>5, <1>1
  <2>7. h.id \in DOMAIN gens
    BY <2>6, StorageFields DEF IInv, TypeOK, IsStorage
  <2>8. h.id < storage.fresh
    BY <2>3, <1>3 DEF Arena
  <2>9. storage.vals[h.id] # NoValue
    BY <2>6 DEF Live
  <2> QED BY <2>2, <2>3, <2>7, <2>8, <2>9, <1>2, <1>12 DEF Valid, Readable
<1> QED BY <1>7, <1>8, <1>9, <1>10, <1>11, <1>12

\* x goes between the links a and b; what an insertion does beside answering.
Inserting(a, b, x) ==
  /\ Room
  /\ storage' = InsertBetweenFree(storage, a, b, x)
  /\ gens' = GrownGens(gens, NextSlot(storage))
  /\ issued' = issued \cup {H(NextSlot(storage), gens'[NextSlot(storage)])}

\* x is the k-th element after the step, under a new handle, and the others
\* are those of chain, each under the handle it had.
Inserted(chain, k, x) ==
  LET n == NextSlot(storage)
      c == InsertedChain(chain, storage.count, k, Link(n))
  IN /\ c \in Chains(storage') /\ Represents(storage', c)
     /\ storage'.count = storage.count + 1
     /\ n \in Nat /\ n \notin Live(storage)
     /\ storage'.vals[n] = x
     /\ H(n, gens'[n]) \in Handle \ issued
     /\ \A i \in Live(storage) : storage'.vals[i] = storage.vals[i] /\ gens'[i] = gens[i]

(* An insertion keeps the invariant, opens a slot only when every slot is  *)
(* live or exhausted, and revives no handle.                               *)
LEMMA InsertStep ==
  ASSUME IInv, NEW chain \in Chains(storage), Represents(storage, chain),
         NEW k \in 1 .. storage.count + 1, NEW x \in Value,
         Inserting(chain[k - 1], chain[k], x)
  PROVE  /\ IInv'
         /\ Inserted(chain, k, x)
         /\ storage'.fresh > storage.fresh =>
              Arena(storage.fresh) \subseteq Live(storage) \cup Exhausted
         /\ \A h \in issued : ~ Valid(h) => ~ Valid(h)'
<1> DEFINE cap == storage.cap
<1>1. /\ cap \in Nat \ {0} /\ storage \in Storages(cap)
      /\ storage.fresh \in 0 .. cap /\ storage.free \in 0 .. cap
      /\ storage.count \in Nat
      /\ Live(storage) \subseteq Arena(cap)
      /\ gens \in [Arena(cap) -> 0 .. MaxGen]
  BY StorageFields DEF IInv, TypeOK, IsStorage
<1>2. Live(storage) \subseteq Arena(storage.fresh)
  BY DEF IInv, LiveIssued
<1>3. Arena(storage.fresh) \subseteq Arena(cap) /\ storage.fresh \notin Arena(storage.fresh)
  BY <1>1 DEF Arena
<1>4. PICK m \in Nat : \E stack \in Stacks(storage, m) : Recycles(m, stack)
  BY DEF IInv, Recycling
<1>5. PICK stack \in Stacks(storage, m) : Recycles(m, stack)
  BY <1>4
<1>6. /\ Stacked(storage, m, stack)
      /\ \A j \in 1 .. m : H(Slot(stack[j]), gens[Slot(stack[j])]) \notin issued
      /\ \A i \in Arena(storage.fresh) \ Live(storage) :
           i \in Exhausted \/ \E j \in 1 .. m : stack[j] = Link(i)
  BY <1>5 DEF Recycles
<1>7. \A j \in 1 .. m : /\ Slot(stack[j]) \in Arena(storage.fresh)
                        /\ Link(Slot(stack[j])) = stack[j]
                        /\ Slot(stack[j]) \notin Live(storage)
  BY <1>5, <1>6, StackedNotExhausted DEF Stacked
<1> HIDE DEF cap
<1> DEFINE c == InsertedChain(chain, storage.count, k, Link(NextSlot(storage)))
<1> HIDE DEF c
<1>a. ASSUME NEW d, Fills(NextSlot(storage), d, c), NextSlot(storage) \in Nat,
             NextSlot(storage) \notin Live(storage)
      PROVE  Inserted(chain, k, x)
  <2> DEFINE n == NextSlot(storage)
  <2>1. H(n, gens'[n]) \in Handle \ issued
    BY <1>a, FillsKeeps DEF Fills
  <2>2. /\ storage'.count = storage.count + 1 /\ storage'.vals[n] = x
        /\ \A i \in Arena(cap) : i # n => storage'.vals[i] = storage.vals[i]
    BY <1>1, InsertedElements DEF Inserting
  <2>3. \A i \in Live(storage) : storage'.vals[i] = storage.vals[i] /\ gens'[i] = gens[i]
    BY <1>a, <1>1, <1>2, <2>2 DEF Fills
  <2>4. c \in Chains(storage') /\ Represents(storage', c)
    BY <1>a DEF Fills, Relinks
  <2> HIDE DEF n
  <2> QED BY <1>a, <2>1, <2>2, <2>3, <2>4 DEF Inserted, n, c
<1>8. CASE storage.free = Nil
  <2> DEFINE n == storage.fresh
             d == IF storage.fresh < cap THEN cap ELSE 2 * cap
  <2>0. NextSlot(storage) = n /\ c = InsertedChain(chain, storage.count, k, Link(n))
    BY <1>8 DEF NextSlot, c
  <2>1. /\ storage' = InsertBetween(storage, chain[k - 1], chain[k], x)
        /\ gens' = GrownGens(gens, n) /\ issued' = issued \cup {H(n, gens'[n])}
        /\ n < MaxSlots
    BY <1>8 DEF Inserting, InsertBetweenFree, NextSlot, Room
  <2>2. /\ Relinks(d, storage, storage', Live(storage) \cup {n}, c)
        /\ storage'.fresh = n + 1 /\ storage'.free = storage.free
    <3>1. /\ n < cap => Relinks(cap, storage, storage', Live(storage) \cup {n}, c)
          /\ ~ (n < cap) => Relinks(2 * cap, storage, storage', Live(storage) \cup {n}, c)
          /\ storage'.fresh = n + 1 /\ storage'.free = storage.free
      BY <2>0, <2>1, <1>1, <1>2, InsertBetweenRepresents
    <3> QED BY <3>1
  <2>3. /\ gens' \in [Arena(d) -> 0 .. MaxGen]
        /\ \A i \in Arena(cap) : gens'[i] = gens[i]
    BY <2>1, <1>1, GrownGensFacts
  <2>4. d \in Nat \ {0} /\ n \in Arena(n + 1)
    BY <1>1 DEF Arena
  <2>5. H(n, gens'[n]) \notin issued
    BY <1>3, HandleFields DEF IInv, IssuedBelow
  <2> HIDE DEF d
  <2>6. Fills(n, d, c)
    BY <2>1, <2>2, <2>3, <2>4, <2>5, <1>1, <1>3, DListAssumption DEF Fills
  <2>7. m = 0
    <3>1. m # 0 => 1 \in 1 .. m
      OBVIOUS
    <3> QED BY <3>1, <1>6, <1>8 DEF Stacked
  <2>8. Arena(storage.fresh) \subseteq Live(storage) \cup Exhausted
    BY <2>7, <1>6
  <2>9. Recycling'
    <3>1. stack \in Stacks(storage', m) /\ Stacked(storage', m, stack)
      BY <2>2, <2>7, <1>1, <1>6, StackKept
    <3>2. Arena(n + 1) \subseteq Arena(n) \cup {n}
      BY <1>1 DEF Arena
    <3>3. Arena(storage'.fresh) \ Live(storage') \subseteq Exhausted'
      <4>1. Live(storage') = Live(storage) \cup {n}
        BY <2>2 DEF Relinks
      <4>2. Exhausted \subseteq Exhausted'
        <5>1. Arena(n) \subseteq Arena(n + 1)
          BY <1>1 DEF Arena
        <5> QED BY <5>1, <2>1, <2>2 DEF Exhausted
      <4> QED BY <4>1, <4>2, <3>2, <2>2, <2>8
    <3>4. Recycles(m, stack)'
      BY <3>1, <3>3, <2>7 DEF Recycles
    <3> QED BY <3>1, <3>4 DEF Recycling
  <2>10. storage'.fresh <= MaxSlots
    BY <2>6 DEF Fills
  <2>11. Inserted(chain, k, x)
    BY <2>0, <2>6, <1>1, <1>2, <1>3, <1>a
  <2> QED BY <2>6, <2>8, <2>9, <2>10, <2>11, FillsKeeps DEF IInv
<1>9. CASE storage.free # Nil
  <2> DEFINE n == Slot(storage.free)
             rest == [j \in 1 .. m |-> stack[j + 1]]
  <2>0. NextSlot(storage) = n /\ c = InsertedChain(chain, storage.count, k, Link(n))
    BY <1>9 DEF NextSlot, c
  <2>1. n \in Arena(cap)
    BY <1>1, <1>9, LinkFacts
  <2>2. /\ storage' = LinkIn(storage, n, storage.fresh, storage.nexts[n],
                            chain[k - 1], chain[k], x)
        /\ gens' = gens /\ issued' = issued \cup {H(n, gens'[n])}
    BY <1>1, <1>9, <2>1 DEF Inserting, InsertBetweenFree, NextSlot, GrownGens
  <2>3. stack[1] = storage.free /\ m # 0 /\ 1 \in 1 .. m
    BY <1>6, <1>9 DEF Stacked
  <2>4. n \in Arena(storage.fresh) /\ n \notin Live(storage) /\ H(n, gens[n]) \notin issued
    BY <2>3, <1>6, <1>7
  <2>5. storage.nexts[n] \in 0 .. cap
    BY <2>1, <1>1, StorageFields
  <2>6. Relinks(cap, storage, storage', Live(storage) \cup {n}, c)
    BY <2>0, <1>1, <2>1, <2>2, <2>4, <2>5, LinkInRepresents
  <2>7. storage'.fresh = storage.fresh /\ storage'.free = storage.nexts[n]
    BY <2>2 DEF LinkIn
  <2>8. Fills(n, cap, c)
    <3>1. storage.fresh <= MaxSlots
      BY DEF IInv
    <3> QED BY <3>1, <2>2, <2>4, <2>6, <2>7, <1>1 DEF Fills
  <2> HIDE DEF n, rest
  <2>9. Live(storage') = Live(storage) \cup {n}
    BY <2>6 DEF Relinks
  <2>10. \A j \in 2 .. m : /\ Slot(stack[j]) \notin Live(storage')
                           /\ storage'.nexts[Slot(stack[j])] = storage.nexts[Slot(stack[j])]
    <3>1. ASSUME NEW j \in 2 .. m PROVE Slot(stack[j]) \in Arena(cap) \ Live(storage')
      <4>1. j \in 1 .. m /\ j # 1
        OBVIOUS
      <4>2. stack[j] # stack[1]
        BY <4>1, <2>3, <1>6 DEF Stacked
      <4>3. Slot(stack[j]) # n
        BY <4>1, <4>2, <2>3, <1>7 DEF n
      <4> QED BY <4>1, <4>3, <2>9, <1>3, <1>7
    <3> QED BY <3>1, <2>6, <2>9 DEF Relinks, cap
  <2>11. /\ m - 1 \in Nat /\ rest \in Stacks(storage', m - 1)
         /\ Stacked(storage', m - 1, rest)
         /\ \A j \in 1 .. m - 1 : rest[j] = stack[j + 1]
    BY <1>6, <1>9, <2>7, <2>10, StackPopped DEF n, rest
  <2>12. ASSUME NEW j \in 1 .. m - 1
         PROVE  H(Slot(rest[j]), gens'[Slot(rest[j])]) \notin issued'
    <3>1. PICK h \in 2 .. m : h = j + 1
      OBVIOUS
    <3>2. rest[j] = stack[h] /\ h \in 1 .. m
      BY <3>1, <2>11
    <3>3. Slot(stack[h]) # n
      BY <2>9, <2>10
    <3>4. H(Slot(stack[h]), gens[Slot(stack[h])]) # H(n, gens'[n])
      BY <3>3, HandleFields
    <3> QED BY <3>2, <3>4, <1>6, <2>2
  <2>13. ASSUME NEW i \in Arena(storage'.fresh) \ Live(storage')
         PROVE  i \in Exhausted' \/ \E j \in 1 .. m - 1 : rest[j] = Link(i)
    <3>1. i \in Arena(storage.fresh) \ Live(storage) /\ i # n
      BY <2>7, <2>9
    <3>2. CASE i \in Exhausted
      BY <3>2, <2>2, <2>7 DEF Exhausted
    <3>3. CASE i \notin Exhausted
      <4>1. PICK j \in 1 .. m : stack[j] = Link(i)
        BY <3>1, <3>3, <1>6
      <4>2. j # 1
        <5>1. Slot(Link(i)) = i
          BY <3>1, <1>1, LinkFacts
        <5> QED BY <5>1, <4>1, <3>1, <2>3 DEF n
      <4>3. PICK h \in 1 .. m - 1 : h + 1 = j
        BY <4>2
      <4>4. rest[h] = Link(i)
        BY <4>1, <4>3, <2>11
      <4> QED BY <4>4
    <3> QED BY <3>2, <3>3
  <2>14. Recycling'
    <3>1. Recycles(m - 1, rest)'
      BY <2>11, <2>12, <2>13 DEF Recycles
    <3> QED BY <3>1, <2>11 DEF Recycling
  <2>15. storage'.fresh <= MaxSlots /\ ~ (storage'.fresh > storage.fresh)
    BY <1>1, <2>7 DEF IInv
  <2>16. Inserted(chain, k, x)
    <3>1. n \in Nat
      BY <2>1, <1>1 DEF Arena
    <3> QED BY <3>1, <2>0, <2>4, <2>8, <1>a DEF n
  <2> QED BY <2>8, <2>14, <2>15, <2>16, FillsKeeps DEF IInv
<1> QED BY <1>8, <1>9

-----------------------------------------------------------------------------
(* The other operations.                                                   *)

(* A valid handle names a live slot in use, under its generation.          *)
LEMMA ValidFacts ==
  ASSUME IInv, NEW h \in Handle, Valid(h)
  PROVE  /\ h.id \in Live(storage) /\ h.id \in Arena(storage.fresh)
         /\ h.id \in Arena(storage.cap) /\ gens[h.id] = h.generation
         /\ h.generation \in 0 .. MaxGen /\ h = H(h.id, h.generation)
         /\ h \in issued
<1>1. /\ gens \in [Arena(storage.cap) -> 0 .. MaxGen]
      /\ storage.cap \in Nat /\ storage.fresh \in Nat
  BY StorageFields DEF IInv, TypeOK, IsStorage
<1>2. /\ h.id \in DOMAIN gens /\ gens[h.id] = h.generation
      /\ h.id < storage.fresh /\ storage.vals[h.id] # NoValue
  BY DEF Valid, Readable
<1>3. h.id \in Live(storage) /\ h.id \in Arena(storage.cap)
  BY <1>1, <1>2 DEF Live
<1>4. h.id \in Arena(storage.fresh) /\ H(h.id, gens[h.id]) \in issued
  BY <1>3 DEF IInv, LiveIssued
<1> QED BY <1>2, <1>3, <1>4, HandleFields

\* What a step that fills no slot does to the list, to the generations and
\* to the handles.
Thins(live, c) ==
  /\ Relinks(storage.cap, storage, storage', live, c)
  /\ live \subseteq Live(storage)
  /\ storage'.fresh = storage.fresh
  /\ gens' \in [Arena(storage.cap) -> 0 .. MaxGen]
  /\ \A i \in live : gens'[i] = gens[i]
  /\ \A i \in Arena(storage.fresh) : gens'[i] >= gens[i]
  /\ issued' = issued

LEMMA ThinsKeeps ==
  ASSUME IInv, NEW live, NEW c, Thins(live, c)
  PROVE  /\ TypeOK' /\ storage'.fresh <= MaxSlots
         /\ LinksConsistent' /\ IssuedBelow' /\ LiveIssued'
         /\ \A h \in issued : ~ Valid(h) => ~ Valid(h)'
<1>1. /\ storage.cap \in Nat \ {0} /\ storage' \in Storages(storage.cap)
      /\ Live(storage') = live /\ live \subseteq Live(storage)
      /\ c \in Chains(storage') /\ Represents(storage', c)
      /\ storage'.fresh = storage.fresh
  BY DEF Thins, Relinks, IInv, TypeOK, IsStorage
<1>2. /\ gens' \in [Arena(storage.cap) -> 0 .. MaxGen]
      /\ \A i \in live : gens'[i] = gens[i]
      /\ \A i \in Arena(storage.fresh) : gens'[i] >= gens[i]
      /\ issued' = issued
  BY DEF Thins
<1>3. storage'.cap = storage.cap
  BY <1>1, StorageFields
<1>4. TypeOK'
  BY <1>1, <1>2, <1>3 DEF IInv, TypeOK, IsStorage
<1>5. LinksConsistent' /\ storage'.fresh <= MaxSlots
  BY <1>1 DEF LinksConsistent, IInv
<1>6. IssuedBelow'
  <2>1. ASSUME NEW h \in issued
        PROVE  h.id \in Arena(storage'.fresh) /\ h.generation <= gens'[h.id]
    <3>1. h.id \in Arena(storage.fresh) /\ h.generation <= gens[h.id]
      BY DEF IInv, IssuedBelow
    <3>2. h.generation \in 0 .. MaxGen
      BY HandleFields DEF IInv, TypeOK
    <3>3. Arena(storage.fresh) \subseteq Arena(storage.cap)
      BY StorageFields DEF IInv, TypeOK, IsStorage, Arena
    <3>4. gens[h.id] \in 0 .. MaxGen /\ gens'[h.id] \in 0 .. MaxGen
      BY <3>1, <3>3, <1>2 DEF IInv, TypeOK
    <3>5. gens'[h.id] >= gens[h.id]
      BY <3>1, <1>2
    <3>6. h.generation <= gens'[h.id]
      <4> HIDE DEF Handle
      <4> QED BY <3>1, <3>2, <3>4, <3>5, DListAssumption
    <3> QED BY <3>1, <3>6, <1>1
  <2> QED BY <2>1, <1>2 DEF IssuedBelow
<1>7. LiveIssued'
  BY <1>1, <1>2 DEF IInv, LiveIssued
<1>8. ASSUME NEW h \in issued, Valid(h)' PROVE Valid(h)
  <2>1. /\ h.id \in DOMAIN gens' /\ gens'[h.id] = h.generation
        /\ h.id < storage'.fresh /\ storage'.vals[h.id] # NoValue
    BY <1>8 DEF Valid, Readable
  <2>2. h.id \in live
    BY <2>1, <1>1, <1>2, <1>3 DEF Live
  <2>3. storage.vals[h.id] # NoValue
    BY <2>2, <1>1 DEF Live
  <2>4. h.id \in DOMAIN gens
    BY <2>1, <1>2 DEF IInv, TypeOK
  <2> QED BY <2>1, <2>2, <2>3, <2>4, <1>1, <1>2 DEF Valid, Readable
<1> QED BY <1>4, <1>5, <1>6, <1>7, <1>8

\* The element at slot n goes; what a removal does beside answering.
Removing(n) ==
  /\ storage' = RemovedStorage(storage, n, gens[n])
  /\ gens' = RemovedGens(gens, n, gens[n])
  /\ issued' = issued

\* The k-th element of chain, in slot n, is gone after the step, and the
\* others are those of chain, each under the handle it had.
Dropped(chain, k, n) ==
  /\ RemovedChain(chain, storage.count, k) \in Chains(storage')
  /\ Represents(storage', RemovedChain(chain, storage.count, k))
  /\ storage'.count = storage.count - 1
  /\ \A i \in Live(storage) \ {n} :
       storage'.vals[i] = storage.vals[i] /\ gens'[i] = gens[i]

(* A removal keeps the invariant and revives no handle.                    *)
LEMMA RemoveStep ==
  ASSUME IInv, NEW chain \in Chains(storage), Represents(storage, chain),
         NEW at \in 1 .. storage.count, NEW n \in Live(storage), chain[at] = Link(n),
         Removing(n)
  PROVE  /\ IInv' /\ storage'.fresh = storage.fresh
         /\ Dropped(chain, at, n)
         /\ \A h \in issued : ~ Valid(h) => ~ Valid(h)'
<1> DEFINE generation == gens[n]
           cap == storage.cap
           u == Unlinked(storage, n)
           c == RemovedChain(chain, storage.count, at)
<1>1. /\ storage' = RemovedStorage(storage, n, generation)
      /\ gens' = RemovedGens(gens, n, generation) /\ issued' = issued
  BY DEF Removing
<1>2. /\ n \in Live(storage) /\ n \in Arena(storage.fresh) /\ n \in Arena(cap)
      /\ gens[n] = generation /\ generation \in 0 .. MaxGen
      /\ H(n, generation) \in issued
  BY StorageFields DEF IInv, TypeOK, IsStorage, LiveIssued
<1>3. /\ cap \in Nat \ {0} /\ storage \in Storages(cap)
      /\ storage.fresh \in 0 .. cap
      /\ gens \in [Arena(cap) -> 0 .. MaxGen]
  BY StorageFields DEF IInv, TypeOK, IsStorage
<1>5. Relinks(cap, storage, u, Live(storage) \ {n}, c)
  BY <1>2, <1>3, UnlinkedRepresents
<1>6. u.fresh = storage.fresh /\ u.free = storage.free
  BY <1>3 DEF Unlinked, Storages
<1>7. PICK m \in Nat : \E stack \in Stacks(storage, m) : Recycles(m, stack)
  BY DEF IInv, Recycling
<1>8. PICK stack \in Stacks(storage, m) : Recycles(m, stack)
  BY <1>7
<1>9. /\ Stacked(storage, m, stack)
      /\ \A k \in 1 .. m : H(Slot(stack[k]), gens[Slot(stack[k])]) \notin issued
      /\ \A i \in Arena(storage.fresh) \ Live(storage) :
           i \in Exhausted \/ \E k \in 1 .. m : stack[k] = Link(i)
  BY <1>8 DEF Recycles
<1>10. Arena(storage.fresh) \subseteq Arena(cap)
  BY <1>3 DEF Arena
<1>11. \A k \in 1 .. m : /\ Slot(stack[k]) \in Arena(cap)
                         /\ Slot(stack[k]) \notin Live(storage)
                         /\ Slot(stack[k]) # n
  BY <1>2, <1>8, <1>9, <1>10, StackedNotExhausted DEF Stacked
<1> HIDE DEF cap, u, c, generation
<1>12. /\ Live(u) = Live(storage) \ {n} /\ u \in Storages(cap)
       /\ \A k \in 1 .. m : /\ Slot(stack[k]) \notin Live(u)
                            /\ u.nexts[Slot(stack[k])] = storage.nexts[Slot(stack[k])]
  BY <1>5, <1>11 DEF Relinks, cap
<1>d. ASSUME Thins(Live(storage) \ {n}, c) PROVE Dropped(chain, at, n)
  <2>1. storage' = u \/ storage' = RecycleSlot(u, n)
    BY <1>1 DEF RemovedStorage, u
  <2>2. /\ storage'.count = storage.count - 1
        /\ \A i \in Arena(cap) : i # n => storage'.vals[i] = storage.vals[i]
    BY <2>1, <1>2, <1>3, RemovedElements DEF u
  <2>3. Live(storage) \subseteq Arena(cap)
    BY <1>3, StorageFields
  <2>4. /\ c \in Chains(storage') /\ Represents(storage', c)
        /\ \A i \in Live(storage) \ {n} : gens'[i] = gens[i]
    BY <1>d DEF Thins, Relinks
  <2> QED BY <2>2, <2>3, <2>4 DEF Dropped, c
<1>13. CASE Retired(generation)
  <2>1. storage' = u /\ gens' = gens /\ generation = MaxGen
    BY <1>1, <1>13 DEF RemovedStorage, RemovedGens, Retired, u
  <2>2. Thins(Live(storage) \ {n}, c)
    <3>1. \A i \in Arena(storage.fresh) : gens[i] >= gens[i]
      BY <1>3, <1>10, DListAssumption
    <3> QED BY <2>1, <3>1, <1>1, <1>3, <1>5, <1>6 DEF Thins, cap
  <2>3. stack \in Stacks(storage', m) /\ Stacked(storage', m, stack)
    BY <2>1, <1>3, <1>6, <1>9, <1>12, StackKept
  <2>4. Exhausted' = Exhausted /\ n \in Exhausted
    BY <2>1, <1>1, <1>2, <1>6 DEF Exhausted
  <2>5. Recycling'
    <3>1. Recycles(m, stack)'
      BY <2>1, <2>3, <2>4, <1>1, <1>6, <1>9, <1>12 DEF Recycles
    <3> QED BY <2>3, <3>1 DEF Recycling
  <2> QED BY <2>1, <2>2, <2>5, <1>6, <1>d, ThinsKeeps DEF IInv
<1>14. CASE ~ Retired(generation)
  <2> DEFINE more == PushedOn(stack, m, Link(n))
  <2>1. /\ storage' = RecycleSlot(u, n)
        /\ gens' = [gens EXCEPT ![n] = generation + 1]
        /\ generation + 1 \in 0 .. MaxGen
    BY <1>1, <1>2, <1>14, DListAssumption DEF RemovedStorage, RemovedGens, Retired, u
  <2>2. /\ storage'.fresh = storage.fresh /\ storage'.free = Link(n)
        /\ storage'.nexts = [u.nexts EXCEPT ![n] = storage.free]
    BY <2>1, <1>6, <1>12 DEF RecycleSlot, Storages
  <2>3. /\ u.nexts \in [Arena(cap) -> 0 .. cap] /\ n \notin Live(u)
    BY <1>12, <1>3, StorageFields
  <2>4. /\ storage'.nexts[n] = storage.free
        /\ \A i \in Arena(cap) : i # n => storage'.nexts[i] = u.nexts[i]
    BY <2>2, <2>3, <1>2 DEF cap
  <2>5. c \in Chains(u) /\ Represents(u, c)
    BY <1>5 DEF Relinks
  <2>6. /\ storage' \in Storages(cap) /\ Live(storage') = Live(u)
        /\ c \in Chains(storage') /\ Represents(storage', c)
    BY <2>1, <2>3, <2>5, <1>2, <1>3, <1>12, RecycledRepresents DEF cap
  <2>7. /\ gens' \in [Arena(cap) -> 0 .. MaxGen] /\ gens'[n] = generation + 1
        /\ \A i \in Arena(cap) : i # n => gens'[i] = gens[i]
    BY <2>1, <1>2, <1>3 DEF cap
  <2> HIDE DEF more
  <2>8. Thins(Live(storage) \ {n}, c)
    <3>1. Relinks(cap, storage, storage', Live(storage) \ {n}, c)
      <4>1. \A i \in Arena(storage.cap) \ Live(storage) : storage'.nexts[i] = storage.nexts[i]
        BY <2>4, <1>2, <1>5 DEF Relinks, cap
      <4> QED BY <4>1, <2>6, <1>12 DEF Relinks
    <3>2. Live(storage) \subseteq Arena(cap)
      BY <1>3, StorageFields
    <3>3. ASSUME NEW i \in Arena(storage.fresh) PROVE gens'[i] >= gens[i]
      <4>1. i \in Arena(cap) /\ gens[i] \in 0 .. MaxGen
        BY <1>3, <1>10
      <4>2. CASE i = n  BY <4>2, <2>7, <1>2, DListAssumption
      <4>3. CASE i # n  BY <4>1, <4>3, <2>7, DListAssumption
      <4> QED BY <4>2, <4>3
    <3> QED BY <3>1, <3>2, <3>3, <2>2, <2>7, <1>1 DEF Thins, cap
  <2>9. /\ more \in Stacks(storage', m + 1) /\ Stacked(storage', m + 1, more)
        /\ more[1] = Link(n) /\ \A k \in 1 .. m : more[k + 1] = stack[k]
    <3>1. Link(n) \in 0 .. storage.fresh /\ Link(n) # Nil /\ Slot(Link(n)) = n
      BY <1>2, <1>3, LinkFacts
    <3>2. \A k \in 1 .. m : stack[k] # Link(n)
      BY <3>1, <1>11
    <3>3. \A k \in 1 .. m :
            /\ Slot(stack[k]) \notin Live(storage')
            /\ storage'.nexts[Slot(stack[k])] = storage.nexts[Slot(stack[k])]
      BY <2>4, <2>6, <1>11, <1>12
    <3>4. n \notin Live(storage')
      BY <2>3, <2>6
    <3>5. Pushes(storage, storage', m, stack, n)
      BY <3>1, <3>2, <3>3, <3>4, <2>2, <2>4 DEF Pushes
    <3> QED BY <3>5, <1>9, StackPushed DEF more
  <2>10. ASSUME NEW k \in 1 .. m + 1
         PROVE  H(Slot(more[k]), gens'[Slot(more[k])]) \notin issued'
    <3>1. CASE k = 1
      <4>1. Slot(more[k]) = n
        BY <3>1, <2>9, <1>2, <1>3, LinkFacts
      <4>2. H(n, generation + 1) \notin issued
        <5>1. gens[n] = generation /\ ~ (generation + 1 <= generation)
          BY <1>2, DListAssumption
        <5> QED BY <5>1, HandleFields DEF IInv, IssuedBelow
      <4> QED BY <4>1, <4>2, <2>7, <1>1
    <3>2. CASE k # 1
      <4>1. PICK j \in 1 .. m : k = j + 1
        BY <3>2
      <4>2. more[k] = stack[j]
        BY <4>1, <2>9
      <4> QED BY <4>2, <2>7, <1>1, <1>9, <1>11
    <3> QED BY <3>1, <3>2
  <2>11. ASSUME NEW i \in Arena(storage'.fresh) \ Live(storage')
         PROVE  i \in Exhausted' \/ \E k \in 1 .. m + 1 : more[k] = Link(i)
    <3>1. CASE i = n
      <4>1. 1 \in 1 .. m + 1
        OBVIOUS
      <4> QED BY <4>1, <3>1, <2>9
    <3>2. CASE i # n
      <4>1. i \in Arena(storage.fresh) \ Live(storage)
        BY <3>2, <2>2, <2>6, <1>12
      <4>2. CASE i \in Exhausted
        BY <4>2, <2>2, <1>1 DEF Exhausted
      <4>3. CASE \E k \in 1 .. m : stack[k] = Link(i)
        <5>1. PICK k \in 1 .. m : stack[k] = Link(i)
          BY <4>3
        <5>2. PICK j \in 1 .. m + 1 : j = k + 1
          OBVIOUS
        <5>3. more[j] = Link(i)
          BY <5>1, <5>2, <2>9
        <5> QED BY <5>3
      <4> QED BY <4>1, <4>2, <4>3, <1>9
    <3> QED BY <3>1, <3>2
  <2>12. Recycling'
    <3>1. Recycles(m + 1, more)'
      BY <2>9, <2>10, <2>11 DEF Recycles
    <3>2. m + 1 \in Nat
      OBVIOUS
    <3> QED BY <3>1, <3>2, <2>9 DEF Recycling
  <2> QED BY <2>2, <2>8, <2>12, <1>d, ThinsKeeps DEF IInv
<1> QED BY <1>13, <1>14

\* x is written at slot n; what setting an element does beside answering.
Writing(n, x) ==
  /\ storage' = SetValue(storage, n, x)
  /\ gens' = gens /\ issued' = issued

\* The element in slot n is x after the step, and the list is chain still.
Overwritten(chain, n, x) ==
  /\ chain \in Chains(storage') /\ Represents(storage', chain)
  /\ storage'.count = storage.count
  /\ storage'.vals[n] = x
  /\ \A i \in Live(storage) \ {n} : storage'.vals[i] = storage.vals[i]
  /\ gens' = gens

(* Writing an element keeps the invariant and revives no handle.           *)
LEMMA SetStep ==
  ASSUME IInv, NEW chain \in Chains(storage), Represents(storage, chain),
         NEW n \in Live(storage), NEW x \in Value, Writing(n, x)
  PROVE  /\ IInv' /\ storage'.fresh = storage.fresh
         /\ Overwritten(chain, n, x)
         /\ \A h \in issued : ~ Valid(h) => ~ Valid(h)'
<1>1. storage' = SetValue(storage, n, x) /\ gens' = gens /\ issued' = issued
  BY DEF Writing
<1>3. /\ storage.cap \in Nat \ {0} /\ storage \in Storages(storage.cap)
      /\ storage.fresh \in 0 .. storage.cap
      /\ gens \in [Arena(storage.cap) -> 0 .. MaxGen]
  BY StorageFields DEF IInv, TypeOK, IsStorage
<1>5. Relinks(storage.cap, storage, storage', Live(storage), chain)
  BY <1>1, <1>3, SetValueRepresents
<1>6. /\ storage'.fresh = storage.fresh /\ storage'.free = storage.free
      /\ storage'.nexts = storage.nexts
  BY <1>1, <1>3 DEF SetValue, Storages
<1>7. Thins(Live(storage), chain)
  <2>1. \A i \in Arena(storage.fresh) : gens[i] >= gens[i]
    <3>1. Arena(storage.fresh) \subseteq Arena(storage.cap)
      BY <1>3 DEF Arena
    <3> QED BY <3>1, <1>3, DListAssumption
  <2>2. \A i \in Live(storage) : gens'[i] = gens[i]
    BY <1>1
  <2> QED BY <2>1, <2>2, <1>1, <1>3, <1>5, <1>6 DEF Thins
<1>8. PICK m \in Nat : \E stack \in Stacks(storage, m) : Recycles(m, stack)
  BY DEF IInv, Recycling
<1>9. PICK stack \in Stacks(storage, m) : Recycles(m, stack)
  BY <1>8
<1>10. Live(storage') = Live(storage) /\ Exhausted' = Exhausted
  BY <1>1, <1>5, <1>6 DEF Relinks, Exhausted
<1>11. Recycling'
  <2>1. stack \in Stacks(storage', m)
    BY <1>6 DEF Stacks
  <2>2. Stacked(storage', m, stack)
    BY <1>6, <1>9, <1>10 DEF Stacked, Recycles
  <2>3. Recycles(m, stack)'
    BY <2>2, <1>1, <1>6, <1>9, <1>10 DEF Recycles
  <2> QED BY <2>1, <2>3 DEF Recycling
<1>12. Overwritten(chain, n, x)
  <2>1. /\ storage.vals \in [Arena(storage.cap) -> Value \cup {NoValue}]
        /\ Live(storage) \subseteq Arena(storage.cap)
    BY <1>3, StorageFields
  <2>2. /\ storage'.count = storage.count
        /\ storage'.vals = [storage.vals EXCEPT ![n] = x]
    BY <1>1, <1>3 DEF SetValue, Storages
  <2>3. chain \in Chains(storage') /\ Represents(storage', chain)
    BY <1>5 DEF Relinks
  <2> QED BY <2>1, <2>2, <2>3, <1>1 DEF Overwritten
<1> QED BY <1>6, <1>7, <1>11, <1>12, ThinsKeeps DEF IInv

(* A call that leaves the list alone keeps the invariant.                  *)
LEMMA ReadStep ==
  ASSUME IInv, UNCHANGED <<storage, gens, issued>>
  PROVE  IInv' /\ storage'.fresh = storage.fresh
         /\ \A g \in issued : ~ Valid(g) => ~ Valid(g)'
<1>1. IInv'
  BY DEF IInv, TypeOK, LinksConsistent, IssuedBelow, LiveIssued, Recycling, Recycles,
         Exhausted
<1>2. \A g \in issued : ~ Valid(g) => ~ Valid(g)'
  BY DEF Valid
<1> QED BY <1>1, <1>2

\* What every step does.
Keeps ==
  /\ IInv'
  /\ storage'.fresh > storage.fresh =>
       Arena(storage.fresh) \subseteq Live(storage) \cup Exhausted
  /\ \A h \in issued : ~ Valid(h) => ~ Valid(h)'

(* A live slot has a position in the list, and its links are the           *)
(* neighbours of that position.                                            *)
LEMMA LivePosition ==
  ASSUME IInv, NEW chain \in Chains(storage), Represents(storage, chain),
         NEW n \in Live(storage)
  PROVE  \E k \in 1 .. storage.count :
           /\ chain[k] = Link(n) /\ Slot(chain[k]) = n
           /\ storage.prevs[n] = chain[k - 1] /\ storage.nexts[n] = chain[k + 1]
<1>1. /\ Follows(chain, storage.count, storage.prevs, storage.nexts)
      /\ \A i \in Live(storage) : \E k \in 1 .. storage.count : chain[k] = Link(i)
  BY DEF Represents, Enumerates
<1>2. PICK k \in 1 .. storage.count : chain[k] = Link(n)
  BY <1>1
<1>3. n \in Arena(storage.cap) /\ storage.cap \in Nat
  BY StorageFields DEF IInv, TypeOK, IsStorage
<1>4. Slot(chain[k]) = n
  BY <1>2, <1>3, LinkFacts
<1> QED BY <1>1, <1>2, <1>4 DEF Follows

(* Each insertion is one between two neighbours of the list, at a position *)
(* that the handle given decides (push_front, push_back, insert_before,    *)
(* insert_after).                                                          *)
LEMMA InsertionForms ==
  ASSUME IInv, NEW chain \in Chains(storage), Represents(storage, chain), NEW x
  PROVE  /\ PushFront(x) => Insert(<<"PushFront">>, chain[1 - 1], chain[1], x)
         /\ PushBack(x) =>
              Insert(<<"PushBack">>, chain[storage.count], chain[storage.count + 1], x)
         /\ \A h \in Handle, k \in 1 .. storage.count :
              /\ chain[k] = Link(h.id) /\ storage.prevs[h.id] = chain[k - 1]
              /\ InsertBefore(h, x)
              => Insert(<<"InsertBefore", h>>, chain[k - 1], chain[k], x)
         /\ \A h \in Handle, k \in 1 .. storage.count :
              /\ chain[k] = Link(h.id) /\ storage.nexts[h.id] = chain[k + 1]
              /\ InsertAfter(h, x)
              => Insert(<<"InsertAfter", h>>, chain[k], chain[k + 1], x)
<1>1. /\ storage.head = chain[1] /\ storage.tail = chain[storage.count]
      /\ chain[0] = Nil /\ chain[storage.count + 1] = Nil
  BY DEF Represents, Enumerates
<1>2. PushFront(x) => Insert(<<"PushFront">>, chain[1 - 1], chain[1], x)
  BY <1>1 DEF PushFront
<1>3. PushBack(x) =>
        Insert(<<"PushBack">>, chain[storage.count], chain[storage.count + 1], x)
  BY <1>1 DEF PushBack
<1> QED BY <1>2, <1>3 DEF InsertBefore, InsertAfter

(* An insertion is one whatever it answers.                                *)
LEMMA InsertInserts == \A call, a, b, x : Insert(call, a, b, x) => Inserting(a, b, x)
  BY DEF Insert, Inserting

(* Every step keeps the invariant, opens a slot only when the slots in use *)
(* are live or exhausted, and revives no handle.                           *)
LEMMA NextKeeps == IInv /\ [Next]_vars => Keeps
<1> SUFFICES ASSUME IInv, [Next]_vars PROVE Keeps
  OBVIOUS
<1>1. storage.fresh \in Nat /\ storage.count \in Nat
  BY StorageFields DEF IInv, TypeOK, IsStorage
<1>2. PICK chain \in Chains(storage) : Represents(storage, chain)
  BY DEF IInv, LinksConsistent
<1>3. ASSUME NEW k \in 1 .. storage.count + 1, NEW x \in Value,
             Inserting(chain[k - 1], chain[k], x)
      PROVE  Keeps
  BY <1>2, <1>3, InsertStep DEF Keeps
<1>4. ASSUME NEW x \in Value, PushFront(x) PROVE Keeps
  <2>1. 1 \in 1 .. storage.count + 1
    BY <1>1
  <2> QED BY <2>1, <1>2, <1>3, <1>4, InsertionForms, InsertInserts
<1>5. ASSUME NEW x \in Value, PushBack(x) PROVE Keeps
  <2>1. PICK k \in 1 .. storage.count + 1 : k - 1 = storage.count /\ k = storage.count + 1
    BY <1>1
  <2>2. Inserting(chain[k - 1], chain[k], x)
    BY <2>1, <1>2, <1>5, InsertionForms, InsertInserts
  <2> QED BY <2>2, <1>3
<1>6. ASSUME NEW h \in Handle, Valid(h)
      PROVE  /\ h.id \in Live(storage)
             /\ \E k \in 1 .. storage.count :
                  /\ chain[k] = Link(h.id)
                  /\ storage.prevs[h.id] = chain[k - 1]
                  /\ storage.nexts[h.id] = chain[k + 1]
  BY <1>2, <1>6, ValidFacts, LivePosition
<1>7. ASSUME NEW h \in Handle, NEW x \in Value, InsertBefore(h, x) PROVE Keeps
  <2>1. Valid(h)
    BY <1>7 DEF InsertBefore
  <2>2. PICK k \in 1 .. storage.count :
          chain[k] = Link(h.id) /\ storage.prevs[h.id] = chain[k - 1]
    BY <2>1, <1>6
  <2>3. Inserting(chain[k - 1], chain[k], x)
    BY <2>2, <1>2, <1>7, InsertionForms, InsertInserts
  <2>4. k \in 1 .. storage.count + 1
    BY <1>1
  <2> QED BY <2>3, <2>4, <1>3
<1>8. ASSUME NEW h \in Handle, NEW x \in Value, InsertAfter(h, x) PROVE Keeps
  <2>1. Valid(h)
    BY <1>8 DEF InsertAfter
  <2>2. PICK j \in 1 .. storage.count :
          chain[j] = Link(h.id) /\ storage.nexts[h.id] = chain[j + 1]
    BY <2>1, <1>6
  <2>3. PICK k \in 1 .. storage.count + 1 : k = j + 1 /\ k - 1 = j
    BY <1>1
  <2>4. Inserting(chain[k - 1], chain[k], x)
    BY <2>2, <2>3, <1>2, <1>8, InsertionForms, InsertInserts
  <2> QED BY <2>4, <1>3
<1>9. ASSUME NEW h \in Handle, NEW x \in Value, Set(h, x) PROVE Keeps
  <2>1. Valid(h) /\ Writing(h.id, x)
    BY <1>9 DEF Set, Writing
  <2> QED BY <2>1, <1>1, <1>2, <1>6, SetStep DEF Keeps
<1>10. ASSUME NEW h \in Handle, Remove(h) PROVE Keeps
  <2>1. Valid(h) /\ Removing(h.id)
    BY <1>10 DEF Remove, Removing, Valid
  <2> QED BY <2>1, <1>1, <1>2, <1>6, RemoveStep DEF Keeps
<1>11. CASE UNCHANGED <<storage, gens, issued>>
  BY <1>1, <1>11, ReadStep DEF Keeps
<1>12. ASSUME NEW h, Get(h) \/ NextOf(h) \/ PrevOf(h) \/ Refuse(h)
       PROVE  UNCHANGED <<storage, gens, issued>>
  BY <1>12 DEF Get, NextOf, PrevOf, Refuse, Read
<1>13. Length \/ List => UNCHANGED <<storage, gens, issued>>
  BY DEF Length, List, Read
<1>14. UNCHANGED vars => UNCHANGED <<storage, gens, issued>>
  BY DEF vars
<1> QED BY <1>4, <1>5, <1>7, <1>8, <1>9, <1>10, <1>11, <1>12, <1>13, <1>14 DEF Next

-----------------------------------------------------------------------------
(* The theorems.                                                           *)

(* The inductive invariant holds in every reachable state.                 *)
THEOREM Invariant == Spec => []IInv
<1>1. IInv /\ [Next]_vars => IInv'
  BY NextKeeps DEF Keeps
<1> QED BY <1>1, InitIInv, PTL DEF Spec

(* The storage, the generations and the handles issued keep their types;   *)
(* in particular the cached count never goes below 0 and no generation     *)
(* past the last one (rm_links, retire).                                   *)
THEOREM TypeCorrect == Spec => []TypeOK
<1>1. IInv => TypeOK
  BY DEF IInv
<1> QED BY <1>1, Invariant, PTL

(* The links spell one list of exactly the live slots (link_in, rm_links). *)
THEOREM LinksAlwaysConsistent == Spec => []LinksConsistent
<1>1. IInv => LinksConsistent
  BY DEF IInv
<1> QED BY <1>1, Invariant, PTL

(* Every slot in use is live, stacked for reuse or exhausted (retire,      *)
(* recycle_slot).                                                          *)
THEOREM NeverASlotLeaks == Spec => []NoSlotLeaks
  BY Invariant, IInvImpliesNoSlotLeaks, PTL

(* A fresh slot is opened only when none can be reused (ins_free_pick).    *)
THEOREM GrowthIsNeeded == Spec => GrowsOnlyWhenFull
<1>1. IInv /\ [Next]_vars =>
        [storage'.fresh > storage.fresh =>
           Arena(storage.fresh) \subseteq Live(storage) \cup Exhausted]_vars
  BY NextKeeps DEF Keeps
<1> QED BY <1>1, Invariant, PTL DEF Spec, GrowsOnlyWhenFull

(* A stale handle is stale for ever (validate, retire).                    *)
THEOREM StalenessIsFinal == Spec => StaleForever
<1>1. IInv /\ [Next]_vars => [\A h \in issued : ~ Valid(h) => ~ Valid(h)']_vars
  BY NextKeeps DEF Keeps
<1> QED BY <1>1, Invariant, PTL DEF Spec, StaleForever

-----------------------------------------------------------------------------
(* Refinement.  The entries are read off the chain.                        *)

Entry == [h : Handle, v : Value]

EntryOf(s, g, l) == [h |-> H(Slot(l), g[Slot(l)]), v |-> s.vals[Slot(l)]]

EntriesOf(s, g, chain) == [k \in 1 .. s.count |-> EntryOf(s, g, chain[k])]

\* Entries, of any storage and generations.
WalkedEntries(s, g) ==
  LET links == BackwardWalk(s)
      order == [k \in 1 .. s.count |-> Slot(links[k])]
  IN [k \in 1 .. s.count |->
        [h |-> H(order[k], g[order[k]]), v |-> s.vals[order[k]]]]

LEMMA EntriesAreWalked == Entries = WalkedEntries(storage, gens)
  BY DEF Entries, Order, WalkedEntries

LEMMA WalkedAreOfChain ==
  ASSUME NEW s, s.count \in Nat, NEW g, NEW chain, Represents(s, chain)
  PROVE  WalkedEntries(s, g) = EntriesOf(s, g, chain)
<1>1. BackwardWalk(s) = [k \in 1 .. s.count |-> chain[k]]
  BY WalkIsChain
<1> QED BY <1>1 DEF WalkedEntries, EntriesOf, EntryOf

(* The entries of a chain are a sequence of entries.                       *)
LEMMA EntriesTyped ==
  ASSUME NEW s, IsStorage(s), NEW g \in [Arena(s.cap) -> 0 .. MaxGen],
         Live(s) \subseteq 0 .. MaxSlots, NEW chain, Represents(s, chain)
  PROVE  /\ EntriesOf(s, g, chain) \in Seq(Entry)
         /\ Len(EntriesOf(s, g, chain)) = s.count
         /\ DOMAIN EntriesOf(s, g, chain) = 1 .. s.count
         /\ \A k \in 1 .. s.count :
              EntriesOf(s, g, chain)[k] = EntryOf(s, g, chain[k])
<1>1. /\ s.count \in Nat /\ Live(s) \subseteq Arena(s.cap)
      /\ s.vals \in [Arena(s.cap) -> Value \cup {NoValue}]
  BY StorageFields DEF IsStorage
<1>2. \A k \in 1 .. s.count : Slot(chain[k]) \in Live(s)
  BY DEF Represents, Enumerates
<1>3. ASSUME NEW k \in 1 .. s.count PROVE EntryOf(s, g, chain[k]) \in Entry
  <2>1. PICK i \in Live(s) : i = Slot(chain[k])
    BY <1>2
  <2>2. i \in Arena(s.cap) /\ i \in 0 .. MaxSlots /\ s.vals[i] \in Value
    BY <1>1 DEF Live
  <2>3. H(i, g[i]) \in Handle
    BY <2>2, HandleFields
  <2> QED BY <2>1, <2>2, <2>3 DEF EntryOf, Entry
<1>4. EntriesOf(s, g, chain) \in [1 .. s.count -> Entry]
  BY <1>3 DEF EntriesOf
<1>5. EntriesOf(s, g, chain) \in Seq(Entry) /\ Len(EntriesOf(s, g, chain)) = s.count
  BY <1>4, <1>1
<1> QED BY <1>4, <1>5 DEF EntriesOf

(* What the invariant says of the entries.                                 *)
LEMMA EntriesFacts ==
  ASSUME IInv, NEW chain \in Chains(storage), Represents(storage, chain)
  PROVE  /\ storage.count \in Nat
         /\ Entries \in Seq(Entry) /\ Len(Entries) = storage.count
         /\ DOMAIN Entries = 1 .. storage.count
         /\ \A k \in 1 .. storage.count : Entries[k] = EntryOf(storage, gens, chain[k])
<1>1. /\ storage.count \in Nat /\ storage.fresh \in Nat /\ IsStorage(storage)
      /\ gens \in [Arena(storage.cap) -> 0 .. MaxGen]
  BY StorageFields DEF IInv, TypeOK, IsStorage
<1>2. Live(storage) \subseteq 0 .. MaxSlots
  BY <1>1, DListAssumption DEF IInv, LiveIssued, Arena
<1>3. Entries = EntriesOf(storage, gens, chain)
  BY <1>1, EntriesAreWalked, WalkedAreOfChain
<1> QED BY <1>1, <1>2, <1>3, EntriesTyped

(* The same after a step.                                                  *)
LEMMA NextEntriesFacts ==
  ASSUME IInv', NEW c \in Chains(storage'), Represents(storage', c)
  PROVE  /\ storage'.count \in Nat
         /\ Entries' \in Seq(Entry) /\ Len(Entries') = storage'.count
         /\ \A k \in 1 .. storage'.count : Entries'[k] = EntryOf(storage', gens', c[k])
<1>1. /\ storage'.count \in Nat /\ storage'.fresh \in Nat /\ IsStorage(storage')
      /\ gens' \in [Arena(storage'.cap) -> 0 .. MaxGen]
  BY StorageFields DEF IInv, TypeOK, IsStorage
<1>2. Live(storage') \subseteq 0 .. MaxSlots
  BY <1>1, DListAssumption DEF IInv, LiveIssued, Arena
<1>3. Entries' = WalkedEntries(storage', gens')
  BY DEF Entries, Order, WalkedEntries
<1>4. Entries' = EntriesOf(storage', gens', c)
  BY <1>1, <1>3, WalkedAreOfChain
<1> QED BY <1>1, <1>2, <1>4, EntriesTyped

(* An insertion at position k puts an entry under a new handle there.      *)
LEMMA InsertingRefines ==
  ASSUME IInv, NEW chain \in Chains(storage), Represents(storage, chain),
         NEW k \in 1 .. storage.count + 1, NEW x \in Value,
         Inserting(chain[k - 1], chain[k], x)
  PROVE  \E h \in Handle \ issued : /\ h = H(NextSlot(storage), gens'[NextSlot(storage)])
                                    /\ Abstract!AddEntry(h, k, x)
<1> DEFINE n == NextSlot(storage)
           c == InsertedChain(chain, storage.count, k, Link(n))
           h == H(n, gens'[n])
           e == [h |-> h, v |-> x]
           count == storage.count
<1>1. IInv' /\ Inserted(chain, k, x)
  BY InsertStep
<1>2. /\ c \in Chains(storage') /\ Represents(storage', c)
      /\ storage'.count = count + 1 /\ n \in Nat
      /\ storage'.vals[n] = x /\ h \in Handle \ issued
      /\ \A i \in Live(storage) : storage'.vals[i] = storage.vals[i] /\ gens'[i] = gens[i]
  BY <1>1 DEF Inserted
<1>3. /\ gens' = GrownGens(gens, n) /\ issued' = issued \cup {h}
  BY DEF Inserting
<1>4. /\ count \in Nat /\ Entries \in Seq(Entry) /\ Len(Entries) = count
      /\ \A j \in 1 .. count : Entries[j] = EntryOf(storage, gens, chain[j])
  BY EntriesFacts
<1>5. /\ Entries' \in Seq(Entry) /\ Len(Entries') = count + 1
      /\ \A j \in 1 .. count + 1 : Entries'[j] = EntryOf(storage', gens', c[j])
  BY <1>1, <1>2, NextEntriesFacts
<1>6. \A j \in 1 .. count :
        EntryOf(storage', gens', chain[j]) = EntryOf(storage, gens, chain[j])
  <2>1. \A j \in 1 .. count : Slot(chain[j]) \in Live(storage)
    BY DEF Represents, Enumerates
  <2> QED BY <2>1, <1>2 DEF EntryOf
<1>7. /\ \A j \in 1 .. k - 1 : c[j] = chain[j]
      /\ c[k] = Link(n)
      /\ \A j \in k .. count : c[j + 1] = chain[j]
  BY <1>4 DEF InsertedChain
<1>8. Slot(Link(n)) = n
  BY <1>2 DEF Slot, Link
<1> HIDE DEF n, c, h, count
<1>9. \A j \in 1 .. k - 1 : Entries'[j] = Entries[j]
  BY <1>4, <1>5, <1>6, <1>7 DEF count
<1>10. Entries'[k] = e
  BY <1>2, <1>5, <1>7, <1>8 DEF EntryOf, h, count
<1>11. \A j \in k .. count : Entries'[j + 1] = Entries[j]
  <2>1. \A j \in k .. count : j \in 1 .. count /\ j + 1 \in 1 .. count + 1
    BY <1>4 DEF count
  <2> QED BY <2>1, <1>4, <1>5, <1>6, <1>7
<1>12. e \in Entry
  BY <1>2 DEF Entry
<1> HIDE DEF e
<1>13. k \in 1 .. Len(Entries) + 1
  BY <1>4 DEF count
<1>14. Entries' = SubSeq(Entries, 1, k - 1) \o <<e>> \o SubSeq(Entries, k, Len(Entries))
  BY <1>4, <1>5, <1>9, <1>10, <1>11, <1>12, <1>13, InsertedSequence
<1>15. Entries' = Abstract!InsertAt(Entries, k, e)
  BY <1>14 DEF Abstract!InsertAt
<1>16. Abstract!AddEntry(h, k, x)
  BY <1>3, <1>15 DEF Abstract!AddEntry, e
<1> QED BY <1>2, <1>16 DEF h, n

LEMMA InsertRefines ==
  ASSUME IInv, NEW chain \in Chains(storage), Represents(storage, chain),
         NEW k \in 1 .. storage.count + 1, NEW x \in Value, NEW call,
         Insert(call, chain[k - 1], chain[k], x)
  PROVE  Abstract!InsertEntry(call, k, x)
<1>1. PICK h \in Handle \ issued :
        h = H(NextSlot(storage), gens'[NextSlot(storage)]) /\ Abstract!AddEntry(h, k, x)
  BY InsertInserts, InsertingRefines
<1>2. obs' = call \o <<x, "Done", h>>
  BY <1>1 DEF Insert
<1> QED BY <1>1, <1>2 DEF Abstract!InsertEntry

(* The entry of a live slot's position is under its handle.                *)
LEMMA ValidEntry ==
  ASSUME IInv, NEW chain \in Chains(storage), Represents(storage, chain),
         NEW h \in Handle, Valid(h)
  PROVE  \E k \in 1 .. storage.count :
           /\ k \in DOMAIN Entries /\ Entries[k] = [h |-> h, v |-> storage.vals[h.id]]
           /\ chain[k] = Link(h.id) /\ Slot(chain[k]) = h.id
           /\ storage.prevs[h.id] = chain[k - 1] /\ storage.nexts[h.id] = chain[k + 1]
<1>1. h.id \in Live(storage) /\ gens[h.id] = h.generation /\ h = H(h.id, h.generation)
  BY ValidFacts
<1>2. PICK k \in 1 .. storage.count :
        /\ chain[k] = Link(h.id) /\ Slot(chain[k]) = h.id
        /\ storage.prevs[h.id] = chain[k - 1] /\ storage.nexts[h.id] = chain[k + 1]
  BY <1>1, LivePosition
<1>3. k \in DOMAIN Entries /\ Entries[k] = EntryOf(storage, gens, chain[k])
  BY EntriesFacts
<1>4. Entries[k] = [h |-> h, v |-> storage.vals[h.id]]
  BY <1>1, <1>2, <1>3 DEF EntryOf
<1> QED BY <1>2, <1>3, <1>4

(* A removal takes the entry out.                                          *)
LEMMA RemoveRefines ==
  ASSUME IInv, NEW chain \in Chains(storage), Represents(storage, chain),
         NEW k \in 1 .. storage.count, NEW n \in Live(storage), chain[k] = Link(n),
         Removing(n)
  PROVE  Entries' = Abstract!RemoveAt(Entries, k) /\ issued' = issued
<1> DEFINE c == RemovedChain(chain, storage.count, k)
           count == storage.count
<1>1. IInv' /\ Dropped(chain, k, n)
  BY RemoveStep
<1>2. /\ c \in Chains(storage') /\ Represents(storage', c)
      /\ storage'.count = count - 1
      /\ \A i \in Live(storage) \ {n} :
           storage'.vals[i] = storage.vals[i] /\ gens'[i] = gens[i]
  BY <1>1 DEF Dropped
<1>3. /\ count \in Nat /\ Entries \in Seq(Entry) /\ Len(Entries) = count
      /\ \A j \in 1 .. count : Entries[j] = EntryOf(storage, gens, chain[j])
  BY EntriesFacts
<1>4. /\ Entries' \in Seq(Entry) /\ Len(Entries') = count - 1
      /\ \A j \in 1 .. count - 1 : Entries'[j] = EntryOf(storage', gens', c[j])
  BY <1>1, <1>2, NextEntriesFacts
<1>5. ASSUME NEW j \in 1 .. count, j # k
      PROVE  EntryOf(storage', gens', chain[j]) = EntryOf(storage, gens, chain[j])
  <2>1. /\ Slot(chain[j]) \in Live(storage) /\ Slot(chain[k]) = n
        /\ chain[j] # chain[k] /\ chain[j] \in Nat /\ chain[k] \in Nat
    <3>1. chain[j] \in 0 .. storage.cap /\ chain[k] \in 0 .. storage.cap
      <4>1. j \in 0 .. storage.count + 1 /\ k \in 0 .. storage.count + 1
        BY <1>3
      <4> QED BY <4>1 DEF Chains
    <3>2. storage.cap \in Nat /\ n \in Arena(storage.cap)
      BY StorageFields DEF IInv, TypeOK, IsStorage
    <3>3. Slot(Link(n)) = n
      BY <3>2, LinkFacts
    <3> QED BY <1>5, <3>1, <3>2, <3>3 DEF Represents, Enumerates
  <2>2. Slot(chain[j]) # n
    BY <2>1 DEF Slot
  <2> QED BY <2>1, <2>2, <1>2 DEF EntryOf
<1>6. /\ \A j \in 1 .. k - 1 : c[j] = chain[j]
      /\ \A j \in k .. count - 1 : c[j] = chain[j + 1]
  BY <1>3 DEF RemovedChain
<1> HIDE DEF c, count
<1>7. k \in 1 .. count
  BY DEF count
<1>8. \A j \in 1 .. k - 1 : Entries'[j] = Entries[j]
  <2> TAKE j \in 1 .. k - 1
  <2>1. j \in 1 .. count /\ j \in 1 .. count - 1 /\ j # k
    BY <1>3, <1>7
  <2>2. Entries'[j] = EntryOf(storage', gens', chain[j])
    BY <2>1, <1>4, <1>6
  <2>3. Entries[j] = EntryOf(storage, gens, chain[j])
    BY <2>1, <1>3
  <2> QED BY <2>1, <2>2, <2>3, <1>5
<1>9. \A j \in k .. count - 1 : Entries'[j] = Entries[j + 1]
  <2> TAKE j \in k .. count - 1
  <2>1. PICK i \in 1 .. count : i = j + 1 /\ i # k /\ j \in 1 .. count - 1
    BY <1>3, <1>7
  <2>2. Entries'[j] = EntryOf(storage', gens', chain[i])
    BY <2>1, <1>4, <1>6
  <2>3. Entries[i] = EntryOf(storage, gens, chain[i])
    BY <1>3
  <2> QED BY <2>1, <2>2, <2>3, <1>5
<1>10. Entries' = SubSeq(Entries, 1, k - 1) \o SubSeq(Entries, k + 1, Len(Entries))
  BY <1>3, <1>4, <1>7, <1>8, <1>9, RemovedSequence
<1>11. issued' = issued
  BY DEF Removing
<1> QED BY <1>10, <1>11 DEF Abstract!RemoveAt

(* Setting an element changes its entry's value.                           *)
LEMMA SetRefines ==
  ASSUME IInv, NEW chain \in Chains(storage), Represents(storage, chain),
         NEW k \in 1 .. storage.count, NEW n \in Live(storage), chain[k] = Link(n),
         NEW x \in Value, Writing(n, x)
  PROVE  Entries' = [Entries EXCEPT ![k].v = x] /\ issued' = issued
<1> DEFINE count == storage.count
<1>1. IInv' /\ Overwritten(chain, n, x)
  BY SetStep
<1>2. /\ chain \in Chains(storage') /\ Represents(storage', chain)
      /\ storage'.count = count /\ gens' = gens /\ storage'.vals[n] = x
      /\ \A i \in Live(storage) \ {n} : storage'.vals[i] = storage.vals[i]
  BY <1>1 DEF Overwritten
<1>3. /\ count \in Nat /\ Entries \in Seq(Entry) /\ Len(Entries) = count
      /\ \A j \in 1 .. count : Entries[j] = EntryOf(storage, gens, chain[j])
  BY EntriesFacts
<1>4. /\ Entries' \in Seq(Entry) /\ Len(Entries') = count
      /\ \A j \in 1 .. count : Entries'[j] = EntryOf(storage', gens', chain[j])
  BY <1>1, <1>2, NextEntriesFacts
<1>5. Slot(chain[k]) = n
  <2>1. storage.cap \in Nat /\ n \in Arena(storage.cap)
    BY StorageFields DEF IInv, TypeOK, IsStorage
  <2> QED BY <2>1, LinkFacts
<1>6. ASSUME NEW j \in 1 .. count, j # k
      PROVE  EntryOf(storage', gens', chain[j]) = EntryOf(storage, gens, chain[j])
  <2>1. /\ Slot(chain[j]) \in Live(storage)
        /\ chain[j] # chain[k] /\ chain[j] \in Nat /\ chain[k] \in Nat
    <3>1. chain[j] \in 0 .. storage.cap /\ chain[k] \in 0 .. storage.cap
      <4>1. j \in 0 .. storage.count + 1 /\ k \in 0 .. storage.count + 1
        BY <1>3
      <4> QED BY <4>1 DEF Chains
    <3>2. storage.cap \in Nat
      BY StorageFields DEF IInv, TypeOK, IsStorage
    <3> QED BY <1>6, <3>1, <3>2 DEF Represents, Enumerates
  <2>2. Slot(chain[j]) # n
    BY <2>1, <1>5 DEF Slot
  <2> QED BY <2>1, <2>2, <1>2 DEF EntryOf
<1>7. EntryOf(storage', gens', chain[k]) = [EntryOf(storage, gens, chain[k]) EXCEPT !.v = x]
  BY <1>2, <1>5 DEF EntryOf
<1> DEFINE e == [Entries EXCEPT ![k].v = x]
<1>8. e \in Seq(Entry) /\ Len(e) = count
  <2>1. Entries[k] \in Entry
    BY <1>3
  <2>2. [Entries[k] EXCEPT !.v = x] \in Entry
    BY <2>1 DEF Entry
  <2>3. Entries \in [1 .. count -> Entry]
    BY <1>3
  <2>4. e = [Entries EXCEPT ![k] = [Entries[k] EXCEPT !.v = x]]
    OBVIOUS
  <2> HIDE DEF e
  <2>5. e \in [1 .. count -> Entry]
    BY <2>2, <2>3, <2>4
  <2> QED BY <2>5, <1>3
<1>9. \A j \in 1 .. count : Entries'[j] = e[j]
  BY <1>3, <1>4, <1>6, <1>7
<1> HIDE DEF e
<1>10. Entries' = e
  BY <1>3, <1>4, <1>8, <1>9, SameElements
<1>11. issued' = issued
  BY DEF Writing
<1> QED BY <1>10, <1>11 DEF e

(* A step that leaves the list alone leaves its entries alone.             *)
LEMMA EntriesKept == UNCHANGED <<storage, gens>> => Entries' = Entries
  BY DEF Entries, Order

(* A handle that is not valid is under no entry (validate).                *)
LEMMA StaleIsUnused ==
  ASSUME IInv, NEW h \in Handle, ~ Valid(h)
  PROVE  h \in Abstract!Unused
<1>1. PICK chain \in Chains(storage) : Represents(storage, chain)
  BY DEF IInv, LinksConsistent
<1>2. SUFFICES ASSUME NEW k \in DOMAIN Entries, Entries[k].h = h PROVE FALSE
  BY DEF Abstract!Unused
<1>3. k \in 1 .. storage.count /\ Entries[k] = EntryOf(storage, gens, chain[k])
  BY <1>1, EntriesFacts
<1>4. PICK i \in Live(storage) : i = Slot(chain[k])
  BY <1>1, <1>3 DEF Represents, Enumerates
<1>5. h = H(i, gens[i])
  BY <1>2, <1>3, <1>4 DEF EntryOf
<1>6. h.id = i /\ h.generation = gens[i]
  BY <1>5, HandleFields
<1>7. /\ storage.cap \in Nat /\ storage.fresh \in Nat /\ i \in Arena(storage.fresh)
      /\ i \in DOMAIN gens /\ storage.vals[i] # NoValue
  BY StorageFields DEF IInv, TypeOK, IsStorage, LiveIssued, Live
<1>8. Readable(storage, i)
  BY <1>7 DEF Readable, Arena
<1> QED BY <1>2, <1>6, <1>7, <1>8 DEF Valid

(* The neighbours a handle's element answers are its neighbours in the     *)
(* list (next, prev).                                                      *)
LEMMA NeighboursRefine ==
  ASSUME IInv, NEW chain \in Chains(storage), Represents(storage, chain),
         NEW k \in 0 .. storage.count + 1
  PROVE  NeighbourOf(chain[k]) = Abstract!HandleAt(k)
<1>1. /\ storage.count \in Nat /\ DOMAIN Entries = 1 .. storage.count
      /\ \A j \in 1 .. storage.count : Entries[j] = EntryOf(storage, gens, chain[j])
  BY EntriesFacts
<1>2. /\ chain[0] = Nil /\ chain[storage.count + 1] = Nil
      /\ \A j \in 1 .. storage.count : chain[j] # Nil
  BY DEF Represents, Enumerates
<1>3. CASE k \in 1 .. storage.count
  <2>1. NeighbourOf(chain[k]) = <<"Some", H(Slot(chain[k]), gens[Slot(chain[k])])>>
    BY <1>2, <1>3 DEF NeighbourOf
  <2>2. Abstract!HandleAt(k) = <<"Some", Entries[k].h>>
    BY <1>1, <1>3 DEF Abstract!HandleAt
  <2>3. Entries[k].h = H(Slot(chain[k]), gens[Slot(chain[k])])
    <3>1. Entries[k] = EntryOf(storage, gens, chain[k])
      BY <1>1, <1>3
    <3> QED BY <3>1 DEF EntryOf
  <2> QED BY <2>1, <2>2, <2>3
<1>4. CASE k \notin 1 .. storage.count
  <2>1. k = 0 \/ k = storage.count + 1
    BY <1>1, <1>4
  <2>2. NeighbourOf(chain[k]) = <<"None">>
    BY <2>1, <1>2 DEF NeighbourOf
  <2>3. Abstract!HandleAt(k) = <<"None">>
    BY <1>1, <1>4 DEF Abstract!HandleAt
  <2> QED BY <2>2, <2>3
<1> QED BY <1>3, <1>4

(* A call that looks at an element answers what the abstract list answers. *)
LEMMA ReadRefines ==
  ASSUME IInv, NEW h \in Handle, Get(h) \/ NextOf(h) \/ PrevOf(h)
  PROVE  \E k \in DOMAIN Entries : Abstract!ReadElement(k)
<1>1. PICK chain \in Chains(storage) : Represents(storage, chain)
  BY DEF IInv, LinksConsistent
<1>2. Valid(h) /\ UNCHANGED <<storage, gens, issued>>
  BY DEF Get, NextOf, PrevOf, Read
<1>3. PICK k \in 1 .. storage.count :
        /\ k \in DOMAIN Entries /\ Entries[k] = [h |-> h, v |-> storage.vals[h.id]]
        /\ storage.prevs[h.id] = chain[k - 1] /\ storage.nexts[h.id] = chain[k + 1]
  BY <1>1, <1>2, ValidEntry
<1>4. Entries' = Entries /\ Entries[k].h = h /\ Entries[k].v = storage.vals[h.id]
  BY <1>2, <1>3, EntriesKept
<1>5. /\ NeighbourOf(chain[k - 1]) = Abstract!HandleAt(k - 1)
      /\ NeighbourOf(chain[k + 1]) = Abstract!HandleAt(k + 1)
  <2>1. storage.count \in Nat
    BY <1>1, EntriesFacts
  <2>2. k - 1 \in 0 .. storage.count + 1 /\ k + 1 \in 0 .. storage.count + 1
    BY <2>1
  <2> QED BY <2>2, <1>1, NeighboursRefine
<1>6. \/ obs' = <<"Get", h, "Done", storage.vals[h.id]>>
      \/ obs' = <<"Next", h, "Done">> \o NeighbourOf(storage.nexts[h.id])
      \/ obs' = <<"Prev", h, "Done">> \o NeighbourOf(storage.prevs[h.id])
  BY DEF Get, NextOf, PrevOf, Read
<1>7. Abstract!ReadElement(k)
  BY <1>2, <1>3, <1>4, <1>5, <1>6 DEF Abstract!ReadElement
<1> QED BY <1>3, <1>7

(* The length and the listing are those of the abstract list (length,      *)
(* to_list).                                                               *)
LEMMA ReadAllRefines == IInv /\ (Length \/ List) => Abstract!ReadAll
<1> SUFFICES ASSUME IInv, Length \/ List PROVE Abstract!ReadAll
  OBVIOUS
<1>1. PICK chain \in Chains(storage) : Represents(storage, chain)
  BY DEF IInv, LinksConsistent
<1>2. /\ storage.count \in Nat /\ Len(Entries) = storage.count
      /\ DOMAIN Entries = 1 .. storage.count
      /\ \A k \in 1 .. storage.count : Entries[k] = EntryOf(storage, gens, chain[k])
  BY <1>1, EntriesFacts
<1>3. UNCHANGED <<storage, gens, issued>> /\ Entries' = Entries
  BY EntriesKept DEF Length, List, Read
<1>4. ToList(storage) = [k \in DOMAIN Entries |-> Entries[k].v]
  <2>1. ToList(storage) = [k \in 1 .. storage.count |-> storage.vals[Slot(chain[k])]]
    BY <1>1, <1>2, ListIsChain
  <2>2. ASSUME NEW k \in 1 .. storage.count
        PROVE  Entries[k].v = storage.vals[Slot(chain[k])]
    <3>1. Entries[k] = EntryOf(storage, gens, chain[k])
      BY <1>2
    <3> QED BY <3>1 DEF EntryOf
  <2> QED BY <2>1, <2>2, <1>2
<1> QED BY <1>2, <1>3, <1>4 DEF Length, List, Read, Abstract!ReadAll

(* Every step of the list is a step of the abstract list.                  *)
LEMMA StepRefines ==
  IInv /\ [Next]_vars => [Abstract!HandleListNext]_(Abstract!vars)
<1> SUFFICES ASSUME IInv, [Next]_vars
             PROVE  [Abstract!HandleListNext]_(Abstract!vars)
  OBVIOUS
<1>1. PICK chain \in Chains(storage) : Represents(storage, chain)
  BY DEF IInv, LinksConsistent
<1>2. /\ storage.count \in Nat /\ Len(Entries) = storage.count
      /\ DOMAIN Entries = 1 .. storage.count
  BY <1>1, EntriesFacts
<1>3. ASSUME NEW h \in Handle, Valid(h)
      PROVE  /\ h.id \in Live(storage)
             /\ \E k \in 1 .. storage.count :
                  /\ k \in DOMAIN Entries
                  /\ Entries[k] = [h |-> h, v |-> storage.vals[h.id]]
                  /\ chain[k] = Link(h.id)
                  /\ storage.prevs[h.id] = chain[k - 1]
                  /\ storage.nexts[h.id] = chain[k + 1]
  BY <1>1, <1>3, ValidFacts, ValidEntry
<1>4. ASSUME NEW x \in Value, PushFront(x) \/ PushBack(x)
      PROVE  Abstract!HandleListNext
  <2>1. CASE PushFront(x)
    <3>1. 1 \in 1 .. storage.count + 1
      BY <1>2
    <3>2. Insert(<<"PushFront">>, chain[1 - 1], chain[1], x)
      BY <2>1, <1>1, InsertionForms
    <3>3. Abstract!InsertEntry(<<"PushFront">>, 1, x)
      BY <3>1, <3>2, <1>1, InsertRefines
    <3> QED BY <3>3 DEF Abstract!HandleListNext, Abstract!Push
  <2>2. CASE PushBack(x)
    <3>1. PICK k \in 1 .. storage.count + 1 : k - 1 = storage.count /\ k = storage.count + 1
      BY <1>2
    <3>2. Insert(<<"PushBack">>, chain[k - 1], chain[k], x)
      BY <3>1, <2>2, <1>1, InsertionForms
    <3>3. Abstract!InsertEntry(<<"PushBack">>, k, x)
      BY <3>2, <1>1, InsertRefines
    <3> QED BY <3>1, <3>3, <1>2 DEF Abstract!HandleListNext, Abstract!Push
  <2> QED BY <1>4, <2>1, <2>2
<1>5. ASSUME NEW h \in Handle, NEW x \in Value, InsertBefore(h, x)
      PROVE  Abstract!HandleListNext
  <2>1. Valid(h)
    BY <1>5 DEF InsertBefore
  <2>2. PICK k \in 1 .. storage.count :
          /\ k \in DOMAIN Entries /\ Entries[k] = [h |-> h, v |-> storage.vals[h.id]]
          /\ chain[k] = Link(h.id) /\ storage.prevs[h.id] = chain[k - 1]
    BY <2>1, <1>3
  <2>3. Insert(<<"InsertBefore", h>>, chain[k - 1], chain[k], x)
    BY <2>2, <1>5, <1>1, InsertionForms
  <2>4. k \in 1 .. storage.count + 1 /\ Entries[k].h = h
    BY <1>2, <2>2
  <2>5. Abstract!InsertEntry(<<"InsertBefore", h>>, k, x)
    BY <2>3, <2>4, <1>1, InsertRefines
  <2> QED BY <2>2, <2>4, <2>5 DEF Abstract!HandleListNext, Abstract!InsertBeside
<1>6. ASSUME NEW h \in Handle, NEW x \in Value, InsertAfter(h, x)
      PROVE  Abstract!HandleListNext
  <2>1. Valid(h)
    BY <1>6 DEF InsertAfter
  <2>2. PICK k \in 1 .. storage.count :
          /\ k \in DOMAIN Entries /\ Entries[k] = [h |-> h, v |-> storage.vals[h.id]]
          /\ chain[k] = Link(h.id) /\ storage.nexts[h.id] = chain[k + 1]
    BY <2>1, <1>3
  <2>3. Insert(<<"InsertAfter", h>>, chain[k], chain[k + 1], x)
    BY <2>2, <1>6, <1>1, InsertionForms
  <2>4. PICK j \in 1 .. storage.count + 1 : j = k + 1 /\ j - 1 = k
    BY <1>2
  <2>5. Entries[k].h = h
    BY <2>2
  <2>6. Abstract!InsertEntry(<<"InsertAfter", h>>, j, x)
    <3>1. Insert(<<"InsertAfter", h>>, chain[j - 1], chain[j], x)
      BY <2>3, <2>4
    <3> QED BY <3>1, <1>1, InsertRefines
  <2> QED BY <2>2, <2>4, <2>5, <2>6 DEF Abstract!HandleListNext, Abstract!InsertBeside
<1>7. ASSUME NEW h \in Handle, NEW x \in Value, Set(h, x)
      PROVE  Abstract!HandleListNext
  <2>1. Valid(h) /\ Writing(h.id, x) /\ obs' = <<"Set", h, x, "Done">>
    BY <1>7 DEF Set, Writing
  <2>2. PICK k \in 1 .. storage.count :
          /\ k \in DOMAIN Entries /\ Entries[k] = [h |-> h, v |-> storage.vals[h.id]]
          /\ chain[k] = Link(h.id)
    BY <2>1, <1>3
  <2>3. Entries' = [Entries EXCEPT ![k].v = x] /\ issued' = issued
    BY <2>1, <2>2, <1>1, <1>3, SetRefines
  <2>4. Entries[k].h = h
    BY <2>2
  <2>5. Abstract!Set(k, x)
    BY <2>1, <2>3, <2>4 DEF Abstract!Set
  <2> QED BY <2>2, <2>5 DEF Abstract!HandleListNext
<1>8. ASSUME NEW h \in Handle, Remove(h)
      PROVE  Abstract!HandleListNext
  <2>1. /\ Valid(h) /\ Removing(h.id)
        /\ obs' = <<"Remove", h, "Done", storage.vals[h.id]>>
    BY <1>8 DEF Remove, Removing, Valid
  <2>2. PICK k \in 1 .. storage.count :
          /\ k \in DOMAIN Entries /\ Entries[k] = [h |-> h, v |-> storage.vals[h.id]]
          /\ chain[k] = Link(h.id)
    BY <2>1, <1>3
  <2>3. Entries' = Abstract!RemoveAt(Entries, k) /\ issued' = issued
    BY <2>1, <2>2, <1>1, <1>3, RemoveRefines
  <2>4. Entries[k].h = h /\ Entries[k].v = storage.vals[h.id]
    BY <2>2
  <2>5. Abstract!RemoveElement(k)
    BY <2>1, <2>3, <2>4 DEF Abstract!RemoveElement
  <2> QED BY <2>2, <2>5 DEF Abstract!HandleListNext
<1>9. ASSUME NEW h \in Handle, Get(h) \/ NextOf(h) \/ PrevOf(h)
      PROVE  Abstract!HandleListNext
  BY <1>9, ReadRefines DEF Abstract!HandleListNext
<1>10. ASSUME NEW h \in Handle \cup {ForeignHandle}, Refuse(h)
       PROVE  Abstract!HandleListNext
  <2>1. UNCHANGED <<storage, gens, issued>> /\ Entries' = Entries
    BY <1>10, EntriesKept DEF Refuse, Read
  <2>2. CASE h = ForeignHandle
    <3>1. obs' = <<"Fail", h, "ForeignHandle">>
      BY <1>10, <2>2, DListAssumption DEF Refuse, Read, ForeignHandle
    <3> QED BY <2>1, <2>2, <3>1 DEF Abstract!HandleListNext, Abstract!Refused
  <2>3. CASE h \in Handle
    <3>1. h.tag = Tag
      BY <2>3 DEF Handle
    <3>2. ~ Valid(h) /\ obs' = <<"Fail", h, "StaleHandle">>
      BY <1>10, <3>1 DEF Refuse, Read
    <3>3. h \in Abstract!Unused
      BY <2>3, <3>2, StaleIsUnused
    <3> QED BY <2>1, <2>3, <3>2, <3>3 DEF Abstract!HandleListNext, Abstract!Refused
  <2> QED BY <2>2, <2>3
<1>11. Length \/ List => Abstract!HandleListNext
  BY ReadAllRefines DEF Abstract!HandleListNext
<1>12. UNCHANGED vars => UNCHANGED Abstract!vars
  BY EntriesKept DEF vars, Abstract!vars
<1> QED BY <1>4, <1>5, <1>6, <1>7, <1>8, <1>9, <1>10, <1>11, <1>12 DEF Next

(* Initially the list is the empty abstract list.                          *)
LEMMA InitRefines == Init => Abstract!HandleListInit
<1> SUFFICES ASSUME Init PROVE Abstract!HandleListInit
  OBVIOUS
<1>1. storage.count = 0
  BY DEF Init, NewStorage
<1>2. Entries = <<>>
  BY <1>1 DEF Entries, Order
<1> QED BY <1>2 DEF Init, Abstract!HandleListInit

(* The generational list implements the list with stable handles: every    *)
(* call answers what the abstract list answers, under handles that were    *)
(* never issued before (inserted_gen, retire, validate).                   *)
THEOREM RefinesHandleList == Spec => ImplementsHandleList
  BY Invariant, InitRefines, StepRefines, PTL
     DEF Spec, ImplementsHandleList, Abstract!HandleListSpec

-----------------------------------------------------------------------------
(* The iterator: the list keeps its properties under the edits of an       *)
(* iterator, which checks no handle, and the cursor is always a gap of the *)
(* list.  The inductive invariant.                                         *)

\* c is a gap of the list chain, of count elements, and its current element
\* is beside the gap.
IsGap(c, chain, count) ==
  /\ c \in Cursors
  /\ c.index \in 0 .. count
  /\ c.next = chain[c.index + 1]
  /\ \/ c.last = Nil
     \/ /\ c.last # Nil
        /\ c.last = chain[IF c.forward THEN c.index ELSE c.index + 1]

GapOf(chain) ==
  /\ chain \in Chains(storage) /\ Represents(storage, chain)
  /\ Iterating => IsGap(cursor, chain, storage.count)

IterInv == IInv /\ \E chain : GapOf(chain)

LEMMA IterInvImpliesGap == IterInv => CursorIsAGap
  BY DEF IterInv, GapOf, IsGap, CursorIsAGap

(* The fields of a cursor.                                                 *)
LEMMA CursorFields ==
  ASSUME NEW next \in Nat, NEW last \in Nat, NEW forward \in BOOLEAN, NEW index \in Nat
  PROVE  /\ IT(next, last, forward, index) \in Cursors
         /\ IT(next, last, forward, index).next = next
         /\ IT(next, last, forward, index).last = last
         /\ IT(next, last, forward, index).forward = forward
         /\ IT(next, last, forward, index).index = index
  BY DEF IT, Cursors

(* What makes a cursor a gap.                                              *)
LEMMA GapForm ==
  ASSUME NEW chain, NEW count \in Nat, NEW next \in Nat, NEW last \in Nat,
         NEW forward \in BOOLEAN, NEW index \in 0 .. count,
         next = chain[index + 1],
         last = Nil \/ last = chain[IF forward THEN index ELSE index + 1]
  PROVE  IsGap(IT(next, last, forward, index), chain, count)
<1> DEFINE c == IT(next, last, forward, index)
<1>1. index \in Nat
  OBVIOUS
<1>2. /\ c \in Cursors /\ c.next = next /\ c.last = last
      /\ c.forward = forward /\ c.index = index
  BY <1>1, CursorFields
<1> HIDE DEF c
<1>3. IsGap(c, chain, count)
  BY <1>2 DEF IsGap
<1> QED BY <1>3 DEF c

(* The links of a chain are numbers, Nil only at its two ends.             *)
LEMMA ChainLinks ==
  ASSUME IInv, NEW chain \in Chains(storage), Represents(storage, chain)
  PROVE  /\ storage.count \in Nat
         /\ \A k \in 0 .. storage.count + 1 : chain[k] \in Nat
         /\ \A k \in 1 .. storage.count : /\ chain[k] # Nil
                                          /\ Slot(chain[k]) \in Live(storage)
                                          /\ Link(Slot(chain[k])) = chain[k]
                                          /\ storage.prevs[Slot(chain[k])] = chain[k - 1]
                                          /\ storage.nexts[Slot(chain[k])] = chain[k + 1]
         /\ chain[0] = Nil /\ chain[storage.count + 1] = Nil /\ Nil \in Nat
         /\ storage.head = chain[1] /\ storage.tail = chain[storage.count]
<1>1. /\ storage.cap \in Nat /\ storage \in Storages(storage.cap)
      /\ storage.count \in Nat /\ Live(storage) \subseteq Arena(storage.cap)
  BY StorageFields DEF IInv, TypeOK, IsStorage
<1>2. /\ \A k \in 1 .. storage.count : chain[k] # Nil /\ Slot(chain[k]) \in Live(storage)
      /\ \A k \in 1 .. storage.count : /\ storage.prevs[Slot(chain[k])] = chain[k - 1]
                                       /\ storage.nexts[Slot(chain[k])] = chain[k + 1]
      /\ chain[0] = Nil /\ chain[storage.count + 1] = Nil
      /\ storage.head = chain[1] /\ storage.tail = chain[storage.count]
  BY DEF Represents, Enumerates, Follows
<1>3. \A k \in 0 .. storage.count + 1 : chain[k] \in 0 .. storage.cap
  BY DEF Chains
<1>4. \A k \in 1 .. storage.count : Link(Slot(chain[k])) = chain[k]
  BY <1>1, <1>2, <1>3, LinkFacts
<1>5. Nil \in Nat
  BY DEF Nil
<1> QED BY <1>1, <1>2, <1>3, <1>4, <1>5

-----------------------------------------------------------------------------
(* Moves.                                                                  *)

LEMMA IterInitInv == IterInit => IterInv
<1> SUFFICES ASSUME IterInit PROVE IterInv
  OBVIOUS
<1>1. IInv /\ ~ Iterating
  BY InitIInv DEF IterInit, Iterating
<1> QED BY <1>1 DEF IterInv, IInv, LinksConsistent, GapOf

(* A step that leaves the list alone and moves the cursor to a gap.        *)
LEMMA MoveKeeps ==
  ASSUME IInv, NEW chain, GapOf(chain), UNCHANGED <<storage, gens, issued>>,
         Iterating' => IsGap(cursor', chain, storage.count)
  PROVE  IterInv' /\ \A h \in issued : ~ Valid(h) => ~ Valid(h)'
<1>1. IInv' /\ \A h \in issued : ~ Valid(h) => ~ Valid(h)'
  BY ReadStep
<1>2. GapOf(chain)'
  BY DEF GapOf, Chains, Represents, Live
<1> QED BY <1>1, <1>2 DEF IterInv

(* The list is moved into the iterator at an end (first, last).            *)
LEMMA OpenStep ==
  ASSUME IInv, NEW chain, GapOf(chain), IterFirst \/ IterLast
  PROVE  IterInv' /\ \A h \in issued : ~ Valid(h) => ~ Valid(h)'
<1>1. chain \in Chains(storage) /\ Represents(storage, chain)
  BY DEF GapOf
<1>2. /\ storage.count \in Nat /\ chain[1] \in Nat /\ Nil \in Nat
      /\ storage.head = chain[1] /\ chain[storage.count + 1] = Nil
  BY <1>1, ChainLinks
<1>3. CASE IterFirst
  <2>1. cursor' = IT(chain[1], Nil, TRUE, 0)
    BY <1>2, <1>3 DEF IterFirst, Begin
  <2>2. IsGap(cursor', chain, storage.count)
    <3>1. 0 \in 0 .. storage.count /\ chain[1] = chain[0 + 1] /\ TRUE \in BOOLEAN
      BY <1>2
    <3> QED BY <3>1, <2>1, <1>2, GapForm
  <2> QED BY <2>2, <1>3, MoveKeeps DEF IterFirst, Begin, vars
<1>4. CASE IterLast
  <2>1. cursor' = IT(Nil, Nil, TRUE, storage.count)
    BY <1>4 DEF IterLast, Begin
  <2>2. IsGap(cursor', chain, storage.count)
    <3>1. storage.count \in 0 .. storage.count /\ TRUE \in BOOLEAN
      BY <1>2
    <3> QED BY <3>1, <2>1, <1>2, GapForm
  <2> QED BY <2>2, <1>4, MoveKeeps DEF IterLast, Begin, vars
<1> QED BY <1>3, <1>4

(* A move goes over the element on one side of the gap, or over none at    *)
(* the end of the list (next, previous).                                   *)
LEMMA MoveStep ==
  ASSUME IInv, NEW chain, GapOf(chain), IterNext \/ IterPrevious
  PROVE  IterInv' /\ \A h \in issued : ~ Valid(h) => ~ Valid(h)'
<1> DEFINE n == cursor.next
           index == cursor.index
<1>1. chain \in Chains(storage) /\ Represents(storage, chain)
  BY DEF GapOf
<1>2. Iterating /\ IsGap(cursor, chain, storage.count)
  BY DEF IterNext, IterPrevious, GapOf
<1>3. index \in 0 .. storage.count /\ n = chain[index + 1]
  BY <1>2 DEF IsGap
<1>4. /\ storage.count \in Nat
      /\ \A k \in 0 .. storage.count + 1 : chain[k] \in Nat
      /\ \A k \in 1 .. storage.count : /\ chain[k] # Nil
                                       /\ storage.prevs[Slot(chain[k])] = chain[k - 1]
                                       /\ storage.nexts[Slot(chain[k])] = chain[k + 1]
      /\ chain[0] = Nil /\ chain[storage.count + 1] = Nil
      /\ storage.tail = chain[storage.count]
  BY <1>1, ChainLinks
<1> HIDE DEF n, index
<1>5. n # Nil => index + 1 \in 1 .. storage.count
  BY <1>3, <1>4
<1>6. n = Nil => index = storage.count
  <2>1. index # storage.count => index + 1 \in 1 .. storage.count
    BY <1>3, <1>4
  <2> QED BY <2>1, <1>3, <1>4
<1>7. CASE IterNext
  <2>1. CASE n = Nil
    <3>1. UNCHANGED <<storage, gens, issued, cursor>>
      BY <1>7, <2>1 DEF IterNext, MoveOver, Read, n
    <3> QED BY <3>1, <1>2, MoveKeeps
  <2>2. CASE n # Nil
    <3>1. /\ cursor' = IT(storage.nexts[Slot(n)], n, TRUE, index + 1)
          /\ UNCHANGED <<storage, gens, issued>>
      BY <1>7, <2>2 DEF IterNext, MoveOver, GapLeft, Read, n, index
    <3>2. storage.nexts[Slot(n)] = chain[index + 1 + 1]
      BY <1>3, <1>4, <1>5, <2>2
    <3>3. PICK j \in 1 .. storage.count : j = index + 1
      BY <1>5, <2>2
    <3>4. /\ chain[j + 1] \in Nat /\ chain[j] \in Nat /\ n = chain[j]
          /\ cursor' = IT(chain[j + 1], chain[j], TRUE, j)
      BY <3>1, <3>2, <3>3, <1>3, <1>4
    <3>5. IsGap(cursor', chain, storage.count)
      <4>1. j \in 0 .. storage.count /\ TRUE \in BOOLEAN
        BY <3>3
      <4> QED BY <4>1, <3>4, <1>4, GapForm
    <3> QED BY <3>1, <3>5, MoveKeeps
  <2> QED BY <2>1, <2>2
<1>8. CASE IterPrevious
  <2> DEFINE h == GapLeft(storage.prevs, storage.tail, n, n = Nil)
  <2>1. h = chain[index]
    <3>1. CASE n = Nil
      BY <3>1, <1>4, <1>6 DEF GapLeft
    <3>2. CASE n # Nil
      <4>1. storage.prevs[Slot(chain[index + 1])] = chain[index + 1 - 1]
        <5>1. \A j \in 1 .. storage.count : storage.prevs[Slot(chain[j])] = chain[j - 1]
          BY <1>4
        <5> QED BY <5>1, <3>2, <1>3, <1>4, <1>5
      <4>2. index + 1 - 1 = index
        BY <1>3
      <4> QED BY <3>2, <4>1, <4>2, <1>3 DEF GapLeft
    <3> QED BY <3>1, <3>2
  <2>2. MoveOver(h, h, FALSE, index - 1, "IterPrevious")
    BY <1>8 DEF IterPrevious, n, index
  <2> HIDE DEF h
  <2>3. CASE h = Nil
    <3>1. UNCHANGED <<storage, gens, issued, cursor>>
      BY <2>2, <2>3 DEF MoveOver, Read
    <3> QED BY <3>1, <1>2, MoveKeeps
  <2>4. CASE h # Nil
    <3>1. cursor' = IT(h, h, FALSE, index - 1) /\ UNCHANGED <<storage, gens, issued>>
      BY <2>2, <2>4 DEF MoveOver, Read
    <3>2. index # 0
      BY <2>1, <2>4, <1>4
    <3>3. PICK j \in 0 .. storage.count : j = index - 1 /\ j + 1 = index
      BY <3>2, <1>3, <1>4
    <3>4. chain[j + 1] \in Nat /\ cursor' = IT(chain[j + 1], chain[j + 1], FALSE, j)
      BY <3>1, <3>3, <2>1, <1>3, <1>4
    <3>5. IsGap(cursor', chain, storage.count)
      <4>1. FALSE \in BOOLEAN
        OBVIOUS
      <4> QED BY <4>1, <3>4, <1>4, GapForm
    <3> QED BY <3>1, <3>5, MoveKeeps
  <2> QED BY <2>3, <2>4
<1> QED BY <1>7, <1>8

-----------------------------------------------------------------------------
(* Edits.                                                                  *)

(* The current element is in the list, beside the gap.                     *)
LEMMA CurrentPlace ==
  ASSUME IInv, NEW chain, GapOf(chain), Iterating, cursor.last # Nil
  PROVE  \E k \in 1 .. storage.count :
           /\ k = IF cursor.forward THEN cursor.index ELSE cursor.index + 1
           /\ cursor.last = chain[k] /\ chain[k] = Link(Slot(cursor.last))
           /\ Slot(cursor.last) \in Live(storage)
<1>1. chain \in Chains(storage) /\ Represents(storage, chain)
  BY DEF GapOf
<1>2. IsGap(cursor, chain, storage.count)
  BY DEF GapOf
<1>3. cursor.index \in 0 .. storage.count
  BY <1>2 DEF IsGap
<1>4. /\ storage.count \in Nat
      /\ \A k \in 1 .. storage.count : /\ Slot(chain[k]) \in Live(storage)
                                       /\ Link(Slot(chain[k])) = chain[k]
      /\ chain[0] = Nil /\ chain[storage.count + 1] = Nil
  BY <1>1, ChainLinks
<1>5. PICK k \in 0 .. storage.count + 1 :
        /\ k = IF cursor.forward THEN cursor.index ELSE cursor.index + 1
        /\ cursor.last = chain[k]
  BY <1>2, <1>3, <1>4 DEF IsGap
<1>6. k \in 1 .. storage.count
  BY <1>4, <1>5
<1> QED BY <1>4, <1>5, <1>6

(* Setting the current element leaves every link alone (set).              *)
LEMMA IterSetStep ==
  ASSUME IInv, NEW chain, GapOf(chain), NEW x \in Value, IterSet(x)
  PROVE  /\ IterInv' /\ Overwritten(chain, Slot(cursor.last), x)
         /\ \A h \in issued : ~ Valid(h) => ~ Valid(h)'
<1> DEFINE n == Slot(cursor.last)
<1>1. chain \in Chains(storage) /\ Represents(storage, chain)
  BY DEF GapOf
<1>2. n \in Live(storage)
  BY CurrentPlace DEF IterSet
<1>3. Writing(n, x) /\ cursor' = cursor
  BY DEF IterSet, Writing
<1> HIDE DEF n
<1>4. /\ IInv' /\ Overwritten(chain, n, x)
      /\ \A h \in issued : ~ Valid(h) => ~ Valid(h)'
  BY <1>1, <1>2, <1>3, SetStep
<1>5. GapOf(chain)'
  BY <1>3, <1>4 DEF GapOf, Overwritten, Iterating
<1> QED BY <1>4, <1>5 DEF IterInv, n

(* An addition is an insertion between the gap's two neighbours (add).     *)
LEMMA IterAddInserts ==
  ASSUME IInv, NEW chain, GapOf(chain), NEW x \in Value, IterAdd(x)
  PROVE  \E k \in 1 .. storage.count + 1 :
           /\ k = cursor.index + 1 /\ k - 1 = cursor.index
           /\ Inserting(chain[k - 1], chain[k], x)
<1> DEFINE index == cursor.index
<1>1. chain \in Chains(storage) /\ Represents(storage, chain)
  BY DEF GapOf
<1>2. IsGap(cursor, chain, storage.count) /\ Iterating
  BY DEF GapOf, IterAdd
<1>3. /\ index \in 0 .. storage.count /\ cursor.next = chain[index + 1]
      /\ cursor \in Cursors
  BY <1>2 DEF IsGap
<1>4. /\ storage.count \in Nat
      /\ \A k \in 0 .. storage.count + 1 : chain[k] \in Nat
      /\ \A k \in 1 .. storage.count : /\ chain[k] # Nil
                                       /\ storage.prevs[Slot(chain[k])] = chain[k - 1]
      /\ chain[0] = Nil /\ chain[storage.count + 1] = Nil
      /\ storage.tail = chain[storage.count]
  BY <1>1, ChainLinks
<1>5. PICK k \in 1 .. storage.count + 1 : k = index + 1 /\ k - 1 = index
  BY <1>3, <1>4
<1>6. GapLeft(storage.prevs, storage.tail, chain[k], chain[k] = Nil) = chain[k - 1]
  <2>1. CASE k = storage.count + 1
    BY <2>1, <1>4, <1>5 DEF GapLeft
  <2>2. CASE k # storage.count + 1
    <3>1. k \in 1 .. storage.count
      BY <2>2, <1>4
    <3> QED BY <3>1, <1>4 DEF GapLeft
  <2> QED BY <2>1, <2>2
<1>7. Inserting(chain[k - 1], chain[k], x)
  <2>1. cursor.next = chain[k]
    BY <1>3, <1>5
  <2> QED BY <2>1, <1>6 DEF IterAdd, Inserting
<1> QED BY <1>5, <1>7

(* An element is added before the gap, and no element is current           *)
(* (added).                                                                *)
LEMMA IterAddStep ==
  ASSUME IInv, NEW chain, GapOf(chain), NEW x \in Value, IterAdd(x)
  PROVE  /\ IterInv' /\ Inserted(chain, cursor.index + 1, x)
         /\ \A h \in issued : ~ Valid(h) => ~ Valid(h)'
<1> DEFINE index == cursor.index
           c == InsertedChain(chain, storage.count, index + 1, Link(NextSlot(storage)))
<1>1. chain \in Chains(storage) /\ Represents(storage, chain)
  BY DEF GapOf
<1>2. IsGap(cursor, chain, storage.count) /\ Iterating
  BY DEF GapOf, IterAdd
<1>3. /\ index \in 0 .. storage.count /\ cursor.next = chain[index + 1]
      /\ cursor \in Cursors
  BY <1>2 DEF IsGap
<1>4. storage.count \in Nat
  BY <1>1, ChainLinks
<1>5. PICK k \in 1 .. storage.count + 1 :
        k = index + 1 /\ k - 1 = index /\ Inserting(chain[k - 1], chain[k], x)
  BY IterAddInserts
<1>8. /\ IInv' /\ Inserted(chain, k, x)
      /\ \A h \in issued : ~ Valid(h) => ~ Valid(h)'
  BY <1>1, <1>5, InsertStep
<1>9. Inserted(chain, index + 1, x)
  BY <1>5, <1>8
<1>10. /\ c \in Chains(storage') /\ Represents(storage', c)
       /\ storage'.count = storage.count + 1
  BY <1>9 DEF Inserted
<1>11. cursor' = IT(cursor.next, Nil, cursor.forward, index + 1)
  BY <1>3 DEF IterAdd, Added, Cursors, IT
<1>12. c[index + 1 + 1] = chain[index + 1]
  BY <1>3, <1>4 DEF InsertedChain
<1> HIDE DEF index, c
<1>13. IsGap(cursor', c, storage'.count)
  <2>1. /\ cursor.next \in Nat /\ cursor.forward \in BOOLEAN /\ Nil \in Nat
        /\ index + 1 \in 0 .. storage'.count /\ storage'.count \in Nat
    BY <1>3, <1>4, <1>10 DEF Cursors, Nil
  <2> QED BY <2>1, <1>3, <1>11, <1>12, GapForm
<1>14. PICK d : d = c
  OBVIOUS
<1>15. GapOf(d)'
  BY <1>10, <1>13, <1>14 DEF GapOf
<1> QED BY <1>8, <1>9, <1>15 DEF IterInv, index

(* The current element goes, and the gap stays between the same two of     *)
(* the others (remove_target).                                             *)
LEMMA IterRemoveStep ==
  ASSUME IInv, NEW chain, GapOf(chain), IterRemove
  PROVE  /\ IterInv'
         /\ Dropped(chain, IF cursor.forward THEN cursor.index ELSE cursor.index + 1,
                    Slot(cursor.last))
         /\ \A h \in issued : ~ Valid(h) => ~ Valid(h)'
<1> DEFINE n == Slot(cursor.last)
           index == cursor.index
<1>1. chain \in Chains(storage) /\ Represents(storage, chain)
  BY DEF GapOf
<1>2. IsGap(cursor, chain, storage.count) /\ Iterating /\ cursor.last # Nil
  BY DEF GapOf, IterRemove
<1>3. /\ index \in 0 .. storage.count /\ cursor.next = chain[index + 1]
      /\ cursor.next \in Nat /\ cursor.forward \in BOOLEAN
  BY <1>2 DEF IsGap, Cursors
<1>4. PICK k \in 1 .. storage.count :
        /\ k = IF cursor.forward THEN index ELSE index + 1
        /\ cursor.last = chain[k] /\ chain[k] = Link(n) /\ n \in Live(storage)
  BY <1>2, CurrentPlace
<1>5. /\ storage.count \in Nat /\ Nil \in Nat
      /\ \A j \in 0 .. storage.count + 1 : chain[j] \in Nat
      /\ storage.nexts[n] = chain[k + 1]
  BY <1>1, <1>4, ChainLinks
<1>6. Removing(n) /\ cursor' = Removed(cursor, GapLeft(storage.nexts, cursor.next,
                                                     cursor.last, cursor.forward))
  BY DEF IterRemove, Removing
<1> HIDE DEF n
<1>7. /\ IInv' /\ Dropped(chain, k, n)
      /\ \A h \in issued : ~ Valid(h) => ~ Valid(h)'
  BY <1>1, <1>4, <1>6, RemoveStep
<1> DEFINE c == RemovedChain(chain, storage.count, k)
           gap == IF cursor.forward THEN index - 1 ELSE index
<1>8. /\ c \in Chains(storage') /\ Represents(storage', c)
      /\ storage'.count = storage.count - 1
  BY <1>7 DEF Dropped
<1>9. gap + 1 \in k .. storage.count /\ gap \in 0 .. storage.count - 1
  BY <1>3, <1>4, <1>5
<1>10. cursor' = IT(chain[gap + 1 + 1], Nil, cursor.forward, gap)
  <2>1. CASE cursor.forward
    <3>1. gap + 1 + 1 = index + 1
      BY <2>1, <1>3
    <3> QED BY <2>1, <3>1, <1>3, <1>6 DEF Removed, GapLeft
  <2>2. CASE ~ cursor.forward
    <3>1. gap + 1 + 1 = k + 1
      BY <2>2, <1>3, <1>4
    <3> QED BY <2>2, <3>1, <1>3, <1>5, <1>6 DEF Removed, GapLeft, n
  <2> QED BY <2>1, <2>2
<1> HIDE DEF gap
<1>11. c[gap + 1] = chain[gap + 1 + 1] /\ chain[gap + 1 + 1] \in Nat
  <2>1. /\ gap + 1 \in 0 .. storage.count /\ ~ (gap + 1 < k)
        /\ gap + 1 + 1 \in 0 .. storage.count + 1
    BY <1>9, <1>5
  <2> QED BY <2>1, <1>5 DEF RemovedChain
<1> HIDE DEF c
<1>12. IsGap(cursor', c, storage'.count)
  <2>1. storage'.count \in Nat /\ gap \in 0 .. storage'.count
    BY <1>5, <1>8, <1>9
  <2> QED BY <2>1, <1>3, <1>5, <1>10, <1>11, GapForm
<1>13. PICK d : d = c
  OBVIOUS
<1>14. GapOf(d)'
  BY <1>8, <1>12, <1>13 DEF GapOf
<1> QED BY <1>4, <1>7, <1>14 DEF IterInv, n

-----------------------------------------------------------------------------
(* Steps.                                                                  *)

\* What every step of the list or of its iterator does.
IterKeeps == IterInv' /\ \A h \in issued : ~ Valid(h) => ~ Valid(h)'

LEMMA IterStepKeeps == IterInv /\ [IterStep]_iterVars => IterKeeps
<1> SUFFICES ASSUME IterInv, [IterStep]_iterVars PROVE IterKeeps
  OBVIOUS
<1>1. IInv
  BY DEF IterInv
<1>2. PICK chain : GapOf(chain)
  BY DEF IterInv
<1>3. ASSUME UNCHANGED <<storage, gens, issued, cursor>> PROVE IterKeeps
  BY <1>1, <1>2, <1>3, MoveKeeps DEF GapOf, Iterating, IterKeeps
<1>4. CASE ~ Iterating /\ Next /\ UNCHANGED cursor
  <2>1. Keeps
    BY <1>1, <1>4, NextKeeps
  <2>2. PICK c \in Chains(storage') : Represents(storage', c)
    BY <2>1 DEF Keeps, IInv, LinksConsistent
  <2>3. GapOf(c)'
    BY <2>2, <1>4 DEF GapOf, Iterating
  <2> QED BY <2>1, <2>3 DEF Keeps, IterKeeps, IterInv
<1>5. CASE IterFirst \/ IterLast
  BY <1>1, <1>2, <1>5, OpenStep DEF IterKeeps
<1>6. CASE Finish
  BY <1>1, <1>2, <1>6, MoveKeeps DEF Finish, Iterating, IterKeeps, vars
<1>7. CASE IterNext \/ IterPrevious
  BY <1>1, <1>2, <1>7, MoveStep DEF IterKeeps
<1>8. CASE IterRemove
  BY <1>1, <1>2, <1>8, IterRemoveStep DEF IterKeeps
<1>9. ASSUME NEW x \in Value, IterSet(x) \/ IterAdd(x) PROVE IterKeeps
  BY <1>1, <1>2, <1>9, IterSetStep, IterAddStep DEF IterKeeps
<1>10. CASE HasNext \/ HasPrevious \/ Position
  BY <1>3, <1>10 DEF HasNext, HasPrevious, Position, Answer, Read
<1>11. CASE NoCurrent("IterSet") \/ NoCurrent("IterRemove")
  BY <1>3, <1>11 DEF NoCurrent, Read
<1>12. CASE UNCHANGED iterVars
  BY <1>3, <1>12 DEF iterVars, vars
<1> QED BY <1>4, <1>5, <1>6, <1>7, <1>8, <1>9, <1>10, <1>11, <1>12 DEF IterStep

-----------------------------------------------------------------------------
(* The theorems.                                                           *)

(* The list's invariant holds under the iterator's edits too, and the      *)
(* cursor is a gap of the list it goes over.                               *)
THEOREM IteratorInvariant == IterSpec => []IterInv
<1>1. IterInv /\ [IterStep]_iterVars => IterInv'
  BY IterStepKeeps DEF IterKeeps
<1> QED BY <1>1, IterInitInv, PTL DEF IterSpec

(* The cursor is always a gap of the list, and its current element is      *)
(* beside it: no edit leaves it on a slot recycled under it                *)
(* (remove_target, added).                                                 *)
THEOREM CursorIsAlwaysAGap == IterSpec => []CursorIsAGap
  BY IteratorInvariant, IterInvImpliesGap, PTL

(* The iterator's edits, which pass every check of a handle, leave the     *)
(* links consistent and lose no slot (cursor_remove, cursor_add).          *)
THEOREM IterationKeepsTheList ==
  IterSpec => [](TypeOK /\ LinksConsistent /\ NoSlotLeaks)
<1>1. IterInv => TypeOK /\ LinksConsistent /\ NoSlotLeaks
  BY IInvImpliesNoSlotLeaks DEF IterInv, IInv
<1> QED BY <1>1, IteratorInvariant, PTL

(* A handle whose element an iterator removed is stale for ever, as after  *)
(* the list's own removal.                                                 *)
THEOREM IterationRevivesNoHandle == IterSpec => HandlesOutliveIterations
<1>1. IterInv /\ [IterStep]_iterVars =>
        [\A h \in issued : ~ Valid(h) => ~ Valid(h)']_iterVars
  BY IterStepKeeps DEF IterKeeps
<1> QED BY <1>1, IteratorInvariant, PTL DEF IterSpec, HandlesOutliveIterations

-----------------------------------------------------------------------------
(* Refinement.                                                             *)

\* The position of the current element of a gap, or 0.
Place(c) == IF c.last = Nil THEN 0 ELSE IF c.forward THEN c.index ELSE c.index + 1

\* CurrentPosition, of any storage and cursor.
WalkedPosition(s, c) ==
  LET links == BackwardWalk(s)
      order == [k \in 1 .. s.count |-> Slot(links[k])]
  IN IF c.last = Nil THEN 0
     ELSE CHOOSE k \in 1 .. s.count : order[k] = Slot(c.last)

(* The current element's slot is at one position only, beside the gap.     *)
LEMMA GapPosition ==
  ASSUME NEW s, IsStorage(s), NEW chain \in Chains(s), Represents(s, chain),
         NEW c, IsGap(c, chain, s.count)
  PROVE  WalkedPosition(s, c) = Place(c) /\ (c.last # Nil => Place(c) \in 1 .. s.count)
<1>1. /\ s.count \in Nat /\ s.cap \in Nat
      /\ chain[0] = Nil /\ chain[s.count + 1] = Nil
      /\ \A j, k \in 1 .. s.count : chain[j] = chain[k] => j = k
  BY StorageFields DEF IsStorage, Represents, Enumerates
<1>2. /\ c \in Cursors /\ c.index \in 0 .. s.count
      /\ c.last = Nil \/ c.last = chain[IF c.forward THEN c.index ELSE c.index + 1]
  BY DEF IsGap
<1>3. CASE c.last = Nil
  BY <1>3 DEF WalkedPosition, Place
<1>4. CASE c.last # Nil
  <2>1. PICK p \in 0 .. s.count + 1 : p = Place(c) /\ c.last = chain[p]
    BY <1>1, <1>2, <1>4 DEF Place, Cursors
  <2>2. p \in 1 .. s.count
    BY <2>1, <1>1, <1>4
  <2> DEFINE order == [k \in 1 .. s.count |-> Slot([j \in 1 .. s.count |-> chain[j]][k])]
  <2>3. order = [k \in 1 .. s.count |-> Slot(chain[k])]
    OBVIOUS
  <2>4. ASSUME NEW k \in 1 .. s.count PROVE Slot(chain[k]) = Slot(c.last) <=> k = p
    <3>1. k \in 0 .. s.count + 1
      BY <1>1
    <3>2. chain[k] \in Nat /\ chain[p] \in Nat
      BY <3>1, <1>1 DEF Chains
    <3> QED BY <3>2, <2>1, <2>2, <1>1 DEF Slot
  <2>5. \A k \in 1 .. s.count : order[k] = Slot(c.last) <=> k = p
    BY <2>3, <2>4
  <2>6. WalkedPosition(s, c) = CHOOSE k \in 1 .. s.count : order[k] = Slot(c.last)
    <3>1. BackwardWalk(s) = [j \in 1 .. s.count |-> chain[j]]
      BY <1>1, WalkIsChain
    <3> QED BY <3>1, <1>4 DEF WalkedPosition
  <2> HIDE DEF order
  <2>7. WalkedPosition(s, c) = p
    BY <2>2, <2>5, <2>6
  <2> QED BY <2>1, <2>2, <2>7
<1> QED BY <1>3, <1>4

(* The cursor, as the abstract iterator sees it.                           *)
LEMMA CursorRefines ==
  ASSUME IterInv
  PROVE  /\ CurrentPosition = IF Iterating THEN Place(cursor) ELSE 0
         /\ Iterating /\ cursor.last # Nil => Place(cursor) \in 1 .. storage.count
<1>1. PICK chain : GapOf(chain)
  BY DEF IterInv
<1>2. IsStorage(storage)
  BY DEF IterInv, IInv, TypeOK
<1>3. CASE Iterating
  <2>1. CurrentPosition = WalkedPosition(storage, cursor)
    BY <1>3 DEF CurrentPosition, WalkedPosition, Order
  <2> QED BY <2>1, <1>1, <1>2, <1>3, GapPosition DEF GapOf
<1>4. CASE ~ Iterating
  BY <1>4 DEF CurrentPosition
<1> QED BY <1>3, <1>4

LEMMA NextCursorRefines ==
  ASSUME IterInv'
  PROVE  CurrentPosition' = IF Iterating' THEN Place(cursor') ELSE 0
<1>1. PICK chain : GapOf(chain)'
  BY DEF IterInv
<1>2. IsStorage(storage')
  BY DEF IterInv, IInv, TypeOK
<1>3. CASE Iterating'
  <2>1. CurrentPosition' = WalkedPosition(storage', cursor')
    BY <1>3 DEF CurrentPosition, WalkedPosition, Order
  <2> QED BY <2>1, <1>1, <1>2, <1>3, GapPosition DEF GapOf
<1>4. CASE ~ Iterating'
  BY <1>4 DEF CurrentPosition
<1> QED BY <1>3, <1>4

(* A cursor that was set to a gap is one.                                  *)
LEMMA CursorSet ==
  ASSUME NEW next \in Nat, NEW last \in Nat, NEW forward \in BOOLEAN, NEW index \in Nat,
         cursor' = IT(next, last, forward, index)
  PROVE  /\ Iterating' /\ cursor'.index = index
         /\ Place(cursor') = IF last = Nil THEN 0 ELSE IF forward THEN index ELSE index + 1
<1>1. /\ cursor' \in Cursors /\ cursor'.last = last
      /\ cursor'.forward = forward /\ cursor'.index = index
  BY CursorFields
<1>2. Iterating'
  BY <1>1, NoCursorAssumption DEF Iterating
<1> QED BY <1>1, <1>2 DEF Place

(* The list's own calls, outside iterations, are those of the same         *)
(* abstract list.                                                          *)
LEMMA SameListSteps ==
  /\ Abstract!HandleListNext => AbstractIterator!HandleListNext
  /\ Abstract!HandleListInit => AbstractIterator!HandleListInit
  /\ UNCHANGED Abstract!vars => UNCHANGED AbstractIterator!vars
<1>1. \A h, k, x : Abstract!AddEntry(h, k, x) => AbstractIterator!AddEntry(h, k, x)
  BY DEF Abstract!AddEntry, Abstract!InsertAt,
         AbstractIterator!AddEntry, AbstractIterator!InsertAt
<1>2. \A call, k, x :
        Abstract!InsertEntry(call, k, x) => AbstractIterator!InsertEntry(call, k, x)
  BY <1>1 DEF Abstract!InsertEntry, AbstractIterator!InsertEntry
<1>3. \A x : Abstract!Push(x) => AbstractIterator!Push(x)
  BY <1>2 DEF Abstract!Push, AbstractIterator!Push
<1>4. \A k, x : Abstract!InsertBeside(k, x) => AbstractIterator!InsertBeside(k, x)
  BY <1>2 DEF Abstract!InsertBeside, AbstractIterator!InsertBeside
<1>5. \A k, x : Abstract!Set(k, x) => AbstractIterator!Set(k, x)
  BY DEF Abstract!Set, AbstractIterator!Set
<1>6. \A k : Abstract!RemoveElement(k) => AbstractIterator!RemoveElement(k)
  BY DEF Abstract!RemoveElement, Abstract!RemoveAt,
         AbstractIterator!RemoveElement, AbstractIterator!RemoveAt
<1>7. \A k : Abstract!ReadElement(k) => AbstractIterator!ReadElement(k)
  BY DEF Abstract!ReadElement, Abstract!HandleAt,
         AbstractIterator!ReadElement, AbstractIterator!HandleAt
<1>8. Abstract!ReadAll => AbstractIterator!ReadAll
  BY DEF Abstract!ReadAll, AbstractIterator!ReadAll
<1>9. \A h, error : Abstract!Refused(h, error) => AbstractIterator!Refused(h, error)
  BY DEF Abstract!Refused, AbstractIterator!Refused
<1>10. Abstract!Unused = AbstractIterator!Unused
  BY DEF Abstract!Unused, AbstractIterator!Unused
<1>11. Abstract!HandleListNext => AbstractIterator!HandleListNext
  BY <1>3, <1>4, <1>5, <1>6, <1>7, <1>8, <1>9, <1>10
     DEF Abstract!HandleListNext, AbstractIterator!HandleListNext
<1>12. Abstract!HandleListInit => AbstractIterator!HandleListInit
  BY DEF Abstract!HandleListInit, AbstractIterator!HandleListInit
<1>13. UNCHANGED Abstract!vars => UNCHANGED AbstractIterator!vars
  BY DEF Abstract!vars, AbstractIterator!vars
<1> QED BY <1>11, <1>12, <1>13

\* What a step of the iterator leaves alone.
LEMMA IteratorKept ==
  ASSUME IterInv, IterInv', cursor' = cursor
  PROVE  UNCHANGED AbstractIterator!iterator
<1>1. Iterating' = Iterating /\ CurrentPosition' = CurrentPosition
  BY CursorRefines, NextCursorRefines DEF Iterating, Place
<1> QED BY <1>1 DEF AbstractIterator!iterator

(* The list goes into the iterator at an end, and out of it (first, last,  *)
(* into_list).                                                             *)
LEMMA OpenRefines ==
  ASSUME IterInv, IterInv', IterFirst \/ IterLast \/ Finish
  PROVE  AbstractIterator!IteratorNext
<1>1. PICK chain : GapOf(chain)
  BY DEF IterInv
<1>2. chain \in Chains(storage) /\ Represents(storage, chain) /\ IInv
  BY <1>1 DEF GapOf, IterInv
<1>3. /\ storage.count \in Nat /\ chain[1] \in Nat /\ Nil \in Nat
      /\ storage.head = chain[1] /\ Len(Entries) = storage.count
  BY <1>2, ChainLinks, EntriesFacts
<1>4. UNCHANGED vars /\ Entries' = Entries
  BY EntriesKept DEF IterFirst, IterLast, Finish, Begin, vars
<1>5. UNCHANGED AbstractIterator!vars
  BY <1>4 DEF vars, AbstractIterator!vars
<1>6. CASE IterFirst
  <2>1. ~ Iterating /\ cursor' = IT(chain[1], Nil, TRUE, 0)
    BY <1>3, <1>6 DEF IterFirst, Begin
  <2>2. Iterating' /\ cursor'.index = 0 /\ Place(cursor') = 0
    BY <2>1, <1>3, CursorSet
  <2>3. CurrentPosition' = 0
    BY <2>2, NextCursorRefines
  <2>4. AbstractIterator!Open(0)
    BY <2>1, <2>2, <2>3, <1>5 DEF AbstractIterator!Open
  <2> QED BY <2>4 DEF AbstractIterator!IteratorNext
<1>7. CASE IterLast
  <2>1. ~ Iterating /\ cursor' = IT(Nil, Nil, TRUE, storage.count)
    BY <1>7 DEF IterLast, Begin
  <2>2. Iterating' /\ cursor'.index = storage.count /\ Place(cursor') = 0
    BY <2>1, <1>3, CursorSet
  <2>3. CurrentPosition' = 0
    BY <2>2, NextCursorRefines
  <2>4. AbstractIterator!Open(Len(Entries))
    BY <2>1, <2>2, <2>3, <1>3, <1>5 DEF AbstractIterator!Open
  <2> QED BY <2>4 DEF AbstractIterator!IteratorNext
<1>8. CASE Finish
  <2>1. Iterating /\ ~ Iterating' /\ CurrentPosition' = 0
    BY <1>8, NextCursorRefines DEF Finish, Iterating
  <2>2. AbstractIterator!Close
    BY <2>1, <1>5 DEF AbstractIterator!Close
  <2> QED BY <2>2 DEF AbstractIterator!IteratorNext
<1> QED BY <1>6, <1>7, <1>8

\* What the fields of a cursor in the list of chain are.
LEMMA GapFields ==
  ASSUME IterInv, NEW chain, GapOf(chain), Iterating
  PROVE  /\ IInv /\ chain \in Chains(storage) /\ Represents(storage, chain)
         /\ cursor.index \in 0 .. storage.count
         /\ cursor.next = chain[cursor.index + 1] /\ cursor.next \in Nat
         /\ cursor.last \in Nat /\ cursor.forward \in BOOLEAN
         /\ storage.count \in Nat /\ Entries \in Seq(Entry)
         /\ Len(Entries) = storage.count
         /\ \A k \in 1 .. storage.count :
              /\ chain[k] \in Nat /\ chain[k] # Nil
              /\ Entries[k].v = storage.vals[Slot(chain[k])]
              /\ storage.prevs[Slot(chain[k])] = chain[k - 1]
              /\ storage.nexts[Slot(chain[k])] = chain[k + 1]
         /\ chain[0] = Nil /\ chain[storage.count + 1] = Nil /\ Nil \in Nat
         /\ storage.tail = chain[storage.count]
         /\ \A k \in 0 .. storage.count + 1 : chain[k] \in Nat
<1>1. /\ IInv /\ chain \in Chains(storage) /\ Represents(storage, chain)
      /\ IsGap(cursor, chain, storage.count)
  BY DEF GapOf, IterInv
<1>2. /\ storage.count \in Nat /\ Entries \in Seq(Entry)
      /\ Len(Entries) = storage.count
      /\ \A k \in 1 .. storage.count : Entries[k] = EntryOf(storage, gens, chain[k])
  BY <1>1, EntriesFacts
<1>3. ASSUME NEW k \in 1 .. storage.count
      PROVE  Entries[k].v = storage.vals[Slot(chain[k])]
  <2>1. Entries[k] = EntryOf(storage, gens, chain[k])
    BY <1>2
  <2> QED BY <2>1 DEF EntryOf
<1>4. \A k \in 1 .. storage.count : k \in 0 .. storage.count + 1
  BY <1>2
<1> QED BY <1>1, <1>2, <1>3, <1>4, ChainLinks DEF IsGap, Cursors

(* Going over an element or finding none is the abstract move (next,       *)
(* previous).                                                              *)
LEMMA MoveRefines ==
  ASSUME IterInv, IterInv', IterNext \/ IterPrevious
  PROVE  AbstractIterator!IteratorNext
<1> DEFINE index == cursor.index
           n == cursor.next
<1>1. PICK chain : GapOf(chain)
  BY DEF IterInv
<1>2. Iterating
  BY DEF IterNext, IterPrevious
<1>3. /\ index \in 0 .. storage.count /\ n = chain[index + 1] /\ n \in Nat
      /\ storage.count \in Nat /\ Len(Entries) = storage.count
      /\ \A k \in 1 .. storage.count :
           /\ chain[k] \in Nat /\ chain[k] # Nil
           /\ Entries[k].v = storage.vals[Slot(chain[k])]
           /\ storage.prevs[Slot(chain[k])] = chain[k - 1]
           /\ storage.nexts[Slot(chain[k])] = chain[k + 1]
      /\ chain[0] = Nil /\ chain[storage.count + 1] = Nil /\ Nil \in Nat
      /\ storage.tail = chain[storage.count]
      /\ \A k \in 0 .. storage.count + 1 : chain[k] \in Nat
  BY <1>1, <1>2, GapFields
<1>4. UNCHANGED <<storage, gens, issued>> /\ Entries' = Entries
  BY EntriesKept DEF IterNext, IterPrevious, MoveOver, Read
<1>5. CASE IterNext
  <2>1. CASE index = storage.count
    <3>1. n = Nil
      BY <2>1, <1>3
    <3>2. obs' = <<"IterNext", "Exhausted">> /\ cursor' = cursor
      BY <3>1, <1>5 DEF IterNext, MoveOver, Read
    <3>3. UNCHANGED AbstractIterator!iterator
      BY <3>2, IteratorKept
    <3>4. ~ (index + 1 \in 1 .. Len(Entries))
      BY <2>1, <1>3
    <3>5. AbstractIterator!Forward
      BY <3>2, <3>3, <3>4, <1>2, <1>4
         DEF AbstractIterator!Forward, AbstractIterator!Move
    <3> QED BY <3>5 DEF AbstractIterator!IteratorNext
  <2>2. CASE index # storage.count
    <3>1. PICK k \in 1 .. storage.count : k = index + 1
      BY <2>2, <1>3
    <3>2. n = chain[k] /\ n # Nil
      BY <3>1, <1>3
    <3>3. /\ cursor' = IT(chain[k + 1], n, TRUE, k)
          /\ obs' = <<"IterNext", "Done", storage.vals[Slot(n)]>>
      BY <3>1, <3>2, <1>3, <1>5 DEF IterNext, MoveOver, Read, GapLeft
    <3>4. chain[k + 1] \in Nat /\ k \in Nat
      BY <1>3
    <3>5. Iterating' /\ cursor'.index = k /\ Place(cursor') = k
      <4>1. PICK l \in Nat : l = n
        BY <1>3
      <4>2. PICK next \in Nat : next = chain[k + 1]
        BY <3>4
      <4>3. cursor' = IT(next, l, TRUE, k) /\ l # Nil
        BY <4>1, <4>2, <3>2, <3>3
      <4> QED BY <4>3, <3>4, CursorSet
    <3>6. CurrentPosition' = k
      BY <3>5, NextCursorRefines
    <3>7. index + 1 \in 1 .. Len(Entries) /\ Entries[index + 1].v = storage.vals[Slot(n)]
      BY <3>1, <3>2, <1>3
    <3>8. AbstractIterator!Forward
      BY <3>1, <3>3, <3>5, <3>6, <3>7, <1>2, <1>4
         DEF AbstractIterator!Forward, AbstractIterator!Move
    <3> QED BY <3>8 DEF AbstractIterator!IteratorNext
  <2> QED BY <2>1, <2>2
<1>6. CASE IterPrevious
  <2> DEFINE h == GapLeft(storage.prevs, storage.tail, n, n = Nil)
  <2>1. h = chain[index]
    <3>1. CASE index = storage.count
      <4>1. n = Nil
        BY <3>1, <1>3
      <4> QED BY <4>1, <3>1, <1>3 DEF GapLeft
    <3>2. CASE index # storage.count
      <4>1. PICK k \in 1 .. storage.count : k = index + 1 /\ k - 1 = index
        BY <3>2, <1>3
      <4>2. n = chain[k] /\ n # Nil
        BY <4>1, <1>3
      <4>3. storage.prevs[Slot(n)] = chain[index]
        BY <4>1, <4>2, <1>3
      <4> QED BY <4>2, <4>3 DEF GapLeft
    <3> QED BY <3>1, <3>2
  <2>2. MoveOver(h, h, FALSE, index - 1, "IterPrevious")
    BY <1>6 DEF IterPrevious
  <2> HIDE DEF h
  <2>3. CASE index = 0
    <3>1. h = Nil
      BY <2>1, <2>3, <1>3
    <3>2. obs' = <<"IterPrevious", "Exhausted">> /\ cursor' = cursor
      BY <3>1, <2>2 DEF MoveOver, Read
    <3>3. UNCHANGED AbstractIterator!iterator
      BY <3>2, IteratorKept
    <3>4. ~ (index \in 1 .. Len(Entries))
      BY <2>3
    <3>5. AbstractIterator!Backward
      BY <3>2, <3>3, <3>4, <1>2, <1>4
         DEF AbstractIterator!Backward, AbstractIterator!Move
    <3> QED BY <3>5 DEF AbstractIterator!IteratorNext
  <2>4. CASE index # 0
    <3>1. index \in 1 .. storage.count /\ index - 1 \in Nat
      BY <2>4, <1>3
    <3>2. h \in Nat /\ h # Nil
      BY <3>1, <2>1, <1>3
    <3>3. /\ cursor' = IT(h, h, FALSE, index - 1)
          /\ obs' = <<"IterPrevious", "Done", storage.vals[Slot(h)]>>
      BY <3>2, <2>2 DEF MoveOver, Read
    <3>4. Iterating' /\ cursor'.index = index - 1 /\ Place(cursor') = index
      <4>1. index - 1 + 1 = index
        BY <3>1
      <4> QED BY <4>1, <3>1, <3>2, <3>3, CursorSet
    <3>5. CurrentPosition' = index
      BY <3>4, NextCursorRefines
    <3>6. index \in 1 .. Len(Entries) /\ Entries[index].v = storage.vals[Slot(h)]
      BY <3>1, <2>1, <1>3
    <3>7. AbstractIterator!Backward
      BY <3>3, <3>4, <3>5, <3>6, <1>2, <1>4
         DEF AbstractIterator!Backward, AbstractIterator!Move
    <3> QED BY <3>7 DEF AbstractIterator!IteratorNext
  <2> QED BY <2>3, <2>4
<1> QED BY <1>5, <1>6

(* Writing the current element is writing the abstract one (set).          *)
LEMMA IterSetRefines ==
  ASSUME IterInv, IterInv', NEW x \in Value, IterSet(x)
  PROVE  AbstractIterator!SetCurrent(x)
<1>1. PICK chain : GapOf(chain)
  BY DEF IterInv
<1>2. Iterating /\ cursor.last # Nil /\ cursor' = cursor
  BY DEF IterSet
<1>3. IInv /\ chain \in Chains(storage) /\ Represents(storage, chain)
  BY <1>1, <1>2, GapFields
<1>4. PICK k \in 1 .. storage.count :
        /\ k = Place(cursor)
        /\ chain[k] = Link(Slot(cursor.last)) /\ Slot(cursor.last) \in Live(storage)
  BY <1>1, <1>2, <1>3, CurrentPlace DEF Place
<1>5. Writing(Slot(cursor.last), x) /\ obs' = <<"IterSet", x, "Done">>
  BY DEF IterSet, Writing
<1>6. Entries' = [Entries EXCEPT ![k].v = x] /\ issued' = issued
  BY <1>3, <1>4, <1>5, SetRefines
<1>7. CurrentPosition = k /\ k # 0
  BY <1>2, <1>4, CursorRefines
<1>8. UNCHANGED AbstractIterator!iterator
  BY <1>2, IteratorKept
<1> QED BY <1>2, <1>5, <1>6, <1>7, <1>8 DEF AbstractIterator!SetCurrent

(* A removal takes out the element at the current position, and the gap    *)
(* moves with it when it was before it (remove_target).                    *)
LEMMA IterRemoveRefines ==
  ASSUME IterInv, IterInv', IterRemove
  PROVE  AbstractIterator!RemoveCurrent
<1> DEFINE n == Slot(cursor.last)
           index == cursor.index
           gap == IF cursor.forward THEN index - 1 ELSE index
<1>1. PICK chain : GapOf(chain)
  BY DEF IterInv
<1>2. Iterating /\ cursor.last # Nil /\ obs' = <<"IterRemove", "Done">>
  BY DEF IterRemove
<1>3. /\ IInv /\ chain \in Chains(storage) /\ Represents(storage, chain)
      /\ index \in 0 .. storage.count /\ storage.count \in Nat
      /\ cursor.next \in Nat /\ cursor.forward \in BOOLEAN /\ Nil \in Nat
      /\ \A k \in 0 .. storage.count + 1 : chain[k] \in Nat
  BY <1>1, <1>2, GapFields
<1>4. PICK k \in 1 .. storage.count :
        /\ k = Place(cursor) /\ k = IF cursor.forward THEN index ELSE index + 1
        /\ cursor.last = chain[k]
        /\ chain[k] = Link(n) /\ n \in Live(storage)
  BY <1>1, <1>2, <1>3, CurrentPlace DEF Place
<1>5. Removing(n)
  BY DEF IterRemove, Removing
<1>6. Entries' = Abstract!RemoveAt(Entries, k) /\ issued' = issued
  BY <1>3, <1>4, <1>5, RemoveRefines
<1>7. CurrentPosition = k /\ k # 0
  BY <1>2, <1>4, CursorRefines
<1>8. \E next \in Nat : cursor' = IT(next, Nil, cursor.forward, gap)
  <2>1. cursor' = Removed(cursor, GapLeft(storage.nexts, cursor.next,
                                          cursor.last, cursor.forward))
    BY DEF IterRemove
  <2>2. CASE cursor.forward
    BY <2>1, <2>2, <1>3 DEF Removed, GapLeft
  <2>3. CASE ~ cursor.forward
    <3>1. storage.nexts[n] = chain[k + 1] /\ chain[k + 1] \in Nat
      <4>1. Slot(chain[k]) = n
        BY <1>4
      <4>2. storage.nexts[Slot(chain[k])] = chain[k + 1]
        BY <1>1, <1>2, GapFields
      <4> QED BY <4>1, <4>2, <1>3
    <3> QED BY <2>1, <2>3, <3>1 DEF Removed, GapLeft
  <2> QED BY <2>2, <2>3
<1>9. PICK next \in Nat : cursor' = IT(next, Nil, cursor.forward, gap)
  BY <1>8
<1>10. gap \in Nat /\ gap = IF k <= index THEN index - 1 ELSE index
  BY <1>3, <1>4
<1> HIDE DEF gap, n
<1>11. Iterating' /\ cursor'.index = gap /\ Place(cursor') = 0
  BY <1>3, <1>9, <1>10, CursorSet
<1>12. CurrentPosition' = 0
  BY <1>11, NextCursorRefines
<1>13. Entries' = AbstractIterator!RemoveAt(Entries, k)
  BY <1>6 DEF Abstract!RemoveAt, AbstractIterator!RemoveAt
<1> QED BY <1>2, <1>6, <1>7, <1>10, <1>11, <1>12, <1>13
        DEF AbstractIterator!RemoveCurrent

(* An insertion puts an entry under a new handle before the gap (add).     *)
LEMMA IterAddRefines ==
  ASSUME IterInv, IterInv', NEW x \in Value, IterAdd(x)
  PROVE  AbstractIterator!AddBefore(x)
<1> DEFINE index == cursor.index
<1>1. PICK chain : GapOf(chain)
  BY DEF IterInv
<1>2. /\ Iterating /\ obs' = <<"IterAdd", x, "Done">>
      /\ cursor' = Added(cursor)
  BY DEF IterAdd
<1>3. /\ IInv /\ chain \in Chains(storage) /\ Represents(storage, chain)
      /\ index \in 0 .. storage.count /\ storage.count \in Nat
  BY <1>1, <1>2, GapFields
<1>4. PICK k \in 1 .. storage.count + 1 :
        k = index + 1 /\ k - 1 = index /\ Inserting(chain[k - 1], chain[k], x)
  BY <1>1, <1>3, IterAddInserts
<1>6. PICK h \in Handle \ issued : Abstract!AddEntry(h, k, x)
  BY <1>3, <1>4, InsertingRefines
<1>7. cursor \in Cursors
  BY <1>1, <1>2 DEF GapOf, IsGap
<1>8. /\ cursor' \in Cursors /\ cursor'.index = k /\ cursor'.last = Nil
  <2>1. k \in Nat /\ Nil \in Nat
    BY <1>3 DEF Nil
  <2>2. cursor' = [cursor EXCEPT !.last = Nil, !.index = k]
    BY <1>2, <1>4 DEF Added
  <2> QED BY <2>1, <2>2, <1>7 DEF Cursors
<1>9. Iterating' /\ Place(cursor') = 0
  BY <1>8, NoCursorAssumption DEF Iterating, Place
<1>10. CurrentPosition' = 0
  BY <1>9, NextCursorRefines
<1>11. AbstractIterator!AddEntry(h, k, x)
  BY <1>6 DEF Abstract!AddEntry, Abstract!InsertAt,
              AbstractIterator!AddEntry, AbstractIterator!InsertAt
<1> QED BY <1>2, <1>4, <1>8, <1>9, <1>10, <1>11 DEF AbstractIterator!AddBefore

(* The iterator's questions are answered as the abstract one answers them  *)
(* (has_next, has_previous, position).                                     *)
LEMMA AskRefines ==
  ASSUME IterInv, IterInv', HasNext \/ HasPrevious \/ Position
  PROVE  AbstractIterator!Ask
<1>1. PICK chain : GapOf(chain)
  BY DEF IterInv
<1>2. /\ Iterating /\ UNCHANGED <<storage, gens, issued, cursor>>
      /\ \/ obs' = <<"HasNext", cursor.next # Nil>>
         \/ obs' = <<"HasPrevious", cursor.index > 0>>
         \/ obs' = <<"Position", cursor.index>>
  BY DEF HasNext, HasPrevious, Position, Answer, Read
<1>3. Entries' = Entries /\ UNCHANGED AbstractIterator!iterator
  BY <1>2, EntriesKept, IteratorKept
<1>4. (cursor.next # Nil) = (cursor.index < Len(Entries))
  <2>1. /\ cursor.index \in 0 .. storage.count
        /\ cursor.next = chain[cursor.index + 1]
        /\ storage.count \in Nat /\ Len(Entries) = storage.count
        /\ \A k \in 1 .. storage.count : chain[k] # Nil
        /\ chain[storage.count + 1] = Nil
    BY <1>1, <1>2, GapFields
  <2>2. CASE cursor.index = storage.count
    BY <2>1, <2>2
  <2>3. CASE cursor.index # storage.count
    <3>1. PICK k \in 1 .. storage.count : k = cursor.index + 1
      BY <2>1, <2>3
    <3> QED BY <2>1, <2>3, <3>1
  <2> QED BY <2>2, <2>3
<1>5. /\ (cursor.next # Nil) \in BOOLEAN /\ (cursor.index < Len(Entries)) \in BOOLEAN
  OBVIOUS
<1> QED BY <1>2, <1>3, <1>4 DEF AbstractIterator!Ask

(* Every step of the list or of its iterator is a step of the abstract     *)
(* iterator.                                                               *)
LEMMA IterStepRefines ==
  IterInv /\ IterInv' /\ [IterStep]_iterVars =>
    [AbstractIterator!IteratorNext]_<<AbstractIterator!vars, AbstractIterator!iterator>>
<1> SUFFICES ASSUME IterInv, IterInv', [IterStep]_iterVars
             PROVE  \/ AbstractIterator!IteratorNext
                    \/ UNCHANGED <<AbstractIterator!vars, AbstractIterator!iterator>>
  OBVIOUS
<1>1. IInv
  BY DEF IterInv
<1>2. ASSUME UNCHANGED <<vars, cursor>>
      PROVE  UNCHANGED <<AbstractIterator!vars, AbstractIterator!iterator>>
  BY <1>2, EntriesKept, IteratorKept DEF vars, AbstractIterator!vars
<1>3. CASE ~ Iterating /\ Next /\ UNCHANGED cursor
  <2>1. \/ Abstract!HandleListNext
        \/ UNCHANGED Abstract!vars
    BY <1>1, <1>3, StepRefines
  <2>2. UNCHANGED AbstractIterator!iterator
    BY <1>3, IteratorKept
  <2>3. CASE Abstract!HandleListNext
    BY <2>2, <2>3, <1>3, SameListSteps DEF AbstractIterator!IteratorNext
  <2>4. CASE UNCHANGED Abstract!vars
    BY <2>2, <2>4, SameListSteps
  <2> QED BY <2>1, <2>3, <2>4
<1>4. CASE IterFirst \/ IterLast \/ Finish
  BY <1>4, OpenRefines
<1>5. CASE IterNext \/ IterPrevious
  BY <1>5, MoveRefines
<1>6. CASE IterRemove
  BY <1>6, IterRemoveRefines DEF AbstractIterator!IteratorNext
<1>7. ASSUME NEW x \in Value, IterSet(x) \/ IterAdd(x)
      PROVE  AbstractIterator!IteratorNext
  BY <1>7, IterSetRefines, IterAddRefines DEF AbstractIterator!IteratorNext
<1>8. CASE HasNext \/ HasPrevious \/ Position
  BY <1>8, AskRefines DEF AbstractIterator!IteratorNext
<1>9. ASSUME NEW call, NoCurrent(call) PROVE AbstractIterator!NoCurrent(call)
  <2>1. /\ Iterating /\ cursor.last = Nil /\ obs' = <<call, "NoCurrent">>
        /\ UNCHANGED <<storage, gens, issued, cursor>>
    BY <1>9 DEF NoCurrent, Read
  <2>2. CurrentPosition = 0
    BY <2>1, CursorRefines DEF Place
  <2>3. Entries' = Entries /\ UNCHANGED AbstractIterator!iterator
    BY <2>1, EntriesKept, IteratorKept
  <2> QED BY <2>1, <2>2, <2>3 DEF AbstractIterator!NoCurrent
<1>10. CASE NoCurrent("IterSet") \/ NoCurrent("IterRemove")
  BY <1>9, <1>10 DEF AbstractIterator!IteratorNext
<1>11. CASE UNCHANGED iterVars
  BY <1>2, <1>11 DEF iterVars
<1> QED BY <1>3, <1>4, <1>5, <1>6, <1>7, <1>8, <1>10, <1>11 DEF IterStep

LEMMA IterInitRefines == IterInit => AbstractIterator!IteratorInit
<1> SUFFICES ASSUME IterInit PROVE AbstractIterator!IteratorInit
  OBVIOUS
<1>1. AbstractIterator!HandleListInit
  BY InitRefines, SameListSteps DEF IterInit
<1>2. ~ Iterating /\ CurrentPosition = 0
  BY DEF IterInit, Iterating, CurrentPosition
<1> QED BY <1>1, <1>2 DEF AbstractIterator!IteratorInit

(* The cursor implements the abstract list iterator over the list with     *)
(* stable handles: every move, edit and answer is that of a position in    *)
(* the list, whatever slots the edits recycle.                             *)
THEOREM RefinesListIterator == IterSpec => ImplementsListIterator
  BY IteratorInvariant, IterInitRefines, IterStepRefines, PTL
     DEF IterSpec, ImplementsListIterator, AbstractIterator!IteratorSpec
=============================================================================
