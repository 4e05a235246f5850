-------------------------- MODULE HashTable_proofs ---------------------------
(***************************************************************************)
(* Proofs about the hash map of HashTable: its buckets, its slots and the  *)
(* stack of free slots agree after every call.                             *)
(***************************************************************************)
EXTENDS HashTable, ProbeTable_proofs

-----------------------------------------------------------------------------
(* The invariant.                                                          *)

SlotsTyped ==
  /\ n \in Nat /\ fresh \in Nat /\ ssz \in Nat \ {0} /\ fresh <= ssz
  /\ ks \in [Slots(ssz) -> Key]
  /\ vs \in [Slots(ssz) -> Value \cup {NoValue}]
  /\ nx \in [Slots(ssz) -> Nat]

\* Every live slot is that of one pair, and every pair that of its key.
PairsOfLive ==
  /\ Table(tab, mask) /\ Keyed(ks, Pairs(tab))
  /\ { Slot(b.l) : b \in Pairs(tab) } = Live

LiveCounted ==
  /\ IsFiniteSet(Live) /\ n = Cardinality(Live) /\ Live \subseteq Slots(fresh)
  /\ 2 * n <= mask + 1

HashInv == SlotsTyped /\ PairsOfLive /\ LiveCounted /\ NoSlotLeaks

-----------------------------------------------------------------------------
(* What follows from the invariant.                                        *)

LEMMA LeakFacts ==
  ASSUME SlotsTyped, LiveCounted
  PROVE  /\ fresh - n \in Nat /\ Slots(fresh) \ Live \in SUBSET Nat
         /\ NoSlotLeaks <=> \E stack : FreeStack(stack, fresh - n, free, nx, Slots(fresh) \ Live)
<1>1. n <= fresh /\ n \in Nat /\ fresh \in Nat
  <2>1. IsFiniteSet(Slots(fresh)) /\ Cardinality(Slots(fresh)) = fresh
    <3>1. fresh - 1 \in Int /\ 0 \in Int
      BY DEF SlotsTyped
    <3>2. IsFiniteSet(0 .. fresh - 1)
      BY <3>1, FS_Interval
    <3>3. Cardinality(0 .. fresh - 1) = IF 0 > fresh - 1 THEN 0 ELSE fresh - 1 - 0 + 1
      BY <3>1, FS_Interval
    <3>4. fresh \in Nat
      BY DEF SlotsTyped
    <3> QED BY <3>2, <3>3, <3>4 DEF Slots
  <2>2. Cardinality(Live) <= Cardinality(Slots(fresh))
    BY <2>1, FS_Subset DEF LiveCounted
  <2> QED BY <2>1, <2>2 DEF LiveCounted, SlotsTyped
<1>2. fresh - n \in Nat /\ Slots(fresh) \ Live \in SUBSET Nat
  BY <1>1 DEF Slots
<1>3. ASSUME NEW stack, FreeStack(stack, fresh - n, free, nx, Slots(fresh) \ Live)
      PROVE  NoSlotLeaks
  <2>1. stack \in [1 .. fresh - n -> Slots(fresh) \ Live]
    BY <1>3 DEF FreeStack
  <2>2. IsInjective(stack)
    BY <2>1, <1>3 DEF FreeStack, IsInjective
  <2>3. \A k \in DOMAIN stack : nx[stack[k]] = IF k + 1 <= fresh - n THEN Link(stack[k + 1]) ELSE Nil
    BY <2>1, <1>3 DEF FreeStack
  <2>4. free = IF 1 <= fresh - n THEN Link(stack[1]) ELSE Nil
    BY <1>3 DEF FreeStack
  <2> QED BY <2>1, <2>2, <2>3, <2>4 DEF NoSlotLeaks
<1>4. ASSUME NoSlotLeaks
      PROVE  \E stack : FreeStack(stack, fresh - n, free, nx, Slots(fresh) \ Live)
  <2>1. PICK stack \in [1 .. fresh - n -> Slots(fresh) \ Live] :
          /\ IsInjective(stack)
          /\ free = IF 1 <= fresh - n THEN Link(stack[1]) ELSE Nil
          /\ \A k \in DOMAIN stack :
               nx[stack[k]] = IF k + 1 <= fresh - n THEN Link(stack[k + 1]) ELSE Nil
    BY <1>4 DEF NoSlotLeaks
  <2>2. FreeStack(stack, fresh - n, free, nx, Slots(fresh) \ Live)
    BY <2>1 DEF FreeStack, IsInjective
  <2> QED BY <2>2
<1> QED BY <1>2, <1>3, <1>4

(* The same in the next state.                                             *)
LEMMA NoLeakNext ==
  ASSUME fresh' - n' \in Nat,
         \E stack : FreeStack(stack, fresh' - n', free', nx', Slots(fresh') \ Live')
  PROVE  NoSlotLeaks'
<1>1. PICK stack : FreeStack(stack, fresh' - n', free', nx', Slots(fresh') \ Live')
  OBVIOUS
<1>2. stack \in [1 .. fresh' - n' -> Slots(fresh') \ Live']
  BY <1>1 DEF FreeStack
<1>3. IsInjective(stack)
  BY <1>1, <1>2 DEF FreeStack, IsInjective
<1>4. \A k \in DOMAIN stack :
        nx'[stack[k]] = IF k + 1 <= fresh' - n' THEN Link(stack[k + 1]) ELSE Nil
  BY <1>1, <1>2 DEF FreeStack
<1>5. free' = IF 1 <= fresh' - n' THEN Link(stack[1]) ELSE Nil
  BY <1>1 DEF FreeStack
<1> QED BY <1>2, <1>3, <1>4, <1>5 DEF NoSlotLeaks

(* At most half of the buckets are full.                                   *)
LEMMA HasVacant ==
  ASSUME HashInv
  PROVE  Vacant(tab) # {} /\ Cardinality(Full(tab)) = n
<1>1. Table(tab, mask) /\ mask \in Nat /\ n \in Nat /\ 2 * n <= mask + 1
  BY TableFacts DEF HashInv, PairsOfLive, LiveCounted, SlotsTyped
<1>2. Cardinality(Full(tab)) = n
  BY <1>1, FullCount DEF HashInv, PairsOfLive, LiveCounted
<1>3. n < mask + 1
  BY <1>1
<1> QED BY <1>1, <1>2, <1>3, FullIsFinite

\* A key's probe ends at its pair, whose slot is live, or at a vacant bucket.
LEMMA KeyFound ==
  ASSUME HashInv, NEW key \in Key
  PROVE  LET at == Probe(tab, ks, mask, key)
         IN /\ ~ Absent(key) =>
                 /\ at \in Full(tab) /\ tab[at] \in Pairs(tab) /\ KeyIn(ks, tab[at]) = key
                 /\ SlotOf(key) = Slot(tab[at].l) /\ SlotOf(key) \in Live
                 /\ tab[at].l \in Nat \ {0}
            /\ Absent(key) =>
                 /\ \A b \in Pairs(tab) : KeyIn(ks, b) # key
                 /\ at = FirstOf(Vacant(tab), Home(WordOf[key], mask), mask)
                 /\ at \in Vacant(tab)
<1> DEFINE at == Probe(tab, ks, mask, key)
<1>1. /\ Table(tab, mask) /\ Keyed(ks, Pairs(tab)) /\ Vacant(tab) # {}
      /\ { Slot(b.l) : b \in Pairs(tab) } = Live
  BY HasVacant DEF HashInv, PairsOfLive
<1> HIDE DEF at
<1>2. \/ /\ at \in Full(tab) /\ tab[at] \in Pairs(tab) /\ KeyIn(ks, tab[at]) = key
         /\ LinkFound(tab, ks, mask, key) = tab[at].l /\ tab[at].l # Nil
      \/ /\ \A b \in Pairs(tab) : KeyIn(ks, b) # key
         /\ at \in Vacant(tab) /\ LinkFound(tab, ks, mask, key) = Nil
         /\ at = FirstOf(Vacant(tab), Home(WordOf[key], mask), mask)
  BY <1>1, ProbeFinds DEF at
<1>3. at \in Full(tab) => tab[at].l \in Nat \ {0}
  BY <1>1, TableFacts
<1> QED BY <1>1, <1>2, <1>3 DEF Absent, SlotOf, at

(* No two pairs share a slot.                                              *)
LEMMA OneSlotEach ==
  ASSUME Table(tab, mask), NEW b \in Pairs(tab), NEW c \in Pairs(tab), Slot(b.l) = Slot(c.l)
  PROVE  b = c
<1>1. PICK i \in Full(tab), j \in Full(tab) : b = tab[i] /\ c = tab[j]
  BY DEF Pairs
<1>2. tab[i].l \in Nat /\ tab[j].l \in Nat /\ tab[i].l - 1 = tab[j].l - 1
  BY <1>1, TableFacts DEF Slot
<1>3. tab[i].l = tab[j].l
  BY <1>2
<1> QED BY <1>1, <1>3 DEF Table

-----------------------------------------------------------------------------
(* Every call preserves the invariant.                                     *)

\* The pairs P keep their keys and their values.
Unchanged(P) ==
  \A c \in P : KeyIn(ks', c) = KeyIn(ks, c) /\ vs'[Slot(c.l)] = vs[Slot(c.l)]

\* What a call may do to the pairs of the map.
PairAdded(key, x) ==
  \E b : /\ Pairs(tab') = Pairs(tab) \cup {b} /\ Unchanged(Pairs(tab))
         /\ KeyIn(ks', b) = key /\ vs'[Slot(b.l)] = x

PairReplaced(key, x) ==
  \E b \in Pairs(tab) :
    /\ Pairs(tab') = Pairs(tab) /\ Unchanged(Pairs(tab) \ {b})
    /\ KeyIn(ks, b) = key /\ KeyIn(ks', b) = key /\ vs'[Slot(b.l)] = x

PairDropped(key) ==
  \E b \in Pairs(tab) :
    /\ Pairs(tab') = Pairs(tab) \ {b} /\ Unchanged(Pairs(tab')) /\ KeyIn(ks, b) = key

LEMMA ReplaceKeeps ==
  ASSUME HashInv, NEW key \in Key, ~ Absent(key), NEW x \in Value, Replace(key, x)
  PROVE  HashInv' /\ PairReplaced(key, x)
<1>1. PICK s : s = SlotOf(key)
  OBVIOUS
<1>2. s \in Live /\ vs' = [vs EXCEPT ![s] = x] /\ x # NoValue
      /\ UNCHANGED <<n, mask, tab, fresh, ssz, free, ks, nx>>
  BY <1>1, KeyFound, ProbeTableAssumption DEF Replace, arena
<1>3. s \in Slots(ssz) /\ vs[s] # NoValue
  BY <1>2 DEF Live
<1>4. vs' \in [Slots(ssz) -> Value \cup {NoValue}]
  BY <1>2 DEF HashInv, SlotsTyped
<1>5. Live' = Live
  BY <1>2, <1>3 DEF Live, HashInv, SlotsTyped
<1>6. PairReplaced(key, x)
  <2>1. PICK b \in Pairs(tab) : KeyIn(ks, b) = key /\ s = Slot(b.l)
    BY <1>1, KeyFound
  <2>2. Table(tab, mask)
    BY DEF HashInv, PairsOfLive
  <2>3. \A c \in Pairs(tab) \ {b} : Slot(c.l) # s
    BY <2>1, <2>2, OneSlotEach
  <2>4. Pairs(tab') = Pairs(tab) /\ vs'[s] = x /\ \A c : KeyIn(ks', c) = KeyIn(ks, c)
    BY <1>2, <1>3 DEF HashInv, SlotsTyped
  <2>5. Unchanged(Pairs(tab) \ {b})
    BY <1>2, <2>3, <2>4 DEF Unchanged
  <2> QED BY <2>1, <2>4, <2>5 DEF PairReplaced
<1>7. SlotsTyped' /\ PairsOfLive' /\ LiveCounted'
  BY <1>2, <1>4, <1>5 DEF HashInv, SlotsTyped, PairsOfLive, LiveCounted
<1>8. NoSlotLeaks'
  BY <1>2, <1>5 DEF HashInv, NoSlotLeaks
<1> QED BY <1>6, <1>7, <1>8 DEF HashInv

(* A new key's pair is entered where its probe ended or in the table that  *)
(* has grown.                                                              *)
LEMMA Entered ==
  ASSUME HashInv, NEW key \in Key, Absent(key), NEW l \in Nat \ {0}, Slot(l) \notin Live,
         EnterPair(Probe(tab, ks, mask, key), WordOf[key], l)
  PROVE  /\ Table(tab', mask') /\ Pairs(tab') = Pairs(tab) \cup {Bucket(WordOf[key], l)}
         /\ 2 * (n + 1) <= mask' + 1
<1> DEFINE w == WordOf[key]
           big == GrownMask(mask)
           grown == GrowTab(tab, mask)
<1>1. /\ Table(tab, mask) /\ mask \in Nat /\ n \in Nat /\ 2 * n <= mask + 1
      /\ { Slot(b.l) : b \in Pairs(tab) } = Live /\ Vacant(tab) # {}
  BY HasVacant, TableFacts DEF HashInv, PairsOfLive, LiveCounted, SlotsTyped
<1>2. w \in Word /\ \A b \in Pairs(tab) : b.l # l
  BY <1>1 DEF Word
<1>3. CASE Over
  <2>1. Table(grown, big) /\ Pairs(grown) = Pairs(tab) /\ Vacant(grown) # {}
    BY <1>1, GrowTabWorks
  <2>2. mask' = big /\ tab' = InsRaw(grown, big, w, l)
    BY <1>3 DEF EnterPair
  <2> HIDE DEF grown, big, w
  <2>3. Table(tab', mask') /\ Pairs(tab') = Pairs(tab) \cup {Bucket(w, l)}
    BY <2>1, <2>2, <1>2, InsRawWorks
  <2>4. big + 1 = 2 * (mask + 1)
    BY <1>1 DEF big, GrownMask
  <2>5. 2 * (n + 1) <= mask' + 1
    BY <2>2, <2>4, <1>1
  <2> QED BY <2>3, <2>5 DEF w
<1>4. CASE ~ Over
  <2>1. mask' = mask /\ tab' = InsRaw(tab, mask, w, l)
    BY <1>4, KeyFound DEF EnterPair, InsRaw
  <2> HIDE DEF w
  <2>2. Table(tab', mask') /\ Pairs(tab') = Pairs(tab) \cup {Bucket(w, l)}
    BY <2>1, <1>1, <1>2, InsRawWorks
  <2>3. 2 * (n + 1) <= mask' + 1
    BY <2>1, <1>1, <1>4 DEF Over
  <2> QED BY <2>2, <2>3 DEF w
<1> QED BY <1>3, <1>4

(* What the buckets and the slots tell of a new key in slot s.             *)
LEMMA EnteredKeeps ==
  ASSUME HashInv, NEW key \in Key, Absent(key), NEW s \in Nat, s \notin Live,
         EnterPair(Probe(tab, ks, mask, key), WordOf[key], Link(s)),
         n' = n + 1, Live' = Live \cup {s}, Live' \subseteq Slots(fresh)',
         \A i \in Live : ks'[i] = ks[i] /\ vs'[i] = vs[i], ks'[s] = Stored(key)
  PROVE  PairsOfLive' /\ LiveCounted' /\ PairAdded(key, vs'[s])
<1> DEFINE b == Bucket(WordOf[key], Link(s))
<1>1. Link(s) \in Nat \ {0} /\ Slot(Link(s)) = s /\ b.l = Link(s)
  BY DEF Link, Slot, Bucket
<1>2. /\ Table(tab', mask') /\ Pairs(tab') = Pairs(tab) \cup {b}
      /\ 2 * (n + 1) <= mask' + 1
  BY <1>1, Entered
<1>3. Keyed(ks, Pairs(tab)) /\ { Slot(c.l) : c \in Pairs(tab) } = Live
      /\ \A c \in Pairs(tab) : KeyIn(ks, c) # key
  BY KeyFound DEF HashInv, PairsOfLive
<1>4. Keyed(ks', Pairs(tab) \cup {b}) /\ KeyIn(ks', b) = key
  <2>1. \A c \in Pairs(tab) : ks'[Slot(c.l)] = ks[Slot(c.l)]
    BY <1>3
  <2>2. ks'[Slot(Link(s))] = Stored(key)
    BY <1>1
  <2> QED BY <2>1, <2>2, <1>3, KeyedWith
<1> HIDE DEF b
<1>5. { Slot(c.l) : c \in Pairs(tab') } = Live'
  <2>1. { Slot(c.l) : c \in Pairs(tab) \cup {b} } = { Slot(c.l) : c \in Pairs(tab) } \cup {Slot(b.l)}
    OBVIOUS
  <2> QED BY <2>1, <1>1, <1>2, <1>3
<1>6. IsFiniteSet(Live') /\ Cardinality(Live') = n'
  BY FS_AddElement DEF HashInv, LiveCounted
<1>7. Unchanged(Pairs(tab))
  <2>1. \A c \in Pairs(tab) : ks'[Slot(c.l)] = ks[Slot(c.l)] /\ vs'[Slot(c.l)] = vs[Slot(c.l)]
    BY <1>3
  <2> QED BY <2>1 DEF Unchanged, KeyIn
<1>8. PairAdded(key, vs'[s])
  BY <1>1, <1>2, <1>4, <1>7 DEF PairAdded
<1> QED BY <1>2, <1>4, <1>5, <1>6, <1>8 DEF PairsOfLive, LiveCounted

LEMMA TakeFreeKeeps ==
  ASSUME HashInv, NEW key \in Key, Absent(key), NEW x \in Value, n' = n + 1, TakeFree(key, x)
  PROVE  HashInv' /\ PairAdded(key, x)
<1>1. PICK s : s = Slot(free)
  OBVIOUS
<1>2. PICK stack : FreeStack(stack, fresh - n, free, nx, Slots(fresh) \ Live)
  BY LeakFacts DEF HashInv
<1>3. /\ free # Nil /\ free' = nx[s] /\ ks' = [ks EXCEPT ![s] = Stored(key)]
      /\ vs' = [vs EXCEPT ![s] = x] /\ UNCHANGED <<fresh, ssz, nx>>
  BY <1>1 DEF TakeFree
<1>4. fresh - n \in Nat /\ Slots(fresh) \ Live \in SUBSET Nat
  BY LeakFacts DEF HashInv
<1>5. s \in Slots(fresh) \ Live /\ free = Link(s)
  BY <1>1, <1>2, <1>3, <1>4, SlotOnTop
<1>6. /\ fresh - n - 1 \in Nat
      /\ \E rest : FreeStack(rest, fresh - n - 1, nx[s], nx, (Slots(fresh) \ Live) \ {s})
  BY <1>1, <1>2, <1>3, <1>4, StackPopped
<1>7. /\ n \in Nat /\ fresh \in Nat /\ ssz \in Nat \ {0} /\ fresh <= ssz
      /\ ks \in [Slots(ssz) -> Key] /\ vs \in [Slots(ssz) -> Value \cup {NoValue}]
      /\ nx \in [Slots(ssz) -> Nat]
  BY DEF HashInv, SlotsTyped
<1>8. s \in Slots(ssz) /\ s \in Nat /\ s \notin Live
  BY <1>5, <1>7 DEF Slots
<1>9. Stored(key) \in Key /\ x # NoValue
  BY ProbeTableAssumption DEF Stored
<1>10. Live' = Live \cup {s} /\ \A i \in Live : ks'[i] = ks[i] /\ vs'[i] = vs[i]
  BY <1>3, <1>7, <1>8, <1>9 DEF Live
<1>11. ks'[s] = Stored(key) /\ Slots(fresh)' = Slots(fresh)
  BY <1>3, <1>7, <1>8
<1>12. Live' \subseteq Slots(fresh)'
  BY <1>5, <1>10, <1>11 DEF HashInv, LiveCounted
<1>13. EnterPair(Probe(tab, ks, mask, key), WordOf[key], Link(s))
  BY <1>5 DEF TakeFree
<1>14. PairsOfLive' /\ LiveCounted' /\ PairAdded(key, x)
  <2>1. vs'[s] = x
    BY <1>3, <1>7, <1>8
  <2> QED BY <2>1, <1>8, <1>10, <1>11, <1>12, <1>13, EnteredKeeps
<1>15. SlotsTyped'
  <2>1. n' \in Nat /\ UNCHANGED <<fresh, ssz, nx>>
    BY <1>3, <1>7
  <2>2. ks' \in [Slots(ssz) -> Key] /\ vs' \in [Slots(ssz) -> Value \cup {NoValue}]
    BY <1>3, <1>7, <1>9
  <2> QED BY <2>1, <2>2, <1>7 DEF SlotsTyped
<1>16. NoSlotLeaks'
  <2>1. (Slots(fresh) \ Live) \ {s} = Slots(fresh)' \ Live' /\ fresh - n - 1 = fresh' - n'
    BY <1>3, <1>7, <1>10, <1>11
  <2>2. \E rest : FreeStack(rest, fresh' - n', free', nx', Slots(fresh') \ Live')
    BY <2>1, <1>3, <1>6
  <2>3. fresh' - n' \in Nat
    BY <2>1, <1>6
  <2> QED BY <2>2, <2>3, <1>11, NoLeakNext
<1> QED BY <1>10, <1>14, <1>15, <1>16 DEF HashInv

(* Doubling the arena keeps what its slots hold.                           *)
LEMMA Extending ==
  ASSUME NEW cap \in Nat \ {0}, NEW block, NEW blank
  PROVE  /\ Slots(cap) \subseteq Slots(2 * cap)
         /\ Extended(block, cap, blank) =
              [i \in Slots(2 * cap) |-> IF i \in Slots(cap) THEN block[i] ELSE blank]
<1>1. \A i \in Slots(2 * cap) : i < cap <=> i \in Slots(cap)
  BY DEF Slots
<1>2. Slots(cap) \subseteq Slots(2 * cap)
  BY DEF Slots
<1> QED BY <1>1, <1>2 DEF Extended

\* With no slot free, every slot below fresh is live, and fresh is taken.
LEMMA TakeFreshKeeps ==
  ASSUME HashInv, NEW key \in Key, Absent(key), NEW x \in Value, n' = n + 1, TakeFresh(key, x)
  PROVE  HashInv' /\ PairAdded(key, x)
<1> DEFINE full == ~ fresh < ssz
           Room(block, blank) == IF full THEN Extended(block, ssz, blank) ELSE block
           cap == IF full THEN 2 * ssz ELSE ssz
<1>1. /\ n \in Nat /\ fresh \in Nat /\ ssz \in Nat \ {0} /\ fresh <= ssz
      /\ ks \in [Slots(ssz) -> Key] /\ vs \in [Slots(ssz) -> Value \cup {NoValue}]
      /\ nx \in [Slots(ssz) -> Nat] /\ Live \subseteq Slots(fresh)
  BY DEF HashInv, SlotsTyped, LiveCounted
<1>2. /\ free = Nil /\ free' = free /\ fresh' = fresh + 1 /\ ssz' = cap
      /\ ks' = [Room(ks, Empty) EXCEPT ![fresh] = Stored(key)]
      /\ vs' = [Room(vs, NoValue) EXCEPT ![fresh] = x] /\ nx' = Room(nx, Nil)
      /\ EnterPair(Probe(tab, ks, mask, key), WordOf[key], Link(fresh))
  BY DEF TakeFresh
<1>3. cap \in Nat \ {0} /\ fresh + 1 <= cap /\ ssz <= cap
  <2>1. CASE full
    <3>1. ssz <= fresh
      BY <2>1, <1>1
    <3> QED BY <3>1, <2>1, <1>1
  <2>2. CASE ~ full
    BY <2>2, <1>1
  <2> QED BY <2>1, <2>2
<1>5. Stored(key) \in Key /\ Empty \in Key /\ x # NoValue /\ Nil \in Nat
  BY ProbeTableAssumption DEF Stored, Nil
<1>6. /\ Room(ks, Empty) \in [Slots(cap) -> Key]
      /\ \A i \in Slots(ssz) : Room(ks, Empty)[i] = ks[i]
  <2>1. CASE full
    <3>1. /\ Slots(ssz) \subseteq Slots(2 * ssz)
          /\ Extended(ks, ssz, Empty) =
               [i \in Slots(2 * ssz) |-> IF i \in Slots(ssz) THEN ks[i] ELSE Empty]
      BY <1>1, Extending
    <3> QED BY <2>1, <3>1, <1>1, <1>5
  <2>2. CASE ~ full
    BY <2>2, <1>1
  <2> QED BY <2>1, <2>2
<1>7. /\ Room(vs, NoValue) \in [Slots(cap) -> (Value \cup {NoValue})]
      /\ \A i \in Slots(ssz) : Room(vs, NoValue)[i] = vs[i]
      /\ \A i \in Slots(cap) : i \notin Slots(ssz) => Room(vs, NoValue)[i] = NoValue
  <2>1. CASE full
    <3>1. /\ Slots(ssz) \subseteq Slots(2 * ssz)
          /\ Extended(vs, ssz, NoValue) =
               [i \in Slots(2 * ssz) |-> IF i \in Slots(ssz) THEN vs[i] ELSE NoValue]
      BY <1>1, Extending
    <3> QED BY <2>1, <3>1, <1>1, <1>5
  <2>2. CASE ~ full
    BY <2>2, <1>1
  <2> QED BY <2>1, <2>2
<1>8. Room(nx, Nil) \in [Slots(cap) -> Nat]
  <2>1. CASE full
    <3>1. /\ Slots(ssz) \subseteq Slots(2 * ssz)
          /\ Extended(nx, ssz, Nil) =
               [i \in Slots(2 * ssz) |-> IF i \in Slots(ssz) THEN nx[i] ELSE Nil]
      BY <1>1, Extending
    <3> QED BY <2>1, <3>1, <1>1, <1>5
  <2>2. CASE ~ full
    BY <2>2, <1>1
  <2> QED BY <2>1, <2>2
<1>9. fresh \in Slots(cap) /\ fresh \notin Live /\ Slots(ssz) \subseteq Slots(cap)
      /\ Slots(fresh') = Slots(fresh) \cup {fresh} /\ fresh \notin Slots(fresh)
  BY <1>1, <1>2, <1>3 DEF Slots
<1> HIDE DEF Room, cap, full
<1>10. SlotsTyped'
  <2>1. ks' \in [Slots(cap) -> Key]
    BY <1>2, <1>5, <1>6
  <2>2. vs' \in [Slots(cap) -> Value \cup {NoValue}]
    BY <1>2, <1>7
  <2>3. n' \in Nat /\ fresh' \in Nat /\ fresh' <= ssz'
    BY <1>1, <1>2, <1>3
  <2> QED BY <2>1, <2>2, <2>3, <1>2, <1>3, <1>8 DEF SlotsTyped
<1>11. /\ \A i \in Slots(cap) : vs'[i] = IF i = fresh THEN x ELSE Room(vs, NoValue)[i]
       /\ \A i \in Slots(cap) : ks'[i] = IF i = fresh THEN Stored(key) ELSE Room(ks, Empty)[i]
  BY <1>2, <1>6, <1>7
<1>12. Live' = Live \cup {fresh}
  BY <1>2, <1>5, <1>7, <1>9, <1>11 DEF Live
<1>13. \A i \in Live : ks'[i] = ks[i] /\ vs'[i] = vs[i]
  BY <1>6, <1>7, <1>9, <1>11 DEF Live
<1>14. PairsOfLive' /\ LiveCounted' /\ PairAdded(key, x)
  <2>1. ks'[fresh] = Stored(key) /\ vs'[fresh] = x /\ Live' \subseteq Slots(fresh)'
    BY <1>1, <1>9, <1>11, <1>12
  <2> QED BY <2>1, <1>1, <1>2, <1>9, <1>12, <1>13, EnteredKeeps
<1>15. NoSlotLeaks'
  <2>1. PICK stack : FreeStack(stack, fresh - n, free, nx, Slots(fresh) \ Live)
    BY LeakFacts DEF HashInv
  <2>2. fresh - n \in Nat /\ Slots(fresh) \ Live \in SUBSET Nat
    BY LeakFacts DEF HashInv
  <2>3. PICK m \in Nat : m = fresh - n
    BY <2>2
  <2>4. m = 0
    BY <2>1, <2>2, <2>3, <1>2, SlotOnTop
  <2>5. fresh' - n' = m /\ Slots(fresh') \ Live' = Slots(fresh) \ Live
    BY <2>3, <1>1, <1>2, <1>9, <1>12
  <2>6. FreeStack(stack, m, free', nx', Slots(fresh') \ Live')
    BY <2>1, <2>3, <2>4, <2>5, <1>2 DEF FreeStack
  <2> QED BY <2>5, <2>6, NoLeakNext
<1> QED BY <1>10, <1>13, <1>14, <1>15 DEF HashInv

(* Removing a key vacates its bucket and frees its slot.                   *)
LEMMA DropKeeps ==
  ASSUME HashInv, NEW key \in Key, ~ Absent(key), Drop(key)
  PROVE  HashInv' /\ PairDropped(key)
<1> DEFINE at == Probe(tab, ks, mask, key)
           b == tab[at]
<1>1. PICK s : s = SlotOf(key)
  OBVIOUS
<1>2. /\ n \in Nat /\ fresh \in Nat /\ ssz \in Nat \ {0} /\ fresh <= ssz
      /\ ks \in [Slots(ssz) -> Key] /\ vs \in [Slots(ssz) -> Value \cup {NoValue}]
      /\ nx \in [Slots(ssz) -> Nat] /\ Live \subseteq Slots(fresh)
      /\ 2 * n <= mask + 1 /\ Table(tab, mask) /\ mask \in Nat
      /\ Keyed(ks, Pairs(tab)) /\ { Slot(c.l) : c \in Pairs(tab) } = Live
      /\ IsFiniteSet(Live) /\ n = Cardinality(Live)
  BY TableFacts DEF HashInv, SlotsTyped, LiveCounted, PairsOfLive
<1>3. /\ n' = n - 1 /\ tab' = DelAt(tab, mask, at) /\ free' = Link(s)
      /\ nx' = [nx EXCEPT ![s] = free] /\ vs' = [vs EXCEPT ![s] = NoValue]
      /\ ks' = IF key \in Short THEN ks ELSE [ks EXCEPT ![s] = Empty]
      /\ UNCHANGED <<mask, fresh, ssz>>
  BY <1>1 DEF Drop, Freed, VacatedSlot
<1>4. /\ at \in Full(tab) /\ b \in Pairs(tab) /\ KeyIn(ks, b) = key /\ s = Slot(b.l) /\ s \in Live
      /\ Vacant(tab) # {}
  BY <1>1, KeyFound, HasVacant
<1> HIDE DEF at
<1>5. Table(tab', mask) /\ Pairs(tab') = Pairs(tab) \ {b}
  BY <1>2, <1>3, <1>4, DelAtWorks
<1> HIDE DEF b
<1>6. s \in Slots(ssz) /\ s \in Slots(fresh) /\ s \in Nat /\ Slots(fresh) \in SUBSET Slots(ssz)
  BY <1>2, <1>4 DEF Slots
<1>7. Live' = Live \ {s}
  BY <1>2, <1>3, <1>6 DEF Live
<1>8. \A i \in Live' : ks'[i] = ks[i] /\ vs'[i] = vs[i]
  <2>1. \A i \in Slots(ssz) : i # s => ks'[i] = ks[i] /\ vs'[i] = vs[i]
    BY <1>2, <1>3
  <2> QED BY <2>1, <1>2, <1>6, <1>7
<1>9. \A c \in Pairs(tab) : c # b => Slot(c.l) # s
  BY <1>2, <1>4, OneSlotEach
<1>10. { Slot(c.l) : c \in Pairs(tab') } = Live'
  BY <1>2, <1>4, <1>5, <1>7, <1>9
<1>11. Keyed(ks', Pairs(tab'))
  <2>1. Pairs(tab') \in SUBSET Pairs(tab)
    BY <1>5
  <2>2. \A c \in Pairs(tab') : ks'[Slot(c.l)] = ks[Slot(c.l)]
    BY <1>8, <1>10
  <2> QED BY <2>1, <2>2, <1>2, KeyedKept
<1>12. IsFiniteSet(Live') /\ Cardinality(Live') = n - 1 /\ n - 1 \in Nat
  <2>1. IsFiniteSet(Live \ {s}) /\ Cardinality(Live \ {s}) = n - 1
    BY <1>2, <1>4, FS_RemoveElement
  <2> QED BY <2>1, <1>7, FS_CardinalityType
<1>13. PairsOfLive' /\ LiveCounted'
  BY <1>2, <1>3, <1>5, <1>7, <1>10, <1>11, <1>12 DEF PairsOfLive, LiveCounted
<1>14. SlotsTyped'
  <2>1. ks' \in [Slots(ssz) -> Key]
    BY <1>2, <1>3, ProbeTableAssumption
  <2>2. vs' \in [Slots(ssz) -> Value \cup {NoValue}]
    BY <1>2, <1>3
  <2>3. free \in Nat
    BY LeakFacts, SlotOnTop DEF HashInv
  <2>4. nx' \in [Slots(ssz) -> Nat]
    BY <2>3, <1>2, <1>3
  <2> QED BY <2>1, <2>2, <2>4, <1>2, <1>3, <1>12 DEF SlotsTyped
<1>15. NoSlotLeaks'
  <2>1. PICK stack : FreeStack(stack, fresh - n, free, nx, Slots(fresh) \ Live)
    BY LeakFacts DEF HashInv
  <2>2. fresh - n \in Nat /\ Slots(fresh) \ Live \in SUBSET Nat
    BY LeakFacts DEF HashInv
  <2>3. PICK m \in Nat, S \in SUBSET Nat : m = fresh - n /\ S = Slots(fresh) \ Live
    BY <2>2
  <2>4. s \notin S /\ nx'[s] = free /\ \A i \in S : nx'[i] = nx[i]
    BY <2>3, <1>2, <1>3, <1>4, <1>6
  <2>5. \E more : FreeStack(more, m + 1, Link(s), nx', S \cup {s})
    BY <2>1, <2>3, <2>4, <1>6, StackPushed
  <2>6. fresh' - n' = m + 1 /\ Slots(fresh') \ Live' = S \cup {s}
    BY <2>3, <1>2, <1>3, <1>4, <1>6, <1>7
  <2>7. \E stack_1 : FreeStack(stack_1, fresh' - n', free', nx', Slots(fresh') \ Live')
    BY <2>5, <2>6, <1>3
  <2>8. fresh' - n' \in Nat
    BY <2>3, <2>6
  <2> QED BY <2>7, <2>8, NoLeakNext
<1>16. PairDropped(key)
  <2>1. \A c \in Pairs(tab') : ks'[Slot(c.l)] = ks[Slot(c.l)] /\ vs'[Slot(c.l)] = vs[Slot(c.l)]
    BY <1>8, <1>10
  <2>2. Unchanged(Pairs(tab'))
    BY <2>1 DEF Unchanged, KeyIn
  <2> QED BY <2>2, <1>4, <1>5 DEF PairDropped
<1> QED BY <1>13, <1>14, <1>15, <1>16 DEF HashInv
\* No call but these changes the map.
Still == UNCHANGED <<n, mask, tab, arena, vs>>

LEMMA StillKeeps ==
  ASSUME HashInv, Still
  PROVE  HashInv'
<1>1. UNCHANGED <<n, mask, tab, fresh, ssz, free, ks, vs, nx>>
  BY DEF Still, arena
<1>2. Live' = Live
  BY <1>1 DEF Live
<1>3. SlotsTyped' /\ PairsOfLive' /\ LiveCounted'
  BY <1>1, <1>2 DEF HashInv, SlotsTyped, PairsOfLive, LiveCounted
<1>4. NoSlotLeaks'
  BY <1>1, <1>2 DEF HashInv, NoSlotLeaks
<1> QED BY <1>3, <1>4 DEF HashInv

LEMMA SetKeeps ==
  ASSUME HashInv, NEW key \in Key, NEW x \in Value, Set(key, x)
  PROVE  HashInv' /\ obs' = <<"Set", key, x>> /\ (PairAdded(key, x) \/ PairReplaced(key, x))
<1>1. obs' = <<"Set", key, x>>
  BY DEF Set
<1>2. CASE ~ Absent(key) /\ Replace(key, x)
  BY <1>1, <1>2, ReplaceKeeps
<1>3. CASE Absent(key) /\ n' = n + 1 /\ TakeFree(key, x)
  BY <1>1, <1>3, TakeFreeKeeps
<1>4. CASE Absent(key) /\ n' = n + 1 /\ TakeFresh(key, x)
  BY <1>1, <1>4, TakeFreshKeeps
<1> QED BY <1>2, <1>3, <1>4 DEF Set

LEMMA RemovalKeeps ==
  ASSUME HashInv, NEW key \in Key, DropIfPresent(key)
  PROVE  HashInv' /\ ((Absent(key) /\ Still) \/ (~ Absent(key) /\ PairDropped(key)))
<1>1. CASE Absent(key) /\ UNCHANGED <<n, mask, tab, arena, vs>>
  <2>1. Still
    BY <1>1 DEF Still
  <2>2. HashInv'
    BY <2>1, StillKeeps
  <2>3. Absent(key)
    BY <1>1
  <2> QED BY <2>1, <2>2, <2>3
<1>2. CASE ~ Absent(key) /\ Drop(key)
  BY <1>2, DropKeeps
<1> QED BY <1>1, <1>2 DEF DropIfPresent

\* What a call reads leaves everything as it was.
LEMMA ReadsAreStill ==
  ASSUME \/ \E key \in Key : Get(key) \/ Has(key)
         \/ Keys \/ Size \/ UNCHANGED vars
  PROVE  Still
BY DEF Still, Get, Has, Keys, Size, Read, vars

LEMMA HashInvIsKept ==
  ASSUME HashInv, [Next]_vars
  PROVE  HashInv'
<1>1. ASSUME NEW key \in Key, NEW x \in Value, Set(key, x)
      PROVE  HashInv'
  BY <1>1, SetKeeps
<1>2. ASSUME NEW key \in Key, Pop(key) \/ Del(key)
      PROVE  HashInv'
  BY <1>2, RemovalKeeps DEF Pop, Del
<1>3. CASE \E key \in Key : Get(key) \/ Has(key)
  BY <1>3, ReadsAreStill, StillKeeps
<1>4. CASE Keys \/ Size \/ UNCHANGED vars
  BY <1>4, ReadsAreStill, StillKeeps
<1> QED BY <1>1, <1>2, <1>3, <1>4 DEF Next

LEMMA HashInvAtFirst ==
  ASSUME Init
  PROVE  HashInv /\ Pairs(tab) = {}
<1>1. /\ n = 0 /\ mask = 1 /\ fresh = 0 /\ ssz = 1 /\ free = Nil /\ tab = NewTable(1)
      /\ ks = [i \in Slots(1) |-> Empty] /\ vs = [i \in Slots(1) |-> NoValue]
      /\ nx = [i \in Slots(1) |-> Nil]
  BY DEF Init
<1>2. SlotsTyped
  BY <1>1, ProbeTableAssumption DEF SlotsTyped, Nil
<1>3. Live = {}
  BY <1>1 DEF Live
<1>4. Table(tab, mask) /\ Pairs(tab) = {}
  BY <1>1, NewTableIsTable DEF Pairs
<1>5. PairsOfLive
  BY <1>3, <1>4 DEF PairsOfLive, Keyed
<1>6. LiveCounted
  BY <1>1, <1>3, FS_EmptySet DEF LiveCounted
<1>7. NoSlotLeaks
  <2> DEFINE none == [k \in 1 .. fresh - n |-> 0]
  <2>1. fresh - n = 0 /\ 1 .. fresh - n = {}
    BY <1>1
  <2>2. FreeStack(none, fresh - n, free, nx, Slots(fresh) \ Live)
    BY <2>1, <1>1 DEF FreeStack
  <2> QED BY <2>2, <1>2, <1>6, LeakFacts
<1> QED BY <1>2, <1>4, <1>5, <1>6, <1>7 DEF HashInv

-----------------------------------------------------------------------------
(* The invariant, and what it says of the buckets and the slots.           *)

(* The inductive invariant holds of every state of the map.                *)
THEOREM HashInvariant == Spec => []HashInv
<1>1. Init => HashInv
  BY HashInvAtFirst
<1>2. HashInv /\ [Next]_vars => HashInv'
  BY HashInvIsKept
<1> QED BY <1>1, <1>2, PTL DEF Spec

(* The table is always at most half full, and its pairs are those of the   *)
(* live slots, each once (Over, ins_raw).                                  *)
THEOREM TableIsHalfVacant == Spec => []HalfVacant
<1>1. ASSUME HashInv
      PROVE  HalfVacant
  <2>1. Table(tab, mask) /\ { Slot(b.l) : b \in Pairs(tab) } = Live
    BY <1>1 DEF HashInv, PairsOfLive
  <2>2. Buckets(mask) \ Vacant(tab) = Full(tab)
    BY <2>1, TableFacts DEF Buckets, Full
  <2>3. { Slot(tab[i].l) : i \in Full(tab) } = Live
    BY <2>1 DEF Pairs
  <2>4. \A i, j \in Full(tab) : tab[i].l = tab[j].l => i = j
    BY <2>1 DEF Table
  <2>5. 2 * n <= mask + 1 /\ n = Cardinality(Live)
    BY <1>1 DEF HashInv, LiveCounted
  <2> QED BY <2>2, <2>3, <2>4, <2>5 DEF HalfVacant
<1>2. HashInv => HalfVacant
  BY <1>1
<1> QED BY <1>2, HashInvariant, PTL

(* Every probe reaches its pair before a vacant bucket, whatever growth    *)
(* and backward-shift deletion moved (shift, mv_go).                       *)
THEOREM ProbesAlwaysReach == Spec => []EveryPairIsReached
<1>1. HashInv => EveryPairIsReached
  BY DEF HashInv, PairsOfLive, Table, EveryPairIsReached
<1> QED BY <1>1, HashInvariant, PTL

(* No slot is lost: one ever taken is live or on the free stack            *)
(* (ins_free, pop_v).                                                      *)
THEOREM SlotsNeverLeak == Spec => []NoSlotLeaks
<1>1. HashInv => NoSlotLeaks
  BY DEF HashInv
<1> QED BY <1>1, HashInvariant, PTL
-----------------------------------------------------------------------------
(* Entries never move.                                                     *)

\* A key is found in the slot of its pair, if it has one.
KeysHavePairs ==
  \A key \in Key :
    /\ \A b \in Pairs(tab) : KeyIn(ks, b) = key => ~ Absent(key) /\ SlotOf(key) = Slot(b.l)
    /\ ~ Absent(key) => \E b \in Pairs(tab) : KeyIn(ks, b) = key

LEMMA PairOfKey == HashInv => KeysHavePairs
<1> SUFFICES ASSUME HashInv, NEW key \in Key
             PROVE  /\ \A b \in Pairs(tab) :
                         KeyIn(ks, b) = key => ~ Absent(key) /\ SlotOf(key) = Slot(b.l)
                    /\ ~ Absent(key) => \E b \in Pairs(tab) : KeyIn(ks, b) = key
  BY DEF KeysHavePairs
<1>1. ASSUME NEW b \in Pairs(tab), KeyIn(ks, b) = key
      PROVE  ~ Absent(key) /\ SlotOf(key) = Slot(b.l)
  <2>1. ~ Absent(key)
    BY <1>1, KeyFound
  <2>2. PICK c \in Pairs(tab) : KeyIn(ks, c) = key /\ SlotOf(key) = Slot(c.l)
    BY <2>1, KeyFound
  <2>3. b = c
    BY <1>1, <2>2 DEF HashInv, PairsOfLive, Keyed
  <2> QED BY <2>1, <2>2, <2>3
<1>2. ~ Absent(key) => \E b \in Pairs(tab) : KeyIn(ks, b) = key
  BY KeyFound
<1> QED BY <1>1, <1>2

(* What a call does to the pairs of the map: it leaves them, adds one,     *)
(* gives one another value, or drops one.                                  *)
LEMMA PairsChange ==
  ASSUME HashInv, [Next]_vars
  PROVE  \/ Still
         \/ \E key \in Key, x \in Value : PairAdded(key, x) \/ PairReplaced(key, x)
         \/ \E key \in Key : PairDropped(key)
<1>1. ASSUME NEW key \in Key, NEW x \in Value, Set(key, x)
      PROVE  PairAdded(key, x) \/ PairReplaced(key, x)
  BY <1>1, SetKeeps
<1>2. ASSUME NEW key \in Key, Pop(key) \/ Del(key)
      PROVE  Still \/ PairDropped(key)
  BY <1>2, RemovalKeeps DEF Pop, Del
<1> QED BY <1>1, <1>2, ReadsAreStill DEF Next

(* While a key stays in the map its value stays in one slot ("keys and     *)
(* values never move").                                                    *)
THEOREM EntriesStay == Spec => EntriesNeverMove
<1>1. ASSUME HashInv, HashInv', KeysHavePairs, KeysHavePairs', [Next]_vars, NEW key \in Key,
             ~ Absent(key), ~ Absent(key)'
      PROVE  SlotOf(key)' = SlotOf(key)
  <2>1. PICK b \in Pairs(tab) : KeyIn(ks, b) = key /\ SlotOf(key) = Slot(b.l)
    BY <1>1 DEF KeysHavePairs
  <2>3. PICK c \in Pairs(tab') : KeyIn(ks', c) = key /\ SlotOf(key)' = Slot(c.l)
    BY <1>1 DEF KeysHavePairs
  <2>4. \A d \in Pairs(tab) : KeyIn(ks, d) = key => d = b
    BY <1>1, <2>1 DEF HashInv, PairsOfLive, Keyed
  <2>5. \A d \in Pairs(tab') : KeyIn(ks', d) = key => d = c
    BY <1>1, <2>3 DEF HashInv, PairsOfLive, Keyed
  <2>6. CASE Still
    BY <2>6, <2>1, <2>3, <2>4 DEF Still, arena
  <2>7. ASSUME NEW k \in Key, NEW x \in Value, PairAdded(k, x)
        PROVE  b = c
    BY <2>7, <2>1, <2>5 DEF PairAdded, Unchanged
  <2>8. ASSUME NEW k \in Key, NEW x \in Value, PairReplaced(k, x)
        PROVE  b = c
    BY <2>8, <2>1, <2>5 DEF PairReplaced, Unchanged
  <2>9. ASSUME NEW k \in Key, PairDropped(k)
        PROVE  b = c
    BY <2>9, <2>3, <2>4 DEF PairDropped, Unchanged
  <2> QED BY <1>1, <2>1, <2>3, <2>6, <2>7, <2>8, <2>9, PairsChange
<1>2. HashInv /\ HashInv' /\ KeysHavePairs /\ KeysHavePairs' /\ [Next]_vars =>
        [\A key \in Key : ~ Absent(key) /\ ~ Absent(key)' => SlotOf(key)' = SlotOf(key)]_vars
  BY <1>1
<1> QED BY <1>2, HashInvariant, PairOfKey, PTL DEF Spec, EntriesNeverMove
-----------------------------------------------------------------------------
(* The map implements a function from keys to values.                      *)

\* The function that the pairs and the slots make.
ContentsAre ==
  /\ Contents = [k \in DOMAIN Contents |-> Contents[k]]
  /\ DOMAIN Contents = { KeyIn(ks, b) : b \in Pairs(tab) }
  /\ \A b \in Pairs(tab) : Contents[KeyIn(ks, b)] = vs[Slot(b.l)]

LEMMA ContentsRead == HashInv => ContentsAre
<1> SUFFICES ASSUME HashInv PROVE ContentsAre
  OBVIOUS
<1> DEFINE full == { tab[i] : i \in Buckets(mask) \ Vacant(tab) }
           key(b) == KeyIn(ks, b)
           at(k) == CHOOSE b \in full : key(b) = k
<1>1. full = Pairs(tab)
  BY TableFacts DEF HashInv, PairsOfLive, Pairs, Full, Buckets
<1>2. Contents = [k \in { key(b) : b \in full } |-> vs[Slot(at(k).l)]]
  BY DEF Contents, KeyIn
<1>3. \A b \in full : at(key(b)) = b
  <2> SUFFICES ASSUME NEW b \in full PROVE at(key(b)) = b
    OBVIOUS
  <2>1. \A c \in full : key(c) = key(b) => c = b
    BY <1>1 DEF HashInv, PairsOfLive, Keyed
  <2> HIDE DEF full, key
  <2> QED BY <2>1
<1> HIDE DEF full, at
<1> QED BY <1>1, <1>2, <1>3 DEF ContentsAre

(* What a probe for a key reads.                                           *)
LEMMA ContentsAtKey ==
  ASSUME HashInv, NEW key \in Key
  PROVE  /\ Absent(key) <=> key \notin DOMAIN Contents
         /\ Lookup(key) = Abstract!ValueAt(key)
<1>1. ContentsAre /\ KeysHavePairs
  BY ContentsRead, PairOfKey
<1>2. Absent(key) <=> key \notin DOMAIN Contents
  BY <1>1 DEF ContentsAre, KeysHavePairs
<1>3. ~ Absent(key) => Contents[key] = vs[SlotOf(key)]
  BY <1>1 DEF ContentsAre, KeysHavePairs
<1> QED BY <1>2, <1>3 DEF Lookup, Abstract!ValueAt

LEMMA SameCardinality == \A S : Abstract!Cardinality(S) = Cardinality(S)
  BY DEF Abstract!Cardinality, Cardinality

(* What size and keys answer.                                              *)
LEMMA KeysCounted ==
  ASSUME HashInv
  PROVE  /\ n = Abstract!Cardinality(DOMAIN Contents)
         /\ KeyList(tab, ks, mask) \in
              Abstract!Bijection(1 .. Abstract!Cardinality(DOMAIN Contents), DOMAIN Contents)
<1> DEFINE own == DOMAIN Contents
           f == [i \in Full(tab) |-> KeyIn(ks, tab[i])]
           w == KeyList(tab, ks, mask)
<1>1. own = { KeyIn(ks, tab[i]) : i \in Full(tab) }
  BY ContentsRead DEF ContentsAre, Pairs
<1>2. Table(tab, mask) /\ Keyed(ks, Pairs(tab))
  BY DEF HashInv, PairsOfLive
<1>3. \A i, j \in Full(tab) : KeyIn(ks, tab[i]) = KeyIn(ks, tab[j]) => i = j
  BY <1>2 DEF Keyed, Pairs, Table
<1>4. IsFiniteSet(Full(tab)) /\ Cardinality(Full(tab)) = n
  BY <1>2, FullIsFinite, HasVacant
<1> HIDE DEF own
<1>5. f \in Bijection(Full(tab), own)
  BY <1>1, <1>3 DEF Bijection, Injection, Surjection, IsInjective
<1>6. Cardinality(own) = n
  <2>1. ExistsBijection(Full(tab), own)
    BY <1>5 DEF ExistsBijection
  <2> QED BY <2>1, <1>4, FS_Bijection
<1>7. Lists(tab, ks, 0, w)
  BY <1>2, KeysListed
<1> HIDE DEF w
<1>8. w \in [1 .. Len(w) -> own] /\ Len(w) \in Nat
  <2>1. w \in Seq(Key)
    BY <1>7 DEF Lists
  <2>2. \A a \in 1 .. Len(w) : w[a] \in own
    BY <1>1, <1>7 DEF Lists
  <2> QED BY <2>1, <2>2
<1>9. /\ \A a, b \in 1 .. Len(w) : w[a] = w[b] => a = b
      /\ \A k \in own : \E a \in 1 .. Len(w) : w[a] = k
  <2>1. \A i \in Full(tab) : 0 <= i
    BY <1>2, TableFacts
  <2> QED BY <2>1, <1>1, <1>7 DEF Lists
<1>10. Len(w) = Cardinality(own)
  <2>1. w \in Bijection(1 .. Len(w), own)
    BY <1>8, <1>9 DEF Bijection, Injection, Surjection, IsInjective
  <2>2. ExistsBijection(1 .. Len(w), own)
    BY <2>1 DEF ExistsBijection
  <2>3. IsFiniteSet(1 .. Len(w)) /\ Cardinality(1 .. Len(w)) = Len(w)
    <3>1. PICK m \in Nat : m = Len(w)
      BY <1>8
    <3>2. IsFiniteSet(1 .. m)
      BY FS_Interval
    <3>3. Cardinality(1 .. m) = IF 1 > m THEN 0 ELSE m - 1 + 1
      BY FS_Interval
    <3> QED BY <3>1, <3>2, <3>3
  <2> QED BY <2>2, <2>3, FS_Bijection
<1>11. w \in Abstract!Bijection(1 .. Cardinality(own), own)
  BY <1>8, <1>9, <1>10
     DEF Abstract!Bijection, Abstract!Injection, Abstract!Surjection, Abstract!IsInjective
<1>12. Abstract!Cardinality(own) = Cardinality(own)
  BY SameCardinality
<1> QED BY <1>6, <1>11, <1>12 DEF own, w

LEMMA SameMap ==
  ASSUME NEW F, NEW G, F = [k \in DOMAIN F |-> F[k]], G = [k \in DOMAIN G |-> G[k]],
         DOMAIN F = DOMAIN G, \A k \in DOMAIN F : F[k] = G[k]
  PROVE  F = G
  OBVIOUS

LEMMA AddedToMap ==
  ASSUME ContentsAre, ContentsAre', NEW key \in Key, NEW x \in Value,
         PairAdded(key, x) \/ PairReplaced(key, x)
  PROVE  Contents' = Abstract!With(key, x)
<1> DEFINE G == Abstract!With(key, x)
<1>1. G = [k \in DOMAIN Contents \cup {key} |-> IF k = key THEN x ELSE Contents[k]]
  BY DEF Abstract!With
<1>2. /\ DOMAIN Contents = { KeyIn(ks, b) : b \in Pairs(tab) }
      /\ \A b \in Pairs(tab) : Contents[KeyIn(ks, b)] = vs[Slot(b.l)]
  BY DEF ContentsAre
<1>3. /\ Contents' = [k \in DOMAIN Contents' |-> Contents'[k]]
      /\ DOMAIN Contents' = { KeyIn(ks', b) : b \in Pairs(tab') }
      /\ \A b \in Pairs(tab') : Contents'[KeyIn(ks', b)] = vs'[Slot(b.l)]
  BY DEF ContentsAre
<1> HIDE DEF G
<1>4. CASE PairAdded(key, x)
  <2>1. PICK b : /\ Pairs(tab') = Pairs(tab) \cup {b} /\ Unchanged(Pairs(tab))
                 /\ KeyIn(ks', b) = key /\ vs'[Slot(b.l)] = x
    BY <1>4 DEF PairAdded
  <2>2. \A c \in Pairs(tab) : KeyIn(ks', c) = KeyIn(ks, c) /\ vs'[Slot(c.l)] = vs[Slot(c.l)]
    BY <2>1 DEF Unchanged
  <2>3. DOMAIN Contents' = DOMAIN Contents \cup {key}
    BY <1>2, <1>3, <2>1, <2>2
  <2>4. Contents'[key] = x
    BY <1>3, <2>1
  <2>5. \A k \in DOMAIN Contents : Contents'[k] = Contents[k]
    BY <1>2, <1>3, <2>1, <2>2
  <2>6. \A k \in DOMAIN Contents' : Contents'[k] = G[k]
    BY <1>1, <2>3, <2>4, <2>5
  <2> QED BY <1>1, <1>3, <2>3, <2>6, SameMap DEF G
<1>5. CASE PairReplaced(key, x)
  <2>1. PICK b \in Pairs(tab) :
          /\ Pairs(tab') = Pairs(tab) /\ Unchanged(Pairs(tab) \ {b})
          /\ KeyIn(ks, b) = key /\ KeyIn(ks', b) = key /\ vs'[Slot(b.l)] = x
    BY <1>5 DEF PairReplaced
  <2>2. /\ \A c \in Pairs(tab) : KeyIn(ks', c) = KeyIn(ks, c)
        /\ \A c \in Pairs(tab) : c # b => vs'[Slot(c.l)] = vs[Slot(c.l)]
    BY <2>1 DEF Unchanged
  <2>3. DOMAIN Contents' = DOMAIN Contents /\ key \in DOMAIN Contents
    BY <1>2, <1>3, <2>1, <2>2
  <2>4. Contents'[key] = x
    BY <1>3, <2>1
  <2>5. \A k \in DOMAIN Contents : k # key => Contents'[k] = Contents[k]
    BY <1>2, <1>3, <2>1, <2>2
  <2>6. \A k \in DOMAIN Contents' : Contents'[k] = G[k]
    BY <1>1, <2>3, <2>4, <2>5
  <2> QED BY <1>1, <1>3, <2>3, <2>6, SameMap DEF G
<1> QED BY <1>4, <1>5

LEMMA TakenFromMap ==
  ASSUME HashInv, ContentsAre, ContentsAre', NEW key \in Key, PairDropped(key)
  PROVE  Contents' = Abstract!Without(key)
<1> DEFINE G == Abstract!Without(key)
<1>1. G = [k \in DOMAIN Contents \ {key} |-> Contents[k]]
  BY DEF Abstract!Without, Abstract!Restrict
<1>2. /\ DOMAIN Contents = { KeyIn(ks, b) : b \in Pairs(tab) }
      /\ \A b \in Pairs(tab) : Contents[KeyIn(ks, b)] = vs[Slot(b.l)]
  BY DEF ContentsAre
<1>3. /\ Contents' = [k \in DOMAIN Contents' |-> Contents'[k]]
      /\ DOMAIN Contents' = { KeyIn(ks', b) : b \in Pairs(tab') }
      /\ \A b \in Pairs(tab') : Contents'[KeyIn(ks', b)] = vs'[Slot(b.l)]
  BY DEF ContentsAre
<1> HIDE DEF G
<1>4. PICK b \in Pairs(tab) : /\ Pairs(tab') = Pairs(tab) \ {b} /\ Unchanged(Pairs(tab'))
                             /\ KeyIn(ks, b) = key
  BY DEF PairDropped
<1>5. \A c \in Pairs(tab') : KeyIn(ks', c) = KeyIn(ks, c) /\ vs'[Slot(c.l)] = vs[Slot(c.l)]
  BY <1>4 DEF Unchanged
<1>6. \A c \in Pairs(tab) : KeyIn(ks, c) = key <=> c = b
  BY <1>4 DEF HashInv, PairsOfLive, Keyed
<1>7. DOMAIN Contents' = DOMAIN Contents \ {key}
  BY <1>2, <1>3, <1>4, <1>5, <1>6
<1>8. \A k \in DOMAIN Contents' : Contents'[k] = G[k]
  <2>1. \A k \in DOMAIN Contents' : Contents'[k] = Contents[k]
    BY <1>2, <1>3, <1>4, <1>5
  <2> QED BY <2>1, <1>1, <1>7
<1>9. G = [k \in DOMAIN G |-> G[k]] /\ DOMAIN G = DOMAIN Contents'
  BY <1>1, <1>7
<1>10. Contents' = G
  BY <1>3, <1>8, <1>9, SameMap
<1> QED BY <1>10 DEF G

LEMMA StillContents ==
  ASSUME Still
  PROVE  Contents' = Contents
BY DEF Still, arena, Contents

LEMMA RemovalTakes ==
  ASSUME HashInv, ContentsAre, ContentsAre', NEW key \in Key, DropIfPresent(key)
  PROVE  Contents' = Abstract!Without(key)
<1>1. CASE Absent(key) /\ Still
  <2>1. key \notin DOMAIN Contents /\ Contents' = Contents
    BY <1>1, ContentsAtKey, StillContents
  <2>2. Abstract!Without(key) = [k \in DOMAIN Contents |-> Contents[k]]
    BY <2>1 DEF Abstract!Without, Abstract!Restrict
  <2> QED BY <2>1, <2>2 DEF ContentsAre
<1>2. CASE ~ Absent(key) /\ PairDropped(key)
  BY <1>2, TakenFromMap
<1> QED BY <1>1, <1>2, RemovalKeeps

(* Each call is a call of the function, with the same answer.              *)
LEMMA StepRefines ==
  ASSUME HashInv, ContentsAre, ContentsAre', [Next]_vars
  PROVE  [Abstract!KeyValueMapNext]_<<Contents, obs>>
<1>1. ASSUME NEW key \in Key, NEW x \in Value, Set(key, x)
      PROVE  Abstract!Put(key, x)
  BY <1>1, SetKeeps, AddedToMap DEF Abstract!Put
<1>2. ASSUME NEW key \in Key, Get(key)
      PROVE  Abstract!LookUp(key)
  <2>1. Contents' = Contents
    BY <1>2, ReadsAreStill, StillContents
  <2>2. obs' = <<"Get", key, Abstract!ValueAt(key)>>
    BY <1>2, ContentsAtKey DEF Get, Read
  <2> QED BY <2>1, <2>2 DEF Abstract!LookUp
<1>3. ASSUME NEW key \in Key, Has(key)
      PROVE  Abstract!LookUp(key)
  <2>1. Contents' = Contents
    BY <1>3, ReadsAreStill, StillContents
  <2>2. (~ Absent(key)) = (key \in DOMAIN Contents)
    BY ContentsAtKey
  <2>3. obs' = <<"Has", key, ~ Absent(key)>>
    BY <1>3 DEF Has, Read
  <2>4. obs' = <<"Has", key, key \in DOMAIN Contents>>
    BY <2>2, <2>3
  <2> QED BY <2>1, <2>4 DEF Abstract!LookUp
<1>4. ASSUME NEW key \in Key, Pop(key)
      PROVE  Abstract!Take(key)
  <2>1. Contents' = Abstract!Without(key)
    BY <1>4, RemovalTakes DEF Pop
  <2>2. obs' = <<"Pop", key, Abstract!ValueAt(key)>>
    BY <1>4, ContentsAtKey DEF Pop
  <2> QED BY <2>1, <2>2 DEF Abstract!Take
<1>5. ASSUME NEW key \in Key, Del(key)
      PROVE  Abstract!Take(key)
  <2>1. Contents' = Abstract!Without(key)
    BY <1>5, RemovalTakes DEF Del
  <2>2. obs' = <<"Del", key>>
    BY <1>5 DEF Del
  <2> QED BY <2>1, <2>2 DEF Abstract!Take
<1>6. ASSUME Keys
      PROVE  Abstract!ListKeys
  <2>1. Contents' = Contents
    BY <1>6, ReadsAreStill, StillContents
  <2>2. obs' = <<"Keys", KeyList(tab, ks, mask)>>
    BY <1>6 DEF Keys, Read
  <2> QED BY <2>1, <2>2, KeysCounted DEF Abstract!ListKeys
<1>7. ASSUME Size
      PROVE  Abstract!CountKeys
  <2>1. Contents' = Contents
    BY <1>7, ReadsAreStill, StillContents
  <2>2. obs' = <<"Size", Abstract!Cardinality(DOMAIN Contents)>>
    BY <1>7, KeysCounted DEF Size, Read
  <2> QED BY <2>1, <2>2 DEF Abstract!CountKeys
<1>8. ASSUME UNCHANGED vars
      PROVE  UNCHANGED <<Contents, obs>>
  <2>1. Contents' = Contents
    BY <1>8, ReadsAreStill, StillContents
  <2> QED BY <2>1, <1>8 DEF vars
<1>9. CASE Next
  BY <1>1, <1>2, <1>3, <1>4, <1>5, <1>6, <1>7, <1>9 DEF Next, Abstract!KeyValueMapNext
<1>10. CASE UNCHANGED vars
  BY <1>8, <1>10
<1> QED BY <1>9, <1>10

(* The hash map implements a finite function from keys to values: set,     *)
(* get, has, pop, del, keys and size answer as the function does, whatever *)
(* was moved or removed between the buckets of the keys (probe, set, pop). *)
THEOREM RefinesKeyValueMap == Spec => ImplementsMap
<1>1. Init => Abstract!KeyValueMapInit
  <2> SUFFICES ASSUME Init PROVE Abstract!KeyValueMapInit
    OBVIOUS
  <2>1. HashInv /\ Pairs(tab) = {}
    BY HashInvAtFirst
  <2>2. DOMAIN Contents = {} /\ Contents = [k \in DOMAIN Contents |-> Contents[k]]
    BY <2>1, ContentsRead DEF ContentsAre
  <2>3. Contents = << >>
    BY <2>2
  <2> QED BY <2>3 DEF Init, Abstract!KeyValueMapInit
<1>2. HashInv /\ ContentsAre /\ ContentsAre' /\ [Next]_vars =>
        [Abstract!KeyValueMapNext]_<<Contents, obs>>
  BY StepRefines
<1> QED BY <1>1, <1>2, HashInvariant, ContentsRead, PTL
        DEF Spec, ImplementsMap, Abstract!KeyValueMapSpec
=============================================================================
