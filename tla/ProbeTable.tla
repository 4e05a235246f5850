----------------------------- MODULE ProbeTable -----------------------------
(***************************************************************************)
(* The bucket table of the hash map, src/containers/hash_table.bend, which *)
(* the LRU cache uses too: open addressing with linear probing over a      *)
(* power of two of buckets, each a check word and the link of a slot, and  *)
(* deletion by backward shift.                                             *)
(*                                                                         *)
(* A table is a function on the buckets 0 .. mask; a slot i has the link   *)
(* i + 1, and a vacant bucket has word and link 0.                         *)
(***************************************************************************)
EXTENDS Naturals, Sequences

CONSTANTS Key,     \* the strings used as keys
          Short,   \* the keys of one character, below 2^31
          Empty,   \* the key ""
          Value,   \* the values
          NoValue, \* the None of a slot that holds no value
          WordOf,  \* the check word of each key
          Fold     \* the multiplied and folded word that a bucket is taken of

Word == { WordOf[k] : k \in Key }

\* A word is never 0, and the tag bit keeps the words of short keys apart
\* from each other and from those of longer keys; these may share a word.
ASSUME ProbeTableAssumption ==
  /\ Short \subseteq Key /\ Empty \in Key \ Short
  /\ NoValue \notin Value
  /\ WordOf \in [Key -> Nat \ {0}]
  /\ \A k \in Short, j \in Key : WordOf[k] = WordOf[j] => k = j
  /\ Fold \in [Word -> Nat]

-----------------------------------------------------------------------------
(* Links, words and buckets.                                               *)

Nil == 0
Link(i) == i + 1
Slot(l) == l - 1

IsShort(w) == \E k \in Short : w = WordOf[k]

Buckets(mask) == 0 .. mask

Bucket(w, l) == [w |-> w, l |-> l]

Vacancy == Bucket(0, Nil)

NewTable(mask) == [i \in Buckets(mask) |-> Vacancy]

Vacant(tab) == { i \in DOMAIN tab : tab[i].w = 0 }

Home(w, mask) == Fold[w] % (mask + 1)

BNext(i, mask) == (i + 1) % (mask + 1)

\* How many buckets a probe that starts at i goes over to reach k.
Distance(i, k, mask) == (k + (mask + 1) - i) % (mask + 1)

\* The first of the buckets S that a probe from i reaches.  A probe gives up
\* when it went round the table, but it never does: half the buckets are
\* vacant (HalfVacant), and S holds the vacant ones or the bucket sought.
FirstOf(S, i, mask) ==
  LET at(d) == (i + d) % (mask + 1)
  IN at(CHOOSE d \in 0 .. mask : at(d) \in S /\ \A e \in 0 .. d - 1 : at(e) \notin S)

-----------------------------------------------------------------------------
(* Probing for a key.  A short key is its word; a longer one is compared   *)
(* with the string in the bucket's slot.                                   *)

\* Mutant: equal words are taken for equal keys.
HoldsWord(tab, ks, i, key) == tab[i].w = WordOf[key]

Holds(tab, ks, i, key) ==
  /\ tab[i].w = WordOf[key]
  /\ key \in Short \/ ks[Slot(tab[i].l)] = key

\* The bucket that holds key, or the vacant one that ends its probe.
Probe(tab, ks, mask, key) ==
  FirstOf({ i \in Buckets(mask) : tab[i].w = 0 \/ Holds(tab, ks, i, key) },
          Home(WordOf[key], mask), mask)

\* The slot of key that a probe of it found, as a link.
LinkFound(tab, ks, mask, key) == tab[Probe(tab, ks, mask, key)].l

\* The string stored in the slot of a key.
Stored(key) == IF key \in Short THEN Empty ELSE key

\* The key of a slot, of its bucket's word and the string stored in it.
KeyOf(w, string) ==
  IF IsShort(w) THEN CHOOSE k \in Short : WordOf[k] = w ELSE string

\* The keys of the buckets that are not vacant, in bucket order: a walk from
\* the last bucket to the first puts each in front of the ones before.
KeyList(tab, ks, mask) ==
  LET walk[j \in 0 .. mask + 1] ==
        IF j = 0 THEN <<>>
        ELSE LET b == tab[mask + 1 - j]
             IN IF b.w = 0 THEN walk[j - 1]
                ELSE <<KeyOf(b.w, ks[Slot(b.l)])>> \o walk[j - 1]
  IN walk[mask + 1]

-----------------------------------------------------------------------------
(* Placement, growth and deletion.                                         *)

PutBucket(tab, i, w, l) == [tab EXCEPT ![i] = Bucket(w, l)]

\* Put a pair in the first vacant bucket of its word's probe.
InsRaw(tab, mask, w, l) ==
  PutBucket(tab, FirstOf(Vacant(tab), Home(w, mask), mask), w, l)

GrownMask(mask) == 2 * mask + 1

\* Mutant: pairs keep their bucket when the table doubles.
GrowTabInPlace(tab, mask) ==
  [i \in Buckets(GrownMask(mask)) |-> IF i <= mask THEN tab[i] ELSE Vacancy]

\* Every pair placed anew in a table of twice the buckets, in bucket order.
GrowTab(tab, mask) ==
  LET moved[k \in 0 .. mask + 1] ==
        IF k = 0 THEN NewTable(GrownMask(mask))
        ELSE IF tab[k - 1].w = 0 THEN moved[k - 1]
        ELSE InsRaw(moved[k - 1], GrownMask(mask), tab[k - 1].w, tab[k - 1].l)
  IN moved[mask + 1]

\* Mutant: a pair that would reach its home exactly is left behind.
MovesBackStrictly(w, hole, k, mask) ==
  Distance(Home(w, mask), k, mask) > Distance(hole, k, mask)

\* The pair at k may fill the hole: its probe goes over the hole.
MovesBack(w, hole, k, mask) ==
  Distance(Home(w, mask), k, mask) >= Distance(hole, k, mask)

\* Vacate bucket at.  Each pair of the run behind it that may fill the hole
\* does and leaves a hole of its own; the last hole is vacated.
DelAt(tab, mask, at) ==
  LET end == FirstOf(Vacant(tab), BNext(at, mask), mask)
      shifted[d \in 0 .. mask] ==
        IF d = 0 THEN [tab |-> tab, hole |-> at]
        ELSE LET s == shifted[d - 1]
                 k == (at + d) % (mask + 1)
             IN IF MovesBack(tab[k].w, s.hole, k, mask)
                THEN [tab |-> [s.tab EXCEPT ![s.hole] = tab[k]], hole |-> k]
                ELSE s
      last == shifted[Distance(at, end, mask) - 1]
  IN PutBucket(last.tab, last.hole, 0, Nil)

-----------------------------------------------------------------------------
(* Well-formedness.                                                        *)

\* No probe for the pair in a bucket meets a vacant bucket before it.
ProbesReach(tab, mask) ==
  \A i \in Buckets(mask) \ Vacant(tab) :
    LET home == Home(tab[i].w, mask)
    IN \A v \in Vacant(tab) : Distance(home, i, mask) < Distance(home, v, mask)

-----------------------------------------------------------------------------
(* For the runs: all longer keys share a word, and of 8 buckets the homes  *)
(* of the two words are the last two, so that runs wrap round the end.     *)

CollidingWords == [k \in Key |-> IF k \in Short THEN 2 ELSE 1]

CrowdedFold == [w \in Word |-> IF w = 1 THEN 14 ELSE 15]
=============================================================================
