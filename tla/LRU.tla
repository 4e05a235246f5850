-------------------------------- MODULE LRU --------------------------------
(***************************************************************************)
(* The LRU cache, src/containers/lru.bend: the bucket table of the hash    *)
(* map over an arena of slots, the slots in use also on a doubly linked    *)
(* recency list, and the slots that are free on a stack chained through    *)
(* its next links.                                                         *)
(*                                                                         *)
(* The record `cache' stands for the program's LRU record with its meta    *)
(* words; logarithms of sizes are left out, and so are the five metrics,   *)
(* which grow for ever: obs carries what each call adds to them.  A        *)
(* deadline is a signed 64-bit number, here one of TimeBits bits.          *)
(***************************************************************************)
EXTENDS ProbeTable, Integers, FiniteSets

LOCAL INSTANCE TLC

CONSTANTS TimeBits,   \* the width of a time: 64 in the program
          Times,      \* the readings of the clock that calls pass
          Lifetimes,  \* the lifetimes set: {} for none or {milliseconds}
          Capacities, \* the capacities asked for
          Reserved    \* the capacity kept for itself: 2^32 - 1 in the program

\* Every time that the bits can hold.
EveryTime == - (2 ^ (TimeBits - 1)) .. 2 ^ (TimeBits - 1) - 1

ASSUME LRUAssumption ==
  /\ TimeBits \in Nat \ {0}
  /\ Times \subseteq EveryTime
  /\ {} \in Lifetimes
  /\ Capacities \subseteq Nat

VARIABLES cache,  \* the cache's fields
          obs     \* the last call, its answer and the counters it bumped

vars == <<cache, obs>>

Slots(size) == 0 .. size - 1

\* Two's complement: the sum of two times keeps TimeBits bits.
Wrap(t) ==
  LET half == 2 ^ (TimeBits - 1) IN ((t + half) % (2 * half)) - half

-----------------------------------------------------------------------------
(* The recency list.                                                       *)

SetIf(links, l, x) == IF l = Nil THEN links ELSE [links EXCEPT ![Slot(l)] = x]

Unlinked(c, s) ==
  LET p == c.prevs[s]
      q == c.nexts[s]
  IN [c EXCEPT !.head = IF p = Nil THEN q ELSE @,
               !.tail = IF q = Nil THEN p ELSE @,
               !.prevs = SetIf(@, q, p),
               !.nexts = SetIf(@, p, q)]

LinkTail(c, s) ==
  [c EXCEPT !.head = IF c.tail = Nil THEN Link(s) ELSE @,
            !.tail = Link(s),
            !.prevs = [@ EXCEPT ![s] = c.tail],
            !.nexts = SetIf([@ EXCEPT ![s] = Nil], c.tail, Link(s))]

\* Mutant: only the oldest entry moves.
TouchedOldest(c, s) ==
  IF Link(s) # c.head \/ Link(s) = c.tail THEN c ELSE LinkTail(Unlinked(c, s), s)

\* Slot s becomes the newest.
Touched(c, s) ==
  IF Link(s) = c.tail THEN c ELSE LinkTail(Unlinked(c, s), s)

-----------------------------------------------------------------------------
(* Dropping entries.                                                       *)

\* Mutant: the slots already free are lost.
DroppedAlone(c, s) ==
  [Unlinked(c, s) EXCEPT !.n = c.n - 1, !.ents[s] = NoValue,
                         !.free = Link(s), !.nexts[s] = Nil]

\* Slot s leaves the list and becomes free; its bucket is the caller's care.
DropSlot(c, s) ==
  [Unlinked(c, s) EXCEPT !.n = c.n - 1, !.ents[s] = NoValue,
                         !.free = Link(s), !.nexts[s] = c.free]

DropAt(c, at) ==
  DropSlot([c EXCEPT !.tab = DelAt(@, c.mask, at)], Slot(c.tab[at].l))

\* The bucket of link l, whose check word is w, found without a comparison.
DelLink(tab, mask, w, l) ==
  DelAt(tab, mask, FirstOf({ i \in Buckets(mask) : tab[i].l = l },
                           Home(w, mask), mask))

RemoveSlot(c, s) ==
  DropSlot([c EXCEPT !.tab = DelLink(@, c.mask, c.words[s], Link(s))], s)

EvictOldest(c) == RemoveSlot(c, Slot(c.head))

-----------------------------------------------------------------------------
(* Adding.                                                                 *)

\* Keep half of the buckets vacant for one more entry.
Room(c) ==
  IF 2 * (c.n + 1) > c.mask + 1
  THEN [c EXCEPT !.mask = GrownMask(@), !.tab = GrowTab(@, c.mask)]
  ELSE c

\* Immortal without a lifetime, else due at now plus the lifetime.
Deadline(c, now) == { Wrap(now + l) : l \in c.life }

PutEnt(c, s, x, due) == [c EXCEPT !.ents[s] = x, !.due[s] = due]

Extended(block, size, blank) ==
  [i \in Slots(2 * size) |-> IF i < size THEN block[i] ELSE blank]

\* The slot on top of the free stack is taken, or a fresh one; a full arena
\* doubles.
SlotTaken(c) ==
  IF c.free # Nil THEN [c EXCEPT !.free = c.nexts[Slot(c.free)]]
  ELSE IF c.fresh < c.size THEN [c EXCEPT !.fresh = @ + 1]
  ELSE [c EXCEPT !.fresh = @ + 1, !.size = 2 * @,
                 !.ks = Extended(@, c.size, Empty),
                 !.ents = Extended(@, c.size, NoValue),
                 !.prevs = Extended(@, c.size, Nil),
                 !.nexts = Extended(@, c.size, Nil),
                 !.words = Extended(@, c.size, 0),
                 !.due = Extended(@, c.size, {})]

NextSlot(c) == IF c.free = Nil THEN c.fresh ELSE Slot(c.free)

\* A new key whose bucket is written takes the next slot, as the newest.
InsertSlot(c, key, x, due) ==
  LET s == NextSlot(c)
      put == PutEnt(SlotTaken(c), s, x, due)
  IN LinkTail([put EXCEPT !.n = @ + 1, !.ks[s] = Stored(key),
                          !.words[s] = WordOf[key]], s)

\* The key takes the vacant bucket its probe ended at.
MissRoom(c, at, key, x, due) ==
  InsertSlot([c EXCEPT !.tab = PutBucket(@, at, WordOf[key], Link(NextSlot(c)))],
             key, x, due)

\* Mutant: the bucket found before the eviction is used after it.
MissFullStale(c, key, x, due) ==
  MissRoom(EvictOldest(c), Probe(c.tab, c.ks, c.mask, key), key, x, due)

\* The oldest entry is evicted, which may shift buckets: probe again.
MissFull(c, key, x, due) ==
  LET e == EvictOldest(c)
  IN InsertSlot([e EXCEPT !.tab = InsRaw(@, e.mask, WordOf[key],
                                         Link(NextSlot(e)))], key, x, due)

Add(key, x, now) ==
  LET c == Room(cache)
      at == Probe(c.tab, c.ks, c.mask, key)
      l == c.tab[at].l
      due == Deadline(c, now)
  IN \/ /\ l # Nil
        /\ cache' = Touched(PutEnt(c, Slot(l), x, due), Slot(l))
        /\ obs' = <<"Add", key, x, now, FALSE, {"inserts"}>>
     \/ /\ l = Nil /\ c.n < c.cap
        /\ cache' = MissRoom(c, at, key, x, due)
        /\ obs' = <<"Add", key, x, now, FALSE, {"inserts"}>>
     \/ /\ l = Nil /\ c.cap <= c.n
        /\ cache' = MissFull(c, key, x, due)
        /\ obs' = <<"Add", key, x, now, TRUE, {"inserts", "evictions"}>>

-----------------------------------------------------------------------------
(* Reading.                                                                *)

Result(c, answer) == cache' = c /\ obs' = answer

Answer(answer) == Result(cache, answer)

\* Mutant: an entry due at this very time is still alive.
ExpiredLate(due, now) == \E d \in due : d # 0 /\ d < now

\* A deadline of 0 never comes.
Expired(due, now) == \E d \in due : d # 0 /\ d <= now

At(key) == Probe(cache.tab, cache.ks, cache.mask, key)

LinkAt(key) == cache.tab[At(key)].l

\* Whether the entry that a call found has expired.
Gone(key, now) == Expired(cache.due[Slot(LinkAt(key))], now)

EntryOf(key) == <<"Some", cache.ents[Slot(LinkAt(key))]>>

\* Drop the expired entry of key, as a removal.
Expire(key) == DropAt(cache, At(key))

Get(key, now) ==
  \/ LinkAt(key) = Nil /\ Answer(<<"Get", key, now, <<"None">>, {"misses"}>>)
  \/ /\ LinkAt(key) # Nil /\ Gone(key, now)
     /\ Result(Expire(key), <<"Get", key, now, <<"None">>, {"removals", "misses"}>>)
  \/ /\ LinkAt(key) # Nil /\ ~ Gone(key, now)
     /\ Result(Touched(cache, Slot(LinkAt(key))),
               <<"Get", key, now, EntryOf(key), {"hits"}>>)

Peek(key, now) ==
  \/ LinkAt(key) = Nil /\ Answer(<<"Peek", key, now, <<"None">>, {}>>)
  \/ /\ LinkAt(key) # Nil /\ Gone(key, now)
     /\ Result(Expire(key), <<"Peek", key, now, <<"None">>, {"removals"}>>)
  \/ /\ LinkAt(key) # Nil /\ ~ Gone(key, now)
     /\ Answer(<<"Peek", key, now, EntryOf(key), {}>>)

Contains(key, now) ==
  \/ LinkAt(key) = Nil /\ Answer(<<"Contains", key, now, FALSE, {}>>)
  \/ /\ LinkAt(key) # Nil /\ Gone(key, now)
     /\ Result(Expire(key), <<"Contains", key, now, FALSE, {"removals"}>>)
  \/ /\ LinkAt(key) # Nil /\ ~ Gone(key, now)
     /\ Answer(<<"Contains", key, now, TRUE, {}>>)

Remove(key) ==
  \/ LinkAt(key) = Nil /\ Answer(<<"Remove", key, <<"None">>, {}>>)
  \/ /\ LinkAt(key) # Nil
     /\ Result(DropAt(cache, At(key)),
               <<"Remove", key, EntryOf(key), {"removals"}>>)

Length == Answer(<<"Len", cache.n>>)

-----------------------------------------------------------------------------
(* The whole cache.                                                        *)

\* The n links that a walk from the newest meets, oldest first.
Recency(c) ==
  LET at[k \in 1 .. c.n] == IF k = 1 THEN c.tail ELSE c.prevs[Slot(at[k - 1])]
  IN [k \in 1 .. c.n |-> at[c.n + 1 - k]]

\* Drop the oldest entry while it has expired: the cache and the number of
\* entries dropped.
PrefixDropped(c, now) ==
  LET step[k \in 0 .. c.n] ==
        IF k = 0 THEN <<c, 0>>
        ELSE LET d == step[k - 1][1]
             IN IF d.head # Nil /\ Expired(d.due[Slot(d.head)], now)
                THEN <<EvictOldest(d), k>> ELSE step[k - 1]
  IN step[c.n]

Keys(now) ==
  LET p == PrefixDropped(cache, now)
      links == Recency(p[1])
  IN Result(p[1],
       <<"Keys", now, [k \in DOMAIN links |-> KeyOf(p[1].words[Slot(links[k])],
                                               p[1].ks[Slot(links[k])])], p[2]>>)

\* Evict the oldest entries until the rest fits.
EvictedTo(c) ==
  LET step[k \in 0 .. c.n] ==
        IF k = 0 THEN c
        ELSE IF c.cap < step[k - 1].n THEN EvictOldest(step[k - 1])
        ELSE step[k - 1]
  IN step[c.n]

Resize(cap) ==
  \/ cap = 0 /\ Answer(<<"Resize", cap, <<"Fail">>>>)
  \/ LET c == EvictedTo([cache EXCEPT !.cap = cap])
     IN cap # 0 /\ Result(c, <<"Resize", cap, <<"Done", cache.n - c.n>>>>)

SetLifetime(l) == Result([cache EXCEPT !.life = l], <<"SetLifetime", l>>)

\* Mutant: the free stack survives a purge.
PurgedFreeKept(c) ==
  [c EXCEPT !.n = 0, !.head = Nil, !.tail = Nil, !.fresh = 0,
            !.tab = NewTable(c.mask)]

\* Keys, values and list cells are left in the slots, which are all fresh.
Purged(c) ==
  [c EXCEPT !.n = 0, !.head = Nil, !.tail = Nil, !.free = Nil, !.fresh = 0,
            !.tab = NewTable(c.mask)]

Purge == Result(Purged(cache), <<"Purge", cache.n>>)

-----------------------------------------------------------------------------
NewCache(cap) ==
  [ cap |-> cap, n |-> 0, head |-> Nil, tail |-> Nil, free |-> Nil,
    fresh |-> 0, size |-> 1, life |-> {}, mask |-> 1, tab |-> NewTable(1),
    ks |-> [i \in Slots(1) |-> Empty], ents |-> [i \in Slots(1) |-> NoValue],
    prevs |-> [i \in Slots(1) |-> Nil], nexts |-> [i \in Slots(1) |-> Nil],
    words |-> [i \in Slots(1) |-> 0], due |-> [i \in Slots(1) |-> {}] ]

\* No cache is made of capacity 0 or of the reserved one; a resize only
\* refuses 0.
Rejected(cap) == cap \in {0, Reserved}

Init == \E cap \in Capacities :
          ~ Rejected(cap) /\ cache = NewCache(cap) /\ obs = <<"New">>

Next ==
  \/ \E key \in Key, now \in Times :
       \/ \E x \in Value : Add(key, x, now)
       \/ Get(key, now) \/ Peek(key, now) \/ Contains(key, now)
  \/ \E key \in Key : Remove(key)
  \/ \E now \in Times : Keys(now)
  \/ \E cap \in Capacities : Resize(cap)
  \/ \E l \in Lifetimes : SetLifetime(l)
  \/ Purge
  \/ Length

Spec == Init /\ [][Next]_vars

-----------------------------------------------------------------------------
(* Correctness.                                                            *)

Used(c) == LET links == Recency(c) IN { Slot(links[k]) : k \in 1 .. c.n }

(* The recency list, walked from either end, has n slots, each once, and   *)
(* the buckets hold just these, each under the check word that its slot    *)
(* remembers for eviction and where a probe finds it (unlink, link_tail,   *)
(* del_link, del_at, room).                                                *)
ListAndTableAgree ==
  LET c == cache
      links == <<Nil>> \o Recency(c) \o <<Nil>>
      full == Buckets(c.mask) \ Vacant(c.tab)
  IN /\ Cardinality(Used(c)) = c.n
     /\ c.head = links[2] /\ c.tail = links[c.n + 1]
     /\ \A k \in 2 .. c.n + 1 : /\ c.prevs[Slot(links[k])] = links[k - 1]
                                /\ c.nexts[Slot(links[k])] = links[k + 1]
     /\ Cardinality(full) = c.n
     /\ { c.tab[i] : i \in full } = { Bucket(c.words[s], Link(s)) : s \in Used(c) }
     /\ ProbesReach(c.tab, c.mask)

(* A slot below fresh is on the list or on the free stack, once, and never *)
(* on both, although both are chained through the same next links          *)
(* (drop_core, free_next, purge).                                          *)
NoSlotLeaks ==
  LET c == cache
      m == c.fresh - c.n
  IN \E stack \in [1 .. m -> Slots(c.fresh) \ Used(c)] :
       LET at(k) == IF k <= m THEN Link(stack[k]) ELSE Nil
       IN /\ \A j, k \in 1 .. m : stack[j] = stack[k] => j = k
          /\ c.free = at(1)
          /\ \A k \in 1 .. m : c.nexts[stack[k]] = at(k + 1)

(* A fresh slot is taken only when every other is in use and the cache is  *)
(* not full: an eviction leaves its slot to the entry it made room for, so *)
(* that slots follow the peak number of entries (alloc_pick, drop_core).   *)
SlotsFollowEntries ==
  [][cache'.fresh > cache.fresh =>
       cache.n = cache.fresh /\ cache.n < cache.cap]_vars

-----------------------------------------------------------------------------
(* Refinement.                                                             *)

Entries ==
  LET links == Recency(cache)
  IN [k \in 1 .. cache.n |->
        LET s == Slot(links[k])
        IN [key |-> KeyOf(cache.words[s], cache.ks[s]),
            val |-> cache.ents[s], due |-> cache.due[s]]]

Abstract == INSTANCE LRUCache WITH cap <- cache.cap, entries <- Entries,
                                   lifetime <- cache.life

(* The table, the list and the free stack together implement a bounded     *)
(* sequence of entries in the order of their last use: what is evicted is  *)
(* the entry least recently used, whatever was expired, removed, resized   *)
(* or purged before (touch, evict_oldest, read, keys).                     *)
ImplementsCache == Abstract!LRUCacheSpec

-----------------------------------------------------------------------------
(* For the runs.                                                           *)

\* The times about 0.
NearTimes == { -1, 0, 1 }

ValueSymmetry == Permutations(Value)

\* The state without the last answer, on which no action depends.
State == cache
=============================================================================
