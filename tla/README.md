# Models and proofs of bend-collections

bend-collections is a library of containers, mathematics and cryptography for
the Bend language. It is sequential and purely functional: a structure is a
value, a call consumes it and returns the next one, there are no threads, no
clock (the caller passes the time), no input or output and no persistence. What
is hard about it is therefore neither concurrency nor crashes. It is long
sequences of legal calls on structures that keep one fact in several places:
links and counts, tables and arenas, slots that are recycled while handles to
them are still around, blocks that double, callbacks that change what is being
traversed, and 32-bit words at their limits.

The repository proves many single functions in Bend itself (`src/proofs`). The
models here look at something else: each container as a state machine, under
every order of its calls, against an abstract machine that says what it
promises. TLC checks this on small instances; for the doubly linked list, its
iterator, the hash map and the heap the safety properties are also proved for
every instance, and for the first three that they implement their abstract
machines.

Paths below are relative to the repository's `src/src/` unless they say
otherwise.

## 1. Inventory

### Containers

| component | state | calls | what makes it correct |
|---|---|---|---|
| doubly linked list (`containers/doubly_linked_list.bend` over `containers/internal/dlist_storage.bend`) | an arena of slots in three blocks (values, prev, next), head, tail, count, a free stack chained through the next links, and a generation per slot | insert at the ends and beside a handle, remove, get, set, next, prev, length, list | links spell one list from both ends; no slot is lost or used twice; a stale handle is refused for ever; the handles of the API behave like identities |
| list iterator (`containers/dlist_iterator.bend`) | the list, moved in, plus next, last, direction, index | first, last, next, previous, set, add, remove, finish | the cursor is always a gap of the list, whatever it edits beside itself |
| hash map (`containers/hash_table.bend`, `math/hash.bend`) | buckets of (check word, link), linear probing; an arena of keys and values with a free stack | set, get, has, pop, del, keys, size, each also for one-character keys | a function from keys to values; probes end and find; slots are neither lost nor moved |
| LRU cache (`containers/lru.bend`) | the hash map's bucket table, a recency list and a free stack over one arena, deadlines, capacity, counters | add, get, peek, contains, remove, keys, resize, purge, lifetime | evicts the least recently used; drops what is due; table, list and stack agree |
| intrusive list (`containers/internal/intrusive_list.bend`, `containers/intrusive_links.bend`, `docs/INTRUSIVE_LIST.md`) | links and heads that belong to the application, a pool | insert, remove, builders, traversals with callbacks, filter, map, clear, pool | links agree although callbacks edit while a traversal is under way; traversals visit every node once, or stop at a step bound |
| deque, queue, stack | two lists with their lengths; two lists; a list of chunks | the calls of their ends | one sequence; amortized constant time; full chunks under the top |
| dynamic array, copied and owned elements | a block of 2^depth slots, limit, length | push, pop, get, set, swap, reserve, clear, update, into_list | a sequence within its limit; nothing above the length; owned elements are never lost or doubled |
| binary heap and priority queue | a block with depth, capacity, size | push, pop, peek, sorted list, from list | a bag that gives its least element; indices are representable words |
| tree map (`containers/balanced_search_tree.bend`) | an indexed red-black tree in a node store with a free list; cursors and range views | insert, delete, search, cursors, ranges | order, colours, parent links, recycled nodes, cursors across deletions |
| bit set, bit list (`containers/bitset.bend`, `bitlist.bend`, `internal/vec.bend`) | packed words with a partial last word | set algebra, push, get, counts | nothing survives beyond the length |

`priority_queue.bend`, `simple_queue.bend` and the intrusive facade give calls
of the above other names. `laws_*.bend` in the repository's `src/` state the
laws its own proofs prove.

### Mathematics and cryptography

| component | state | what makes it correct |
|---|---|---|
| streaming hashers (`crypto/hash.bend`, `crypto/sha/stream.bend`, `sha512/stream.bend`, `sha3/stream.bend`) | chaining value, pending words, an unfinished word | any cutting of the message into chunks gives the digest of the whole |
| random sources (`crypto/random.bend`, `math/random.bend` and below) | a buffered block, a key that is replaced, pending bytes | every byte is served once and in order, the key is replaced in time; bounded integers are unbiased |
| word arithmetic (`math/u64.bend`, `w64.bend`, `fixed.bend`, `number.bend`) | none | carries between half words; checked, wrapping, saturating families agree |
| integer functions (`math/natural.bend`, `generic.bend`, `number.bend`) | none | equal to their definitions, and overflow is reported exactly when the result does not fit |
| BLAKE3 (`crypto/blake/blake3/blake3.bend`), tested with vectors of `tools/generators/blake3/vectors.c`, which calls the C hasher of `benchmarks/native/blake/blake3.c` (both outside `src/src/`) | a stack of subtrees | the digest is the root of the standard's tree, nothing behind the message has a part in it |
| password hashing (`crypto/argon2/argon2.bend`, `memory.bend`, `password.bend`) | a memory of blocks, the place that is filled, the current address block | a block is made only from settled blocks, so that lanes one after another give what lanes in parallel give |
| floating point, hash cores, ciphers, authenticators, curves | none | straight-line arithmetic on words or field elements |

How components interact: the iterator takes a list over and works on its arena
past all checks; the cache reuses the map's probing, placement, growth and
deletion on its own arena, and chains recency list and free stack through the
same links; the intrusive list is changed by the callbacks it calls; the heap,
the arrays and the stack grow blocks in the same way but each with code of its
own; the hashers and generators drive the compression and block functions.

`PROJECT.json` lists every component with its status, and under `hazards` the
places where the code is hard to test, each with the properties that watch it.

## 2. Modules

Every container has a module of its own that follows its source, and an
abstract module that states what it promises. An action is a whole call: its
guard is the code's conditions, its effect the code's assignments, and `obs`
holds the call with its answer, so that a refinement compares answers as well
as contents. Errors are answers too; a call that fails is an action that
changes nothing else. Values are model values or small integers; keys are model
values that carry a check word and a folded hash.

| module | source | abstract module |
|---|---|---|
| `DListStorage` (operators on a storage record) | `internal/dlist_storage.bend` | |
| `DoublyLinkedList` | `doubly_linked_list.bend` | `HandleList` |
| `DListIterator` extends it | `dlist_iterator.bend` | `ListIterator` extends `HandleList` |
| `ProbeTable` (operators on a bucket table) | the probing half of `hash_table.bend`, `math/hash.bend` | |
| `HashTable` | `hash_table.bend` | `KeyValueMap` |
| `LRU` | `lru.bend` | `LRUCache` |
| `IntrusiveList` | `internal/intrusive_list.bend`, `intrusive_links.bend` | `NodeGroups` |
| `Deque`, `Queue`, `Stack` | `deque.bend`, `queue.bend`, `stack.bend` | `EndSequence` |
| `ArrayBlock` (operators), `DynamicArray`, `OwnedArray` | `dynamic_array.bend` | `BoundedVector` |
| `BinaryHeap` | `binary_heap.bend` | `PriorityBag` |
| `TreeMap` (operators on a tree record, then the calls) | `balanced_search_tree.bend` | `SortedMap` |
| `TreeCursor` extends `TreeMap` | the views and cursors of the same file | `SortedRange` extends `SortedMap` |
| `Bitlist`, `Bitset` | `bitlist.bend`, `bitset.bend` | `BitSequence` |
| `Hasher` | `crypto/hash.bend`, `crypto/sha/stream.bend` and its siblings, `crypto/sha/core.bend` | the padding of FIPS 180-4 and 202, in the module |
| `Blake3` | `crypto/blake/blake3/blake3.bend`, the C hasher, the vectors | the tree of the BLAKE3 paper, in the module |
| `Generator` | `crypto/random.bend`, `math/random/chacha8.bend` | the stream by its definition, in the module |
| `BoundedDraws` | `math/random/rand.bend` | counting words and orders, in the module |
| `WideWord` | `math/u64.bend`, `math/w64.bend`, bytes and bits of `math/fixed.bend` | integers, in the module |
| `Argon2` | `crypto/argon2/argon2.bend`, `memory.bend` | the windows of RFC 9106, in the module |
| `IntegerMath` | `math/generic.bend`, `natural.bend`, `number.bend`, `fixed.bend` | definitions by divisibility and order, in the module |

A `.cfg` with the name of a module checks that module; what it needs besides
model values, such as a crowded hash function or a symmetry, stands at the end of
the module (`TreeMap.cfg` checks the map alone, in `TreeCursor`). `MCSequences` and
`MCValues` instantiate modules. `MCSequences` puts the containers that hold a sequence side by
side, and `MCValues` the parts that compute values, one of them in use in each
behaviour. Their properties are conjunctions of those of the parts.

**Doubly linked list.** `storage` is the program's `R.DL` record; `depth`, the
logarithm of the capacity, and the owner's tag are left out. `gens` is the
block of generations. A handle is `[tag, id, generation]`, and every action
that takes one ranges over all handles there could be, valid, stale, never
issued and foreign. `issued` is history: the handles returned so far. The
storage's append-only calls, which nothing in `src/` calls any more, are left
out except for the insertion they share with the recycling ones.

**Iterator.** `cursor` is the iterator's record beside the list, or none while
the list is not in an iterator; then the calls of the list go on as before.

**Hash map.** `tab` maps buckets to pairs of a word and a link, `0` when
vacant. Probing, growth and backward-shift deletion are recursive functions in
the program; here a probe is the first bucket in circular order that ends it,
and growth and deletion go over the buckets in the program's order. A
one-character key is stored as its word only (`Short`), other keys also as a
string in their slot.

**Cache.** `cache` is the record `F`, its meta words spelt out as fields. A
deadline is a set: empty when the entry is untimed, as the program keeps a flag
beside it. Times are two's-complement words of `TimeBits` bits, so that the sum
of a time and a lifetime wraps. The five counters are not state; the answer of
a call names those it bumps.

**Intrusive list.** A traversal is a state (`visit`) with one action per
iteration, and a callback is an edit out of `Edits`: prepend, remove, move to
another root, free to the pool, take from it, or nothing. The contract of
`docs/INTRUSIVE_LIST.md` says which nodes a callback must leave alone for each
traversal; `keep` in `Edits` is exactly that set. Reading a link before or
after the callback is where traversals differ, and the actions
`VisitEach`, `VisitStaying`, `FilterPrefix`, `FilterTail` and `ClearRest` keep
the program's order. A callback makes one edit.

**Ends.** The program's amounts of work appear as `work`: a cell per element
that a call moves.

**Arrays.** The calls on copied elements exist in the source once generically
and once at a closed type; they differ in `clear`, and `BlocksArePacked` also
compares the two. Owned elements are in one of three places: a slot, `held` by
the caller, `released`.

**Tree map.** The tree is the program's record of two arrays, nodes and
payloads, with links that are slot indices plus one; the freed slots are chained
through the left links. An operator on a tree takes the record and
returns it changed, in the order of the program's writes, so that a read after
a write sees it. The program's mirrored cases take the side as a parameter. Every
loop keeps its fuel (`Repeat`): the descents, walks and repairs stop when it is
used up, and `RedBlack` or `ImplementsSortedMap` fails if that is ever too early. A map made with a limit refuses
entries beyond it, which takes the node back that was made before the payload
was refused.

**Views and cursors.** Both own the map, so `holder` says who has it. A cursor
has the nodes it yields next and yielded last; removing the current entry may
free the slot of its successor instead, whose entry moves. `SortedRange` knows
no nodes: a cursor there is the set of keys it has yet to yield.

**Bits.** A word is the set of the places of its ones. A refused call leaves
the structure; a list keeps its words when it shrinks.

**Hashers.** A chaining value is the sequence of blocks compressed into it, so
two digests are equal only if the same blocks were compressed in the same
order. Block and word sizes, paddings and length fields are the real ones.
Byte *i* of a message is a value of its own.

**BLAKE3.** The compression of something is that something, with its counter,
length and flags. There are three ways to the digest: the program merges chunks
like the carries of a binary counter and holds the last one back; the C hasher,
given a message in one update, hashes the largest subtrees that fit and merges
lazily; the paper splits at the largest power of two. `Hash` compares the first
with the last for every length, and `Check` the first with the second for
the arrays and bytes of the test. A word read beyond the array may be anything.

**Generator.** A word of the stream is known by its key and its place; the
key after a key is the sequence of the words it was made of. Words and bytes are
drawn by the calls that draw them in the program, from one buffer.

**Bounded draws.** A step is one draw, of any word, so rejection and the count
of draws left are steps; a shuffle is one such number per item. The last draw
there is fuel for is used even if it should be rejected; the property speaks of the
words that are accepted.

**Words.** Every operation on limbs is built from limb operations that wrap;
where the program takes a floating-point estimate (square roots), every estimate that
its rounding allows is tried. An accumulator makes results operands. A word is
also put together from lists near its own bytes: with one element replaced, which
may be no byte, or some elements missing or left over.

**Integer functions.** The loops of the source with their fuel, over words of
`Width` bits whose products wrap. The two kinds of instances, with a fast
remainder and without, differ in the gcd.

**Argon2.** A block is the number of times it was filled, which is all that tells
a settled block from a new one. The word that picks the block referred to comes
from the contents, so it may be any. `Fill` is one block, `NextSegment` the loops over
lanes, slices and passes. `Window` is what the standard allows, from the state of
the memory: finished slices outside the one that is being filled, and in its own
lane what precedes the block. The address blocks are known by the segment and the counter they are made
from, and the hash of variable length by the pieces it joins.

**Heap.** Indices are words of `Width` bits; doubling a capacity shifts, so it
can become 0.

## 3. Runs

Every run uses a `VIEW`, the state without the last answer: no action reads
`obs` or `work`, and every property about answers speaks of a transition, so
no behaviour is lost. Symmetry is over values (and nodes and roots) whose
identity no operation looks at; keys, whose hashes differ, are not permuted.
In the runs of the tree the view also names the slots of nodes by their place in
the tree and in the free chain: which slot an entry has decides nothing that an
action does. All runs check for deadlock.

| run | instance | distinct states | shows |
|---|---|---|---|
| `dll` | 2 values, generations 0 and 1, arena up to 4 slots | 68 504 | the list of section 2 implements `HandleList`; its five safety properties |
| `iterator` | 2 values, generations 0 to 2, 3 slots | 46 363 | the cursor is a gap; iteration implements `ListIterator`; handles stay stale across it |
| `hash_table` | 3 keys, 2 values | 2 053 | the map implements a function; tables stay half vacant; probes reach; slots neither leak nor move |
| `lru` | 3 keys, 1 value, capacities 0 to 3, of which no cache is made with 0 or the reserved 3; time stands still | 63 367 | the cache implements `LRUCache`; list, table and free stack agree |
| `lru_expiry` | 3 keys, 2 values, times -1, 0, 1 of two bits, lifetimes none and 1, capacities 0 and 2 | 31 982 | the cache implements `LRUCache` with deadlines, and with values that are replaced |
| `intrusive` | 4 nodes, 2 roots, step bounds up to 4 | 6 372 | links agree under editing callbacks; traversals implement `NodeGroups` |
| `sequences` | deque and queue up to 6 elements, stack up to 9, arrays of depth up to 3 with limits 0, 1, 2 and 5, 2 values or 5 owned elements; words of 2 bits, lists of up to 8 bits with five limits, sets of up to 5 | 3 162 | each implements `EndSequence`, `BoundedVector` or `BitSequence`; amortized cost; chunks full, blocks packed, bits masked; no owned element lost |
| `tree_map` | keys 1 to 7, limits 0, 2 and 5 where the largest is 3, two values of one key | 4 264 | a red-black tree whose slots are accounted for; the map implements `SortedMap` |
| `tree_cursor` | keys 1 to 5, room for 4, five bounds | 35 020 | cursors stand on entries; views and cursors implement `SortedRange` |
| `values` | see below | 10 173 | digests, streams, draws, words and integers are those of their definitions; Argon2 fills its memory from settled blocks |
| `binary_heap` | 3 values, words of 4 bits, up to 8 elements | 39 054 | heap order; the heap implements `PriorityBag` |
| `heap_depth` | the same with 9 elements | (violation) | see section 6 |

Why the bounds suffice:

* `dll`: four slots are three doublings (1, 2, 4), so a fresh slot is taken with
  and without growth. Removing one of three inner neighbours needs three
  elements, and a fourth slot on the free stack below another one shows a lost
  stack. With generations 0 and 1 a slot is filled, recycled, filled and retired. The
  only bound on the calls is that an insertion that would need a fifth fresh
  slot does not happen.
* `iterator`: three elements give an inner gap with neighbours on both sides,
  and removals and insertions on either side of the current element.
* `hash_table`: the table grows from 2 to 8 buckets. The homes of the three
  keys in 8 buckets are 6, 6 and 7, so the run wraps round the end, and
  deletion shifts across the wrap. `""` and the long key have the same check
  word and are told apart by their strings; `""` is also what an empty cell
  holds.
* `lru`: with three keys and capacities up to three every eviction, resize by
  one, two and three, and purge with later reuse occurs, with the same crowded homes.
  Capacity 0 is the refused one. Which value a key has
  is the business of `lru_expiry`, which also has deadlines -1 + 1 = 0, which
  never come, and 1 + 1, which wraps to -2 and has passed at once.
* `intrusive`: four nodes allow a node before and after the one that is
  visited and one that the callback takes from elsewhere; the second root
  receives moved nodes. Bounds below the length of the list make traversals
  stop.
* `sequences`: refilling a side halves lists of up to six; nine elements fill two
  chunks of four and open a third. Limit 5 is clamped to the largest depth 3, as
  limits beyond 31 are in the program; the other limits are reached. Words of two
  bits make lists of up to four words and partial last words of one bit, with a
  limit inside a word, at its end, none at all and 0.
* `tree_map`: a map with room for eight and seven keys reaches red-black trees of
  black height 3, and with them every case of both repairs on both sides; a map
  with room for one or four refuses. Two values of key 3 let a comparison with
  the wrong value fail.
* `tree_cursor`: a removal moves the successor's entry in trees of three and four
  entries. Bounds lie at and between keys, include them or not, and cross.
* `values`: messages of up to 290 bytes are two blocks and more of every
  algorithm, in chunks about the size of a word, of a block and of what the
  padding leaves of one. Groups of four words with keys of one word are
  drawn past two changes of the key (33 words). Words of four bits with three
  draws reject and give up; shuffles have up to four items. Words of two limbs of
  four bits run through every operation with every operand out of four limbs, and
  nine moduli with all low bits set or none, where digit estimates are worst.
  Trees have up to sixteen chunks of two blocks of two words, with every length
  in bytes, so every pattern of carries up to four levels occurs. Integers of six
  bits are all tried, in pairs; the loops' fuel is as tight to six bits as the program's 140
  is to 64. Argon2 fills memories of up to 32 blocks, in one to three lanes and one to
  three passes, with up to eight blocks to a segment, which takes more than one
  address block of three words; memories that are too large, parameters just
  out of range and tags on both sides of 64 bytes are there too.
* `binary_heap`: eight elements have depth 3, the largest at which the capacity
  is a four-bit word; the program's is 31.

**Fairness.** There is none. The library has no scheduler and runs nothing by
itself; that every call returns is a matter of its structural recursion, which
Bend checks, and of the amount of fuel it gives itself, which appears here as
safety: `HalfVacant` (a probe has a vacant bucket to end at),
`BoundGoesOnSufficing`, `HeapOrdered`, the amortized costs.

Every property has a mutant: a variant of one definition that a plausible slip
in the code would give, defined beside it and marked `Mutant`. TLC refutes the
property when the variant takes the definition's place.

## 4. What is proved

For every value of the constants that their named assumptions allow, TLAPS
checks:

| module | theorems |
|---|---|
| `DoublyLinkedList_proofs` | `TypeOK`, `LinksConsistent`, `NoSlotLeaks`, `GrowsOnlyWhenFull`, `StaleForever`, `ImplementsHandleList` |
| the same, over `DListIterator` | `CursorIsAGap`, the list's invariants under iteration, `HandlesOutliveIterations`, `ImplementsListIterator` |
| `HashTable_proofs` over `ProbeTable_proofs` | `HalfVacant`, `EveryPairIsReached`, `NoSlotLeaks`, `EntriesNeverMove`, `ImplementsMap` |
| `LRU_proofs` over `ProbeTable_proofs` | `ListAndTableAgree`, `NoSlotLeaks`, `SlotsFollowEntries`, `ImplementsCache` |
| `HeapAndLists_proofs` over `BinaryHeap` | `HeapOrdered` |
| the same, over `IntrusiveList` | `LinksAgree`, `PoolIsCounted`, `ImplementsGroups`, `BoundGoesOnSufficing` |
| `Sequences_proofs` over `MCSequences` | `CallsAreAmortized`, `EveryElementIsSomewhere`, `BlocksArePacked`; deque, queue and both arrays implement their sequences |
| `PackedSequences_proofs` over it | `ChunksAreFull`, `BitsAreMasked`; stack, list and set of bits implement theirs, so `EachImplementsSequence` |

**Induction.** The library's induction theorems take an operator as a
parameter, which the installed provers cannot instantiate. `Foundations` has
induction without one: `SetInduction` and `BoundedInduction` are about a set of
numbers, and follow from the least number that is not in it (`WFMin` of
`WellFoundedInduction`). `RunExists` gives the function that a recursive
definition chooses: some function follows the recursion, so the chosen one does,
and `BoundedInduction` says what it computes. In this way the sift of the heap,
the growth, deletion and listing of the bucket table and the walk along the list's links are
proved for every size.

**Doubly linked list.** The assumptions are `DListAssumption` (the list's tag
differs from the foreign one, `MaxGen` is a natural number and `MaxSlots` a
positive one) and `NoValueAssumption` (an empty slot's mark is no element).
None of the properties is inductive. The invariant `IInv` adds what the code
relies on without saying so:

* `IssuedBelow`: the handles issued for a slot have its present generation or
  an earlier one. So a bump makes a handle that no one ever had.
* `LiveIssued`: the handle of a live slot's generation is issued. So when a
  slot is removed, its old generation is accounted for.
* `Recycling`: the free stack's slots are distinct, not live, and their present
  generation is *not* issued yet; every other slot that is not live has issued its
  last generation. This is what makes `NoSlotLeaks` an equivalence, and
  recycling safe: the handle an insertion returns is new.
* `storage.fresh <= MaxSlots`, which keeps handles in their type.

The list's order is a function `chain` from positions to links with `Nil` at
both ends. Inserting a slot into a chain and removing one preserve that it
enumerates the live slots (`InsertedEnumerates`, `RemovedEnumerates`) and that
the stored links follow it (`InsertedFollows`, `RemovedFollows`). These lemmas
know nothing of arithmetic on links except that `Slot` undoes `Link`.
`LinkInRepresents`, `UnlinkedRepresents`, `GrownRepresents`,
`SetValueRepresents` and `RecycledRepresents` connect them with the program's
record operations; `StackKept`, `StackPopped` and `StackPushed` do the same for
the free stack. Then one lemma per kind of call shows that a step keeps the
invariant (`InsertStep` for the four insertions, `RemoveStep`, `SetStep`,
`ReadStep`), and `NextKeeps` distributes the disjuncts of `Next` over them.

For the refinement, `ListIsChain` shows that the walk backwards along the links
lists the chain; so an insertion or a removal in the chain is one in the
abstract list (`InsertedElements`, `RemovedElements`), and the neighbours of a
live slot are those of its entry.

**Iterator.** `IterInv` adds to `IInv` that the cursor is a gap of *the chain* at
the place its index says. `CursorIsAGap` speaks of the walk along the links;
with the chain named, an edit at the gap is an insertion or removal at a
known position, and the lemmas of the list apply to it although the iterator
calls the storage past the list's checks. The list's own theorems then hold of
iteration too, because every edit of the iterator makes handles stale and
issues new ones exactly as the list's calls do (`FillsKeeps`, `ThinsKeeps`).

**Hash map.** `HashAssumption` and that of the table ask that a check word is a
positive number, that a short key is known by its word and that the hash is a
natural number; keys may share words and homes in any way. `HashInv` is

* `SlotsTyped`: the arena and the meta words have their types;
* `PairsOfLive`: the bucket table is a table (each pair in one bucket, reached
  from its home, half the buckets vacant), its pairs are exactly those of the
  live slots' keys, and no two of them have one key;
* `LiveCounted`: `n` is the number of live slots;
* `NoSlotLeaks`.

`ProbeTable_proofs` has what each operation makes of a table, in terms of its
set of pairs alone: `InsRawWorks` adds a pair, `GrowTabWorks` keeps the pairs,
`DelAtWorks` takes one away, `ProbeFinds` finds the pair of a key or the vacant
bucket, `KeysListed` lists each key once. The hardest is `DelAtWorks`: while the run behind a deleted
bucket is shifted back, every pair is reached if the hole counts as occupied;
`NextIsNearer`, `ShiftStarts`, `ShiftGoesOn` and `ShiftEnds` show that
with distances around the table, also where the run wraps. A call
of the map is then one of four changes of the invariant (`ReplaceKeeps`,
`TakeFreeKeeps`, `TakeFreshKeeps`, `DropKeeps`) or none, and one of four of the function it stands for.

**Cache.** `LRUAssumption` asks for a positive width of times and natural
numbers as capacities; the keys' assumptions are the table's. `CacheInv` says
that some `chain` (a function from positions to links with `Nil` at both ends,
as in the list above) makes the cache `Good`: `Sized` types the arena,
`ListGood` says that the ends and the cells spell the chain, `TableGood` that
the table's pairs are the chain's slots under the words those slots remember,
and `FreeGood` that the slots below `fresh` which are not in the chain are on the
free stack, each once. No part is inductive alone: an eviction takes its
slot from the list, its bucket by the word in the slot, and pushes the slot on a
stack which shares the next links with the list.

Each record operation of the program has a lemma that says what it makes of the
chain: `TouchedMoves` (to the end), `RemoveSlotDrops`, `DropAtDrops` and
`EvictOldestDrops` (out of it), `InsertSlotAdds` (behind it), `PrefixIsDropped`
and `OverIsEvicted` (the oldest m at once, by induction over the loops of `keys`
and `resize`). `RecencyIsChain` shows that the walk along the links lists the
chain, so that `EntriesOf` a good cache is the abstract sequence, and
`DroppedEntries`, `MovedEntries`, `AddedEntries` and `EvictedEntries` say what
becomes of it. One lemma per call (`AddKeeps` to `LengthKeeps`) then shows the
invariant, the action property and the step of `LRUCache` together.

**Heap.** `HeapOrdered` is proved for heaps of at most 2^(Width - 1) elements,
which is the number at which `heap_depth` shows the capacity to overflow; for larger
ones it is false. `GoodHeap` adds to the order that the block is as large as its
depth says and that the slots hold elements below the size and nothing else is
read. `HoleUpMoves` and `HoleDownMoves` keep an invariant of the
unfinished sift: all is in order if the element to be placed were in the hole or left out;
`SiftUpOrders` and `SiftDownOrders` are their inductions, which also show that the
depth is fuel enough.

**Intrusive list.** `IntrusiveListAssumption` asks that there are finitely many nodes
and that `None` is neither a node nor a root; step bounds are any natural numbers up
to `MaxBound`. The invariant `ListsSound` says where every node is: there are a
function `C` from the places (the roots and the pool) to sequences of nodes, and a
set `X` of the nodes a clear still has in hand, such that

* `World(world, C, X)`: the next links spell `C[p]` from the head of every place `p`
  on, the previous links of a root's nodes spell it backwards, those of the pool's are
  `None`, the places and `X` share no node, whatever is in none of them has no links,
  and the pool's count is the length of its sequence;
* `Travels(world, visit, C, X, y)`: a traversal stands on a node *of its own root*, or
  on none; and a clear stands before a chain `y` of nodes of `X`, all but the first
  node, shorter than the fuel.

`LinksAgree` alone is not inductive. That a traversal stands on a node of its root is
what the callbacks' contract is for: `EditStays` shows that an edit which keeps the
node leaves it in its list, and a filter which removes the node it stands on would
otherwise write the links of another list's. That the fuel exceeds `y` is what the
first pass of a clear establishes; were it to run out, nodes would be left with
their links and in no list.

`WorldWalks` connects the sequences with the walks along the links that the
properties speak of. `Removing`, `Adding`, `Freeing`, `Taking`, `Making` say what
each record operation makes of `C`; `Building` and `Growing` are inductions over
the builders' loops; `Emptying` and `Detaching` are the steps of a clear. An edit is one
of those (`EditOf`, `EditIs`), so each iteration is an edit of a sound world
(`EditWorld`), after which the traversal is where it can go on (`PlainGoes`).

`ListsImplementGroups` maps the links to the sequences they spell (`Grouped`) and
a traversal's place to the nodes it has yet to see (`Visited`). In a sound world
the walk along the next links from a node of a chain is the part of the chain
that starts there, so stepping on is dropping a first element. `EditIsAbstract` says
that each edit of the links is the edit of the same name on the groups,
answer included; a step of a traversal is then such an edit, followed by what
the node's own part in it leaves to see. There is one lemma for each action
(`AbstractVisitEach`, `AbstractFilterPrefix`, ..., `AbstractFinish`). In a clear
the root is empty already, and the nodes yet to see are the chain `y` of `Travels`
and, last, the one that was first.

`BoundGoesOnSufficing` is then proved of the sequences. `Stands` gives the place of the
node visited in the list of its root, hence the number of nodes left to see
(`StandsSomewhere`). An edit that puts no node into that list leaves a
`Shorter` one, in which no node that the callback must keep has more nodes before or after it
(`EditShortens`, `DropShortens`), so each iteration uses up a step and a node (`OneSeen`).
A filter that has kept no node reads the head again after its callbacks, and
would see the whole list afresh: it needs the invariant `OnFirst`, that it
stood on the head before.

**Sequences.** The theorems are about `EachSpec`, in which the container of the
behaviour is any of the seven; `OnlyOneIsUsed` says that a step changes that one
and answers for no other, so each container has its own invariant and its own
step lemma. `BlockAssumption` and `SequencesAssumption` ask that the mark of an
empty slot is no value, that sizes and limits are natural numbers and that a set
of bits fits its largest depth; there is no bound on lengths but the model's own.

* *Deque and queue.* `DequeShape` and `QueueShape` say that the two counters are the
  lengths of the two lists. `FrontReadied` and `BackReadied` show that halving one side
  leaves `Items` as it was; the credit, which is the difference of the lengths
  (`Gap`), falls by what the halving costs. The abstract step and the amortized
  cost of a call then follow together (`DequeGood`, `QueueGood`).
* *Arrays.* `Block` types an array and says that exactly the slots below the length
  hold elements; `Elems` is those slots as a sequence. `BlockGrown`,
  `BlockPushed`, `BlockPopped`, `BlockWritten` and their like are what each
  record operation makes of both. Growing until a capacity is reached and
  listing are recursions, taken by `BoundedInduction`. `Potential` pays for a growth
  with the pushes since the last one, and for a clear with the length.
* *Owned elements.* `EveryElementIsSomewhere` counts slots and is not inductive in
  that form. `Placing` says instead that the elements of the array are a sequence
  without repetition, disjoint from `held` and `released`, and the three
  together are all elements.
* *Stack.* `StackShape` is `ChunksAreFull` with every chunk typed. The sequence is
  the flattening of the chunks' items; `FlattenedFront` and
  `FlattenedIs` relate the library's fold over a concatenation to a
  function from positions to partial sequences, since the fold itself takes an
  operator.
* *Bits.* `Masked` says that the words have no one at or beyond the length.
  `BitAt` is the bit of a place, `BitsOf` the sequence; `PlaceIs` and `PlaceFits`
  are the division of a place into a word and a bit. `Rewrites` is what writing
  one bit does to all others, and pushing, assigning and combining are cases of
  it. `OnesAreCounted` adds up the ones of the words as those of the sequence, and
  `PicksAgree` lists them. Popping a bit leaves it in its word no longer than the call:
  without the masking, a later push of zero would find it.

**Only model-checked.** That the heap is a bag with its priorities
(`ImplementsPriorityBag`: its contents are counted by sums over slots, for which
the library has no theorems that the provers can use), and everything
about the tree and the values. The tree's operators are
loops with fuel that take their step as an operator (`Repeat`), over a record of
seven fields and two arrays, and its repairs have some twenty cases on each
side: that is a proof project of its own. The values
are compared with definitions by recursion over the input, which is induction
over data. There is no liveness to prove.

## 5. What is not modelled

* Floating point, the hash, cipher and curve cores: straight-line arithmetic
  over 32- to 256-bit operands without state. It has no behaviours for a model
  checker to explore, its interesting inputs do not shrink, and the repository
  proves much of it in Bend against specifications over natural numbers.
* Argon2's block function and hashes, how a block lies in words, and the format in
  which a password's hash is kept (`password.bend`).
* The PCG source, random floats and the narrower cuts of a random word, the
  shuffle of lists of 2^31 elements, and the seed from the operating system.
* The interface of numeric types (`num.bend`), which only dispatches.
* The hash function of the map: `Fold` is a parameter, any function from words to
  numbers. The compression and block functions are abstract in the same way.
* The C hasher's keyed modes, its seek and its vectorised compression: the
  vectors use none of them.
* The intrusive list's misuse: a callback that breaks its contract.
* Calls of the tree map that give less of the same answer as a modelled one.
  (`AppendNode` does hold the rollback of a node whose payload is refused, but
  nodes and payloads share a limit and grow together, so no run reaches it and
  no property rests on it.)

## 6. What the models say about the documentation

* `containers/binary_heap.bend:37` says that the depth of a heap is bounded by 31, and line
  45 defines the bound, but nothing uses it: the push onto a full block grows
  it at any depth (218). One more doubling gives a block whose
  capacity is 0 as a word. `heap_depth` shows the step at a word of four bits. In the
  program it takes 2^31 elements.
* `containers/internal/dlist_storage.bend:15` and `:30` and `types/internal_dlist.bend:11` say that
  ids are never reused. That holds for the append-only calls; the list
  itself uses the recycling ones (`insert_between_free`, `recycle_slot`) and
  relies on generations instead.
* The comment from `dlist_storage.bend:368` on says that the deque runs on this
  storage; `deque.bend` is a pair of lists.

## 7. Plan

Done: the modules of section 2 and the proofs of section 4. What is left, in this
order:

1. `SlotsAccounted` and `RedBlack` of the tree, `CursorStandsOnEntries` of its
   cursors.
2. `ImplementsPriorityBag` of the heap.
