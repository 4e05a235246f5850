----------------------------- MODULE BinaryHeap -----------------------------
(***************************************************************************)
(* The packed array heap, src/containers/binary_heap.bend, which           *)
(* priority_queue.bend gives other names.  The children of the element in  *)
(* slot i are in slots 2i + 1 and 2i + 2.  Indices are words of Width      *)
(* bits.  A pop leaves what it moved in its old slot, so slots at and      *)
(* above n hold elements that are no longer in the heap.  Elements that    *)
(* compare as equal are the same element.                                  *)
(***************************************************************************)
EXTENDS Integers, Sequences, FiniteSets

CONSTANTS Value, NoValue,
          Width,    \* the bits of an index: 32 in the program
          MaxSize,  \* nothing is pushed onto a heap of this size
          MaxList   \* heaps are made from lists of at most this length

ASSUME HeapAssumption ==
  /\ Value \subseteq Int /\ NoValue \notin Value
  /\ Width \in Nat \ {0} /\ MaxSize \in Nat /\ MaxList \in Nat

\* The lists a heap is made from.
Lists == UNION {[1 .. k -> Value] : k \in 0 .. MaxList}

VARIABLES heap,  \* size, n (the size as a word), depth, cap and the slots
          obs    \* the last call and its answer

vars == <<heap, obs>>

-----------------------------------------------------------------------------
(* Words and slots.                                                        *)

Word(i) == i % 2 ^ Width

Slots(depth) == 0 .. 2 ^ depth - 1

Parent(i) == Word(i - 1) \div 2

LeftOf(i) == Word(Word(2 * i) + 1)

NewHeap ==
  [size |-> 0, n |-> 0, depth |-> 0, cap |-> 1,
   slots |-> [s \in Slots(0) |-> NoValue]]

-----------------------------------------------------------------------------
(* The sifts: a hole in slot i moves until x belongs there, as often as    *)
(* the fuel allows.                                                        *)

UpStops(slots, i, x) ==
  \/ i = 0
  \/ slots[Parent(i)] = NoValue
  \/ slots[Parent(i)] <= x

SiftUp(slots, fuel, i, x) ==
  LET hole[k \in 0 .. fuel] ==
        IF k = 0 THEN [slots |-> slots, i |-> i]
        ELSE LET h == hole[k - 1]
             IN IF UpStops(h.slots, h.i, x) THEN h
                ELSE [slots |-> [h.slots EXCEPT ![h.i] = h.slots[Parent(h.i)]],
                      i |-> Parent(h.i)]
      last == hole[fuel]
  IN [last.slots EXCEPT ![last.i] = x]

\* Mutant: a right child in the last slot is passed over.
HasRightShort(l, size) == l + 1 < Word(size - 1)

HasRight(l, size) == l < Word(size - 1)

\* The smaller child of slot i, the left one if they are equal.
SmallerChild(slots, i, size) ==
  LET l == LeftOf(i)
      r == Word(l + 1)
  IN IF HasRight(l, size) /\ slots[r] # NoValue /\ ~ (slots[l] <= slots[r])
     THEN r ELSE l

DownStops(slots, i, size, x) ==
  \/ LeftOf(i) >= size
  \/ slots[LeftOf(i)] = NoValue
  \/ x <= slots[SmallerChild(slots, i, size)]

SiftDown(slots, fuel, size, x) ==
  LET hole[k \in 0 .. fuel] ==
        IF k = 0 THEN [slots |-> slots, i |-> 0]
        ELSE LET h == hole[k - 1]
                 c == SmallerChild(h.slots, h.i, size)
             IN IF DownStops(h.slots, h.i, size, x) THEN h
                ELSE [slots |-> [h.slots EXCEPT ![h.i] = h.slots[c]], i |-> c]
      last == hole[fuel]
  IN [last.slots EXCEPT ![last.i] = x]

-----------------------------------------------------------------------------
\* The old block is the lower half of the new one.
Grown(h) ==
  [h EXCEPT !.depth = @ + 1, !.cap = Word(2 * @),
            !.slots = [s \in Slots(h.depth + 1) |->
                         IF s \in Slots(h.depth) THEN h.slots[s] ELSE NoValue]]

\* Mutant: the block that has just grown is climbed no higher than before.
PushedShort(h, x) ==
  LET g == IF h.n < h.cap THEN h ELSE Grown(h)
  IN [g EXCEPT !.size = @ + 1, !.n = Word(@ + 1),
               !.slots = SiftUp(g.slots, h.depth, h.n, x)]

Pushed(h, x) ==
  LET g == IF h.n < h.cap THEN h ELSE Grown(h)
  IN [g EXCEPT !.size = @ + 1, !.n = Word(@ + 1),
               !.slots = SiftUp(g.slots, g.depth, h.n, x)]

\* The element in the last slot goes to the root and down; a slot without
\* value would stand for the root.
LastOr(slots, m, root) == IF slots[m] = NoValue THEN root ELSE slots[m]

Popped(h) ==
  LET m == Word(h.n - 1)
  IN [h EXCEPT !.size = @ - 1, !.n = m,
               !.slots = IF m = 0 THEN h.slots
                         ELSE SiftDown(h.slots, h.depth, m,
                                       LastOr(h.slots, m, h.slots[0]))]

\* The roots of a copy of the block, taken out one after the other.
Drained(h) ==
  LET step[k \in 0 .. h.size] ==
        IF k = 0 THEN [out |-> <<>>, slots |-> h.slots, n |-> h.n]
        ELSE LET s == step[k - 1]
                 m == Word(s.n - 1)
             IN IF s.n = 0 \/ s.slots[0] = NoValue THEN s
                ELSE IF m = 0 \/ s.slots[m] = NoValue
                THEN [s EXCEPT !.out = Append(@, s.slots[0]), !.n = 0]
                ELSE [out |-> Append(s.out, s.slots[0]), n |-> m,
                      slots |-> SiftDown(s.slots, h.depth, m, s.slots[m])]
  IN step[h.size].out

HeapOf(xs) ==
  LET after[k \in 0 .. Len(xs)] ==
        IF k = 0 THEN NewHeap ELSE Pushed(after[k - 1], xs[k])
  IN after[Len(xs)]

-----------------------------------------------------------------------------
(* The calls.                                                              *)

Push(x) ==
  /\ heap.size < MaxSize
  /\ heap' = Pushed(heap, x) /\ obs' = <<"Push", x>>

Bare == heap.n = 0 \/ heap.slots[0] = NoValue

Pop ==
  IF Bare THEN UNCHANGED heap /\ obs' = <<"Pop", "EmptyHeap">>
  ELSE heap' = Popped(heap) /\ obs' = <<"Pop", "Done", heap.slots[0]>>

Peek ==
  /\ UNCHANGED heap
  /\ obs' = IF Bare THEN <<"Peek", "EmptyHeap">>
            ELSE <<"Peek", "Done", heap.slots[0]>>

Length == UNCHANGED heap /\ obs' = <<"Length", heap.size>>

ToSortedList == UNCHANGED heap /\ obs' = <<"ToSortedList", Drained(heap)>>

FromList(xs) == heap' = HeapOf(xs) /\ obs' = <<"FromList", xs>>

-----------------------------------------------------------------------------
Init == heap = NewHeap /\ obs = <<"New">>

Next ==
  \/ \E x \in Value : Push(x)
  \/ Pop \/ Peek \/ Length \/ ToSortedList
  \/ \E xs \in Lists : FromList(xs)

Spec == Init /\ [][Next]_vars

\* The state without the last answer, on which no action depends.
State == heap

-----------------------------------------------------------------------------
(* Properties.                                                             *)

\* Every slot below n holds an element that is no smaller than its parent's,
\* and the cached numbers are those of the block.
HeapOrdered ==
  /\ heap.n = heap.size /\ heap.cap = 2 ^ heap.depth /\ heap.n <= heap.cap
  /\ \A i \in 0 .. heap.n - 1 :
       /\ heap.slots[i] # NoValue
       /\ i > 0 => heap.slots[Parent(i)] <= heap.slots[i]

InHeap == {i \in Slots(heap.depth) : i < heap.n}

\* A pop or a peek gives the smallest element there is, the sorted list lists
\* them all, and nothing that was popped and is still in its slot comes back.
Abstract == INSTANCE PriorityBag
  WITH bag <- [x \in {heap.slots[i] : i \in InHeap} |->
                 Cardinality({i \in InHeap : heap.slots[i] = x})]

ImplementsPriorityBag == Abstract!BagSpec

\* "depth is bounded by 31, so every slot index is a representable U32."
DepthIsBounded == heap.depth <= Width - 1
=============================================================================
