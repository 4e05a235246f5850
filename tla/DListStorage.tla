---------------------------- MODULE DListStorage ----------------------------
(***************************************************************************)
(* The indexed arena of the doubly linked lists,                           *)
(* src/containers/internal/dlist_storage.bend.                             *)
(*                                                                         *)
(* A storage value is a record of three parallel blocks (vals, prevs,      *)
(* nexts) over the slots 0 .. cap - 1 and of the fields beside them.  The  *)
(* program threads that record through every call, so the operations are   *)
(* functions from a storage to a storage; the modules that own one keep it *)
(* in a variable.  `depth', which the program keeps as log2(cap), and the  *)
(* owner's tag, which never changes, are not in the record.                *)
(***************************************************************************)
EXTENDS Naturals, Sequences

CONSTANTS Value,    \* the elements a list may hold
          NoValue   \* the None of a slot that holds no element

ASSUME NoValueAssumption == NoValue \notin Value

-----------------------------------------------------------------------------
(* Links.  Slot i is designated by the link i + 1; 0 designates no slot.   *)

Nil == 0
Link(i) == i + 1
Slot(l) == l - 1

-----------------------------------------------------------------------------
(* Storages.                                                               *)

Arena(cap) == 0 .. cap - 1

\* The storages whose blocks hold cap slots.
Storages(cap) ==
  [ fresh : 0 .. cap, free : 0 .. cap, count : Nat,
    head : 0 .. cap, tail : 0 .. cap, cap : {cap},
    vals : [Arena(cap) -> Value \cup {NoValue}],
    prevs : [Arena(cap) -> 0 .. cap],
    nexts : [Arena(cap) -> 0 .. cap] ]

IsStorage(s) == s.cap \in Nat \ {0} /\ s \in Storages(s.cap)

NewStorage ==
  [ fresh |-> 0, free |-> Nil, count |-> 0, head |-> Nil, tail |-> Nil,
    cap |-> 1,
    vals |-> [i \in Arena(1) |-> NoValue],
    prevs |-> [i \in Arena(1) |-> Nil],
    nexts |-> [i \in Arena(1) |-> Nil] ]

Live(s) == { i \in Arena(s.cap) : s.vals[i] # NoValue }

\* A handle's id passes the storage's own checks.
Readable(s, i) == i < s.fresh /\ s.vals[i] # NoValue

-----------------------------------------------------------------------------
(* Relinking and insertion.                                                *)

SetNext(links, a, q) ==
  IF a = Nil THEN links ELSE [links EXCEPT ![Slot(a)] = q]

PickEnd(a, n, e) == IF a = Nil THEN n ELSE e

\* Store x at slot n between the links a and b and relink both neighbours.
LinkIn(s, n, nfresh, nfree, a, b, x) ==
  [ fresh |-> nfresh, free |-> nfree, count |-> s.count + 1,
    head |-> PickEnd(a, Link(n), s.head),
    tail |-> PickEnd(b, Link(n), s.tail),
    cap |-> s.cap,
    vals |-> [s.vals EXCEPT ![n] = x],
    prevs |-> SetNext([s.prevs EXCEPT ![n] = a], b, Link(n)),
    nexts |-> SetNext([s.nexts EXCEPT ![n] = b], a, Link(n)) ]

\* A block of capacity cap with an empty half of the same size above it.
GrownBlock(block, cap, blank) ==
  [i \in Arena(2 * cap) |-> IF i < cap THEN block[i] ELSE blank]

Grown(s) ==
  [ s EXCEPT !.cap = 2 * s.cap,
             !.vals = GrownBlock(s.vals, s.cap, NoValue),
             !.prevs = GrownBlock(s.prevs, s.cap, Nil),
             !.nexts = GrownBlock(s.nexts, s.cap, Nil) ]

Roomy(s) == IF s.fresh < s.cap THEN s ELSE Grown(s)

\* Insertion that takes the next fresh slot, whatever the free stack holds.
InsertBetween(s, a, b, x) ==
  LinkIn(Roomy(s), s.fresh, s.fresh + 1, s.free, a, b, x)

\* Insertion that takes the top of the free stack when there is one.
InsertBetweenFree(s, a, b, x) ==
  IF s.free = Nil
  THEN InsertBetween(s, a, b, x)
  ELSE LinkIn(s, Slot(s.free), s.fresh, s.nexts[Slot(s.free)], a, b, x)

\* The slot that InsertBetweenFree fills: the id of the handle it returns.
NextSlot(s) == IF s.free = Nil THEN s.fresh ELSE Slot(s.free)

-----------------------------------------------------------------------------
(* Removal and recycling.                                                  *)

\* Mutant: the tail is left on the removed element.
UnlinkedKeepTail(s, i) ==
  LET p == s.prevs[i]
      n == s.nexts[i]
  IN [ s EXCEPT !.count = s.count - 1,
                !.head = PickEnd(p, n, s.head),
                !.vals[i] = NoValue,
                !.prevs = SetNext(s.prevs, n, p),
                !.nexts = SetNext(s.nexts, p, n) ]

\* The element at slot i leaves the list; its slot keeps its links.
Unlinked(s, i) ==
  LET p == s.prevs[i]
      n == s.nexts[i]
  IN [ s EXCEPT !.count = s.count - 1,
                !.head = PickEnd(p, n, s.head),
                !.tail = PickEnd(n, p, s.tail),
                !.vals[i] = NoValue,
                !.prevs = SetNext(s.prevs, n, p),
                !.nexts = SetNext(s.nexts, p, n) ]

\* Mutant: the slots already on the stack are dropped.
RecycleSlotAlone(s, i) == [s EXCEPT !.free = Link(i), !.nexts[i] = Nil]

\* Push the removed slot i on the free stack.
RecycleSlot(s, i) == [s EXCEPT !.free = Link(i), !.nexts[i] = s.free]

SetValue(s, i, x) == [s EXCEPT !.vals[i] = x]

-----------------------------------------------------------------------------
(* Traversal.  to_list walks backwards from the tail, count steps at most. *)

\* The link designates a slot with an element.
Holds(s, l) == l # Nil /\ s.vals[Slot(l)] # NoValue

\* The links that the backward walk visits, in list order.
BackwardWalk(s) ==
  LET at[k \in 1 .. s.count] ==
        IF k = 1 THEN s.tail
        ELSE IF Holds(s, at[k - 1]) THEN s.prevs[Slot(at[k - 1])] ELSE Nil
  IN [k \in 1 .. s.count |-> at[s.count + 1 - k]]

\* The elements it finds, each put in front of those found before.
ToList(s) ==
  LET links == BackwardWalk(s)
      acc[k \in 0 .. s.count] ==
        IF k = 0 THEN <<>>
        ELSE LET l == links[s.count + 1 - k]
             IN IF Holds(s, l) THEN <<s.vals[Slot(l)]>> \o acc[k - 1] ELSE acc[k - 1]
  IN acc[s.count]

-----------------------------------------------------------------------------
(* Well-formedness.                                                        *)

(* The links of a list of count elements, with Nil before the first and    *)
(* after the last, are the values of a chain, a function on 0 .. count+1.  *)

\* The inner links of chain designate the slots of live, each once.
Enumerates(chain, count, live) ==
  /\ chain[0] = Nil /\ chain[count + 1] = Nil
  /\ \A k \in 1 .. count : chain[k] # Nil /\ Slot(chain[k]) \in live
  /\ \A i \in live : \E k \in 1 .. count : chain[k] = Link(i)
  /\ \A j, k \in 1 .. count : chain[j] = chain[k] => j = k

\* The links stored in the slots of chain are their neighbours in it.
Follows(chain, count, prevs, nexts) ==
  \A k \in 1 .. count : /\ prevs[Slot(chain[k])] = chain[k - 1]
                       /\ nexts[Slot(chain[k])] = chain[k + 1]

Chains(s) == [0 .. s.count + 1 -> 0 .. s.cap]

\* chain is the list that s stores.
Represents(s, chain) ==
  /\ Enumerates(chain, s.count, Live(s))
  /\ Follows(chain, s.count, s.prevs, s.nexts)
  /\ s.head = chain[1] /\ s.tail = chain[s.count]

\* The m slots on the free stack of s, from the top, as links up to Nil.
Stacks(s, m) == [1 .. m + 1 -> 0 .. s.fresh]

Stacked(s, m, stack) ==
  /\ s.free = stack[1] /\ stack[m + 1] = Nil
  /\ \A j, k \in 1 .. m : stack[j] = stack[k] => j = k
  /\ \A k \in 1 .. m : /\ stack[k] # Nil /\ Slot(stack[k]) \notin Live(s)
                       /\ s.nexts[Slot(stack[k])] = stack[k + 1]
=============================================================================
