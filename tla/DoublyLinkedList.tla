-------------------------- MODULE DoublyLinkedList --------------------------
(***************************************************************************)
(* The doubly linked list with generational handles,                       *)
(* src/containers/doubly_linked_list.bend, over the storage of             *)
(* DListStorage.  Slots are recycled; a handle carries the generation its  *)
(* slot had when it was filled, and a removal moves the slot to the next   *)
(* generation, or retires it for ever at the last one.                     *)
(***************************************************************************)
EXTENDS DListStorage

LOCAL INSTANCE TLC

CONSTANTS Tag,        \* this list's identity
          ForeignTag, \* the identity of any other list
          MaxGen,     \* the last generation: 2^32 - 1 in the program
          MaxSlots    \* a bound of the model: the arena grows to MaxSlots slots

ASSUME DListAssumption ==
  /\ Tag # ForeignTag
  /\ MaxGen \in Nat
  /\ MaxSlots \in Nat \ {0}

VARIABLES storage,  \* the arena
          gens,     \* the generation of each slot
          issued,   \* history: every handle an insertion returned
          obs       \* the last call and what it returned

vars == <<storage, gens, issued, obs>>

Handle == [tag : {Tag}, id : 0 .. MaxSlots, generation : 0 .. MaxGen]

\* A handle of another list, for a slot and generation this list also has.
ForeignHandle == [tag |-> ForeignTag, id |-> 0, generation |-> 0]

H(i, g) == [tag |-> Tag, id |-> i, generation |-> g]

\* Mutant: the generation of the slot is not compared.
ValidAnyGeneration(h) == h.id \in DOMAIN gens /\ Readable(storage, h.id)

\* The program checks a handle against the capacity of the generations, then
\* against the generation of its slot, then against the storage.
Valid(h) ==
  /\ h.id \in DOMAIN gens
  /\ gens[h.id] = h.generation
  /\ Readable(storage, h.id)

-----------------------------------------------------------------------------
(* Insertion and removal in a list whose generations are g.                *)

\* Generations double when the id that was filled is the old capacity.
GrownGens(g, id) ==
  IF id \in DOMAIN g THEN g ELSE GrownBlock(g, id, 0)

\* Mutant: the last generation is bumped too.
RetiredPastLast(generation) == generation > MaxGen

Retired(generation) == generation = MaxGen

\* Mutant: a slot that reaches its last generation is already retired.
RemovedStorageEarly(s, i, generation) ==
  IF generation + 1 >= MaxGen THEN Unlinked(s, i)
                              ELSE RecycleSlot(Unlinked(s, i), i)

\* A removed slot is recycled under the next generation unless it is retired.
RemovedStorage(s, i, generation) ==
  IF Retired(generation) THEN Unlinked(s, i) ELSE RecycleSlot(Unlinked(s, i), i)

\* Mutant: a recycled slot keeps its generation.
RemovedGensKept(g, i, generation) == g

RemovedGens(g, i, generation) ==
  IF Retired(generation) THEN g ELSE [g EXCEPT ![i] = generation + 1]

-----------------------------------------------------------------------------
(* The calls.                                                              *)

Room == storage.free # Nil \/ storage.fresh < MaxSlots

Insert(call, a, b, x) ==
  /\ Room
  /\ storage' = InsertBetweenFree(storage, a, b, x)
  /\ LET id == NextSlot(storage)
         h == H(id, GrownGens(gens, id)[id])
     IN /\ gens' = GrownGens(gens, id)
        /\ issued' = issued \cup {h}
        /\ obs' = call \o <<x, "Done", h>>

PushFront(x) == Insert(<<"PushFront">>, Nil, storage.head, x)

PushBack(x) == Insert(<<"PushBack">>, storage.tail, Nil, x)

InsertBefore(h, x) ==
  /\ Valid(h)
  /\ Insert(<<"InsertBefore", h>>, storage.prevs[h.id], Link(h.id), x)

InsertAfter(h, x) ==
  /\ Valid(h)
  /\ Insert(<<"InsertAfter", h>>, Link(h.id), storage.nexts[h.id], x)

Remove(h) ==
  /\ Valid(h)
  /\ storage' = RemovedStorage(storage, h.id, h.generation)
  /\ gens' = RemovedGens(gens, h.id, h.generation)
  /\ obs' = <<"Remove", h, "Done", storage.vals[h.id]>>
  /\ UNCHANGED issued

Set(h, x) ==
  /\ Valid(h)
  /\ storage' = SetValue(storage, h.id, x)
  /\ obs' = <<"Set", h, x, "Done">>
  /\ UNCHANGED <<gens, issued>>

\* The handle of the element a link designates, under its slot's generation.
NeighbourOf(l) ==
  IF l = Nil THEN <<"None">> ELSE <<"Some", H(Slot(l), gens[Slot(l)])>>

Read(result) == obs' = result /\ UNCHANGED <<storage, gens, issued>>

Get(h) == Valid(h) /\ Read(<<"Get", h, "Done", storage.vals[h.id]>>)

NextOf(h) ==
  Valid(h) /\ Read(<<"Next", h, "Done">> \o NeighbourOf(storage.nexts[h.id]))

PrevOf(h) ==
  Valid(h) /\ Read(<<"Prev", h, "Done">> \o NeighbourOf(storage.prevs[h.id]))

Length == Read(<<"Length", storage.count>>)

List == Read(<<"ToList", ToList(storage)>>)

\* Whatever the operation, a call on a handle that is not valid fails and
\* changes nothing.
Refuse(h) ==
  \/ h.tag # Tag /\ Read(<<"Fail", h, "ForeignHandle">>)
  \/ h.tag = Tag /\ ~ Valid(h) /\ Read(<<"Fail", h, "StaleHandle">>)

-----------------------------------------------------------------------------
Init ==
  /\ storage = NewStorage
  /\ gens = [i \in Arena(1) |-> 0]
  /\ issued = {}
  /\ obs = <<"New">>

Next ==
  \/ \E x \in Value : PushFront(x) \/ PushBack(x)
  \/ \E h \in Handle, x \in Value :
       InsertBefore(h, x) \/ InsertAfter(h, x) \/ Set(h, x)
  \/ \E h \in Handle : Remove(h) \/ Get(h) \/ NextOf(h) \/ PrevOf(h)
  \/ \E h \in Handle \cup {ForeignHandle} : Refuse(h)
  \/ Length
  \/ List

Spec == Init /\ [][Next]_vars

\* The state without the last answer, on which no action depends, and the ways
\* to rename the elements, whose values no operation looks at.
ListState == <<storage, gens, issued>>

ValueSymmetry == Permutations(Value)

-----------------------------------------------------------------------------
(* Correctness.                                                            *)

TypeOK ==
  /\ IsStorage(storage)
  /\ gens \in [Arena(storage.cap) -> 0 .. MaxGen]
  /\ issued \subseteq Handle

(* The links of the live slots, walked from either end, spell one and the  *)
(* same duplicate-free list of exactly the live slots, which is as long as *)
(* the cached count: relinking, recycling and growth never lose, duplicate *)
(* or cross an element (link_in, rm_links, recycle_slot).                  *)
LinksConsistent ==
  \E chain \in Chains(storage) : Represents(storage, chain)

\* The slots whose last generation was issued.
Exhausted == { i \in Arena(storage.fresh) : H(i, MaxGen) \in issued }

(* No slot leaks: whatever the order of removals and reinsertions, a slot  *)
(* below fresh that is not live is on the free stack, or its generations   *)
(* are used up, and never both (recycle_slot, retire: "capacity therefore  *)
(* follows peak live + exhausted slots").                                  *)
NoSlotLeaks ==
  \E m \in 0 .. storage.fresh : \E stack \in Stacks(storage, m) :
    /\ Stacked(storage, m, stack)
    /\ \A i \in Arena(storage.fresh) \ Live(storage) :
         i \in Exhausted <=> \A k \in 1 .. m : stack[k] # Link(i)

(* The arena takes a fresh slot only when every slot it has is live or     *)
(* exhausted (ins_free_pick).                                              *)
GrowsOnlyWhenFull ==
  [][storage'.fresh > storage.fresh =>
       Arena(storage.fresh) \subseteq Live(storage) \cup Exhausted]_vars

(* A handle that once became stale stays stale, through every reuse of its *)
(* slot: the removal's generation bump, or the retirement of the slot, is  *)
(* never undone (validate, retire).                                        *)
StaleForever ==
  [][\A h \in issued : ~ Valid(h) => ~ Valid(h)']_vars

-----------------------------------------------------------------------------
(* Refinement.                                                             *)

\* The slots of the elements in list order, walked back from the tail.
Order == LET links == BackwardWalk(storage)
         IN [k \in 1 .. storage.count |-> Slot(links[k])]

\* The elements in order, each under the handle of its slot and generation.
Entries ==
  LET order == Order
  IN [k \in 1 .. storage.count |->
        [h |-> H(order[k], gens[order[k]]), v |-> storage.vals[order[k]]]]

Abstract ==
  INSTANCE HandleList WITH Foreign <- {ForeignHandle}, entries <- Entries

(* The generational list implements the list with stable handles: every    *)
(* call returns what the abstract list returns, and no handle is issued    *)
(* twice although slots are recycled (inserted_gen, retire, validate).     *)
ImplementsHandleList == Abstract!HandleListSpec
=============================================================================
