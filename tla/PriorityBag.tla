---------------------------- MODULE PriorityBag -----------------------------
(***************************************************************************)
(* What a heap promises: a bag of elements that gives up a smallest one.   *)
(***************************************************************************)
EXTENDS Integers, Sequences, Bags, FiniteSets

LOCAL INSTANCE FiniteSetsExt

CONSTANTS Value,
          Lists  \* the lists a heap is made from

VARIABLES bag,  \* the elements
          obs   \* the last call and its answer

vars == <<bag, obs>>

Smallest == Min(BagToSet(bag))

UpTo(x) == [y \in {z \in BagToSet(bag) : z <= x} |-> bag[y]]

\* The elements from the smallest to the largest, as often as the bag has them.
Sorted ==
  [k \in 1 .. BagCardinality(bag) |->
     Min({x \in BagToSet(bag) : BagCardinality(UpTo(x)) >= k})]

BagOf(s) == [x \in {s[i] : i \in DOMAIN s} |->
               Cardinality({i \in DOMAIN s : s[i] = x})]

Push(x) == bag' = bag (+) SetToBag({x}) /\ obs' = <<"Push", x>>

Pop ==
  \/ /\ bag # EmptyBag
     /\ bag' = bag (-) SetToBag({Smallest})
     /\ obs' = <<"Pop", "Done", Smallest>>
  \/ bag = EmptyBag /\ UNCHANGED bag /\ obs' = <<"Pop", "EmptyHeap">>

FromList(xs) == bag' = BagOf(xs) /\ obs' = <<"FromList", xs>>

Look ==
  /\ UNCHANGED bag
  /\ \/ bag # EmptyBag /\ obs' = <<"Peek", "Done", Smallest>>
     \/ bag = EmptyBag /\ obs' = <<"Peek", "EmptyHeap">>
     \/ obs' = <<"Length", BagCardinality(bag)>>
     \/ obs' = <<"ToSortedList", Sorted>>

BagInit == bag = EmptyBag /\ obs = <<"New">>

BagNext ==
  \/ \E x \in Value : Push(x)
  \/ Pop \/ Look
  \/ \E xs \in Lists : FromList(xs)

BagSpec == BagInit /\ [][BagNext]_vars
=============================================================================
