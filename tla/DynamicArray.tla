---------------------------- MODULE DynamicArray ----------------------------
(***************************************************************************)
(* The growable array of copyable elements: the calls of                   *)
(* src/containers/dynamic_array.bend that programs use, in their versions  *)
(* at a closed element type.  `work' counts slots gone over.               *)
(***************************************************************************)
EXTENDS ArrayBlock

VARIABLES da,    \* the array
          obs,   \* the last call and its answer
          work   \* the slots the last call went over

vars == <<da, obs, work>>

Push(x) ==
  IF HasRoom(da) \/ MayGrow(da)
  THEN /\ da' = Pushed(da, x)
       /\ obs' = <<"Push", x, "Done">>
       /\ work' = IF HasRoom(da) THEN 1 ELSE 2 * da.cap + 1
  ELSE UNCHANGED da /\ obs' = <<"Push", x, "CapacityExceeded">> /\ work' = 1

Pop ==
  /\ work' = 1
  /\ IF da.length = 0
     THEN UNCHANGED da /\ obs' = <<"Pop", "EmptyArray">>
     ELSE da' = Popped(da) /\ obs' = <<"Pop", "Done", LastOf(da)>>

Get(i) ==
  /\ UNCHANGED da /\ work' = 1
  /\ obs' = IF i < da.length /\ da.slots[i] # NoValue
            THEN <<"Get", i, "Done", da.slots[i]>> ELSE <<"Get", i, "IndexOutOfRange">>

Set(i, x) ==
  /\ work' = 1
  /\ IF i < da.length
     THEN da' = [da EXCEPT !.slots[i] = x] /\ obs' = <<"Set", i, x, "Done">>
     ELSE UNCHANGED da /\ obs' = <<"Set", i, x, "IndexOutOfRange">>

Swap(i, x) ==
  /\ work' = 1
  /\ IF i < da.length
     THEN /\ da' = [da EXCEPT !.slots[i] = x]
          /\ obs' = IF da.slots[i] # NoValue THEN <<"Swap", i, x, "Done", da.slots[i]>>
                    ELSE <<"Swap", i, x, "IndexOutOfRange">>
     ELSE UNCHANGED da /\ obs' = <<"Swap", i, x, "IndexOutOfRange">>

Reserve(n) ==
  IF Feasible(da, n)
  THEN /\ da' = Reserved(da, n) /\ obs' = <<"Reserve", n, "Done">>
       /\ work' = da'.cap
  ELSE UNCHANGED da /\ obs' = <<"Reserve", n, "CapacityExceeded">> /\ work' = 1

\* The slots in use are gone over, not the block.
ClearWork(a) == a.length + 1

Clear ==
  /\ obs' = <<"Clear">> /\ work' = ClearWork(da)
  /\ da' = ClearedDown(da)

Look ==
  /\ UNCHANGED da
  /\ \/ obs' = <<"Length", da.length>> /\ work' = 1
     \/ obs' = <<"Capacity", da.cap>> /\ work' = 1
     \/ obs' = <<"ToList", ListOf(da)>> /\ work' = da.length

-----------------------------------------------------------------------------
Init ==
  /\ \E k \in Limits : da = NewArray(k)
  /\ obs = <<"New">> /\ work = 0

Next ==
  \/ \E x \in Value : Push(x)
  \/ Pop \/ Clear \/ Look
  \/ \E i \in 0 .. da.length : Get(i) \/ \E x \in Value : Set(i, x) \/ Swap(i, x)
  \/ \E n \in 0 .. 2 ^ da.limit + 1 : Reserve(n)

Spec == Init /\ [][Next]_vars

-----------------------------------------------------------------------------
(* Properties.                                                             *)

\* The block holds the elements at its lower end and nothing above them.  The
\* clear in place leaves nothing behind only because of this, and an element
\* that stayed above the length would come back into view after a growth.
BlockIsPacked == Packed(da)

\* Emptying the slots below the length leaves the block a fresh one would be.
ClearsAgree == ClearedDown(da) = ClearedWhole(da)

\* The array is a sequence: calls find, change and list the element they name,
\* refuse what is out of range or beyond the limit, and grow by doubling only
\* when the length outgrows the capacity or more is reserved.
Vec == INSTANCE BoundedVector
         WITH items <- [i \in 1 .. da.length |-> da.slots[i - 1]],
              capacity <- da.cap, most <- 2 ^ da.limit,
              Limit <- {ClampLimit(k) : k \in Limits}

ImplementsVector == Vec!VecSpec

\* The potential: one for every element, to empty its slot again, and more the
\* closer the array is to its next growth.
Potential(a) ==
  a.length + (IF 2 * a.length > a.cap THEN 2 * (2 * a.length - a.cap) ELSE 0)

\* Pushes take constant time when a history is taken together, clears included,
\* whatever is popped, cleared and reserved between them.
PushesAreAmortized ==
  [][obs'[1] \notin {"ToList", "Reserve"} =>
       work' + Potential(da') <= Potential(da) + 6]_vars
=============================================================================
