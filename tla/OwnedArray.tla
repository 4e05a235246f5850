----------------------------- MODULE OwnedArray -----------------------------
(***************************************************************************)
(* The growable array of owned elements, src/containers/dynamic_array.bend *)
(* from "owning elements" on.  An element is moved, never copied: it is in *)
(* the array, with the caller, or it has been released.                    *)
(***************************************************************************)
EXTENDS ArrayBlock

VARIABLES da,        \* the array
          held,      \* the elements the caller holds
          released,  \* the elements let go of
          obs        \* the last call and its answer

vars == <<da, held, released, obs>>

\* An element that is refused comes back to the caller.
Refused(call, x, error) == UNCHANGED <<da, held, released>> /\ obs' = call \o <<x, error>>

PushOwned(x) ==
  IF HasRoom(da) \/ MayGrow(da)
  THEN /\ da' = Pushed(da, x)
       /\ held' = held \ {x} /\ UNCHANGED released
       /\ obs' = <<"Push", x, "Done">>
  ELSE Refused(<<"Push">>, x, "CapacityExceeded")

PopOwned ==
  /\ UNCHANGED released
  /\ IF da.length = 0
     THEN UNCHANGED <<da, held>> /\ obs' = <<"Pop", "EmptyArray">>
     ELSE /\ da' = Popped(da)
          /\ held' = held \cup {LastOf(da)}
          /\ obs' = <<"Pop", "Done", LastOf(da)>>

SwapOwned(i, x) ==
  IF i < da.length
  THEN /\ da' = [da EXCEPT !.slots[i] = x]
       /\ held' = (held \ {x}) \cup ({da.slots[i]} \ {NoValue})
       /\ UNCHANGED released
       /\ obs' = <<"Swap", i, x, "Done", da.slots[i]>>
  ELSE Refused(<<"Swap", i>>, x, "IndexOutOfRange")

\* The element that was there is released.
SetOwned(i, x) ==
  IF i < da.length
  THEN /\ da' = [da EXCEPT !.slots[i] = x]
       /\ held' = held \ {x}
       /\ released' = released \cup ({da.slots[i]} \ {NoValue})
       /\ obs' = <<"Set", i, x, "Done">>
  ELSE Refused(<<"Set", i>>, x, "IndexOutOfRange")

\* The slot is empty while f has its element; f gives back y for it.
Put(a, i, y) == [[a EXCEPT !.slots[i] = NoValue] EXCEPT !.slots[i] = y]

\* f gives back the element it got, or one that it holds, and then it answers
\* with the element it got.
UpdateOwned(i, y) ==
  /\ UNCHANGED released
  /\ IF i < da.length /\ da.slots[i] # NoValue
     THEN LET x == da.slots[i]
          IN /\ y \in held \cup {x}
             /\ da' = Put(da, i, y)
             /\ held' = (held \cup {x}) \ {y}
             /\ obs' = IF y = x THEN <<"Update", i, y, "Done">>
                       ELSE <<"Update", i, y, "Done", x>>
     ELSE UNCHANGED <<da, held>> /\ obs' = <<"Update", i, y, "IndexOutOfRange">>

ReserveOwned(n) ==
  /\ UNCHANGED <<held, released>>
  /\ IF Feasible(da, n)
     THEN da' = Reserved(da, n) /\ obs' = <<"Reserve", n, "Done">>
     ELSE UNCHANGED da /\ obs' = <<"Reserve", n, "CapacityExceeded">>

Elements(a) == {a.slots[s] : s \in DOMAIN a.slots} \ {NoValue}

ClearOwned ==
  /\ da' = ClearedWhole(da)
  /\ released' = released \cup Elements(da)
  /\ UNCHANGED held
  /\ obs' = <<"Clear">>

\* Mutant: the drain starts one slot too low.
DrainedLow(a) ==
  SelectSeq([i \in 1 .. a.length |-> IF i = a.length THEN NoValue ELSE a.slots[i - 1]],
            LAMBDA x : x # NoValue)

\* The slots are emptied from the last one down, onto the front of the list.
Drained(a) == ListOf(a)

\* The array is consumed; the caller makes another one.
IntoListOwned ==
  /\ held' = held \cup {Drained(da)[j] : j \in DOMAIN Drained(da)}
  /\ obs' = <<"IntoList", Drained(da)>>
  /\ UNCHANGED released
  /\ \E k \in Limits : da' = NewArray(k)

Look ==
  /\ UNCHANGED <<da, held, released>>
  /\ obs' \in {<<"Length", da.length>>, <<"Capacity", da.cap>>}

-----------------------------------------------------------------------------
Init ==
  /\ \E k \in Limits : da = NewArray(k)
  /\ held = Value /\ released = {}
  /\ obs = <<"New">>

Next ==
  \/ \E x \in held : PushOwned(x)
  \/ PopOwned \/ ClearOwned \/ IntoListOwned \/ Look
  \/ \E i \in 0 .. da.length :
       \/ \E x \in held : SwapOwned(i, x) \/ SetOwned(i, x)
       \/ \E y \in Value : UpdateOwned(i, y)
  \/ \E n \in 0 .. 2 ^ da.limit + 1 : ReserveOwned(n)

Spec == Init /\ [][Next]_vars

-----------------------------------------------------------------------------
(* Properties.                                                             *)

\* Every element is in one place: in one slot, with the caller, or released.
\* None is lost or in two places, whatever is refused, updated or drained.
EveryElementIsSomewhere ==
  /\ held \cup released \cup Elements(da) = Value
  /\ held \cap released = {}
  /\ (held \cup released) \cap Elements(da) = {}
  /\ \A s, t \in DOMAIN da.slots :
       da.slots[s] = da.slots[t] /\ da.slots[s] # NoValue => s = t

\* The owned array is a sequence too, and no slot is left empty by an update.
Vec == INSTANCE BoundedVector
         WITH items <- [i \in 1 .. da.length |-> da.slots[i - 1]],
              capacity <- da.cap, most <- 2 ^ da.limit,
              Limit <- {ClampLimit(k) : k \in Limits}

ImplementsVector == Vec!VecSpec
=============================================================================
