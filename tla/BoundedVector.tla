--------------------------- MODULE BoundedVector ----------------------------
(***************************************************************************)
(* What a growable array promises: a sequence read and written by position *)
(* and changed at its end, within a largest length, whose capacity doubles *)
(* when it is outgrown and never shrinks.  A refused call changes nothing. *)
(***************************************************************************)
EXTENDS Naturals, Sequences

CONSTANTS Value, Limit

VARIABLES items,     \* the elements; position i is items[i + 1]
          capacity,  \* the length up to which the array does not grow
          most,      \* the largest capacity
          obs        \* the last call and its answer

vars == <<items, capacity, most, obs>>

Least(from, n) ==
  CHOOSE c \in {from * 2 ^ k : k \in 0 .. n} :
    c >= n /\ \A k \in 0 .. n : from * 2 ^ k >= n => c <= from * 2 ^ k

New ==
  /\ items' = <<>> /\ capacity' = 1
  /\ most' \in {2 ^ k : k \in Limit}

Push(x) ==
  /\ UNCHANGED most
  /\ \/ /\ Len(items) < most
        /\ items' = Append(items, x)
        /\ capacity' = IF Len(items) < capacity THEN capacity ELSE 2 * capacity
        /\ obs' = <<"Push", x, "Done">>
     \/ /\ Len(items) = most
        /\ UNCHANGED <<items, capacity>>
        /\ obs' = <<"Push", x, "CapacityExceeded">>

Pop ==
  /\ UNCHANGED <<capacity, most>>
  /\ \/ /\ items # <<>>
        /\ items' = SubSeq(items, 1, Len(items) - 1)
        /\ obs' = <<"Pop", "Done", items[Len(items)]>>
     \/ items = <<>> /\ UNCHANGED items /\ obs' = <<"Pop", "EmptyArray">>

Reserve(n) ==
  /\ UNCHANGED <<items, most>>
  /\ \/ /\ n <= most
        /\ capacity' = Least(capacity, n)
        /\ obs' = <<"Reserve", n, "Done">>
     \/ n > most /\ UNCHANGED capacity /\ obs' = <<"Reserve", n, "CapacityExceeded">>

Clear ==
  /\ items' = <<>> /\ UNCHANGED <<capacity, most>>
  /\ obs' = <<"Clear">>

\* x comes to position i; a swap gives the element that was there, a set does
\* not, and an update gives what its function makes of it.
Replace(call, i, x) ==
  /\ UNCHANGED <<capacity, most>>
  /\ i < Len(items)
  /\ items' = [items EXCEPT ![i + 1] = x]
  /\ \/ call # "Swap" /\ obs' = <<call, i, x, "Done">>
     \/ call # "Set" /\ obs' = <<call, i, x, "Done", items[i + 1]>>

Outside(call, i, x) ==
  /\ i >= Len(items)
  /\ UNCHANGED <<items, capacity, most>>
  /\ obs' = <<call, i, x, "IndexOutOfRange">>

Look ==
  /\ UNCHANGED <<items, capacity, most>>
  /\ \/ \E i \in DOMAIN items : obs' = <<"Get", i - 1, "Done", items[i]>>
     \/ \E i \in 0 .. 2 * most : i >= Len(items) /\ obs' = <<"Get", i, "IndexOutOfRange">>
     \/ obs' = <<"Length", Len(items)>>
     \/ obs' = <<"Capacity", capacity>>
     \/ obs' = <<"ToList", items>>

\* The array is consumed and its elements are the caller's, in order.
IntoList == obs' = <<"IntoList", items>> /\ New

VecInit ==
  /\ items = <<>> /\ capacity = 1 /\ obs = <<"New">>
  /\ most \in {2 ^ k : k \in Limit}

VecNext ==
  \/ \E x \in Value : Push(x)
  \/ Pop \/ Clear \/ Look \/ IntoList
  \/ \E n \in 0 .. 2 * most + 1 : Reserve(n)
  \/ \E i \in 0 .. Len(items) :
       \E call \in {"Set", "Swap", "Update"}, x \in Value :
         Replace(call, i, x) \/ Outside(call, i, x)

VecSpec == VecInit /\ [][VecNext]_vars
=============================================================================
