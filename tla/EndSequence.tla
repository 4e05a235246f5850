----------------------------- MODULE EndSequence -----------------------------
(***************************************************************************)
(* What queues, stacks and double-ended queues promise: a sequence that is *)
(* read and changed at its ends.  Taking from an empty one fails.          *)
(***************************************************************************)
EXTENDS Naturals, Sequences

CONSTANTS Value

VARIABLES items,  \* the elements, front first
          obs     \* the last call and its answer

vars == <<items, obs>>

EndInit == items = <<>> /\ obs = <<"New">>

PushFront(x) == obs' = <<"PushFront", x>> /\ items' = <<x>> \o items

PushBack(x) == obs' = <<"PushBack", x>> /\ items' = Append(items, x)

Refused(call) == items = <<>> /\ obs' = <<call, "Empty">> /\ UNCHANGED items

PopFront ==
  /\ items # <<>>
  /\ obs' = <<"PopFront", "Done", items[1]>>
  /\ items' = Tail(items)

PopBack ==
  /\ items # <<>>
  /\ obs' = <<"PopBack", "Done", items[Len(items)]>>
  /\ items' = SubSeq(items, 1, Len(items) - 1)

Look ==
  /\ UNCHANGED items
  /\ \/ items # <<>> /\ obs' = <<"PeekFront", "Done", items[1]>>
     \/ items # <<>> /\ obs' = <<"PeekBack", "Done", items[Len(items)]>>
     \/ obs' = <<"Length", Len(items)>>
     \/ obs' = <<"ToList", items>>

EndNext ==
  \/ \E x \in Value : PushFront(x) \/ PushBack(x)
  \/ PopFront \/ PopBack
  \/ Look
  \/ \E call \in {"PopFront", "PopBack", "PeekFront", "PeekBack"} : Refused(call)

EndSpec == EndInit /\ [][EndNext]_vars
=============================================================================
