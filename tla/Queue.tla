------------------------------- MODULE Queue --------------------------------
(***************************************************************************)
(* The two-list queue, src/containers/queue.bend (simple_queue.bend gives  *)
(* its calls other names): the elements are the front list followed by the *)
(* back list reversed, and the back list is turned round when an element   *)
(* is wanted and the front list is empty.                                  *)
(***************************************************************************)
EXTENDS Naturals, SequencesExt

CONSTANTS Value,
          MaxLength  \* no element is enqueued beyond this length

VARIABLES q,     \* the two lists, heads first, and the count
          obs,   \* the last call and its answer
          work   \* the list cells the last call went over

vars == <<q, obs, work>>

Items(r) == r.front \o Reverse(r.back)

\* Mutant: only the element wanted is moved.
ReadyOne(r) ==
  IF r.front = <<>> /\ r.back # <<>>
  THEN [r EXCEPT !.front = <<Last(r.back)>>, !.back = Front(r.back)]
  ELSE r

Ready(r) ==
  IF r.front = <<>> THEN [r EXCEPT !.front = Reverse(r.back), !.back = <<>>]
                    ELSE r

-----------------------------------------------------------------------------
Enqueue(x) ==
  /\ q.count < MaxLength
  /\ q' = [q EXCEPT !.back = <<x>> \o @, !.count = @ + 1]
  /\ obs' = <<"PushBack", x>>
  /\ work' = 1

\* Every cell of the back list is gone over when it is turned round.
ReadyWork == IF q.front = <<>> THEN 1 + Len(q.back) ELSE 1

Dequeue ==
  LET r == Ready(q)
  IN /\ work' = ReadyWork
     /\ \/ r.front = <<>> /\ q' = r /\ obs' = <<"PopFront", "Empty">>
        \/ /\ r.front # <<>>
           /\ q' = [r EXCEPT !.front = Tail(@), !.count = @ - 1]
           /\ obs' = <<"PopFront", "Done", r.front[1]>>

Peek ==
  /\ q' = Ready(q)
  /\ work' = ReadyWork
  /\ obs' = IF q'.front = <<>> THEN <<"PeekFront", "Empty">>
            ELSE <<"PeekFront", "Done", q'.front[1]>>

Length == UNCHANGED q /\ obs' = <<"Length", q.count>> /\ work' = 1

ToList ==
  UNCHANGED q /\ obs' = <<"ToList", Items(q)>> /\ work' = 1 + q.count

-----------------------------------------------------------------------------
Init ==
  /\ q = [front |-> <<>>, back |-> <<>>, count |-> 0]
  /\ obs = <<"New">>
  /\ work = 0

Next == (\E x \in Value : Enqueue(x)) \/ Dequeue \/ Peek \/ Length \/ ToList

Spec == Init /\ [][Next]_vars

-----------------------------------------------------------------------------
(* Properties.                                                             *)

\* Elements come out in the order they went in, and calls answer for both lists.
Ends == INSTANCE EndSequence WITH items <- Items(q)

ImplementsEnds == Ends!EndSpec

\* Calls take constant time when a history is taken together: turning the back
\* list round was paid for by the calls that filled it.
EndsAreAmortized ==
  [][obs'[1] # "ToList" => work' + Len(q'.back) <= Len(q.back) + 2]_vars
=============================================================================
