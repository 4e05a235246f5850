------------------------------- MODULE Deque --------------------------------
(***************************************************************************)
(* The two-list double-ended queue, src/containers/deque.bend: the         *)
(* elements are the front list followed by the back list reversed.  A call *)
(* for an end whose list is empty first moves half of the other list over. *)
(*                                                                         *)
(* work counts the list cells the last call went over, to account for the  *)
(* cost the comments promise.                                              *)
(***************************************************************************)
EXTENDS Integers, SequencesExt

CONSTANTS Value,
          MaxLength  \* no element is pushed beyond this length

VARIABLES d,     \* the two lists, heads first, and their lengths
          obs,   \* the last call and its answer
          work   \* the list cells the last call went over

vars == <<d, obs, work>>

Items(q) == q.front \o Reverse(q.back)

\* The first n elements stay, the others are turned round.
Kept(n, s) == SubSeq(s, 1, n)

Turned(n, s) == Reverse(SubSeq(s, n + 1, Len(s)))

Half(n) == n \div 2

MoveFront(q) ==
  [front |-> Turned(Half(q.nb), q.back), back |-> Kept(Half(q.nb), q.back),
   nf |-> q.nb - Half(q.nb), nb |-> Half(q.nb)]

MoveBack(q) ==
  [front |-> Kept(Half(q.nf), q.front), back |-> Turned(Half(q.nf), q.front),
   nf |-> Half(q.nf), nb |-> q.nf - Half(q.nf)]

ReadyFront(q) == IF q.front = <<>> THEN MoveFront(q) ELSE q

ReadyBack(q) == IF q.back = <<>> THEN MoveBack(q) ELSE q

-----------------------------------------------------------------------------
HasRoom == d.nf + d.nb < MaxLength

PushFront(x) ==
  /\ HasRoom
  /\ d' = [d EXCEPT !.front = <<x>> \o @, !.nf = @ + 1]
  /\ obs' = <<"PushFront", x>>
  /\ work' = 1

PushBack(x) ==
  /\ HasRoom
  /\ d' = [d EXCEPT !.back = <<x>> \o @, !.nb = @ + 1]
  /\ obs' = <<"PushBack", x>>
  /\ work' = 1

\* Every cell of the other list is gone over when half of it is moved.
FrontWork == IF d.front = <<>> THEN 1 + Len(d.back) ELSE 1

BackWork == IF d.back = <<>> THEN 1 + Len(d.front) ELSE 1

PopFront ==
  LET q == ReadyFront(d)
  IN /\ work' = FrontWork
     /\ \/ q.front = <<>> /\ d' = q /\ obs' = <<"PopFront", "Empty">>
        \/ /\ q.front # <<>>
           /\ d' = [q EXCEPT !.front = Tail(@), !.nf = @ - 1]
           /\ obs' = <<"PopFront", "Done", q.front[1]>>

PopBack ==
  LET q == ReadyBack(d)
  IN /\ work' = BackWork
     /\ \/ q.back = <<>> /\ d' = q /\ obs' = <<"PopBack", "Empty">>
        \/ /\ q.back # <<>>
           /\ d' = [q EXCEPT !.back = Tail(@), !.nb = @ - 1]
           /\ obs' = <<"PopBack", "Done", q.back[1]>>

PeekFront ==
  /\ d' = ReadyFront(d)
  /\ work' = FrontWork
  /\ obs' = IF d'.front = <<>> THEN <<"PeekFront", "Empty">>
            ELSE <<"PeekFront", "Done", d'.front[1]>>

PeekBack ==
  /\ d' = ReadyBack(d)
  /\ work' = BackWork
  /\ obs' = IF d'.back = <<>> THEN <<"PeekBack", "Empty">>
            ELSE <<"PeekBack", "Done", d'.back[1]>>

Length == UNCHANGED d /\ obs' = <<"Length", d.nf + d.nb>> /\ work' = 1

ToList ==
  UNCHANGED d /\ obs' = <<"ToList", Items(d)>> /\ work' = 1 + d.nf + d.nb

-----------------------------------------------------------------------------
Init ==
  /\ d = [front |-> <<>>, back |-> <<>>, nf |-> 0, nb |-> 0]
  /\ obs = <<"New">>
  /\ work = 0

Next ==
  \/ \E x \in Value : PushFront(x) \/ PushBack(x)
  \/ PopFront \/ PopBack \/ PeekFront \/ PeekBack
  \/ Length \/ ToList

Spec == Init /\ [][Next]_vars

-----------------------------------------------------------------------------
(* Properties.                                                             *)

\* The calls behave as calls on one sequence, whichever list holds an element.
Ends == INSTANCE EndSequence WITH items <- Items(d)

ImplementsEnds == Ends!EndSpec

\* How far the two lists are from even: what earlier pushes and pops have paid.
Credit(q) == IF q.nf > q.nb THEN q.nf - q.nb ELSE q.nb - q.nf

\* Calls on the ends take constant time when a history is taken together: what
\* a call does beyond a constant was paid for by earlier calls on one end only.
EndsAreAmortized ==
  [][obs'[1] # "ToList" => work' + Credit(d') <= Credit(d) + 3]_vars
=============================================================================
