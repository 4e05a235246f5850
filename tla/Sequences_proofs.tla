-------------------------- MODULE Sequences_proofs ---------------------------
(***************************************************************************)
(* Proofs about the deque, the queue and the arrays of MCSequences: that   *)
(* each is the sequence it promises, what its calls cost over a history,   *)
(* that blocks are packed and that no owned element is lost.               *)
(***************************************************************************)
EXTENDS MCSequences, Foundations

-----------------------------------------------------------------------------

(* The library's operator does this.                                       *)
LEMMA Reversals == \A s : D!Reverse(s) = Turn(s) /\ Q!Reverse(s) = Turn(s)
  BY DEF D!Reverse, Q!Reverse, Turn

-----------------------------------------------------------------------------
(* The deque.                                                              *)

DequeShape(x) ==
  /\ x \in [front : Seq(Value), back : Seq(Value), nf : Nat, nb : Nat]
  /\ x.nf = Len(x.front) /\ x.nb = Len(x.back)

(* Moving half of the back list to the front list keeps the elements in    *)
(* order.                                                                  *)
LEMMA FrontReadied ==
  ASSUME NEW x, DequeShape(x), NEW y, y = D!ReadyFront(x)
  PROVE  /\ DequeShape(y) /\ D!Items(y) = D!Items(x)
         /\ x.front # <<>> => y = x
         /\ x.front = <<>> => y.nf = x.nb - x.nb \div 2 /\ y.nb = x.nb \div 2
<1>1. CASE x.front # <<>>
  BY <1>1 DEF D!ReadyFront
<1>2. CASE x.front = <<>>
  <2>1. PICK s \in Seq(Value) : s = x.back
    BY DEF DequeShape
  <2>0. PICK n \in Nat : n = x.nb /\ n = Len(s)
    BY <2>1 DEF DequeShape
  <2>2. PICK h \in 0 .. n : n = x.nb /\ n = Len(s) /\ h = n \div 2
    BY <2>0
  <2>3. PICK a : a = SubSeq(s, 1, h)
    OBVIOUS
  <2>4. PICK b : b = SubSeq(s, h + 1, Len(s))
    OBVIOUS
  <2>5. a \in Seq(Value) /\ Len(a) = h /\ b \in Seq(Value) /\ Len(b) = n - h /\ a \o b = s
    <3>1. h \in 0 .. Len(s)
      BY <2>2
    <3>2. a \in Seq(Value) /\ Len(a) = h /\ b \in Seq(Value) /\ Len(b) = Len(s) - h
          /\ a \o b = s
      BY <3>1, <2>3, <2>4, SplitSequence
    <3> QED BY <3>2, <2>2
  <2>6. PICK c : c = Turn(b)
    OBVIOUS
  <2>7. c \in Seq(Value) /\ Len(c) = n - h
    BY <2>5, <2>6, TurnSequence
  <2>8. y = [front |-> c, back |-> a, nf |-> n - h, nb |-> h]
    BY <1>2, <2>1, <2>2, <2>3, <2>4, <2>6, Reversals
       DEF D!ReadyFront, D!MoveFront, D!Half, D!Turned, D!Kept
  <2>9. y.front = c /\ y.back = a /\ y.nf = n - h /\ y.nb = h
        /\ y \in [front : Seq(Value), back : Seq(Value), nf : Nat, nb : Nat]
    BY <2>5, <2>7, <2>8
  <2>10. DequeShape(y)
    BY <2>5, <2>7, <2>9 DEF DequeShape
  <2>11. Turn(s) = c \o Turn(a)
    BY <2>5, <2>6, TurnOfJoin
  <2>12. Turn(s) \in Seq(Value)
    BY TurnSequence
  <2>13. D!Items(y) = c \o Turn(a)
    BY <2>9, Reversals DEF D!Items
  <2>14. D!Items(x) = <<>> \o Turn(s)
    BY <1>2, <2>1, Reversals DEF D!Items
  <2>15. D!Items(y) = D!Items(x)
    BY <2>11, <2>12, <2>13, <2>14, JoinedWithEmpty
  <2> QED BY <1>2, <2>2, <2>9, <2>10, <2>15
<1> QED BY <1>1, <1>2

(* And so does moving half of the front list to the back list.             *)
LEMMA BackReadied ==
  ASSUME NEW x, DequeShape(x), NEW y, y = D!ReadyBack(x)
  PROVE  /\ DequeShape(y) /\ D!Items(y) = D!Items(x)
         /\ x.back # <<>> => y = x
         /\ x.back = <<>> => y.nb = x.nf - x.nf \div 2 /\ y.nf = x.nf \div 2
<1>1. CASE x.back # <<>>
  BY <1>1 DEF D!ReadyBack
<1>2. CASE x.back = <<>>
  <2>1. PICK s \in Seq(Value) : s = x.front
    BY DEF DequeShape
  <2>0. PICK n \in Nat : n = x.nf /\ n = Len(s)
    BY <2>1 DEF DequeShape
  <2>2. PICK h \in 0 .. n : n = x.nf /\ n = Len(s) /\ h = n \div 2
    BY <2>0
  <2>3. PICK a : a = SubSeq(s, 1, h)
    OBVIOUS
  <2>4. PICK b : b = SubSeq(s, h + 1, Len(s))
    OBVIOUS
  <2>5. a \in Seq(Value) /\ Len(a) = h /\ b \in Seq(Value) /\ Len(b) = n - h /\ a \o b = s
    <3>1. h \in 0 .. Len(s)
      BY <2>2
    <3>2. a \in Seq(Value) /\ Len(a) = h /\ b \in Seq(Value) /\ Len(b) = Len(s) - h
          /\ a \o b = s
      BY <3>1, <2>3, <2>4, SplitSequence
    <3> QED BY <3>2, <2>2
  <2>6. PICK c : c = Turn(b)
    OBVIOUS
  <2>7. c \in Seq(Value) /\ Len(c) = n - h /\ Turn(c) = b
    BY <2>5, <2>6, TurnSequence, TurnedTwice
  <2>8. y = [front |-> a, back |-> c, nf |-> h, nb |-> n - h]
    BY <1>2, <2>1, <2>2, <2>3, <2>4, <2>6, Reversals
       DEF D!ReadyBack, D!MoveBack, D!Half, D!Turned, D!Kept
  <2>9. y.front = a /\ y.back = c /\ y.nf = h /\ y.nb = n - h
        /\ y \in [front : Seq(Value), back : Seq(Value), nf : Nat, nb : Nat]
    BY <2>5, <2>7, <2>8
  <2>10. DequeShape(y)
    BY <2>5, <2>7, <2>9 DEF DequeShape
  <2>11. D!Items(y) = a \o b
    BY <2>7, <2>9, Reversals DEF D!Items
  <2>12. D!Items(x) = s \o Turn(<<>>)
    BY <1>2, <2>1, Reversals DEF D!Items
  <2>13. D!Items(y) = D!Items(x)
    BY <2>5, <2>11, <2>12, JoinedWithEmpty
  <2> QED BY <1>2, <2>2, <2>9, <2>10, <2>13
<1> QED BY <1>1, <1>2

(* The elements of a deque, and what they are after an element is put on   *)
(* or taken from either list.                                              *)
LEMMA DequeItems ==
  ASSUME NEW x, DequeShape(x)
  PROVE  /\ D!Items(x) \in Seq(Value) /\ Len(D!Items(x)) = x.nf + x.nb
         /\ D!Items(x) = x.front \o Turn(x.back)
<1>1. PICK f \in Seq(Value), b \in Seq(Value) :
        f = x.front /\ b = x.back /\ x.nf = Len(f) /\ x.nb = Len(b)
  BY DEF DequeShape
<1>2. PICK c : c = Turn(b)
  OBVIOUS
<1>3. D!Items(x) = f \o c
  BY <1>1, <1>2, Reversals DEF D!Items
<1>4. c \in Seq(Value) /\ Len(c) = x.nb
  BY <1>1, <1>2, TurnSequence
<1>5. f \o c \in Seq(Value) /\ Len(f \o c) = Len(f) + Len(c)
  BY <1>4, Joined
<1> QED BY <1>1, <1>2, <1>3, <1>4, <1>5

LEMMA DequePushFront ==
  ASSUME NEW x, DequeShape(x), NEW v \in Value,
         NEW y, y = [x EXCEPT !.front = <<v>> \o @, !.nf = @ + 1]
  PROVE  /\ DequeShape(y) /\ y.nf = x.nf + 1 /\ y.nb = x.nb
         /\ D!Items(y) = <<v>> \o D!Items(x)
<1>1. PICK f \in Seq(Value), b \in Seq(Value) : f = x.front /\ b = x.back
  BY DEF DequeShape
<1>2. PICK g : g = <<v>> \o f
  OBVIOUS
<1>3. g \in Seq(Value) /\ Len(g) = Len(f) + 1
  BY <1>2
<1>4. y.front = g /\ y.back = b /\ y.nf = x.nf + 1 /\ y.nb = x.nb
      /\ y \in [front : Seq(Value), back : Seq(Value), nf : Nat, nb : Nat]
  <2>1. y = [x EXCEPT !.front = g, !.nf = x.nf + 1]
    BY <1>1, <1>2
  <2>2. x \in [front : Seq(Value), back : Seq(Value), nf : Nat, nb : Nat]
        /\ x.nf = Len(x.front) /\ x.nb = Len(x.back)
    BY DEF DequeShape
  <2>3. x.nf + 1 \in Nat
    BY <2>2, <1>1, <1>2, <1>3
  <2> QED BY <1>1, <1>2, <1>3, <2>1, <2>2, <2>3
<1>5. DequeShape(y)
  BY <1>1, <1>3, <1>4 DEF DequeShape
<1>6. <<v>> \in Seq(Value) /\ Turn(b) \in Seq(Value)
  BY TurnSequence
<1>7. D!Items(y) = g \o Turn(b) /\ D!Items(x) = f \o Turn(b)
  BY <1>1, <1>4, <1>5, DequeItems
<1>8. (<<v>> \o f) \o Turn(b) = <<v>> \o (f \o Turn(b))
  BY <1>6, JoinAssociative
<1> QED BY <1>2, <1>4, <1>5, <1>7, <1>8

LEMMA DequePushBack ==
  ASSUME NEW x, DequeShape(x), NEW v \in Value,
         NEW y, y = [x EXCEPT !.back = <<v>> \o @, !.nb = @ + 1]
  PROVE  /\ DequeShape(y) /\ y.nf = x.nf /\ y.nb = x.nb + 1
         /\ D!Items(y) = Append(D!Items(x), v)
<1>1. PICK f \in Seq(Value), b \in Seq(Value) : f = x.front /\ b = x.back
  BY DEF DequeShape
<1>2. PICK g : g = <<v>> \o b
  OBVIOUS
<1>3. g \in Seq(Value) /\ Len(g) = Len(b) + 1 /\ Turn(g) = Append(Turn(b), v)
  BY <1>2, TurnOfFirst
<1>4. y.front = f /\ y.back = g /\ y.nf = x.nf /\ y.nb = x.nb + 1
      /\ y \in [front : Seq(Value), back : Seq(Value), nf : Nat, nb : Nat]
  <2>1. y = [x EXCEPT !.back = g, !.nb = x.nb + 1]
    BY <1>1, <1>2
  <2>2. x \in [front : Seq(Value), back : Seq(Value), nf : Nat, nb : Nat]
        /\ x.nf = Len(x.front) /\ x.nb = Len(x.back)
    BY DEF DequeShape
  <2>3. x.nb + 1 \in Nat
    BY <2>2, <1>1, <1>2, <1>3
  <2> QED BY <1>1, <1>2, <1>3, <2>1, <2>2, <2>3
<1>5. DequeShape(y)
  BY <1>1, <1>3, <1>4 DEF DequeShape
<1>6. Turn(b) \in Seq(Value)
  BY TurnSequence
<1>7. D!Items(y) = f \o Turn(g) /\ D!Items(x) = f \o Turn(b)
  BY <1>1, <1>4, <1>5, DequeItems
<1>8. f \o Append(Turn(b), v) = Append(f \o Turn(b), v)
  BY <1>6, AppendToJoin
<1> QED BY <1>3, <1>4, <1>5, <1>7, <1>8

LEMMA DequePopFront ==
  ASSUME NEW x, DequeShape(x), x.front # <<>>,
         NEW y, y = [x EXCEPT !.front = Tail(@), !.nf = @ - 1]
  PROVE  /\ DequeShape(y) /\ y.nf = x.nf - 1 /\ y.nb = x.nb /\ x.nf > 0
         /\ D!Items(x) # <<>> /\ D!Items(x)[1] = x.front[1]
         /\ D!Items(y) = Tail(D!Items(x))
<1>1. PICK f \in Seq(Value), b \in Seq(Value) : f = x.front /\ b = x.back
  BY DEF DequeShape
<1>2. f # <<>>
  BY <1>1
<1>3. PICK g : g = Tail(f)
  OBVIOUS
<1>4. g \in Seq(Value) /\ Len(g) = Len(f) - 1 /\ Len(f) > 0
  BY <1>2, <1>3, FirstAndRest
<1>5. y.front = g /\ y.back = b /\ y.nf = x.nf - 1 /\ y.nb = x.nb
      /\ x.nf = Len(f) /\ x.nb = Len(b)
      /\ y \in [front : Seq(Value), back : Seq(Value), nf : Nat, nb : Nat]
  <2>1. y = [x EXCEPT !.front = g, !.nf = x.nf - 1]
    BY <1>1, <1>3
  <2>2. x \in [front : Seq(Value), back : Seq(Value), nf : Nat, nb : Nat]
        /\ x.nf = Len(x.front) /\ x.nb = Len(x.back)
    BY DEF DequeShape
  <2>3. x.nf - 1 \in Nat
    BY <2>2, <1>1, <1>3, <1>4
  <2> QED BY <1>1, <1>3, <1>4, <2>1, <2>2, <2>3
<1>6. DequeShape(y)
  BY <1>4, <1>5 DEF DequeShape
<1>7. Turn(b) \in Seq(Value)
  BY TurnSequence
<1>8. D!Items(y) = g \o Turn(b) /\ D!Items(x) = f \o Turn(b)
  BY <1>1, <1>5, <1>6, DequeItems
<1>9. /\ f \o Turn(b) # <<>> /\ (f \o Turn(b))[1] = f[1]
      /\ Tail(f \o Turn(b)) = Tail(f) \o Turn(b)
  BY <1>2, <1>7, TailOfJoin
<1> QED BY <1>1, <1>3, <1>4, <1>5, <1>6, <1>8, <1>9

LEMMA DequePopBack ==
  ASSUME NEW x, DequeShape(x), x.back # <<>>,
         NEW y, y = [x EXCEPT !.back = Tail(@), !.nb = @ - 1]
  PROVE  /\ DequeShape(y) /\ y.nf = x.nf /\ y.nb = x.nb - 1 /\ x.nb > 0
         /\ D!Items(x) # <<>> /\ D!Items(x)[Len(D!Items(x))] = x.back[1]
         /\ D!Items(y) = SubSeq(D!Items(x), 1, Len(D!Items(x)) - 1)
<1>1. PICK f \in Seq(Value), b \in Seq(Value) : f = x.front /\ b = x.back
  BY DEF DequeShape
<1>2. b # <<>>
  BY <1>1
<1>3. PICK g : g = Tail(b)
  OBVIOUS
<1>4. PICK v : v = b[1]
  OBVIOUS
<1>5. g \in Seq(Value) /\ Len(g) = Len(b) - 1 /\ Len(b) > 0 /\ v \in Value /\ b = <<v>> \o g
  BY <1>2, <1>3, <1>4, FirstAndRest
<1>6. y.front = f /\ y.back = g /\ y.nf = x.nf /\ y.nb = x.nb - 1
      /\ x.nf = Len(f) /\ x.nb = Len(b)
      /\ y \in [front : Seq(Value), back : Seq(Value), nf : Nat, nb : Nat]
  <2>1. y = [x EXCEPT !.back = g, !.nb = x.nb - 1]
    BY <1>1, <1>3
  <2>2. x \in [front : Seq(Value), back : Seq(Value), nf : Nat, nb : Nat]
        /\ x.nf = Len(x.front) /\ x.nb = Len(x.back)
    BY DEF DequeShape
  <2>3. x.nb - 1 \in Nat
    BY <2>2, <1>1, <1>3, <1>5
  <2> QED BY <1>1, <1>3, <1>5, <2>1, <2>2, <2>3
<1>7. DequeShape(y)
  BY <1>5, <1>6 DEF DequeShape
<1>8. Turn(g) \in Seq(Value) /\ Turn(b) = Append(Turn(g), v)
  BY <1>5, TurnSequence, TurnOfFirst
<1>9. PICK i : i = D!Items(y)
  OBVIOUS
<1>10. i \in Seq(Value) /\ i = f \o Turn(g) /\ D!Items(x) = f \o Turn(b)
  BY <1>1, <1>6, <1>7, <1>9, DequeItems
<1>11. D!Items(x) = Append(i, v)
  BY <1>5, <1>8, <1>10, AppendToJoin
<1>12. /\ Append(i, v) # <<>> /\ Append(i, v)[Len(Append(i, v))] = v
       /\ SubSeq(Append(i, v), 1, Len(Append(i, v)) - 1) = i
  BY <1>5, <1>10, LastOfAppended, ZenonT(40)
<1> QED BY <1>1, <1>4, <1>5, <1>6, <1>7, <1>9, <1>11, <1>12

(* What a call on the deque does: the lists keep their lengths, the call   *)
(* is one on the sequence of elements, and its work is within the credit.  *)
DequeGood ==
  /\ DequeShape(d')
  /\ D!Ends!EndNext
  /\ dobs'[1] # "ToList" => dwork' + D!Credit(d') <= D!Credit(d) + 3

\* How far two numbers are from each other.
Gap(m, n) == IF m > n THEN m - n ELSE n - m

LEMMA GapSymmetric == \A m, n \in Nat : Gap(m, n) = Gap(n, m) /\ Gap(m, n) \in Nat
  BY DEF Gap

LEMMA CreditOf ==
  ASSUME NEW x, DequeShape(x)
  PROVE  \E m \in Nat, n \in Nat :
           /\ m = x.nf /\ n = x.nb /\ m = Len(x.front) /\ n = Len(x.back)
           /\ x.front = <<>> <=> m = 0
           /\ x.back = <<>> <=> n = 0
           /\ D!Credit(x) = Gap(m, n) /\ D!Credit(x) = Gap(n, m)
<1>1. x.nf \in Nat /\ x.nb \in Nat /\ x.nf = Len(x.front) /\ x.nb = Len(x.back)
      /\ (x.front = <<>> <=> x.nf = 0) /\ (x.back = <<>> <=> x.nb = 0)
  BY DEF DequeShape
<1>2. PICK m \in Nat, n \in Nat : m = x.nf /\ n = x.nb
  BY <1>1
<1>3. D!Credit(x) = Gap(m, n)
  BY <1>2 DEF Gap, D!Credit
<1>4. Gap(m, n) = Gap(n, m)
  BY GapSymmetric
<1> QED BY <1>1, <1>2, <1>3, <1>4

LEMMA DequePushes ==
  ASSUME DequeShape(d), NEW v \in Value, D!PushFront(v) \/ D!PushBack(v)
  PROVE  DequeGood
<1>1. PICK x, y : x = d /\ y = d'
  OBVIOUS
<1>2. DequeShape(x)
  BY <1>1
<1>3. CASE D!PushFront(v)
  <2>1. y = [x EXCEPT !.front = <<v>> \o @, !.nf = @ + 1]
        /\ dobs' = <<"PushFront", v>> /\ dwork' = 1
    BY <1>1, <1>3 DEF D!PushFront
  <2>2. DequeShape(y) /\ y.nf = x.nf + 1 /\ y.nb = x.nb /\ D!Items(y) = <<v>> \o D!Items(x)
    BY <1>2, <2>1, DequePushFront
  <2>3. D!Ends!PushFront(v)
    BY <1>1, <2>1, <2>2 DEF D!Ends!PushFront
  <2>4. D!Ends!EndNext
    BY <2>3 DEF D!Ends!EndNext
  <2>5. dwork' + D!Credit(y) <= D!Credit(x) + 3
    <3>1. PICK m \in Nat, n \in Nat : m = x.nf /\ n = x.nb /\ D!Credit(x) = Gap(m, n)
      BY <1>2, CreditOf
    <3>2. D!Credit(y) = Gap(m + 1, n)
      BY <2>2, <3>1, CreditOf
    <3>3. 1 + Gap(m + 1, n) <= Gap(m, n) + 3
      BY DEF Gap
    <3> QED BY <2>1, <3>1, <3>2, <3>3
  <2> QED BY <1>1, <2>2, <2>4, <2>5 DEF DequeGood
<1>4. CASE D!PushBack(v)
  <2>1. y = [x EXCEPT !.back = <<v>> \o @, !.nb = @ + 1]
        /\ dobs' = <<"PushBack", v>> /\ dwork' = 1
    BY <1>1, <1>4 DEF D!PushBack
  <2>2. DequeShape(y) /\ y.nf = x.nf /\ y.nb = x.nb + 1 /\ D!Items(y) = Append(D!Items(x), v)
    BY <1>2, <2>1, DequePushBack
  <2>3. D!Ends!PushBack(v)
    BY <1>1, <2>1, <2>2 DEF D!Ends!PushBack
  <2>4. D!Ends!EndNext
    BY <2>3 DEF D!Ends!EndNext
  <2>5. dwork' + D!Credit(y) <= D!Credit(x) + 3
    <3>1. PICK m \in Nat, n \in Nat : m = x.nf /\ n = x.nb /\ D!Credit(x) = Gap(m, n)
      BY <1>2, CreditOf
    <3>2. D!Credit(y) = Gap(m, n + 1)
      BY <2>2, <3>1, CreditOf
    <3>3. 1 + Gap(m, n + 1) <= Gap(m, n) + 3
      BY DEF Gap
    <3> QED BY <2>1, <3>1, <3>2, <3>3
  <2> QED BY <1>1, <2>2, <2>4, <2>5 DEF DequeGood
<1> QED BY <1>3, <1>4

LEMMA DequeFrontCalls ==
  ASSUME DequeShape(d), D!PopFront \/ D!PeekFront
  PROVE  DequeGood
<1>1. PICK x, y, q1 : x = d /\ y = d' /\ q1 = D!ReadyFront(d)
  OBVIOUS
<1>2. DequeShape(x) /\ q1 = D!ReadyFront(x)
  BY <1>1
<1>3. /\ DequeShape(q1) /\ D!Items(q1) = D!Items(x)
      /\ x.front # <<>> => q1 = x
      /\ x.front = <<>> => q1.nf = x.nb - x.nb \div 2 /\ q1.nb = x.nb \div 2
  BY <1>2, FrontReadied
<1>4. PICK m \in Nat, n \in Nat :
        /\ m = x.nf /\ n = x.nb /\ n = Len(x.back)
        /\ x.front = <<>> <=> m = 0
        /\ D!Credit(x) = Gap(m, n)
  BY <1>2, CreditOf
<1>5. PICK k \in Nat, l \in Nat :
        /\ k = q1.nf /\ l = q1.nb
        /\ q1.front = <<>> <=> k = 0
        /\ D!Credit(q1) = Gap(k, l) /\ Len(D!Items(q1)) = k + l
        /\ D!Items(q1) \in Seq(Value)
  <2>1. DequeShape(q1)
    BY <1>3
  <2>2. PICK k \in Nat, l \in Nat :
          /\ k = q1.nf /\ l = q1.nb
          /\ q1.front = <<>> <=> k = 0
          /\ D!Credit(q1) = Gap(k, l)
    BY <2>1, CreditOf
  <2>3. D!Items(q1) \in Seq(Value) /\ Len(D!Items(q1)) = q1.nf + q1.nb
    BY <2>1, DequeItems
  <2>4. Len(D!Items(q1)) = k + l
    BY <2>2, <2>3
  <2> QED BY <2>2, <2>3, <2>4
<1>6. /\ dwork' = IF m = 0 THEN 1 + n ELSE 1
      /\ dwork' + Gap(k, l) <= Gap(m, n) + 2
      /\ k = 0 => l = 0
      /\ dwork' \in Nat /\ Gap(k, l) \in Nat /\ Gap(m, n) \in Nat
  <2>1. dwork' = IF m = 0 THEN 1 + n ELSE 1
    BY <1>1, <1>4 DEF D!PopFront, D!PeekFront, D!FrontWork
  <2>2. CASE m # 0
    <3>1. k = m /\ l = n
      BY <2>2, <1>3, <1>4, <1>5
    <3> QED BY <2>1, <2>2, <3>1 DEF Gap
  <2>3. CASE m = 0
    <3>1. k = n - n \div 2 /\ l = n \div 2
      BY <2>3, <1>3, <1>4, <1>5
    <3> QED BY <2>1, <2>3, <3>1 DEF Gap
  <2> QED BY <2>1, <2>2, <2>3, GapSymmetric
<1>7. CASE y = q1 /\ q1.front = <<>>
           /\ (dobs' = <<"PopFront", "Empty">> \/ dobs' = <<"PeekFront", "Empty">>)
  <2>1. D!Items(x) = <<>>
    <3>1. Len(D!Items(q1)) = 0
      BY <1>5, <1>6, <1>7
    <3> QED BY <3>1, <1>3, <1>5
  <2>2. D!Ends!Refused("PopFront") \/ D!Ends!Refused("PeekFront")
    BY <1>1, <1>3, <1>7, <2>1 DEF D!Ends!Refused
  <2>3. D!Ends!EndNext
    BY <2>2 DEF D!Ends!EndNext
  <2>4. dwork' + D!Credit(y) <= D!Credit(x) + 3
    <3>1. D!Credit(y) = Gap(k, l)
      BY <1>5, <1>7
    <3> QED BY <3>1, <1>4, <1>6, SMTT(30)
  <2> QED BY <1>1, <1>3, <1>7, <2>3, <2>4 DEF DequeGood
<1>8. CASE y = q1 /\ q1.front # <<>> /\ dobs' = <<"PeekFront", "Done", q1.front[1]>>
  <2>1. PICK z : z = [q1 EXCEPT !.front = Tail(@), !.nf = @ - 1]
    OBVIOUS
  <2>2. D!Items(q1) # <<>> /\ D!Items(q1)[1] = q1.front[1]
    BY <1>3, <1>8, <2>1, DequePopFront
  <2>3. D!Ends!Look
    BY <1>1, <1>3, <1>8, <2>2 DEF D!Ends!Look
  <2>4. D!Ends!EndNext
    BY <2>3 DEF D!Ends!EndNext
  <2>5. dwork' + D!Credit(y) <= D!Credit(x) + 3
    <3>1. D!Credit(y) = Gap(k, l)
      BY <1>5, <1>8
    <3> QED BY <3>1, <1>4, <1>6, SMTT(30)
  <2> QED BY <1>1, <1>3, <1>8, <2>4, <2>5 DEF DequeGood
<1>9. CASE /\ q1.front # <<>> /\ dobs' = <<"PopFront", "Done", q1.front[1]>>
           /\ y = [q1 EXCEPT !.front = Tail(@), !.nf = @ - 1]
  <2>1. /\ DequeShape(y) /\ y.nf = q1.nf - 1 /\ y.nb = q1.nb /\ q1.nf > 0
        /\ D!Items(q1) # <<>> /\ D!Items(q1)[1] = q1.front[1]
        /\ D!Items(y) = Tail(D!Items(q1))
    BY <1>3, <1>9, DequePopFront
  <2>2. D!Ends!PopFront
    BY <1>1, <1>3, <1>9, <2>1 DEF D!Ends!PopFront
  <2>3. D!Ends!EndNext
    BY <2>2 DEF D!Ends!EndNext
  <2>4. D!Credit(y) = Gap(k - 1, l) /\ k - 1 \in Nat
    BY <1>5, <2>1, CreditOf, SMTT(30)
  <2>5. dwork' + Gap(k - 1, l) <= Gap(m, n) + 3
    BY <1>6, <2>4 DEF Gap
  <2>6. dwork' + D!Credit(y) <= D!Credit(x) + 3
    BY <1>4, <2>4, <2>5
  <2> QED BY <1>1, <2>1, <2>3, <2>6 DEF DequeGood
<1>10. CASE D!PopFront
  BY <1>10, <1>1, <1>7, <1>9 DEF D!PopFront
<1>11. CASE D!PeekFront
  BY <1>11, <1>1, <1>7, <1>8 DEF D!PeekFront
<1> QED BY <1>10, <1>11

LEMMA DequeBackCalls ==
  ASSUME DequeShape(d), D!PopBack \/ D!PeekBack
  PROVE  DequeGood
<1>1. PICK x, y, q1 : x = d /\ y = d' /\ q1 = D!ReadyBack(d)
  OBVIOUS
<1>2. DequeShape(x) /\ q1 = D!ReadyBack(x)
  BY <1>1
<1>3. /\ DequeShape(q1) /\ D!Items(q1) = D!Items(x)
      /\ x.back # <<>> => q1 = x
      /\ x.back = <<>> => q1.nb = x.nf - x.nf \div 2 /\ q1.nf = x.nf \div 2
  BY <1>2, BackReadied
<1>4. PICK m \in Nat, n \in Nat :
        /\ m = x.nb /\ n = x.nf /\ n = Len(x.front)
        /\ x.back = <<>> <=> m = 0
        /\ D!Credit(x) = Gap(m, n)
  BY <1>2, CreditOf
<1>5. PICK k \in Nat, l \in Nat :
        /\ k = q1.nb /\ l = q1.nf
        /\ q1.back = <<>> <=> k = 0
        /\ D!Credit(q1) = Gap(k, l) /\ Len(D!Items(q1)) = k + l
        /\ D!Items(q1) \in Seq(Value)
  <2>1. DequeShape(q1)
    BY <1>3
  <2>2. PICK k \in Nat, l \in Nat :
          /\ k = q1.nb /\ l = q1.nf
          /\ q1.back = <<>> <=> k = 0
          /\ D!Credit(q1) = Gap(k, l)
    BY <2>1, CreditOf
  <2>3. D!Items(q1) \in Seq(Value) /\ Len(D!Items(q1)) = q1.nf + q1.nb
    BY <2>1, DequeItems
  <2>4. Len(D!Items(q1)) = k + l
    BY <2>2, <2>3
  <2> QED BY <2>2, <2>3, <2>4
<1>6. /\ dwork' = IF m = 0 THEN 1 + n ELSE 1
      /\ dwork' + Gap(k, l) <= Gap(m, n) + 2
      /\ k = 0 => l = 0
      /\ dwork' \in Nat /\ Gap(k, l) \in Nat /\ Gap(m, n) \in Nat
  <2>1. dwork' = IF m = 0 THEN 1 + n ELSE 1
    BY <1>1, <1>4 DEF D!PopBack, D!PeekBack, D!BackWork
  <2>2. CASE m # 0
    <3>1. k = m /\ l = n
      BY <2>2, <1>3, <1>4, <1>5
    <3> QED BY <2>1, <2>2, <3>1 DEF Gap
  <2>3. CASE m = 0
    <3>1. k = n - n \div 2 /\ l = n \div 2
      BY <2>3, <1>3, <1>4, <1>5
    <3> QED BY <2>1, <2>3, <3>1 DEF Gap
  <2> QED BY <2>1, <2>2, <2>3, GapSymmetric
<1>7. CASE y = q1 /\ q1.back = <<>>
           /\ (dobs' = <<"PopBack", "Empty">> \/ dobs' = <<"PeekBack", "Empty">>)
  <2>1. D!Items(x) = <<>>
    <3>1. Len(D!Items(q1)) = 0
      BY <1>5, <1>6, <1>7
    <3> QED BY <3>1, <1>3, <1>5
  <2>2. D!Ends!Refused("PopBack") \/ D!Ends!Refused("PeekBack")
    BY <1>1, <1>3, <1>7, <2>1 DEF D!Ends!Refused
  <2>3. D!Ends!EndNext
    BY <2>2 DEF D!Ends!EndNext
  <2>4. dwork' + D!Credit(y) <= D!Credit(x) + 3
    <3>1. D!Credit(y) = Gap(k, l)
      BY <1>5, <1>7
    <3> QED BY <3>1, <1>4, <1>6, SMTT(30)
  <2> QED BY <1>1, <1>3, <1>7, <2>3, <2>4 DEF DequeGood
<1>8. CASE y = q1 /\ q1.back # <<>> /\ dobs' = <<"PeekBack", "Done", q1.back[1]>>
  <2>1. PICK z : z = [q1 EXCEPT !.back = Tail(@), !.nb = @ - 1]
    OBVIOUS
  <2>2. D!Items(q1) # <<>> /\ D!Items(q1)[Len(D!Items(q1))] = q1.back[1]
    BY <1>3, <1>8, <2>1, DequePopBack
  <2>3. D!Ends!Look
    BY <1>1, <1>3, <1>8, <2>2 DEF D!Ends!Look
  <2>4. D!Ends!EndNext
    BY <2>3 DEF D!Ends!EndNext
  <2>5. dwork' + D!Credit(y) <= D!Credit(x) + 3
    <3>1. D!Credit(y) = Gap(k, l)
      BY <1>5, <1>8
    <3> QED BY <3>1, <1>4, <1>6, SMTT(30)
  <2> QED BY <1>1, <1>3, <1>8, <2>4, <2>5 DEF DequeGood
<1>9. CASE /\ q1.back # <<>> /\ dobs' = <<"PopBack", "Done", q1.back[1]>>
           /\ y = [q1 EXCEPT !.back = Tail(@), !.nb = @ - 1]
  <2>1. /\ DequeShape(y) /\ y.nf = q1.nf /\ y.nb = q1.nb - 1 /\ q1.nb > 0
        /\ D!Items(q1) # <<>> /\ D!Items(q1)[Len(D!Items(q1))] = q1.back[1]
        /\ D!Items(y) = SubSeq(D!Items(q1), 1, Len(D!Items(q1)) - 1)
    BY <1>3, <1>9, DequePopBack
  <2>2. D!Ends!PopBack
    BY <1>1, <1>3, <1>9, <2>1 DEF D!Ends!PopBack
  <2>3. D!Ends!EndNext
    BY <2>2 DEF D!Ends!EndNext
  <2>4. D!Credit(y) = Gap(k - 1, l) /\ k - 1 \in Nat
    BY <1>5, <2>1, CreditOf, SMTT(30)
  <2>5. dwork' + Gap(k - 1, l) <= Gap(m, n) + 3
    BY <1>6, <2>4 DEF Gap
  <2>6. dwork' + D!Credit(y) <= D!Credit(x) + 3
    BY <1>4, <2>4, <2>5
  <2> QED BY <1>1, <2>1, <2>3, <2>6 DEF DequeGood
<1>10. CASE D!PopBack
  BY <1>10, <1>1, <1>7, <1>9 DEF D!PopBack
<1>11. CASE D!PeekBack
  BY <1>11, <1>1, <1>7, <1>8 DEF D!PeekBack
<1> QED BY <1>10, <1>11

LEMMA DequeStep ==
  ASSUME DequeShape(d), D!Next
  PROVE  DequeGood
<1>1. CASE D!Length
  <2>1. d' = d /\ dobs' = <<"Length", Len(D!Items(d))>> /\ dwork' = 1
    <3>1. Len(D!Items(d)) = d.nf + d.nb
      BY DequeItems
    <3> QED BY <3>1, <1>1 DEF D!Length
  <2>2. D!Ends!Look
    BY <2>1 DEF D!Ends!Look
  <2>3. D!Credit(d) \in Nat
    BY CreditOf, GapSymmetric
  <2> QED BY <2>1, <2>2, <2>3 DEF D!Ends!EndNext, DequeGood
<1>2. CASE D!ToList
  <2>1. d' = d /\ dobs' = <<"ToList", D!Items(d)>>
    BY <1>2 DEF D!ToList
  <2>2. D!Ends!Look
    BY <2>1 DEF D!Ends!Look
  <2> QED BY <2>1, <2>2 DEF D!Ends!EndNext, DequeGood
<1> QED BY <1>1, <1>2, DequePushes, DequeFrontCalls, DequeBackCalls DEF D!Next

-----------------------------------------------------------------------------
(* The queue.                                                              *)

QueueShape(x) ==
  /\ x \in [front : Seq(Value), back : Seq(Value), count : Nat]
  /\ x.count = Len(x.front) + Len(x.back)

LEMMA QueueItems ==
  ASSUME NEW x, QueueShape(x)
  PROVE  /\ Q!Items(x) \in Seq(Value) /\ Len(Q!Items(x)) = x.count
         /\ Q!Items(x) = x.front \o Turn(x.back)
<1>1. PICK f \in Seq(Value), b \in Seq(Value) :
        f = x.front /\ b = x.back /\ x.count = Len(f) + Len(b)
  BY DEF QueueShape
<1>2. PICK c : c = Turn(b)
  OBVIOUS
<1>3. Q!Items(x) = f \o c
  BY <1>1, <1>2, Reversals DEF Q!Items
<1>4. c \in Seq(Value) /\ Len(c) = Len(b)
  BY <1>2, TurnSequence
<1>5. f \o c \in Seq(Value) /\ Len(f \o c) = Len(f) + Len(c)
  BY <1>4, Joined
<1> QED BY <1>1, <1>2, <1>3, <1>4, <1>5

(* Turning the back list round makes the same elements a front list.       *)
LEMMA QueueReadied ==
  ASSUME NEW x, QueueShape(x), NEW y, y = Q!Ready(x)
  PROVE  /\ QueueShape(y) /\ Q!Items(y) = Q!Items(x) /\ y.count = x.count
         /\ x.front # <<>> => y = x
         /\ x.front = <<>> => y.back = <<>>
         /\ y.front = <<>> => Q!Items(y) = <<>>
<1>1. CASE x.front # <<>>
  BY <1>1 DEF Q!Ready
<1>2. CASE x.front = <<>>
  <2>1. PICK b \in Seq(Value) : b = x.back /\ x.count = Len(b)
    BY <1>2 DEF QueueShape
  <2>2. PICK c : c = Turn(b)
    OBVIOUS
  <2>3. c \in Seq(Value) /\ Len(c) = Len(b)
    BY <2>2, TurnSequence
  <2>4. y = [x EXCEPT !.front = c, !.back = <<>>]
    BY <1>2, <2>1, <2>2, Reversals DEF Q!Ready
  <2>5. /\ y.front = c /\ y.back = <<>> /\ y.count = x.count
        /\ y \in [front : Seq(Value), back : Seq(Value), count : Nat]
    <3>1. /\ x \in [front : Seq(Value), back : Seq(Value), count : Nat]
          /\ <<>> \in Seq(Value)
      BY DEF QueueShape
    <3> QED BY <3>1, <2>3, <2>4
  <2>6. QueueShape(y)
    BY <2>1, <2>3, <2>5 DEF QueueShape
  <2>7. Q!Items(y) = c \o <<>>
    BY <2>5, Reversals, JoinedWithEmpty DEF Q!Items
  <2>8. Q!Items(x) = <<>> \o c
    BY <1>2, <2>1, <2>2, Reversals DEF Q!Items
  <2>9. Q!Items(y) = c /\ Q!Items(x) = c
    BY <2>3, <2>7, <2>8, JoinedWithEmpty
  <2> QED BY <1>2, <2>5, <2>6, <2>9
<1> QED BY <1>1, <1>2

LEMMA QueuePut ==
  ASSUME NEW x, QueueShape(x), NEW v \in Value,
         NEW y, y = [x EXCEPT !.back = <<v>> \o @, !.count = @ + 1]
  PROVE  /\ QueueShape(y) /\ Len(y.back) = Len(x.back) + 1
         /\ Q!Items(y) = Append(Q!Items(x), v)
<1>1. PICK f \in Seq(Value), b \in Seq(Value) : f = x.front /\ b = x.back
  BY DEF QueueShape
<1>2. PICK g : g = <<v>> \o b
  OBVIOUS
<1>3. g \in Seq(Value) /\ Len(g) = Len(b) + 1 /\ Turn(g) = Append(Turn(b), v)
  BY <1>2, TurnOfFirst
<1>4. y.front = f /\ y.back = g /\ y.count = x.count + 1
      /\ y \in [front : Seq(Value), back : Seq(Value), count : Nat]
  <2>1. y = [x EXCEPT !.back = g, !.count = x.count + 1]
    BY <1>1, <1>2
  <2>2. x \in [front : Seq(Value), back : Seq(Value), count : Nat]
    BY DEF QueueShape
  <2>3. x.count + 1 \in Nat
    BY <2>2
  <2> QED BY <1>1, <1>3, <2>1, <2>2, <2>3
<1>5. QueueShape(y)
  BY <1>1, <1>3, <1>4 DEF QueueShape
<1>6. Turn(b) \in Seq(Value)
  BY TurnSequence
<1>7. Q!Items(y) = f \o Turn(g) /\ Q!Items(x) = f \o Turn(b)
  BY <1>1, <1>4, <1>5, QueueItems
<1>8. f \o Append(Turn(b), v) = Append(f \o Turn(b), v)
  BY <1>6, AppendToJoin
<1> QED BY <1>1, <1>3, <1>4, <1>5, <1>7, <1>8

LEMMA QueueTake ==
  ASSUME NEW x, QueueShape(x), x.front # <<>>,
         NEW y, y = [x EXCEPT !.front = Tail(@), !.count = @ - 1]
  PROVE  /\ QueueShape(y) /\ y.back = x.back
         /\ Q!Items(x) # <<>> /\ Q!Items(x)[1] = x.front[1]
         /\ Q!Items(y) = Tail(Q!Items(x))
<1>1. PICK f \in Seq(Value), b \in Seq(Value) :
        f = x.front /\ b = x.back /\ x.count = Len(f) + Len(b)
  BY DEF QueueShape
<1>2. f # <<>>
  BY <1>1
<1>3. PICK g : g = Tail(f)
  OBVIOUS
<1>4. g \in Seq(Value) /\ Len(g) = Len(f) - 1 /\ Len(f) > 0
  BY <1>2, <1>3, FirstAndRest
<1>5. y.front = g /\ y.back = b /\ y.count = x.count - 1 /\ x.count - 1 \in Nat
      /\ y \in [front : Seq(Value), back : Seq(Value), count : Nat]
  <2>1. y = [x EXCEPT !.front = g, !.count = x.count - 1]
    BY <1>1, <1>3
  <2>2. x.count - 1 \in Nat
    <3>1. \A m, n \in Nat : m > 0 => (m + n) - 1 \in Nat
      OBVIOUS
    <3>2. Len(f) \in Nat /\ Len(b) \in Nat
      OBVIOUS
    <3> QED BY <3>1, <3>2, <1>1, <1>4
  <2> QED BY <1>1, <1>4, <2>1, <2>2 DEF QueueShape
<1>6. QueueShape(y)
  BY <1>1, <1>4, <1>5 DEF QueueShape
<1>7. Turn(b) \in Seq(Value)
  BY TurnSequence
<1>8. Q!Items(y) = g \o Turn(b) /\ Q!Items(x) = f \o Turn(b)
  BY <1>1, <1>5, <1>6, QueueItems
<1>9. /\ f \o Turn(b) # <<>> /\ (f \o Turn(b))[1] = f[1]
      /\ Tail(f \o Turn(b)) = Tail(f) \o Turn(b)
  BY <1>2, <1>7, TailOfJoin
<1> QED BY <1>1, <1>3, <1>5, <1>6, <1>8, <1>9

(* What a call on the queue does.                                          *)
QueueGood ==
  /\ QueueShape(q')
  /\ Q!Ends!EndNext
  /\ qobs'[1] # "ToList" => qwork' + Len(q'.back) <= Len(q.back) + 2

LEMMA QueueStep ==
  ASSUME QueueShape(q), Q!Next
  PROVE  QueueGood
<1>1. PICK x, y, r : x = q /\ y = q' /\ r = Q!Ready(q)
  OBVIOUS
<1>2. QueueShape(x) /\ r = Q!Ready(x)
  BY <1>1
<1>3. /\ QueueShape(r) /\ Q!Items(r) = Q!Items(x) /\ r.count = x.count
      /\ x.front # <<>> => r = x
      /\ x.front = <<>> => r.back = <<>>
      /\ r.front = <<>> => Q!Items(r) = <<>>
  BY <1>2, QueueReadied
<1>4. Len(x.back) \in Nat /\ Len(r.back) \in Nat
  BY <1>2, <1>3 DEF QueueShape
<1>5. ASSUME NEW v \in Value, Q!Enqueue(v) PROVE QueueGood
  <2>1. y = [x EXCEPT !.back = <<v>> \o @, !.count = @ + 1]
        /\ qobs' = <<"PushBack", v>> /\ qwork' = 1
    BY <1>1, <1>5 DEF Q!Enqueue
  <2>2. QueueShape(y) /\ Len(y.back) = Len(x.back) + 1 /\ Q!Items(y) = Append(Q!Items(x), v)
    BY <1>2, <2>1, QueuePut
  <2>3. Q!Ends!PushBack(v)
    BY <1>1, <2>1, <2>2 DEF Q!Ends!PushBack
  <2>4. Q!Ends!EndNext
    BY <2>3 DEF Q!Ends!EndNext
  <2> QED BY <1>1, <1>4, <2>1, <2>2, <2>4 DEF QueueGood
<1>6. ASSUME Q!Dequeue \/ Q!Peek PROVE qwork' + Len(r.back) <= Len(x.back) + 1 /\ qwork' \in Nat
  <2>1. qwork' = IF x.front = <<>> THEN 1 + Len(x.back) ELSE 1
    BY <1>1, <1>6 DEF Q!Dequeue, Q!Peek, Q!ReadyWork
  <2>2. CASE x.front = <<>>
    <3>1. Len(r.back) = 0
      BY <2>2, <1>3
    <3> QED BY <3>1, <2>1, <2>2, <1>4
  <2>3. CASE x.front # <<>>
    BY <2>1, <2>3, <1>3, <1>4
  <2> QED BY <2>2, <2>3
<1>7. ASSUME Q!Dequeue \/ Q!Peek, y = r, r.front = <<>>,
             qobs' = <<"PopFront", "Empty">> \/ qobs' = <<"PeekFront", "Empty">>
      PROVE  QueueGood
  <2>1. Q!Items(x) = <<>>
    BY <1>3, <1>7
  <2>2. Q!Ends!Refused("PopFront") \/ Q!Ends!Refused("PeekFront")
    BY <1>1, <1>3, <1>7, <2>1 DEF Q!Ends!Refused
  <2>3. Q!Ends!EndNext
    BY <2>2 DEF Q!Ends!EndNext
  <2>4. qwork' + Len(r.back) <= Len(x.back) + 1 /\ qwork' \in Nat
    BY <1>6, <1>7
  <2> QED BY <1>1, <1>3, <1>4, <1>7, <2>3, <2>4 DEF QueueGood
<1>8. ASSUME Q!Dequeue \/ Q!Peek, y = r, r.front # <<>>,
             qobs' = <<"PeekFront", "Done", r.front[1]>>
      PROVE  QueueGood
  <2>1. PICK z : z = [r EXCEPT !.front = Tail(@), !.count = @ - 1]
    OBVIOUS
  <2>2. Q!Items(r) # <<>> /\ Q!Items(r)[1] = r.front[1]
    BY <1>3, <1>8, <2>1, QueueTake
  <2>3. Q!Ends!Look
    BY <1>1, <1>3, <1>8, <2>2 DEF Q!Ends!Look
  <2>4. Q!Ends!EndNext
    BY <2>3 DEF Q!Ends!EndNext
  <2>5. qwork' + Len(r.back) <= Len(x.back) + 1 /\ qwork' \in Nat
    BY <1>6, <1>8
  <2> QED BY <1>1, <1>3, <1>4, <1>8, <2>4, <2>5 DEF QueueGood
<1>9. ASSUME Q!Dequeue \/ Q!Peek, r.front # <<>>,
             qobs' = <<"PopFront", "Done", r.front[1]>>,
             y = [r EXCEPT !.front = Tail(@), !.count = @ - 1]
      PROVE  QueueGood
  <2>1. /\ QueueShape(y) /\ y.back = r.back
        /\ Q!Items(r) # <<>> /\ Q!Items(r)[1] = r.front[1]
        /\ Q!Items(y) = Tail(Q!Items(r))
    BY <1>3, <1>9, QueueTake
  <2>2. Q!Ends!PopFront
    BY <1>1, <1>3, <1>9, <2>1 DEF Q!Ends!PopFront
  <2>3. Q!Ends!EndNext
    BY <2>2 DEF Q!Ends!EndNext
  <2>4. qwork' + Len(r.back) <= Len(x.back) + 1 /\ qwork' \in Nat
    BY <1>6, <1>9
  <2> QED BY <1>1, <1>4, <2>1, <2>3, <2>4 DEF QueueGood
<1>10. CASE Q!Dequeue
  BY <1>10, <1>1, <1>7, <1>9 DEF Q!Dequeue
<1>11. CASE Q!Peek
  BY <1>11, <1>1, <1>7, <1>8 DEF Q!Peek
<1>12. CASE Q!Length
  <2>1. q' = q /\ qobs' = <<"Length", Len(Q!Items(q))>> /\ qwork' = 1
    BY <1>12, QueueItems DEF Q!Length
  <2>2. Q!Ends!Look
    BY <2>1 DEF Q!Ends!Look
  <2> QED BY <1>1, <1>4, <2>1, <2>2 DEF Q!Ends!EndNext, QueueGood
<1>13. CASE Q!ToList
  <2>1. q' = q /\ qobs' = <<"ToList", Q!Items(q)>>
    BY <1>13 DEF Q!ToList
  <2>2. Q!Ends!Look
    BY <2>1 DEF Q!Ends!Look
  <2> QED BY <2>1, <2>2 DEF Q!Ends!EndNext, QueueGood
<1> QED BY <1>5, <1>10, <1>11, <1>12, <1>13 DEF Q!Next

-----------------------------------------------------------------------------
(* The two in the specification.                                           *)

DequeOfTwoLists == DequeShape(d)

QueueOfTwoLists == QueueShape(q)

(* A step that is no call on a container leaves its variables alone.       *)
LEMMA OnlyOneIsUsed ==
  ASSUME [EachNext]_all
  PROVE  /\ DequeNext \/ UNCHANGED dequeVars
         /\ QueueNext \/ UNCHANGED queueVars
         /\ StackNext \/ UNCHANGED stackVars
         /\ CopiedNext \/ UNCHANGED copiedVars
         /\ OwnedNext \/ UNCHANGED ownedVars
         /\ BitlistNext \/ UNCHANGED listVars
         /\ BitsetNext \/ UNCHANGED setVars
  BY DEF EachNext, DequeNext, QueueNext, StackNext, CopiedNext, OwnedNext, BitlistNext,
     BitsetNext, dequeVars, queueVars, stackVars, copiedVars, ownedVars, listVars, setVars,
     all

LEMMA DequeInvariant == EachSpec => []DequeOfTwoLists
<1>1. EachInit => DequeOfTwoLists
  <2> SUFFICES ASSUME D!Init PROVE DequeShape(d)
    BY DEF EachInit, DequeOfTwoLists
  <2> QED BY DEF D!Init, DequeShape
<1>2. DequeOfTwoLists /\ [EachNext]_all => DequeOfTwoLists'
  <2> SUFFICES ASSUME DequeOfTwoLists, [EachNext]_all PROVE DequeOfTwoLists'
    OBVIOUS
  <2>1. CASE DequeNext
    BY <2>1, DequeStep DEF DequeNext, DequeOfTwoLists, DequeGood
  <2>2. CASE UNCHANGED dequeVars
    BY <2>2 DEF dequeVars, DequeOfTwoLists
  <2> QED BY <2>1, <2>2, OnlyOneIsUsed
<1> QED BY <1>1, <1>2, PTL DEF EachSpec

LEMMA QueueInvariant == EachSpec => []QueueOfTwoLists
<1>1. EachInit => QueueOfTwoLists
  <2> SUFFICES ASSUME Q!Init PROVE QueueShape(q)
    BY DEF EachInit, QueueOfTwoLists
  <2> QED BY DEF Q!Init, QueueShape
<1>2. QueueOfTwoLists /\ [EachNext]_all => QueueOfTwoLists'
  <2> SUFFICES ASSUME QueueOfTwoLists, [EachNext]_all PROVE QueueOfTwoLists'
    OBVIOUS
  <2>1. CASE QueueNext
    BY <2>1, QueueStep DEF QueueNext, QueueOfTwoLists, QueueGood
  <2>2. CASE UNCHANGED queueVars
    BY <2>2 DEF queueVars, QueueOfTwoLists
  <2> QED BY <2>1, <2>2, OnlyOneIsUsed
<1> QED BY <1>1, <1>2, PTL DEF EachSpec

(* The deque is one sequence changed at its ends, whichever of the two     *)
(* lists holds an element (move_front, move_back).                         *)
THEOREM DequeIsASequence == EachSpec => D!ImplementsEnds
<1>1. EachInit => D!Ends!EndInit
  <2> SUFFICES ASSUME D!Init PROVE D!Ends!EndInit
    BY DEF EachInit
  <2>1. D!Items(d) = <<>> \o Turn(<<>>)
    BY Reversals DEF D!Init, D!Items
  <2>2. <<>> \in Seq(Value)
    OBVIOUS
  <2>3. D!Items(d) = <<>>
    BY <2>1, <2>2, JoinedWithEmpty
  <2> QED BY <2>3 DEF D!Init, D!Ends!EndInit
<1>2. DequeOfTwoLists /\ [EachNext]_all => [D!Ends!EndNext]_<<D!Items(d), dobs>>
  <2> SUFFICES ASSUME DequeOfTwoLists, [EachNext]_all
               PROVE  [D!Ends!EndNext]_<<D!Items(d), dobs>>
    OBVIOUS
  <2>1. CASE DequeNext
    BY <2>1, DequeStep DEF DequeNext, DequeOfTwoLists, DequeGood
  <2>2. CASE UNCHANGED dequeVars
    BY <2>2 DEF dequeVars
  <2> QED BY <2>1, <2>2, OnlyOneIsUsed
<1> QED BY <1>1, <1>2, DequeInvariant, PTL
        DEF EachSpec, D!ImplementsEnds, D!Ends!EndSpec, D!Ends!vars

(* So is the queue, with elements put at one end and taken at the other    *)
(* (split, ready).                                                         *)
THEOREM QueueIsASequence == EachSpec => Q!ImplementsEnds
<1>1. EachInit => Q!Ends!EndInit
  <2> SUFFICES ASSUME Q!Init PROVE Q!Ends!EndInit
    BY DEF EachInit
  <2>1. Q!Items(q) = <<>> \o Turn(<<>>)
    BY Reversals DEF Q!Init, Q!Items
  <2>2. <<>> \in Seq(Value)
    OBVIOUS
  <2>3. Q!Items(q) = <<>>
    BY <2>1, <2>2, JoinedWithEmpty
  <2> QED BY <2>3 DEF Q!Init, Q!Ends!EndInit
<1>2. QueueOfTwoLists /\ [EachNext]_all => [Q!Ends!EndNext]_<<Q!Items(q), qobs>>
  <2> SUFFICES ASSUME QueueOfTwoLists, [EachNext]_all
               PROVE  [Q!Ends!EndNext]_<<Q!Items(q), qobs>>
    OBVIOUS
  <2>1. CASE QueueNext
    BY <2>1, QueueStep DEF QueueNext, QueueOfTwoLists, QueueGood
  <2>2. CASE UNCHANGED queueVars
    BY <2>2 DEF queueVars
  <2> QED BY <2>1, <2>2, OnlyOneIsUsed
<1> QED BY <1>1, <1>2, QueueInvariant, PTL
        DEF EachSpec, Q!ImplementsEnds, Q!Ends!EndSpec, Q!Ends!vars

(* Calls on their ends take constant time when a history is taken          *)
(* together.                                                               *)
LEMMA EndsAreAmortized == EachSpec => D!EndsAreAmortized /\ Q!EndsAreAmortized
<1>1. DequeOfTwoLists /\ [EachNext]_all
        => [dobs'[1] # "ToList" => dwork' + D!Credit(d') <= D!Credit(d) + 3]_<<d, dobs, dwork>>
  <2> SUFFICES ASSUME DequeOfTwoLists, [EachNext]_all, <<d, dobs, dwork>>' # <<d, dobs, dwork>>
               PROVE  dobs'[1] # "ToList" => dwork' + D!Credit(d') <= D!Credit(d) + 3
    OBVIOUS
  <2>1. CASE DequeNext
    BY <2>1, DequeStep DEF DequeNext, DequeOfTwoLists, DequeGood
  <2>2. CASE UNCHANGED dequeVars
    BY <2>2 DEF dequeVars
  <2> QED BY <2>1, <2>2, OnlyOneIsUsed
<1>2. QueueOfTwoLists /\ [EachNext]_all
        => [qobs'[1] # "ToList" => qwork' + Len(q'.back) <= Len(q.back) + 2]_<<q, qobs, qwork>>
  <2> SUFFICES ASSUME QueueOfTwoLists, [EachNext]_all, <<q, qobs, qwork>>' # <<q, qobs, qwork>>
               PROVE  qobs'[1] # "ToList" => qwork' + Len(q'.back) <= Len(q.back) + 2
    OBVIOUS
  <2>1. CASE QueueNext
    BY <2>1, QueueStep DEF QueueNext, QueueOfTwoLists, QueueGood
  <2>2. CASE UNCHANGED queueVars
    BY <2>2 DEF queueVars
  <2> QED BY <2>1, <2>2, OnlyOneIsUsed
<1> QED BY <1>1, <1>2, DequeInvariant, QueueInvariant, PTL
        DEF EachSpec, D!EndsAreAmortized, Q!EndsAreAmortized, D!vars, Q!vars

-----------------------------------------------------------------------------
(* Blocks: the operators under the arrays.                                 *)

BlockFields == {"limit", "depth", "cap", "length", "slots"}

\* A block of elements of V whose limit is at most `most'.
Block(a, V, most) ==
  /\ DOMAIN a = BlockFields
  /\ a.limit \in Nat /\ a.limit <= most
  /\ a.depth \in Nat /\ a.depth <= a.limit
  /\ a.cap = 2 ^ a.depth
  /\ a.length \in Nat /\ a.length <= a.cap
  /\ a.slots \in [Slots(a.depth) -> V \cup {NoValue}]
  /\ \A s \in Slots(a.depth) : a.slots[s] # NoValue <=> s < a.length

LEMMA SlotsOf ==
  ASSUME NEW m \in Nat
  PROVE  /\ 2 ^ m \in Nat /\ 2 ^ m > 0 /\ 2 ^ (m + 1) = 2 * 2 ^ m /\ m + 1 \in Nat
         /\ Slots(m) = 0 .. 2 ^ m - 1
         /\ Slots(m + 1) = 0 .. 2 * 2 ^ m - 1
<1>1. 2 ^ m \in Nat \ {0} /\ 2 ^ (m + 1) = 2 * 2 ^ m
  BY PowerOfTwo
<1>2. Slots(m) = 0 .. 2 ^ m - 1 /\ Slots(m + 1) = 0 .. 2 ^ (m + 1) - 1
  BY DEF Slots
<1> QED BY <1>1, <1>2

LEMMA NewBlock ==
  ASSUME NEW V, NEW k \in Nat, NEW most \in Nat, k <= most,
         NEW a, a = [limit |-> k, depth |-> 0, cap |-> 1, length |-> 0,
                     slots |-> EmptySlots(0)]
  PROVE  Block(a, V, most)
<1>1. 2 ^ 0 = 1 /\ Slots(0) = 0 .. 0
  BY PowerOfTwo DEF Slots
<1>2. EmptySlots(0) \in [Slots(0) -> V \cup {NoValue}]
      /\ \A s \in Slots(0) : EmptySlots(0)[s] = NoValue
  BY DEF EmptySlots
<1> QED BY <1>1, <1>2 DEF Block, BlockFields

LEMMA BlockGrown ==
  ASSUME NEW V, NEW most, NEW a, Block(a, V, most), a.depth < a.limit,
         NEW b, b = Grown(a)
  PROVE  /\ Block(b, V, most)
         /\ b.limit = a.limit /\ b.depth = a.depth + 1 /\ b.cap = 2 * a.cap
         /\ b.length = a.length /\ a.cap \in Nat /\ a.cap > 0
         /\ \A s \in Slots(a.depth) : s \in Slots(b.depth) /\ b.slots[s] = a.slots[s]
<1>1. PICK m \in Nat : m = a.depth
  BY DEF Block
<1>2. PICK c \in Nat : c > 0 /\ c = 2 ^ m /\ 2 ^ (m + 1) = 2 * c /\ m + 1 \in Nat
        /\ Slots(m) = 0 .. c - 1 /\ Slots(m + 1) = 0 .. 2 * c - 1
  BY SlotsOf
<1>3. PICK f : f = [s \in Slots(m + 1) |-> IF s \in Slots(m) THEN a.slots[s] ELSE NoValue]
  OBVIOUS
<1>4. /\ DOMAIN b = BlockFields
      /\ b.limit = a.limit /\ b.depth = m + 1 /\ b.cap = 2 * a.cap
      /\ b.length = a.length /\ b.slots = f
  BY <1>1, <1>3 DEF Block, Grown, BlockFields
<1>5. /\ a.limit \in Nat /\ a.limit <= most /\ m + 1 <= a.limit
      /\ a.cap = c /\ a.length \in Nat /\ a.length <= c
      /\ a.slots \in [Slots(m) -> V \cup {NoValue}]
      /\ \A s \in Slots(m) : a.slots[s] # NoValue <=> s < a.length
  <2>1. a.limit \in Nat /\ m < a.limit
    BY <1>1 DEF Block
  <2>2. m + 1 <= a.limit
    BY <2>1
  <2> QED BY <1>1, <1>2, <2>2 DEF Block
<1>6. \A s \in Slots(m) : s \in Slots(m + 1) /\ f[s] = a.slots[s]
  BY <1>2, <1>3
<1>7. f \in [Slots(m + 1) -> V \cup {NoValue}]
  BY <1>3, <1>5
<1>8. \A s \in Slots(m + 1) : f[s] # NoValue <=> s < a.length
  <2> SUFFICES ASSUME NEW s \in Slots(m + 1) PROVE f[s] # NoValue <=> s < a.length
    OBVIOUS
  <2>1. CASE s \in Slots(m)
    BY <2>1, <1>5, <1>6
  <2>2. CASE s \notin Slots(m)
    <3>1. f[s] = NoValue
      BY <2>2, <1>3
    <3>2. ~ (s < a.length)
      BY <2>2, <1>2, <1>5
    <3> QED BY <3>1, <3>2
  <2> QED BY <2>1, <2>2
<1>9. Block(b, V, most)
  <2>1. b.cap = 2 ^ b.depth /\ b.depth \in Nat /\ b.depth <= b.limit
    BY <1>2, <1>4, <1>5
  <2>2. b.length \in Nat /\ b.length <= b.cap
    BY <1>2, <1>4, <1>5
  <2>3. /\ b.slots \in [Slots(b.depth) -> V \cup {NoValue}]
        /\ \A s \in Slots(b.depth) : b.slots[s] # NoValue <=> s < b.length
    BY <1>4, <1>7, <1>8
  <2>4. DOMAIN b = BlockFields /\ b.limit \in Nat /\ b.limit <= most
    BY <1>4, <1>5
  <2> QED BY <2>1, <2>2, <2>3, <2>4 DEF Block
<1> QED BY <1>1, <1>2, <1>4, <1>5, <1>6, <1>9

(* An element goes to the slot at the length.                              *)
LEMMA BlockPlaced ==
  ASSUME NEW V, NoValue \notin V, NEW most, NEW a, Block(a, V, most), NEW x \in V,
         a.length < a.cap, NEW b, b = Placed(a, x)
  PROVE  /\ Block(b, V, most)
         /\ b.limit = a.limit /\ b.depth = a.depth /\ b.cap = a.cap
         /\ b.length = a.length + 1
         /\ a.length \in Slots(a.depth) /\ b.slots[a.length] = x
         /\ \A s \in Slots(a.depth) : s # a.length => b.slots[s] = a.slots[s]
<1>1. PICK m \in Nat, n \in Nat : m = a.depth /\ n = a.length
  BY DEF Block
<1>2. PICK c \in Nat : c > 0 /\ c = 2 ^ m /\ Slots(m) = 0 .. c - 1
  BY SlotsOf
<1>3. PICK f : f = [a.slots EXCEPT ![n] = x]
  OBVIOUS
<1>4. /\ DOMAIN b = BlockFields
      /\ b.limit = a.limit /\ b.depth = m /\ b.cap = a.cap
      /\ b.length = n + 1 /\ b.slots = f
  BY <1>1, <1>3 DEF Block, Placed, BlockFields
<1>5. /\ a.limit \in Nat /\ a.limit <= most /\ m <= a.limit
      /\ a.cap = c /\ n < c
      /\ a.slots \in [Slots(m) -> V \cup {NoValue}]
      /\ \A s \in Slots(m) : a.slots[s] # NoValue <=> s < n
  BY <1>1, <1>2 DEF Block
<1>6. n \in Slots(m)
  BY <1>2, <1>5
<1>7. /\ f \in [Slots(m) -> V \cup {NoValue}] /\ f[n] = x
      /\ \A s \in Slots(m) : s # n => f[s] = a.slots[s]
  BY <1>3, <1>5, <1>6
<1>8. \A s \in Slots(m) : f[s] # NoValue <=> s < n + 1
  <2> SUFFICES ASSUME NEW s \in Slots(m) PROVE f[s] # NoValue <=> s < n + 1
    OBVIOUS
  <2>1. CASE s = n
    BY <2>1, <1>7
  <2>2. CASE s # n
    <3>1. s < n <=> s < n + 1
      BY <2>2, <1>2
    <3> QED BY <3>1, <2>2, <1>5, <1>7
  <2> QED BY <2>1, <2>2
<1>9. Block(b, V, most)
  <2>1. b.cap = 2 ^ b.depth /\ b.depth \in Nat /\ b.depth <= b.limit
    BY <1>2, <1>4, <1>5
  <2>2. b.length \in Nat /\ b.length <= b.cap
    BY <1>2, <1>4, <1>5
  <2>3. /\ b.slots \in [Slots(b.depth) -> V \cup {NoValue}]
        /\ \A s \in Slots(b.depth) : b.slots[s] # NoValue <=> s < b.length
    BY <1>4, <1>7, <1>8
  <2>4. DOMAIN b = BlockFields /\ b.limit \in Nat /\ b.limit <= most
    BY <1>4, <1>5
  <2> QED BY <2>1, <2>2, <2>3, <2>4 DEF Block
<1> QED BY <1>1, <1>4, <1>6, <1>7, <1>9

(* Whether there was room or the block was doubled first.                  *)
LEMMA BlockPushed ==
  ASSUME NEW V, NoValue \notin V, NEW most, NEW a, Block(a, V, most), NEW x \in V,
         HasRoom(a) \/ MayGrow(a), NEW b, b = Pushed(a, x)
  PROVE  /\ Block(b, V, most)
         /\ b.limit = a.limit /\ b.length = a.length + 1
         /\ b.cap = IF a.length < a.cap THEN a.cap ELSE 2 * a.cap
         /\ a.length \in Slots(b.depth) /\ b.slots[a.length] = x
         /\ \A s \in Slots(a.depth) : s < a.length =>
              s \in Slots(b.depth) /\ b.slots[s] = a.slots[s]
<1>1. a.length \in Nat /\ a.depth \in Nat /\ \A s \in Slots(a.depth) : s \in Nat
  <2>1. PICK m \in Nat : m = a.depth
    BY DEF Block
  <2>2. PICK c \in Nat : Slots(m) = 0 .. c - 1
    BY SlotsOf
  <2> QED BY <2>1, <2>2 DEF Block
<1>2. CASE a.length < a.cap
  <2>1. b = Placed(a, x)
    BY <1>2 DEF Pushed, HasRoom
  <2> QED BY <1>1, <1>2, <2>1, BlockPlaced
<1>3. CASE ~ (a.length < a.cap)
  <2>1. PICK g : g = Grown(a)
    OBVIOUS
  <2>2. a.depth < a.limit /\ b = Placed(g, x)
    BY <1>3, <2>1 DEF Pushed, HasRoom, MayGrow
  <2>3. /\ Block(g, V, most)
        /\ g.limit = a.limit /\ g.depth = a.depth + 1 /\ g.cap = 2 * a.cap
        /\ g.length = a.length /\ a.cap \in Nat /\ a.cap > 0
        /\ \A s \in Slots(a.depth) : s \in Slots(g.depth) /\ g.slots[s] = a.slots[s]
    <3>1. a.depth < a.limit
      BY <2>2
    <3> QED BY <2>1, <3>1, BlockGrown
  <2>4. g.length < g.cap
    <3>1. a.length <= a.cap
      BY DEF Block
    <3> QED BY <3>1, <2>3, <1>1
  <2>5. /\ Block(b, V, most)
        /\ b.limit = g.limit /\ b.depth = g.depth /\ b.cap = g.cap
        /\ b.length = g.length + 1
        /\ g.length \in Slots(g.depth) /\ b.slots[g.length] = x
        /\ \A s \in Slots(g.depth) : s # g.length => b.slots[s] = g.slots[s]
    BY <2>2, <2>3, <2>4, BlockPlaced
  <2>6. ASSUME NEW s \in Slots(a.depth), s < a.length
        PROVE  s \in Slots(b.depth) /\ b.slots[s] = a.slots[s]
    BY <2>3, <2>5, <2>6, <1>1
  <2> QED BY <1>1, <1>3, <2>3, <2>5, <2>6
<1> QED BY <1>2, <1>3

LEMMA BlockPopped ==
  ASSUME NEW V, NEW most, NEW a, Block(a, V, most), a.length # 0, NEW b, b = Popped(a)
  PROVE  /\ Block(b, V, most)
         /\ b.limit = a.limit /\ b.depth = a.depth /\ b.cap = a.cap
         /\ b.length = a.length - 1 /\ a.length - 1 \in Slots(a.depth)
         /\ a.slots[a.length - 1] \in V /\ a.slots[a.length - 1] # NoValue
         /\ b.slots[a.length - 1] = NoValue
         /\ \A s \in Slots(a.depth) : s # a.length - 1 => b.slots[s] = a.slots[s]
<1>1. PICK m \in Nat, n \in Nat : m = a.depth /\ n = a.length - 1 /\ n + 1 = a.length
  BY DEF Block
<1>2. PICK c \in Nat : c > 0 /\ c = 2 ^ m /\ Slots(m) = 0 .. c - 1
  BY SlotsOf
<1>3. PICK f : f = [a.slots EXCEPT ![n] = NoValue]
  OBVIOUS
<1>4. /\ DOMAIN b = BlockFields
      /\ b.limit = a.limit /\ b.depth = m /\ b.cap = a.cap
      /\ b.length = n /\ b.slots = f
  BY <1>1, <1>3 DEF Block, Popped, BlockFields
<1>5. /\ a.limit \in Nat /\ a.limit <= most /\ m <= a.limit
      /\ a.cap = c /\ n < c
      /\ a.slots \in [Slots(m) -> V \cup {NoValue}]
      /\ \A s \in Slots(m) : a.slots[s] # NoValue <=> s < n + 1
  BY <1>1, <1>2 DEF Block
<1>6. n \in Slots(m) /\ a.slots[n] # NoValue
  BY <1>2, <1>5
<1>7. /\ f \in [Slots(m) -> V \cup {NoValue}] /\ f[n] = NoValue
      /\ \A s \in Slots(m) : s # n => f[s] = a.slots[s]
  BY <1>3, <1>5, <1>6
<1>8. \A s \in Slots(m) : f[s] # NoValue <=> s < n
  <2> SUFFICES ASSUME NEW s \in Slots(m) PROVE f[s] # NoValue <=> s < n
    OBVIOUS
  <2>1. CASE s = n
    BY <2>1, <1>7
  <2>2. CASE s # n
    <3>1. s < n <=> s < n + 1
      BY <2>2, <1>2
    <3> QED BY <3>1, <2>2, <1>5, <1>7
  <2> QED BY <2>1, <2>2
<1>9. Block(b, V, most)
  <2>1. b.cap = 2 ^ b.depth /\ b.depth \in Nat /\ b.depth <= b.limit
    BY <1>2, <1>4, <1>5
  <2>2. b.length \in Nat /\ b.length <= b.cap
    BY <1>2, <1>4, <1>5
  <2>3. /\ b.slots \in [Slots(b.depth) -> V \cup {NoValue}]
        /\ \A s \in Slots(b.depth) : b.slots[s] # NoValue <=> s < b.length
    BY <1>4, <1>7, <1>8
  <2>4. DOMAIN b = BlockFields /\ b.limit \in Nat /\ b.limit <= most
    BY <1>4, <1>5
  <2> QED BY <2>1, <2>2, <2>3, <2>4 DEF Block
<1> QED BY <1>1, <1>4, <1>5, <1>6, <1>7, <1>9

(* A slot in use gets another element.                                     *)
LEMMA BlockWritten ==
  ASSUME NEW V, NoValue \notin V, NEW most, NEW a, Block(a, V, most), NEW x \in V,
         NEW i \in Nat, i < a.length, NEW b, b = [a EXCEPT !.slots[i] = x]
  PROVE  /\ Block(b, V, most)
         /\ b.limit = a.limit /\ b.depth = a.depth /\ b.cap = a.cap
         /\ b.length = a.length /\ i \in Slots(a.depth)
         /\ b.slots[i] = x /\ a.slots[i] \in V /\ a.slots[i] # NoValue
         /\ \A s \in Slots(a.depth) : s # i => b.slots[s] = a.slots[s]
<1>1. PICK m \in Nat, n \in Nat : m = a.depth /\ n = a.length
  BY DEF Block
<1>2. PICK c \in Nat : c > 0 /\ c = 2 ^ m /\ Slots(m) = 0 .. c - 1
  BY SlotsOf
<1>3. PICK f : f = [a.slots EXCEPT ![i] = x]
  OBVIOUS
<1>4. /\ DOMAIN b = BlockFields
      /\ b.limit = a.limit /\ b.depth = m /\ b.cap = a.cap
      /\ b.length = n /\ b.slots = f
  BY <1>1, <1>3 DEF Block, BlockFields
<1>5. /\ a.limit \in Nat /\ a.limit <= most /\ m <= a.limit
      /\ a.cap = c /\ n <= c
      /\ a.slots \in [Slots(m) -> V \cup {NoValue}]
      /\ \A s \in Slots(m) : a.slots[s] # NoValue <=> s < n
  BY <1>1, <1>2 DEF Block
<1>6. i \in Slots(m) /\ a.slots[i] # NoValue
  BY <1>1, <1>2, <1>5
<1>7. /\ f \in [Slots(m) -> V \cup {NoValue}] /\ f[i] = x
      /\ \A s \in Slots(m) : s # i => f[s] = a.slots[s]
  BY <1>3, <1>5, <1>6
<1>8. \A s \in Slots(m) : f[s] # NoValue <=> s < n
  <2> SUFFICES ASSUME NEW s \in Slots(m) PROVE f[s] # NoValue <=> s < n
    OBVIOUS
  <2>1. CASE s = i
    BY <2>1, <1>1, <1>7
  <2>2. CASE s # i
    BY <2>2, <1>5, <1>7
  <2> QED BY <2>1, <2>2
<1>9. Block(b, V, most)
  BY <1>1, <1>2, <1>4, <1>5, <1>7, <1>8 DEF Block
<1> QED BY <1>1, <1>4, <1>5, <1>6, <1>7, <1>9

(* Emptying the slots below the length leaves the block that a fresh one   *)
(* of the same size is, and nothing else is to be emptied.                 *)
LEMMA BlockCleared ==
  ASSUME NEW V, NEW most, NEW a, Block(a, V, most), NEW b, b = ClearedDown(a)
  PROVE  /\ Block(b, V, most) /\ b = ClearedWhole(a)
         /\ b.limit = a.limit /\ b.depth = a.depth /\ b.cap = a.cap /\ b.length = 0
<1>1. PICK m \in Nat : m = a.depth
  BY DEF Block
<1>2. PICK f : f = [s \in Slots(m) |-> NoValue]
  OBVIOUS
<1>3. [s \in Slots(m) |-> IF s < a.length THEN NoValue ELSE a.slots[s]] = f
  <2>1. \A s \in Slots(m) : (IF s < a.length THEN NoValue ELSE a.slots[s]) = NoValue
    BY <1>1 DEF Block
  <2> QED BY <2>1, <1>2
<1>4. b = [a EXCEPT !.length = 0, !.slots = f] /\ ClearedWhole(a) = [a EXCEPT !.length = 0, !.slots = f]
  BY <1>1, <1>2, <1>3 DEF ClearedDown, ClearedWhole, EmptySlots
<1>5. /\ DOMAIN b = BlockFields
      /\ b.limit = a.limit /\ b.depth = m /\ b.cap = a.cap
      /\ b.length = 0 /\ b.slots = f
  BY <1>1, <1>4 DEF Block, BlockFields
<1>6. PICK c \in Nat : c > 0 /\ c = 2 ^ m /\ Slots(m) = 0 .. c - 1
  BY SlotsOf
<1>7. f \in [Slots(m) -> V \cup {NoValue}] /\ \A s \in Slots(m) : f[s] # NoValue <=> s < 0
  BY <1>2, <1>6
<1>8. Block(b, V, most)
  BY <1>1, <1>5, <1>6, <1>7 DEF Block
<1> QED BY <1>1, <1>4, <1>5, <1>8

-----------------------------------------------------------------------------
(* The elements of a block, and what calls make of them.                   *)

Elems(a) == [i \in 1 .. a.length |-> a.slots[i - 1]]

LEMMA ElemsOf ==
  ASSUME NEW V, NEW most, NEW a, Block(a, V, most)
  PROVE  /\ Elems(a) \in Seq(V) /\ Len(Elems(a)) = a.length /\ a.length \in Nat
         /\ \A s \in Nat : s < a.length =>
              s \in Slots(a.depth) /\ s + 1 \in 1 .. a.length /\ Elems(a)[s + 1] = a.slots[s]
<1>1. PICK m \in Nat, n \in Nat : m = a.depth /\ n = a.length
  BY DEF Block
<1>2. PICK c \in Nat : c = 2 ^ m /\ Slots(m) = 0 .. c - 1
  BY SlotsOf
<1>3. /\ n <= c
      /\ a.slots \in [Slots(m) -> V \cup {NoValue}]
      /\ \A s \in Slots(m) : a.slots[s] # NoValue <=> s < n
  BY <1>1, <1>2 DEF Block
<1>4. Elems(a) = [i \in 1 .. n |-> a.slots[i - 1]]
  BY <1>1 DEF Elems
<1>5. \A i \in 1 .. n : i - 1 \in Slots(m) /\ i - 1 < n
  BY <1>2, <1>3
<1>6. \A i \in 1 .. n : a.slots[i - 1] \in V
  BY <1>3, <1>5
<1>7. Elems(a) \in [1 .. n -> V]
  BY <1>4, <1>6
<1>8. \A s \in Nat : s < n => s \in Slots(m) /\ s + 1 \in 1 .. n /\ (s + 1) - 1 = s
  BY <1>2, <1>3
<1>9. \A s \in Nat : s < n => Elems(a)[s + 1] = a.slots[s]
  BY <1>4, <1>8
<1>10. Elems(a) \in Seq(V) /\ Len(Elems(a)) = n
  BY <1>7
<1> QED BY <1>1, <1>8, <1>9, <1>10

(* Two blocks with the same elements below the same length.                *)
LEMMA ElemsAgree ==
  ASSUME NEW V, NEW most, NEW a, Block(a, V, most), NEW b, Block(b, V, most),
         b.length = a.length,
         \A s \in Slots(a.depth) : s < a.length => b.slots[s] = a.slots[s]
  PROVE  Elems(b) = Elems(a)
<1>1. PICK n \in Nat : n = a.length
  BY DEF Block
<1>2. \A i \in 1 .. n : i - 1 \in Nat /\ i - 1 < n
  OBVIOUS
<1>3. \A s \in Nat : s < n => s \in Slots(a.depth)
  BY <1>1, ElemsOf
<1>4. \A i \in 1 .. n : b.slots[i - 1] = a.slots[i - 1]
  BY <1>1, <1>2, <1>3
<1> QED BY <1>1, <1>4 DEF Elems

LEMMA ElemsPushed ==
  ASSUME NEW V, NoValue \notin V, NEW most, NEW a, Block(a, V, most), NEW x \in V,
         HasRoom(a) \/ MayGrow(a), NEW b, b = Pushed(a, x)
  PROVE  Elems(b) = Append(Elems(a), x)
<1>1. /\ Block(b, V, most)
      /\ b.length = a.length + 1
      /\ a.length \in Slots(b.depth) /\ b.slots[a.length] = x
      /\ \A s \in Slots(a.depth) : s < a.length => b.slots[s] = a.slots[s]
  BY BlockPushed
<1>2. PICK n \in Nat : n = a.length
  BY DEF Block
<1>3. PICK e, g : e = Elems(a) /\ g = Elems(b)
  OBVIOUS
<1>4. e \in Seq(V) /\ Len(e) = n
      /\ \A s \in Nat : s < n => s \in Slots(a.depth) /\ e[s + 1] = a.slots[s]
  BY <1>2, <1>3, ElemsOf
<1>5. g \in Seq(V) /\ Len(g) = n + 1
      /\ \A s \in Nat : s < n + 1 => g[s + 1] = b.slots[s]
  BY <1>1, <1>2, <1>3, ElemsOf
<1>6. ASSUME NEW i \in 1 .. n + 1 PROVE g[i] = Append(e, x)[i]
  <2>1. PICK s \in Nat : s = i - 1 /\ s + 1 = i /\ s < n + 1
    OBVIOUS
  <2>2. g[i] = b.slots[s]
    BY <2>1, <1>5
  <2>3. CASE s = n
    BY <2>1, <2>2, <2>3, <1>1, <1>2, <1>4
  <2>4. CASE s # n
    <3>1. s < n /\ i \in 1 .. n
      BY <2>1, <2>4
    <3>2. e[i] = b.slots[s]
      BY <2>1, <3>1, <1>1, <1>2, <1>4
    <3>3. Append(e, x)[i] = e[i]
      BY <3>1, <1>4
    <3> QED BY <2>2, <3>2, <3>3
  <2> QED BY <2>3, <2>4
<1>7. Append(e, x) \in Seq(V) /\ Len(Append(e, x)) = n + 1
  BY <1>4
<1>8. g = Append(e, x)
  BY <1>5, <1>6, <1>7, SameElements
<1> QED BY <1>3, <1>8

LEMMA ElemsPopped ==
  ASSUME NEW V, NEW most, NEW a, Block(a, V, most), a.length # 0, NEW b, b = Popped(a)
  PROVE  /\ Elems(a) # <<>>
         /\ Elems(a)[Len(Elems(a))] = LastOf(a)
         /\ Elems(b) = SubSeq(Elems(a), 1, Len(Elems(a)) - 1)
<1>1. /\ Block(b, V, most)
      /\ b.length = a.length - 1
      /\ \A s \in Slots(a.depth) : s # a.length - 1 => b.slots[s] = a.slots[s]
  BY BlockPopped
<1>2. PICK n \in Nat : n = a.length - 1 /\ n + 1 = a.length
  BY DEF Block
<1>3. PICK e, g : e = Elems(a) /\ g = Elems(b)
  OBVIOUS
<1>4. e \in Seq(V) /\ Len(e) = n + 1
      /\ \A s \in Nat : s < n + 1 => s \in Slots(a.depth) /\ e[s + 1] = a.slots[s]
  BY <1>2, <1>3, ElemsOf
<1>5. g \in Seq(V) /\ Len(g) = n
      /\ \A s \in Nat : s < n => g[s + 1] = b.slots[s]
  BY <1>1, <1>2, <1>3, ElemsOf
<1>6. PICK h : h = SubSeq(e, 1, n)
  OBVIOUS
<1>7. h \in Seq(V) /\ Len(h) = n /\ \A i \in 1 .. n : h[i] = e[i]
  BY <1>4, <1>6
<1>8. ASSUME NEW i \in 1 .. n PROVE g[i] = h[i]
  <2>1. PICK s \in Nat : s = i - 1 /\ s + 1 = i /\ s < n + 1 /\ s < n /\ s # n
    OBVIOUS
  <2>2. g[i] = b.slots[s]
    BY <2>1, <1>5
  <2>3. s \in Slots(a.depth) /\ e[i] = a.slots[s]
    BY <2>1, <1>4
  <2>4. b.slots[s] = a.slots[s]
    BY <2>1, <2>3, <1>1, <1>2
  <2> QED BY <2>2, <2>3, <2>4, <1>7
<1>9. g = h
  BY <1>5, <1>7, <1>8, SameElements
<1>10. e[n + 1] = a.slots[n] /\ e # <<>> /\ Len(e) - 1 = n
  BY <1>4
<1> QED BY <1>2, <1>3, <1>4, <1>6, <1>9, <1>10 DEF LastOf

LEMMA ElemsWritten ==
  ASSUME NEW V, NoValue \notin V, NEW most, NEW a, Block(a, V, most), NEW x \in V,
         NEW i \in Nat, i < a.length, NEW b, b = [a EXCEPT !.slots[i] = x]
  PROVE  /\ Elems(b) = [Elems(a) EXCEPT ![i + 1] = x]
         /\ Elems(a)[i + 1] = a.slots[i]
         /\ i < Len(Elems(a))
<1>1. /\ Block(b, V, most)
      /\ b.length = a.length
      /\ b.slots[i] = x
      /\ \A s \in Slots(a.depth) : s # i => b.slots[s] = a.slots[s]
  BY BlockWritten
<1>2. PICK n \in Nat : n = a.length
  BY DEF Block
<1>3. PICK e, g : e = Elems(a) /\ g = Elems(b)
  OBVIOUS
<1>4. e \in Seq(V) /\ Len(e) = n
      /\ \A s \in Nat : s < n => s \in Slots(a.depth) /\ e[s + 1] = a.slots[s]
  BY <1>2, <1>3, ElemsOf
<1>5. g \in Seq(V) /\ Len(g) = n
      /\ \A s \in Nat : s < n => g[s + 1] = b.slots[s]
  <2>1. PICK c : c = b
    OBVIOUS
  <2>2. Block(c, V, most) /\ c.length = n /\ g = Elems(c)
    BY <2>1, <1>1, <1>2, <1>3
  <2>3. g \in Seq(V) /\ Len(g) = n
        /\ \A s \in Nat : s < n => g[s + 1] = c.slots[s]
    BY <2>2, ElemsOf
  <2> QED BY <2>1, <2>3
<1>6. PICK h : h = [e EXCEPT ![i + 1] = x]
  OBVIOUS
<1>7. i + 1 \in 1 .. n
  BY <1>2
<1>8. h \in Seq(V) /\ Len(h) = n /\ h[i + 1] = x
      /\ \A j \in 1 .. n : j # i + 1 => h[j] = e[j]
  BY <1>4, <1>6, <1>7
<1>9. ASSUME NEW j \in 1 .. n PROVE g[j] = h[j]
  <2>1. PICK s \in Nat : s = j - 1 /\ s + 1 = j /\ s < n
    OBVIOUS
  <2>2. g[j] = b.slots[s] /\ s \in Slots(a.depth) /\ e[j] = a.slots[s]
    BY <2>1, <1>4, <1>5
  <2>3. CASE s = i
    BY <2>1, <2>2, <2>3, <1>1, <1>8
  <2>4. CASE s # i
    <3>1. j # i + 1
      BY <2>1, <2>4
    <3> QED BY <2>2, <2>4, <3>1, <1>1, <1>8
  <2> QED BY <2>3, <2>4
<1>10. g = h
  BY <1>5, <1>8, <1>9, SameElements
<1> QED BY <1>2, <1>3, <1>4, <1>6, <1>10

LEMMA ElemsNone ==
  ASSUME NEW a, a.length = 0
  PROVE  Elems(a) = <<>>
  BY DEF Elems

(* Reading the elements off skips no slot below the length.                *)
LEMMA ListOfElems ==
  ASSUME NEW V, NoValue \notin V, NEW most, NEW a, Block(a, V, most)
  PROVE  ListOf(a) = Elems(a)
<1>1. PICK n \in Nat : n = a.length
  BY DEF Block
<1>2. PICK e : e = Elems(a)
  OBVIOUS
<1>3. e \in Seq(V) /\ Len(e) = n
      /\ \A s \in Nat : s < n => a.slots[s] = e[s + 1] /\ s + 1 \in 1 .. n
  BY <1>1, <1>2, ElemsOf
<1> DEFINE Eq(f) == f = [k \in 0 .. n |->
                          IF k = 0 THEN <<>>
                          ELSE IF a.slots[k - 1] # NoValue THEN Append(f[k - 1], a.slots[k - 1])
                          ELSE f[k - 1]]
           g == [k \in 0 .. n |-> SubSeq(e, 1, k)]
<1>4. \A k \in 1 .. n : a.slots[k - 1] = e[k] /\ a.slots[k - 1] # NoValue
  <2> SUFFICES ASSUME NEW k \in 1 .. n PROVE a.slots[k - 1] = e[k] /\ e[k] \in V
    OBVIOUS
  <2>1. PICK s \in Nat : s = k - 1 /\ s + 1 = k /\ s < n
    OBVIOUS
  <2> QED BY <2>1, <1>3
<1>5. Eq(g)
  <2>1. SubSeq(e, 1, 0) = <<>>
    BY <1>3
  <2>2. ASSUME NEW k \in 1 .. n PROVE SubSeq(e, 1, k) = Append(SubSeq(e, 1, k - 1), e[k])
    <3>1. PICK u : u = SubSeq(e, 1, k)
      OBVIOUS
    <3>2. PICK w : w = SubSeq(e, 1, k - 1)
      OBVIOUS
    <3>3. u \in Seq(V) /\ Len(u) = k /\ \A j \in 1 .. k : u[j] = e[j]
      BY <1>3, <3>1
    <3>4. w \in Seq(V) /\ Len(w) = k - 1 /\ \A j \in 1 .. k - 1 : w[j] = e[j]
      BY <1>3, <3>2
    <3>5. e[k] \in V
      BY <1>3
    <3>6. Append(w, e[k]) \in Seq(V) /\ Len(Append(w, e[k])) = k
          /\ \A j \in 1 .. k : Append(w, e[k])[j] = e[j]
      BY <3>4, <3>5
    <3>7. u = Append(w, e[k])
      BY <3>3, <3>6, SameElements
    <3> QED BY <3>1, <3>2, <3>7
  <2>3. ASSUME NEW k \in 0 .. n
        PROVE  g[k] = IF k = 0 THEN <<>>
                      ELSE IF a.slots[k - 1] # NoValue THEN Append(g[k - 1], a.slots[k - 1])
                      ELSE g[k - 1]
    <3>1. CASE k = 0
      BY <2>1, <3>1
    <3>2. CASE k # 0
      <4>1. k \in 1 .. n /\ k - 1 \in 0 .. n
        BY <3>2
      <4>2. g[k] = SubSeq(e, 1, k) /\ g[k - 1] = SubSeq(e, 1, k - 1)
        BY <4>1
      <4> HIDE DEF g
      <4> QED BY <4>1, <4>2, <2>2, <1>4, <3>2
    <3> QED BY <3>1, <3>2
  <2> QED BY <2>3
<1> HIDE DEF g
<1>6. PICK f : f = CHOOSE h : Eq(h)
  BY Zenon
<1>7. Eq(f)
  BY <1>5, <1>6, Zenon
<1>8. ListOf(a) = f[n]
  BY <1>1, <1>6 DEF ListOf
<1> DEFINE Agree == {k \in 0 .. n : f[k] = g[k]}
<1>9. 0 \in Agree
  BY <1>5, <1>7
<1>10. ASSUME NEW k \in 0 .. n - 1, k \in Agree PROVE k + 1 \in Agree
  <2>1. k + 1 \in 0 .. n /\ k + 1 # 0 /\ (k + 1) - 1 = k /\ k + 1 \in 1 .. n
    OBVIOUS
  <2>2. f[k + 1] = IF a.slots[k] # NoValue THEN Append(f[k], a.slots[k]) ELSE f[k]
    BY <2>1, <1>7
  <2>3. g[k + 1] = IF a.slots[k] # NoValue THEN Append(g[k], a.slots[k]) ELSE g[k]
    BY <2>1, <1>5
  <2>4. f[k] = g[k]
    BY <1>10
  <2> QED BY <2>1, <2>2, <2>3, <2>4
<1> HIDE DEF Agree
<1>11. \A k \in 0 .. n : k \in Agree
  BY <1>9, <1>10, BoundedInduction
<1>12. f[n] = g[n]
  BY <1>11 DEF Agree
<1>13. g[n] = e
  BY <1>3 DEF g
<1> QED BY <1>2, <1>8, <1>12, <1>13

-----------------------------------------------------------------------------
(* Reserving: a block doubled until n elements fit.                        *)

(* The capacity a block is to get: its own, doubled as little as n needs.  *)
LeastCap(from, n) ==
  CHOOSE c \in {from * 2 ^ k : k \in 0 .. n} :
    c >= n /\ \A k \in 0 .. n : from * 2 ^ k >= n => c <= from * 2 ^ k

LEMMA LeastCapIs ==
  ASSUME NEW dp \in Nat, NEW j \in Nat, NEW n \in Nat, NEW from, from = 2 ^ dp,
         n <= 2 ^ (dp + j), j = 0 \/ 2 ^ (dp + (j - 1)) < n
  PROVE  LeastCap(from, n) = 2 ^ (dp + j)
<1>1. PICK c \in Nat : c = 2 ^ (dp + j)
  BY PowerOfTwo
<1>2. \A k \in Nat : from * 2 ^ k = 2 ^ (dp + k) /\ 2 ^ (dp + k) \in Nat
  <2> TAKE k \in Nat
  <2>1. dp + k \in Nat
    OBVIOUS
  <2>2. 2 ^ (dp + k) \in Nat
    BY <2>1, PowerOfTwo
  <2>3. 2 ^ (dp + k) = 2 ^ dp * 2 ^ k
    BY PowerAdds
  <2> QED BY <2>2, <2>3
<1>3. j \in 0 .. n
  <2>1. CASE j = 0
    BY <2>1
  <2>2. CASE j # 0
    <3>1. PICK i \in Nat : i = j - 1 /\ i + 1 = j /\ dp + i \in Nat
      BY <2>2
    <3>2. 2 ^ (dp + i) < n
      BY <2>2, <3>1
    <3>3. dp + i < 2 ^ (dp + i) /\ 2 ^ (dp + i) \in Nat
      BY <3>1, PowerGrows, PowerOfTwo
    <3> QED BY <3>1, <3>2, <3>3
  <2> QED BY <2>1, <2>2
<1>4. ASSUME NEW k \in 0 .. n, from * 2 ^ k >= n
      PROVE  c <= from * 2 ^ k
  <2>1. PICK p \in Nat : p = 2 ^ (dp + k) /\ p >= n
    BY <1>2, <1>4
  <2>2. CASE j <= k
    <3>1. dp + j \in Nat /\ dp + k \in Nat /\ dp + j <= dp + k
      BY <2>2
    <3>2. c <= p
      BY <3>1, <1>1, <2>1, PowerGrows
    <3> QED BY <3>2, <2>1, <1>2
  <2>3. CASE ~ (j <= k)
    <3>1. PICK i \in Nat : i = j - 1 /\ dp + i \in Nat /\ dp + k \in Nat /\ dp + k <= dp + i
      BY <2>3
    <3>2. 2 ^ (dp + i) < n
      BY <2>3, <3>1
    <3>3. p <= 2 ^ (dp + i) /\ 2 ^ (dp + i) \in Nat
      BY <3>1, <2>1, PowerGrows, PowerOfTwo
    <3> QED BY <2>1, <3>2, <3>3
  <2> QED BY <2>2, <2>3
<1>5. c \in {from * 2 ^ k : k \in 0 .. n} /\ c = from * 2 ^ j
  <2>1. c = from * 2 ^ j
    BY <1>1, <1>2
  <2> QED BY <2>1, <1>3
<1>6. c >= n
  BY <1>1
<1> DEFINE P(e) == e >= n /\ \A k \in 0 .. n : from * 2 ^ k >= n => e <= from * 2 ^ k
<1>7. P(c)
  BY <1>4, <1>6
<1>8. ASSUME NEW e \in {from * 2 ^ k : k \in 0 .. n}, P(e) PROVE e = c
  <2>1. PICK k \in 0 .. n : e = from * 2 ^ k
    OBVIOUS
  <2>2. from * 2 ^ k >= n
    BY <1>8, <2>1
  <2>3. c <= e
    BY <2>1, <2>2, <1>4
  <2>4. from * 2 ^ j >= n
    BY <1>5, <1>6
  <2>5. e <= c
    BY <1>3, <1>5, <1>8, <2>4
  <2>6. e \in Nat
    BY <2>1, <1>2
  <2> QED BY <2>3, <2>5, <2>6
<1>9. LeastCap(from, n) = CHOOSE e \in {from * 2 ^ k : k \in 0 .. n} : P(e)
  BY DEF LeastCap
<1> HIDE DEF P
<1> QED BY <1>1, <1>5, <1>7, <1>8, <1>9

LEMMA BlockReserved ==
  ASSUME NEW V, NEW most, NEW a, Block(a, V, most), NEW n \in Nat, Feasible(a, n),
         NEW b, b = Reserved(a, n)
  PROVE  /\ Block(b, V, most)
         /\ b.limit = a.limit /\ b.length = a.length
         /\ \A s \in Slots(a.depth) : s \in Slots(b.depth) /\ b.slots[s] = a.slots[s]
         /\ b.cap = LeastCap(a.cap, n)
<1>1. PICK dp \in Nat, top \in Nat :
        dp = a.depth /\ top = a.limit /\ dp <= top /\ a.cap = 2 ^ dp
  BY DEF Block
<1>2. CASE n <= a.cap
  <2>1. b = a
    BY <1>2 DEF Reserved
  <2>2. LeastCap(a.cap, n) = a.cap
    <3>1. PICK j \in Nat : j = 0
      OBVIOUS
    <3>2. PICK from : from = a.cap
      OBVIOUS
    <3>3. dp + j = dp
      BY <3>1
    <3>4. from = 2 ^ dp /\ n <= 2 ^ (dp + j)
      BY <1>1, <1>2, <3>2, <3>3
    <3>5. j = 0 \/ 2 ^ (dp + (j - 1)) < n
      BY <3>1
    <3>6. LeastCap(from, n) = 2 ^ (dp + j)
      BY <3>4, <3>5, LeastCapIs
    <3> QED BY <3>2, <3>3, <3>4, <3>6
  <2> QED BY <2>1, <2>2
<1>3. CASE ~ (n <= a.cap)
  <2>1. n <= 2 ^ top /\ b = GrownUntil(a, n)
    BY <1>1, <1>3 DEF Reserved, Feasible
  <2>2. PICK m \in Nat : m = a.limit - a.depth /\ dp + m = top
    BY <1>1
  <2> DEFINE Eq(k, f) == f = [i \in 0 .. k |-> IF i = 0 THEN a ELSE GrowStep(f[i - 1], n)]
             Reached == {k \in 0 .. m : \E f : Eq(k, f)}
  <2>3. 0 \in Reached
    <3> DEFINE f == [i \in 0 .. 0 |-> a]
    <3>1. Eq(0, f) /\ 0 \in 0 .. m
      OBVIOUS
    <3> HIDE DEF f, Eq
    <3> QED BY <3>1
  <2>4. ASSUME NEW k \in 0 .. m - 1, k \in Reached PROVE k + 1 \in Reached
    <3>1. PICK f : Eq(k, f)
      BY <2>4
    <3>2. PICK x : x = GrowStep(f[k], n)
      OBVIOUS
    <3> DEFINE g == [i \in 0 .. k + 1 |-> IF i = k + 1 THEN x ELSE f[i]]
    <3>3. ASSUME NEW i \in 0 .. k + 1
          PROVE  g[i] = IF i = 0 THEN a ELSE GrowStep(g[i - 1], n)
      <4>1. CASE i = k + 1
        BY <4>1, <3>2
      <4>2. CASE i # k + 1
        <5>1. i \in 0 .. k /\ g[i] = f[i]
          BY <4>2
        <5>2. f[i] = IF i = 0 THEN a ELSE GrowStep(f[i - 1], n)
          BY <3>1, <5>1
        <5>3. i # 0 => i - 1 \in 0 .. k + 1 /\ i - 1 # k + 1
          BY <5>1
        <5>4. i # 0 => g[i - 1] = f[i - 1]
          BY <5>3
        <5> HIDE DEF g
        <5> QED BY <5>1, <5>2, <5>4
      <4> QED BY <4>1, <4>2
    <3>4. Eq(k + 1, g)
      BY <3>3
    <3> HIDE DEF g, Eq
    <3> QED BY <3>4
  <2>5. \E f : Eq(m, f)
    <3> HIDE DEF Eq
    <3>1. m \in 0 .. m
      OBVIOUS
    <3> HIDE DEF Reached
    <3>2. \A k \in 0 .. m : k \in Reached
      BY <2>3, <2>4, BoundedInduction
    <3> QED BY <3>1, <3>2 DEF Reached
  <2>6. PICK f : f = CHOOSE h : Eq(m, h)
    OBVIOUS
  <2>7. Eq(m, f)
    <3> HIDE DEF Eq
    <3> QED BY <2>5, <2>6
  <2>8. b = f[m]
    BY <2>1, <2>2, <2>6 DEF GrownUntil
  <2> HIDE DEF Reached
  \* After k rounds: either it fits, or it has been doubled each time.
  <2> DEFINE Round(k, j, x) ==
               /\ Block(x, V, most) /\ x.limit = top /\ x.length = a.length
               /\ \A s \in Slots(dp) : s \in Slots(x.depth) /\ x.slots[s] = a.slots[s]
               /\ x.depth = dp + j /\ j <= k
               /\ j < k => n <= x.cap
               /\ j = 0 \/ 2 ^ (dp + (j - 1)) < n
             R == {k \in 0 .. m : \E j \in Nat : Round(k, j, f[k])}
  <2>9. 0 \in R
    <3>1. f[0] = a
      BY <2>7
    <3>2. PICK j \in Nat : j = 0
      OBVIOUS
    <3>3. Round(0, j, a)
      BY <1>1, <3>2
    <3> QED BY <3>1, <3>3
  <2>10. ASSUME NEW k \in 0 .. m - 1, k \in R PROVE k + 1 \in R
    <3>0. PICK x : x = f[k]
      OBVIOUS
    <3>1. PICK j \in Nat : x = f[k] /\ Round(k, j, x)
      BY <2>10, <3>0
    <3>2. k + 1 \in 0 .. m /\ k + 1 # 0 /\ (k + 1) - 1 = k
      OBVIOUS
    <3>3. f[k + 1] = GrowStep(x, n)
      BY <2>7, <3>1, <3>2
    <3>4. CASE n <= x.cap
      <4>1. f[k + 1] = x
        BY <3>3, <3>4 DEF GrowStep
      <4>2. j <= k + 1
        BY <3>1
      <4>3. Round(k + 1, j, x)
        BY <3>1, <3>4, <4>2
      <4> HIDE DEF Round
      <4> QED BY <3>2, <4>1, <4>3
    <3>5. CASE ~ (n <= x.cap)
      <4>1. j = k /\ x.depth = dp + k
        BY <3>1, <3>5
      <4>2. x.depth < x.limit
        BY <2>2, <3>1, <4>1
      <4>3. PICK y : y = Grown(x)
        OBVIOUS
      <4>4. /\ Block(y, V, most)
            /\ y.limit = x.limit /\ y.depth = x.depth + 1 /\ y.cap = 2 * x.cap
            /\ y.length = x.length /\ x.cap \in Nat /\ x.cap > 0
            /\ \A s \in Slots(x.depth) : s \in Slots(y.depth) /\ y.slots[s] = x.slots[s]
        <5>1. Block(x, V, most)
          BY <3>1
        <5> HIDE DEF Round
        <5> QED BY <4>2, <4>3, <5>1, BlockGrown
      <4>5. PICK i \in Nat : i = j + 1 /\ i - 1 = j /\ i <= k + 1 /\ ~ (i < k + 1) /\ i # 0
        BY <4>1
      <4>6. y.depth = dp + i
        BY <4>4, <4>5, <3>1
      <4>7. 2 ^ (dp + (i - 1)) < n
        <5>1. x.cap = 2 ^ (dp + j) /\ x.cap \in Nat
          <6>1. x.cap = 2 ^ x.depth /\ x.depth \in Nat
            BY <3>1 DEF Block
          <6> QED BY <6>1, <3>1, PowerOfTwo
        <5>2. 2 ^ (dp + j) < n
          BY <5>1, <3>5
        <5> QED BY <5>2, <4>5
      <4>8. \A s \in Slots(dp) : s \in Slots(y.depth) /\ y.slots[s] = a.slots[s]
        BY <3>1, <4>4
      <4>9. Round(k + 1, i, y)
        BY <3>1, <4>4, <4>5, <4>6, <4>7, <4>8
      <4>10. f[k + 1] = y
        BY <3>3, <3>5, <4>3 DEF GrowStep
      <4> HIDE DEF Round
      <4> QED BY <3>2, <4>9, <4>10
    <3> QED BY <3>4, <3>5
  <2> HIDE DEF Eq
  <2>11. PICK j \in Nat : Round(m, j, b)
    <3> HIDE DEF Round
    <3>1. m \in 0 .. m
      OBVIOUS
    <3> HIDE DEF R
    <3>2. m \in R
      BY <3>1, <2>9, <2>10, BoundedInduction
    <3> QED BY <3>2, <2>8 DEF R
  <2>12. b.cap = 2 ^ (dp + j)
    BY <2>11 DEF Block
  <2>13. n <= 2 ^ (dp + j)
    <3>1. CASE j < m
      BY <3>1, <2>11, <2>12
    <3>2. CASE ~ (j < m)
      <4>1. j = m
        BY <3>2, <2>11
      <4> QED BY <4>1, <2>1, <2>2
    <3> QED BY <3>1, <3>2
  <2>14. LeastCap(a.cap, n) = 2 ^ (dp + j)
    <3>1. j = 0 \/ 2 ^ (dp + (j - 1)) < n
      BY <2>11
    <3>2. PICK from : from = a.cap
      OBVIOUS
    <3>3. from = 2 ^ dp
      BY <1>1, <3>2
    <3> HIDE DEF Round
    <3>4. LeastCap(from, n) = 2 ^ (dp + j)
      BY <2>13, <3>1, <3>3, LeastCapIs
    <3> QED BY <3>2, <3>4
  <2> QED BY <1>1, <2>11, <2>12, <2>14
<1> QED BY <1>2, <1>3

(* A block against its largest size.                                       *)
LEMMA BlockBounds ==
  ASSUME NEW V, NEW most, NEW a, Block(a, V, most)
  PROVE  /\ a.length \in Nat /\ a.cap \in Nat /\ a.cap > 0 /\ 2 ^ a.limit \in Nat
         /\ a.length <= a.cap /\ a.cap <= 2 ^ a.limit
         /\ HasRoom(a) \/ MayGrow(a) => a.length < 2 ^ a.limit
         /\ ~ (HasRoom(a) \/ MayGrow(a)) => a.length = 2 ^ a.limit
         /\ \A n \in Nat : Feasible(a, n) <=> n <= 2 ^ a.limit
<1>1. PICK m \in Nat, top \in Nat, n \in Nat :
        m = a.depth /\ top = a.limit /\ m <= top /\ n = a.length
  BY DEF Block
<1>2. PICK c \in Nat, t \in Nat : c = 2 ^ m /\ t = 2 ^ top /\ c > 0 /\ c <= t
  BY <1>1, PowerOfTwo, PowerGrows
<1>3. a.cap = c /\ n <= c
  BY <1>1, <1>2 DEF Block
<1>4. ASSUME m < top PROVE c < t
  <2>1. m + 1 \in Nat /\ m + 1 <= top /\ 2 ^ (m + 1) = 2 * c
    BY <1>1, <1>2, <1>4, PowerOfTwo
  <2>2. 2 ^ (m + 1) <= t
    BY <1>2, <2>1, PowerGrows
  <2> QED BY <1>2, <2>1, <2>2
<1>5. HasRoom(a) <=> n < c
  BY <1>1, <1>3 DEF HasRoom
<1>6. MayGrow(a) <=> m < top
  BY <1>1 DEF MayGrow
<1>7. HasRoom(a) \/ MayGrow(a) => n < t
  BY <1>2, <1>3, <1>4, <1>5, <1>6
<1>8. ~ (HasRoom(a) \/ MayGrow(a)) => n = t
  BY <1>1, <1>2, <1>3, <1>5, <1>6
<1>9. \A k \in Nat : Feasible(a, k) <=> k <= t
  BY <1>1, <1>2, <1>3 DEF Feasible
<1> QED BY <1>1, <1>2, <1>3, <1>7, <1>8, <1>9

-----------------------------------------------------------------------------
(* The array of copied elements.                                           *)

LEMMA CopiedOps ==
  \A a, x :
    /\ A!NewArray(x) = NewArray(x)
    /\ A!HasRoom(a) = HasRoom(a) /\ A!MayGrow(a) = MayGrow(a)
    /\ A!Pushed(a, x) = Pushed(a, x) /\ A!Popped(a) = Popped(a)
    /\ A!LastOf(a) = LastOf(a) /\ A!Feasible(a, x) = Feasible(a, x)
    /\ A!Reserved(a, x) = Reserved(a, x)
    /\ A!ClearedDown(a) = ClearedDown(a) /\ A!ClearedWhole(a) = ClearedWhole(a)
    /\ A!ListOf(a) = ListOf(a) /\ A!Packed(a) = Packed(a)
    /\ A!Vec!Least(a, x) = LeastCap(a, x)
  BY DEF A!NewArray, NewArray, A!ClampLimit, ClampLimit, A!EmptySlots, EmptySlots,
         A!Slots, Slots, A!HasRoom, HasRoom, A!MayGrow, MayGrow, A!Pushed, Pushed,
         A!Placed, Placed, A!Grown, Grown, A!Popped, Popped, A!LastOf, LastOf,
         A!Feasible, Feasible, A!Reserved, Reserved, A!GrownUntil, GrownUntil,
         A!GrowStep, GrowStep, A!ClearedDown, ClearedDown, A!ClearedWhole, ClearedWhole,
         A!ListOf, ListOf, A!Packed, Packed, A!Vec!Least, LeastCap

LEMMA BlockIsPacked ==
  ASSUME NEW V, NEW a, Block(a, V, MaxDepth)
  PROVE  Packed(a) /\ ClearedDown(a) = ClearedWhole(a)
<1>1. ClearedDown(a) = ClearedWhole(a)
  BY BlockCleared
<1>2. Packed(a)
  BY DEF Block, Packed
<1> QED BY <1>1, <1>2

CopiedGood ==
  /\ Block(da', Value, MaxDepth)
  /\ A!Vec!VecNext
  /\ aobs'[1] \notin {"ToList", "Reserve"} =>
       awork' + A!Potential(da') <= A!Potential(da) + 6

LEMMA CopiedPushes ==
  ASSUME Block(da, Value, MaxDepth), NEW x \in Value, A!Push(x)
  PROVE  CopiedGood
<1>1. PICK a, b : a = da /\ b = da'
  OBVIOUS
<1>2. Block(a, Value, MaxDepth) /\ NoValue \notin Value
  BY <1>1, BlockAssumption
<1>3. PICK n \in Nat, c \in Nat, t \in Nat :
        n = a.length /\ c = a.cap /\ t = 2 ^ a.limit /\ c > 0 /\ n <= c /\ c <= t
        /\ (HasRoom(a) \/ MayGrow(a) => n < t)
        /\ (~ (HasRoom(a) \/ MayGrow(a)) => n = t)
  BY <1>2, BlockBounds
<1>4. Len(Elems(a)) = n
  BY <1>2, <1>3, ElemsOf
<1>5. A!Potential(a) = n + (IF 2 * n > c THEN 2 * (2 * n - c) ELSE 0)
  BY <1>3 DEF A!Potential
<1>6. CASE HasRoom(a) \/ MayGrow(a)
  <2>1. b = Pushed(a, x) /\ aobs' = <<"Push", x, "Done">>
        /\ awork' = IF n < c THEN 1 ELSE 2 * c + 1
    BY <1>1, <1>3, <1>6, CopiedOps DEF A!Push, HasRoom
  <2>2. /\ Block(b, Value, MaxDepth)
        /\ b.limit = a.limit /\ b.length = n + 1
        /\ b.cap = IF n < c THEN c ELSE 2 * c
    BY <1>2, <1>3, <1>6, <2>1, BlockPushed
  <2>3. Elems(b) = Append(Elems(a), x)
    BY <1>2, <1>6, <2>1, ElemsPushed
  <2>4. A!Vec!Push(x)
    BY <1>1, <1>3, <1>4, <1>6, <2>1, <2>2, <2>3 DEF A!Vec!Push, Elems
  <2>5. A!Vec!VecNext
    BY <2>4 DEF A!Vec!VecNext
  <2>6. A!Potential(b) = n + 1 + (IF 2 * (n + 1) > b.cap THEN 2 * (2 * (n + 1) - b.cap) ELSE 0)
    BY <2>2 DEF A!Potential
  <2>7. awork' + A!Potential(b) <= A!Potential(a) + 6
    <3>1. CASE n < c
      BY <3>1, <1>5, <2>1, <2>2, <2>6
    <3>2. CASE ~ (n < c)
      <4>1. n = c
        BY <3>2, <1>3
      <4>2. A!Potential(a) = 3 * c
        <5>1. 2 * n > c /\ 2 * (2 * n - c) = 2 * c /\ n + 2 * c = 3 * c
          BY <4>1, <1>3
        <5>2. A!Potential(a) = n + 2 * (2 * n - c)
          BY <1>5, <5>1
        <5> QED BY <5>1, <5>2
      <4>3. b.cap = 2 * c /\ awork' = 2 * c + 1
        BY <3>2, <2>1, <2>2
      <4>4. A!Potential(b) = c + 5
        BY <4>1, <4>3, <2>6
      <4> QED BY <4>2, <4>3, <4>4
    <3> QED BY <3>1, <3>2
  <2> QED BY <1>1, <2>2, <2>5, <2>7 DEF CopiedGood
<1>7. CASE ~ (HasRoom(a) \/ MayGrow(a))
  <2>1. b = a /\ aobs' = <<"Push", x, "CapacityExceeded">> /\ awork' = 1
    BY <1>1, <1>7, CopiedOps DEF A!Push
  <2>2. A!Vec!Push(x)
    BY <1>1, <1>3, <1>4, <1>7, <2>1 DEF A!Vec!Push, Elems
  <2>3. A!Vec!VecNext
    BY <2>2 DEF A!Vec!VecNext
  <2> QED BY <1>1, <1>2, <1>5, <2>1, <2>3 DEF CopiedGood
<1> QED BY <1>6, <1>7

LEMMA CopiedWrites ==
  ASSUME Block(da, Value, MaxDepth), NEW i \in 0 .. da.length, NEW x \in Value,
         A!Set(i, x) \/ A!Swap(i, x)
  PROVE  CopiedGood
<1>1. PICK a, b : a = da /\ b = da'
  OBVIOUS
<1>2. Block(a, Value, MaxDepth) /\ NoValue \notin Value
  BY <1>1, BlockAssumption
<1>3. PICK n \in Nat : n = a.length /\ Len(Elems(a)) = n /\ a.cap \in Nat /\ i \in Nat
  BY <1>1, <1>2, ElemsOf, BlockBounds
<1>4. awork' = 1
  BY DEF A!Set, A!Swap
<1>5. A!Potential(a) \in Nat
  BY <1>3 DEF A!Potential
<1>6. CASE i < n
  <2>1. b = [a EXCEPT !.slots[i] = x]
    BY <1>1, <1>3, <1>6 DEF A!Set, A!Swap
  <2>2. /\ Block(b, Value, MaxDepth)
        /\ b.limit = a.limit /\ b.depth = a.depth /\ b.cap = a.cap
        /\ b.length = a.length /\ i \in Slots(a.depth)
        /\ b.slots[i] = x /\ a.slots[i] \in Value /\ a.slots[i] # NoValue
        /\ \A s \in Slots(a.depth) : s # i => b.slots[s] = a.slots[s]
    BY <1>2, <1>3, <1>6, <2>1, BlockWritten
  <2>3. /\ Elems(b) = [Elems(a) EXCEPT ![i + 1] = x]
        /\ Elems(a)[i + 1] = a.slots[i]
        /\ i < Len(Elems(a))
    <3>1. PICK k \in Nat : k = i /\ k < a.length
      BY <1>3, <1>6
    <3>2. b = [a EXCEPT !.slots[k] = x]
      BY <2>1, <3>1
    <3>3. /\ Elems(b) = [Elems(a) EXCEPT ![k + 1] = x]
          /\ Elems(a)[k + 1] = a.slots[k]
          /\ k < Len(Elems(a))
      BY <1>2, <3>1, <3>2, ElemsWritten
    <3> QED BY <3>1, <3>3
  <2>4. \/ aobs' = <<"Set", i, x, "Done">>
        \/ aobs' = <<"Swap", i, x, "Done", Elems(a)[i + 1]>>
    BY <1>1, <1>3, <1>6, <2>2, <2>3 DEF A!Set, A!Swap
  <2>5. PICK call \in {"Set", "Swap"} :
          \/ call # "Swap" /\ aobs' = <<call, i, x, "Done">>
          \/ call # "Set" /\ aobs' = <<call, i, x, "Done", Elems(a)[i + 1]>>
    BY <2>4
  <2>6. A!Vec!Replace(call, i, x)
    BY <1>1, <1>3, <1>6, <2>2, <2>3, <2>5 DEF A!Vec!Replace, Elems
  <2>7. A!Vec!VecNext
    BY <1>1, <1>3, <2>6 DEF A!Vec!VecNext, Elems
  <2>8. A!Potential(b) = A!Potential(a)
    BY <2>2 DEF A!Potential
  <2> QED BY <1>1, <1>4, <1>5, <2>2, <2>7, <2>8 DEF CopiedGood
<1>7. CASE ~ (i < n)
  <2>1. b = a
    BY <1>1, <1>3, <1>7 DEF A!Set, A!Swap
  <2>2. PICK call \in {"Set", "Swap"} : aobs' = <<call, i, x, "IndexOutOfRange">>
    BY <1>1, <1>3, <1>7 DEF A!Set, A!Swap
  <2>3. A!Vec!Outside(call, i, x)
    BY <1>1, <1>3, <1>7, <2>1, <2>2 DEF A!Vec!Outside, Elems
  <2>4. A!Vec!VecNext
    BY <1>1, <1>3, <2>3 DEF A!Vec!VecNext, Elems
  <2> QED BY <1>1, <1>2, <1>4, <1>5, <2>1, <2>4 DEF CopiedGood
<1> QED BY <1>6, <1>7

LEMMA CopiedShrinks ==
  ASSUME Block(da, Value, MaxDepth), A!Pop \/ A!Clear
  PROVE  CopiedGood
<1>1. PICK a, b : a = da /\ b = da'
  OBVIOUS
<1>2. Block(a, Value, MaxDepth)
  BY <1>1
<1>3. PICK n \in Nat, c \in Nat : n = a.length /\ c = a.cap /\ Len(Elems(a)) = n
  BY <1>2, ElemsOf, BlockBounds
<1>4. A!Potential(a) = n + (IF 2 * n > c THEN 2 * (2 * n - c) ELSE 0)
      /\ A!Potential(a) \in Nat
  BY <1>3 DEF A!Potential
<1>5. CASE A!Pop /\ n = 0
  <2>1. b = a /\ aobs' = <<"Pop", "EmptyArray">> /\ awork' = 1
    BY <1>1, <1>3, <1>5 DEF A!Pop
  <2>2. Elems(a) = <<>>
    BY <1>3, <1>5, ElemsNone
  <2>3. A!Vec!Pop
    BY <1>1, <2>1, <2>2 DEF A!Vec!Pop, Elems
  <2>4. A!Vec!VecNext
    BY <2>3 DEF A!Vec!VecNext
  <2> QED BY <1>1, <1>2, <1>4, <2>1, <2>4 DEF CopiedGood
<1>6. CASE A!Pop /\ n # 0
  <2>1. b = Popped(a) /\ aobs' = <<"Pop", "Done", LastOf(a)>> /\ awork' = 1
    BY <1>1, <1>3, <1>6, CopiedOps DEF A!Pop
  <2>2. /\ Block(b, Value, MaxDepth)
        /\ b.limit = a.limit /\ b.depth = a.depth /\ b.cap = a.cap
        /\ b.length = a.length - 1 /\ a.length - 1 \in Slots(a.depth)
        /\ a.slots[a.length - 1] \in Value /\ a.slots[a.length - 1] # NoValue
        /\ b.slots[a.length - 1] = NoValue
        /\ \A s \in Slots(a.depth) : s # a.length - 1 => b.slots[s] = a.slots[s]
    <3>1. a.length # 0
      BY <1>3, <1>6
    <3>2. b = Popped(a)
      BY <2>1
    <3> QED BY <1>2, <3>1, <3>2, BlockPopped
  <2>3. /\ Elems(a) # <<>>
        /\ Elems(a)[Len(Elems(a))] = LastOf(a)
        /\ Elems(b) = SubSeq(Elems(a), 1, Len(Elems(a)) - 1)
    BY <1>2, <1>3, <1>6, <2>1, ElemsPopped
  <2>4. A!Vec!Pop
    BY <1>1, <2>1, <2>2, <2>3 DEF A!Vec!Pop, Elems
  <2>5. A!Vec!VecNext
    BY <2>4 DEF A!Vec!VecNext
  <2>6. A!Potential(b) = n - 1 + (IF 2 * (n - 1) > c THEN 2 * (2 * (n - 1) - c) ELSE 0)
    BY <1>3, <2>2 DEF A!Potential
  <2>7. A!Potential(b) <= A!Potential(a) /\ A!Potential(b) \in Int
    <3>1. PICK k \in Nat : n = k + 1 /\ n - 1 = k
      BY <1>6
    <3>2. A!Potential(b) = k + (IF 2 * k > c THEN 2 * (2 * k - c) ELSE 0)
      BY <3>1, <2>6
    <3>3. A!Potential(a) = (k + 1) + (IF 2 * (k + 1) > c THEN 2 * (2 * (k + 1) - c) ELSE 0)
      BY <3>1, <1>4
    <3>4. CASE 2 * k > c
      BY <3>2, <3>3, <3>4
    <3>5. CASE ~ (2 * k > c)
      <4>1. A!Potential(b) = k
        BY <3>2, <3>5
      <4>2. A!Potential(a) >= k + 1
        BY <3>3
      <4> QED BY <4>1, <4>2, <1>4
    <3> QED BY <3>4, <3>5
  <2>8. awork' + A!Potential(b) <= A!Potential(a) + 6
    BY <1>4, <2>1, <2>7
  <2> QED BY <1>1, <2>2, <2>5, <2>8 DEF CopiedGood
<1>7. CASE A!Clear
  <2>1. b = ClearedDown(a) /\ aobs' = <<"Clear">> /\ awork' = n + 1
    BY <1>1, <1>3, <1>7, CopiedOps DEF A!Clear, A!ClearWork
  <2>2. /\ Block(b, Value, MaxDepth)
        /\ b.limit = a.limit /\ b.depth = a.depth /\ b.cap = a.cap /\ b.length = 0
    BY <1>2, <2>1, BlockCleared
  <2>3. Elems(b) = <<>>
    BY <2>2, ElemsNone
  <2>4. A!Vec!Clear
    BY <1>1, <2>1, <2>2, <2>3 DEF A!Vec!Clear, Elems
  <2>5. A!Vec!VecNext
    BY <2>4 DEF A!Vec!VecNext
  <2>6. A!Potential(b) = 0
    BY <1>3, <2>2 DEF A!Potential
  <2> QED BY <1>1, <1>4, <2>1, <2>2, <2>5, <2>6 DEF CopiedGood
<1> QED BY <1>5, <1>6, <1>7

LEMMA CopiedLooks ==
  ASSUME Block(da, Value, MaxDepth),
         A!Look \/ \E i \in 0 .. da.length : A!Get(i)
  PROVE  CopiedGood
<1>1. PICK a : a = da /\ a = da'
  BY DEF A!Look, A!Get
<1>2. Block(a, Value, MaxDepth) /\ NoValue \notin Value
  BY <1>1, BlockAssumption
<1>3. PICK n \in Nat, c \in Nat, t \in Nat :
        n = a.length /\ c = a.cap /\ t = 2 ^ a.limit /\ n <= c /\ c <= t
  BY <1>2, BlockBounds
<1>4. /\ Elems(a) \in Seq(Value) /\ Len(Elems(a)) = n
      /\ \A s \in Nat : s < n => s + 1 \in 1 .. n /\ Elems(a)[s + 1] = a.slots[s]
  BY <1>2, <1>3, ElemsOf
<1>5. A!Potential(a) \in Nat
  BY <1>3 DEF A!Potential
<1>6. A!Vec!Look /\ (aobs'[1] # "ToList" => awork' = 1)
  <2>1. CASE A!Look
    <3>1. ListOf(a) = Elems(a)
      BY <1>2, ListOfElems
    <3>2. \/ aobs' = <<"Length", Len(Elems(a))>> /\ awork' = 1
          \/ aobs' = <<"Capacity", a.cap>> /\ awork' = 1
          \/ aobs' = <<"ToList", Elems(a)>>
      BY <2>1, <1>1, <1>3, <1>4, <3>1, CopiedOps DEF A!Look
    <3>3. \/ aobs' = <<"Length", Len(Elems(a))>>
          \/ aobs' = <<"Capacity", a.cap>>
          \/ aobs' = <<"ToList", Elems(a)>>
      BY <3>2
    <3>4. A!Vec!Look
      BY <1>1, <3>3 DEF A!Vec!Look, Elems
    <3>5. aobs'[1] # "ToList" => awork' = 1
      BY <3>2
    <3> QED BY <3>4, <3>5
  <2>2. ASSUME NEW i \in 0 .. da.length, A!Get(i)
        PROVE  A!Vec!Look /\ awork' = 1
    <3>1. i \in Nat /\ awork' = 1
          /\ aobs' = IF i < n /\ a.slots[i] # NoValue
                     THEN <<"Get", i, "Done", a.slots[i]>> ELSE <<"Get", i, "IndexOutOfRange">>
      BY <1>1, <1>3, <2>2 DEF A!Get
    <3>2. CASE i < n
      <4>1. PICK j \in 1 .. n : j = i + 1 /\ j - 1 = i /\ Elems(a)[j] = a.slots[i]
        BY <3>1, <3>2, <1>4
      <4>2. Elems(a)[j] \in Value /\ DOMAIN Elems(a) = 1 .. n
        BY <1>4
      <4>3. j \in DOMAIN Elems(a) /\ aobs' = <<"Get", j - 1, "Done", Elems(a)[j]>>
        BY <1>2, <3>1, <3>2, <4>1, <4>2
      <4> QED BY <1>1, <3>1, <4>3 DEF A!Vec!Look, Elems
    <3>3. CASE ~ (i < n)
      <4>1. aobs' = <<"Get", i, "IndexOutOfRange">> /\ i >= Len(Elems(a)) /\ i \in 0 .. 2 * t
        BY <1>1, <1>3, <1>4, <3>1, <3>3
      <4> QED BY <1>1, <1>3, <3>1, <4>1 DEF A!Vec!Look, Elems
    <3> QED BY <3>2, <3>3
  <2> QED BY <2>1, <2>2
<1>7. A!Vec!VecNext
  BY <1>6 DEF A!Vec!VecNext
<1> QED BY <1>1, <1>2, <1>5, <1>6, <1>7 DEF CopiedGood

LEMMA CopiedStep ==
  ASSUME Block(da, Value, MaxDepth), A!Next
  PROVE  CopiedGood
<1>1. ASSUME NEW n \in 0 .. 2 ^ da.limit + 1, A!Reserve(n)
      PROVE  CopiedGood
  <2>1. PICK a, b : a = da /\ b = da'
    OBVIOUS
  <2>2. Block(a, Value, MaxDepth)
    BY <2>1
  <2>3. PICK t \in Nat : t = 2 ^ a.limit /\ \A k \in Nat : Feasible(a, k) <=> k <= t
    BY <2>2, BlockBounds
  <2>4. n \in Nat /\ n \in 0 .. 2 * t + 1
    BY <2>1, <2>3
  <2>5. CASE Feasible(a, n)
    <3>1. b = Reserved(a, n) /\ aobs' = <<"Reserve", n, "Done">> /\ n <= t
      BY <1>1, <2>1, <2>3, <2>4, <2>5, CopiedOps DEF A!Reserve
    <3>2. /\ Block(b, Value, MaxDepth)
          /\ b.limit = a.limit /\ b.length = a.length
          /\ \A s \in Slots(a.depth) : s \in Slots(b.depth) /\ b.slots[s] = a.slots[s]
          /\ b.cap = LeastCap(a.cap, n)
      BY <2>2, <2>4, <2>5, <3>1, BlockReserved
    <3>3. Elems(b) = Elems(a)
      BY <2>2, <3>2, ElemsAgree
    <3>4. A!Vec!Reserve(n)
      BY <2>1, <2>3, <3>1, <3>2, <3>3, CopiedOps DEF A!Vec!Reserve, Elems
    <3>5. A!Vec!VecNext
      BY <2>1, <2>3, <2>4, <3>4 DEF A!Vec!VecNext
    <3> QED BY <2>1, <3>1, <3>2, <3>5 DEF CopiedGood
  <2>6. CASE ~ Feasible(a, n)
    <3>1. b = a /\ aobs' = <<"Reserve", n, "CapacityExceeded">> /\ n > t
      BY <1>1, <2>1, <2>3, <2>4, <2>6, CopiedOps DEF A!Reserve
    <3>2. A!Vec!Reserve(n)
      BY <2>1, <2>3, <3>1 DEF A!Vec!Reserve
    <3>3. A!Vec!VecNext
      BY <2>1, <2>3, <2>4, <3>2 DEF A!Vec!VecNext
    <3> QED BY <2>1, <2>2, <3>1, <3>3 DEF CopiedGood
  <2> QED BY <2>5, <2>6
<1> QED BY <1>1, CopiedPushes, CopiedWrites, CopiedShrinks, CopiedLooks DEF A!Next

CopiedIsABlock == Block(da, Value, MaxDepth)

LEMMA CopiedStarts ==
  ASSUME NEW V, NEW k \in Limits
  PROVE  /\ Block(NewArray(k), V, MaxDepth) /\ Elems(NewArray(k)) = <<>>
         /\ NewArray(k).cap = 1 /\ NewArray(k).limit = ClampLimit(k)
         /\ ClampLimit(k) \in Nat /\ ClampLimit(k) <= MaxDepth
<1>1. k \in Nat /\ MaxDepth \in Nat
  BY BlockAssumption
<1>2. PICK l : l = ClampLimit(k)
  OBVIOUS
<1>3. l \in Nat /\ l <= MaxDepth
  BY <1>1, <1>2 DEF ClampLimit
<1>4. PICK a : a = NewArray(k)
  OBVIOUS
<1>5. a = [limit |-> l, depth |-> 0, cap |-> 1, length |-> 0, slots |-> EmptySlots(0)]
  BY <1>2, <1>4 DEF NewArray
<1>6. Block(a, V, MaxDepth)
  BY <1>1, <1>3, <1>5, NewBlock
<1>7. Elems(a) = <<>>
  BY <1>5, ElemsNone
<1>8. a.cap = 1 /\ a.limit = l
  BY <1>5
<1> QED BY <1>2, <1>3, <1>4, <1>6, <1>7, <1>8

LEMMA CopiedInvariant == EachSpec => []CopiedIsABlock
<1>1. EachInit => CopiedIsABlock
  <2> SUFFICES ASSUME A!Init PROVE CopiedIsABlock
    BY DEF EachInit
  <2>1. PICK k \in Limits : da = NewArray(k)
    BY CopiedOps DEF A!Init
  <2> QED BY <2>1, CopiedStarts DEF CopiedIsABlock
<1>2. CopiedIsABlock /\ [EachNext]_all => CopiedIsABlock'
  <2> SUFFICES ASSUME CopiedIsABlock, [EachNext]_all PROVE CopiedIsABlock'
    OBVIOUS
  <2>1. CASE CopiedNext
    BY <2>1, CopiedStep DEF CopiedNext, CopiedIsABlock, CopiedGood
  <2>2. CASE UNCHANGED copiedVars
    BY <2>2 DEF copiedVars, CopiedIsABlock
  <2> QED BY <2>1, <2>2, OnlyOneIsUsed
<1> QED BY <1>1, <1>2, PTL DEF EachSpec

(* The dynamic array is a sequence with positions and a capacity that only *)
(* doubles, within the size that its limit allows (push_room, reserve).    *)
THEOREM CopiedArrayIsAVector == EachSpec => A!ImplementsVector
<1>1. EachInit => A!Vec!VecInit
  <2> SUFFICES ASSUME A!Init PROVE A!Vec!VecInit
    BY DEF EachInit
  <2>1. PICK k \in Limits : da = NewArray(k)
    BY CopiedOps DEF A!Init
  <2>2. Elems(da) = <<>> /\ da.cap = 1 /\ da.limit = A!ClampLimit(k)
    BY <2>1, CopiedStarts DEF A!ClampLimit, ClampLimit
  <2> QED BY <2>2 DEF A!Init, A!Vec!VecInit, Elems
<1>2. CopiedIsABlock /\ [EachNext]_all => [A!Vec!VecNext]_<<Elems(da), da.cap, 2 ^ da.limit, aobs>>
  <2> SUFFICES ASSUME CopiedIsABlock, [EachNext]_all
               PROVE  A!Vec!VecNext \/ UNCHANGED <<da, aobs>>
    OBVIOUS
  <2>1. CASE CopiedNext
    BY <2>1, CopiedStep DEF CopiedNext, CopiedIsABlock, CopiedGood
  <2>2. CASE UNCHANGED copiedVars
    BY <2>2 DEF copiedVars
  <2> QED BY <2>1, <2>2, OnlyOneIsUsed
<1> QED BY <1>1, <1>2, CopiedInvariant, PTL
        DEF EachSpec, A!ImplementsVector, A!Vec!VecSpec, A!Vec!vars, Elems

(* Pushes take constant time when a history is taken together.             *)
LEMMA PushesAreAmortized == EachSpec => A!PushesAreAmortized
<1>1. CopiedIsABlock /\ [EachNext]_all
        => [aobs'[1] \notin {"ToList", "Reserve"} =>
              awork' + A!Potential(da') <= A!Potential(da) + 6]_<<da, aobs, awork>>
  <2> SUFFICES ASSUME CopiedIsABlock, [EachNext]_all, <<da, aobs, awork>>' # <<da, aobs, awork>>
               PROVE  aobs'[1] \notin {"ToList", "Reserve"} =>
                        awork' + A!Potential(da') <= A!Potential(da) + 6
    OBVIOUS
  <2>1. CASE CopiedNext
    BY <2>1, CopiedStep DEF CopiedNext, CopiedIsABlock, CopiedGood
  <2>2. CASE UNCHANGED copiedVars
    BY <2>2 DEF copiedVars
  <2> QED BY <2>1, <2>2, OnlyOneIsUsed
<1> QED BY <1>1, CopiedInvariant, PTL DEF EachSpec, A!PushesAreAmortized, A!vars

(* What moving elements between two lists, growing a block or clearing it  *)
(* costs was paid for by earlier calls (split, ready, grown, clear_go_at). *)
THEOREM SequencesAreAmortized == EachSpec => CallsAreAmortized
  BY EndsAreAmortized, PushesAreAmortized, PTL DEF CallsAreAmortized

-----------------------------------------------------------------------------
(* The array of owned elements.  Where each element is can be read off the *)
(* sequence the array holds.                                               *)

LEMMA OwnedOps ==
  \A a, x :
    /\ O!NewArray(x) = NewArray(x)
    /\ O!HasRoom(a) = HasRoom(a) /\ O!MayGrow(a) = MayGrow(a)
    /\ O!Pushed(a, x) = Pushed(a, x) /\ O!Popped(a) = Popped(a)
    /\ O!LastOf(a) = LastOf(a) /\ O!Feasible(a, x) = Feasible(a, x)
    /\ O!Reserved(a, x) = Reserved(a, x) /\ O!ClearedWhole(a) = ClearedWhole(a)
    /\ O!ListOf(a) = ListOf(a)
    /\ O!Vec!Least(a, x) = LeastCap(a, x)
  BY DEF O!NewArray, NewArray, O!ClampLimit, ClampLimit, O!EmptySlots, EmptySlots,
         O!Slots, Slots, O!HasRoom, HasRoom, O!MayGrow, MayGrow, O!Pushed, Pushed,
         O!Placed, Placed, O!Grown, Grown, O!Popped, Popped, O!LastOf, LastOf,
         O!Feasible, Feasible, O!Reserved, Reserved, O!GrownUntil, GrownUntil,
         O!GrowStep, GrowStep, O!ClearedWhole, ClearedWhole, O!ListOf, ListOf,
         O!Vec!Least, LeastCap

Members(e) == {e[i] : i \in 1 .. Len(e)}

Different(e) == \A i, j \in 1 .. Len(e) : e[i] = e[j] => i = j

LEMMA ElementsAre ==
  ASSUME NEW a, Block(a, Element, MaxDepth)
  PROVE  /\ O!Elements(a) = Members(Elems(a))
         /\ Different(Elems(a)) <=>
              \A s, t \in DOMAIN a.slots :
                a.slots[s] = a.slots[t] /\ a.slots[s] # NoValue => s = t
<1>1. PICK m \in Nat, n \in Nat : m = a.depth /\ n = a.length
  BY DEF Block
<1>2. PICK c \in Nat : c = 2 ^ m /\ Slots(m) = 0 .. c - 1
  BY SlotsOf
<1>3. /\ n <= c /\ DOMAIN a.slots = Slots(m)
      /\ \A s \in Slots(m) : a.slots[s] # NoValue <=> s < n
  BY <1>1, <1>2 DEF Block
<1>4. PICK e : e = Elems(a)
  OBVIOUS
<1>5. Len(e) = n
      /\ \A s \in Nat : s < n => s \in Slots(m) /\ s + 1 \in 1 .. n /\ e[s + 1] = a.slots[s]
  BY <1>1, <1>4, ElemsOf
<1>6. \A i \in 1 .. n : /\ i - 1 \in Slots(m) /\ i - 1 < n
                        /\ e[i] = a.slots[i - 1] /\ a.slots[i - 1] # NoValue
  <2> SUFFICES ASSUME NEW i \in 1 .. n
               PROVE  /\ i - 1 \in Slots(m) /\ i - 1 < n
                      /\ e[i] = a.slots[i - 1] /\ a.slots[i - 1] # NoValue
    OBVIOUS
  <2>1. PICK s \in Nat : s = i - 1 /\ s + 1 = i /\ s < n
    OBVIOUS
  <2> QED BY <2>1, <1>3, <1>5
<1>7. \A s \in Slots(m) : a.slots[s] # NoValue =>
        s \in Nat /\ s < n /\ s + 1 \in 1 .. n /\ e[s + 1] = a.slots[s]
  BY <1>2, <1>3, <1>5
<1>8. O!Elements(a) = Members(e)
  <2>1. ASSUME NEW x \in O!Elements(a) PROVE x \in Members(e)
    <3>1. PICK s \in Slots(m) : x = a.slots[s] /\ x # NoValue
      BY <2>1, <1>3 DEF O!Elements
    <3>2. PICK i \in 1 .. n : e[i] = x
      BY <3>1, <1>7
    <3> QED BY <3>2, <1>5 DEF Members
  <2>2. ASSUME NEW x \in Members(e) PROVE x \in O!Elements(a)
    <3>1. PICK i \in 1 .. n : x = e[i]
      BY <2>2, <1>5 DEF Members
    <3>2. PICK s \in DOMAIN a.slots : x = a.slots[s] /\ x # NoValue
      BY <3>1, <1>3, <1>6
    <3> QED BY <3>2 DEF O!Elements
  <2> QED BY <2>1, <2>2
<1>9. ASSUME Different(e), NEW s \in Slots(m), NEW t \in Slots(m),
             a.slots[s] = a.slots[t], a.slots[s] # NoValue
      PROVE  s = t
  <2>1. /\ s \in Nat /\ s + 1 \in 1 .. n /\ e[s + 1] = a.slots[s]
        /\ t \in Nat /\ t + 1 \in 1 .. n /\ e[t + 1] = a.slots[t]
    BY <1>7, <1>9
  <2>2. PICK i \in 1 .. n, j \in 1 .. n : i = s + 1 /\ j = t + 1
    BY <2>1
  <2>3. i = j
    BY <2>1, <2>2, <1>5, <1>9 DEF Different
  <2> QED BY <2>1, <2>2, <2>3
<1>10. ASSUME \A s, t \in Slots(m) :
                a.slots[s] = a.slots[t] /\ a.slots[s] # NoValue => s = t
       PROVE  Different(e)
  <2> SUFFICES ASSUME NEW i \in 1 .. n, NEW j \in 1 .. n, e[i] = e[j] PROVE i = j
    BY <1>5 DEF Different
  <2>1. PICK s \in Slots(m), t \in Slots(m) : s = i - 1 /\ t = j - 1
    BY <1>6
  <2>2. a.slots[s] = a.slots[t] /\ a.slots[s] # NoValue
    BY <1>6, <2>1
  <2>3. s = t
    BY <1>10, <2>2
  <2> QED BY <2>1, <2>3
<1> QED BY <1>3, <1>4, <1>8, <1>9, <1>10

LEMMA MembersPushed ==
  ASSUME NEW e \in Seq(Element), NEW x \in Element, NEW f, f = Append(e, x)
  PROVE  /\ Members(f) = Members(e) \cup {x}
         /\ Different(e) /\ x \notin Members(e) => Different(f)
<1>1. PICK n \in Nat : n = Len(e)
  OBVIOUS
<1>2. Len(f) = n + 1 /\ f[n + 1] = x /\ \A i \in 1 .. n : f[i] = e[i]
  BY <1>1
<1>3. \A i \in 1 .. n + 1 : i = n + 1 \/ i \in 1 .. n
  OBVIOUS
<1>4. \A i \in 1 .. n : i \in 1 .. n + 1 /\ i # n + 1
  OBVIOUS
<1>5. n + 1 \in 1 .. n + 1
  OBVIOUS
<1>6. Members(e) = {e[i] : i \in 1 .. n} /\ Members(f) = {f[i] : i \in 1 .. n + 1}
  BY <1>1, <1>2 DEF Members
<1>7. Members(f) = Members(e) \cup {x}
  BY <1>2, <1>3, <1>4, <1>5, <1>6
<1>8. ASSUME Different(e), x \notin Members(e), NEW i \in 1 .. n + 1, NEW j \in 1 .. n + 1,
             f[i] = f[j]
      PROVE  i = j
  <2>1. \A k \in 1 .. n : e[k] # x
    BY <1>6, <1>8
  <2> QED BY <1>1, <1>2, <1>3, <1>8, <2>1 DEF Different
<1> QED BY <1>2, <1>7, <1>8 DEF Different

LEMMA MembersPopped ==
  ASSUME NEW e \in Seq(Element), e # <<>>, Different(e),
         NEW f, f = SubSeq(e, 1, Len(e) - 1)
  PROVE  /\ e[Len(e)] \in Members(e)
         /\ Members(f) = Members(e) \ {e[Len(e)]} /\ Different(f)
<1>1. PICK n \in Nat : n + 1 = Len(e) /\ n = Len(e) - 1
  <2>1. Len(e) # 0 /\ Len(e) \in Nat
    OBVIOUS
  <2> QED BY <2>1
<1>2. Len(f) = n /\ \A i \in 1 .. n : f[i] = e[i]
  BY <1>1
<1>3. \A i \in 1 .. n + 1 : i = n + 1 \/ i \in 1 .. n
  OBVIOUS
<1>4. \A i \in 1 .. n : i \in 1 .. n + 1 /\ i # n + 1
  OBVIOUS
<1>5. n + 1 \in 1 .. n + 1
  OBVIOUS
<1>6. Members(e) = {e[i] : i \in 1 .. n + 1} /\ Members(f) = {f[i] : i \in 1 .. n}
  BY <1>1, <1>2 DEF Members
<1>7. \A i, j \in 1 .. n + 1 : e[i] = e[j] => i = j
  BY <1>1 DEF Different
<1>8. Members(f) = Members(e) \ {e[n + 1]}
  BY <1>2, <1>3, <1>4, <1>5, <1>6, <1>7
<1>9. Different(f)
  BY <1>2, <1>4, <1>7 DEF Different
<1> QED BY <1>1, <1>5, <1>6, <1>8, <1>9

LEMMA MembersWritten ==
  ASSUME NEW e \in Seq(Element), Different(e), NEW k \in 1 .. Len(e), NEW x \in Element,
         NEW f \in Seq(Element), Len(f) = Len(e), f[k] = x,
         \A i \in 1 .. Len(e) : i # k => f[i] = e[i],
         x \notin Members(e) \/ x = e[k]
  PROVE  /\ e[k] \in Members(e)
         /\ Members(f) = (Members(e) \ {e[k]}) \cup {x} /\ Different(f)
<1>1. PICK n \in Nat : n = Len(e)
  OBVIOUS
<1>2. Len(f) = n /\ k \in 1 .. n /\ f[k] = x /\ \A i \in 1 .. n : i # k => f[i] = e[i]
  BY <1>1
<1>3. Members(e) = {e[i] : i \in 1 .. n} /\ Members(f) = {f[i] : i \in 1 .. n}
  BY <1>1, <1>2 DEF Members
<1>4. \A i, j \in 1 .. n : e[i] = e[j] => i = j
  BY <1>1 DEF Different
<1>5. Members(f) = (Members(e) \ {e[k]}) \cup {x}
  <2>1. ASSUME NEW y \in Members(f) PROVE y \in (Members(e) \ {e[k]}) \cup {x}
    <3>1. PICK i \in 1 .. n : y = f[i]
      BY <2>1, <1>3
    <3>2. CASE i = k
      BY <3>1, <3>2, <1>2
    <3>3. CASE i # k
      BY <3>1, <3>3, <1>2, <1>3, <1>4
    <3> QED BY <3>2, <3>3
  <2>2. ASSUME NEW y \in Members(e), y # e[k] PROVE y \in Members(f)
    <3>1. PICK i \in 1 .. n : y = e[i]
      BY <2>2, <1>3
    <3> QED BY <3>1, <2>2, <1>2, <1>3
  <2>3. x \in Members(f)
    BY <1>2, <1>3
  <2> QED BY <2>1, <2>2, <2>3
<1>6. \A i \in 1 .. n : e[i] = x => i = k
  BY <1>2, <1>3, <1>4
<1>7. Different(f)
  BY <1>2, <1>4, <1>6 DEF Different
<1> QED BY <1>2, <1>3, <1>5, <1>7

(* Where the elements are: with the caller, released, or in the sequence.  *)
Placing(outside, gone, e) ==
  /\ outside \cup gone \cup Members(e) = Element
  /\ outside \cap gone = {}
  /\ (outside \cup gone) \cap Members(e) = {}
  /\ Different(e)

OwnedIsPlaced == Block(oa, Element, MaxDepth) /\ Placing(held, released, Elems(oa))

OwnedGood ==
  /\ Block(oa', Element, MaxDepth)
  /\ Placing(held', released', Elems(oa'))
  /\ O!Vec!VecNext

LEMMA PlacingIs ==
  ASSUME OwnedIsPlaced
  PROVE  O!EveryElementIsSomewhere /\ Packed(oa)
<1>1. Packed(oa)
  BY BlockIsPacked DEF OwnedIsPlaced
<1>2. O!Elements(oa) = Members(Elems(oa))
      /\ \A s, t \in DOMAIN oa.slots :
           oa.slots[s] = oa.slots[t] /\ oa.slots[s] # NoValue => s = t
  BY ElementsAre DEF OwnedIsPlaced, Placing
<1> QED BY <1>1, <1>2 DEF OwnedIsPlaced, Placing, O!EveryElementIsSomewhere

LEMMA OwnedPushes ==
  ASSUME OwnedIsPlaced, NEW x \in held, O!PushOwned(x)
  PROVE  OwnedGood
<1>1. PICK a, b, e : a = oa /\ b = oa' /\ e = Elems(a)
  OBVIOUS
<1>2. /\ Block(a, Element, MaxDepth) /\ NoValue \notin Element /\ Placing(held, released, e)
      /\ x \in Element /\ x \notin Members(e)
  BY <1>1, SequencesAssumption DEF OwnedIsPlaced, Placing
<1>3. PICK n \in Nat, c \in Nat, t \in Nat :
        n = a.length /\ c = a.cap /\ t = 2 ^ a.limit /\ c > 0 /\ n <= c /\ c <= t
        /\ (HasRoom(a) \/ MayGrow(a) => n < t)
        /\ (~ (HasRoom(a) \/ MayGrow(a)) => n = t)
  BY <1>2, BlockBounds
<1>4. e \in Seq(Element) /\ Len(e) = n
  BY <1>1, <1>2, <1>3, ElemsOf
<1>5. CASE HasRoom(a) \/ MayGrow(a)
  <2>1. b = Pushed(a, x) /\ oobs' = <<"Push", x, "Done">>
        /\ held' = held \ {x} /\ released' = released
    BY <1>1, <1>5, OwnedOps DEF O!PushOwned
  <2>2. /\ Block(b, Element, MaxDepth)
        /\ b.limit = a.limit /\ b.length = n + 1
        /\ b.cap = IF n < c THEN c ELSE 2 * c
    BY <1>2, <1>3, <1>5, <2>1, BlockPushed
  <2>3. Elems(b) = Append(e, x)
    BY <1>1, <1>2, <1>5, <2>1, ElemsPushed
  <2>4. O!Vec!Push(x)
    BY <1>1, <1>3, <1>4, <1>5, <2>1, <2>2, <2>3 DEF O!Vec!Push, Elems
  <2>5. O!Vec!VecNext
    BY <1>2, <2>4 DEF O!Vec!VecNext
  <2>6. Members(Elems(b)) = Members(e) \cup {x} /\ Different(Elems(b))
    BY <1>2, <1>4, <2>3, MembersPushed DEF Placing
  <2>7. Placing(held', released', Elems(b))
    BY <1>2, <2>1, <2>6 DEF Placing
  <2> QED BY <1>1, <2>2, <2>5, <2>7 DEF OwnedGood
<1>6. CASE ~ (HasRoom(a) \/ MayGrow(a))
  <2>1. b = a /\ oobs' = <<"Push", x, "CapacityExceeded">> /\ held' = held /\ released' = released
    BY <1>1, <1>6, OwnedOps DEF O!PushOwned, O!Refused
  <2>2. O!Vec!Push(x)
    BY <1>1, <1>3, <1>4, <1>6, <2>1 DEF O!Vec!Push, Elems
  <2>3. O!Vec!VecNext
    BY <1>2, <2>2 DEF O!Vec!VecNext
  <2> QED BY <1>1, <1>2, <2>1, <2>3 DEF OwnedGood
<1> QED BY <1>5, <1>6

(* An element comes to a slot in use, and the one there goes elsewhere.    *)
LEMMA OwnedWrites ==
  ASSUME OwnedIsPlaced, NEW i \in 0 .. oa.length, NEW x \in Element,
         \/ x \in held /\ (O!SwapOwned(i, x) \/ O!SetOwned(i, x))
         \/ O!UpdateOwned(i, x)
  PROVE  OwnedGood
<1>1. PICK a, b, e : a = oa /\ b = oa' /\ e = Elems(a)
  OBVIOUS
<1>2. Block(a, Element, MaxDepth) /\ NoValue \notin Element /\ Placing(held, released, e)
  BY <1>1, SequencesAssumption DEF OwnedIsPlaced
<1>3. PICK n \in Nat : n = a.length /\ e \in Seq(Element) /\ Len(e) = n /\ i \in Nat
  BY <1>1, <1>2, ElemsOf
<1>4. CASE i < n
  <2>1. PICK k \in Nat : k = i /\ k < a.length /\ k + 1 \in 1 .. n
    BY <1>3, <1>4
  <2>2. /\ \A s \in Nat : s < n => s \in Slots(a.depth) /\ e[s + 1] = a.slots[s]
    BY <1>1, <1>2, <1>3, ElemsOf
  <2>3. PICK o : o = e[k + 1] /\ o = a.slots[k] /\ o \in Element /\ o # NoValue
        /\ o = oa.slots[i]
    BY <1>1, <1>2, <1>3, <2>1, <2>2
  <2>4. b = [a EXCEPT !.slots[k] = x]
    <3>1. [[a EXCEPT !.slots[k] = NoValue] EXCEPT !.slots[k] = x] = [a EXCEPT !.slots[k] = x]
      BY <1>2 DEF Block, BlockFields
    <3> QED BY <1>1, <1>3, <1>4, <2>1, <2>3, <3>1
            DEF O!SwapOwned, O!SetOwned, O!UpdateOwned, O!Put
  <2>5. /\ Block(b, Element, MaxDepth)
        /\ b.limit = a.limit /\ b.depth = a.depth /\ b.cap = a.cap
        /\ b.length = a.length /\ k \in Slots(a.depth)
        /\ b.slots[k] = x /\ a.slots[k] \in Element /\ a.slots[k] # NoValue
        /\ \A s \in Slots(a.depth) : s # k => b.slots[s] = a.slots[s]
    BY <1>2, <2>1, <2>4, BlockWritten
  <2>6. /\ Elems(b) = [Elems(a) EXCEPT ![k + 1] = x]
        /\ Elems(a)[k + 1] = a.slots[k]
        /\ k < Len(Elems(a))
    BY <1>2, <2>1, <2>4, ElemsWritten
  <2>7. \/ /\ x \in held /\ oobs' = <<"Swap", i, x, "Done", o>>
           /\ held' = (held \ {x}) \cup {o} /\ released' = released
        \/ /\ x \in held /\ oobs' = <<"Set", i, x, "Done">>
           /\ held' = held \ {x} /\ released' = released \cup {o}
        \/ /\ x \in held \cup {o}
           /\ oobs' = IF x = o THEN <<"Update", i, x, "Done">> ELSE <<"Update", i, x, "Done", o>>
           /\ held' = (held \cup {o}) \ {x} /\ released' = released
    BY <1>1, <1>3, <1>4, <2>3 DEF O!SwapOwned, O!SetOwned, O!UpdateOwned
  <2>8. x \notin Members(e) \/ x = o
    BY <1>2, <2>7 DEF Placing
  <2>9. o \in Members(e) /\ Members(Elems(b)) = (Members(e) \ {o}) \cup {x}
        /\ Different(Elems(b))
    <3>1. PICK j \in 1 .. Len(e) : j = k + 1
      BY <1>3, <2>1
    <3>2. PICK f : f = Elems(b)
      OBVIOUS
    <3>3. f = [e EXCEPT ![j] = x] /\ o = e[j]
      BY <1>1, <2>3, <2>6, <3>1, <3>2
    <3>4. x \notin Members(e) \/ x = e[j]
      BY <2>8, <3>3
    <3>5. Different(e)
      BY <1>2 DEF Placing
    <3>6. e[j] \in Members(e) /\ Members(f) = (Members(e) \ {e[j]}) \cup {x} /\ Different(f)
      <4>1. /\ f \in Seq(Element) /\ Len(f) = Len(e) /\ f[j] = x
            /\ \A l \in 1 .. Len(e) : l # j => f[l] = e[l]
        BY <1>3, <3>3
      <4> QED BY <1>3, <3>4, <3>5, <4>1, MembersWritten
    <3> QED BY <3>2, <3>3, <3>6
  <2>10. Placing(held', released', Elems(b))
    <3>1. CASE x = o
      BY <3>1, <1>2, <2>7, <2>9 DEF Placing
    <3>2. CASE x # o
      BY <3>2, <1>2, <2>7, <2>9 DEF Placing
    <3> QED BY <3>1, <3>2
  <2>11. PICK call \in {"Set", "Swap", "Update"} :
           \/ call # "Swap" /\ oobs' = <<call, i, x, "Done">>
           \/ call # "Set" /\ oobs' = <<call, i, x, "Done", e[i + 1]>>
    BY <2>1, <2>3, <2>7
  <2>12. O!Vec!Replace(call, i, x)
    BY <1>1, <1>3, <1>4, <2>1, <2>5, <2>6, <2>11 DEF O!Vec!Replace, Elems
  <2>13. O!Vec!VecNext
    BY <1>1, <1>3, <2>12 DEF O!Vec!VecNext, Elems
  <2> QED BY <1>1, <2>5, <2>10, <2>13 DEF OwnedGood
<1>5. CASE ~ (i < n)
  <2>1. /\ b = a /\ held' = held /\ released' = released
        /\ \E call \in {"Set", "Swap", "Update"} : oobs' = <<call, i, x, "IndexOutOfRange">>
    BY <1>1, <1>3, <1>5 DEF O!SwapOwned, O!SetOwned, O!UpdateOwned, O!Refused
  <2>2. PICK call \in {"Set", "Swap", "Update"} : oobs' = <<call, i, x, "IndexOutOfRange">>
    BY <2>1
  <2>3. O!Vec!Outside(call, i, x)
    BY <1>1, <1>3, <1>5, <2>1, <2>2 DEF O!Vec!Outside, Elems
  <2>4. O!Vec!VecNext
    BY <1>1, <1>3, <2>3 DEF O!Vec!VecNext, Elems
  <2> QED BY <1>1, <1>2, <2>1, <2>4 DEF OwnedGood
<1> QED BY <1>4, <1>5

LEMMA OwnedPops ==
  ASSUME OwnedIsPlaced, O!PopOwned
  PROVE  OwnedGood
<1>1. PICK a, b, e : a = oa /\ b = oa' /\ e = Elems(a)
  OBVIOUS
<1>2. Block(a, Element, MaxDepth) /\ Placing(held, released, e)
  BY <1>1 DEF OwnedIsPlaced
<1>3. PICK n \in Nat : n = a.length /\ e \in Seq(Element) /\ Len(e) = n
  BY <1>1, <1>2, ElemsOf
<1>4. CASE n = 0
  <2>1. b = a /\ oobs' = <<"Pop", "EmptyArray">> /\ held' = held /\ released' = released
    BY <1>1, <1>3, <1>4 DEF O!PopOwned
  <2>2. e = <<>>
    BY <1>1, <1>3, <1>4, ElemsNone
  <2>3. O!Vec!Pop
    BY <1>1, <2>1, <2>2 DEF O!Vec!Pop, Elems
  <2>4. O!Vec!VecNext
    BY <2>3 DEF O!Vec!VecNext
  <2> QED BY <1>1, <1>2, <2>1, <2>4 DEF OwnedGood
<1>5. CASE n # 0
  <2>1. /\ b = Popped(a) /\ oobs' = <<"Pop", "Done", LastOf(a)>>
        /\ held' = held \cup {LastOf(a)} /\ released' = released
    BY <1>1, <1>3, <1>5, OwnedOps DEF O!PopOwned
  <2>2. /\ Block(b, Element, MaxDepth)
        /\ b.limit = a.limit /\ b.depth = a.depth /\ b.cap = a.cap
        /\ b.length = a.length - 1 /\ a.length - 1 \in Slots(a.depth)
        /\ a.slots[a.length - 1] \in Element /\ a.slots[a.length - 1] # NoValue
        /\ b.slots[a.length - 1] = NoValue
        /\ \A s \in Slots(a.depth) : s # a.length - 1 => b.slots[s] = a.slots[s]
    <3>1. a.length # 0
      BY <1>3, <1>5
    <3>2. b = Popped(a)
      BY <2>1
    <3>3. Block(a, Element, MaxDepth)
      BY <1>2
    <3> QED BY <3>1, <3>2, <3>3, BlockPopped, SMTT(30)
  <2>3. /\ Elems(a) # <<>>
        /\ Elems(a)[Len(Elems(a))] = LastOf(a)
        /\ Elems(b) = SubSeq(Elems(a), 1, Len(Elems(a)) - 1)
    BY <1>2, <1>3, <1>5, <2>1, ElemsPopped
  <2>4. O!Vec!Pop
    BY <1>1, <2>1, <2>2, <2>3 DEF O!Vec!Pop, Elems
  <2>5. O!Vec!VecNext
    BY <2>4 DEF O!Vec!VecNext
  <2>6. /\ e[Len(e)] \in Members(e)
        /\ Members(Elems(b)) = Members(e) \ {e[Len(e)]} /\ Different(Elems(b))
    BY <1>1, <1>2, <1>3, <2>3, MembersPopped DEF Placing
  <2>7. Placing(held', released', Elems(b))
    BY <1>1, <1>2, <2>1, <2>3, <2>6 DEF Placing
  <2> QED BY <1>1, <2>2, <2>5, <2>7 DEF OwnedGood
<1> QED BY <1>4, <1>5

LEMMA OwnedEmpties ==
  ASSUME OwnedIsPlaced, O!ClearOwned \/ O!IntoListOwned
  PROVE  OwnedGood
<1>1. PICK a, b, e : a = oa /\ b = oa' /\ e = Elems(a)
  OBVIOUS
<1>2. Block(a, Element, MaxDepth) /\ NoValue \notin Element /\ Placing(held, released, e)
  BY <1>1, SequencesAssumption DEF OwnedIsPlaced
<1>3. e \in Seq(Element)
  BY <1>1, <1>2, ElemsOf
<1>4. Members(<<>>) = {} /\ Different(<<>>)
  BY DEF Members, Different
<1>5. CASE O!ClearOwned
  <2>1. /\ b = ClearedDown(a) /\ oobs' = <<"Clear">>
        /\ held' = held /\ released' = released \cup Members(e)
    <3>1. O!Elements(a) = Members(e)
      BY <1>1, <1>2, ElementsAre
    <3>2. ClearedWhole(a) = ClearedDown(a)
      BY <1>2, BlockIsPacked
    <3> QED BY <1>1, <1>5, <3>1, <3>2, OwnedOps DEF O!ClearOwned
  <2>2. /\ Block(b, Element, MaxDepth)
        /\ b.limit = a.limit /\ b.depth = a.depth /\ b.cap = a.cap /\ b.length = 0
    BY <1>2, <2>1, BlockCleared
  <2>3. Elems(b) = <<>>
    BY <2>2, ElemsNone
  <2>4. O!Vec!Clear
    BY <1>1, <2>1, <2>2, <2>3 DEF O!Vec!Clear, Elems
  <2>5. O!Vec!VecNext
    BY <2>4 DEF O!Vec!VecNext
  <2>6. Placing(held', released', Elems(b))
    BY <1>2, <1>4, <2>1, <2>3 DEF Placing
  <2> QED BY <1>1, <2>2, <2>5, <2>6 DEF OwnedGood
<1>6. CASE O!IntoListOwned
  <2>1. O!Drained(oa) = e
    BY <1>1, <1>2, ListOfElems, OwnedOps DEF O!Drained
  <2>2. DOMAIN e = 1 .. Len(e)
    BY <1>3
  <2>3. /\ held' = held \cup Members(e) /\ released' = released
        /\ oobs' = <<"IntoList", e>>
    BY <1>6, <2>1, <2>2 DEF O!IntoListOwned, Members
  <2>4. PICK k \in Limits : b = NewArray(k)
    BY <1>1, <1>6, OwnedOps DEF O!IntoListOwned
  <2>5. /\ Block(b, Element, MaxDepth) /\ Elems(b) = <<>>
        /\ b.cap = 1 /\ b.limit = O!ClampLimit(k)
    BY <2>4, CopiedStarts DEF O!ClampLimit, ClampLimit
  <2>6. O!Vec!New
    BY <1>1, <2>5 DEF O!Vec!New, Elems
  <2>7. O!Vec!VecNext
    BY <1>1, <2>3, <2>6 DEF O!Vec!VecNext, O!Vec!IntoList, Elems
  <2>8. Placing(held', released', Elems(b))
    BY <1>2, <1>4, <2>3, <2>5 DEF Placing
  <2> QED BY <1>1, <2>5, <2>7, <2>8 DEF OwnedGood
<1> QED BY <1>5, <1>6

LEMMA OwnedStep ==
  ASSUME OwnedIsPlaced, O!Next
  PROVE  OwnedGood
<1>1. CASE O!Look
  <2>1. PICK a, e : a = oa /\ a = oa' /\ e = Elems(a)
    BY <1>1 DEF O!Look
  <2>2. Block(a, Element, MaxDepth)
    BY <2>1 DEF OwnedIsPlaced
  <2>3. Len(e) = a.length
    BY <2>1, <2>2, ElemsOf
  <2>4. oobs' = <<"Length", Len(e)>> \/ oobs' = <<"Capacity", a.cap>>
    BY <1>1, <2>1, <2>3 DEF O!Look
  <2>5. O!Vec!Look
    BY <2>1, <2>4 DEF O!Vec!Look, Elems
  <2>6. O!Vec!VecNext
    BY <2>5 DEF O!Vec!VecNext
  <2> QED BY <1>1, <2>1, <2>6 DEF OwnedGood, OwnedIsPlaced, O!Look
<1>2. ASSUME NEW n \in 0 .. 2 ^ oa.limit + 1, O!ReserveOwned(n)
      PROVE  OwnedGood
  <2>1. PICK a, b : a = oa /\ b = oa'
    OBVIOUS
  <2>2. Block(a, Element, MaxDepth) /\ Placing(held', released', Elems(a))
    BY <1>2, <2>1 DEF O!ReserveOwned, OwnedIsPlaced
  <2>3. PICK t \in Nat : t = 2 ^ a.limit /\ \A k \in Nat : Feasible(a, k) <=> k <= t
    BY <2>2, BlockBounds
  <2>4. n \in Nat /\ n \in 0 .. 2 * t + 1
    BY <2>1, <2>3
  <2>5. CASE Feasible(a, n)
    <3>1. b = Reserved(a, n) /\ oobs' = <<"Reserve", n, "Done">> /\ n <= t
      BY <1>2, <2>1, <2>3, <2>4, <2>5, OwnedOps DEF O!ReserveOwned
    <3>2. /\ Block(b, Element, MaxDepth)
          /\ b.limit = a.limit /\ b.length = a.length
          /\ \A s \in Slots(a.depth) : s \in Slots(b.depth) /\ b.slots[s] = a.slots[s]
          /\ b.cap = LeastCap(a.cap, n)
      BY <2>2, <2>4, <2>5, <3>1, BlockReserved
    <3>3. Elems(b) = Elems(a)
      BY <2>2, <3>2, ElemsAgree
    <3>4. O!Vec!Reserve(n)
      BY <2>1, <2>3, <3>1, <3>2, <3>3, OwnedOps DEF O!Vec!Reserve, Elems
    <3>5. O!Vec!VecNext
      BY <2>1, <2>3, <2>4, <3>4 DEF O!Vec!VecNext
    <3> QED BY <2>1, <2>2, <3>2, <3>3, <3>5 DEF OwnedGood
  <2>6. CASE ~ Feasible(a, n)
    <3>1. b = a /\ oobs' = <<"Reserve", n, "CapacityExceeded">> /\ n > t
      BY <1>2, <2>1, <2>3, <2>4, <2>6, OwnedOps DEF O!ReserveOwned
    <3>2. O!Vec!Reserve(n)
      BY <2>1, <2>3, <3>1 DEF O!Vec!Reserve
    <3>3. O!Vec!VecNext
      BY <2>1, <2>3, <2>4, <3>2 DEF O!Vec!VecNext
    <3> QED BY <2>1, <2>2, <3>1, <3>3 DEF OwnedGood
  <2> QED BY <2>5, <2>6
<1>3. held \subseteq Element
  BY DEF OwnedIsPlaced, Placing
<1>4. ASSUME NEW i \in 0 .. oa.length,
             \/ \E x \in held : O!SwapOwned(i, x) \/ O!SetOwned(i, x)
             \/ \E y \in Element : O!UpdateOwned(i, y)
      PROVE  OwnedGood
  BY <1>3, <1>4, OwnedWrites
<1> QED BY <1>1, <1>2, <1>4, OwnedPushes, OwnedPops, OwnedEmpties DEF O!Next

LEMMA OwnedInvariant == EachSpec => []OwnedIsPlaced
<1>1. EachInit => OwnedIsPlaced
  <2> SUFFICES ASSUME O!Init PROVE OwnedIsPlaced
    BY DEF EachInit
  <2>1. PICK k \in Limits : oa = NewArray(k)
    BY OwnedOps DEF O!Init
  <2>2. Block(oa, Element, MaxDepth) /\ Elems(oa) = <<>>
    BY <2>1, CopiedStarts
  <2>3. Placing(held, released, Elems(oa))
    BY <2>2 DEF O!Init, Placing, Members, Different
  <2> QED BY <2>2, <2>3 DEF OwnedIsPlaced
<1>2. OwnedIsPlaced /\ [EachNext]_all => OwnedIsPlaced'
  <2> SUFFICES ASSUME OwnedIsPlaced, [EachNext]_all PROVE OwnedIsPlaced'
    OBVIOUS
  <2>1. CASE OwnedNext
    BY <2>1, OwnedStep DEF OwnedNext, OwnedIsPlaced, OwnedGood
  <2>2. CASE UNCHANGED ownedVars
    BY <2>2 DEF ownedVars, OwnedIsPlaced
  <2> QED BY <2>1, <2>2, OnlyOneIsUsed
<1> QED BY <1>1, <1>2, PTL DEF EachSpec

(* Every owned element is in one slot, with the caller, or released,       *)
(* whatever is refused, updated or drained (push_owned, update_owned,      *)
(* drain_len_owned).                                                       *)
THEOREM NoOwnedElementIsLost == EachSpec => []EveryElementIsSomewhere
<1>1. OwnedIsPlaced => EveryElementIsSomewhere
  BY PlacingIs DEF EveryElementIsSomewhere
<1> QED BY <1>1, OwnedInvariant, PTL

(* The owned array is the same sequence, and an update leaves no slot      *)
(* empty.                                                                  *)
THEOREM OwnedArrayIsAVector == EachSpec => O!ImplementsVector
<1>1. EachInit => O!Vec!VecInit
  <2> SUFFICES ASSUME O!Init PROVE O!Vec!VecInit
    BY DEF EachInit
  <2>1. PICK k \in Limits : oa = NewArray(k)
    BY OwnedOps DEF O!Init
  <2>2. Elems(oa) = <<>> /\ oa.cap = 1 /\ oa.limit = O!ClampLimit(k)
    BY <2>1, CopiedStarts DEF O!ClampLimit, ClampLimit
  <2> QED BY <2>2 DEF O!Init, O!Vec!VecInit, Elems
<1>2. OwnedIsPlaced /\ [EachNext]_all => [O!Vec!VecNext]_<<Elems(oa), oa.cap, 2 ^ oa.limit, oobs>>
  <2> SUFFICES ASSUME OwnedIsPlaced, [EachNext]_all
               PROVE  O!Vec!VecNext \/ UNCHANGED <<oa, oobs>>
    OBVIOUS
  <2>1. CASE OwnedNext
    BY <2>1, OwnedStep DEF OwnedNext, OwnedGood
  <2>2. CASE UNCHANGED ownedVars
    BY <2>2 DEF ownedVars
  <2> QED BY <2>1, <2>2, OnlyOneIsUsed
<1> QED BY <1>1, <1>2, OwnedInvariant, PTL
        DEF EachSpec, O!ImplementsVector, O!Vec!VecSpec, O!Vec!vars, Elems

(* The blocks hold the elements at their lower end and nothing above them, *)
(* so that emptying the slots below the length leaves what a fresh block   *)
(* of the same size would be (pop_len, push_room, clear_go_at).            *)
THEOREM BlocksStayPacked == EachSpec => []BlocksArePacked
<1>1. CopiedIsABlock /\ OwnedIsPlaced => BlocksArePacked
  <2> SUFFICES ASSUME CopiedIsABlock, OwnedIsPlaced PROVE BlocksArePacked
    OBVIOUS
  <2>1. Packed(da) /\ ClearedDown(da) = ClearedWhole(da)
    BY BlockIsPacked DEF CopiedIsABlock
  <2>2. Packed(oa)
    BY PlacingIs
  <2> QED BY <2>1, <2>2, CopiedOps DEF BlocksArePacked, A!BlockIsPacked, A!ClearsAgree
<1> QED BY <1>1, CopiedInvariant, OwnedInvariant, PTL
=============================================================================
