----------------------------- MODULE SortedRange -----------------------------
(***************************************************************************)
(* What views and cursors of the tree map promise: a view is the part of   *)
(* the map within its bounds; a cursor has a set of keys it has yet to     *)
(* yield.                                                                  *)
(***************************************************************************)
EXTENDS SortedMap

CONSTANT NoKey

VARIABLES holder, lower, upper, forward,
          todo,    \* the keys the cursor has yet to yield
          current  \* the key it yielded last, unless that was removed

range == <<holder, lower, upper, forward, todo, current>>

Everything == [kind |-> "Unbounded"]

NotHeld ==
  /\ holder = "map" /\ lower = Everything /\ upper = Everything /\ forward = TRUE
  /\ todo = {} /\ current = NoKey

Shows == Within(lower, upper)

\* Whether k could be shown if it were held.
May(k) == /\ lower.kind = "Inclusive" => lower.key <= k
          /\ lower.kind = "Exclusive" => lower.key < k
          /\ upper.kind = "Inclusive" => k <= upper.key
          /\ upper.kind = "Exclusive" => k < upper.key

Crossed(lo, hi) == lo # Everything /\ hi # Everything /\ lo.key > hi.key

\* The first of some keys in the view's direction.
Foremost(ks) == IF forward THEN Least(ks) ELSE Greatest(ks)
Hindmost(ks) == IF forward THEN Greatest(ks) ELSE Least(ks)

After(k) == { j \in Shows : IF forward THEN k < j ELSE j < k }
Before(k) == { j \in Shows : IF forward THEN j < k ELSE k < j }

-----------------------------------------------------------------------------
Borrowing ==
  /\ UNCHANGED <<dict, room>>
  /\ \/ /\ holder = "map" /\ UNCHANGED <<forward, todo, current>>
        /\ \E lo, hi \in Bounds :
             /\ call' = <<"SubMap", lo, hi>>
             /\ IF Crossed(lo, hi)
                THEN answer' = <<"InvalidBounds">> /\ UNCHANGED <<holder, lower, upper>>
                ELSE answer' = <<"Done">> /\ holder' = "view" /\ lower' = lo /\ upper' = hi
     \/ /\ call' = <<"DescendingMap">> /\ holder = "map" /\ holder' = "view"
        /\ forward' = FALSE /\ UNCHANGED <<lower, upper, todo, current>>
     \/ call' = <<"Finish">> /\ holder # "map" /\ NotHeld'
     \/ /\ call' = <<"StartCursor">> /\ holder = "view" /\ holder' = "cursor"
        /\ todo' = Shows /\ current' = NoKey /\ UNCHANGED <<lower, upper, forward>>
     \/ /\ call' = <<"IteratorView">> /\ holder = "cursor" /\ holder' = "view"
        /\ todo' = {} /\ current' = NoKey /\ UNCHANGED <<lower, upper, forward>>

ViewReading ==
  /\ holder = "view" /\ UNCHANGED <<dict, room>>
  /\ \/ /\ call' = <<"ViewReverse">> /\ forward' = ~ forward
        /\ UNCHANGED <<holder, lower, upper, todo, current>>
     \/ /\ UNCHANGED range
        /\ \/ call' = <<"ViewSize">> /\ answer' = Cardinality(Shows)
           \/ call' = <<"ViewEnd", TRUE>> /\ answer' = Foremost(Shows)
           \/ call' = <<"ViewEnd", FALSE>> /\ answer' = Hindmost(Shows)
           \/ \E k \in Key :
                \/ /\ call' = <<"ViewGet", k>>
                   /\ answer' = IF k \in Shows THEN ValueAt(k) ELSE <<"None">>
                \/ \E inclusive \in BOOLEAN :
                     LET own == IF inclusive THEN Shows \cap {k} ELSE {}
                     IN \/ /\ call' = <<"ViewNearest", k, TRUE, inclusive>>
                           /\ answer' = Foremost(After(k) \cup own)
                        \/ /\ call' = <<"ViewNearest", k, FALSE, inclusive>>
                           /\ answer' = Hindmost(Before(k) \cup own)

ViewWriting ==
  /\ holder = "view" /\ UNCHANGED <<room, range>>
  /\ \/ call' = <<"ViewClear">> /\ dict' = Leave(Shows)
     \/ \E k \in Key :
          \/ /\ call' = <<"ViewRemove", k>>
             /\ answer' = IF k \in Shows THEN ValueAt(k) ELSE <<"None">>
             /\ dict' = Leave(Shows \cap {k})
          \/ \E v \in ValuesOf[k] :
               /\ call' = <<"ViewPut", k, v>>
               /\ IF ~ May(k) THEN answer' = <<"OutOfRange">> /\ UNCHANGED dict
                  ELSE IF k \in Held \/ Cardinality(Held) < room
                  THEN answer' = ValueAt(k) /\ dict' = Set(k, v)
                  ELSE answer' = <<"CapacityExceeded">> /\ UNCHANGED dict

Iterating ==
  /\ holder = "cursor" /\ UNCHANGED <<room, holder, lower, upper, forward>>
  /\ \/ /\ call' = <<"HasNext">> /\ answer' = (todo # {})
        /\ UNCHANGED <<dict, todo, current>>
     \/ /\ call' = <<"NextEntry">> /\ answer' = Foremost(todo) /\ UNCHANGED dict
        /\ IF todo = {} THEN UNCHANGED <<todo, current>>
           ELSE current' = answer'[2] /\ todo' = todo \ {current'}
     \/ /\ call' = <<"RemoveCurrent">> /\ answer' = ValueAt(current)
        /\ dict' = Leave({current}) /\ current' = NoKey /\ UNCHANGED todo
     \/ \E v \in Value :
          /\ call' = <<"SetValue", v>> /\ UNCHANGED <<todo, current>>
          /\ IF current = NoKey THEN answer' = <<"NoCurrent">> /\ UNCHANGED dict
             ELSE answer' = <<"Done", dict[current]>> /\ dict' = Set(current, v)

SortedRangeNext ==
  \/ holder = "map" /\ SortedMapNext /\ UNCHANGED range
  \/ Borrowing
  \/ ViewReading
  \/ ViewWriting
  \/ Iterating

SortedRangeSpec ==
  /\ SortedMapInit /\ NotHeld
  /\ [][SortedRangeNext]_<<dict, room, call, answer, range>>
=============================================================================
