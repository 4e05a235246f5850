---------------------------- MODULE ListIterator ----------------------------
(***************************************************************************)
(* What an owning iterator promises of the list it was given.  The cursor  *)
(* is a gap: pos elements are before it.  cur is the position of the       *)
(* current element, the one that the last move went over, or 0.  While the *)
(* iterator has the list, no handle operation can be called.               *)
(***************************************************************************)
EXTENDS HandleList

VARIABLES iterating, \* the list is in an iterator
          pos,       \* the elements before the gap
          cur        \* the current element's position, or 0

iterator == <<iterating, pos, cur>>

IteratorInit == HandleListInit /\ iterating = FALSE /\ pos = 0 /\ cur = 0

-----------------------------------------------------------------------------
\* The list moves into the iterator at one of its ends, and out of it.
Open(p) ==
  /\ ~ iterating
  /\ iterating' = TRUE /\ pos' = p /\ cur' = 0
  /\ UNCHANGED vars

Close ==
  /\ iterating
  /\ iterating' = FALSE /\ pos' = 0 /\ cur' = 0
  /\ UNCHANGED vars

\* Go over the k-th element and leave p elements before the gap.
Move(k, p, move) ==
  IF k \in 1 .. Len(entries)
  THEN /\ obs' = <<move, "Done", entries[k].v>>
       /\ pos' = p /\ cur' = k
       /\ UNCHANGED <<entries, issued, iterating>>
  ELSE obs' = <<move, "Exhausted">> /\ UNCHANGED <<entries, issued, iterator>>

Forward == iterating /\ Move(pos + 1, pos + 1, "IterNext")

Backward == iterating /\ Move(pos, pos - 1, "IterPrevious")

\* Add an element before the gap.  It has a handle of its own, which the call
\* does not return.
AddBefore(x) ==
  /\ iterating
  /\ obs' = <<"IterAdd", x, "Done">>
  /\ pos' = pos + 1 /\ cur' = 0
  /\ \E h \in Handle \ issued : AddEntry(h, pos + 1, x)
  /\ UNCHANGED iterating

NoCurrent(call) ==
  /\ iterating /\ cur = 0
  /\ obs' = <<call, "NoCurrent">>
  /\ UNCHANGED <<entries, issued, iterator>>

SetCurrent(x) ==
  /\ iterating /\ cur # 0
  /\ obs' = <<"IterSet", x, "Done">>
  /\ entries' = [entries EXCEPT ![cur].v = x]
  /\ UNCHANGED <<issued, iterator>>

RemoveCurrent ==
  /\ iterating /\ cur # 0
  /\ obs' = <<"IterRemove", "Done">>
  /\ entries' = RemoveAt(entries, cur)
  /\ pos' = IF cur <= pos THEN pos - 1 ELSE pos
  /\ cur' = 0
  /\ UNCHANGED <<issued, iterating>>

Ask ==
  /\ iterating
  /\ \/ obs' = <<"HasNext", pos < Len(entries)>>
     \/ obs' = <<"HasPrevious", pos > 0>>
     \/ obs' = <<"Position", pos>>
  /\ UNCHANGED <<entries, issued, iterator>>

-----------------------------------------------------------------------------
IteratorNext ==
  \/ ~ iterating /\ HandleListNext /\ UNCHANGED iterator
  \/ Open(0) \/ Open(Len(entries)) \/ Close
  \/ Forward \/ Backward \/ RemoveCurrent \/ Ask
  \/ \E x \in Value : AddBefore(x) \/ SetCurrent(x)
  \/ NoCurrent("IterSet") \/ NoCurrent("IterRemove")

IteratorSpec ==
  IteratorInit /\ [][IteratorNext]_<<vars, iterator>>
=============================================================================
