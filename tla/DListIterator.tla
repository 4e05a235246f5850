--------------------------- MODULE DListIterator ---------------------------
(***************************************************************************)
(* The owning bidirectional iterator of the doubly linked list,            *)
(* src/containers/dlist_iterator.bend.  The list is moved into the         *)
(* iterator and back; in between its operations cannot be called, and the  *)
(* iterator works on the arena through links, past every check of a        *)
(* handle.                                                                 *)
(***************************************************************************)
EXTENDS DoublyLinkedList

CONSTANT NoCursor  \* the list is not in an iterator

\* The fields of an iterator: links, a flag and a count.
Cursors == [next : Nat, last : Nat, forward : BOOLEAN, index : Nat]

ASSUME NoCursorAssumption == NoCursor \notin Cursors

VARIABLE cursor    \* the iterator's fields beside the list, or NoCursor

iterVars == <<vars, cursor>>

\* The state without the last answer, on which no action depends.
IteratorState == <<ListState, cursor>>

\* next is the link after the gap, last that of the current element or Nil,
\* forward tells whether the last move went forward, index counts the
\* elements before the gap.
IT(next, last, forward, index) ==
  [next |-> next, last |-> last, forward |-> forward, index |-> index]

Iterating == cursor # NoCursor

-----------------------------------------------------------------------------
Begin(c) == ~ Iterating /\ cursor' = c /\ UNCHANGED vars

IterFirst == Begin(IT(storage.head, Nil, TRUE, 0))

IterLast == Begin(IT(Nil, Nil, TRUE, storage.count))

Finish == Iterating /\ cursor' = NoCursor /\ UNCHANGED vars

\* A call of the iterator that changes nothing.
Answer(result) == Iterating /\ Read(result) /\ UNCHANGED cursor

HasNext == Answer(<<"HasNext", cursor.next # Nil>>)

HasPrevious == Answer(<<"HasPrevious", cursor.index > 0>>)

Position == Answer(<<"Position", cursor.index>>)

\* The link before the gap that precedes link n.
GapLeft(links, end, n, empty) == IF empty THEN end ELSE links[Slot(n)]

\* Go over the element of link h: the gap is then before link next.
MoveOver(h, next, forward, index, call) ==
  IF h = Nil
  THEN Read(<<call, "Exhausted">>) /\ UNCHANGED cursor
  ELSE /\ cursor' = IT(next, h, forward, index)
       /\ Read(<<call, "Done", storage.vals[Slot(h)]>>)

IterNext ==
  /\ Iterating
  /\ LET n == cursor.next
     IN MoveOver(n, GapLeft(storage.nexts, Nil, n, n = Nil), TRUE,
                 cursor.index + 1, "IterNext")

IterPrevious ==
  /\ Iterating
  /\ LET n == cursor.next
         h == GapLeft(storage.prevs, storage.tail, n, n = Nil)
     IN MoveOver(h, h, FALSE, cursor.index - 1, "IterPrevious")

NoCurrent(call) ==
  /\ Iterating /\ cursor.last = Nil
  /\ Read(<<call, "NoCurrent">>)
  /\ UNCHANGED cursor

IterSet(x) ==
  /\ Iterating /\ cursor.last # Nil
  /\ storage' = SetValue(storage, Slot(cursor.last), x)
  /\ obs' = <<"IterSet", x, "Done">>
  /\ UNCHANGED <<gens, issued, cursor>>

\* Mutant: the current element stays current after an insertion.
AddedKeepLast(c) == [c EXCEPT !.index = c.index + 1]

Added(c) == [c EXCEPT !.last = Nil, !.index = c.index + 1]

IterAdd(x) ==
  /\ Iterating /\ Room
  /\ LET n == cursor.next
         id == NextSlot(storage)
     IN /\ storage' = InsertBetweenFree(storage,
                        GapLeft(storage.prevs, storage.tail, n, n = Nil), n, x)
        /\ gens' = GrownGens(gens, id)
        /\ issued' = issued \cup {H(id, gens'[id])}
  /\ cursor' = Added(cursor)
  /\ obs' = <<"IterAdd", x, "Done">>

\* Mutant: the index always counts the removed element.
RemovedAlwaysBefore(c, after) == IT(after, Nil, c.forward, c.index - 1)

Removed(c, after) ==
  IT(after, Nil, c.forward, IF c.forward THEN c.index - 1 ELSE c.index)

IterRemove ==
  /\ Iterating /\ cursor.last # Nil
  /\ LET i == Slot(cursor.last)
     IN /\ storage' = RemovedStorage(storage, i, gens[i])
        /\ gens' = RemovedGens(gens, i, gens[i])
  /\ cursor' = Removed(cursor, GapLeft(storage.nexts, cursor.next,
                                       cursor.last, cursor.forward))
  /\ obs' = <<"IterRemove", "Done">>
  /\ UNCHANGED issued

-----------------------------------------------------------------------------
IterInit == Init /\ cursor = NoCursor

IterStep ==
  \/ ~ Iterating /\ Next /\ UNCHANGED cursor
  \/ IterFirst \/ IterLast \/ Finish
  \/ HasNext \/ HasPrevious \/ Position
  \/ IterNext \/ IterPrevious \/ IterRemove
  \/ \E x \in Value : IterSet(x) \/ IterAdd(x)
  \/ NoCurrent("IterSet") \/ NoCurrent("IterRemove")

IterSpec == IterInit /\ [][IterStep]_iterVars

-----------------------------------------------------------------------------
(* Correctness.                                                            *)

(* The cursor is a gap of the list: next is the link after its first index *)
(* elements, and the current element is next to the gap, on the side the   *)
(* last move came from.  No sequence of moves and edits leaves the cursor  *)
(* on a slot that was recycled under it (remove_target, added).            *)
CursorIsAGap ==
  Iterating =>
    \E chain \in Chains(storage) :
      /\ Represents(storage, chain)
      /\ cursor.index \in 0 .. storage.count
      /\ cursor.next = chain[cursor.index + 1]
      /\ \/ cursor.last = Nil
         \/ /\ cursor.last # Nil
            /\ cursor.last = chain[IF cursor.forward THEN cursor.index
                                                     ELSE cursor.index + 1]

(* A handle that the list issued before, during or between iterations goes *)
(* stale when the iterator removes its element, and stays so: the          *)
(* iterator's edits move generations as the list's own do (cursor_remove). *)
HandlesOutliveIterations ==
  [][\A h \in issued : ~ Valid(h) => ~ Valid(h)']_iterVars

\* The position of the current element in list order, or 0.
CurrentPosition ==
  IF ~ Iterating \/ cursor.last = Nil THEN 0
  ELSE CHOOSE k \in 1 .. storage.count : Order[k] = Slot(cursor.last)

AbstractIterator ==
  INSTANCE ListIterator WITH
    Foreign <- {ForeignHandle}, entries <- Entries,
    iterating <- Iterating,
    pos <- IF Iterating THEN cursor.index ELSE 0,
    cur <- CurrentPosition

(* The cursor implements the abstract list iterator over the list with     *)
(* stable handles: moves, edits and answers are those of a position in the *)
(* list, whatever slots the edits recycle.                                 *)
ImplementsListIterator == AbstractIterator!IteratorSpec
=============================================================================
