------------------------------- MODULE Stack --------------------------------
(***************************************************************************)
(* The stack of array chunks, src/containers/stack.bend: the chunk on top  *)
(* grows by doubling up to a largest size, and then a new chunk is put on  *)
(* it.  Chunks are held top first; `count' of a chunk is the length of the *)
(* stack from it down.                                                     *)
(***************************************************************************)
EXTENDS Naturals, SequencesExt

CONSTANTS Value, NoValue,
          MaxDepth,  \* cmax(): 20 in the program
          MaxLength  \* no element is pushed beyond this length

StackAssumption ==
  /\ NoValue \notin Value
  /\ MaxDepth \in Nat /\ MaxLength \in Nat

VARIABLES chunks,  \* the chunks
          obs      \* the last call and its answer

vars == <<chunks, obs>>

Slots(depth) == 0 .. 2 ^ depth - 1

NewChunk(count, x) ==
  [d |-> 0, n |-> 1, arr |-> [s \in Slots(0) |-> x], count |-> count + 1]

\* The slots added are empty.
GrownArr(c) ==
  [s \in Slots(c.d + 1) |-> IF s \in Slots(c.d) THEN c.arr[s] ELSE NoValue]

Placed(c, x) ==
  [c EXCEPT !.arr[c.n] = x, !.n = @ + 1, !.count = @ + 1]

HasRoom(c) == c.n < 2 ^ c.d

MayGrow(c) == c.d < MaxDepth

\* The stack with x on it.
Pushed(cs, x) ==
  CASE cs = <<>> -> <<NewChunk(0, x)>>
    [] cs # <<>> /\ HasRoom(cs[1]) -> <<Placed(cs[1], x)>> \o Tail(cs)
    [] cs # <<>> /\ ~ HasRoom(cs[1]) /\ MayGrow(cs[1]) ->
         <<Placed([cs[1] EXCEPT !.d = @ + 1, !.arr = GrownArr(cs[1])], x)>>
           \o Tail(cs)
    [] OTHER -> <<NewChunk(cs[1].count, x)>> \o cs

\* Mutant: the slot keeps the element.
PoppedUncleared(cs) ==
  IF cs[1].n = 1 THEN Tail(cs)
  ELSE <<[cs[1] EXCEPT !.n = @ - 1, !.count = @ - 1]>> \o Tail(cs)

\* A chunk goes with its last element; its array keeps its size until then.
Popped(cs) ==
  IF cs[1].n = 1 THEN Tail(cs)
  ELSE <<[cs[1] EXCEPT !.n = @ - 1, !.arr[cs[1].n - 1] = NoValue, !.count = @ - 1]>>
         \o Tail(cs)

Top == chunks[1].arr[chunks[1].n - 1]

\* The elements, the last one pushed first; slots that hold none are skipped.
ItemsOf(c) ==
  LET upto[n \in 0 .. c.n] ==
        IF n = 0 THEN <<>>
        ELSE IF c.arr[n - 1] # NoValue THEN <<c.arr[n - 1]>> \o upto[n - 1]
        ELSE upto[n - 1]
  IN upto[c.n]

Items == FlattenSeq([k \in DOMAIN chunks |-> ItemsOf(chunks[k])])

-----------------------------------------------------------------------------
CountOf(cs) == IF cs = <<>> THEN 0 ELSE cs[1].count

Push(x) ==
  /\ CountOf(chunks) < MaxLength
  /\ chunks' = Pushed(chunks, x)
  /\ obs' = <<"PushFront", x>>

\* A chunk without elements, or a top slot without value, would fail as well.
Bare == chunks = <<>> \/ chunks[1].n = 0 \/ Top = NoValue

Pop ==
  IF Bare
  THEN UNCHANGED chunks /\ obs' = <<"PopFront", "Empty">>
  ELSE chunks' = Popped(chunks) /\ obs' = <<"PopFront", "Done", Top>>

Peek ==
  /\ UNCHANGED chunks
  /\ obs' = IF Bare THEN <<"PeekFront", "Empty">> ELSE <<"PeekFront", "Done", Top>>

Length == UNCHANGED chunks /\ obs' = <<"Length", CountOf(chunks)>>

ToList == UNCHANGED chunks /\ obs' = <<"ToList", Items>>

-----------------------------------------------------------------------------
Init == chunks = <<>> /\ obs = <<"New">>

Next == (\E x \in Value : Push(x)) \/ Pop \/ Peek \/ Length \/ ToList

Spec == Init /\ [][Next]_vars

-----------------------------------------------------------------------------
(* Properties.                                                             *)

\* The last element pushed comes out first, across the chunks' boundaries.
Ends == INSTANCE EndSequence WITH items <- Items

ImplementsEnds == Ends!EndSpec

\* Every chunk under the top one is full and as large as a chunk gets, so a
\* pop that uncovers one has a value to give and a push on it opens a chunk;
\* and the slots above the elements hold nothing a later growth would keep.
ChunksAreFull ==
  \A k \in DOMAIN chunks :
    LET c == chunks[k]
    IN /\ k > 1 => c.n = 2 ^ MaxDepth /\ c.d = MaxDepth
       /\ \A s \in Slots(c.d) : c.arr[s] = NoValue <=> s >= c.n
=============================================================================
