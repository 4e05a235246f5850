----------------------------- MODULE ArrayBlock -----------------------------
(***************************************************************************)
(* The growable block under dynamic arrays, with elements that are copied  *)
(* and with elements that are owned: src/containers/dynamic_array.bend.    *)
(* The block has 2^depth slots; `cap' is that number, kept in the record.  *)
(* Slots that hold no element hold NoValue.                                *)
(***************************************************************************)
EXTENDS Naturals, Sequences

CONSTANTS Value, NoValue,
          MaxDepth,  \* max_depth(): 31 in the program
          Limits     \* the limits arrays are made with

ASSUME BlockAssumption ==
  /\ NoValue \notin Value
  /\ MaxDepth \in Nat
  /\ Limits \subseteq Nat /\ Limits # {}

Slots(depth) == 0 .. 2 ^ depth - 1

\* A limit beyond the largest depth is the largest depth.
ClampLimit(k) == IF k < MaxDepth THEN k ELSE MaxDepth

EmptySlots(depth) == [s \in Slots(depth) |-> NoValue]

NewArray(k) ==
  [limit |-> ClampLimit(k), depth |-> 0, cap |-> 1, length |-> 0,
   slots |-> EmptySlots(0)]

\* The old block is the lower half of the new one.
Grown(a) ==
  [a EXCEPT !.depth = @ + 1, !.cap = 2 * @,
            !.slots = [s \in Slots(a.depth + 1) |->
                         IF s \in Slots(a.depth) THEN a.slots[s] ELSE NoValue]]

HasRoom(a) == a.length < a.cap

MayGrow(a) == a.depth < a.limit

Placed(a, x) == [a EXCEPT !.slots[a.length] = x, !.length = @ + 1]

\* The array with x at its end, for one that has room or may grow.
Pushed(a, x) == IF HasRoom(a) THEN Placed(a, x) ELSE Placed(Grown(a), x)

\* Mutant: the slot keeps the element.
PoppedKept(a) == [a EXCEPT !.length = @ - 1]

\* The array without its last element: its slot is taken out.
Popped(a) == [a EXCEPT !.length = @ - 1, !.slots[a.length - 1] = NoValue]

LastOf(a) == a.slots[a.length - 1]

GrowStep(a, n) == IF n <= a.cap THEN a ELSE Grown(a)

\* Doubled until n fits, at most as often as the limit allows.
GrownUntil(a, n) ==
  LET after[k \in 0 .. a.limit - a.depth] ==
        IF k = 0 THEN a ELSE GrowStep(after[k - 1], n)
  IN after[a.limit - a.depth]

Feasible(a, n) == n <= a.cap \/ n <= 2 ^ a.limit

Reserved(a, n) == IF n <= a.cap THEN a ELSE GrownUntil(a, n)

\* What clear is to leave: a fresh block of the same size.
ClearedWhole(a) == [a EXCEPT !.length = 0, !.slots = EmptySlots(a.depth)]

\* What it does: the slots below the length are emptied, top down.
ClearedDown(a) ==
  [a EXCEPT !.length = 0,
            !.slots = [s \in Slots(a.depth) |->
                         IF s < a.length THEN NoValue ELSE a.slots[s]]]

\* The list read off the block; slots that hold none are skipped.
ListOf(a) ==
  LET upto[n \in 0 .. a.length] ==
        IF n = 0 THEN <<>>
        ELSE IF a.slots[n - 1] # NoValue THEN Append(upto[n - 1], a.slots[n - 1])
        ELSE upto[n - 1]
  IN upto[a.length]

\* The slots below the length hold the elements and no other slot holds any.
Packed(a) ==
  /\ a.cap = 2 ^ a.depth /\ a.depth <= a.limit /\ a.limit <= MaxDepth
  /\ DOMAIN a.slots = Slots(a.depth)
  /\ \A s \in Slots(a.depth) : a.slots[s] # NoValue <=> s < a.length
=============================================================================
