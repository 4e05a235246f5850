------------------------------- MODULE TreeMap -------------------------------
(***************************************************************************)
(* The sorted map of src/containers/balanced_search_tree.bend: the calls   *)
(* on a map that no view and no cursor holds.  A key of an entry, a value  *)
(* or a default instead of it (first_key, lower_key, get_or_default and    *)
(* the like) are the same search with less in the answer and are left out. *)
(*                                                                         *)
(* The red-black tree behind it has its nodes in the slots of an array,    *)
(* payloads in the slots of another, links that are slot indices plus one  *)
(* with 0 for none, and a chain of the slots that removals freed.  A tree  *)
(* is a record; an operator takes it and returns it changed, in the order  *)
(* of the code's writes.  What the code writes twice, once for each side,  *)
(* is written once here with the side as a parameter.                      *)
(***************************************************************************)
EXTENDS Integers, Sequences, FiniteSets

CONSTANTS Key,       \* the keys, in the order of the comparator
          Value,     \* the values
          NoKey,     \* the None of a slot without a key
          NoValue,   \* the None of a slot without a payload
          Limits,    \* the limits maps are made with
          MaxLimit,  \* ns_max(): 29 in the program
          ValuesOf,  \* the values put under each key
          Bounds     \* the bounds of ranges

ASSUME TreeMapAssumption ==
  /\ Key \subseteq Int /\ NoKey \notin Key /\ NoValue \notin Value
  /\ Limits \subseteq Nat /\ Limits # {} /\ MaxLimit \in Nat
  /\ ValuesOf \in [Key -> SUBSET Value]

-----------------------------------------------------------------------------
(* Slots.                                                                  *)

Nil == 0

Opposite(side) == IF side = "left" THEN "right" ELSE "left"

\* A free slot keeps its link in the field of the left child.
Free(next) ==
  [red |-> FALSE, left |-> next, right |-> Nil, parent |-> Nil, key |-> NoKey]

RedLeaf(p, k) ==
  [red |-> TRUE, left |-> Nil, right |-> Nil, parent |-> p, key |-> k]

\* An array of at most 2^limit slots that doubles when it is outgrown.
NewSlots(limit) == [limit |-> limit, depth |-> 0, slots |-> << >>]

HasRoom(a) == Len(a.slots) < 2 ^ a.depth
MayGrow(a) == a.depth < a.limit
Fits(a) == HasRoom(a) \/ MayGrow(a)

PushSlot(a, x) ==
  [a EXCEPT !.slots = Append(@, x), !.depth = IF HasRoom(a) THEN @ ELSE @ + 1]

PopSlot(a) == [a EXCEPT !.slots = SubSeq(@, 1, Len(@) - 1)]

NewTree(limit) ==
  [ n |-> 0, root |-> Nil, first |-> Nil, last |-> Nil, free |-> Nil,
    nodes |-> NewSlots(limit), payloads |-> NewSlots(limit) ]

Ids(t) == DOMAIN t.nodes.slots

\* The node of a link; that of 0 is a free slot, black and without children.
Node(t, id) ==
  LET nd == t.nodes.slots[id]
  IN IF id \notin Ids(t) \/ nd.key = NoKey
     THEN Free(Nil) ELSE nd

IsNode(t, id) == Node(t, id).key # NoKey

\* The link kept in a free slot.
NextFree(t, id) == t.nodes.slots[id].left

Payload(t, id) == IF id \in DOMAIN t.payloads.slots
                  THEN t.payloads.slots[id] ELSE NoValue

\* Writes to link 0 or to the links of a free slot are lost.
SetLink(t, id, side, v) ==
  IF ~ IsNode(t, id) THEN t
  ELSE IF side = "left" THEN [t EXCEPT !.nodes.slots[id].left = v]
  ELSE [t EXCEPT !.nodes.slots[id].right = v]

SetParent(t, id, v) ==
  IF IsNode(t, id) THEN [t EXCEPT !.nodes.slots[id].parent = v] ELSE t

SetRed(t, id, red) ==
  IF IsNode(t, id) THEN [t EXCEPT !.nodes.slots[id].red = red] ELSE t

SetKey(t, id, k) ==
  IF IsNode(t, id) THEN [t EXCEPT !.nodes.slots[id].key = k] ELSE t

Write(t, id, node) ==
  IF id \in Ids(t) THEN [t EXCEPT !.nodes.slots[id] = node] ELSE t

Exchange(t, id, v) ==
  IF id \in DOMAIN t.payloads.slots
  THEN [t EXCEPT !.payloads.slots[id] = v] ELSE t

\* A step taken while st.more, at most fuel times.
Repeat(Step(_), fuel, st) ==
  LET run[f \in 0 .. fuel] ==
        IF f = 0 THEN st
        ELSE LET s == run[f - 1] IN IF s.more THEN Step(s) ELSE s
  IN run[fuel]

-----------------------------------------------------------------------------
(* Searching and going round.                                              *)

\* The node of key k, or that under which k belongs and on which side.
Search(t, k) ==
  LET down(s) ==
        LET nd == Node(t, s.at)
        IN IF nd.key = NoKey THEN [s EXCEPT !.more = FALSE]
           ELSE IF k = nd.key THEN [s EXCEPT !.more = FALSE, !.found = s.at]
           ELSE LET side == IF k < nd.key THEN "left" ELSE "right"
                IN [s EXCEPT !.at = nd[side], !.parent = s.at, !.side = side]
  IN Repeat(down, 1 + t.n,
            [at |-> t.root, found |-> Nil, parent |-> Nil, side |-> "right",
             more |-> TRUE])

\* The last node on the way from id to that side.
Extreme(t, id, side) ==
  LET along(s) ==
        LET c == Node(t, s.at)[side]
        IN IF c = Nil THEN [s EXCEPT !.more = FALSE] ELSE [s EXCEPT !.at = c]
  IN IF id = Nil THEN Nil ELSE Repeat(along, 1 + t.n, [at |-> id, more |-> TRUE]).at

\* The nearest ancestor whose subtree opposite to side holds id.
Ancestor(t, id, side) ==
  LET up(s) ==
        LET nd == Node(t, s.parent)
        IN IF nd.key = NoKey THEN [s EXCEPT !.more = FALSE, !.found = Nil]
           ELSE IF s.at = nd[Opposite(side)]
                THEN [s EXCEPT !.more = FALSE, !.found = s.parent]
           ELSE [s EXCEPT !.at = s.parent, !.parent = nd.parent]
  IN Repeat(up, t.n, [at |-> id, parent |-> Node(t, id).parent,
                          found |-> Nil, more |-> TRUE]).found

\* The node next to id in the order, on that side.
Neighbor(t, id, side) ==
  LET c == Node(t, id)[side]
  IN IF c # Nil THEN Extreme(t, c, Opposite(side)) ELSE Ancestor(t, id, side)

\* The node nearest to k on that side, or that of k if inclusive.
Navigate(t, k, side, inclusive) ==
  LET down(s) ==
        LET nd == Node(t, s.at)
            way == IF k < nd.key THEN "left" ELSE "right"
        IN IF nd.key = NoKey THEN [s EXCEPT !.more = FALSE]
           ELSE IF k = nd.key
                THEN [s EXCEPT !.more = FALSE,
                               !.best = IF inclusive THEN s.at
                                        ELSE Neighbor(t, s.at, side)]
           ELSE [s EXCEPT !.at = nd[way],
                          !.best = IF way = side THEN @ ELSE s.at]
  IN Repeat(down, 1 + t.n, [at |-> t.root, best |-> Nil, more |-> TRUE]).best

-----------------------------------------------------------------------------
(* Bounds, and the entries between two of them.                            *)

Unbounded == [kind |-> "Unbounded"]
Inclusive(k) == [kind |-> "Inclusive", key |-> k]
Exclusive(k) == [kind |-> "Exclusive", key |-> k]

AboveLower(k, bound) ==
  bound # Unbounded => bound.key < k \/ bound = Inclusive(k)

BelowUpper(k, bound) ==
  bound # Unbounded => k < bound.key \/ bound = Inclusive(k)

InRange(k, lower, upper) == AboveLower(k, lower) /\ BelowUpper(k, upper)

\* Bounds that no key satisfies are valid when they are one key.
BoundsValid(lower, upper) ==
  lower = Unbounded \/ upper = Unbounded \/ lower.key <= upper.key

\* One step of the walk in key order.  The stack holds the nodes whose left
\* subtrees are being visited; from the first key emitted on, every key is
\* above the lower bound.
WalkStep(upper, t, s) ==
  LET nd == Node(t, s.at)
      Visit == [s EXCEPT !.step = "down", !.stack = Append(@, s.at), !.at = nd.left]
      inside == BelowUpper(nd.key, upper)
  IN CASE s.step = "down" /\ s.at # Nil ->
            IF s.lower = Unbounded THEN Visit ELSE [s EXCEPT !.step = "seek"]
       [] s.step = "down" /\ s.at = Nil ->
            IF s.stack = << >> THEN [s EXCEPT !.more = FALSE]
            ELSE [s EXCEPT !.step = "emit", !.at = s.stack[Len(s.stack)],
                           !.stack = SubSeq(@, 1, Len(@) - 1)]
       [] s.step = "seek" ->
            IF AboveLower(nd.key, s.lower) THEN Visit
            ELSE [s EXCEPT !.step = "down", !.at = nd.right]
       [] s.step = "emit" ->
            [s EXCEPT !.step = "down", !.at = nd.right, !.lower = Unbounded,
                      !.items = IF inside THEN Append(@, <<nd.key, Payload(t, s.at)>>)
                                ELSE @,
                      !.more = inside]

\* Mutant: too little fuel to come back from a long left spine.
WalkFuelShort(n) == 3 * n + 1

WalkFuel(n) == 4 * n + 1

\* The keys and values within the bounds, in the order of the walk.
FoldRange(t, lower, upper) ==
  LET Step(s) == WalkStep(upper, t, s)
  IN Repeat(Step, WalkFuel(t.n),
            [step |-> "down", at |-> t.root, stack |-> << >>, lower |-> lower,
             items |-> << >>, more |-> TRUE]).items

-----------------------------------------------------------------------------
(* Linking and rotating.                                                   *)

\* x becomes the child of p on that side, or the root.
Attach(t, p, x, side) ==
  SetParent(IF p = Nil THEN [t EXCEPT !.root = x] ELSE SetLink(t, p, side, x), x, p)

SideOf(t, p, x) == IF Node(t, p).left = x THEN "left" ELSE "right"

\* Mutant: the subtree that changes sides keeps its parent.
RotateKeepingParent(t, x, side) ==
  LET xn == Node(t, x)
      y == xn[Opposite(side)]
      t1 == SetLink(t, x, Opposite(side), Node(t, y)[side])
      t2 == Attach(t1, xn.parent, y, SideOf(t, xn.parent, x))
  IN SetParent(SetLink(t2, y, side, x), x, y)

\* x goes down to the side it is rotated to, and its other child y goes up.
Rotate(t, x, side) ==
  LET xn == Node(t, x)
      y == xn[Opposite(side)]
      inner == Node(t, y)[side]
      t1 == SetParent(SetLink(t, x, Opposite(side), inner), inner, x)
      t2 == Attach(t1, xn.parent, y, SideOf(t, xn.parent, x))
  IN SetParent(SetLink(t2, y, side, x), x, y)

BlackRoot(t) == SetRed(t, t.root, FALSE)

-----------------------------------------------------------------------------
(* Inserting.                                                              *)

\* One step up from z, a red node whose parent may be red too.
InsertFixStep(s) ==
  LET t == s.t
      z == s.at
      p == Node(t, z).parent
      g == Node(t, p).parent
      side == SideOf(t, g, p)
      far == Opposite(side)
      uncle == Node(t, g)[far]
      Split == SetRed(SetRed(SetRed(t, p, FALSE), uncle, FALSE), g, TRUE)
      Around(u, top) == Rotate(SetRed(SetRed(u, top, FALSE), g, TRUE), g, far)
      Done(u) == [t |-> u, at |-> Nil, more |-> FALSE]
  IN IF ~ Node(t, p).red THEN Done(t)
     ELSE IF Node(t, uncle).red THEN [t |-> Split, at |-> g, more |-> TRUE]
     ELSE IF z = Node(t, p)[far] THEN Done(Around(Rotate(t, p, side), z))
     ELSE Done(Around(t, p))

InsertFix(t, id) ==
  BlackRoot(Repeat(InsertFixStep, 1 + t.n, [t |-> t, at |-> id, more |-> TRUE]).t)

\* A node pushed and then its payload; link 0 tells that one was refused.  The
\* payloads have the limit of the nodes and grow with them, so the node pushed
\* is never taken back.
AppendNode(t, p, k, v) ==
  LET t1 == [t EXCEPT !.nodes = PushSlot(@, RedLeaf(p, k))]
  IN IF ~ Fits(t.nodes) THEN [t |-> t, id |-> Nil]
     ELSE IF ~ Fits(t.payloads)
          THEN [t |-> [t1 EXCEPT !.nodes = PopSlot(@)], id |-> Nil]
     ELSE [t |-> [t1 EXCEPT !.payloads = PushSlot(@, v)], id |-> Len(t1.nodes.slots)]

\* The slot on top of the free chain is reused before one is appended.
Allocate(t, p, k, v) ==
  IF t.free = Nil THEN AppendNode(t, p, k, v)
  ELSE IF IsNode(t, t.free) THEN [t |-> t, id |-> Nil]
  ELSE LET t1 == [t EXCEPT !.free = NextFree(t, t.free)]
       IN [t |-> Exchange(Write(t1, t.free, RedLeaf(p, k)), t.free, v), id |-> t.free]

\* One more key; the ends move when it belongs beyond them.
InsertHeader(t, id, p, side) ==
  [t EXCEPT !.n = @ + 1,
            !.first = IF t.n = 0 \/ (side = "left" /\ p = @) THEN id ELSE @,
            !.last = IF t.n = 0 \/ (side = "right" /\ p = @) THEN id ELSE @]

\* The new node under the place where its key was missed.
Enter(t, id, at) ==
  InsertFix(InsertHeader(Attach(t, at.parent, id, at.side), id, at.parent, at.side), id)

-----------------------------------------------------------------------------
(* Removing.                                                               *)

\* The sibling's far child turns black and the sibling takes p's place.
Borrow(t, p, side) ==
  LET far == Opposite(side)
      w == Node(t, p)[far]
  IN Rotate(SetRed(SetRed(SetRed(t, w, Node(t, p).red), p, FALSE), Node(t, w)[far], FALSE),
            p, side)

\* The sibling's near child takes the sibling's place.
TurnSibling(t, w, side) ==
  Rotate(SetRed(SetRed(t, Node(t, w)[side], FALSE), w, TRUE), w, Opposite(side))

\* A red sibling is rotated above p, so that the sibling is black.
LowerRedSibling(t, p, side) ==
  LET w == Node(t, p)[Opposite(side)]
  IN IF Node(t, w).red THEN Rotate(SetRed(SetRed(t, w, FALSE), p, TRUE), p, side) ELSE t

\* One step up from x, a child of p with one black node too few below it.
DeleteFixStep(s) ==
  LET side == SideOf(s.t, s.parent, s.at)
      far == Opposite(side)
      t == LowerRedSibling(s.t, s.parent, side)
      p == s.parent
      w == Node(t, p)[far]
      nearRed == Node(t, Node(t, w)[side]).red
      farRed == Node(t, Node(t, w)[far]).red
      Done(u) == [t |-> u, at |-> Nil, parent |-> Nil, more |-> FALSE]
  IN IF s.at = s.t.root \/ Node(s.t, s.at).red THEN Done(SetRed(s.t, s.at, FALSE))
     ELSE IF ~ nearRed /\ ~ farRed
          THEN [t |-> SetRed(t, w, TRUE), at |-> p, parent |-> Node(t, p).parent,
                more |-> TRUE]
     ELSE Done(Borrow(IF farRed THEN t ELSE TurnSibling(t, w, side), p, side))

DeleteRepair(t, x, p, wasRed) ==
  BlackRoot(Repeat(DeleteFixStep, 1 + t.n,
                   [t |-> t, at |-> x, parent |-> p, more |-> ~ wasRed]).t)

\* Mutant: the slot that was on top of the free chain is dropped.
RecycleAlone(t, id) ==
  [Write(t, id, Free(Nil)) EXCEPT !.n = @ - 1, !.free = id]

\* The slot goes on top of the free chain.
Recycle(t, id) ==
  [Write(t, id, Free(t.free)) EXCEPT !.n = @ - 1, !.free = id]

RefreshEnds(t) ==
  [t EXCEPT !.first = Extreme(t, t.root, "left"), !.last = Extreme(t, t.root, "right")]

\* A node with at most one child makes room for it.
Unlink(t, id) ==
  LET nd == Node(t, id)
      child == IF nd.left # Nil THEN nd.left ELSE nd.right
      t1 == Recycle(Attach(t, nd.parent, child, SideOf(t, nd.parent, id)), id)
  IN DeleteRepair(t1, child, nd.parent, nd.red)

\* A node with two children gets the key and the payload of its successor,
\* whose slot is the one to unlink.
RemoveId(t, id) ==
  LET nd == Node(t, id)
      t1 == Exchange(t, id, NoValue)
      source == Extreme(t1, nd.right, "left")
      t2 == Exchange(SetKey(Exchange(t1, source, NoValue), id, Node(t1, source).key),
                     id, Payload(t1, source))
  IN IF id = Nil THEN t
     ELSE IF nd.left # Nil /\ nd.right # Nil THEN RefreshEnds(Unlink(t2, source))
     ELSE RefreshEnds(Unlink(t1, id))

\* The slots are wiped and kept.
Clear(t) == [NewTree(t.nodes.limit) EXCEPT !.nodes.depth = t.nodes.depth,
                                           !.payloads.depth = t.payloads.depth]

-----------------------------------------------------------------------------
(* Well-formedness.                                                        *)

Live(t) == { id \in Ids(t) : IsNode(t, id) }

\* A node and the nodes met going up from it.
Line(t, id) ==
  LET up[k \in 0 .. t.n] ==
        IF k = 0 THEN {id}
        ELSE LET s == up[k - 1] IN s \cup ({ Node(t, j).parent : j \in s } \ {Nil})
  IN up[t.n]

\* Every node is a child of its parent and a parent of its children, once.
LinksAgree(t) ==
  /\ t.root = Nil <=> Live(t) = {}
  /\ \A id \in Live(t) :
       LET nd == Node(t, id)
       IN /\ nd.left = nd.right => nd.left = Nil
          /\ \A c \in {nd.left, nd.right} \ {Nil} : IsNode(t, c) /\ Node(t, c).parent = id
          /\ IF nd.parent = Nil THEN t.root = id
             ELSE id \in {Node(t, nd.parent).left, Node(t, nd.parent).right}
          /\ t.root \in Line(t, id)

\* The keys left of a node are less than its own, those right of it greater.
KeysOrdered(t) ==
  \A id \in Live(t) : \A a \in Line(t, id) \ {id} :
    IF Node(t, a).left \in Line(t, id)
    THEN Node(t, id).key < Node(t, a).key ELSE Node(t, id).key > Node(t, a).key

\* No red node has a red child, and every way down ends below as many black ones.
ColoursBalanced(t) ==
  LET Blacks(id) == Cardinality({ a \in Line(t, id) : ~ Node(t, a).red })
      ends == { id \in Live(t) : Nil \in {Node(t, id).left, Node(t, id).right} }
  IN /\ ~ Node(t, t.root).red
     /\ \A id \in Live(t) : Node(t, id).red => ~ Node(t, Node(t, id).parent).red
     /\ \A i, j \in ends : Blacks(i) = Blacks(j)

\* The slots that hold no node, from the top of the free chain down.
FreeChain(t) ==
  LET chain[k \in 1 .. Len(t.nodes.slots) - t.n] ==
        IF k = 1 THEN t.free
        ELSE LET above == chain[k - 1]
             IN IF above \in Ids(t) THEN NextFree(t, above) ELSE Nil
  IN chain

-----------------------------------------------------------------------------
\* A name for what a tree is up to a renaming of its slots, for the views of
\* model checking: no operation depends on which slot a node is in, only on how
\* slots are linked, so two trees with the same name behave alike.  A node goes
\* by its key, a free slot by its place on the free chain.
LinkNames(t) ==
  LET chain == FreeChain(t)
  IN [id \in Ids(t) \cup {Nil} |->
        IF id = Nil THEN <<"Nil">>
        ELSE IF IsNode(t, id) THEN <<"Key", Node(t, id).key>>
        ELSE << "Free", { k \in DOMAIN chain : chain[k] = id } >> ]

NamedTree(t) ==
  LET name == LinkNames(t)
      Contents(nd) == <<nd.red, name[nd.left], name[nd.right], name[nd.parent]>>
  IN << { <<name[id], Contents(t.nodes.slots[id]), Payload(t, id)>> : id \in Ids(t) },
        t.n, name[t.root], name[t.first], name[t.last], name[t.free],
        Len(t.nodes.slots), t.nodes.depth, t.nodes.limit,
        Len(t.payloads.slots), t.payloads.depth >>

-----------------------------------------------------------------------------
(* The calls.                                                              *)

VARIABLES map,    \* the map
          call,   \* the last call
          answer  \* and its answer

mapVars == <<map, call, answer>>

Maybe(v) == IF v = NoValue THEN <<"None">> ELSE <<"Some", v>>

-----------------------------------------------------------------------------
(* Reading.                                                                *)

Found(t, k) == Search(t, k).found

\* The key and the value of a node.
Entry(t, id) ==
  IF IsNode(t, id) /\ Payload(t, id) # NoValue
  THEN <<"Some", Node(t, id).key, Payload(t, id)>> ELSE <<"None">>

Reply(c, a) == call' = c /\ answer' = a

Read(c, a) == Reply(c, a) /\ UNCHANGED map

Get(k) == Read(<<"Get", k>>, Maybe(Payload(map, Found(map, k))))

ContainsKey(k) == Read(<<"ContainsKey", k>>, Found(map, k) # Nil)

\* A cursor goes over the values until it meets the one wanted.
ContainsValue(v) ==
  LET seek(s) ==
        IF s.at = Nil THEN [s EXCEPT !.more = FALSE]
        ELSE IF Payload(map, s.at) = v THEN [s EXCEPT !.found = TRUE, !.more = FALSE]
        ELSE [s EXCEPT !.at = Neighbor(map, s.at, "right")]
  IN Read(<<"ContainsValue", v>>,
          Repeat(seek, 1 + map.n,
                 [at |-> map.first, found |-> FALSE, more |-> TRUE]).found)

FirstEntry == Read(<<"FirstEntry">>, Entry(map, map.first))

LastEntry == Read(<<"LastEntry">>, Entry(map, map.last))

\* lower_entry, floor_entry, ceiling_entry and higher_entry.
NearestEntry(k, side, inclusive) ==
  Read(<<"NearestEntry", k, side, inclusive>>,
       Entry(map, Navigate(map, k, side, inclusive)))

Size == Read(<<"Size">>, map.n)

Fold(lower, upper) == Read(<<"Fold", lower, upper>>, FoldRange(map, lower, upper))

-----------------------------------------------------------------------------
(* Writing.                                                                *)

Present(k) == Found(map, k) # Nil

Old(k) == Payload(map, Found(map, k))

Assign(k, v) == map' = Exchange(map, Found(map, k), v)

Delete(k) == map' = RemoveId(map, Found(map, k))

\* A key that is absent.
PutNew(k, v) ==
  LET at == Search(map, k)
      new == Allocate(map, at.parent, k, v)
  IN \/ new.id = Nil /\ map' = new.t /\ answer' = <<"CapacityExceeded">>
     \/ new.id # Nil /\ map' = Enter(new.t, new.id, at) /\ answer' = <<"None">>

Store(k, v) ==
  \/ Present(k) /\ Assign(k, v) /\ answer' = Maybe(Old(k))
  \/ ~ Present(k) /\ PutNew(k, v)

Put(k, v) == call' = <<"Put", k, v>> /\ Store(k, v)

PutIfAbsent(k, v) ==
  /\ call' = <<"PutIfAbsent", k, v>>
  /\ \/ Present(k) /\ UNCHANGED map /\ answer' = Maybe(Old(k))
     \/ ~ Present(k) /\ PutNew(k, v)

Replace(k, v) == Reply(<<"Replace", k, v>>, Maybe(Old(k))) /\ Assign(k, v)

ReplaceIfEqual(k, expected, v) ==
  /\ Reply(<<"ReplaceIfEqual", k, expected, v>>, Old(k) = expected)
  /\ IF Old(k) = expected THEN Assign(k, v) ELSE UNCHANGED map

Remove(k) == Reply(<<"Remove", k>>, Maybe(Old(k))) /\ Delete(k)

RemoveIfEqual(k, expected) ==
  /\ Reply(<<"RemoveIfEqual", k, expected>>, Old(k) = expected)
  /\ IF Old(k) = expected THEN Delete(k) ELSE UNCHANGED map

PollFirst == Reply(<<"PollFirst">>, Entry(map, map.first)) /\ map' = RemoveId(map, map.first)

PollLast == Reply(<<"PollLast">>, Entry(map, map.last)) /\ map' = RemoveId(map, map.last)

ClearMap == Reply(<<"Clear">>, <<>>) /\ map' = Clear(map)

-----------------------------------------------------------------------------
MapInit ==
  /\ \E limit \in Limits : map = NewTree(IF limit < MaxLimit THEN limit ELSE MaxLimit)
  /\ call = <<"New">> /\ answer = <<>>

MapNext ==
  \/ \E k \in Key :
       \/ \E v \in ValuesOf[k] :
            \/ Put(k, v) \/ PutIfAbsent(k, v) \/ Replace(k, v)
            \/ \E expected \in Value : ReplaceIfEqual(k, expected, v)
       \/ \E expected \in Value : RemoveIfEqual(k, expected)
       \/ Remove(k) \/ Get(k) \/ ContainsKey(k)
       \/ \E side \in {"left", "right"}, inclusive \in BOOLEAN :
            NearestEntry(k, side, inclusive)
  \/ \E v \in Value : ContainsValue(v)
  \/ \E lower, upper \in Bounds : Fold(lower, upper)
  \/ FirstEntry \/ LastEntry \/ PollFirst \/ PollLast \/ ClearMap \/ Size

MapSpec == MapInit /\ [][MapNext]_mapVars

-----------------------------------------------------------------------------
(* Correctness.                                                            *)

(* The tree is a red-black search tree whose parent links agree with its   *)
(* child links, and first and last are its ends, after whatever the two    *)
(* repairs, the rotations and the move of a successor did (insert_fix_loop,*)
(* delete_fix_loop, rotate_left, move_successor, refresh_ends).            *)
RedBlack ==
  /\ LinksAgree(map) /\ KeysOrdered(map) /\ ColoursBalanced(map)
  /\ map.n > 0 => \A id \in Live(map) : /\ Node(map, map.first).key <= Node(map, id).key
                                        /\ Node(map, id).key <= Node(map, map.last).key

(* A slot holds a node with a payload, or is on the free chain, once, with *)
(* none; the two arrays have the same slots, so that a payload is refused  *)
(* only with its node (recycle, move_successor, append_values, clear).     *)
SlotsAccounted ==
  LET chain == FreeChain(map)
      free == { chain[k] : k \in DOMAIN chain }
      holding == { id \in Ids(map) : Payload(map, id) # NoValue }
  IN /\ Cardinality(Live(map)) = map.n /\ holding = Live(map)
     /\ free = Ids(map) \ Live(map)
     /\ map.free = Nil <=> free = {}
     /\ \A id \in free : NextFree(map, id) \in free \cup {Nil}
     /\ Len(map.nodes.slots) = Len(map.payloads.slots)
     /\ map.nodes.depth = map.payloads.depth

-----------------------------------------------------------------------------
(* Refinement.                                                             *)

\* The value of each key that has one.
Dictionary ==
  [k \in { Node(map, id).key : id \in Live(map) } |->
     Payload(map, CHOOSE id \in Ids(map) : map.nodes.slots[id].key = k)]

Sorted == INSTANCE SortedMap WITH dict <- Dictionary, room <- 2 ^ map.nodes.limit

(* The map is a finite function on ordered keys that holds as many as its  *)
(* limit allows: what is found, nearest, first, last, folded over or       *)
(* refused is what that function says, in every shape the tree took before *)
(* (search, navigate, walk, allocate, put, remove, poll_first_entry).      *)
ImplementsSortedMap == Sorted!SortedMapSpec
=============================================================================
