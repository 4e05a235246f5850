----------------------------- MODULE TreeCursor -----------------------------
(***************************************************************************)
(* Views and cursors of the tree map,                                      *)
(* src/containers/balanced_search_tree.bend.  A view owns the map whose    *)
(* keys within two bounds it shows, ascending or descending; a cursor owns *)
(* the map it iterates over.  Each gives the map back when it is done, so  *)
(* the map is used directly, through a view or through a cursor.           *)
(* head_map and tail_map are sub_map with a side unbounded; view_iterator  *)
(* of an unbounded view is iterator or descending_iterator.                *)
(***************************************************************************)
EXTENDS TreeMap

VARIABLES holder,        \* who has the map: "map" if nobody else
          lower, upper,  \* the bounds of the view or cursor
          forward,       \* whether it ascends
          cursor         \* the nodes the cursor yields next and yielded last

held == <<holder, lower, upper, forward, cursor>>

vars == <<map, call, answer, held>>

NoCursor == [next |-> Nil, current |-> Nil]

Towards(up) == IF up THEN "right" ELSE "left"

-----------------------------------------------------------------------------
(* Views.                                                                  *)

\* The first node within the bounds in a direction, if there is any.
RangeStart(up) ==
  LET bound == IF up THEN lower ELSE upper
  IN IF bound = Unbounded THEN IF up THEN map.first ELSE map.last
     ELSE Navigate(map, bound.key, Towards(up), bound.kind = "Inclusive")

\* Mutant: what is beyond the other bound is shown.
ShownAnyway(id) == Entry(map, id)

\* The entry of a node that the view shows.
Shown(id) ==
  IF IsNode(map, id) /\ InRange(Node(map, id).key, lower, upper)
  THEN Entry(map, id) ELSE <<"None">>

\* The bounds of a view, or the map back if they are crossed.
SubMap(lo, hi) ==
  /\ holder = "map" /\ UNCHANGED <<map, cursor, forward>>
  /\ call' = <<"SubMap", lo, hi>>
  /\ IF BoundsValid(lo, hi)
     THEN holder' = "view" /\ lower' = lo /\ upper' = hi /\ answer' = <<"Done">>
     ELSE UNCHANGED <<holder, lower, upper>> /\ answer' = <<"InvalidBounds">>

DescendingMap ==
  /\ holder = "map" /\ holder' = "view" /\ forward' = FALSE
  /\ Read(<<"DescendingMap">>, <<>>) /\ UNCHANGED <<lower, upper, cursor>>

\* The map is given back by a view or by a cursor.
Finish ==
  /\ holder # "map"
  /\ holder' = "map" /\ lower' = Unbounded /\ upper' = Unbounded /\ forward' = TRUE
  /\ cursor' = NoCursor
  /\ Read(<<"Finish">>, <<>>)

ViewReverse ==
  /\ holder = "view" /\ forward' = ~ forward
  /\ Read(<<"ViewReverse">>, <<>>) /\ UNCHANGED <<holder, lower, upper, cursor>>

InView == holder = "view" /\ UNCHANGED held

ViewGet(k) ==
  /\ InView
  /\ Read(<<"ViewGet", k>>, IF InRange(k, lower, upper) THEN Maybe(Old(k)) ELSE <<"None">>)

ViewPut(k, v) ==
  /\ InView /\ call' = <<"ViewPut", k, v>>
  /\ \/ InRange(k, lower, upper) /\ Store(k, v)
     \/ ~ InRange(k, lower, upper) /\ UNCHANGED map /\ answer' = <<"OutOfRange">>

ViewRemove(k) ==
  /\ InView /\ call' = <<"ViewRemove", k>>
  /\ \/ InRange(k, lower, upper) /\ Delete(k) /\ answer' = Maybe(Old(k))
     \/ ~ InRange(k, lower, upper) /\ UNCHANGED map /\ answer' = <<"None">>

\* view_first_entry and view_last_entry, in the direction of the view.
ViewEnd(first) ==
  InView /\ Read(<<"ViewEnd", first>>, Shown(RangeStart(first = forward)))

\* view_lower_entry, view_floor_entry, view_ceiling_entry, view_higher_entry.
ViewNearest(k, higher, inclusive) ==
  LET up == higher = forward
      within == IF up THEN AboveLower(k, lower) ELSE BelowUpper(k, upper)
  IN /\ InView
     /\ Read(<<"ViewNearest", k, higher, inclusive>>,
             Shown(IF within THEN Navigate(map, k, Towards(up), inclusive)
                   ELSE RangeStart(up)))

-----------------------------------------------------------------------------
(* Cursors.                                                                *)

\* The entry at next, unless it is beyond the range, and the cursor past it.
Advance(t, c) ==
  IF IsNode(t, c.next) /\ InRange(Node(t, c.next).key, lower, upper)
  THEN [next |-> Neighbor(t, c.next, Towards(forward)), current |-> c.next]
  ELSE [next |-> Nil, current |-> c.current]

Yielded(t, c) == IF Advance(t, c).current = c.next THEN Entry(t, c.next) ELSE <<"None">>

\* Mutant: the removal is taken to leave the next entry in its slot.
NextByLink(t, c) == c.next

\* Where the entry that was next is after the removal of the current one,
\* which may have moved it into another slot.
NextSought(t, c) ==
  LET key == Node(t, c.next).key
  IN IF key = NoKey THEN Nil ELSE Search(RemoveId(t, c.current), key).found

Dropped(t, c) == [next |-> NextSought(t, c), current |-> Nil]

StartCursor ==
  /\ holder = "view" /\ holder' = "cursor"
  /\ cursor' = [next |-> RangeStart(forward), current |-> Nil]
  /\ Read(<<"StartCursor">>, <<>>) /\ UNCHANGED <<lower, upper, forward>>

InCursor == holder = "cursor" /\ UNCHANGED <<holder, lower, upper, forward>>

HasNext ==
  /\ InCursor /\ UNCHANGED cursor
  /\ Read(<<"HasNext">>, Shown(cursor.next) # <<"None">>)

NextEntry ==
  /\ InCursor /\ cursor' = Advance(map, cursor)
  /\ Read(<<"NextEntry">>, Yielded(map, cursor))

SetValue(v) ==
  LET old == Payload(map, cursor.current)
  IN /\ InCursor /\ UNCHANGED cursor
     /\ Reply(<<"SetValue", v>>, IF old = NoValue THEN <<"NoCurrent">> ELSE <<"Done", old>>)
     /\ map' = Exchange(map, cursor.current, v)

RemoveCurrent ==
  /\ InCursor /\ cursor' = Dropped(map, cursor)
  /\ map' = RemoveId(map, cursor.current)
  /\ Reply(<<"RemoveCurrent">>, Maybe(Payload(map, cursor.current)))

IteratorView ==
  /\ holder = "cursor" /\ holder' = "view" /\ cursor' = NoCursor
  /\ Read(<<"IteratorView">>, <<>>) /\ UNCHANGED <<lower, upper, forward>>

\* A cursor goes over the view, and counts or removes what it yields.
GoOver(Step(_)) ==
  Repeat(Step, 1 + map.n, [t |-> map, c |-> [next |-> RangeStart(forward), current |-> Nil],
                           count |-> 0, more |-> TRUE])

ViewSize ==
  LET count(s) ==
        LET yields == Yielded(s.t, s.c) # <<"None">>
        IN [s EXCEPT !.c = Advance(s.t, s.c), !.more = yields,
                     !.count = IF yields THEN @ + 1 ELSE @]
  IN InView /\ Read(<<"ViewSize">>, GoOver(count).count)

ViewClear ==
  LET clear(s) ==
        LET c == Advance(s.t, s.c)
        IN IF Yielded(s.t, s.c) = <<"None">> THEN [s EXCEPT !.more = FALSE]
           ELSE [s EXCEPT !.t = RemoveId(s.t, c.current), !.c = Dropped(s.t, c)]
  IN InView /\ Reply(<<"ViewClear">>, <<>>) /\ map' = GoOver(clear).t

-----------------------------------------------------------------------------
Init ==
  /\ MapInit
  /\ holder = "map" /\ lower = Unbounded /\ upper = Unbounded /\ forward = TRUE
  /\ cursor = NoCursor

CurrentValues ==
  LET k == Node(map, cursor.current).key IN IF k = NoKey THEN Value ELSE ValuesOf[k]

Next ==
  \/ holder = "map" /\ MapNext /\ UNCHANGED held
  \/ \E lo, hi \in Bounds : SubMap(lo, hi)
  \/ \E k \in Key : ViewGet(k) \/ ViewRemove(k) \/ \E v \in ValuesOf[k] : ViewPut(k, v)
  \/ \E first \in BOOLEAN : ViewEnd(first)
  \/ \E k \in Key, higher, inclusive \in BOOLEAN : ViewNearest(k, higher, inclusive)
  \/ DescendingMap \/ ViewReverse \/ ViewSize \/ ViewClear \/ Finish
  \/ StartCursor \/ HasNext \/ NextEntry \/ RemoveCurrent \/ IteratorView
  \/ \E v \in CurrentValues : SetValue(v)

Spec == Init /\ [][Next]_vars

-----------------------------------------------------------------------------
(* Correctness.                                                            *)

(* A cursor's next and current are none or nodes of the tree, and next is  *)
(* the neighbour of current, though a removal frees the slot of another    *)
(* node than the current one (iterator_delete, iterator_relocated).        *)
CursorStandsOnEntries ==
  /\ {cursor.next, cursor.current} \subseteq Live(map) \cup {Nil}
  /\ (cursor.next # Nil /\ cursor.current # Nil) =>
       cursor.next = Neighbor(map, cursor.current, Towards(forward))

-----------------------------------------------------------------------------
(* Refinement.                                                             *)

\* The keys the cursor has yet to yield.
Todo ==
  LET at == Node(map, cursor.next).key
  IN IF at = NoKey THEN {}
     ELSE { k \in DOMAIN Dictionary :
              /\ InRange(k, lower, upper)
              /\ IF forward THEN at <= k ELSE k <= at }

Range == INSTANCE SortedRange WITH dict <- Dictionary, room <- 2 ^ map.nodes.limit,
                                   todo <- Todo, current <- Node(map, cursor.current).key

(* A view shows the entries within its bounds and no others, and a cursor  *)
(* yields each of them once, in its direction, whatever was written        *)
(* through it (view_nav, view_clear, iterator_next, iterator_remove).      *)
ImplementsSortedRange == Range!SortedRangeSpec

-----------------------------------------------------------------------------
(* For the runs: a cursor over so many keys that a removal moves the entry *)
(* that it is to yield next, with bounds at, between and beyond the keys;  *)
(* and the map alone, with enough keys for every case of the two repairs.  *)

OneValue == CHOOSE v \in Value : TRUE

\* Two values under one key, so that those compared may differ.
CursorValues == [k \in Key |-> IF k = 2 THEN Value ELSE {OneValue}]

MapValues == [k \in Key |-> IF k = 3 THEN Value ELSE {OneValue}]

NearBounds == { Unbounded, Inclusive(2), Exclusive(2), Inclusive(4), Exclusive(4) }

\* The map never handed to a view or a cursor.
MapAloneSpec == Init /\ [][MapNext /\ UNCHANGED held]_vars

\* The state without the last answer, on which no action depends.
State == << NamedTree(map), holder, lower, upper, forward,
            LinkNames(map)[cursor.next], LinkNames(map)[cursor.current] >>
=============================================================================
