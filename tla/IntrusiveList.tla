---------------------------- MODULE IntrusiveList ----------------------------
(***************************************************************************)
(* Intrusive doubly linked lists, src/containers/internal/                 *)
(* intrusive_list.bend, over the link table of intrusive_links.bend.  The  *)
(* nodes belong to the application; the library only writes their links,   *)
(* the heads of the lists (the roots) and the free stack of a pool.        *)
(*                                                                         *)
(* A traversal calls the application back at every node, and the callback  *)
(* may edit lists.  So a traversal is a state of its own, `visit', one     *)
(* action per iteration, and a callback is an edit chosen from `Edits'     *)
(* that obeys the documented contract: it leaves alone the nodes the       *)
(* traversal will follow.  A callback makes one edit at most.              *)
(***************************************************************************)
EXTENDS Naturals, FiniteSets, SequencesExt

LOCAL INSTANCE TLC

CONSTANTS Node, Root,
          None,      \* no node
          MaxBound   \* the largest step bound given to a traversal

ASSUME IntrusiveListAssumption ==
  IsFiniteSet(Node) /\ None \notin Node \cup Root /\ MaxBound \in Nat

VARIABLES world,  \* the links, the heads and the pool
          visit,  \* the traversal under way
          reply   \* the last call or iteration, and its answer

listsVars == <<world, visit, reply>>

-----------------------------------------------------------------------------
(* The links.                                                              *)

SetIf(links, at, x) == IF at = None THEN links ELSE [links EXCEPT ![at] = x]

\* Mutant: the node removed still points back.
RemovedHalf(w, r, n) ==
  LET after == w.nexts[n]
      before == w.prevs[n]
  IN [w EXCEPT !.prevs = SetIf(@, after, before),
               !.heads[r] = IF before = None THEN after ELSE @,
               !.nexts = [SetIf(@, before, after) EXCEPT ![n] = None]]

\* Node n leaves the list of root r.
Removed(w, r, n) ==
  LET after == w.nexts[n]
      before == w.prevs[n]
  IN [w EXCEPT !.prevs = [SetIf(@, after, before) EXCEPT ![n] = None],
               !.heads[r] = IF before = None THEN after ELSE @,
               !.nexts = [SetIf(@, before, after) EXCEPT ![n] = None]]

\* Node n, of no list, becomes the first of root r.
Prepended(w, r, n) ==
  [w EXCEPT !.nexts[n] = w.heads[r],
            !.prevs = SetIf(@, w.heads[r], n),
            !.heads[r] = n]

\* The nodes of s are linked in order; those of the first are not written.
AppendNode(w, tail, n) ==
  IF tail = None THEN w
  ELSE [w EXCEPT !.prevs[n] = tail, !.nexts = [@ EXCEPT ![n] = None, ![tail] = n]]

Built(w, s) ==
  LET built[k \in 0 .. Len(s)] ==
        IF k = 0 THEN w
        ELSE AppendNode(built[k - 1], IF k = 1 THEN None ELSE s[k - 1], s[k])
  IN built[Len(s)]

-----------------------------------------------------------------------------
(* The pool: a stack of nodes chained through their next links.            *)

PoolFreed(w, n) ==
  [w EXCEPT !.nexts[n] = w.pool.head,
            !.pool = [head |-> n, count |-> @.count + 1]]

\* Mutant: the count stays.
TakenUncounted(w) ==
  LET n == w.pool.head
  IN [w EXCEPT !.nexts[n] = None, !.pool.head = w.nexts[n]]

PoolTaken(w) ==
  LET n == w.pool.head
  IN [w EXCEPT !.nexts[n] = None,
               !.pool = [head |-> w.nexts[n], count |-> @.count - 1]]

\* A pool of the nodes of s, which the application made in that order.
PoolGrown(w, s) ==
  LET grown[k \in 1 .. Len(s)] ==
        IF k = 1 THEN [w EXCEPT !.pool = [head |-> s[1], count |-> 1]]
        ELSE PoolFreed(grown[k - 1], s[k])
  IN grown[Len(s)]

-----------------------------------------------------------------------------
(* Where the nodes are.                                                    *)

\* The nodes reached from n, as far as a sound chain could go.
Walk(links, n) ==
  LET walk[k \in 0 .. Cardinality(Node)] ==
        [m \in Node \cup {None} |->
           IF k = 0 \/ m = None THEN <<>> ELSE <<m>> \o walk[k - 1][links[m]]]
  IN walk[Cardinality(Node)][n]

Chain(w, r) == Walk(w.nexts, w.heads[r])

Nodes(s) == {s[k] : k \in DOMAIN s}

Free(w) == Walk(w.nexts, w.pool.head)

Detached(w) == Node \ (Nodes(Free(w)) \cup UNION {Nodes(Chain(w, r)) : r \in Root})

-----------------------------------------------------------------------------
(* The edits an application may make when nodes `keep' must stay.          *)

Edit(call, w) == [call |-> call, to |-> w]

\* A node of the pool, or when it is empty one the application makes.
PoolNext(w, keep) ==
  IF w.pool.head # None
  THEN {Edit(<<"pool_next", w.pool.head>>, PoolTaken(w))}
  ELSE {Edit(<<"pool_next", n>>, [w EXCEPT !.pool = [head |-> None, count |-> 0]]) :
          n \in Detached(w) \ keep}

Edits(w, keep) ==
  LET idle == Detached(w) \ keep
      members(r) == Nodes(Chain(w, r)) \ keep
  IN UNION
       { {Edit(<<"none">>, w)},
         {Edit(<<"prepend", r, n>>, Prepended(w, r, n)) : r \in Root, n \in idle},
         {Edit(<<"pool_free", n>>, PoolFreed(w, n)) : n \in idle},
         PoolNext(w, keep),
         UNION {{Edit(<<"remove", r, n>>, Removed(w, r, n)) : n \in members(r)} :
                  r \in Root},
         UNION {{Edit(<<"move", r, q, n>>, Prepended(Removed(w, r, n), q, n)) :
                   n \in members(r), q \in Root} : r \in Root} }

-----------------------------------------------------------------------------
(* Calls outside traversals.                                               *)

Idle == [op |-> "Idle", root |-> None, at |-> None, fuel |-> 0, head |-> None]

Call == visit = Idle /\ visit' = Idle

EditCall ==
  \E e \in Edits(world, {}) :
    Call /\ reply' = <<"Edit", e.call>> /\ world' = e.to

Made(s) == IsInjective(s) /\ Nodes(s) \subseteq Detached(world)

\* The builders leave it to the application to set the head of an empty root.
Build(r, s) ==
  /\ Call
  /\ Made(s) /\ world.heads[r] = None
  /\ reply' = <<"Build", r, s>>
  /\ world' = IF s = <<>> THEN world
              ELSE [Built(world, s) EXCEPT !.heads[r] = s[1]]

PoolNew(s) ==
  /\ Call
  /\ Made(s) /\ s # <<>> /\ world.pool.head = None
  /\ reply' = <<"PoolNew", s>>
  /\ world' = PoolGrown(world, s)

Query(r) ==
  LET head == world.heads[r]
  IN /\ Call
     /\ UNCHANGED world
     /\ reply' = <<"Query", head = None, head # None /\ world.nexts[head] # None>>

-----------------------------------------------------------------------------
(* The start of a traversal.                                               *)

Started(op, r, at, fuel, head) ==
  /\ visit = Idle
  /\ visit' = [op |-> op, root |-> r, at |-> at, fuel |-> fuel, head |-> head]
  /\ reply' = <<"Begin", op>>

Begin(op, r, fuel) ==
  Started(op, r, world.heads[r], fuel, None) /\ UNCHANGED world

Fits(r, fuel) == Len(Chain(world, r)) <= fuel

\* A first pass over the chain fails before anything is written.
Refused(op, r, fuel) ==
  /\ Call
  /\ ~ Fits(r, fuel)
  /\ reply' = <<"End", op, "LimitExceeded">>
  /\ UNCHANGED world

BeginMap(r, fuel) ==
  /\ Fits(r, fuel)
  /\ LET list == Chain(world, r)
     IN Started("Map", r, IF list = <<>> THEN None ELSE Last(list), fuel, None)
  /\ UNCHANGED world

BeginClear(r, fuel) ==
  LET head == world.heads[r]
  IN /\ Fits(r, fuel)
     /\ world' = [world EXCEPT !.heads[r] = None]
     /\ \/ head = None /\ Call /\ reply' = <<"Begin", "Clear">>
        \/ head # None /\ Started("Clear", r, world.nexts[head], fuel, head)

-----------------------------------------------------------------------------
(* One iteration of a traversal.                                           *)

Visiting(ops) == visit.op \in ops /\ visit.at # None /\ visit.fuel > 0

GoOn(op, at) == visit' = [visit EXCEPT !.op = op, !.at = at, !.fuel = @ - 1]

End(answer) == visit' = Idle /\ reply' = <<"End", visit.op, answer>>

\* The end of the list, or of the bound, is seen before the next iteration.
Finish ==
  /\ visit # Idle
  /\ UNCHANGED world
  /\ \/ visit.op # "Clear" /\ visit.at = None /\ End("Done")
     \/ /\ visit.op = "Clear" \/ visit.at # None
        /\ visit.fuel = 0
        /\ End("LimitExceeded")

\* Mutant: the link is read after the callback.
VisitEachLate ==
  /\ Visiting({"ForEach"})
  /\ \E e \in Edits(world, {world.nexts[visit.at]}) :
       /\ reply' = <<"ForEach", visit.at, e.call>>
       /\ world' = e.to
       /\ GoOn("ForEach", e.to.nexts[visit.at])

\* fold_left, foreach, length, last: the link is read before the callback.
VisitEach ==
  LET after == world.nexts[visit.at]
  IN /\ Visiting({"ForEach"})
     /\ \E e \in Edits(world, {after}) :
          /\ reply' = <<"ForEach", visit.at, e.call>>
          /\ world' = e.to
          /\ GoOn("ForEach", after)

\* Searches, count and map: the link is read after the callback.
VisitStaying ==
  /\ Visiting({"Find", "Count", "Map"})
  /\ \E e \in Edits(world, {visit.at}) :
       /\ reply' = <<visit.op, visit.at, e.call>>
       /\ world' = e.to
       /\ GoOn(visit.op, IF visit.op = "Map" THEN e.to.prevs[visit.at]
                                             ELSE e.to.nexts[visit.at])

\* The predicate accepts the node: find, exists, forall.
Hit ==
  /\ Visiting({"Find"})
  /\ \E e \in Edits(world, {visit.at}) :
       /\ reply' = <<"Found", visit.at, e.call>>
       /\ world' = e.to
       /\ visit' = Idle

\* Mutant: the node kept is visited again.
FilterKeptAgain(w) == w.heads[visit.root]

\* The traversal of the rest starts after the live head.
FilterKept(w) == w.nexts[w.heads[visit.root]]

\* Until a node is kept, the head is read again after each callback.
FilterPrefix ==
  /\ Visiting({"Prefix"})
  /\ \E e \in Edits(world, {}) :
       LET r == visit.root
           live == e.to.heads[r]
       IN \/ live = None /\ world' = e.to /\ End("InvalidTraversal")
          \/ /\ live # None
             /\ reply' = <<"Keep", visit.at, e.call>>
             /\ world' = e.to
             /\ GoOn("Tail", FilterKept(e.to))
          \/ /\ live # None
             /\ \E d \in Edits(Removed(e.to, r, live), {}) :
                  /\ reply' = <<"Drop", visit.at, e.call, live, d.call>>
                  /\ world' = d.to
                  /\ GoOn("Prefix", d.to.heads[r])

\* From then on, links are read before the callbacks.
FilterTail ==
  LET n == visit.at
      after == world.nexts[n]
  IN /\ Visiting({"Tail"})
     /\ \E e \in Edits(world, {after}) :
          \/ /\ reply' = <<"Keep", n, e.call>>
             /\ world' = e.to
             /\ GoOn("Tail", after)
          \/ e.to.prevs[n] = None /\ world' = e.to /\ End("InvalidTraversal")
          \/ /\ e.to.prevs[n] # None
             /\ \E d \in Edits(Removed(e.to, visit.root, n), {after}) :
                  /\ reply' = <<"Drop", n, e.call, n, d.call>>
                  /\ world' = d.to
                  /\ GoOn("Tail", after)

\* The nodes after the first one.
ClearRest ==
  LET n == visit.at
      rest == Walk(world.nexts, world.nexts[n])
      bare == [world EXCEPT !.nexts[n] = None, !.prevs[n] = None]
  IN /\ Visiting({"Clear"})
     /\ \E e \in Edits(bare, Nodes(rest) \cup {visit.head}) :
          /\ reply' = <<"Cleared", n, e.call>>
          /\ world' = e.to
          /\ GoOn("Clear", world.nexts[n])

\* The first one, last.
ClearFirst ==
  /\ visit.op = "Clear" /\ visit.at = None /\ visit.fuel > 0
  /\ \E e \in Edits([world EXCEPT !.nexts[visit.head] = None], {}) :
       /\ reply' = <<"Cleared", visit.head, e.call>>
       /\ world' = e.to
       /\ visit' = Idle

-----------------------------------------------------------------------------
ListsInit ==
  /\ world = [nexts |-> [n \in Node |-> None], prevs |-> [n \in Node |-> None],
              heads |-> [r \in Root |-> None],
              pool |-> [head |-> None, count |-> 0]]
  /\ visit = Idle
  /\ reply = <<"New">>

ListsNext ==
  \/ EditCall
  \/ \E s \in UNION {[1 .. k -> Node] : k \in 0 .. MaxBound} :
       PoolNew(s) \/ \E r \in Root : Build(r, s)
  \/ \E r \in Root :
       \/ Query(r)
       \/ \E fuel \in 0 .. MaxBound :
            \/ \E op \in {"ForEach", "Find", "Count", "Prefix"} : Begin(op, r, fuel)
            \/ \E op \in {"Map", "Clear"} : Refused(op, r, fuel)
            \/ BeginMap(r, fuel)
            \/ BeginClear(r, fuel)
  \/ Finish
  \/ VisitEach \/ VisitStaying \/ Hit
  \/ FilterPrefix \/ FilterTail
  \/ ClearRest \/ ClearFirst

ListsSpec == ListsInit /\ [][ListsNext]_listsVars

-----------------------------------------------------------------------------
(* Properties.                                                             *)

\* The nodes a traversal has yet to see, in its order.
Todo ==
  CASE visit.op = "Map" -> Walk(world.prevs, visit.at)
    [] visit.op = "Clear" -> Walk(world.nexts, visit.at) \o <<visit.head>>
    [] OTHER -> Walk(world.nexts, visit.at)

\* The nodes a clear under way has yet to detach.
Limbo == IF visit.op = "Clear" THEN Nodes(Todo) ELSE {}

\* Whatever callbacks edit while lists are traversed, filtered and cleared,
\* outside the part a clear has yet to detach the two links of any two
\* neighbours agree, a first node has none before it, a detached node has
\* neither link, and no node is in two places.
LinksAgree ==
  LET chains == {Nodes(Chain(world, r)) : r \in Root}
                  \cup {Nodes(Free(world)), Limbo}
      free == Nodes(Free(world))
  IN /\ \A n \in Node \ (Limbo \cup free) :
          LET p == world.prevs[n]
              q == world.nexts[n]
          IN /\ p # None => world.nexts[p] = n
             /\ q # None => world.prevs[q] = n
     /\ \A r \in Root : world.heads[r] # None => world.prevs[world.heads[r]] = None
     /\ \A n \in Detached(world) \ Limbo :
          world.prevs[n] = None /\ world.nexts[n] = None
     /\ \A n \in free : world.prevs[n] = None
     /\ \A c, d \in chains : c = d \/ c \cap d = {}

\* The count of the pool is the length of its chain, whoever freed and took.
PoolIsCounted == world.pool.count = Len(Free(world))

\* The calls that put a node into the list of root r.
AddsTo(r) ==
  {<<"prepend", r, n>> : n \in Node} \cup {<<"move", q, r, n>> : q \in Root, n \in Node}

\* While callbacks put no node into the list visited, a step bound that covers
\* the nodes left to see goes on covering them: the traversal will not fail,
\* whatever else they remove, move and recycle.
BoundGoesOnSufficing ==
  [][/\ visit.op \notin {"Idle", "Clear"} /\ visit'.op # "Idle"
     /\ Len(Todo) <= visit.fuel
     /\ \A k \in {3, 5} \cap DOMAIN reply' : reply'[k] \notin AddsTo(visit.root)
     => Len(Todo') <= visit'.fuel]_listsVars

\* The nodes of every root and of the pool.
Grouped == [list |-> [r \in Root |-> Chain(world, r)], pool |-> Free(world)]

\* The traversal, with the nodes it has yet to see.
Visited ==
  IF visit = Idle THEN [op |-> "Idle", todo |-> <<>>]
  ELSE [op |-> visit.op, root |-> visit.root, fuel |-> visit.fuel, todo |-> Todo]

\* Traversals and the edits of their callbacks do what edits on sequences
\* would: each node is visited once and in order, and a filter fails only
\* where its list was changed under it.
Groups == INSTANCE NodeGroups WITH
  obs <- reply, groups <- Grouped, visit <- Visited

ImplementsGroups == Groups!GroupsSpec

-----------------------------------------------------------------------------
(* For the runs.                                                           *)

\* Neither the nodes nor the roots are told apart.
NodeSymmetry == Permutations(Node) \cup Permutations(Root)

\* The state without the last answer, on which no action depends.
ListsState == <<world, visit>>
=============================================================================
