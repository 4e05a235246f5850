----------------------------- MODULE NodeGroups -----------------------------
(***************************************************************************)
(* What intrusive lists promise: nodes that belong to the application are  *)
(* grouped into sequences, one per root, a node in one sequence at most;   *)
(* nodes put aside are in a pool, last in first out.  A visit goes over    *)
(* the nodes of one root, and each node visited may lead to one more edit. *)
(***************************************************************************)
EXTENDS Naturals, SequencesExt

CONSTANTS Node, Root, MaxBound

VARIABLES groups,  \* the sequence of each root and the pool
          visit,   \* the visit under way, with the nodes it has yet to see
          obs      \* the last call or visit, and its answer

vars == <<groups, visit, obs>>

Idle == [op |-> "Idle", todo |-> <<>>]

-----------------------------------------------------------------------------
(* Sequences of distinct nodes.                                            *)

Nodes(s) == {s[k] : k \in DOMAIN s}

First(s) == {s[k] : k \in DOMAIN s \cap {1}}

NonFirst(s) == {s[k] : k \in 2 .. Len(s)}

IndexIn(s, n) == CHOOSE k \in DOMAIN s : s[k] = n

Without(s, n) == RemoveAt(s, IndexIn(s, n))

After(s, n) == SubSeq(s, IndexIn(s, n) + 1, Len(s))

Before(s, n) == SubSeq(s, 1, IndexIn(s, n) - 1)

\* The part of s that starts where t does.
From(s, t) == IF t = <<>> THEN <<>> ELSE <<t[1]>> \o After(s, t[1])

-----------------------------------------------------------------------------
(* Edits, of nodes that are not kept by a visit.                           *)

Grouped(g) == Nodes(g.pool) \cup UNION {Nodes(g.list[r]) : r \in Root}

Detached(g) == Node \ Grouped(g)

Prepended(g, r, n) == [g EXCEPT !.list[r] = <<n>> \o @]

Removed(g, r, n) == [g EXCEPT !.list[r] = Without(@, n)]

Edit(call, g) == [call |-> call, to |-> g]

Edits(g, keep) ==
  UNION
    { {Edit(<<"none">>, g)},
      {Edit(<<"prepend", r, n>>, Prepended(g, r, n)) :
          r \in Root, n \in Detached(g) \ keep},
      {Edit(<<"pool_free", n>>, [g EXCEPT !.pool = <<n>> \o @]) :
          n \in Detached(g) \ keep},
      IF g.pool = <<>>
      THEN {Edit(<<"pool_next", n>>, g) : n \in Detached(g) \ keep}
      ELSE {Edit(<<"pool_next", g.pool[1]>>, [g EXCEPT !.pool = Tail(@)])},
      UNION {{Edit(<<"remove", r, n>>, Removed(g, r, n)) :
                n \in Nodes(g.list[r]) \ keep} : r \in Root},
      UNION {{Edit(<<"move", r, q, n>>, Prepended(Removed(g, r, n), q, n)) :
                n \in Nodes(g.list[r]) \ keep, q \in Root} : r \in Root} }

-----------------------------------------------------------------------------
(* Calls outside visits.                                                   *)

Call == visit = Idle /\ visit' = Idle

EditCall ==
  \E e \in Edits(groups, {}) :
    Call /\ obs' = <<"Edit", e.call>> /\ groups' = e.to

\* Distinct nodes become the list of a root that was empty.
Build(r, s) ==
  /\ Call
  /\ obs' = <<"Build", r, s>>
  /\ IsInjective(s) /\ Nodes(s) \subseteq Detached(groups)
  /\ groups.list[r] = <<>>
  /\ groups' = [groups EXCEPT !.list[r] = s]

\* The last node made is the first taken.
NewPool(s) ==
  /\ Call
  /\ obs' = <<"PoolNew", s>>
  /\ s # <<>> /\ IsInjective(s) /\ Nodes(s) \subseteq Detached(groups)
  /\ groups.pool = <<>>
  /\ groups' = [groups EXCEPT !.pool = Reverse(s)]

Query(r) ==
  /\ Call
  /\ UNCHANGED groups
  /\ obs' = <<"Query", groups.list[r] = <<>>, Len(groups.list[r]) >= 2>>

-----------------------------------------------------------------------------
(* Visits.                                                                 *)

Begin(op, r, fuel) ==
  /\ visit = Idle
  /\ visit' = [op |-> op, root |-> r, fuel |-> fuel, todo |-> groups.list[r]]
  /\ obs' = <<"Begin", op>>
  /\ UNCHANGED groups

Refused(op, r, fuel) ==
  /\ Call
  /\ Len(groups.list[r]) > fuel
  /\ obs' = <<"End", op, "LimitExceeded">>
  /\ UNCHANGED groups

\* A map sees the last node first.
BeginMap(r, fuel) ==
  /\ visit = Idle
  /\ Len(groups.list[r]) <= fuel
  /\ visit' = [op |-> "Map", root |-> r, fuel |-> fuel,
               todo |-> Reverse(groups.list[r])]
  /\ obs' = <<"Begin", "Map">>
  /\ UNCHANGED groups

\* Clear sees the first node last, and the root is empty meanwhile.
BeginClear(r, fuel) ==
  LET list == groups.list[r]
  IN /\ visit = Idle
     /\ Len(list) <= fuel
     /\ visit' = IF list = <<>> THEN Idle
                 ELSE [op |-> "Clear", root |-> r, fuel |-> fuel,
                       todo |-> Tail(list) \o <<Head(list)>>]
     /\ obs' = <<"Begin", "Clear">>
     /\ groups' = [groups EXCEPT !.list[r] = <<>>]

End(answer) == visit' = Idle /\ obs' = <<"End", visit.op, answer>>

Finish ==
  /\ visit # Idle
  /\ UNCHANGED groups
  /\ \/ visit.todo = <<>> /\ End("Done")
     \/ /\ visit.todo # <<>> /\ visit.fuel = 0
        /\ visit.op # "Clear"
        /\ End("LimitExceeded")

GoOn(op, todo) ==
  visit' = [visit EXCEPT !.op = op, !.fuel = @ - 1, !.todo = todo]

Visiting(ops) ==
  visit # Idle /\ visit.op \in ops /\ visit.todo # <<>> /\ visit.fuel > 0

Seen == visit.todo[1]

Rest == Tail(visit.todo)

\* The node after the one seen must stay, and the visit goes on from there.
VisitEach ==
  /\ Visiting({"ForEach"})
  /\ \E e \in Edits(groups, First(Rest)) :
       /\ obs' = <<"ForEach", Seen, e.call>>
       /\ groups' = e.to
       /\ GoOn("ForEach", From(e.to.list[visit.root], Rest))

\* The node seen must stay; where the visit goes on is found out afterwards.
VisitStaying ==
  /\ Visiting({"Find", "Count", "Map"})
  /\ \E e \in Edits(groups, {Seen}) :
       LET list == e.to.list[visit.root]
       IN /\ obs' = <<visit.op, Seen, e.call>>
          /\ groups' = e.to
          /\ GoOn(visit.op, IF visit.op = "Map" THEN Reverse(Before(list, Seen))
                                                ELSE After(list, Seen))

Hit ==
  /\ Visiting({"Find"})
  /\ \E e \in Edits(groups, {Seen}) :
       obs' = <<"Found", Seen, e.call>> /\ groups' = e.to /\ visit' = Idle

\* Until a node is kept the filter looks at whichever is first by now.
FilterFirst ==
  /\ Visiting({"Prefix"})
  /\ \E e \in Edits(groups, {}) :
       LET r == visit.root
           list == e.to.list[r]
       IN \/ list = <<>> /\ groups' = e.to /\ End("InvalidTraversal")
          \/ /\ list # <<>>
             /\ obs' = <<"Keep", Seen, e.call>>
             /\ groups' = e.to
             /\ GoOn("Tail", Tail(list))
          \/ /\ list # <<>>
             /\ \E d \in Edits(Removed(e.to, r, Head(list)), {}) :
                  /\ obs' = <<"Drop", Seen, e.call, Head(list), d.call>>
                  /\ groups' = d.to
                  /\ GoOn("Prefix", d.to.list[r])

\* A node to be dropped must by then have another before it.
FilterRest ==
  /\ Visiting({"Tail"})
  /\ LET next == First(Rest)
         r == visit.root
     IN \E e \in Edits(groups, next) :
          \/ /\ obs' = <<"Keep", Seen, e.call>>
             /\ groups' = e.to
             /\ GoOn("Tail", From(e.to.list[r], Rest))
          \/ /\ Seen \in NonFirst(e.to.list[r])
             /\ \E d \in Edits(Removed(e.to, r, Seen), next) :
                  /\ obs' = <<"Drop", Seen, e.call, Seen, d.call>>
                  /\ groups' = d.to
                  /\ GoOn("Tail", From(d.to.list[r], Rest))
          \/ /\ Seen \notin NonFirst(e.to.list[r])
             /\ groups' = e.to
             /\ End("InvalidTraversal")

\* The nodes not yet seen stay out of every group.
VisitCleared ==
  /\ Visiting({"Clear"})
  /\ \E e \in Edits(groups, Nodes(Rest)) :
       /\ obs' = <<"Cleared", Seen, e.call>>
       /\ groups' = e.to
       /\ IF Rest = <<>> THEN visit' = Idle ELSE GoOn("Clear", Rest)

-----------------------------------------------------------------------------
GroupsInit ==
  /\ groups = [list |-> [r \in Root |-> <<>>], pool |-> <<>>]
  /\ visit = Idle
  /\ obs = <<"New">>

GroupsNext ==
  \/ EditCall
  \/ \E s \in UNION {[1 .. k -> Node] : k \in 0 .. MaxBound} :
       NewPool(s) \/ \E r \in Root : Build(r, s)
  \/ \E r \in Root :
       \/ Query(r)
       \/ \E fuel \in 0 .. MaxBound :
            \/ \E op \in {"ForEach", "Find", "Count", "Prefix"} :
                 Begin(op, r, fuel)
            \/ \E op \in {"Map", "Clear"} : Refused(op, r, fuel)
            \/ BeginMap(r, fuel)
            \/ BeginClear(r, fuel)
  \/ Finish
  \/ VisitEach \/ VisitStaying \/ Hit
  \/ FilterFirst \/ FilterRest \/ VisitCleared

GroupsSpec == GroupsInit /\ [][GroupsNext]_vars
=============================================================================
