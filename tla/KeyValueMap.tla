----------------------------- MODULE KeyValueMap -----------------------------
(***************************************************************************)
(* What the hash map promises: a finite function from keys to values.      *)
(***************************************************************************)
EXTENDS Naturals, FiniteSets, Functions

CONSTANTS Key, Value

VARIABLES map,  \* the value of each key that has one
          obs   \* the last call and what it returned

KeyValueMapInit == map = << >> /\ obs = <<"New">>

With(k, x) == [j \in DOMAIN map \cup {k} |-> IF j = k THEN x ELSE map[j]]

Without(k) == Restrict(map, DOMAIN map \ {k})

ValueAt(k) == IF k \in DOMAIN map THEN <<"Some", map[k]>> ELSE <<"None">>

Put(k, x) == obs' = <<"Set", k, x>> /\ map' = With(k, x)

Take(k) == /\ obs' = <<"Pop", k, ValueAt(k)>> \/ obs' = <<"Del", k>>
           /\ map' = Without(k)

LookUp(k) == /\ \/ obs' = <<"Get", k, ValueAt(k)>>
                \/ obs' = <<"Has", k, k \in DOMAIN map>>
             /\ UNCHANGED map

CountKeys == obs' = <<"Size", Cardinality(DOMAIN map)>> /\ UNCHANGED map

\* keys answers every key once, in an order of the map's own.
ListKeys == /\ \E order \in Bijection(1 .. Cardinality(DOMAIN map), DOMAIN map) :
                 obs' = <<"Keys", order>>
            /\ UNCHANGED map

KeyValueMapNext ==
  \/ \E k \in Key, x \in Value : Put(k, x)
  \/ \E k \in Key : Take(k) \/ LookUp(k)
  \/ CountKeys
  \/ ListKeys

KeyValueMapSpec == KeyValueMapInit /\ [][KeyValueMapNext]_<<map, obs>>
=============================================================================
