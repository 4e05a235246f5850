------------------------------ MODULE SortedMap ------------------------------
(***************************************************************************)
(* What the tree map promises: a finite function on ordered keys, with     *)
(* room for so many.                                                       *)
(***************************************************************************)
EXTENDS Integers, Sequences, FiniteSets

CONSTANTS Key, Value, NoValue, ValuesOf, Bounds

VARIABLES dict,  \* the value of each key that has one
          room,  \* how many keys there may be
          call,  \* the last call
          answer \* and its answer

Held == DOMAIN dict

Leave(ks) == [k \in Held \ ks |-> dict[k]]

Set(k, v) == [j \in Held \cup {k} |-> IF j = k THEN v ELSE dict[j]]

ValueAt(k) == IF k \in Held THEN <<"Some", dict[k]>> ELSE <<"None">>

EntryAt(ks, Best(_, _)) ==
  IF ks = {} THEN <<"None">>
  ELSE LET k == CHOOSE j \in ks : \A i \in ks : Best(j, i) IN <<"Some", k, dict[k]>>

Least(ks) == EntryAt(ks, LAMBDA j, i : j <= i)
Greatest(ks) == EntryAt(ks, LAMBDA j, i : j >= i)

\* The keys between two bounds.
Within(lower, upper) ==
  { k \in Held : /\ lower.kind = "Inclusive" => lower.key <= k
                 /\ lower.kind = "Exclusive" => lower.key < k
                 /\ upper.kind = "Inclusive" => k <= upper.key
                 /\ upper.kind = "Exclusive" => k < upper.key }

\* The entries of some keys in their order.
Items(ks) ==
  [i \in 1 .. Cardinality(ks) |->
     LET k == CHOOSE j \in ks : Cardinality({ h \in ks : h < j }) = i - 1
     IN <<k, dict[k]>>]

SortedMapInit == dict = << >> /\ room \in Nat \ {0} /\ call = <<"New">> /\ answer = <<>>

-----------------------------------------------------------------------------
Reading ==
  /\ \/ \E k \in Key :
          \/ call' = <<"Get", k>> /\ answer' = ValueAt(k)
          \/ call' = <<"ContainsKey", k>> /\ answer' = (k \in Held)
          \/ \E inclusive \in BOOLEAN :
               LET own == IF inclusive THEN Held \cap {k} ELSE {}
               IN \/ /\ call' = <<"NearestEntry", k, "left", inclusive>>
                     /\ answer' = Greatest({ j \in Held : j < k } \cup own)
                  \/ /\ call' = <<"NearestEntry", k, "right", inclusive>>
                     /\ answer' = Least({ j \in Held : j > k } \cup own)
     \/ \E v \in Value : /\ call' = <<"ContainsValue", v>>
                         /\ answer' = \E k \in Held : dict[k] = v
     \/ \E lower, upper \in Bounds : /\ call' = <<"Fold", lower, upper>>
                                     /\ answer' = Items(Within(lower, upper))
     \/ call' = <<"FirstEntry">> /\ answer' = Least(Held)
     \/ call' = <<"LastEntry">> /\ answer' = Greatest(Held)
     \/ call' = <<"Size">> /\ answer' = Cardinality(Held)
  /\ UNCHANGED <<dict, room>>

\* A key that is absent is refused when there are as many as there is room for.
Putting(k, v) ==
  /\ call' \in { <<"Put", k, v>>, <<"PutIfAbsent", k, v>> }
  /\ UNCHANGED room
  /\ \/ /\ k \in Held /\ answer' = ValueAt(k)
        /\ dict' = IF call' = <<"Put", k, v>> THEN Set(k, v) ELSE dict
     \/ /\ k \notin Held /\ Cardinality(Held) < room
        /\ answer' = <<"None">> /\ dict' = Set(k, v)
     \/ /\ k \notin Held /\ Cardinality(Held) = room
        /\ answer' = <<"CapacityExceeded">> /\ UNCHANGED dict

Replacing(k, v) ==
  /\ UNCHANGED room
  /\ \/ /\ call' = <<"Replace", k, v>> /\ answer' = ValueAt(k)
        /\ dict' = IF k \in Held THEN Set(k, v) ELSE dict
     \/ \E expected \in Value :
          /\ call' = <<"ReplaceIfEqual", k, expected, v>>
          /\ answer' = (ValueAt(k) = <<"Some", expected>>)
          /\ dict' = IF answer' THEN Set(k, v) ELSE dict

Removing ==
  /\ UNCHANGED room
  /\ \/ \E k \in Key :
          \/ /\ call' = <<"Remove", k>> /\ answer' = ValueAt(k)
             /\ dict' = Leave({k})
          \/ \E expected \in Value :
               /\ call' = <<"RemoveIfEqual", k, expected>>
               /\ answer' = (ValueAt(k) = <<"Some", expected>>)
               /\ dict' = IF answer' THEN Leave({k}) ELSE dict
     \/ /\ call' = <<"PollFirst">> /\ answer' = Least(Held)
        /\ dict' = Leave({ k \in Held : \A j \in Held : k <= j })
     \/ /\ call' = <<"PollLast">> /\ answer' = Greatest(Held)
        /\ dict' = Leave({ k \in Held : \A j \in Held : k >= j })
     \/ call' = <<"Clear">> /\ answer' = <<>> /\ dict' = << >>

SortedMapNext ==
  \/ Reading
  \/ Removing
  \/ \E k \in Key : \E v \in ValuesOf[k] : Putting(k, v) \/ Replacing(k, v)

SortedMapSpec == SortedMapInit /\ [][SortedMapNext]_<<dict, room, call, answer>>
=============================================================================
