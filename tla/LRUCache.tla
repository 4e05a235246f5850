------------------------------ MODULE LRUCache ------------------------------
(***************************************************************************)
(* What the LRU cache promises: at most cap entries, in the order they     *)
(* were last written or read, of which the oldest gives way to a new one.  *)
(* An entry written under a lifetime expires; whatever call finds it       *)
(* expired removes it.                                                     *)
(***************************************************************************)
EXTENDS Integers, Sequences

CONSTANTS Key, Value,
          Times,      \* the readings of the clock, which the caller passes
          Lifetimes,  \* the lifetimes that may be set
          Capacities, \* the capacities that may be set
          Reserved,   \* the capacity that no new cache may have
          Wrap(_)     \* the sum of a reading and a lifetime, as a deadline

VARIABLES cap,      \* how many entries the cache may hold
          entries,  \* the entries, oldest first, each with its deadline
          lifetime, \* {} when entries do not expire, else {the lifetime}
          obs       \* the last call, its answer and the counters it bumped

vars == <<cap, entries, lifetime, obs>>

LRUCacheInit ==
  /\ cap \in Capacities \ {0, Reserved}
  /\ entries = <<>> /\ lifetime = {} /\ obs = <<"New">>

\* A deadline of 0 stands for none.
Expired(e, now) == \E d \in e.due : d # 0 /\ d <= now

\* The entries but the i-th.
Without(i) == SubSeq(entries, 1, i - 1) \o SubSeq(entries, i + 1, Len(entries))

Position(key) == { i \in DOMAIN entries : entries[i].key = key }

Answer(answer) == obs' = answer /\ UNCHANGED <<cap, lifetime>>

-----------------------------------------------------------------------------
\* add tells its caller whether an entry was evicted.
Add(key, x, now) ==
  LET e == [key |-> key, val |-> x, due |-> { Wrap(now + l) : l \in lifetime }]
  IN \/ /\ Answer(<<"Add", key, x, now, FALSE, {"inserts"}>>)
        /\ \/ \E i \in Position(key) :
                entries' = Append(Without(i), e)
           \/ /\ Position(key) = {} /\ Len(entries) < cap
              /\ entries' = Append(entries, e)
     \/ /\ Answer(<<"Add", key, x, now, TRUE, {"inserts", "evictions"}>>)
        /\ Position(key) = {} /\ Len(entries) >= cap
        /\ entries' = Append(Tail(entries), e)

\* A read that finds the entry of key expired removes it.
DropExpired(key, now) ==
  \E i \in Position(key) :
    Expired(entries[i], now) /\ entries' = Without(i)

\* get counts hits and misses and makes an entry the newest; peek does not.
Get(key, now) ==
  \/ /\ Answer(<<"Get", key, now, <<"None">>, {"misses"}>>)
     /\ Position(key) = {} /\ UNCHANGED entries
  \/ /\ Answer(<<"Get", key, now, <<"None">>, {"removals", "misses"}>>)
     /\ DropExpired(key, now)
  \/ \E i \in Position(key) :
       LET e == entries[i]
       IN /\ Answer(<<"Get", key, now, <<"Some", e.val>>, {"hits"}>>)
          /\ ~ Expired(e, now)
          /\ entries' = Append(Without(i), e)

Untracked(call, key, now, Found(_), none) ==
  \/ /\ Answer(<<call, key, now, none, {}>>)
     /\ Position(key) = {} /\ UNCHANGED entries
  \/ /\ Answer(<<call, key, now, none, {"removals"}>>)
     /\ DropExpired(key, now)
  \/ \E i \in Position(key) :
       /\ Answer(<<call, key, now, Found(entries[i]), {}>>)
       /\ ~ Expired(entries[i], now) /\ UNCHANGED entries

Peek(key, now) ==
  Untracked("Peek", key, now, LAMBDA e : <<"Some", e.val>>, <<"None">>)

Contains(key, now) == Untracked("Contains", key, now, LAMBDA e : TRUE, FALSE)

\* remove answers the value even of an expired entry.
Remove(key) ==
  \/ /\ Answer(<<"Remove", key, <<"None">>, {}>>)
     /\ Position(key) = {} /\ UNCHANGED entries
  \/ \E i \in Position(key) :
       /\ Answer(<<"Remove", key, <<"Some", entries[i].val>>, {"removals"}>>)
       /\ entries' = Without(i)

\* keys removes the oldest entries while they are expired.
Keys(now) ==
  \E k \in 0 .. Len(entries) :
    LET rest == SubSeq(entries, k + 1, Len(entries))
    IN /\ \A i \in 1 .. k : Expired(entries[i], now)
       /\ rest = <<>> \/ ~ Expired(rest[1], now)
       /\ entries' = rest
       /\ Answer(<<"Keys", now, [i \in DOMAIN rest |-> rest[i].key], k>>)

Resize(c) ==
  /\ UNCHANGED lifetime
  /\ \/ c = 0 /\ obs' = <<"Resize", c, <<"Fail">>>> /\ UNCHANGED <<cap, entries>>
     \/ LET over == IF Len(entries) > c THEN Len(entries) - c ELSE 0
        IN /\ c # 0
           /\ cap' = c
           /\ entries' = SubSeq(entries, over + 1, Len(entries))
           /\ obs' = <<"Resize", c, <<"Done", over>>>>

SetLifetime(l) ==
  lifetime' = l /\ obs' = <<"SetLifetime", l>> /\ UNCHANGED <<cap, entries>>

Purge == entries' = <<>> /\ Answer(<<"Purge", Len(entries)>>)

Size == Answer(<<"Len", Len(entries)>>) /\ UNCHANGED entries

LRUCacheNext ==
  \/ \E key \in Key, now \in Times :
       \/ \E x \in Value : Add(key, x, now)
       \/ Get(key, now) \/ Peek(key, now) \/ Contains(key, now)
  \/ \E key \in Key : Remove(key)
  \/ \E now \in Times : Keys(now)
  \/ \E c \in Capacities : Resize(c)
  \/ \E l \in Lifetimes : SetLifetime(l)
  \/ Purge
  \/ Size

LRUCacheSpec == LRUCacheInit /\ [][LRUCacheNext]_vars
=============================================================================
