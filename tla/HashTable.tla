------------------------------ MODULE HashTable ------------------------------
(***************************************************************************)
(* The String-keyed hash map, src/containers/hash_table.bend: a bucket     *)
(* table (ProbeTable) over an arena of slots that hold a key and a value   *)
(* each, with a stack of the slots that removals freed.  The operations on *)
(* a one-character key given by its code (set_char, get_char, has_char,    *)
(* pop_char) are those on that key; td and sd, the logarithms of the sizes *)
(* of the table and the arena, are left out.                               *)
(***************************************************************************)
EXTENDS ProbeTable, FiniteSets, Functions

LOCAL INSTANCE TLC

VARIABLES n,      \* how many keys the map holds
          mask,   \* the number of buckets, less 1
          tab,    \* the buckets
          fresh,  \* the slots ever taken are those below fresh
          ssz,    \* the number of slots of the arena
          free,   \* the link of the slot on top of the free stack, or Nil
          ks,     \* the string stored in each slot
          vs,     \* the value in each slot
          nx,     \* the link below each slot of the free stack
          obs     \* the last call and what it returned

arena == <<fresh, ssz, free, ks, nx>>
vars == <<n, mask, tab, arena, vs, obs>>

Slots(cap) == 0 .. cap - 1

Live == { i \in Slots(ssz) : vs[i] # NoValue }

-----------------------------------------------------------------------------
(* Storing.                                                                *)

\* Mutant: the table may fill up.
OverFull == n + 1 > mask + 1

\* One more key would leave less than half of the buckets vacant.
Over == 2 * (n + 1) > mask + 1

\* Enter the pair of a new key, whose probe ended at bucket at.
EnterPair(at, w, l) ==
  IF Over
  THEN /\ mask' = GrownMask(mask)
       /\ tab' = InsRaw(GrowTab(tab, mask), GrownMask(mask), w, l)
  ELSE tab' = PutBucket(tab, at, w, l) /\ UNCHANGED mask

Extended(block, cap, blank) ==
  [i \in Slots(2 * cap) |-> IF i < cap THEN block[i] ELSE blank]

\* A new key takes the slot on top of the free stack.
TakeFree(key, x) ==
  LET s == Slot(free)
  IN /\ free # Nil
     /\ free' = nx[s]
     /\ ks' = [ks EXCEPT ![s] = Stored(key)]
     /\ vs' = [vs EXCEPT ![s] = x]
     /\ EnterPair(Probe(tab, ks, mask, key), WordOf[key], free)
     /\ UNCHANGED <<fresh, ssz, nx>>

\* With none free it takes a fresh one; a full arena doubles.
TakeFresh(key, x) ==
  LET full == ~ fresh < ssz
      Room(block, blank) == IF full THEN Extended(block, ssz, blank) ELSE block
  IN /\ free = Nil
     /\ fresh' = fresh + 1
     /\ ssz' = IF full THEN 2 * ssz ELSE ssz
     /\ ks' = [Room(ks, Empty) EXCEPT ![fresh] = Stored(key)]
     /\ vs' = [Room(vs, NoValue) EXCEPT ![fresh] = x]
     /\ nx' = Room(nx, Nil)
     /\ EnterPair(Probe(tab, ks, mask, key), WordOf[key], Link(fresh))
     /\ UNCHANGED free

Absent(key) == LinkFound(tab, ks, mask, key) = Nil

SlotOf(key) == Slot(LinkFound(tab, ks, mask, key))

Replace(key, x) ==
  /\ vs' = [vs EXCEPT ![SlotOf(key)] = x]
  /\ UNCHANGED <<n, mask, tab, arena>>

Set(key, x) ==
  /\ obs' = <<"Set", key, x>>
  /\ \/ ~ Absent(key) /\ Replace(key, x)
     \/ Absent(key) /\ n' = n + 1 /\ (TakeFree(key, x) \/ TakeFresh(key, x))

-----------------------------------------------------------------------------
(* Reading.                                                                *)

Read(answer) == obs' = answer /\ UNCHANGED <<n, mask, tab, arena, vs>>

Lookup(key) ==
  IF Absent(key) THEN <<"None">> ELSE <<"Some", vs[SlotOf(key)]>>

\* get answers a default of the caller's for a key that is absent.
Get(key) == Read(<<"Get", key, Lookup(key)>>)

Has(key) == Read(<<"Has", key, ~ Absent(key)>>)

Keys == Read(<<"Keys", KeyList(tab, ks, mask)>>)

Size == Read(<<"Size", n>>)

-----------------------------------------------------------------------------
(* Removing.                                                               *)

\* Mutant: the slot that was on top of the free stack is dropped.
FreedAlone(s) == free' = Link(s) /\ nx' = [nx EXCEPT ![s] = Nil]

Freed(s) == free' = Link(s) /\ nx' = [nx EXCEPT ![s] = free]

\* A short key has no string in its slot to drop.
VacatedSlot(s, key) ==
  /\ vs' = [vs EXCEPT ![s] = NoValue]
  /\ ks' = IF key \in Short THEN ks ELSE [ks EXCEPT ![s] = Empty]

Drop(key) ==
  LET s == SlotOf(key)
  IN /\ n' = n - 1
     /\ tab' = DelAt(tab, mask, Probe(tab, ks, mask, key))
     /\ Freed(s)
     /\ VacatedSlot(s, key)
     /\ UNCHANGED <<mask, fresh, ssz>>

DropIfPresent(key) ==
  \/ Absent(key) /\ UNCHANGED <<n, mask, tab, arena, vs>>
  \/ ~ Absent(key) /\ Drop(key)

Pop(key) == obs' = <<"Pop", key, Lookup(key)>> /\ DropIfPresent(key)

Del(key) == obs' = <<"Del", key>> /\ DropIfPresent(key)

-----------------------------------------------------------------------------
Init ==
  /\ n = 0 /\ mask = 1 /\ fresh = 0 /\ ssz = 1 /\ free = Nil
  /\ tab = NewTable(1)
  /\ ks = [i \in Slots(1) |-> Empty]
  /\ vs = [i \in Slots(1) |-> NoValue]
  /\ nx = [i \in Slots(1) |-> Nil]
  /\ obs = <<"New">>

Next ==
  \/ \E key \in Key, x \in Value : Set(key, x)
  \/ \E key \in Key : Get(key) \/ Has(key) \/ Pop(key) \/ Del(key)
  \/ Keys
  \/ Size

Spec == Init /\ [][Next]_vars

-----------------------------------------------------------------------------
(* Correctness.                                                            *)

(* At least half of the buckets are vacant, so that every probe ends well  *)
(* before its fuel, and the others hold the n live slots, each once: the   *)
(* growth test, made before n counts the new key, is in time (Over,        *)
(* ins_raw, find).                                                         *)
HalfVacant ==
  LET full == Buckets(mask) \ Vacant(tab)
  IN /\ 2 * n <= mask + 1
     /\ \A i, j \in full : tab[i].l = tab[j].l => i = j
     /\ { Slot(tab[i].l) : i \in full } = Live
     /\ n = Cardinality(Live)

(* Backward-shift deletion and growth leave no pair behind a vacant bucket *)
(* of its probe, whatever wraps round the end of the table (shift,         *)
(* mv_go).                                                                 *)
EveryPairIsReached == ProbesReach(tab, mask)

(* A slot below fresh is live or on the free stack, once, and never both   *)
(* (ins_free, pop_v).                                                      *)
NoSlotLeaks ==
  \E stack \in [1 .. fresh - n -> Slots(fresh) \ Live] :
    LET at(k) == IF k <= fresh - n THEN Link(stack[k]) ELSE Nil
    IN /\ IsInjective(stack)
       /\ free = at(1)
       /\ \A k \in DOMAIN stack : nx[stack[k]] = at(k + 1)

(* While a key stays in the map its value stays in one slot: growth moves  *)
(* buckets only ("keys and values never move").                            *)
EntriesNeverMove ==
  [][\A key \in Key : ~ Absent(key) /\ ~ Absent(key)' =>
       SlotOf(key)' = SlotOf(key)]_vars

-----------------------------------------------------------------------------
(* Refinement.                                                             *)

\* The map read off the buckets and slots, without probing.
Contents ==
  LET full == { tab[i] : i \in Buckets(mask) \ Vacant(tab) }
      key(b) == KeyOf(b.w, ks[Slot(b.l)])
  IN [k \in { key(b) : b \in full } |->
        vs[Slot((CHOOSE b \in full : key(b) = k).l)]]

Abstract == INSTANCE KeyValueMap WITH map <- Contents

(* The hash map implements a function from keys to values: keys that share *)
(* a bucket or a check word are kept apart, whatever was removed or moved  *)
(* between them (probe, set, pop, keys).                                   *)
ImplementsMap == Abstract!KeyValueMapSpec

-----------------------------------------------------------------------------
(* For the runs.                                                           *)

ValueSymmetry == Permutations(Value)

\* The state without the last answer, on which no action depends.
State == <<n, mask, tab, arena, vs>>
=============================================================================
