----------------------------- MODULE BoundedDraws -----------------------------
(***************************************************************************)
(* Bounded random integers and shuffles over any source of words,          *)
(* src/math/random/rand.bend: Lemire's method, which rejects some draws    *)
(* and draws again, and the Fisher-Yates shuffle in an array on top of it. *)
(* A step is one draw, and the source may give any word.                   *)
(***************************************************************************)
EXTENDS Naturals, Sequences, FiniteSets

CONSTANTS WordBits,   \* the bits of a word: 64 in the program
          MostDraws,  \* the draws for one number: 128 in the program
          MaxItems    \* the longest list that is shuffled

DrawsAssumption ==
  /\ WordBits \in Nat /\ MostDraws \in Nat \ {0}
  /\ MaxItems \in Nat /\ MaxItems < 2 ^ WordBits

VARIABLES call,   \* the call in progress: the number it is drawing
          slots,  \* the array being shuffled
          picks,  \* the numbers its shuffle has drawn so far
          obs     \* the last call that ended, and its answer

vars == <<call, slots, picks, obs>>

\* How many words there are.
Words == 2 ^ WordBits

NoItem == 0

Idle == [kind |-> "idle"]

\* A number below n is wanted, for a range from `base` or for slot `at` of a
\* shuffle; `hi` is the result of the draw that was rejected, if one was.
Wanted(kind, n, base, at) ==
  [kind |-> kind, n |-> n, base |-> base, at |-> at, left |-> MostDraws, hi |-> 0]

IsPow2(n) == n = 0 \/ \E k \in 0 .. WordBits : n = 2 ^ k

Masked(n, x) == IF n = 0 THEN x ELSE x % n

Hi(n, x) == (x * n) \div Words

Lo(n, x) == (x * n) % Words

Thresh(n) == (Words - n) % n

\* Mutant: the low half is compared with the bound itself.
RejectsBelow(n, x) == ~ IsPow2(n) /\ Lo(n, x) < n

\* Is a draw rejected?  The threshold is computed only when the low half is
\* below the bound.
Rejects(n, x) == ~ IsPow2(n) /\ Lo(n, x) < n /\ Lo(n, x) < Thresh(n)

Result(n, x) == IF IsPow2(n) THEN Masked(n, x) ELSE Hi(n, x)

\* The least depth of an array of n slots.
Depth(n) == CHOOSE d \in 0 .. n : n <= 2 ^ d /\ \A e \in 0 .. d - 1 : n > 2 ^ e

\* The list of the first n items in an array, and what an array holds.
Filled(n) == [j \in 0 .. 2 ^ Depth(n) - 1 |-> IF j < n THEN j + 1 ELSE NoItem]

Collected(s) ==
  SelectSeq([j \in 1 .. Cardinality(DOMAIN s) |-> s[j - 1]], LAMBDA x : x # NoItem)

Exchanged(s, i, j) == [s EXCEPT ![i] = s[j], ![j] = s[i]]

-----------------------------------------------------------------------------
\* The slot i of a shuffle is next, or the shuffle has ended with slot 0.
ShuffleFrom(i, s, p) ==
  /\ slots' = s /\ picks' = p
  /\ IF i = 0 THEN call' = Idle /\ obs' = <<"Shuffle", Collected(s)>>
     ELSE call' = Wanted("shuffle", i + 1, 0, i) /\ UNCHANGED obs

\* What becomes of the number k that was wanted.
Deliver(k) ==
  IF call.kind = "shuffle"
  THEN ShuffleFrom(call.at - 1, Exchanged(slots, call.at, k), Append(picks, k))
  ELSE /\ call' = Idle
       /\ obs' = <<"Number", call.n, call.base, call.base + k>>
       /\ UNCHANGED <<slots, picks>>

UintBelow(n) ==
  /\ call = Idle
  /\ call' = Wanted("below", n, 0, 0)
  /\ UNCHANGED <<slots, picks, obs>>

\* An empty range gives its lower end without a draw.
IntRange(lo, hi) ==
  /\ call = Idle
  /\ UNCHANGED <<slots, picks>>
  /\ IF hi <= lo THEN UNCHANGED call /\ obs' = <<"Number", 1, lo, lo>>
     ELSE call' = Wanted("below", hi - lo, lo, 0) /\ UNCHANGED obs

Shuffle(n) ==
  /\ call = Idle
  /\ ShuffleFrom(IF n = 0 THEN 0 ELSE n - 1, Filled(n), <<>>)

\* The source gives word x.
Draw(x) ==
  /\ call # Idle /\ call.left > 0
  /\ IF Rejects(call.n, x)
     THEN /\ call' = [call EXCEPT !.left = @ - 1, !.hi = Result(call.n, x)]
          /\ UNCHANGED <<slots, picks, obs>>
     ELSE Deliver(Result(call.n, x))

\* The last draw there is fuel for is used even if it was rejected.
GiveUp ==
  /\ call # Idle /\ call.left = 0
  /\ Deliver(call.hi)

Init ==
  /\ call = Idle /\ slots = Filled(0) /\ picks = <<>>
  /\ obs = <<"New">>

Next ==
  \/ GiveUp
  \/ \E n \in 0 .. Words - 1 : UintBelow(n)
  \/ \E lo, hi \in {0, 3, 5} : IntRange(lo, hi)
  \/ \E n \in 0 .. MaxItems : Shuffle(n)
  \/ \E x \in 0 .. Words - 1 : Draw(x)

Spec == Init /\ [][Next]_vars

-----------------------------------------------------------------------------
\* The words that are accepted as k.
AcceptedAs(n, k) == { x \in 0 .. Words - 1 : ~ Rejects(n, x) /\ Result(n, x) = k }

\* What a shuffle of n items is after these picks.
RECURSIVE After(_, _)
After(n, p) ==
  IF p = <<>> THEN Filled(n)
  ELSE LET m == Len(p) IN Exchanged(After(n, SubSeq(p, 1, m - 1)), n - m, p[m])

\* All picks there can be: the m-th one is among the n - m + 1 items whose
\* place is still open.
AllPicks(n, m) == { p \in [1 .. m -> 0 .. n - 1] : \A i \in 1 .. m : p[i] <= n - i }

Items == Cardinality({ j \in DOMAIN slots : slots[j] # NoItem })

\* Every number below the bound is the result of equally many words, as many
\* as there can be, the one used after the last rejected draw is below the
\* bound too, and every pick of a shuffle is among the items whose place is
\* open and leaves an order that no other picks leave: so all numbers, and all
\* orders, are equally likely (thresh, retry_fast, ashuffle_go, collect).
DrawsAreUniform ==
  /\ call # Idle /\ call.n > 0 =>
       /\ call.hi < call.n
       /\ \A k \in 0 .. call.n - 1 :
            Cardinality(AcceptedAs(call.n, k)) = Words \div call.n
  /\ call # Idle /\ call.kind = "shuffle" => call.n = Items - Len(picks)
  /\ \A p \in AllPicks(Items, Len(picks)) : (After(Items, p) = slots) <=> (p = picks)
=============================================================================
