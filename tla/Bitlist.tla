------------------------------- MODULE Bitlist --------------------------------
(***************************************************************************)
(* The packed growable list of bits, src/containers/bitlist.bend: words of *)
(* a dynamic array, kept although the list shrinks.  A word is the set of  *)
(* the places at which it has a one.  A zero is pushed into a word that is *)
(* there by counting one bit more, so every bit beyond the length is zero. *)
(***************************************************************************)
EXTENDS ArrayBlock, SequencesExt

CONSTANTS WordBits,  \* the bits of a word: 32 in the program
          BitLimits  \* the limits lists are made with

VARIABLES list,  \* the list: its limit, its length and the array of words
          obs    \* the last call and its answer

vars == <<list, obs>>

None == <<"None">>

Some(n) == <<"Some", n>>

WordIx(i) == i \div WordBits

BitIx(i) == i % WordBits

WordGet(w, k) == k \in w

WordPut(v, w, k) == IF v THEN w \cup {k} ELSE w \ {k}

NewList(limit) == [limit |-> limit, len |-> 0, words |-> NewArray(MaxDepth)]

Below(s) == s.limit # None => s.len < s.limit[2]

\* Does the array have word q, and which is it?
HasWord(s, q) == q < s.words.length /\ s.words.slots[q] # NoValue

WordAt(s, q) == s.words.slots[q]

Put(s, i, v) ==
  [s EXCEPT !.words.slots[WordIx(i)] = WordPut(v, @, BitIx(i))]

Inside(s) == s.len < s.words.length * WordBits

Longer(s) == [s EXCEPT !.len = @ + 1]

MayAppend(s) == HasRoom(s.words) \/ MayGrow(s.words)

CanPush(s) == Below(s) /\ (Inside(s) \/ MayAppend(s))

\* Mutant: a one is only counted, like a zero, in a word that is there.
BitPushedCounted(s, v) ==
  IF Inside(s) THEN Longer(s)
  ELSE Longer([s EXCEPT !.words = Pushed(@, WordPut(v, {}, 0))])

\* The list with one bit more, in a word that is there or in a new one.
BitPushed(s, v) ==
  IF Inside(s)
  THEN IF v THEN Longer(Put(s, s.len, TRUE)) ELSE Longer(s)
  ELSE Longer([s EXCEPT !.words = Pushed(@, WordPut(v, {}, 0))])

LastBit(s) == WordGet(WordAt(s, WordIx(s.len - 1)), BitIx(s.len - 1))

\* Mutant: the bit is left as it is.
BitPoppedKept(s) == [s EXCEPT !.len = @ - 1]

\* A one is overwritten; no word is taken out.
BitPopped(s) ==
  LET m == s.len - 1
  IN [(IF LastBit(s) THEN Put(s, m, FALSE) ELSE s) EXCEPT !.len = m]

-----------------------------------------------------------------------------
Get(i) ==
  /\ UNCHANGED list
  /\ obs' = IF i < list.len /\ HasWord(list, WordIx(i))
            THEN <<"Get", i, "Done", WordGet(WordAt(list, WordIx(i)), BitIx(i))>>
            ELSE <<"Get", i, "IndexOutOfRange">>

Assign(i, v) ==
  IF i < list.len /\ HasWord(list, WordIx(i))
  THEN list' = Put(list, i, v) /\ obs' = <<"Assign", i, v, "Done">>
  ELSE UNCHANGED list /\ obs' = <<"Assign", i, v, "IndexOutOfRange">>

Push(v) ==
  IF CanPush(list)
  THEN list' = BitPushed(list, v) /\ obs' = <<"Push", v, "Done">>
  ELSE UNCHANGED list /\ obs' = <<"Push", v, "Full">>

Pop ==
  IF list.len = 0 \/ ~ HasWord(list, WordIx(list.len - 1))
  THEN UNCHANGED list /\ obs' = <<"Pop", "Empty">>
  ELSE list' = BitPopped(list) /\ obs' = <<"Pop", "Done", LastBit(list)>>

Clear ==
  /\ list' = [list EXCEPT !.len = 0, !.words = ClearedWhole(@)]
  /\ obs' = <<"Clear">>

\* Pushes past the capacity are dropped.
Made(bs) ==
  LET with[i \in 0 .. Len(bs)] ==
        IF i = 0 THEN NewList(None)
        ELSE IF CanPush(with[i - 1]) THEN BitPushed(with[i - 1], bs[i])
        ELSE with[i - 1]
  IN with[Len(bs)]

FromBools(bs) == list' = Made(bs) /\ obs' = <<"FromBools", bs>>

\* All words are counted, and of word q the bits below the length are listed.
Count(s) ==
  LET upto[q \in 0 .. s.words.length] ==
        IF q = 0 THEN 0 ELSE upto[q - 1] + Cardinality(WordAt(s, q - 1))
  IN upto[s.words.length]

ListedOf(s, q) ==
  LET m == IF s.len < q * WordBits THEN 0
           ELSE IF s.len - q * WordBits < WordBits THEN s.len - q * WordBits
           ELSE WordBits
  IN [k \in 1 .. m |-> WordGet(WordAt(s, q), k - 1)]

ToList(s) == FlattenSeq([q \in 1 .. s.words.length |-> ListedOf(s, q - 1)])

Look ==
  /\ UNCHANGED list
  /\ \/ obs' = <<"Length", list.len>>
     \/ obs' = <<"Limit", list.limit>>
     \/ obs' = <<"Count", Count(list)>>
     \/ obs' = <<"ToList", ToList(list)>>

-----------------------------------------------------------------------------
Init == list \in {NewList(limit) : limit \in BitLimits} /\ obs = <<"New">>

\* Lists are also made of up to as many bits as fill one word and begin another.
MadeOf == UNION {[1 .. n -> BOOLEAN] : n \in 0 .. WordBits + 1}

Next ==
  \/ Look \/ Pop \/ Clear
  \/ \E v \in BOOLEAN : Push(v)
  \/ \E i \in 0 .. list.len : Get(i) \/ \E v \in BOOLEAN : Assign(i, v)
  \/ \E bs \in MadeOf : FromBools(bs)

Spec == Init /\ [][Next]_vars

-----------------------------------------------------------------------------
\* Every stored bit at or beyond the length is zero, and so is what the array
\* holds beyond its last word: a push of a zero only counts it (push_in,
\* pop_bit, clear).
TailIsZero ==
  /\ \A q \in 0 .. list.words.length - 1 :
       \A k \in WordAt(list, q) : q * WordBits + k < list.len
  /\ Packed(list.words)

Bits == [i \in 1 .. list.len |-> WordGet(WordAt(list, WordIx(i - 1)), BitIx(i - 1))]

BitsPromised == INSTANCE BitSequence
  WITH Grows <- TRUE, Room <- WordBits * 2 ^ MaxDepth,
  bits <- Bits, limit <- list.limit

\* The words behave as one sequence of bits within the limit and the capacity,
\* whatever was pushed, popped and cleared before (push, pop, assign, count,
\* to_list).
ImplementsBits == BitsPromised!BitSpec
=============================================================================
