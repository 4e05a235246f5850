-------------------------------- MODULE Bitset --------------------------------
(***************************************************************************)
(* The packed set of bits of fixed size, src/containers/bitset.bend, over  *)
(* an array of 2^depth words.  A word is the set of the places at which it *)
(* has a one, so that or, and, and-not and exclusive or are operations on  *)
(* sets.  Counting and listing go over all words, padding included, and a  *)
(* combination goes word by word: all rely on zeros beyond the size.       *)
(***************************************************************************)
EXTENDS Naturals, Sequences, FiniteSetsExt

CONSTANTS WordBits,  \* the bits of a word: 32 in the program
          MaxDepth,  \* max_depth(): 31 in the program
          Sizes      \* the sizes that sets are made with

VARIABLES set,  \* the set of bits
          obs   \* the last call and its answer

vars == <<set, obs>>

WordIx(i) == i \div WordBits

BitIx(i) == i % WordBits

WordGet(w, k) == k \in w

WordPut(v, w, k) == IF v THEN w \cup {k} ELSE w \ {k}

\* The least depth whose words hold n bits, or the largest there is.
DepthFor(n) ==
  Min({d \in 0 .. MaxDepth : n <= WordBits * 2 ^ d} \cup {MaxDepth})

NewSet(n) ==
  [len |-> n, depth |-> DepthFor(n), words |-> [q \in 0 .. 2 ^ DepthFor(n) - 1 |-> {}]]

Bit(s, i) == WordGet(s.words[WordIx(i)], BitIx(i))

Assigned(s, i, v) ==
  [s EXCEPT !.words[WordIx(i)] = WordPut(v, @, BitIx(i))]

\* The set with exactly these bits, made one bit after the other.
FromBools(bs) ==
  LET with[i \in 0 .. Len(bs)] ==
        IF i = 0 THEN NewSet(Len(bs))
        ELSE IF bs[i] THEN Assigned(with[i - 1], i - 1, TRUE) ELSE with[i - 1]
  IN with[Len(bs)]

\* One word combined with another.
WordOp(k, a, b) ==
  CASE k = "Union" -> a \cup b
    [] k = "Intersection" -> a \cap b
    [] k = "Difference" -> a \ b
    [] k = "Xor" -> (a \ b) \cup (b \ a)

-----------------------------------------------------------------------------
Get(i) ==
  /\ UNCHANGED set
  /\ obs' = IF i < set.len THEN <<"Get", i, "Done", Bit(set, i)>>
            ELSE <<"Get", i, "IndexOutOfRange">>

Assign(i, v) ==
  IF i < set.len
  THEN set' = Assigned(set, i, v) /\ obs' = <<"Assign", i, v, "Done">>
  ELSE UNCHANGED set /\ obs' = <<"Assign", i, v, "IndexOutOfRange">>

\* The other set is made of bits ys, if their number is right, and dropped
\* again; the result is in the words of the set.
Combine(k, ys) ==
  LET other == FromBools(ys)
  IN IF set.len = Len(ys) /\ set.depth = other.depth
     THEN /\ set' = [set EXCEPT !.words = [q \in DOMAIN set.words |->
                       WordOp(k, set.words[q], other.words[q])]]
          /\ obs' = <<k, ys, "Done">>
     ELSE UNCHANGED set /\ obs' = <<k, ys, "LengthMismatch">>

\* All words are counted and listed.
Count(s) ==
  LET upto[q \in 0 .. 2 ^ s.depth] ==
        IF q = 0 THEN 0 ELSE upto[q - 1] + Cardinality(s.words[q - 1])
  IN upto[2 ^ s.depth]

Members(s) ==
  LET upto[i \in 0 .. WordBits * 2 ^ s.depth] ==
        IF i = 0 THEN <<>>
        ELSE IF Bit(s, i - 1) THEN Append(upto[i - 1], i - 1) ELSE upto[i - 1]
  IN upto[WordBits * 2 ^ s.depth]

Look ==
  /\ UNCHANGED set
  /\ \/ obs' = <<"Length", set.len>>
     \/ obs' = <<"Count", Count(set)>>
     \/ obs' = <<"Members", Members(set)>>

-----------------------------------------------------------------------------
Init == set \in {NewSet(n) : n \in Sizes} /\ obs = <<"New">>

Operands == UNION {[1 .. n -> BOOLEAN] : n \in {set.len, set.len + 1}}

Next ==
  \/ Look
  \/ \E i \in 0 .. set.len : Get(i) \/ \E v \in BOOLEAN : Assign(i, v)
  \/ \E k \in {"Union", "Intersection", "Difference", "Xor"}, ys \in Operands :
       Combine(k, ys)

Spec == Init /\ [][Next]_vars

-----------------------------------------------------------------------------
\* Every bit at or beyond the size is zero, in the last word in use and in the
\* padding words: what counting, listing and combining rely on (the masked
\* tail).
TailIsZero ==
  \A q \in DOMAIN set.words : \A k \in set.words[q] : q * WordBits + k < set.len

Bits == [i \in 1 .. set.len |-> Bit(set, i - 1)]

BitsPromised == INSTANCE BitSequence
  WITH Grows <- FALSE, Room <- 0, bits <- Bits, limit <- <<"None">>

\* The words behave as one sequence of bits of fixed length (get, assign,
\* count, to_list, combine).
ImplementsBits == BitsPromised!BitSpec
=============================================================================
