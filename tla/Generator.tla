------------------------------ MODULE Generator -------------------------------
(***************************************************************************)
(* The random generator of src/crypto/random.bend over the ChaCha8 stream  *)
(* of src/math/random/chacha8.bend.  The stream is computed in four groups *)
(* per key; the last words of the last group are not output but become the *)
(* next key.  Words are drawn one by one, by all calls alike, and bytes    *)
(* from words, the bytes left over from a word being pending.              *)
(*                                                                         *)
(* The block function is abstract: word number `at` of a key is only known *)
(* as that.  A key is the sequence of the words it was made of.            *)
(***************************************************************************)
EXTENDS Naturals, Sequences

LOCAL INSTANCE SequencesExt

CONSTANTS GroupWords,  \* the words of a group: 32 in the program
          KeyWords,    \* the words of a key: 4 in the program
          WordSize,    \* the bytes of a word: 8 in the program
          Seed,        \* the seed
          ByteCounts,  \* how many bytes are asked for
          WordCounts,  \* how many words are read at once, or drawn by a call
          MaxDrawn     \* at most so many words are drawn

GeneratorAssumption ==
  /\ GroupWords \in Nat /\ KeyWords \in 1 .. GroupWords - 1
  /\ WordSize \in Nat \ {0}

VARIABLES gen,  \* the generator: its source and the pending bytes
          obs   \* the last call and its answer

vars == <<gen, obs>>

\* Group g (0 .. 3) of the words of a key.
Group(key, g) ==
  [i \in 1 .. GroupWords |-> [key |-> key, at |-> g * GroupWords + i]]

OfKey(key) == [key |-> key, phase |-> 0, buf |-> <<>>]

\* Mutant: the words that become the key are also output.
LastGroupLeaky(g) ==
  [key |-> SubSeq(g, GroupWords - KeyWords + 1, GroupWords), phase |-> 0, buf |-> g]

\* The last group: words to output, and the next key.
LastGroup(g) ==
  [key |-> SubSeq(g, GroupWords - KeyWords + 1, GroupWords),
   phase |-> 0,
   buf |-> SubSeq(g, 1, GroupWords - KeyWords)]

Refill(src) ==
  IF src.phase = 3 THEN LastGroup(Group(src.key, 3))
  ELSE [src EXCEPT !.phase = @ + 1, !.buf = Group(src.key, src.phase)]

\* A source with a word to give.
Ready(src) == IF src.buf = <<>> THEN Refill(src) ELSE src

NextWord(src) == Head(Ready(src).buf)

Advanced(src) == [Ready(src) EXCEPT !.buf = Tail(@)]

BytesOf(x) == [i \in 1 .. WordSize |-> [word |-> x, byte |-> i]]

\* One byte taken: the next pending one, or the first of a fresh word.
Take(f) ==
  IF f.pending # <<>>
  THEN [f EXCEPT !.acc = Append(@, Head(f.pending)), !.pending = Tail(@)]
  ELSE [acc |-> Append(f.acc, Head(BytesOf(NextWord(f.src)))),
        src |-> Advanced(f.src),
        pending |-> Tail(BytesOf(NextWord(f.src)))]

\* A whole word taken.
TakeWord(f) ==
  [f EXCEPT !.acc = @ \o BytesOf(NextWord(f.src)), !.src = Advanced(@)]

\* n bytes, by whole words while none are pending.
RECURSIVE Fill(_, _)
Fill(n, f) ==
  IF n = 0 THEN f
  ELSE IF n >= WordSize /\ f.pending = <<>> THEN Fill(n - WordSize, TakeWord(f))
  ELSE Fill(n - 1, Take(f))

\* What k more words leave of a source, and the words.
RECURSIVE Draw(_, _, _)
Draw(k, src, words) ==
  IF k = 0 THEN [src |-> src, words |-> words]
  ELSE Draw(k - 1, Advanced(src), Append(words, NextWord(src)))

-----------------------------------------------------------------------------
New(seed) == [src |-> OfKey(seed), pending |-> <<>>]

\* The number of the key since the seed, and of words output so far.
RECURSIVE KeyNumber(_)
KeyNumber(key) == IF key = Seed THEN 0 ELSE 1 + KeyNumber(key[1].key)

Period == 4 * GroupWords - KeyWords

Drawn(src) == Period * KeyNumber(src.key) + GroupWords * src.phase - Len(src.buf)

Bytes(n) ==
  /\ Drawn(gen.src) + n \div WordSize < MaxDrawn
  /\ LET f == Fill(n, [acc |-> <<>>, src |-> gen.src, pending |-> gen.pending])
     IN /\ gen' = [src |-> f.src, pending |-> f.pending]
        /\ obs' = <<"Bytes", n, f.acc>>

\* Words are written into an array, low half first; bytes stay pending.
ReadWords(k) ==
  /\ Drawn(gen.src) + k <= MaxDrawn
  /\ LET r == Draw(k, gen.src, <<>>)
     IN /\ gen' = [gen EXCEPT !.src = r.src]
        /\ obs' = <<"Words", k, r.words>>

Uint64 ==
  /\ Drawn(gen.src) < MaxDrawn
  /\ gen' = [gen EXCEPT !.src = Advanced(@)]
  /\ obs' = <<"Words", 1, <<NextWord(gen.src)>> >>

Init == gen = New(Seed) /\ obs = <<"New">>

\* A bounded number, and each step of a shuffle, draws words until one is
\* accepted, which is what reading so many of them does to the generator.
Next ==
  \/ Uint64
  \/ \E n \in ByteCounts : Bytes(n)
  \/ \E k \in WordCounts : ReadWords(k)

Spec == Init /\ [][Next]_vars

-----------------------------------------------------------------------------
\* The stream by its definition: word i, counted from 0, is word i % Period
\* of key i \div Period, and the key after a key is made of the words of it
\* that are not output.
KeyOf[i \in 0 .. MaxDrawn] ==
  IF i = 0 THEN Seed
  ELSE [j \in 1 .. KeyWords |-> [key |-> KeyOf[i - 1], at |-> Period + j]]

StreamWord(i) == [key |-> KeyOf[i \div Period], at |-> (i % Period) + 1]

StreamWords(from, k) == [i \in 1 .. k |-> StreamWord(from + i - 1)]

\* All bytes of some words, and the words that n bytes are missing.
StreamBytes(words) == FlattenSeq([i \in DOMAIN words |-> BytesOf(words[i])])

Missing(n, pending) ==
  IF n <= Len(pending) THEN 0 ELSE (n - Len(pending) + WordSize - 1) \div WordSize

\* No word is skipped, repeated or output after it has become a part of a key,
\* and no byte of a word that bytes were taken from is lost, repeated or taken
\* out of turn, whatever calls come between (next, fill_fast, rw, refill).
ImplementsStream ==
  [][obs'[1] \in {"Words", "Bytes"} =>
       LET at == Drawn(gen.src)
           n == obs'[2]
           k == IF obs'[1] = "Bytes" THEN Missing(n, gen.pending) ELSE n
           all == gen.pending \o StreamBytes(StreamWords(at, k))
       IN /\ Drawn(gen'.src) = at + k
          /\ obs'[1] = "Words" =>
               obs'[3] = StreamWords(at, k) /\ gen'.pending = gen.pending
          /\ obs'[1] = "Bytes" =>
               /\ obs'[3] = SubSeq(all, 1, n)
               /\ gen'.pending = SubSeq(all, n + 1, Len(all))]_vars
=============================================================================
