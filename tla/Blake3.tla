-------------------------------- MODULE Blake3 --------------------------------
(***************************************************************************)
(* The tree hash src/crypto/blake/blake3/blake3.bend, and how it is        *)
(* tested: tools/generators/blake3/vectors.c hashes the same bytes with    *)
(* the C hasher of benchmarks/native/blake/blake3.c, which builds the tree *)
(* in another way.                                                         *)
(*                                                                         *)
(* A word is the sequence of its four bytes, and the compression of        *)
(* something is that something: what was compressed in what order and with *)
(* which counter, length and flags is all that a digest shows.             *)
(***************************************************************************)
EXTENDS Integers, Sequences

LOCAL INSTANCE SequencesExt

CONSTANTS WordsPerBlock,  \* the words of a block: 16 in the program, and
          ChunkBlocks,    \* the blocks of a chunk: 16
          Depths,         \* the arrays have 2^depth words
          ByteBits,       \* the bits of a byte in a test vector: 8,
          BytePeriod,     \* the period of the first kind of vector: 251, and
          Multiplier,     \* the multiplier of the second: 2654435761
          Seeds           \* the seeds of the second kind

VARIABLE obs  \* the last call and its answer

BlockBytes == 4 * WordsPerBlock

ChunkBytes == BlockBytes * ChunkBlocks

Blake3Assumption ==
  /\ WordsPerBlock \in Nat \ {0} /\ Depths \subseteq Nat /\ Seeds \subseteq Nat
  /\ \E k \in 0 .. 9 : ChunkBytes = 2 ^ k
  /\ BytePeriod \in 1 .. 2 ^ ByteBits

Compress(cv, b, t, len, flags) == <<cv, b, t, len, flags>>

IV == <<>>

\* What is compressed once it is known whether it is the root.
OutCV(o) == Compress(o.cv, o.block, o.counter, o.len, o.flags)

RootCV(o) == Compress(o.cv, o.block, o.counter, o.len, o.flags \cup {"Root"})

ParentOut(l, r) ==
  [cv |-> IV, block |-> <<l, r>>, counter |-> 0, len |-> BlockBytes, flags |-> {"Parent"}]

ParentCV(l, r) == OutCV(ParentOut(l, r))

\* The number of pieces of k in front of the last of n, which is not empty
\* unless n is 0.
Before(n, k) == IF n = 0 THEN 0 ELSE (n - 1) \div k

Start(first) == IF first THEN {"ChunkStart"} ELSE {}

-----------------------------------------------------------------------------
(* The program.                                                            *)

\* A word beyond the array is any word: it is masked before it is used.
ReadBlock(a, index) ==
  [i \in 1 .. WordsPerBlock |->
     IF index + i - 1 \in DOMAIN a THEN a[index + i - 1]
     ELSE <<"any", "any", "any", "any">>]

MaskBlock(b, len) ==
  [i \in 1 .. WordsPerBlock |-> [j \in 1 .. 4 |-> IF 4 * (i - 1) + j <= len THEN b[i][j] ELSE 0]]

\* The chaining value after n full blocks from a word on, the last of which
\* may end the chunk.
Blocks(a, counter, index, n, ends) ==
  LET cv[i \in 0 .. n] ==
        IF i = 0 THEN IV
        ELSE Compress(cv[i - 1], ReadBlock(a, index + WordsPerBlock * (i - 1)), counter, BlockBytes,
                      Start(i = 1) \cup IF ends /\ i = n THEN {"ChunkEnd"} ELSE {})
  IN cv[n]

FullChunk(a, counter, index) == Blocks(a, counter, index, ChunkBlocks, TRUE)

LastChunk(a, counter, index, len) ==
  LET n == Before(len, BlockBytes)
      rest == len - n * BlockBytes
  IN [cv |-> Blocks(a, counter, index, n, FALSE),
      block |-> MaskBlock(ReadBlock(a, index + WordsPerBlock * n), rest),
      counter |-> counter, len |-> rest, flags |-> Start(n = 0) \cup {"ChunkEnd"}]

\* Slot i of a stack is <<>>, or holds the value of 2^(i-1) chunks: merged and
\* carried on like a binary counter.
Push(s, c) ==
  LET k == CHOOSE k \in 1 .. Len(s) + 1 :
             /\ \A i \in 1 .. k - 1 : s[i] # <<>>
             /\ k <= Len(s) => s[k] = <<>>
      carry[i \in 0 .. k - 1] == IF i = 0 THEN c ELSE ParentCV(s[i][1], carry[i - 1])
  IN [i \in 1 .. Len(s) |-> IF i < k THEN <<>> ELSE IF i = k THEN <<carry[k - 1]>> ELSE s[i]]
     \o IF k > Len(s) THEN << <<carry[k - 1]>> >> ELSE <<>>

\* The stack folded into the last chunk, the smallest subtree first.
Finish(s, o) ==
  LET Folded(out, slot) == IF slot = <<>> THEN out ELSE ParentOut(slot[1], OutCV(out))
  IN FoldLeft(Folded, o, s)

Unchecked(a, length) ==
  LET n == Before(length, ChunkBytes)
      words == WordsPerBlock * ChunkBlocks
      stack[t \in 0 .. n] ==
        IF t = 0 THEN <<>> ELSE Push(stack[t - 1], FullChunk(a, t - 1, words * (t - 1)))
  IN RootCV(Finish(stack[n], LastChunk(a, n, words * n, length - n * ChunkBytes)))

Digest(a, depth, length) ==
  IF length <= 4 * 2 ^ depth THEN <<"Some", Unchecked(a, length)>> ELSE <<"None">>

-----------------------------------------------------------------------------
(* The C hasher, without vector instructions, and given everything in one  *)
(* update.  Its input is a sequence of bytes, its stack has the latest     *)
(* value on top.                                                           *)

\* Block k of some bytes, zeros behind them.
BytesBlock(p, k) ==
  LET At(i) == IF i <= Len(p) THEN p[i] ELSE 0
  IN [w \in 1 .. WordsPerBlock |->
        [j \in 1 .. 4 |-> At(BlockBytes * (k - 1) + 4 * (w - 1) + j)]]

\* Chunk t.
ChunkOutput(p, t) ==
  LET n == Before(Len(p), BlockBytes)
      cv[i \in 0 .. n] ==
        IF i = 0 THEN IV
        ELSE Compress(cv[i - 1], BytesBlock(p, i), t, BlockBytes, Start(i = 1))
  IN [cv |-> cv[n], block |-> BytesBlock(p, n + 1), counter |-> t,
      len |-> Len(p) - n * BlockBytes, flags |-> Start(n = 0) \cup {"ChunkEnd"}]

\* The two halves of a subtree of 2^k chunks, k > 0, the first of which is t.
RECURSIVE TopTwo(_)
TopTwo(cvs) ==
  IF Len(cvs) = 2 THEN cvs
  ELSE TopTwo([i \in 1 .. Len(cvs) \div 2 |-> ParentCV(cvs[2 * i - 1], cvs[2 * i])])

SubtreeHalves(p, t) ==
  TopTwo([i \in 1 .. Len(p) \div ChunkBytes |->
            OutCV(ChunkOutput(SubSeq(p, ChunkBytes * (i - 1) + 1, ChunkBytes * i), t + i - 1))])

RECURSIVE Ones(_)
Ones(n) == IF n = 0 THEN 0 ELSE (n % 2) + Ones(n \div 2)

\* Merged until there is one value per one in the number of chunks.
RECURSIVE MergeStack(_, _)
MergeStack(s, total) ==
  IF Len(s) <= Ones(total) THEN s
  ELSE LET k == Len(s)
       IN MergeStack(Append(SubSeq(s, 1, k - 2), ParentCV(s[k - 1], s[k])), total)

PushCV(s, cv, counter) == Append(MergeStack(s, counter), cv)

\* The largest power of two that is at most len and divides the bytes so far.
SubtreeLen(len, sofar) ==
  CHOOSE x \in {2 ^ i : i \in 0 .. 12} :
    /\ x <= len /\ sofar % x = 0
    /\ 2 * x <= len => sofar % (2 * x) # 0

RECURSIVE HasherUpdate(_, _)
HasherUpdate(h, p) ==
  IF Len(p) <= ChunkBytes
  THEN [h EXCEPT !.chunk = p,
                 !.stack = IF p = <<>> THEN @ ELSE MergeStack(@, h.counter)]
  ELSE LET t == h.counter
           len == SubtreeLen(Len(p), t * ChunkBytes)
           first == SubSeq(p, 1, len)
           chunks == len \div ChunkBytes
           halves == SubtreeHalves(first, t)
       IN HasherUpdate(
            [h EXCEPT !.counter = @ + chunks,
                      !.stack = IF chunks = 1
                                THEN PushCV(@, OutCV(ChunkOutput(first, t)), t)
                                ELSE PushCV(PushCV(@, halves[1], t), halves[2], t + chunks \div 2)],
            SubSeq(p, len + 1, Len(p)))

HasherFinalize(h) ==
  LET s == h.stack
      k == Len(s)
      Rolled(cv, out) == ParentOut(cv, OutCV(out))
      last == ChunkOutput(h.chunk, h.counter)
  IN RootCV(IF h.chunk # <<>> \/ s = <<>> THEN FoldRight(Rolled, s, last)
            ELSE FoldRight(Rolled, SubSeq(s, 1, k - 2), ParentOut(s[k - 1], s[k])))

\* Byte i of the input of vectors.c, and the digest that it prints.
VectorByte(mode, seed, i) ==
  IF mode = 0 THEN (i % BytePeriod) % 2 ^ ByteBits
  ELSE LET w == ((i \div 4) * Multiplier + seed) % 2 ^ (4 * ByteBits)
       IN (w \div 2 ^ (ByteBits * (i % 4))) % 2 ^ ByteBits

Vector(mode, n, seed) ==
  HasherFinalize(HasherUpdate([counter |-> 0, stack |-> <<>>, chunk |-> <<>>],
                              [i \in 1 .. n |-> VectorByte(mode, seed, i - 1)]))

-----------------------------------------------------------------------------
\* The test's array: packed words of its own making.
Bytes(w) == [j \in 1 .. 4 |-> (w \div 2 ^ (ByteBits * (j - 1))) % 2 ^ ByteBits]

OfficialWord(j) ==
  LET Byte(k) == ((4 * j + k) % BytePeriod) * 2 ^ (ByteBits * k)
  IN Byte(0) + Byte(1) + Byte(2) + Byte(3)

FilledWord(mode, seed, j) ==
  Bytes(IF mode = 0 THEN OfficialWord(j)
        ELSE (j * Multiplier + seed) % 2 ^ (4 * ByteBits))

Filled(mode, seed, depth) == [j \in 0 .. 2 ^ depth - 1 |-> FilledWord(mode, seed, j)]

\* All bytes differ.
Distinct(depth) == [j \in 0 .. 2 ^ depth - 1 |-> [k \in 1 .. 4 |-> 4 * j + k]]

Hash(depth, n) == obs' = <<"Hash", depth, n, Digest(Distinct(depth), depth, n)>>

\* A case of the test.
Check(mode, n, seed, depth) ==
  /\ n <= 4 * 2 ^ depth
  /\ obs' = <<"Check", Digest(Filled(mode, seed, depth), depth, n), Vector(mode, n, seed)>>

Init == obs = <<"New">>

Next ==
  \E depth \in Depths : \E n \in 0 .. 4 * 2 ^ depth + 1 :
    \/ Hash(depth, n)
    \/ \E mode \in {0, 1}, seed \in Seeds : Check(mode, n, seed, depth)

Spec == Init /\ [][Next]_obs

-----------------------------------------------------------------------------
\* The tree of the BLAKE3 paper over k chunks of bytes from chunk t on: the
\* left subtree has the largest power of two of chunks that leaves one to the
\* right.
RECURSIVE Node(_, _, _)
Node(p, t, k) ==
  IF k = 1
  THEN LET end == ChunkBytes * (t + 1)
       IN ChunkOutput(SubSeq(p, ChunkBytes * t + 1, IF end < Len(p) THEN end ELSE Len(p)), t)
  ELSE LET left == CHOOSE x \in {2 ^ i : i \in 0 .. 12} : x < k /\ k <= 2 * x
       IN ParentOut(OutCV(Node(p, t, left)), OutCV(Node(p, t + left, k - left)))

Standard(p) == RootCV(Node(p, 0, Before(Len(p), ChunkBytes) + 1))

\* The digest of a packed message is the root of the tree over its bytes, or
\* None if the array has not so many, and nothing behind the message in the
\* array or in the last block has a part in it; the vectors that it is tested
\* with are digests of the same bytes (blake3, chunks, push, finish, main).
TreesAreStandard ==
  [][/\ obs'[1] = "Hash" =>
          obs'[4] = IF obs'[3] > 4 * 2 ^ obs'[2] THEN <<"None">>
                    ELSE <<"Some", Standard([i \in 1 .. obs'[3] |-> i])>>
     /\ obs'[1] = "Check" => obs'[2] = <<"Some", obs'[3]>>]_obs
=============================================================================
