-------------------------------- MODULE Hasher --------------------------------
(***************************************************************************)
(* The incremental hash functions, src/crypto/hash.bend over the streams   *)
(* of src/crypto/sha, sha512 and sha3, in their real sizes, and the hash   *)
(* of a whole list, which for SHA-256 is code of its own                   *)
(* (src/crypto/sha/core.bend).  A hasher carries a chaining value, the     *)
(* words not yet compressed and the bytes of an unfinished word.           *)
(*                                                                         *)
(* A chaining value is the sequence of the blocks compressed into it, and  *)
(* a word the sequence of its bytes.  Byte i of the message is -i, unlike  *)
(* any byte of a padding and any other byte of the message.                *)
(***************************************************************************)
EXTENDS Integers, Sequences

LOCAL INSTANCE SequencesExt

CONSTANTS Chunks,     \* the sizes of the chunks that are appended
          MaxMessage  \* the longest message

VARIABLES hasher,  \* the hasher
          given,   \* how many bytes were appended to it
          obs      \* the last call and its answer

vars == <<hasher, given, obs>>

Algorithms == {"Sha256", "Sha512", "Sha3"}

WordBytes(alg) == IF alg = "Sha256" THEN 4 ELSE 8

BlockWords(alg) == IF alg = "Sha3" THEN 17 ELSE 16

BlockBytes(alg) == WordBytes(alg) * BlockWords(alg)

\* Whole pieces of k elements, and what is left behind them.
Cut(xs, k) == [i \in 1 .. Len(xs) \div k |-> SubSeq(xs, k * (i - 1) + 1, k * i)]

Left(xs, k) == SubSeq(xs, Len(xs) - (Len(xs) % k) + 1, Len(xs))

Zeros(k) == [i \in 1 .. k |-> 0]

NewHasher(alg) == [alg |-> alg, s |-> <<>>, pend |-> <<>>, rem |-> <<>>, done |-> 0]

Update(h, xs) ==
  LET bytes == h.rem \o xs
      words == h.pend \o Cut(bytes, WordBytes(h.alg))
      k == BlockWords(h.alg)
  IN [h EXCEPT !.s = @ \o Cut(words, k),
               !.pend = Left(words, k),
               !.rem = Left(bytes, WordBytes(h.alg)),
               !.done = @ + BlockBytes(h.alg) * (Len(words) \div k)]

-----------------------------------------------------------------------------
\* The length in bits of n bytes, big-endian: n div 32 by its digits to the
\* base 256 in front of the octet 8 (n mod 32), never the product 8 n.
BitLength(n, octets) ==
  LET q[j \in 0 .. octets - 2] == IF j = 0 THEN n \div 32 ELSE q[j - 1] \div 256
  IN [i \in 1 .. octets |->
        IF i = octets THEN 8 * (n % 32) ELSE q[octets - 1 - i] % 256]

\* The words of k zeros and a suffix, whole words of zeros first.
ZeroWords(k, suffix, w) ==
  [i \in 1 .. k \div w |-> Zeros(w)] \o Cut(Zeros(k % w) \o suffix, w)

\* The words of a prefix of at most one word, k zeros and a suffix: the word
\* of the prefix is filled up with zeros if there are enough of them.
Padded(prefix, k, suffix, w) ==
  LET gap == w - Len(prefix)
  IN IF prefix = <<>> THEN ZeroWords(k, suffix, w)
     ELSE IF gap <= k
     THEN <<prefix \o Zeros(gap)>> \o ZeroWords(k - gap, suffix, w)
     ELSE Cut(prefix \o Zeros(k) \o suffix, w)

TailLanes(alg, rem, len) ==
  CASE alg = "Sha256" ->
         Padded(Append(rem, 128), (119 - (len % 64)) % 64, BitLength(len, 8), 4)
    [] alg = "Sha512" ->
         LET r == len % 128
         IN Padded(Append(rem, 128), (IF r <= 111 THEN 111 ELSE 239) - r, BitLength(len, 16), 8)
    [] alg = "Sha3" ->
         LET q == 136 - (len % 136)
         IN IF q = 1 THEN Cut(Append(rem, 134), 8)
            ELSE Padded(Append(rem, 6), q - 2, <<128>>, 8)

\* Mutant: the bytes of the unfinished word are not counted.
FinishUncounted(h) ==
  LET len == h.done + WordBytes(h.alg) * Len(h.pend)
  IN h.s \o Cut(h.pend \o TailLanes(h.alg, h.rem, len), BlockWords(h.alg))

\* The blocks compressed in the end, which the digest stands for.
Finish(h) ==
  LET len == h.done + WordBytes(h.alg) * Len(h.pend) + Len(h.rem)
  IN h.s \o Cut(h.pend \o TailLanes(h.alg, h.rem, len), BlockWords(h.alg))

\* The last block of SHA-256, or the last two, for what the whole blocks left
\* of a message of n bytes: every length has its own layout of the words.
FinalBlocks(tail, n) ==
  LET marked == Append(tail, 128)
  IN IF Len(tail) <= 55
     THEN <<Cut(marked \o Zeros(55 - Len(tail)) \o BitLength(n, 8), 4)>>
     ELSE <<Cut(marked \o Zeros(63 - Len(tail)), 4),
            Cut(Zeros(56) \o BitLength(n, 8), 4)>>

\* SHA-256 straight from the bytes of a list.
Sha256(bytes) ==
  LET blocks == Cut(bytes, 64)
      tail == Left(bytes, 64)
  IN [i \in DOMAIN blocks |-> Cut(blocks[i], 4)]
     \o FinalBlocks(tail, 64 * Len(blocks) + Len(tail))

\* The hash of a list in one call.
Whole(alg, bytes) ==
  IF alg = "Sha256" THEN Sha256(bytes) ELSE Finish(Update(NewHasher(alg), bytes))

-----------------------------------------------------------------------------
Message(n) == [i \in 1 .. n |-> -i]

\* The next k bytes behind n bytes of the message.
More(n, k) == [i \in 1 .. k |-> -(n + i)]

Append1(k) ==
  /\ given + k <= MaxMessage
  /\ hasher' = Update(hasher, More(given, k))
  /\ given' = given + k
  /\ obs' = <<"Update", k>>

\* update_all with two chunks.
Append2(k, m) ==
  /\ given + k + m <= MaxMessage
  /\ hasher' = FoldLeft(Update, hasher, <<More(given, k), More(given + k, m)>>)
  /\ given' = given + k + m
  /\ obs' = <<"UpdateAll", k, m>>

Digest ==
  /\ UNCHANGED <<hasher, given>>
  /\ obs' = <<"Digest", Finish(hasher)>>

Hash ==
  /\ UNCHANGED <<hasher, given>>
  /\ obs' = <<"Digest", Whole(hasher.alg, Message(given))>>

Init ==
  /\ hasher \in {NewHasher(alg) : alg \in Algorithms}
  /\ given = 0
  /\ obs = <<"New">>

Next ==
  \/ Digest \/ Hash
  \/ \E k \in Chunks : Append1(k) \/ \E m \in Chunks : Append2(k, m)

Spec == Init /\ [][Next]_vars

-----------------------------------------------------------------------------
\* The padding of FIPS 180-4: a one, the least number of zeros, and the length
\* in bits as an integer of 8 or 16 octets.
LengthOctets(n, octets) ==
  LET rest[j \in 0 .. octets] == IF j = 0 THEN 8 * n ELSE rest[j - 1] \div 256
  IN [i \in 1 .. octets |-> rest[octets - i] % 256]

FipsSha2(n, octets, block) ==
  LET zeros == CHOOSE k \in 0 .. block - 1 : (n + 1 + k + octets) % block = 0
  IN <<128>> \o Zeros(zeros) \o LengthOctets(n, octets)

\* The padding of FIPS 202 for SHA3: the bits 01 and 1, zeros, 1.
FipsSha3(n, block) ==
  LET size == CHOOSE k \in 1 .. block : (n + k) % block = 0
  IN [i \in 1 .. size |-> (IF i = 1 THEN 6 ELSE 0) + (IF i = size THEN 128 ELSE 0)]

Standard(alg, n) ==
  LET padding == CASE alg = "Sha256" -> FipsSha2(n, 8, 64)
                   [] alg = "Sha512" -> FipsSha2(n, 16, 128)
                   [] alg = "Sha3" -> FipsSha3(n, 136)
      bytes == Message(n) \o padding
      w == WordBytes(alg)
      k == BlockWords(alg)
  IN [b \in 1 .. Len(bytes) \div (k * w) |-> [j \in 1 .. k |->
        SubSeq(bytes, (b - 1) * k * w + (j - 1) * w + 1, (b - 1) * k * w + j * w)]]

\* Every digest, of one list or however the message was cut into chunks, and
\* also of a hasher that goes on being used, stands for the blocks of the
\* padded message (update, finish, tail_lanes, stream, fin0 .. fin63).
DigestsAreStandard ==
  [][obs'[1] = "Digest" => obs'[2] = Standard(hasher.alg, given)]_vars
=============================================================================
