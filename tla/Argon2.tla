-------------------------------- MODULE Argon2 --------------------------------
(***************************************************************************)
(* The memory of Argon2id, src/crypto/argon2/argon2.bend and memory.bend:  *)
(* which blocks each new block is made from, and the pieces of the         *)
(* variable-length hash.  Blocks have p lanes (rows) of q columns, in four *)
(* slices of sl; a slice is filled lane after lane, while the standard     *)
(* fills its lanes in parallel.                                            *)
(*                                                                         *)
(* A block is the number of times that it was filled, 0 for the zeros of a *)
(* new memory.  The pseudorandom words, which come from the contents, may  *)
(* be any.                                                                 *)
(***************************************************************************)
EXTENDS Integers, Sequences, FiniteSets

CONSTANTS Requests,      \* parameters of a hash
          IndexBits,     \* the bits of a word that picks a block: 32
          Picks,         \* such words
          AddressWords,  \* the words of an address block: 128
          MaxLevels,     \* there are at most 2^MaxLevels blocks: 23
          MaxLanes,      \* lanes that are allowed: 2^24 - 1
          MaxSize        \* sizes that are allowed: 2^32 - 1

VARIABLES job,      \* the parameters of the hash, or <<>>
          at,       \* the pass, slice, lane and index in the segment
          address,  \* the current address block
          mem,      \* the memory
          obs       \* the last step

vars == <<job, at, address, mem, obs>>

Request == [passes : Nat, memory : Nat, lanes : Nat, tag : Nat, salt : Nat]

Argon2Assumption ==
  /\ Requests \subseteq Request
  /\ IndexBits \in Nat /\ Picks \subseteq 0 .. 2 ^ IndexBits - 1
  /\ 2 ^ MaxLevels <= 2 ^ IndexBits
  /\ AddressWords \in Nat \ {0, 1} /\ MaxLanes \in Nat /\ MaxSize \in Nat

-----------------------------------------------------------------------------
(* The variable-length hash, as the pieces it is put together from: how    *)
(* long the i-th digest of the chain is, and how much of it is taken.      *)

Piece(digest, taken) == [digest |-> digest, taken |-> taken]

\* Halves of n + 1 full digests and all of a last one.
Chain(n, last) ==
  [i \in 1 .. n + 2 |-> IF i < n + 2 THEN Piece(64, 32) ELSE Piece(last, last)]

HPrime(length) ==
  LET r == (length + 31) \div 32 - 2
  IN IF length <= 64 THEN <<Piece(length, length)>> ELSE Chain(r - 1, length - 32 * r)

\* Of the first blocks, which are computed word by word.
InitBlock == Chain(29, 64)

-----------------------------------------------------------------------------
(* Parameters.                                                             *)

Valid(x) ==
  /\ x.lanes \in 1 .. MaxLanes
  /\ x.tag \in 4 .. MaxSize
  /\ x.memory \in 8 * x.lanes .. MaxSize
  /\ x.passes \in 1 .. MaxSize
  /\ x.salt \in 8 .. MaxSize

BlocksOf(x) == 4 * x.lanes * (x.memory \div (4 * x.lanes))

\* The smallest k, from a given one on, with 2^k >= n.
RECURSIVE LevelsFrom(_, _, _)
LevelsFrom(fuel, n, k) ==
  IF fuel = 0 \/ n <= 2 ^ k THEN k ELSE LevelsFrom(fuel - 1, n, k + 1)

Levels(n) == LevelsFrom(32, n, 0)

Fits(x) == Levels(BlocksOf(x)) <= MaxLevels

Columns(x) == BlocksOf(x) \div x.lanes

SegmentLength(x) == Columns(x) \div 4

-----------------------------------------------------------------------------
(* Which blocks a new block is made from.                                  *)

Bare(n) == IF n > 0 THEN n ELSE 0

Area(first, s, sl, q, index, same) ==
  LET base == IF first THEN s * sl ELSE Bare(q - sl)
  IN IF same THEN Bare(base + index - 1)
     ELSE IF index = 0 THEN Bare(base - 1) ELSE base

\* How far from the start of an area of w blocks.
Relative(w, j1) ==
  LET x == (j1 * j1) \div 2 ^ IndexBits
  IN Bare(Bare(w - 1) - (w * x) \div 2 ^ IndexBits)

\* Where the area starts.
AreaStart(first, s, sl) == IF first \/ s = 3 THEN 0 ELSE (s + 1) * sl

RefLane(forced, l, j2, p) == IF forced THEN l ELSE j2 % p

PrevIndex(l, q, j) == IF j = 0 THEN l * q + Bare(q - 1) ELSE l * q + j - 1

\* The first two blocks of a lane are there from the start.
StartIndex(r, s) == IF r = 0 /\ s = 0 THEN 2 ELSE 0

\* In the first half of the first pass the words come from address blocks,
\* each made from the segment and a counter.
Independent(r, s) == r = 0 /\ s < 2

NoAddress == <<>>

Regenerated ==
  LET begins == at.index = StartIndex(at.pass, at.slice)
  IN IF Independent(at.pass, at.slice) /\ (begins \/ at.index % AddressWords = 0)
     THEN <<at.pass, at.lane, at.slice, at.index \div AddressWords + 1>>
     ELSE address

-----------------------------------------------------------------------------
None(x) ==
  /\ job = <<>> /\ ~ (Valid(x) /\ Fits(x))
  /\ obs' = <<"None", x>>
  /\ UNCHANGED <<job, at, address, mem>>

Begin(x) ==
  /\ job = <<>> /\ Valid(x) /\ Fits(x)
  /\ job' = x
  /\ at' = [pass |-> 0, slice |-> 0, lane |-> 0, index |-> StartIndex(0, 0)]
  /\ address' = NoAddress
  /\ mem' = [b \in 0 .. 2 ^ Levels(BlocksOf(x)) - 1 |->
               IF \E l \in 0 .. x.lanes - 1 : b - l * Columns(x) \in {0, 1} THEN 1 ELSE 0]
  /\ obs' = <<"Begin", x, InitBlock>>

\* One block: j1 and j2 are the two halves of the word that picks the block
\* referred to.
Fill(j1, j2) ==
  LET p == job.lanes
      q == Columns(job)
      sl == SegmentLength(job)
      first == at.pass = 0
      j == at.slice * sl + at.index
      new == Regenerated
      rl == RefLane(first /\ at.slice = 0, at.lane, j2, p)
      w == Area(first, at.slice, sl, q, at.index, rl = at.lane)
      ref == (rl * q) + ((AreaStart(first, at.slice, sl) + Relative(w, j1)) % q)
      cur == at.lane * q + j
  IN /\ job # <<>> /\ at.pass < job.passes /\ at.index < sl
     /\ address' = new
     /\ mem' = [mem EXCEPT ![cur] = @ + 1]
     /\ at' = [at EXCEPT !.index = @ + 1]
     /\ obs' = <<"Fill", cur, PrevIndex(at.lane, q, j), ref, w,
                 IF Independent(at.pass, at.slice) THEN <<new, at.index % AddressWords>>
                 ELSE <<NoAddress, 0>>,
                 (w * ((j1 * j1) \div 2 ^ IndexBits)) \div 2 ^ IndexBits>>
     /\ UNCHANGED job

\* Segment after segment, slice after slice and pass after pass.
NextSegment ==
  /\ job # <<>> /\ at.pass < job.passes /\ at.index >= SegmentLength(job)
  /\ LET lane == IF at.lane + 1 < job.lanes THEN at.lane + 1 ELSE 0
         slice == IF lane > 0 THEN at.slice ELSE (at.slice + 1) % 4
         pass == IF lane > 0 \/ slice > 0 THEN at.pass ELSE at.pass + 1
     IN at' = [pass |-> pass, slice |-> slice, lane |-> lane,
               index |-> StartIndex(pass, slice)]
  /\ address' = NoAddress
  /\ obs' = <<"NextSegment">>
  /\ UNCHANGED <<job, mem>>

\* The last column of all lanes goes into the tag.
Finish ==
  /\ job # <<>> /\ at.pass = job.passes
  /\ obs' = <<"Finish", {l * Columns(job) + Columns(job) - 1 : l \in 0 .. job.lanes - 1},
              HPrime(job.tag)>>
  /\ job' = <<>> /\ address' = NoAddress /\ mem' = <<>>
  /\ at' = [pass |-> 0, slice |-> 0, lane |-> 0, index |-> 0]

Init ==
  /\ job = <<>> /\ address = NoAddress /\ mem = <<>>
  /\ at = [pass |-> 0, slice |-> 0, lane |-> 0, index |-> 0]
  /\ obs = <<"New">>

Next ==
  \/ \E x \in Requests : None(x) \/ Begin(x)
  \/ \E j1, j2 \in Picks : Fill(j1, j2)
  \/ NextSegment \/ Finish

Spec == Init /\ [][Next]_vars

-----------------------------------------------------------------------------
(* What RFC 9106 says, and spec/crypto/argon2/argon2.bend with it.         *)

\* The columns of lane l that a block may refer to: those of finished slices
\* that are not being filled, and in its own lane those before it; but not the
\* block just before it, nor the one above that where a segment begins.
Window(l) ==
  LET q == Columns(job)
      sl == SegmentLength(job)
      begun == at.slice * sl
      own == l = at.lane
      finished == {c \in 0 .. q - 1 :
                     IF at.pass = 0 THEN c < begun ELSE c \notin begun .. begun + sl - 1}
      before == IF own THEN begun .. begun + at.index - 1 ELSE {}
  IN (finished \cup before)
     \ IF own \/ at.index = 0 THEN {(begun + at.index - 1) % q} ELSE {}

\* Column c of a lane was filled before column d.
Older(l, c, d) ==
  LET x == mem[l * Columns(job) + c]
      y == mem[l * Columns(job) + d]
  IN x < y \/ (x = y /\ c < d)

\* Is the block of this step made from the right blocks?
IsSettled(step) ==
  LET q == Columns(job)
      j == at.slice * SegmentLength(job) + at.index
      prev == step[3]
      ref == step[4]
      rl == ref \div q
      window == Window(rl)
  IN /\ step[2] = at.lane * q + j
     /\ prev \div q = at.lane /\ prev % q = (j - 1) % q
     /\ at.pass = 0 /\ at.slice = 0 => rl = at.lane
     /\ ref % q \in window /\ step[5] = Cardinality(window)
     /\ \A c \in window : mem[rl * q + c] > 0
     /\ Cardinality({c \in window : Older(rl, ref % q, c)}) = step[7]
     /\ at.pass = 0 /\ at.slice < 2 =>
          step[6] = << <<0, at.lane, at.slice, at.index \div AddressWords + 1>>,
                       at.index % AddressWords >>

\* The pieces give so many bytes, half of each digest but the last, which is
\* longer than a half unless it is the only one.
IsHash(pieces, length) ==
  LET n == Len(pieces)
      last == pieces[n]
  IN /\ length = 32 * (n - 1) + last.taken
     /\ \A i \in 1 .. n - 1 : pieces[i] = Piece(64, 32)
     /\ last.digest = last.taken /\ last.taken <= 64
     /\ n > 1 => last.taken > 32

\* Every block is made from the block before it and from one of the window that
\* the standard gives for the state of the memory, the k-th youngest of it,
\* which no other lane is about to fill in the same slice: so that filling the
\* lanes one after another gives what filling them in parallel gives.  At the
\* end every block was filled in every pass, and no memory that fits is refused
\* (step, area, rel, start,
\* prev_index, seg_go, slices_go, hp_pick).
ReferencesAreSettled ==
  [][ /\ obs'[1] = "Fill" => IsSettled(obs')
      /\ obs'[1] = "None" /\ Valid(obs'[2]) => BlocksOf(obs'[2]) > 2 ^ MaxLevels
      /\ obs'[1] = "Begin" => IsHash(obs'[3], 1024)
      /\ obs'[1] = "Finish" =>
           /\ \A b \in DOMAIN mem : mem[b] = IF b < BlocksOf(job) THEN job.passes ELSE 0
           /\ \A b \in obs'[2] : mem[b] = job.passes
           /\ Cardinality(obs'[2]) = job.lanes
           /\ IsHash(obs'[3], job.tag) ]_vars
=============================================================================
