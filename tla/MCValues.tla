------------------------------- MODULE MCValues -------------------------------
(***************************************************************************)
(* The parts that compute values, one of them in each behaviour: a hasher  *)
(* of real size over messages of up to 290 bytes, two blocks and more of   *)
(* each algorithm, in chunks about the size of a word, of a block and of   *)
(* what the padding leaves of one; a generator with groups of four words   *)
(* and keys of one, over more than two keys; bounded draws from words of   *)
(* four bits with three draws to a number and shuffles of four items; all  *)
(* words of two limbs of four bits; the tree hash with chunks of two       *)
(* blocks of two words, up to sixteen chunks; the functions on integers of *)
(* six bits; and memories of up to 32 blocks in up to three lanes.         *)
(***************************************************************************)
EXTENDS Naturals, Sequences

CONSTANTS Chunks, MaxMessage,
          GroupWords, KeyWords, WordSize, Seed, ByteCounts, WordCounts, MaxDrawn,
          WordBits, MostDraws, MaxItems,
          HalfBits, DigitBits, InverseSteps, LimbSteps, NibbleBits, Limbs, Moduli,
          WordsPerBlock, ChunkBlocks, Depths, ByteBits, BytePeriod, Multiplier, Seeds,
          Width, Fuel, SmallFrom, SmallBelow, Lists, ModuliOf,
          Requests, IndexBits, Picks, AddressWords, MaxLevels, MaxLanes, MaxSize

VARIABLES using,                      \* the part of this behaviour
          hasher, given, hobs,        \* the hasher
          gen, gobs,                  \* the generator
          call, slots, picks, dobs,   \* the draws
          acc, wobs,                  \* the words
          bobs,                       \* the tree hash
          reg, iobs,                  \* the integers
          job, at, address, mem, pobs \* the password hash

H == INSTANCE Hasher WITH obs <- hobs

G == INSTANCE Generator WITH obs <- gobs

D == INSTANCE BoundedDraws WITH obs <- dobs

W == INSTANCE WideWord WITH obs <- wobs

B == INSTANCE Blake3 WITH obs <- bobs

I == INSTANCE IntegerMath WITH obs <- iobs

P == INSTANCE Argon2 WITH obs <- pobs

ASSUME /\ G!GeneratorAssumption /\ D!DrawsAssumption /\ W!WideWordAssumption
       /\ B!Blake3Assumption /\ I!IntegerAssumption /\ P!Argon2Assumption

hasherVars == <<hasher, given, hobs>>
generatorVars == <<gen, gobs>>
drawVars == <<call, slots, picks, dobs>>
wordVars == <<acc, wobs>>
integerVars == <<reg, iobs>>
passwordVars == <<job, at, address, mem, pobs>>

all == <<using, hasherVars, generatorVars, drawVars, wordVars, bobs, integerVars,
         passwordVars>>

-----------------------------------------------------------------------------
ValuesInit ==
  /\ using \in {"hasher", "generator", "draws", "words", "tree", "integers", "password"}
  /\ H!Init /\ G!Init /\ D!Init /\ W!Init /\ B!Init /\ I!Init /\ P!Init
  /\ using # "hasher" => hasher = H!NewHasher("Sha256")

HasherNext ==
  /\ using = "hasher" /\ H!Next
  /\ UNCHANGED <<using, generatorVars, drawVars, wordVars, bobs, integerVars, passwordVars>>

GeneratorNext ==
  /\ using = "generator" /\ G!Next
  /\ UNCHANGED <<using, hasherVars, drawVars, wordVars, bobs, integerVars, passwordVars>>

DrawsNext ==
  /\ using = "draws" /\ D!Next
  /\ UNCHANGED <<using, hasherVars, generatorVars, wordVars, bobs, integerVars, passwordVars>>

WordsNext ==
  /\ using = "words" /\ W!Next
  /\ UNCHANGED <<using, hasherVars, generatorVars, drawVars, bobs, integerVars, passwordVars>>

TreeNext ==
  /\ using = "tree" /\ B!Next
  /\ UNCHANGED <<using, hasherVars, generatorVars, drawVars, wordVars, integerVars, passwordVars>>

IntegersNext ==
  /\ using = "integers" /\ I!Next
  /\ UNCHANGED <<using, hasherVars, generatorVars, drawVars, wordVars, bobs, passwordVars>>

PasswordNext ==
  /\ using = "password" /\ P!Next
  /\ UNCHANGED <<using, hasherVars, generatorVars, drawVars, wordVars, bobs, integerVars>>

ValuesNext ==
  HasherNext \/ GeneratorNext \/ DrawsNext \/ WordsNext \/ TreeNext
  \/ IntegersNext \/ PasswordNext

ValuesSpec == ValuesInit /\ [][ValuesNext]_all

\* The state without the last answers, on which no action depends.
State == <<using, hasher, given, gen, call, slots, picks, acc, reg, job, at, address, mem>>

MCDigitBits == <<2, 1, 1>>

Word(lo, hi) == [lo |-> lo, hi |-> hi]

\* Moduli of one limb and of two, with all low bits set or none, which is where
\* the estimate of a digit is furthest off.
MCModuli ==
  { Word(7, 0), Word(8, 0), Word(15, 0), Word(0, 1), Word(15, 1), Word(1, 4),
    Word(8, 7), Word(15, 7), Word(15, 15) }

Hash(t, m, p, tag, salt) ==
  [passes |-> t, memory |-> m, lanes |-> p, tag |-> tag, salt |-> salt]

\* Memories of two, three and five blocks to a segment and more, not all of them
\* multiples of the lanes, up to the largest; and parameters just out of range.
MCRequests ==
  {Hash(t, 8, 1, 64 + t, 8) : t \in 1 .. 3}
  \cup {Hash(2, m, 1, 4 * m, 8) : m \in {11, 12, 20, 24, 32}}
  \cup {Hash(3, m, 2, 3 * m, 9) : m \in {16, 24, 28}}
  \cup {Hash(2, m, 3, 97, 8) : m \in {24, 27}}
  \cup {Hash(1, 8, 0, 4, 8), Hash(0, 8, 1, 4, 8), Hash(1, 7, 1, 4, 8), Hash(1, 8, 1, 3, 8),
        Hash(1, 8, 1, 4, 7), Hash(1, 32, 4, 4, 8), Hash(1, 36, 1, 4, 8), Hash(1, 8, 1, 4, 8)}

MCLists == { <<>> } \cup { <<x, y>> : x, y \in {0, 1, 6, 9, 63} }

-----------------------------------------------------------------------------
\* Every digest, of one list or however the message was cut into chunks, and
\* also of a hasher that goes on being used, stands for the blocks of the
\* padded message (update, finish, tail_lanes, stream, fin0 .. fin63); every
\* BLAKE3 digest is the root of the paper's tree over the bytes of the message,
\* like that of the C hasher that the test vectors come from, which builds the
\* tree in another order (chunks, push, finish, last_chunk, main); and every
\* block of an Argon2 memory is made from blocks that no other lane is about to
\* fill, one of which is taken from the window of the standard (step, area, rel,
\* start, seg_go).
DigestsAreStandard ==
  H!DigestsAreStandard /\ B!TreesAreStandard /\ P!ReferencesAreSettled

\* No word of the stream is skipped, repeated or output after it has become a
\* part of a key, and no byte of a word that bytes were taken from is lost,
\* repeated or taken out of turn (next, fill_fast, rw, refill).
ImplementsStream == G!ImplementsStream

\* All numbers below a bound, and all orders of a shuffled list, are equally
\* likely: they come from equally many words, or are left by picks of their own
\* (thresh, retry_fast, ashuffle_go, collect).
DrawsAreUniform == D!DrawsAreUniform

\* Every operation on words of two limbs gives what plain integers give, with
\* no carry or borrow lost, every quotient digit corrected whatever its
\* estimate was, and a square root exact from any floating-point estimate
\* (add_fin, mul32_fin, q_fix, red96, isqrt_newton, redc); every function on
\* integers gives what mathematics says, and an overflow only if the result
\* does not fit, whatever was reduced, halved or squared on the way (pow_go,
\* gcd_bin, comb_next, search_go, inv_go).
AnswersAreExact == W!AnswersAreExact /\ I!FunctionsAreExact
=============================================================================
