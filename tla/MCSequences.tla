----------------------------- MODULE MCSequences ------------------------------
(***************************************************************************)
(* The containers that hold a sequence, one of them in each behaviour: a   *)
(* deque or a queue of at most six elements, a stack of at most nine with  *)
(* chunks of at most four slots, arrays of copied and of owned elements    *)
(* with limits below and beyond the largest depth, which is 3, and a list  *)
(* and a set of bits in words of two bits, up to eight and five bits.      *)
(***************************************************************************)
EXTENDS ArrayBlock, TLC

CONSTANTS Element,               \* the elements that are owned
          EndsLength,            \* the longest deque and queue
          StackDepth, StackLength,
          WordBits, WordsDepth, BitLimits, Sizes

VARIABLES using,                    \* the container of this behaviour
          d, dobs, dwork,           \* the deque
          q, qobs, qwork,           \* the queue
          chunks, sobs,             \* the stack
          da, aobs, awork,          \* the array of copied elements
          oa, held, released, oobs, \* the array of owned elements
          list, lobs,               \* the list of bits
          set, bobs                 \* the set of bits

D == INSTANCE Deque WITH MaxLength <- EndsLength, obs <- dobs, work <- dwork

Q == INSTANCE Queue WITH MaxLength <- EndsLength, obs <- qobs, work <- qwork

S == INSTANCE Stack WITH MaxDepth <- StackDepth, MaxLength <- StackLength, obs <- sobs

A == INSTANCE DynamicArray WITH obs <- aobs, work <- awork

O == INSTANCE OwnedArray WITH Value <- Element, da <- oa, obs <- oobs

Words == SUBSET (0 .. WordBits - 1)

L == INSTANCE Bitlist WITH Value <- Words, MaxDepth <- WordsDepth, obs <- lobs

B == INSTANCE Bitset WITH MaxDepth <- WordsDepth, obs <- bobs

ASSUME SequencesAssumption ==
  /\ S!StackAssumption
  /\ NoValue \notin Element /\ \A w \in Words : w # NoValue
  /\ EndsLength \in Nat
  /\ WordBits \in Nat \ {0} /\ WordsDepth \in Nat \ {0}
  /\ \A m \in BitLimits \ {L!None} : m[2] \in Nat /\ m = L!Some(m[2])
  /\ Sizes \subseteq 0 .. WordBits * 2 ^ WordsDepth

dequeVars == <<d, dobs, dwork>>
queueVars == <<q, qobs, qwork>>
stackVars == <<chunks, sobs>>
copiedVars == <<da, aobs, awork>>
ownedVars == <<oa, held, released, oobs>>
listVars == <<list, lobs>>
setVars == <<set, bobs>>

all == <<using, dequeVars, queueVars, stackVars, copiedVars, ownedVars, listVars, setVars>>

-----------------------------------------------------------------------------
\* A container that is not used is as small as it gets.
EachInit ==
  /\ using \in {"deque", "queue", "stack", "copied", "owned", "bitlist", "bitset"}
  /\ D!Init /\ Q!Init /\ S!Init /\ A!Init /\ O!Init /\ L!Init /\ B!Init
  /\ using # "copied" => da = NewArray(0)
  /\ using # "owned" => oa = NewArray(0)
  /\ using # "bitlist" => list = L!NewList(L!None)
  /\ using # "bitset" => set = B!NewSet(0)

DequeNext ==
  /\ using = "deque" /\ D!Next
  /\ UNCHANGED <<using, queueVars, stackVars, copiedVars, ownedVars, listVars, setVars>>

QueueNext ==
  /\ using = "queue" /\ Q!Next
  /\ UNCHANGED <<using, dequeVars, stackVars, copiedVars, ownedVars, listVars, setVars>>

StackNext ==
  /\ using = "stack" /\ S!Next
  /\ UNCHANGED <<using, dequeVars, queueVars, copiedVars, ownedVars, listVars, setVars>>

CopiedNext ==
  /\ using = "copied" /\ A!Next
  /\ UNCHANGED <<using, dequeVars, queueVars, stackVars, ownedVars, listVars, setVars>>

OwnedNext ==
  /\ using = "owned" /\ O!Next
  /\ UNCHANGED <<using, dequeVars, queueVars, stackVars, copiedVars, listVars, setVars>>

BitlistNext ==
  /\ using = "bitlist" /\ L!Next
  /\ UNCHANGED <<using, dequeVars, queueVars, stackVars, copiedVars, ownedVars, setVars>>

BitsetNext ==
  /\ using = "bitset" /\ B!Next
  /\ UNCHANGED <<using, dequeVars, queueVars, stackVars, copiedVars, ownedVars, listVars>>

EachNext ==
  \/ DequeNext \/ QueueNext \/ StackNext \/ CopiedNext \/ OwnedNext
  \/ BitlistNext \/ BitsetNext

EachSpec == EachInit /\ [][EachNext]_all

ValueSymmetry == Permutations(Value) \cup Permutations(Element)

\* The state without the last answers and costs, on which no action depends.
State == <<using, d, q, chunks, da, oa, held, released, list, set>>

MCBitLimits == { <<"None">>, <<"Some", 0>>, <<"Some", 1>>, <<"Some", 3>>, <<"Some", 5>> }

-----------------------------------------------------------------------------
\* Under the top chunk of a stack all chunks are full (push_full, pop_fin).
ChunksAreFull == S!ChunksAreFull

\* The blocks of arrays hold the elements at their lower end and nothing above
\* them: what a pop or a clear left there would come back into view after a
\* push (push_room, pop_len).  So emptying only the slots below the length
\* leaves what a fresh block of the same size would be (clear_go_at).
BlocksArePacked == A!BlockIsPacked /\ Packed(oa) /\ A!ClearsAgree

\* Stored bits beyond the length of a list or the size of a set are zero
\* (push_in, pop_bit, zip_go).
BitsAreMasked == L!TailIsZero /\ B!TailIsZero

\* Every owned element is in one slot, with the caller, or released, whatever
\* is refused, updated or drained (push_owned, update_owned, drain_len_owned).
EveryElementIsSomewhere == O!EveryElementIsSomewhere

\* Each container behaves as the sequence it promises, however its elements
\* are spread: over two lists (move_front, ready), over chunks (push_full), in
\* a block that doubles and never shrinks (reserve, update_owned), in bits of
\* words that stay when bits are popped (push_in, combine).
EachImplementsSequence ==
  /\ D!ImplementsEnds /\ Q!ImplementsEnds /\ S!ImplementsEnds
  /\ A!ImplementsVector /\ O!ImplementsVector
  /\ L!ImplementsBits /\ B!ImplementsBits

\* Calls take constant time when a history is taken together: what moving
\* elements between two lists, growing a block or clearing it costs was paid
\* for by earlier calls (split, ready, grown, clear_go_at).
CallsAreAmortized ==
  D!EndsAreAmortized /\ Q!EndsAreAmortized /\ A!PushesAreAmortized
=============================================================================
