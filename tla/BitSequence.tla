----------------------------- MODULE BitSequence -----------------------------
(***************************************************************************)
(* What packed bits promise: a sequence of bits read and written by        *)
(* position.  A list of bits also grows and shrinks at its end, within a   *)
(* limit if it has one; a set of bits keeps its length and combines with   *)
(* another of the same length.  A refused call changes nothing.            *)
(***************************************************************************)
EXTENDS Naturals, Sequences, FiniteSets

CONSTANTS Grows,  \* is the sequence a list?
          Room    \* a list that has no limit may refuse beyond this length

VARIABLES bits,   \* the bits; position i is bits[i + 1]
          limit,  \* the largest length, or "None"
          obs     \* the last call and its answer

vars == <<bits, limit, obs>>

Most == IF limit = <<"None">> THEN Room ELSE IF limit[2] < Room THEN limit[2] ELSE Room

Answer(call, result) == obs' = call \o result /\ UNCHANGED <<bits, limit>>

Read(i) ==
  \/ i < Len(bits) /\ Answer(<<"Get", i>>, <<"Done", bits[i + 1]>>)
  \/ i >= Len(bits) /\ Answer(<<"Get", i>>, <<"IndexOutOfRange">>)

Write(i, v) ==
  \/ i >= Len(bits) /\ Answer(<<"Assign", i, v>>, <<"IndexOutOfRange">>)
  \/ /\ i < Len(bits)
     /\ obs' = <<"Assign", i, v, "Done">>
     /\ bits' = [bits EXCEPT ![i + 1] = v] /\ UNCHANGED limit

Push(v) ==
  \/ Len(bits) >= Most /\ Answer(<<"Push", v>>, <<"Full">>)
  \/ /\ Len(bits) < Most
     /\ obs' = <<"Push", v, "Done">>
     /\ bits' = Append(bits, v) /\ UNCHANGED limit

Pop ==
  \/ bits = <<>> /\ Answer(<<"Pop">>, <<"Empty">>)
  \/ /\ bits # <<>>
     /\ obs' = <<"Pop", "Done", bits[Len(bits)]>>
     /\ bits' = SubSeq(bits, 1, Len(bits) - 1) /\ UNCHANGED limit

Clear == obs' = <<"Clear">> /\ bits' = <<>> /\ UNCHANGED limit

\* A list made of these bits, in place of the present one.
FromBools(bs) == obs' = <<"FromBools", bs>> /\ bits' = bs /\ limit' = <<"None">>

Together(k, x, y) ==
  CASE k = "Union" -> x \/ y
    [] k = "Intersection" -> x /\ y
    [] k = "Difference" -> x /\ ~ y
    [] k = "Xor" -> x # y

Combine(k, ys) ==
  \/ Len(ys) # Len(bits) /\ Answer(<<k, ys>>, <<"LengthMismatch">>)
  \/ /\ Len(ys) = Len(bits)
     /\ obs' = <<k, ys, "Done">>
     /\ bits' = [i \in DOMAIN bits |-> Together(k, bits[i], ys[i])]
     /\ UNCHANGED limit

Ones == { i \in DOMAIN bits : bits[i] }

\* The positions of the ones, in order.
Members ==
  LET upto[n \in 0 .. Len(bits)] ==
        IF n = 0 THEN <<>>
        ELSE IF bits[n] THEN Append(upto[n - 1], n - 1) ELSE upto[n - 1]
  IN upto[Len(bits)]

Look ==
  \/ Answer(<<"Length">>, <<Len(bits)>>)
  \/ Answer(<<"Limit">>, <<limit>>)
  \/ Answer(<<"Count">>, <<Cardinality(Ones)>>)
  \/ Answer(<<"ToList">>, <<bits>>)
  \/ Answer(<<"Members">>, <<Members>>)

BitInit ==
  /\ obs = <<"New">>
  /\ Grows => bits = <<>>
  /\ ~ Grows => \A i \in DOMAIN bits : ~ bits[i]

BitNext ==
  \/ Look
  \/ \E i \in 0 .. Len(bits) : Read(i) \/ \E v \in BOOLEAN : Write(i, v)
  \/ Grows /\ (\E v \in BOOLEAN : Push(v))
  \/ Grows /\ (Pop \/ Clear)
  \/ Grows /\ obs'[1] = "FromBools" /\ FromBools(obs'[2])
  \/ ~ Grows /\ obs'[1] \in {"Union", "Intersection", "Difference", "Xor"}
             /\ Combine(obs'[1], obs'[2])

BitSpec == BitInit /\ [][BitNext]_vars
=============================================================================
