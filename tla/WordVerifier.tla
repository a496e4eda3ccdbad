---------------------------- MODULE WordVerifier ----------------------------
(***************************************************************************)
(* The word proofs' low-degree argument: the prover folds the combined     *)
(* polynomial and commits to each layer under a chained transcript, and    *)
(* the verifier reads the header, the statement and then the openings of   *)
(* each stage in chunks, and checks every queried fold. The field is the   *)
(* integers modulo a small prime, a root is the word it commits to (see    *)
(* MerkleTree) and a chained state is the list of responses it absorbed.   *)
(***************************************************************************)
EXTENDS Integers, Sequences, SequencesExt, FiniteSets, FiniteSetsExt, Functions

CONSTANTS
    MODULUS, SHIFT,             \* the field and the generator that shifts the domain
    EVALUATION_DOMAIN_SIZE,     \* four times the witness rows
    Coefficients,               \* the combined polynomials, as sequences
    Scalars,                    \* the values a fold challenge may have
    Queries,                    \* the query sequences a proof may draw
    PublicColumns,              \* the relation's public columns: 0 or 1
    None

FieldAssumption ==
    /\ (MODULUS - 1) % EVALUATION_DOMAIN_SIZE = 0
    /\ \A c \in Coefficients : Len(c) = EVALUATION_DOMAIN_SIZE \div 2
    /\ PublicColumns \in {0, 1}
    /\ \A q \in Queries : Range(q) \subseteq 0..((EVALUATION_DOMAIN_SIZE \div 2) - 1)

VARIABLES
    \* The prover.
    fault,          \* what is wrong with the proof that is sent, or None
    coefficients,   \* the polynomial, folded as often as round says
    round,
    layers,         \* the committed fold layers
    chain,          \* the transcript's responses
    folds,          \* the fold challenges drawn so far
    queries,        \* the drawn queries, or None
    words,          \* the three oracles' and the public columns' values by stage
    \* The verifier.
    drawn,          \* the challenges it recomputed from the header, or None
    statement,      \* "open", "done" or "lost"
    stage, position,
    reading,        \* whether the stage's count is read next
    buffer,         \* the parts of the item being read
    values,         \* the values at the stage's indices
    expected,       \* the folded values the next layer must show
    rest,           \* a chunk beyond the proof or over the limit, once one was pushed
    failed, complete,
    verdict         \* what finish returned, or None

prover == <<fault, coefficients, round, layers, chain, folds, queries, words>>
verifier == <<drawn, statement, stage, position, reading, buffer, values, expected, rest, failed, complete, verdict>>
vars == <<prover, verifier>>

----
(* The field.                                                              *)

Field == 0..(MODULUS - 1)
Add(a, b) == (a + b) % MODULUS
Subtract(a, b) == ((a - b) + MODULUS) % MODULUS
Multiply(a, b) == (a * b) % MODULUS

Powers ==
    [b \in Field |->
        LET p[e \in 0..MODULUS] == IF e = 0 THEN 1 ELSE Multiply(b, p[e - 1])
        IN  [e \in 0..MODULUS |-> p[e]]]

Power(b, e) == Powers[b][e]
Inverse2(b) == Power(b, MODULUS - 2)
RootOf(length) == Power(SHIFT, (MODULUS - 1) \div length)
Half == Inverse2(2)

FOLDS == CHOOSE k \in 1..20 : 2 ^ (k + 1) = EVALUATION_DOMAIN_SIZE
LengthAt(r) == EVALUATION_DOMAIN_SIZE \div 2 ^ r

----
(* The prover.                                                             *)

\* The word of a polynomial on the coset: its scaled coefficients' transform.
Evaluated(c, length, coset) ==
    [i \in 0..(length - 1) |->
        LET x == Multiply(coset, Power(RootOf(length), i))
        IN  FoldLeft(LAMBDA total, k : Add(total, Multiply(c[k], Power(x, k - 1))), 0,
                     [k \in 1..Len(c) |-> k])]

CosetAt(r) == Power(SHIFT, (2 ^ r) % (MODULUS - 1))

\* The values whose sum with the third oracle's is the combined polynomial's.
Mask == 5
Evaluation == 2
Pattern(s) == [i \in 0..(EVALUATION_DOMAIN_SIZE - 1) |-> ((s + 1) * i + s) % MODULUS]
Third(c) ==
    LET combined == Evaluated(c, EVALUATION_DOMAIN_SIZE, SHIFT)
        public(i) == IF PublicColumns = 0 THEN 0 ELSE Subtract(Pattern(3)[i], Evaluation)
    IN  [i \in 0..(EVALUATION_DOMAIN_SIZE - 1) |->
            Subtract(Subtract(Subtract(combined[i], Pattern(0)[i]), Subtract(Pattern(1)[i], Mask)), public(i))]

\* A prover may commit to a word that differs at one point.
Deviated(word, s) ==
    IF fault # None /\ fault[1] = "deviate" /\ fault[2] = s
    THEN [word EXCEPT ![fault[3]] = Add(@, 1)] ELSE word

\* What each round's message answers: the round's root or the terminal, with
\* the mask sum in the second and the public evaluations in the third.
Response(header, r) ==
    <<header.salts[r]>> \o
    (CASE r = 1 -> <<header.roots[1]>>
       [] r = 2 -> <<header.roots[2], header.maskSum>>
       [] r = 3 -> IF PublicColumns > 0 THEN <<header.roots[3], header.evaluation>> ELSE <<header.roots[3]>>
       [] r = FOLDS + 3 -> <<header.terminal>>
       [] OTHER -> <<header.foldRoots[r - 3]>>)

Faults ==
    {None, <<"statement">>, <<"trailing">>}
    \cup {<<"header", item>> : item \in {"root", "maskSum", "salt", "foldRoot", "terminal", "evaluation", "publicRoot"}}
    \cup {<<"count", s>> : s \in 0..(1 + PublicColumns + FOLDS)}
    \cup {<<"row", s>> : s \in 0..(1 + PublicColumns + FOLDS)}
    \cup {<<"deviate", 0, i>> : i \in 0..(EVALUATION_DOMAIN_SIZE - 1)}
    \cup {<<"deviate", 3 + PublicColumns, i>> : i \in 0..(LengthAt(1) - 1)}

Init ==
    /\ fault \in Faults
    /\ coefficients \in Coefficients
    /\ round = 0 /\ layers = <<>> /\ folds = <<>> /\ queries = None
    /\ words = [s \in 0..(2 + PublicColumns) |->
                    Deviated(IF s = 2 THEN Third(coefficients) ELSE Pattern(s), s)]
    \* The three oracles' responses, the public root after them.
    /\ chain = [r \in 1..3 |-> <<0>> \o (CASE r = 1 -> <<words[0]>>
                                           [] r = 2 -> <<words[1], Mask>>
                                           [] r = 3 -> IF PublicColumns > 0 THEN <<words[2], Evaluation>> ELSE <<words[2]>>)]
    /\ drawn = None /\ statement = "open"
    /\ stage = 0 /\ position = 1 /\ reading = TRUE /\ buffer = 0
    /\ values = <<>> /\ expected = <<>> /\ rest = None
    /\ failed = FALSE /\ complete = FALSE /\ verdict = None

\* The folded polynomial: each even coefficient and its scaled odd one.
Folded(c, scalar) == [i \in 1..(Len(c) \div 2) |-> Add(c[2 * i - 1], Multiply(scalar, c[2 * i]))]

\* One round of Fri::create: the challenge, the fold, and the response with the
\* layer's root, or with the terminal value once two points are left.
FoldRound(scalar) ==
    /\ round < FOLDS
    /\ LET next == Folded(coefficients, scalar)
           length == LengthAt(round + 1)
           layer == Deviated(Evaluated(next, length, CosetAt(round + 1)), 3 + PublicColumns + round)
       IN  /\ coefficients' = next
           /\ IF length = 2
              THEN /\ layers' = layers
                   /\ chain' = Append(chain, <<0, next[1]>>)
              ELSE /\ layers' = Append(layers, layer)
                   /\ chain' = Append(chain, <<0, layer>>)
    /\ folds' = Append(folds, scalar)
    /\ round' = round + 1
    /\ UNCHANGED <<fault, queries, words, verifier>>

DrawQueries(q) ==
    /\ round = FOLDS /\ queries = None
    /\ queries' = q
    /\ UNCHANGED <<fault, coefficients, round, layers, chain, folds, words, verifier>>

\* The header the prover writes, and the one that is sent.
Written ==
    [roots |-> <<words[0], words[1], words[2]>>, maskSum |-> Mask, salts |-> [r \in 1..(FOLDS + 3) |-> 0],
     foldRoots |-> layers, terminal |-> coefficients[1], evaluation |-> Evaluation,
     publicRoot |-> IF PublicColumns = 0 THEN <<>> ELSE words[3]]

Changed(word) == [i \in DOMAIN word |-> Add(word[i], 1)]

Sent ==
    IF fault = None \/ fault[1] # "header" THEN Written
    ELSE CASE fault[2] = "root" -> [Written EXCEPT !.roots[2] = Changed(@)]
           [] fault[2] = "maskSum" -> [Written EXCEPT !.maskSum = Add(@, 1)]
           [] fault[2] = "salt" -> [Written EXCEPT !.salts[4] = 1]
           [] fault[2] = "foldRoot" -> [Written EXCEPT !.foldRoots[1] = Changed(@)]
           [] fault[2] = "terminal" -> [Written EXCEPT !.terminal = Add(@, 1)]
           [] fault[2] = "evaluation" -> [Written EXCEPT !.evaluation = Add(@, PublicColumns)]
           [] fault[2] = "publicRoot" -> [Written EXCEPT !.publicRoot = Changed(@)]

\* Both sides' requested indices: each query and its partner, sorted once.
Requested(q, length) ==
    SetToSortSeq(UNION {{q[k] % (length \div 2), (q[k] % (length \div 2)) + (length \div 2)} : k \in DOMAIN q}, <)

----
(* The verifier.                                                           *)

\* The chained states the verifier recomputes from the header.
Chained(header, r) == [k \in 1..r |-> Response(header, k)]

\* Open: the challenges follow from the header alone; one whose chained state
\* differs from the prover's is drawn afresh.
Open(scalars, q) ==
    /\ queries # None /\ drawn = None
    /\ \A k \in 1..FOLDS : Chained(Sent, k + 2) = SubSeq(chain, 1, k + 2) => scalars[k] = folds[k]
    /\ Chained(Sent, FOLDS + 3) = chain => q = queries
    /\ drawn' = [folds |-> scalars, queries |-> q]
    /\ UNCHANGED <<prover, statement, stage, position, reading, buffer, values, expected, rest, failed, complete, verdict>>

\* The parser refuses a statement it cannot read.
PushStatement ==
    /\ drawn # None /\ ~failed /\ statement = "open" /\ verdict = None
    /\ fault = <<"statement">>
    /\ failed' = TRUE
    /\ UNCHANGED <<prover, drawn, statement, stage, position, reading, buffer, values, expected, rest, complete, verdict>>

\* Mutant: the public root is left out of the statement's digest.
RootlessFinish ==
    /\ drawn # None /\ ~failed /\ statement = "open" /\ verdict = None
    /\ statement' = IF fault = <<"statement">> THEN "lost" ELSE "done"
    /\ UNCHANGED <<prover, drawn, stage, position, reading, buffer, values, expected, rest, failed, complete, verdict>>

\* The parser recomputes the declared digest, which covers the statement and the
\* header's public root; one that does not give it is taken and leaves no operator.
FinishStatement ==
    /\ drawn # None /\ ~failed /\ statement = "open" /\ verdict = None
    /\ statement' = IF fault = <<"statement">> \/ Sent.publicRoot # Written.publicRoot
                  THEN "lost" ELSE "done"
    /\ UNCHANGED <<prover, drawn, stage, position, reading, buffer, values, expected, rest, failed, complete, verdict>>

FirstFold == 2 + PublicColumns

\* stage_shape: each stage's length and committed word.
StageLength(s) == IF s <= FirstFold THEN EVALUATION_DOMAIN_SIZE ELSE EVALUATION_DOMAIN_SIZE \div 2 ^ (s - FirstFold)
StageRoot(s) == IF s < 3 THEN Sent.roots[s + 1]
                ELSE IF s = 3 /\ PublicColumns > 0 THEN Sent.publicRoot
                ELSE Sent.foldRoots[s - FirstFold]

\* The word the prover opens at a stage.
Opened(s) == IF s <= FirstFold THEN words[s] ELSE layers[s - FirstFold]

\* The indices the prover opens and the ones the verifier waits for.
Indices == Requested(drawn.queries, StageLength(stage))
OpenedIndices(s) == Requested(queries, StageLength(s))

\* An item has one part when it is a count and two when it is a record.
RequiredParts == IF reading THEN 1 ELSE 2

LastStage == FirstFold + FOLDS - 1

\* The first fold round's index of a stage, counted from zero.
RoundAt(s) == s - FirstFold

\* The inverse of a fold round's point.
InverseFoldPoint(r, index) ==
    Multiply(Inverse2(CosetAt(r)),
             Power(RootOf(EVALUATION_DOMAIN_SIZE), (EVALUATION_DOMAIN_SIZE - index * 2 ^ r) % EVALUATION_DOMAIN_SIZE))

\* A pair's folded value.
FoldedPair(r, index, left, right) ==
    Add(Multiply(Add(left, right), Half),
        Multiply(drawn.folds[r + 1],
                 Multiply(Subtract(left, right), Multiply(Half, InverseFoldPoint(r, index)))))

\* The value an authenticated row leaves at its position.
Read(s, index, row) ==
    CASE s = 0 -> row
      [] s = 1 -> Add(values[position], Subtract(row, Sent.maskSum))
      [] s = 2 -> Add(values[position], row)
      [] s = 3 /\ PublicColumns > 0 -> Add(values[position], Subtract(row, Sent.evaluation))
      [] OTHER -> row

\* Mutant: only a layer's first folded value is compared.
FirstFoldShown(s, index, row) ==
    s > FirstFold /\ index \in DOMAIN expected /\ (\A i \in DOMAIN expected : index <= i) => expected[index] = row

\* A fold layer's row must show the folded value where one is expected.
FoldShown(s, index, row) == s > FirstFold /\ index \in DOMAIN expected => expected[index] = row

\* opening: the row must be the next index's, and authentic under the root.
Accepts(index, row) ==
    /\ index = Indices[position]
    /\ StageRoot(stage)[index] = row
    /\ FoldShown(stage, index, row)

\* The values of the stage's pairs folded at the lower indices.
FoldedValues(final) ==
    LET length == StageLength(stage)
        at(index) == final[CHOOSE k \in DOMAIN Indices : Indices[k] = index]
    IN  [index \in {i \in Range(Indices) : i < length \div 2} |->
            FoldedPair(RoundAt(stage), index, at(index), at(index + (length \div 2)))]

Fail == /\ failed' = TRUE
        /\ values' = <<>>
        /\ UNCHANGED <<stage, position, reading, expected, complete>>

TerminalShown(final) == \A i \in DOMAIN FoldedValues(final) : FoldedValues(final)[i] = Sent.terminal

\* advance: the next stage's indices, and past the oracles the folds.
Advance(final) ==
    IF stage < FirstFold
    THEN /\ stage' = stage + 1 /\ position' = 1 /\ reading' = TRUE
         /\ values' = final
         /\ UNCHANGED <<expected, failed, complete>>
    ELSE IF stage = LastStage
    THEN IF TerminalShown(final)
         THEN complete' = TRUE /\ values' = <<>> /\ UNCHANGED <<stage, position, reading, expected, failed>>
         ELSE Fail
    ELSE /\ stage' = stage + 1 /\ position' = 1 /\ reading' = TRUE
         /\ expected' = FoldedValues(final)
         /\ values' = <<>>
         /\ UNCHANGED <<failed, complete>>

\* The part of an item that is pushed, and whether it completes the item.
Buffer == /\ buffer' = buffer + 1
          /\ UNCHANGED <<stage, position, reading, values, expected, failed, complete>>

Count ==
    /\ buffer' = 0
    /\ IF fault # <<"count", stage>> /\ Len(OpenedIndices(stage)) = Len(Indices)
       THEN reading' = FALSE /\ UNCHANGED <<stage, position, values, expected, failed, complete>>
       ELSE Fail

Record ==
    /\ buffer' = 0
    /\ LET index == OpenedIndices(stage)[position]
           row == IF fault = <<"row", stage>> /\ position = 1 THEN Add(Opened(stage)[index], 1) ELSE Opened(stage)[index]
           after == IF stage = 0 \/ stage > FirstFold THEN Append(values, Read(stage, index, row))
                    ELSE [values EXCEPT ![position] = Read(stage, index, row)]
       IN  IF ~Accepts(index, row) THEN Fail
           ELSE IF position = Len(Indices) THEN Advance(after)
           ELSE /\ position' = position + 1
                /\ values' = after
                /\ UNCHANGED <<stage, reading, expected, failed, complete>>

\* push_proof, one part at a time: the loop over a longer chunk keeps nothing
\* between its parts. Bytes after the last stage fail the proof.
PushProof ==
    /\ drawn # None /\ ~failed /\ verdict = None
    /\ statement = "done" /\ ~complete
    /\ IF buffer + 1 < RequiredParts THEN Buffer ELSE IF reading THEN Count ELSE Record
    /\ UNCHANGED <<prover, drawn, statement, rest, verdict>>

PushTrailing ==
    /\ drawn # None /\ ~failed /\ verdict = None
    /\ complete /\ fault = <<"trailing">> /\ rest = None
    /\ rest' = "pushed"
    /\ failed' = TRUE /\ values' = <<>>
    /\ UNCHANGED <<prover, drawn, statement, stage, position, reading, buffer, expected, complete, verdict>>

\* A chunk over the limit fails either phase.
PushTooLong ==
    /\ drawn # None /\ ~failed /\ verdict = None
    /\ failed' = TRUE
    /\ rest' = "tooLong"
    /\ values' = <<>>
    /\ UNCHANGED <<prover, drawn, statement, stage, position, reading, buffer, expected, complete, verdict>>

\* Every byte of the proof was pushed.
Exhausted == complete /\ (fault = <<"trailing">> => rest = "pushed")

Finish ==
    /\ drawn # None /\ verdict = None
    /\ verdict' = (~failed /\ statement = "done" /\ complete /\ buffer = 0)
    /\ UNCHANGED <<prover, drawn, statement, stage, position, reading, buffer, values, expected, rest, failed, complete>>

Done == verdict # None /\ UNCHANGED vars

Next ==
    \/ \E scalar \in Scalars : FoldRound(scalar)
    \/ \E q \in Queries : DrawQueries(q)
    \/ \E scalars \in [1..FOLDS -> Scalars], q \in Queries : Open(scalars, q)
    \/ PushStatement \/ FinishStatement \/ PushProof \/ PushTrailing \/ PushTooLong \/ Finish
    \/ Done

Spec == Init /\ [][Next]_vars

----
TypeOK ==
    /\ fault \in Faults
    /\ round \in 0..FOLDS
    /\ statement \in {"open", "done", "lost"}
    /\ stage \in 0..LastStage
    /\ reading \in BOOLEAN /\ failed \in BOOLEAN /\ complete \in BOOLEAN
    /\ verdict \in BOOLEAN \cup {None}

\* The point of the evaluation domain, or of a fold layer's, at the index.
PointAt(r, index) == Multiply(CosetAt(r), Power(RootOf(LengthAt(r)), index % LengthAt(r)))

\* An intact proof of an intact statement never fails and is accepted once all
\* of it was read and not before, for every polynomial, challenge and query, with and without
\* public columns: the verifier's folds at the queried points are the prover's
\* layers (Fri::create, Coset,
\* Verifier::opening, advance, finish).
IntactAccepted ==
    fault = None /\ rest = None => ~failed /\ (verdict # None => (verdict <=> Exhausted))

\* The fold whose pairs hold a deviating point, counted from zero.
DeviatingFold == RoundAt(IF fault[2] = 0 THEN FirstFold ELSE fault[2])

\* A proof whose statement, header, counts or rows were changed, or that has
\* bytes after its end, is refused; changed salts give fresh fold challenges,
\* so those proofs are accepted only when they repeat the prover's
\* (Verifier::push_proof, finish_statement, challenges).
ChangedRefused ==
    verdict = TRUE /\ fault # None /\ fault[1] # "deviate" =>
        \/ fault = <<"trailing">> /\ rest = None
        \/ fault[1] = "header" /\ Sent = Written
        \/ fault = <<"header", "salt">> /\ drawn = [folds |-> folds, queries |-> queries]

\* A prover that commits to a word off its polynomial at an opened point is
\* accepted only under the one challenge of that fold that cancels the point
\* (Verifier::advance, requested).
DeviationCaught ==
    verdict = TRUE /\ fault # None /\ fault[1] = "deviate" =>
        \/ fault[3] \notin Range(Requested(drawn.queries, StageLength(fault[2])))
        \/ drawn.folds[DeviatingFold + 1] = Subtract(0, PointAt(DeviatingFold, fault[3]))

\* Every item of the header binds the proof: the public root through the
\* statement's digest, every other one because it is absorbed before the queries
\* are drawn, a fold layer's root before the fold that reads it
\* (challenges, Transcript::respond, SetupStatementStream::finish).
HeaderBound ==
    drawn # None =>
        /\ Sent # Written => \/ Chained(Sent, FOLDS + 3) # chain
                             \/ Sent.publicRoot # Written.publicRoot /\ statement # "done"
        /\ \A k \in 1..(FOLDS - 1) : Sent.foldRoots[k] # layers[k] => Chained(Sent, k + 3) # SubSeq(chain, 1, k + 3)

====
