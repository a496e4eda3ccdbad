---------------------------- MODULE WitnessLayout ----------------------------
(***************************************************************************)
(* The prover fills witness columns by position and the verifier reads     *)
(* them by position; nothing in a proof names a column.  The setup prover  *)
(* (setup-witness) appends columns and polynomials as its caller drives it *)
(* through gadgets and recipients; the verifier (statement-stream) counts   *)
(* columns while it writes the equations; the relation (supported-profile)  *)
(* computes the same counts in closed form.  A column holds a piece of a    *)
(* variable: the bits from shift of v + 2^(width-1), or one sign of a       *)
(* sparse v (width 0) with its half support.  Field weights appear through  *)
(* their exponents only.                                                    *)
(***************************************************************************)
EXTENDS Integers, Sequences, FiniteSets, SequencesExt, FiniteSetsExt

CONSTANTS Profiles,     \* the profiles' table records a contribution may be for
          MaximumCall,  \* calls name gadgets and recipients 0..MaximumCall
          None          \* no accumulator yet

(* The share modulus has this many bits, whatever the profile. *)
ShareModulusBits == 158

LayoutAssumption == MaximumCall \in Nat

VARIABLES profile,      \* the contribution's profile
          witness,      \* [words, booleans]: the columns appended so far
          rows,         \* the equation of each key and share computed so far
          outputs,      \* the polynomials written to the output, in order
          nextGadget, commonShare, nextRecipient, finished,
          firstError,   \* the registered encryption error is not used yet
          columns,      \* the columns taken, or << >>
          consumed,     \* into_columns took the contribution
          answer,       \* what the last call returned
          verifier      \* the accumulator that writes the equations, or None

prover == <<profile, witness, rows, outputs, nextGadget, commonShare, nextRecipient,
            finished, firstError, columns, consumed, answer>>
vars == <<prover, verifier>>

----
(* The sizes every prover and verifier takes from the supported profile:   *)
(* the setup polynomials and their order, the widths of the witness        *)
(* variables, and the word relation of each proof (setup, setup linked to  *)
(* its encrypted source, ballot, release).  A profile is the record of the *)
(* table's widths: the moduli appear only through their bit lengths.       *)

Degree == 65536
FheLimbBits == 96
GadgetBaseBits == 88
GadgetPolynomials == 7
GadgetKeyComponents == <<1, 2, 4, 6>>
FheSecretSupport == 1024
ShareEphemeralSupport == 256
AuxiliarySecretSupport == 256
RecipientSecretSupport == 256
SetupQuotientBits == 16
SetupFheCarryBits == 16
SetupErrorBits == 7
WordBits == 16
ReleaseLimbBits == 48
ReleaseCarryBits == 72
ReleaseDecodingErrorBits == 24
ReleaseDecodingCarryBits == 30
MaximumScore == 10
QueryCount == 704
Masks == 2 * QueryCount + 1
Systematic == Degree
MaximumDegree == 2 * Systematic - 1
WitnessDegree == Systematic + Masks - 1
SumDegree == 2 * Systematic + Masks - 2
AddedWords == 8

DivCeil(a, b) == (a + b - 1) \div b
NextPowerOfTwo(n) == Min({k \in {2 ^ i : i \in 0..30} : k >= n})
Log2(n) == Max({i \in 0..30 : 2 ^ i <= n})
Repeat(x, n) == [i \in 1..n |-> x]
(* The sum of f over the first n elements of a sequence: the size of the   *)
(* union of disjoint sets of these sizes.                                  *)
SumOf(f(_), seq, n) == Cardinality(UNION {{i} \X (1..f(seq[i])) : i \in 1..n})

----
(* The profile's closed-form sizes. *)

GadgetLength(p) == DivCeil(p.ciphertext, GadgetBaseBits)
FheLimbs(p) == DivCeil(p.ciphertext, FheLimbBits)
MaximumCorrupt(p) == (p.participants - 1) \div 3
SharingDegree(p) == Max({MaximumCorrupt(p) + 1, 2}) - 1
InterpolationDegree(p) == NextPowerOfTwo(DivCeil(p.participants, 2))

SetupPolynomials(p) == GadgetPolynomials * GadgetLength(p) + 3 * p.participants + 1
FhePolynomial(g, component) == GadgetPolynomials * g + component
ShareCommonPolynomial(p) == GadgetPolynomials * GadgetLength(p)
RecipientKeyPolynomial(p, r) == ShareCommonPolynomial(p) + 1 + 3 * r
ShareConstantPolynomial(p, r) == RecipientKeyPolynomial(p, r) + 1
ShareLinearPolynomial(p, r) == RecipientKeyPolynomial(p, r) + 2

(* The polynomials a contribution carries and the ones of them that its    *)
(* public oracle commits.                                                  *)
ContributionBodyPolynomials(p) ==
  FlattenSeq([g \in 1..GadgetLength(p) |->
               [i \in 1..4 |-> FhePolynomial(g - 1, GadgetKeyComponents[i])]])
  \o FlattenSeq([r \in 1..p.participants |->
                  <<ShareConstantPolynomial(p, r - 1), ShareLinearPolynomial(p, r - 1)>>])
CommittedPolynomials(p) ==
  SelectSeq(ContributionBodyPolynomials(p),
            LAMBDA k : k < ShareCommonPolynomial(p) /\ k # FhePolynomial(0, 1))
CommittedColumns(p) == Len(CommittedPolynomials(p)) * FheLimbs(p)

(* The widths of the signed setup variables, in allocation order. *)
SetupVariableBits(p) ==
  FlattenSeq(Repeat(<<p.limb, p.sharing - p.limb>>, SharingDegree(p)))
  \o FlattenSeq(Repeat(<<SetupQuotientBits>> \o Repeat(SetupFheCarryBits, FheLimbs(p) - 1)
                       \o <<SetupErrorBits>>, 4 * GadgetLength(p)))
  \o FlattenSeq(Repeat(<<SetupQuotientBits, p.carry, SetupErrorBits,
                         SetupQuotientBits, SetupFheCarryBits, SetupErrorBits>>,
                       p.participants))

(* A variable narrower than a word takes one narrow word; a wider one takes *)
(* its whole words and one Boolean for each remaining bit.                  *)
WordsOf(bits) == IF bits < WordBits THEN 1 ELSE bits \div WordBits
BooleansOf(bits) == IF bits < WordBits THEN 0 ELSE bits % WordBits
SparseSupports(p) ==
  Repeat(FheSecretSupport \div 2, 2) \o Repeat(ShareEphemeralSupport \div 2, p.participants)
ShapeOf(bits, supports) ==
  LET n == Len(bits)
      narrow == SelectSeq([i \in 1..n |-> i], LAMBDA i : bits[i] < WordBits)
  IN [words |-> SumOf(WordsOf, bits, n),
      booleans |-> 2 * Len(supports) + SumOf(BooleansOf, bits, n),
      narrow |-> [j \in 1..Len(narrow) |->
                   <<SumOf(WordsOf, bits, narrow[j] - 1), bits[narrow[j]]>>]]
SetupShape(p) == ShapeOf(SetupVariableBits(p), SparseSupports(p))

(* The widths of the signed release variables, in allocation order. *)
ReleasePublicLimbs(p) == DivCeil(p.release, ReleaseLimbBits)
ReleaseOutputLimbs(p) ==
  ReleasePublicLimbs(p) + Max({DivCeil(p.rshare, ReleaseLimbBits),
                               DivCeil(p.rquotient, ReleaseLimbBits)}) - 1
ReleaseVariableBits(p) ==
  <<SetupQuotientBits, SetupFheCarryBits, SetupErrorBits, p.rshare,
    ReleaseDecodingErrorBits, SetupQuotientBits, ReleaseDecodingCarryBits,
    p.noise, p.rquotient>> \o Repeat(ReleaseCarryBits, ReleaseOutputLimbs(p) - 1)
ReleaseWords(bits) == DivCeil(bits, WordBits)
ReleaseVariableStarts(p) ==
  LET bits == ReleaseVariableBits(p)
  IN [i \in 1..Len(bits) |-> SumOf(ReleaseWords, bits, i - 1)]

----
(* A relation: words, Booleans, public columns, the narrow columns with the *)
(* factor that scales each to a whole word, the pairs whose products vanish *)
(* and the half supports of the first of them.                              *)

NarrowFactor(bits) == 2 ^ (WordBits - bits)
Columns(r) == r.words + r.booleans
Lookups(r) == r.words + Len(r.narrow)
OriginalOracles(r) == Columns(r) + Lookups(r) + 4
WordOracles(r) == OriginalOracles(r) + r.booleans + Len(r.pairs) + Lookups(r) + 2
Oracles(r) == WordOracles(r) + 2 * r.public
FirstWidth(r) == (Columns(r) + 1) * 16 + 48
SecondWidth(r) == (Lookups(r) + 2) * 48
MinimumMessageBytes(r) ==
  NextPowerOfTwo(Max({96 * (2 * Oracles(r) + 1), 4 * QueryCount, SecondWidth(r)}))
Degrees(r) ==
  Repeat(WitnessDegree, Columns(r) + Lookups(r) + 3)
  \o <<SumDegree - Systematic>>
  \o Repeat(2 * WitnessDegree - Systematic, r.booleans + Len(r.pairs) + Lookups(r))
  \o <<WitnessDegree - 1, Systematic - 2>>
  \o FlattenSeq(Repeat(<<Systematic - 1, Systematic - 2>>, r.public))

(* The most siblings a multiproof of so many openings carries. *)
MaximumSiblings(length, openings) ==
  SumOf(LAMBDA level : Min({openings, length \div 2 ^ level}),
        [i \in 1..Log2(length) |-> i], Log2(length))

RelationOf(shape, public, supports) ==
  [words |-> shape.words, booleans |-> shape.booleans, public |-> public,
   narrow |-> [i \in 1..Len(shape.narrow) |->
                <<shape.narrow[i][1], NarrowFactor(shape.narrow[i][2])>>],
   pairs |-> [i \in 1..Len(supports) |->
               <<shape.words + 2 * (i - 1), shape.words + 2 * (i - 1) + 1>>],
   supports |-> supports]
SetupRelation(p) == RelationOf(SetupShape(p), CommittedColumns(p), SparseSupports(p))

(* The setup relation with its encrypted source: eight words after the old *)
(* ones and two Booleans after the old ones.                               *)
Remap(column, oldWords) == IF column < oldWords THEN column ELSE column + AddedWords
OriginalErrorColumn(p) ==
  SharingDegree(p) * (WordsOf(p.limb) + WordsOf(p.sharing - p.limb)) + FheLimbs(p)
Linked(old) ==
  LET words == old.words + AddedWords
      ephemeral == words + old.booleans
  IN [old EXCEPT
        !.words = words, !.booleans = @ + 2,
        !.pairs = [i \in 1..Len(@) |-> <<Remap(@[i][1], old.words), Remap(@[i][2], old.words)>>]
                  \o <<<<ephemeral, ephemeral + 1>>>>,
        !.supports = @ \o <<AuxiliarySecretSupport \div 2>>,
        !.narrow = @ \o [c \in 1..4 |-> <<old.words + 2 * (c - 1) + 1, 512>>]]
LinkedRelation(p) == Linked(SetupRelation(p))

FheQuotient(p, component) == component * (FheLimbs(p) + 1)
FheCarry(p, component, carry) == FheQuotient(p, component) + 1 + carry
FheError(p, component) == FheQuotient(p, component) + FheLimbs(p)
PlaintextColumn(p) == 2 * (FheLimbs(p) + 1)
PackingQuotient(p) == PlaintextColumn(p) + 2
ScoresColumn(p) == PlaintextColumn(p) + 3
AuxiliaryQuotient(p, component) == ScoresColumn(p) + 1 + 2 * component
AuxiliaryError(p, component) == AuxiliaryQuotient(p, component) + 1
BallotWords(p) == ScoresColumn(p) + 5
BallotRelation(p) ==
  [words |-> BallotWords(p), booleans |-> 4, public |-> 0,
   narrow |-> <<<<FheError(p, 0), NarrowFactor(SetupErrorBits)>>,
                <<FheError(p, 1), NarrowFactor(SetupErrorBits)>>,
                <<AuxiliaryError(p, 0), NarrowFactor(SetupErrorBits)>>,
                <<AuxiliaryError(p, 1), NarrowFactor(SetupErrorBits)>>,
                <<ScoresColumn(p), (2 ^ WordBits - 1) \div (MaximumScore - 1)>>>>,
   pairs |-> <<<<BallotWords(p), BallotWords(p) + 1>>,
               <<BallotWords(p) + 2, BallotWords(p) + 3>>>>,
   supports |-> <<FheSecretSupport \div 2, AuxiliarySecretSupport \div 2>>]

ReleaseRelation(p) ==
  LET bits == ReleaseVariableBits(p)
      starts == ReleaseVariableStarts(p)
      words == SumOf(ReleaseWords, bits, Len(bits))
      narrow == SelectSeq([i \in 1..Len(bits) |-> i], LAMBDA i : bits[i] % WordBits # 0)
  IN [words |-> words, booleans |-> 2, public |-> 0,
      narrow |-> [j \in 1..Len(narrow) |->
                   <<starts[narrow[j]] + ReleaseWords(bits[narrow[j]]) - 1,
                     NarrowFactor(bits[narrow[j]] % WordBits)>>],
      pairs |-> <<<<words, words + 1>>>>,
      supports |-> <<RecipientSecretSupport \div 2>>]

Var(name, i, j) == [name |-> name, i |-> i, j |-> j]
Secret == Var("secret", 0, 0)
AuxiliarySecret == Var("auxiliary", 0, 0)
Ephemeral(r) == Var("ephemeral", r, 0)
(* The quotient, carries and error of equation e, keys first, then shares. *)
Quotient(e) == Var("quotient", e, 0)
Carry(e, l) == Var("carry", e, l)
Error(e) == Var("error", e, 0)
(* The error of the registered encryption, which the first key repeats. *)
RegisteredError == Var("registered error", 0, 0)

----
(* The prover. *)

Piece(v, shift, width) == [v |-> v, shift |-> shift, sign |-> 1, width |-> width, half |-> 0]
SparsePair(v, support) ==
  [k \in 1..2 |-> [v |-> v, shift |-> 0, sign |-> IF k = 1 THEN 1 ELSE -1, width |-> 0,
                   half |-> support \div 2]]

(* One narrow word, or whole words below a Boolean for each bit left. *)
SignedWords(v, width) ==
  [k \in 1..(IF width < 16 THEN 1 ELSE width \div 16) |-> Piece(v, 16 * (k - 1), width)]
SignedBooleans(v, width) ==
  [k \in 1..(IF width < 16 THEN 0 ELSE width % 16) |->
    Piece(v, 16 * (width \div 16) + k - 1, width)]
(* Appends the columns of signed variables, each with its width, in order. *)
Signed(w, list) ==
  [words |-> w.words \o FlattenSeq([i \in 1..Len(list) |->
                                     SignedWords(list[i][1], list[i][2])]),
   booleans |-> w.booleans \o FlattenSeq([i \in 1..Len(list) |->
                                           SignedBooleans(list[i][1], list[i][2])])]

Create(p) ==
  LET sparse == <<<<Secret, FheSecretSupport>>, <<AuxiliarySecret, FheSecretSupport>>>>
                \o [r \in 1..p.participants |-> <<Ephemeral(r - 1), ShareEphemeralSupport>>]
      sharing == FlattenSeq([i \in 1..SharingDegree(p) |->
                   <<<<Var("low", i - 1, 0), p.limb>>,
                     <<Var("high", i - 1, 0), p.sharing - p.limb>>>>])
  IN Signed([words |-> << >>,
             booleans |-> FlattenSeq([i \in 1..Len(sparse) |->
                                       SparsePair(sparse[i][1], sparse[i][2])])], sharing)

(* The label a common polynomial is sampled under; no other has one. *)
CommonSource(p, index) ==
  LET component == index % GadgetPolynomials
  IN CASE index < ShareCommonPolynomial(p) /\ component \in {0, 3, 5} ->
            {[kind |-> CASE component = 0 -> "a" [] component = 3 -> "u" [] OTHER -> "k",
              i |-> index \div GadgetPolynomials]}
       [] index = ShareCommonPolynomial(p) -> {[kind |-> "common-share", i |-> 0]}
       [] OTHER -> {}
CommonOutput(p, index) == CHOOSE source \in CommonSource(p, index) : TRUE
Value(e) == [kind |-> "value", i |-> e]
RecipientKey(r) == [kind |-> "recipient", i |-> r]

(* The row an equation's carries close: each operand with its sign. *)
KeyError(e, first) == IF e = 0 /\ first THEN RegisteredError ELSE Error(e)
KeyRow(p, e, first, common, left, direct) ==
  [common |-> common, secret |-> left, value |-> Value(e), valueSign |-> 1,
   direct |-> direct, message |-> {}, quotient |-> Quotient(e),
   carries |-> [l \in 1..FheLimbs(p) - 1 |-> Carry(e, l)],
   error |-> KeyError(e, first), errorSign |-> -1]
\* Mutant: the error is written before the carries.
KeyErrorFirst(p, e, first) ==
  <<<<Quotient(e), SetupQuotientBits>>, <<KeyError(e, first), SetupErrorBits>>>>
  \o [l \in 1..FheLimbs(p) - 1 |-> <<Carry(e, l), SetupFheCarryBits>>]
Key(p, e, first) ==
  <<<<Quotient(e), SetupQuotientBits>>>>
  \o [l \in 1..FheLimbs(p) - 1 |-> <<Carry(e, l), SetupFheCarryBits>>]
  \o <<<<KeyError(e, first), SetupErrorBits>>>>

(* The keys of a gadget coordinate, in witness order: their common          *)
(* polynomial, left secret and the secret times the gadget digit 2^(88 g),  *)
(* which the row subtracts from the multiplier the key adds.                *)
GadgetRows(p, g, first) ==
  LET a == CommonOutput(p, FhePolynomial(g, 0))
      u == CommonOutput(p, FhePolynomial(g, 3))
      k == CommonOutput(p, FhePolynomial(g, 5))
      direct(v, multiplier, automorphism) ==
        {[v |-> v, sign |-> -multiplier, bit |-> GadgetBaseBits * g, aut |-> automorphism]}
      e == 4 * g
  IN <<KeyRow(p, e, first, a, Secret, {}),
       KeyRow(p, e + 1, first, a, AuxiliarySecret, direct(Secret, 1, 1)),
       KeyRow(p, e + 2, first, u, Secret, direct(AuxiliarySecret, -1, 1)),
       KeyRow(p, e + 3, first, k, Secret, direct(Secret, 1, 5))>>
GadgetOutputs(p, g) ==
  LET e == 4 * g
  IN <<CommonOutput(p, FhePolynomial(g, 0)), Value(e), Value(e + 1),
       CommonOutput(p, FhePolynomial(g, 3)), Value(e + 2),
       CommonOutput(p, FhePolynomial(g, 5)), Value(e + 3)>>

(* A recipient's constant and linear components: the sharing coefficients  *)
(* enter the constant one rotated by the recipient's point.                *)
ShareEquation(p, r, component) == 4 * GadgetLength(p) + 2 * r + component
ShareRow(p, r, component) ==
  LET e == ShareEquation(p, r, component)
      point == r * (Degree \div InterpolationDegree(p))
  IN [common |-> IF component = 0 THEN RecipientKey(r)
                                  ELSE CommonOutput(p, ShareCommonPolynomial(p)),
      secret |-> Ephemeral(r), value |-> Value(e), valueSign |-> -1, direct |-> {},
      message |-> IF component = 1 THEN {}
                  ELSE {[v |-> Secret, limb |-> 0, shift |-> 0]}
                       \cup UNION {{[v |-> Var("low", i, 0), limb |-> 0,
                                     shift |-> (point * (i + 1)) % (2 * Degree)],
                                    [v |-> Var("high", i, 0), limb |-> 1,
                                     shift |-> (point * (i + 1)) % (2 * Degree)]}
                                   : i \in 0..SharingDegree(p) - 1},
      quotient |-> Quotient(e), carries |-> <<Carry(e, 1)>>, error |-> Error(e),
      errorSign |-> 1]
ShareCiphertexts(p, w, r) ==
  Signed(w, FlattenSeq([c \in 1..2 |->
    LET e == ShareEquation(p, r, c - 1)
    IN <<<<Quotient(e), SetupQuotientBits>>,
         <<Carry(e, 1), IF c = 1 THEN p.carry ELSE SetupFheCarryBits>>,
         <<Error(e), SetupErrorBits>>>>]))

----
(* The verifier.  An accumulator counts the next word and Boolean column   *)
(* and the exponent of the next equation's weight, in limbs.                *)

VSparse(start, k, half) ==
  [terms |-> {[column |-> start + 2 * k, shift |-> 0, sign |-> 1],
              [column |-> start + 2 * k + 1, shift |-> 0, sign |-> -1]},
   width |-> 0, half |-> half]

VSigned(word, boolean, width) ==
  LET words == IF width < 16 THEN 1 ELSE width \div 16
      left == IF width < 16 THEN 0 ELSE width - 16 * words
  IN [terms |-> {[column |-> word + k, shift |-> 16 * k, sign |-> 1] : k \in 0..words - 1}
                \cup {[column |-> boolean + k, shift |-> 16 * words + k, sign |-> 1]
                      : k \in 0..left - 1},
      width |-> width, half |-> 0]

(* The variables of these widths take the next columns, in order. *)
Allocate(a, widths) ==
  [a EXCEPT !.word = @ + SumOf(WordsOf, widths, Len(widths)),
            !.boolean = @ + SumOf(BooleansOf, widths, Len(widths)),
            !.new = [i \in 1..Len(widths) |->
                      VSigned(a.word + SumOf(WordsOf, widths, i - 1),
                              a.boolean + SumOf(BooleansOf, widths, i - 1), widths[i])]]

VKey(p, a, input) ==
  LET limbs == FheLimbs(p)
      b == Allocate(a, <<SetupQuotientBits>> \o Repeat(SetupFheCarryBits, limbs - 1)
                       \o <<SetupErrorBits>>)
      equation ==
        [common |-> input.common, value |-> input.value, valueSign |-> 1,
         secret |-> input.secret, direct |-> input.direct, message |-> {},
         quotient |-> b.new[1], carries |-> SubSeq(b.new, 2, limbs),
         error |-> b.new[limbs + 1], errorSign |-> -1,
         reach |-> Max({limbs - 1, DivCeil(p.ciphertext, FheLimbBits) - 1}
                       \cup {d.limb : d \in input.direct}),
         start |-> a.weight, next |-> a.weight + limbs]
  IN [b EXCEPT !.weight = equation.next, !.equations = Append(@, equation)]

VShare(p, a, input) ==
  LET b == Allocate(a, <<SetupQuotientBits,
                         IF input.message # {} THEN p.carry ELSE SetupFheCarryBits,
                         SetupErrorBits>>)
      equation ==
        [common |-> input.common, value |-> input.value, valueSign |-> -1,
         secret |-> input.ephemeral, direct |-> {}, message |-> input.message,
         quotient |-> b.new[1], carries |-> <<b.new[2]>>, error |-> b.new[3],
         errorSign |-> 1,
         reach |-> Max({1, DivCeil(ShareModulusBits, p.limb) - 1}
                       \cup {m.limb : m \in input.message}),
         start |-> a.weight, next |-> a.weight + 2]
  IN [b EXCEPT !.weight = equation.next, !.equations = Append(@, equation)]

(* The gadget digit 2^(88 g) as a limb and a bit of that limb. *)
VFactor(g) == [limb |-> (GadgetBaseBits * g) \div FheLimbBits,
               bit |-> (GadgetBaseBits * g) % FheLimbBits]
VKeys(g, secret, auxiliary) ==
  LET f == FhePolynomial(g, 0)
      direct(v, sign, aut) == {[v |-> v, sign |-> sign, limb |-> VFactor(g).limb,
                                bit |-> VFactor(g).bit, aut |-> aut]}
  IN <<[common |-> f, value |-> f + 1, secret |-> secret, direct |-> {}],
       [common |-> f, value |-> f + 2, secret |-> auxiliary, direct |-> direct(secret, -1, 1)],
       [common |-> f + 3, value |-> f + 4, secret |-> secret, direct |-> direct(auxiliary, 1, 1)],
       [common |-> f + 5, value |-> f + 6, secret |-> secret, direct |-> direct(secret, -1, 5)]>>
VMessage(p, secret, sharing, point) ==
  {[v |-> secret, limb |-> 0, shift |-> 0]}
  \cup UNION {{[v |-> sharing[2 * i - 1], limb |-> 0, shift |-> (point * i) % (2 * Degree)],
               [v |-> sharing[2 * i], limb |-> 1, shift |-> (point * i) % (2 * Degree)]}
              : i \in 1..SharingDegree(p)}

VSecret(p) == VSparse(SetupShape(p).words, 0, FheSecretSupport \div 2)
VAuxiliary(p) == VSparse(SetupShape(p).words, 1, FheSecretSupport \div 2)
VEphemeral(p, r) == VSparse(SetupShape(p).words, r + 2, ShareEphemeralSupport \div 2)
VShares(p, r, sharing) ==
  <<[common |-> RecipientKeyPolynomial(p, r), value |-> ShareConstantPolynomial(p, r),
     ephemeral |-> VEphemeral(p, r),
     message |-> VMessage(p, VSecret(p), sharing, r * (Degree \div InterpolationDegree(p)))],
    [common |-> ShareCommonPolynomial(p), value |-> ShareLinearPolynomial(p, r),
     ephemeral |-> VEphemeral(p, r), message |-> {}]>>

\* Mutant: the supports of the recipients' ephemerals are left out.
SecretSupports(p, weight) ==
  [k \in 1..4 |-> [column |-> SetupShape(p).words + k - 1, half |-> FheSecretSupport \div 2,
                   weight |-> weight + k - 1]]
(* A row for each sign of a sparse variable: its column sums to its half   *)
(* support.                                                                *)
VSupports(p, weight) ==
  LET halves == Repeat(FheSecretSupport \div 2, 4)
                \o Repeat(ShareEphemeralSupport \div 2, 2 * p.participants)
  IN [k \in 1..Len(halves) |-> [column |-> SetupShape(p).words + k - 1, half |-> halves[k],
                               weight |-> weight + k - 1]]

(* The roles the equations give each setup polynomial. *)
Uses(equations, index) ==
  (IF \E k \in 1..Len(equations) : equations[k].common = index THEN {"common"} ELSE {})
  \cup (IF \E k \in 1..Len(equations) : equations[k].value = index THEN {"value"} ELSE {})

(* The variable a verifier's terms read from the columns, when every term  *)
(* is a piece of one variable at its own bits and none is missing.         *)
Reads(cols, x) ==
  LET v == cols[(CHOOSE t \in x.terms : TRUE).column + 1].v
      pieces == IF x.width = 0 THEN 2 ELSE WordsOf(x.width) + BooleansOf(x.width)
  IN IF /\ Cardinality(x.terms) = pieces
        /\ \A t \in x.terms : cols[t.column + 1] =
             [v |-> v, shift |-> t.shift, sign |-> t.sign, width |-> x.width, half |-> x.half]
     THEN v ELSE Var("none", 0, 0)

Resolve(cols, polynomials, e) ==
  [common |-> polynomials[e.common + 1], secret |-> Reads(cols, e.secret),
   value |-> polynomials[e.value + 1], valueSign |-> e.valueSign,
   direct |-> {[v |-> Reads(cols, d.v), sign |-> d.sign,
                bit |-> FheLimbBits * d.limb + d.bit, aut |-> d.aut] : d \in e.direct},
   message |-> {[v |-> Reads(cols, m.v), limb |-> m.limb, shift |-> m.shift] : m \in e.message},
   quotient |-> Reads(cols, e.quotient),
   carries |-> [l \in 1..Len(e.carries) |-> Reads(cols, e.carries[l])],
   error |-> Reads(cols, e.error), errorSign |-> e.errorSign]

----
(* The linked source: the prover appends its words after the old words and *)
(* its supports after the old Booleans; the verifier moves every column.   *)

SourceWords ==
  FlattenSeq([c \in 1..4 |-> <<Piece(Var("source quotient", c - 1, 0), 0, 16),
                                Piece(Var("source error", c - 1, 0), 0, 7)>>])
SourceEphemeral == Var("source ephemeral", 0, 0)
AppendSource(words, cols) ==
  SubSeq(cols, 1, words) \o SourceWords \o SubSeq(cols, words + 1, Len(cols))
  \o SparsePair(SourceEphemeral, AuxiliarySecretSupport)

RemapVariable(x, words) ==
  [x EXCEPT !.terms = {[t EXCEPT !.column = Remap(@, words)] : t \in x.terms}]
RemapEquation(e, words) ==
  [e EXCEPT !.secret = RemapVariable(@, words), !.quotient = RemapVariable(@, words),
            !.error = RemapVariable(@, words),
            !.carries = [l \in 1..Len(@) |-> RemapVariable(@[l], words)],
            !.direct = {[d EXCEPT !.v = RemapVariable(@, words)] : d \in @},
            !.message = {[m EXCEPT !.v = RemapVariable(@, words)] : m \in @}]

(* The powers after the supports: the source's components, then the supports *)
(* of its ephemeral.                                                        *)
SourceWeight(v, component) == Degree * v.weight + Len(v.supports) + component * Degree
LinkedSupports(v, old) ==
  [k \in 1..Len(v.supports) |-> [v.supports[k] EXCEPT !.column = Remap(@, old.words)]]
  \o [k \in 1..2 |-> [column |-> Columns(old) + AddedWords + k - 1,
                      half |-> AuxiliarySecretSupport \div 2,
                      weight |-> SourceWeight(v, 4) + k - 1]]

(* The columns of the source's component equations. *)
SourceEquation(p, old, component) ==
  LET word(column, width) ==
        [terms |-> {[column |-> column, shift |-> 0, sign |-> 1]}, width |-> width, half |-> 0]
  IN [ephemeral |-> VSparse(Columns(old) + AddedWords, 0, AuxiliarySecretSupport \div 2),
      quotient |-> word(old.words + 2 * component, 16),
      error |-> word(old.words + 2 * component + 1, 7),
      message |-> CASE component = 0 -> {VSparse(old.words + AddedWords, 0, FheSecretSupport \div 2)}
                    [] component = 2 -> {word(OriginalErrorColumn(p), 7)}
                    [] OTHER -> {}]

----
(* The ballot's and the release's columns. *)

(* The variable and the offset the ballot prover writes in each column. *)
BallotWrites(p) ==
  LET write(column, name, c, l, offset) ==
        [column |-> column, v |-> Var(name, c, l), offset |-> offset]
  IN UNION {{write(FheQuotient(p, c), "quotient", c, 0, 32768),
             write(FheError(p, c), "error", c, 0, 64),
             write(AuxiliaryQuotient(p, c), "auxiliary quotient", c, 0, 32768),
             write(AuxiliaryError(p, c), "auxiliary error", c, 0, 64)}
            \cup {write(FheCarry(p, c, l), "carry", c, l, 32768) : l \in 0..FheLimbs(p) - 2}
            : c \in 0..1}
     \cup {write(PlaintextColumn(p), "plaintext", 0, 0, 6144),
           write(PlaintextColumn(p) + 1, "complement", 0, 0, 0),
           write(PackingQuotient(p), "packing quotient", 0, 0, 32768),
           write(ScoresColumn(p), "scores", 0, 0, -1),
           write(BallotWords(p), "ephemeral", 0, 0, 0),
           write(BallotWords(p) + 1, "ephemeral", 0, 1, 0),
           write(BallotWords(p) + 2, "auxiliary ephemeral", 0, 0, 0),
           write(BallotWords(p) + 3, "auxiliary ephemeral", 0, 1, 0)}

(* Mutant: the complement of the plaintext has its offset too. *)
PairOffset(p, column) ==
  CASE column = ScoresColumn(p) -> -1
    [] column \in {PlaintextColumn(p), PlaintextColumn(p) + 1} -> 6144
    [] column \in {FheError(p, 0), FheError(p, 1), AuxiliaryError(p, 0), AuxiliaryError(p, 1)} -> 64
    [] OTHER -> 32768

(* The offset the ballot verifier takes off a word column. *)
BallotOffset(p, column) ==
  CASE column = ScoresColumn(p) -> -1
    [] column = PlaintextColumn(p) -> 6144
    [] column = PlaintextColumn(p) + 1 -> 0
    [] column \in {FheError(p, 0), FheError(p, 1), AuxiliaryError(p, 0), AuxiliaryError(p, 1)} -> 64
    [] OTHER -> 32768

(* A release variable's parts as the verifier reads them: all its bits at  *)
(* once, in release limbs, or (the share) at the decoding limb too.        *)
WholePart(bits) == <<[first |-> 0, width |-> bits]>>
LimbParts(bits) ==
  LET limbs == DivCeil(bits, ReleaseLimbBits)
  IN [k \in 1..limbs |->
       [first |-> (k - 1) * ReleaseLimbBits,
        width |-> IF k = limbs THEN bits - (k - 1) * ReleaseLimbBits ELSE ReleaseLimbBits]]
DecodingParts(bits) == <<[first |-> 0, width |-> 96], [first |-> 96, width |-> bits - 96]>>
ReleaseReadings(p, i) ==
  LET bits == ReleaseVariableBits(p)[i]
  IN CASE i = 4 -> {DecodingParts(bits), LimbParts(bits)}
       [] i \in {8, 9} -> {LimbParts(bits)}
       [] OTHER -> {WholePart(bits)}
PartWords(start, part) ==
  (start + part.first \div 16)..(start + part.first \div 16 + DivCeil(part.width, 16) - 1)
(* The words a release variable's signed value is written to. *)
SignedColumnWords(p, i) ==
  ReleaseVariableStarts(p)[i]..(ReleaseVariableStarts(p)[i]
                                + DivCeil(ReleaseVariableBits(p)[i], 16) - 1)

----

Init ==
  /\ profile \in Profiles
  /\ witness = Create(profile)
  /\ rows = << >> /\ outputs = << >> /\ columns = << >>
  /\ nextGadget = 0 /\ nextRecipient = 0
  /\ commonShare = FALSE /\ finished = FALSE /\ consumed = FALSE
  /\ firstError = TRUE
  /\ answer = "ok"
  /\ verifier = None

Refuse(reason) ==
  /\ answer' = reason
  /\ UNCHANGED <<profile, witness, rows, outputs, nextGadget, commonShare, nextRecipient,
                 finished, firstError, columns, consumed, verifier>>

GadgetAdmitted(g) == g = nextGadget /\ g < GadgetLength(profile) /\ ~commonShare

Gadget(g) ==
  /\ ~consumed
  /\ IF GadgetAdmitted(g)
     THEN /\ witness' = Signed(witness, FlattenSeq([k \in 1..4 |->
                                        Key(profile, 4 * g + k - 1, firstError)]))
          /\ rows' = rows \o GadgetRows(profile, g, firstError)
          /\ outputs' = outputs \o GadgetOutputs(profile, g)
          /\ nextGadget' = g + 1
          /\ firstError' = (firstError /\ g # 0)
          /\ answer' = "ok"
          /\ UNCHANGED <<profile, commonShare, nextRecipient, finished, columns, consumed,
                         verifier>>
     ELSE Refuse("phase")

BeginShares ==
  /\ ~consumed
  /\ IF nextGadget = GadgetLength(profile) /\ ~commonShare
     THEN /\ outputs' = Append(outputs, CommonOutput(profile, ShareCommonPolynomial(profile)))
          /\ commonShare' = TRUE
          /\ answer' = "ok"
          /\ UNCHANGED <<profile, witness, rows, nextGadget, nextRecipient, finished,
                         firstError, columns, consumed, verifier>>
     ELSE Refuse("phase")

ShareAdmitted(r) ==
  commonShare /\ r = nextRecipient /\ r < profile.participants /\ ~finished

(* wellFormed: the recipient's key has the ring's length and centered      *)
(* coefficients.                                                           *)
Share(r, wellFormed) ==
  /\ ~consumed
  /\ IF ~ShareAdmitted(r) THEN Refuse("phase")
     ELSE IF ~wellFormed THEN Refuse("publicKey")
     ELSE /\ witness' = ShareCiphertexts(profile, witness, r)
          /\ rows' = rows \o <<ShareRow(profile, r, 0), ShareRow(profile, r, 1)>>
          /\ outputs' = outputs \o <<RecipientKey(r), Value(ShareEquation(profile, r, 0)),
                                     Value(ShareEquation(profile, r, 1))>>
          /\ nextRecipient' = r + 1
          /\ answer' = "ok"
          /\ UNCHANGED <<profile, nextGadget, commonShare, finished, firstError, columns,
                         consumed, verifier>>

Finish ==
  /\ ~consumed
  /\ IF nextRecipient = profile.participants /\ ~finished
     THEN /\ finished' = TRUE
          /\ answer' = "ok"
          /\ UNCHANGED <<profile, witness, rows, outputs, nextGadget, commonShare,
                         nextRecipient, firstError, columns, consumed, verifier>>
     ELSE Refuse("phase")

(* The contribution is consumed whether or not its columns are returned. *)
IntoColumns ==
  /\ ~consumed
  /\ LET shape == SetupShape(profile)
         complete == /\ finished
                     /\ Len(witness.words) = shape.words
                     /\ Len(witness.booleans) = shape.booleans
     IN /\ columns' = IF complete THEN witness.words \o witness.booleans ELSE << >>
        /\ answer' = IF complete THEN "ok" ELSE "phase"
  /\ consumed' = TRUE
  /\ UNCHANGED <<profile, witness, rows, outputs, nextGadget, commonShare, nextRecipient,
                 finished, firstError, verifier>>

(* The accumulator is built in one call; the steps are its loops' turns. *)
BuildSharing ==
  /\ columns # << >> /\ verifier = None
  /\ LET a == Allocate([word |-> 0,
                        boolean |-> SetupShape(profile).words + 2 * (2 + profile.participants),
                        weight |-> 0, new |-> << >>, equations |-> << >>, sharing |-> << >>,
                        gadget |-> 0, recipient |-> 0, supports |-> << >>],
                       FlattenSeq(Repeat(<<profile.limb, profile.sharing - profile.limb>>,
                                         SharingDegree(profile))))
     IN verifier' = [a EXCEPT !.sharing = a.new]
  /\ UNCHANGED prover

BuildKeys ==
  /\ verifier # None
  /\ verifier.gadget < GadgetLength(profile)
  /\ verifier' = [FoldLeft(LAMBDA a, input : VKey(profile, a, input), verifier,
                           VKeys(verifier.gadget, VSecret(profile), VAuxiliary(profile)))
                  EXCEPT !.gadget = @ + 1]
  /\ UNCHANGED prover

BuildShares ==
  /\ verifier # None
  /\ verifier.gadget = GadgetLength(profile)
  /\ verifier.recipient < profile.participants
  /\ verifier' = [FoldLeft(LAMBDA a, input : VShare(profile, a, input), verifier,
                           VShares(profile, verifier.recipient, verifier.sharing))
                  EXCEPT !.recipient = @ + 1]
  /\ UNCHANGED prover

(* The supports take one power each, after the last equation. *)
BuildSupports ==
  /\ verifier # None
  /\ verifier.recipient = profile.participants
  /\ verifier.supports = << >>
  /\ verifier' = [verifier EXCEPT !.supports = VSupports(profile, Degree * verifier.weight)]
  /\ UNCHANGED prover

Next ==
  \/ \E g \in 0..MaximumCall : Gadget(g)
  \/ BeginShares
  \/ \E r \in 0..MaximumCall, wellFormed \in BOOLEAN : Share(r, wellFormed)
  \/ Finish
  \/ IntoColumns
  \/ BuildSharing
  \/ BuildKeys
  \/ BuildShares
  \/ BuildSupports

Spec == Init /\ [][Next]_vars
----
Piecewise == [v : [name : STRING, i : Nat, j : Nat], shift : Nat, sign : {-1, 1},
              width : Nat, half : Nat]
TypeOK ==
  /\ profile \in Profiles
  /\ witness.words \in Seq(Piecewise) /\ witness.booleans \in Seq(Piecewise)
  /\ nextGadget \in 0..GadgetLength(profile)
  /\ nextRecipient \in 0..profile.participants
  /\ {commonShare, finished, consumed, firstError} \subseteq BOOLEAN
  /\ answer \in {"ok", "phase", "publicKey"}

Taken == columns # << >>
Built == verifier # None /\ verifier.supports # << >>

(* Every equation the verifier writes over column numbers and polynomial   *)
(* indices is, read in the columns and the statement the prover produced,  *)
(* the very row the prover closed: the same operands, signs, digits,       *)
(* automorphisms and rotations (Accumulator::build_with against            *)
(* Contribution and Witness).                                              *)
EquationsAgree ==
  Built =>
    LET equations == verifier.equations
    IN [k \in 1..Len(equations) |-> Resolve(columns, outputs, equations[k])] = rows

(* A contribution that was finished, whatever calls were refused on the    *)
(* way, always yields its columns, and the verifier's counters end where   *)
(* its own checks want them (into_columns, build_with).                    *)
CountsAgree ==
  /\ consumed /\ finished => Taken
  /\ Built => /\ verifier.word = SetupShape(profile).words
              /\ verifier.boolean = Len(columns)

(* At every moment the polynomials written are a prefix of the statement's *)
(* order: a common one where its sampler names one, a carried value where  *)
(* the body has one, and a recipient's key elsewhere; a finished           *)
(* contribution wrote them all.                                            *)
StatementOrder ==
  /\ \A k \in 1..Len(outputs) :
       /\ outputs[k].kind = "value" <=> (k - 1) \in ToSet(ContributionBodyPolynomials(profile))
       /\ outputs[k].kind \in {"a", "u", "k", "common-share"}
            => CommonSource(profile, k - 1) = {outputs[k]}
       /\ outputs[k].kind = "recipient"
            => k - 1 = RecipientKeyPolynomial(profile, outputs[k].i)
  /\ finished => Len(outputs) = SetupPolynomials(profile)

(* The verifier uses every polynomial, and each in one role: those that    *)
(* a contribution carries as values, in the order of their indices, all    *)
(* others as common ones (Accumulator::run and committed_values refuse a   *)
(* mixed use).                                                             *)
UsesPartition ==
  Built =>
    LET equations == verifier.equations
        body == ContributionBodyPolynomials(profile)
    IN /\ \A index \in 0..SetupPolynomials(profile) - 1 :
            Uses(equations, index) = IF index \in ToSet(body) THEN {"value"} ELSE {"common"}
       /\ \A i \in 1..Len(body) - 1 : body[i] < body[i + 1]

(* The powers of the challenge that each row of the linked statement takes, *)
(* in order: the equations, the supports, then the source's own rows.       *)
Powers ==
  [k \in 1..Len(verifier.equations) |->
     LET e == verifier.equations[k]
     IN [from |-> Degree * e.start, to |-> Degree * (e.start + e.reach) + Degree - 1]]
  \o [k \in 1..Len(verifier.supports) |->
       [from |-> verifier.supports[k].weight, to |-> verifier.supports[k].weight]]
  \o [c \in 1..4 |-> [from |-> SourceWeight(verifier, c - 1),
                      to |-> SourceWeight(verifier, c - 1) + Degree - 1]]
  \o [k \in 1..2 |-> [from |-> SourceWeight(verifier, 4) + k - 1,
                      to |-> SourceWeight(verifier, 4) + k - 1]]

(* The powers of a row stay below the next row's, so no two rows of the    *)
(* statement, its supports' and its source's included, share one           *)
(* (build_with, source_linked::plan).                                      *)
RowsApart ==
  Built => \A k \in 1..Len(Powers) - 1 : Powers[k].to < Powers[k + 1].from

Supported(supports, cols) ==
  /\ {s.column : s \in ToSet(supports)} = {c \in 0..Len(cols) - 1 : cols[c + 1].width = 0}
  /\ Cardinality(ToSet(supports)) = Cardinality({s.column : s \in ToSet(supports)})
  /\ \A s \in ToSet(supports) : cols[s.column + 1].half = s.half

(* Exactly the columns of sparse secrets are counted, each once and to the *)
(* half support the prover drew it with, before and after the source is    *)
(* linked (sparse, build_with, source_linked::plan).                       *)
SupportsAgree ==
  Built =>
    LET old == SetupRelation(profile)
    IN /\ Supported(verifier.supports, columns)
       /\ Supported(LinkedSupports(verifier, old), AppendSource(old.words, columns))

(* A factor admits exactly the numbers of so many bits into a whole word. *)
Scales(factor, count) == (count - 1) * factor <= 65535 /\ count * factor > 65535
NarrowExact(r, cols) ==
  /\ {n[1] : n \in ToSet(r.narrow)} = {c \in 0..r.words - 1 : cols[c + 1].width < 16}
  /\ \A n \in ToSet(r.narrow) : Scales(n[2], 2 ^ cols[n[1] + 1].width)
PairsExact(r, cols) ==
  \A i \in 1..Len(r.pairs) :
    LET positive == cols[r.pairs[i][1] + 1]
        negative == cols[r.pairs[i][2] + 1]
    IN /\ positive.width = 0 /\ positive.sign = 1
       /\ negative = [positive EXCEPT !.sign = -1]
       /\ positive.half = r.supports[i]

Describes(r, cols) == Len(cols) = Columns(r) /\ NarrowExact(r, cols) /\ PairsExact(r, cols)

(* The relation's lookups and disjoint pairs name the columns the prover   *)
(* filled: a narrow lookup for every word of fewer than sixteen bits, with *)
(* the factor of its width, and a pair for the two signs of every sparse   *)
(* secret; before and after the source is linked (setup_relation,          *)
(* source_linked::relation).                                               *)
RelationDescribes ==
  Built =>
    /\ Describes(SetupRelation(profile), columns)
    /\ Describes(LinkedRelation(profile), AppendSource(SetupShape(profile).words, columns))

LinkedReads(old, linked) ==
  /\ \A k \in 1..Len(verifier.equations) :
       Resolve(linked, outputs, RemapEquation(verifier.equations[k], old.words)) = rows[k]
  /\ \A c \in 0..3 :
       LET e == SourceEquation(profile, old, c)
       IN /\ Reads(linked, e.ephemeral) = SourceEphemeral
          /\ Reads(linked, e.quotient) = Var("source quotient", c, 0)
          /\ Reads(linked, e.error) = Var("source error", c, 0)
          /\ {Reads(linked, m) : m \in e.message}
               = CASE c = 0 -> {Secret} [] c = 2 -> {RegisteredError} [] OTHER -> {}

(* After the source's columns are appended, every moved equation still     *)
(* reads what it read, and the source's own equations read its quotients,  *)
(* errors and ephemeral, the FHE secret and the error of the registered    *)
(* encryption (source_linked plan against SourceWitness::append).          *)
LinkedAgrees ==
  Built => LinkedReads(SetupRelation(profile), AppendSource(SetupShape(profile).words, columns))

(* Every ballot column is written once, with the offset the verifier takes *)
(* off, and exactly the errors and scores are narrow; every reading of a   *)
(* release variable covers each of its words once and no other variable's, *)
(* from a whole word on, and its narrow top word is the relation's.        *)
BallotAndReleaseAgree ==
  Built =>
  LET p == profile
      ballot == BallotRelation(p)
      release == ReleaseRelation(p)
      bits == ReleaseVariableBits(p)
  IN /\ \A column \in 0..Columns(ballot) - 1 :
          \E w \in BallotWrites(p) :
            /\ {x \in BallotWrites(p) : x.column = column} = {w}
            /\ column < ballot.words => w.offset = BallotOffset(p, column)
            /\ (w.v.name = "scores" \/ w.offset = 64)
                 <=> \E n \in ToSet(ballot.narrow) :
                      n[1] = column /\ Scales(n[2], IF w.v.name = "scores" THEN 10 ELSE 128)
     /\ \A i \in 1..Len(bits) : \A reading \in ReleaseReadings(p, i) :
          /\ UNION {PartWords(ReleaseVariableStarts(p)[i], part) : part \in ToSet(reading)}
               = SignedColumnWords(p, i)
          /\ \A part \in ToSet(reading) : part.first % 16 = 0 /\ part.width > 0
          /\ \A k \in 1..Len(reading) - 1 :
               reading[k].first + reading[k].width = reading[k + 1].first
     /\ \A i, j \in 1..Len(bits) :
          i # j => SignedColumnWords(p, i) \cap SignedColumnWords(p, j) = {}
     /\ {n[1] : n \in ToSet(release.narrow)}
          = {Max(SignedColumnWords(p, i)) : i \in {i \in 1..Len(bits) : bits[i] % 16 # 0}}
     /\ \A i \in {i \in 1..Len(bits) : bits[i] % 16 # 0} :
          \E n \in ToSet(release.narrow) :
            n[1] = Max(SignedColumnWords(p, i)) /\ Scales(n[2], 2 ^ (bits[i] % 16))

(* The siblings a canonical multiproof of these leaves carries. *)
Siblings(leaves, length) ==
  LET reached(level) == {l \div 2 ^ level : l \in leaves}
  IN SumOf(LAMBDA level : Cardinality({n \in reached(level - 1) :
             (IF n % 2 = 0 THEN n + 1 ELSE n - 1) \notin reached(level - 1)}),
           [i \in 1..Log2(length) |-> i], Log2(length))

WithinBounds(r) ==
  /\ Len(Degrees(r)) = Oracles(r)
  /\ \A d \in ToSet(Degrees(r)) : d <= MaximumDegree
  /\ FirstWidth(r) <= MinimumMessageBytes(r)
  /\ r.public = 0 => MinimumMessageBytes(r) <= 262144

(* A relation's degree list names every oracle and stays in the code's     *)
(* rate, its messages hold every challenge and its widest leaf even where  *)
(* the size is fixed, and no choice of openings needs more siblings than   *)
(* the proof bound counts (degrees, message_bytes, maximum_proof_bytes).   *)
BoundsHold ==
  Built =>
  /\ \A r \in {SetupRelation(profile), LinkedRelation(profile), BallotRelation(profile),
               ReleaseRelation(profile)} : WithinBounds(r)
  /\ \A levels \in 1..3 : \A leaves \in SUBSET (0..2 ^ levels - 1) :
       Siblings(leaves, 2 ^ levels) <= MaximumSiblings(2 ^ levels, Cardinality(leaves))

====
