-------------------------- MODULE StatementStream --------------------------
(***************************************************************************)
(* SetupStatementStream: a setup statement read in chunks of any length,   *)
(* its polynomials' fingerprints started as helper jobs over runs of whole *)
(* records, and the jobs' results summed into the target and the           *)
(* coefficients of the affine check in the order the jobs were started.    *)
(*                                                                         *)
(* A polynomial of value uses is subtracted from the target; one of common *)
(* uses starts a second job, its adjoint, behind the runs already waiting. *)
(* At most a window of jobs waits between two runs.  Committed polynomials *)
(* are not in the bytes: the proof's evaluations stand in for them.        *)
(*                                                                         *)
(* A job's result is a function of its input (ParallelHelpers shows how a  *)
(* helper that fails is replaced by the owner), so it is computed where the *)
(* job is started and used where its ticket is waited for.  The query      *)
(* evaluation of an adjoint is linear in it and is left out: the           *)
(* coefficients hold the adjoints themselves.                              *)
(*                                                                         *)
(* A byte is a number.  A record is a sign and one magnitude byte, and a   *)
(* magnitude splits into Limbs digits of base Radix.  A coefficient's      *)
(* fingerprint is the sum of its digits weighted by powers of the limb     *)
(* weight Alpha^degree, and a polynomial's value weighs those by the       *)
(* powers of Alpha.  The proof field is the integers modulo FieldModulus;  *)
(* its cubic extension is one coordinate here.                             *)
(***************************************************************************)
EXTENDS Integers, Sequences, SequencesExt, FiniteSetsExt, TLC

CONSTANTS
    FieldModulus,   \* the proof field's modulus, a prime
    Alpha,          \* the challenge
    Modulus,        \* the odd modulus of the coefficients
    Radix,          \* the base of a magnitude's digits
    Limbs,          \* the digits of a magnitude
    ChunkLimit,     \* the most bytes of one push
    Degree,         \* the coefficients of every polynomial
    Header,         \* the bytes of the expected header
    Uses,           \* each polynomial's uses, in order
    Committed,      \* the committed polynomials, ascending
    Columns,        \* the columns of the relation
    TargetOffset,   \* the target of the statement's fixed part
    Root,           \* the root of the committed columns
    Windows,        \* the windows of jobs a session may have
    Statements,     \* the statements the host may hold
    None            \* an absent value

Value(weight) == [kind |-> "value", weight |-> weight]

Common(weight, terms) == [kind |-> "common", weight |-> weight, terms |-> terms]

StatementStreamAssumption ==
    /\ FieldModulus \in Nat \ {0, 1}
    /\ Alpha \in 1 .. FieldModulus - 1
    /\ Modulus \in Nat /\ Modulus % 2 = 1
    /\ Radix \in Nat \ {0, 1}
    /\ Limbs \in Nat \ {0}
    /\ ChunkLimit \in Nat \ {0}
    /\ Degree \in Nat \ {0}
    /\ \A i, j \in DOMAIN Committed : i < j => Committed[i] < Committed[j]
    /\ \A i \in DOMAIN Committed : Committed[i] \in DOMAIN Uses
    /\ \A window \in Windows : window \in Nat \ {0}

VARIABLES
    statement,  \* header, polynomials, extra: what the host holds
    mode,       \* "full", "committed" or "embedded"
    bound,      \* whether the expected digest is this statement's
    window,     \* the window of jobs
    offered,    \* how many bytes were pushed, refused pushes included
    overlong,   \* whether a push was longer than a chunk
    stream,     \* the SetupStatementStream
    output      \* what finish returned

vars == <<statement, mode, bound, window, offered, overlong, stream, output>>

----
(* The records.                                                            *)

Width == 2

----
(* The field.                                                              *)

Plus(left, right) == (left + right) % FieldModulus

Minus(left, right) == (left - right) % FieldModulus

Times(left, right) == (left * right) % FieldModulus

Power(value, exponent) ==
    FoldLeft(LAMBDA result, step : Times(result, value), 1,
             [step \in 1 .. exponent |-> step])

FieldSum(Op(_), S) == MapThenSumSet(Op, S) % FieldModulus

----
(* Records.                                                                *)

Half == Modulus \div 2

IsCanonical(record) ==
    /\ record[1] <= 1
    /\ record[2] <= Half
    /\ ~(record[1] = 1 /\ record[2] = 0)

LimbValue(magnitude, limb) == (magnitude \div Radix ^ limb) % Radix

RecordFingerprint(record, degree) ==
    LET weighted(limb) == Times(LimbValue(record[2], limb),
                                Power(Alpha, limb * degree))
        result == FieldSum(weighted, 0 .. Limbs - 1)
    IN  IF record[1] = 1 THEN Minus(0, result) ELSE result

----
(* The adjoint from the fingerprints: each value is the next power of the  *)
(* variable times the polynomial, folded back at the degree, and the last  *)
(* one closes on the negated total.                                        *)

AdjointOf(coefficients, total) ==
    LET wrap == Plus(Power(Alpha, Len(coefficients)), 1)
        step(state, coefficient) ==
            <<Minus(Times(Alpha, state[1]), Times(wrap, coefficient)),
              Append(state[2], state[1])>>
        end == FoldLeft(step, <<total, << >>>>, Reverse(coefficients))
    IN  [closes |-> end[1] = Minus(0, total), values |-> end[2]]

----
(* CommittedPolynomial: splits the records of one polynomial into signed   *)
(* digit columns.                                                          *)

NewCommitted ==
    [columns |-> [limb \in 0 .. Limbs - 1 |-> << >>], record |-> << >>,
     coefficients |-> 0, failed |-> FALSE]

CommittedDigit(record, limb) ==
    LET value == LimbValue(record[2], limb)
    IN  IF record[1] = 1 /\ value # 0 THEN FieldModulus - value ELSE value

CommittedByte(parser, byte) ==
    IF parser.failed THEN parser
    ELSE IF Len(parser.record) + 1 < Width
    THEN [parser EXCEPT !.record = Append(@, byte)]
    ELSE LET record == Append(parser.record, byte)
         IN  IF ~IsCanonical(record)
             THEN [parser EXCEPT !.failed = TRUE]
             ELSE [parser EXCEPT
                     !.columns = [limb \in DOMAIN @ |->
                         Append(@[limb], CommittedDigit(record, limb))],
                     !.record = << >>,
                     !.coefficients = @ + 1]

\* The evaluation of the columns at the challenge, as the degree test gives
\* them, and the value of the polynomial that the statement takes from them.
ColumnEvaluation(column) ==
    FoldRight(LAMBDA digit, sum : Plus(Times(sum, Alpha), digit), column, 0)

CommittedValue(evaluations, degree) ==
    LET weighted(limb) == Times(evaluations[limb],
                                Power(Alpha, limb * degree))
    IN  FieldSum(weighted, DOMAIN evaluations)

----
(* Reference definitions, over the centered coefficients themselves.       *)

\* The digits of a coefficient, each with the coefficient's sign.
CoefficientFingerprint(coefficient, degree) ==
    LET magnitude == IF coefficient < 0 THEN -coefficient ELSE coefficient
        sign == IF coefficient < 0 THEN -1 ELSE 1
        weighted(limb) == sign * LimbValue(magnitude, limb)
                            * Power(Alpha, limb * degree)
    IN  FieldSum(weighted, 0 .. Limbs - 1)

\* The polynomial's value at the challenge.
PolynomialValue(coefficients) ==
    LET degree == Len(coefficients)
        weighted(i) == CoefficientFingerprint(coefficients[i], degree)
                         * Power(Alpha, i - 1)
    IN  FieldSum(weighted, 1 .. degree)

\* The k-th power of the variable times the polynomial, modulo the variable
\* to the degree plus one, at the challenge.
NegacyclicShift(coefficients, k) ==
    LET degree == Len(coefficients)
        weighted(i) ==
            LET value == CoefficientFingerprint(coefficients[i], degree)
            IN  IF i - 1 + k < degree THEN value * Power(Alpha, i - 1 + k)
                ELSE -value * Power(Alpha, i - 1 + k - degree)
    IN  FieldSum(weighted, 1 .. degree)

\* The canonical record of a centered coefficient.
RecordOf(coefficient) ==
    IF coefficient < 0 THEN <<1, -coefficient>> ELSE <<0, coefficient>>

\* The coefficient of a record.
CoefficientOf(record) == IF record[1] = 1 THEN -record[2] ELSE record[2]

\* The canonical records: those that are the record of a centered coefficient.
CenteredRecords == { RecordOf(c) : c \in -Half .. Half }

----
(* The bytes of a statement and its digest.                                *)

CommittedIn(m) == IF m = "full" THEN << >> ELSE Committed

Streamed(m) == SelectSeq([i \in 1 .. Len(Uses) |-> i],
                         LAMBDA i : ~Contains(CommittedIn(m), i))

Bytes(s, m) ==
    s.header
      \o FlattenSeq([i \in 1 .. Len(Streamed(m)) |->
                       FlattenSeq(s.polynomials[Streamed(m)[i]])])
      \o s.extra

EncodedLength(m) == Len(Header) + Len(Streamed(m)) * Degree * Width

\* The evaluations of a committed polynomial's columns, which the proof
\* carries and its degree test verifies.
Evaluations(s, polynomial) ==
    LET parser == FoldLeft(CommittedByte, NewCommitted,
                           FlattenSeq(s.polynomials[polynomial]))
    IN  [limb \in 0 .. Limbs - 1 |-> ColumnEvaluation(parser.columns[limb])]

----
(* The accumulator of the affine check.                                    *)

NewAccumulator ==
    [target |-> TargetOffset,
     coefficients |-> [column \in Columns |-> [k \in 1 .. Degree |-> 0]],
     pending |-> << >>, partial |-> None, refused |-> FALSE]

IsCommon(polynomial) ==
    \E i \in DOMAIN Uses[polynomial] : Uses[polynomial][i].kind = "common"

\* The sum of a run's fingerprints weighted from its position, and each
\* fingerprint for a polynomial that needs its adjoint.
RunJob(polynomial, position, records, last) ==
    LET values == [i \in 1 .. Len(records) |->
                     RecordFingerprint(records[i], Degree)]
        weighted(i) == Times(Power(Alpha, position + i - 1), values[i])
    IN  [kind |-> "run", polynomial |-> polynomial, last |-> last,
         sum |-> FieldSum(weighted, DOMAIN values),
         fingerprints |-> IF IsCommon(polynomial) THEN values ELSE << >>]

AdjointJob(polynomial, total, retained) ==
    [kind |-> "adjoint", polynomial |-> polynomial,
     adjoint |-> AdjointOf(retained, total)]

SubtractValue(accumulator, polynomial, value) ==
    [accumulator EXCEPT
        !.target = FoldLeft(LAMBDA target, use :
                              Minus(target, Times(use.weight, value)),
                            @, Uses[polynomial])]

AddAdjoint(accumulator, polynomial, values) ==
    LET addUse(coefficients, use) ==
            FoldLeft(LAMBDA all, term :
                       [all EXCEPT ![term[1]] = [k \in DOMAIN @ |->
                          Plus(@[k], Times(Times(use.weight, values[k]),
                                           term[2]))]],
                     coefficients, use.terms)
    IN  [accumulator EXCEPT
            !.coefficients = FoldLeft(addUse, @, Uses[polynomial])]

TakeOldest(accumulator) ==
    LET job == Head(accumulator.pending)
        rest == [accumulator EXCEPT !.pending = Tail(@)]
        held == IF rest.partial = None THEN [total |-> 0, retained |-> << >>]
                ELSE rest.partial
        summed == [total |-> Plus(held.total, job.sum),
                   retained |-> held.retained \o job.fingerprints]
    IN  CASE job.kind = "run" /\ ~job.last ->
                [rest EXCEPT !.partial = summed]
          [] job.kind = "run" /\ job.last /\ IsCommon(job.polynomial) ->
                [rest EXCEPT !.partial = None, !.pending = Append(@,
                    AdjointJob(job.polynomial, summed.total, summed.retained))]
          [] job.kind = "run" /\ job.last /\ ~IsCommon(job.polynomial) ->
                SubtractValue([rest EXCEPT !.partial = None],
                              job.polynomial, summed.total)
          [] job.kind = "adjoint" /\ job.adjoint.closes ->
                AddAdjoint(rest, job.polynomial, job.adjoint.values)
          [] OTHER -> [rest EXCEPT !.refused = TRUE]

RECURSIVE DrainLoop(_, _)
DrainLoop(accumulator, limit) ==
    IF accumulator.refused \/ Len(accumulator.pending) <= limit
    THEN accumulator ELSE DrainLoop(TakeOldest(accumulator), limit)

DrainTo(accumulator, limit) == DrainLoop(accumulator, limit)

Settle(accumulator) == DrainTo(accumulator, 0)

Run(accumulator, polynomial, position, records, last) ==
    IF IsCommon(polynomial) /\ \E i \in DOMAIN Uses[polynomial] :
                                 Uses[polynomial][i].kind # "common"
    THEN [accumulator EXCEPT !.refused = TRUE]
    ELSE DrainTo([accumulator EXCEPT !.pending = Append(@,
                    RunJob(polynomial, position, records, last))], window)

----
(* The stream.                                                             *)

NewStream ==
    [header |-> << >>, consumed |-> 0, hashed |-> << >>, polynomial |-> 1,
     records |-> None, accumulator |-> None, next |-> 1, refusal |-> None]

RunRecords == CHOOSE run \in 1 .. Degree :
    \/ run = ChunkLimit \div Width
    \/ run = Degree /\ ChunkLimit \div Width > Degree
    \/ run = 1 /\ ChunkLimit \div Width = 0

Refuse(s, refusal) == [s EXCEPT !.refusal = refusal]

\* The committed polynomials that come next, through the proof's evaluations.
RECURSIVE CommittedLoop(_)
CommittedLoop(s) ==
    LET committed == CommittedIn(mode)
        settled == Settle(s.accumulator)
        value == CommittedValue(Evaluations(statement, s.polynomial), Degree)
    IN  IF s.next > Len(committed) \/ committed[s.next] # s.polynomial THEN s
        ELSE IF settled.refused THEN Refuse(s, "arithmetic")
        ELSE IF IsCommon(s.polynomial) THEN Refuse(s, "parameters")
        ELSE CommittedLoop([s EXCEPT
                !.accumulator = SubtractValue(settled, s.polynomial, value),
                !.next = @ + 1, !.polynomial = @ + 1])

CommittedValues(s) == CommittedLoop(s)

HeaderByte(s, byte) ==
    LET header == Append(s.header, byte)
        read == [s EXCEPT !.header = header]
    IN  IF Len(header) < Len(Header) THEN read
        ELSE IF header # Header THEN Refuse(read, "parameters")
        ELSE CommittedValues([read EXCEPT !.accumulator = NewAccumulator])

RecordsOf(bytes) ==
    [i \in 1 .. Len(bytes) \div Width |-> <<bytes[Width * i - 1], bytes[Width * i]>>]

\* A byte of the current polynomial: a run of whole records is checked and its
\* job started when its last byte is in.
PolynomialByte(s, byte) ==
    LET held == IF s.records = None THEN [taken |-> 0, buffer |-> << >>]
                ELSE s.records
        buffer == Append(held.buffer, byte)
        left == Degree - held.taken
        count == IF RunRecords < left THEN RunRecords ELSE left
        records == RecordsOf(buffer)
        ran == Run(s.accumulator, s.polynomial, held.taken, records,
                   count = left)
    IN  IF s.polynomial > Len(Uses) THEN Refuse(s, "length")
        ELSE IF Len(buffer) < count * Width
        THEN [s EXCEPT !.records = [taken |-> held.taken, buffer |-> buffer]]
        ELSE IF \E i \in DOMAIN records : ~IsCanonical(records[i])
        THEN Refuse(s, "encoding")
        ELSE IF ran.refused THEN Refuse(s, "arithmetic")
        ELSE IF count < left
        THEN [s EXCEPT !.accumulator = ran,
                       !.records = [taken |-> held.taken + count,
                                    buffer |-> << >>]]
        ELSE CommittedValues([s EXCEPT !.accumulator = ran, !.records = None,
                                       !.polynomial = @ + 1])

StreamByte(s, byte) ==
    IF s.refusal # None THEN s
    ELSE IF Len(s.header) < Len(Header) THEN HeaderByte(s, byte)
    ELSE PolynomialByte(s, byte)

\* A refusal drops the accumulator and the records and is permanent.
Dropped(s) ==
    IF s.refusal = None THEN s
    ELSE [s EXCEPT !.accumulator = None, !.records = None]

StreamPush(s, bytes) ==
    IF s.refusal # None THEN s
    ELSE IF \/ Len(bytes) > ChunkLimit
            \/ Len(bytes) > EncodedLength(mode) - s.consumed
    THEN Dropped(Refuse(s, "length"))
    ELSE Dropped(FoldLeft(StreamByte,
                          [s EXCEPT !.consumed = @ + Len(bytes),
                                    !.hashed = @ \o bytes], bytes))

\* The digest that the caller expects: this statement's, another one's, or
\* none for a relation whose enclosing verifier hashes the bytes.
Digest(bytes) == IF mode = "full" THEN <<bytes>> ELSE <<bytes, Root>>

ExpectedDigest ==
    IF bound THEN Digest(Bytes([statement EXCEPT !.extra = << >>], mode))
    ELSE << << >> >>

StreamComplete(s) ==
    /\ s.consumed = EncodedLength(mode)
    /\ s.polynomial = Len(Uses) + 1
    /\ s.records = None
    /\ s.next = Len(CommittedIn(mode)) + 1

\* Mutant: a statement is finished without the results of its last jobs.
StreamFinishUnsettled(s) ==
    IF \/ s.refusal # None
       \/ ~StreamComplete(s)
       \/ mode # "embedded" /\ Digest(s.hashed) # ExpectedDigest
    THEN [accepted |-> FALSE]
    ELSE [accepted |-> TRUE, target |-> s.accumulator.target,
          coefficients |-> s.accumulator.coefficients]

StreamFinish(s) ==
    LET settled == Settle(s.accumulator)
    IN  IF \/ s.refusal # None
           \/ ~StreamComplete(s)
           \/ mode # "embedded" /\ Digest(s.hashed) # ExpectedDigest
           \/ settled.refused
        THEN [accepted |-> FALSE]
        ELSE [accepted |-> TRUE, target |-> settled.target,
              coefficients |-> settled.coefficients]

----
Init ==
    /\ statement \in Statements
    /\ mode \in {"full", "committed", "embedded"}
    /\ bound \in BOOLEAN
    /\ window \in Windows
    /\ offered = 0
    /\ overlong = FALSE
    /\ stream = NewStream
    /\ output = None

Push(length) ==
    /\ output = None
    /\ offered + length <= Len(Bytes(statement, mode))
    /\ stream' = StreamPush(stream, SubSeq(Bytes(statement, mode),
                                           offered + 1, offered + length))
    /\ offered' = offered + length
    /\ overlong' = (overlong \/ length > ChunkLimit)
    /\ UNCHANGED <<statement, mode, bound, window, output>>

Finish ==
    /\ output = None
    /\ output' = StreamFinish(stream)
    /\ UNCHANGED <<statement, mode, bound, window, offered, overlong, stream>>

Next == (\E length \in 0 .. ChunkLimit + 1 : Push(length)) \/ Finish

Spec == Init /\ [][Next]_vars

TypeOK ==
    /\ statement \in Statements
    /\ mode \in {"full", "committed", "embedded"}
    /\ bound \in BOOLEAN
    /\ window \in Windows
    /\ offered \in 0 .. Len(Bytes(statement, mode))
    /\ overlong \in BOOLEAN
    /\ stream.polynomial \in 1 .. Len(Uses) + 1
    /\ output = None \/ output.accepted \in BOOLEAN

----
(* The prover's plan of the same statement.                                *)

ValueWeights ==
    [p \in DOMAIN Uses |->
        FoldLeft(LAMBDA weight, use :
                   IF use.kind = "value" THEN Plus(weight, use.weight)
                   ELSE weight,
                 0, Uses[p])]

\* Each common polynomial's columns, with their factors.
CommonColumns ==
    [p \in DOMAIN Uses |->
        FoldLeft(LAMBDA columns, use :
                   IF use.kind = "common"
                   THEN columns \o [i \in DOMAIN use.terms |->
                          <<use.terms[i][1], Times(use.weight, use.terms[i][2])>>]
                   ELSE columns,
                 << >>, Uses[p])]

----
Coefficients(p) ==
    [i \in 1 .. Degree |-> CoefficientOf(statement.polynomials[p][i])]

WellFormed ==
    /\ statement.header = Header
    /\ \A i \in DOMAIN Streamed(mode) : \A k \in 1 .. Degree :
         statement.polynomials[Streamed(mode)[i]][k] \in CenteredRecords

Accepted == output # None /\ output.accepted

\* A finished stream was given exactly the encoded bytes of one statement:
\* the expected header, canonical records only, nothing before or after a
\* refusal, and, unless an enclosing verifier hashes the bytes, the statement
\* that the expected digest names (SetupStatementStream::push and finish).
AcceptsOneStatement ==
    Accepted =>
        /\ WellFormed
        /\ offered = EncodedLength(mode)
        /\ mode # "embedded" => bound

\* A good statement is accepted: no choice of chunks within the limit, of
\* window or of committed polynomials refuses it, and no adjoint of canonical
\* records fails to close.
WholeIsAccepted ==
    output # None =>
        (WellFormed /\ offered = EncodedLength(mode) /\ ~overlong
           /\ (bound \/ mode = "embedded") => output.accepted)

\* The target and the coefficients are those of the whole statement, whatever
\* the chunks and the window and whichever polynomials are committed: each
\* value polynomial is subtracted once per use, each common polynomial's
\* adjoint is added once per use and term, and every job started is taken
\* (Accumulator::take_oldest, settle and committed_values).
OutputIsTheStatement ==
    Accepted =>
        LET value(p) == FoldLeft(LAMBDA sum, use :
                            IF use.kind = "value"
                            THEN sum + use.weight * PolynomialValue(Coefficients(p))
                            ELSE sum, 0, Uses[p])
            share(p, column, k) ==
                LET shift == NegacyclicShift(Coefficients(p), k - 1)
                    ofUse(use) == FoldLeft(LAMBDA sum, term :
                        IF term[1] = column
                        THEN sum + Times(use.weight * term[2], shift)
                        ELSE sum, 0, use.terms)
                IN  FoldLeft(LAMBDA sum, use :
                        IF use.kind = "common" THEN sum + ofUse(use) ELSE sum,
                        0, Uses[p])
        IN  /\ output.target = Minus(TargetOffset,
                                     FieldSum(value, DOMAIN Uses))
            /\ \A column \in Columns : \A k \in 1 .. Degree :
                 LET ofPolynomial(p) == share(p, column, k)
                 IN  output.coefficients[column][k]
                       = FieldSum(ofPolynomial, DOMAIN Uses)

\* The prover's plan, which merges a polynomial's uses into one weight and one
\* list of columns before it reads the polynomial, gives the same target and
\* coefficients as the verifier's stream (prover_operator_plan).
ProverPlanAgrees ==
    Accepted =>
        LET value(p) == ValueWeights[p] * PolynomialValue(Coefficients(p))
        IN  /\ output.target = Minus(TargetOffset,
                                     FieldSum(value, DOMAIN Uses))
            /\ \A column \in Columns : \A k \in 1 .. Degree :
                 LET entries(p) == { i \in DOMAIN CommonColumns[p] :
                                       CommonColumns[p][i][1] = column }
                     ofPolynomial(p) ==
                        LET factor(i) == CommonColumns[p][i][2]
                        IN  Times(FieldSum(factor, entries(p)),
                                  NegacyclicShift(Coefficients(p), k - 1))
                 IN  output.coefficients[column][k]
                       = FieldSum(ofPolynomial, DOMAIN Uses)

\* Between two calls at most a window of jobs is started and not taken, though
\* taking a polynomial's last run may start its adjoint behind the others
\* (Accumulator::run).
JobsWithinWindow ==
    stream.accumulator # None => Len(stream.accumulator.pending) <= window

====
