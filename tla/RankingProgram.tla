---------------------------- MODULE RankingProgram ----------------------------
(***************************************************************************)
(* What the encrypted evaluation computes: the ranking program of a        *)
(* profile, built as the code builds it and executed on the slots of the   *)
(* packed ballots, and the decoding of its result into an order of         *)
(* options. Plaintext has the encoding of slots, so a value here is its    *)
(* 2 * ActiveSlots slots, first the primary orbit and then the             *)
(* complementary one; RankingEngine has the decoding of programs, the      *)
(* residency of values and their storage.                                  *)
(*                                                                         *)
(* A profile is [participants, options, maximum, slots]: how many of each, *)
(* the largest score, and ActiveSlots. An instruction is [op, inputs,      *)
(* parameter] as in RankingEngine.                                         *)
(***************************************************************************)
EXTENDS Integers, Sequences, SequencesExt, FiniteSets, FiniteSetsExt, Functions

CONSTANTS Profiles, PLAINTEXT_MODULUS, COMPARISON_BLOCK_WIDTH, None

Input == 0  Add == 1  Multiply == 2  Scale == 3  Mask == 4  Offset == 5  Rotate == 6

CeilHalf(n) == (n + 1) \div 2
NextPowerOfTwo(n) == CHOOSE w \in {2 ^ k : k \in 0 .. n} : w >= n /\ w < 2 * n

comparison_degree(profile) == 2 * (profile.maximum - 1) * profile.participants + 1
rank_window(profile) == NextPowerOfTwo(profile.options)

----
(* Building the program. A builder state has the instructions `ins`, the   *)
(* cache `powers` of powers and the index `value` of the last result.      *)

append(ins, op, inputs, parameter) ==
  Append(ins, [op |-> op, parameter |-> parameter,
               inputs |-> [j \in 1 .. 2 |-> IF j <= Len(inputs) THEN inputs[j] ELSE None]])

\* Appends an instruction and makes it the last result.
Step(b, op, inputs, parameter) ==
  [b EXCEPT !.ins = append(@, op, inputs, parameter), !.value = Len(b.ins) + 1]

\* An instruction on the last result.
Then(b, op, parameter) == Step(b, op, <<b.value>>, parameter)

sum(b, values) ==
  FoldLeft(LAMBDA c, v : Step(c, Add, <<c.value, v>>, 0),
           [b EXCEPT !.value = values[1]], Tail(values))

\* A power from its two halves, each computed once.
RECURSIVE power(_, _)
power(b, exponent) ==
  IF b.powers[exponent] # None THEN [b EXCEPT !.value = b.powers[exponent]]
  ELSE LET left == power(b, exponent \div 2)
           right == power(left, CeilHalf(exponent))
           product == Step(right, Multiply, <<left.value, right.value>>, 0)
       IN  [product EXCEPT !.powers[exponent] = product.value]

\* None where the blocks have ended.
RECURSIVE combine_blocks(_, _, _, _)
combine_blocks(b, offset, length, blocks) ==
  IF offset >= Len(blocks) THEN [b EXCEPT !.value = None]
  ELSE IF length = 1 THEN [b EXCEPT !.value = blocks[offset + 1]]
  ELSE LET lower == combine_blocks(b, offset, length \div 2, blocks)
           upper == combine_blocks(lower, offset + length \div 2, length \div 2, blocks)
       IN  IF upper.value = None THEN [upper EXCEPT !.value = lower.value]
           ELSE LET raised == power(upper, (COMPARISON_BLOCK_WIDTH * length) \div 2)
                    weighted == Step(raised, Multiply, <<raised.value, upper.value>>, 0)
                IN  Step(weighted, Add, <<lower.value, weighted.value>>, 0)

\* A collection with one more term, the last result of a builder state; and
\* the sum of its terms.
Collect(c, b) == [b |-> b, terms |-> Append(c.terms, b.value)]
SumOf(c) == sum(c.b, c.terms)

\* The terms of a block: its odd powers, each with its coefficient.
Terms(b, degree, block) ==
  LET last == Min({COMPARISON_BLOCK_WIDTH - 1, degree - COMPARISON_BLOCK_WIDTH * block})
      term(c, i) == Collect(c, Then(power(c.b, 2 * i + 1), Scale,
                                    COMPARISON_BLOCK_WIDTH * block + 2 * i + 1))
  IN  FoldLeft(term, [b |-> b, terms |-> <<>>], [k \in 1 .. CeilHalf(last) |-> k - 1])

CombineAll(c, count) == combine_blocks(c.b, 0, NextPowerOfTwo(count), c.terms)

comparison(b, degree) ==
  LET count == (degree + COMPARISON_BLOCK_WIDTH) \div COMPARISON_BLOCK_WIDTH
      fresh == [b EXCEPT !.powers = [e \in 1 .. degree |-> IF e = 1 THEN b.value ELSE None]]
      next(c, block) == Collect(c, SumOf(Terms(c.b, degree, block)))
  IN  CombineAll(FoldLeft(next, [b |-> fresh, terms |-> <<>>], [k \in 1 .. count |-> k - 1]), count)

\* Adds `count` further rotations of a value to it.
Gather(b, count) ==
  FoldLeft(LAMBDA c, k : LET turned == Step(c.b, Rotate, <<c.shifted>>, 0)
                         IN  [b |-> Step(turned, Add, <<c.b.value, turned.value>>, 0),
                              shifted |-> turned.value],
           [b |-> b, shifted |-> b.value], [k \in 1 .. count |-> k]).b

\* The instructions a value depends on, each after its inputs.
RECURSIVE visit(_, _, _)
visit(index, ins, ordered) ==
  IF index = None \/ index \in ToSet(ordered) THEN ordered
  ELSE Append(visit(ins[index].inputs[2], ins, visit(ins[index].inputs[1], ins, ordered)), index)

encode(b) ==
  LET ordered == visit(b.value, b.ins, <<>>)
      renamed(index) == IF index = None THEN None ELSE CHOOSE k \in 1 .. Len(ordered) : ordered[k] = index
  IN  [k \in 1 .. Len(ordered) |->
         [b.ins[ordered[k]] EXCEPT !.inputs = <<renamed(@[1]), renamed(@[2])>>]]

\* Each option's rank reaches the slot of every requested rank.
Broadcast(b, top_count) == Gather(b, top_count - 1)

\* Family zero is the complete ordering.
coefficient_base(profile, top_count) ==
  IF top_count = profile.options THEN 0 ELSE profile.options * top_count

\* The powers of the last result, each with its weights.
Weighted(b, count, base) ==
  FoldLeft(LAMBDA c, e : Collect(c, Then(power(c.b, e), Mask, base + e)),
           [b |-> [b EXCEPT !.powers = [e \in 1 .. count |-> IF e = 1 THEN b.value ELSE None]],
            terms |-> <<>>],
           [e \in 1 .. count |-> e])

for_profile(profile, top_count) ==
  LET n == profile.participants
      m == profile.options
      start == FoldLeft(LAMBDA b, p : Step(b, Input, <<>>, p),
                        [ins |-> <<>>, powers |-> <<>>, value |-> None], [p \in 1 .. n |-> p - 1])
      shifted == Then(sum(start, [p \in 1 .. n |-> p]), Offset, 0)
      half == Then(comparison(shifted, comparison_degree(profile)), Offset, 1)
      masked == Then(Gather(half, rank_window(profile) - 1), Mask, 0)
      equal == Weighted(Broadcast(masked, top_count), m - 1, coefficient_base(profile, top_count))
      ranked == Then(SumOf(equal), Offset, IF top_count = m THEN 2 ELSE 2 + top_count)
  IN  encode(Then(ranked, Offset, m + 3))

----
(* The plaintexts of the program.                                          *)

Residue(value) == value % PLAINTEXT_MODULUS
Times(a, b) == (a * b) % PLAINTEXT_MODULUS

RECURSIVE Raised(_, _)
Raised(value, exponent) ==
  IF exponent = 0 THEN 1
  ELSE LET rest == Raised(Times(value, value), exponent \div 2)
       IN  IF exponent % 2 = 1 THEN Times(value, rest) ELSE rest

\* Newton's divided differences, one order after the other.
Differences(points, values) ==
  FoldLeft(LAMBDA d, order :
             SubSeq(d, 1, order) \o
             [j \in 1 .. Len(d) - order |->
                Times(Residue(d[order + j] - d[order + j - 1]),
                      Raised(Residue(points[order + j] - points[j]), PLAINTEXT_MODULUS - 2))],
           values, [o \in 1 .. Len(points) - 1 |-> o])

\* The polynomial of their Newton form, the constant coefficient first.
interpolate(points, values) ==
  LET d == Differences(points, values)
      n == Len(points)
      next(f, k) == LET raised == <<d[n - k]>> \o f
                    IN  [i \in 1 .. Len(raised) |->
                           Residue(raised[i] - IF i < Len(raised)
                                               THEN Times(raised[i + 1], points[n - k]) ELSE 0)]
  IN  FoldLeft(next, <<d[n]>>, [k \in 1 .. n - 1 |-> k])

\* One above zero and zero below it, at the odd points of the degree.
comparison_coefficients(profile) ==
  LET maximum == comparison_degree(profile)
  IN  interpolate([i \in 1 .. maximum + 1 |-> Residue(2 * (i - 1) - maximum)],
                  [i \in 1 .. maximum + 1 |-> IF 2 * (i - 1) > maximum THEN 1 ELSE 0])

equality(profile) ==
  LET m == profile.options
  IN  [r \in 0 .. m - 1 |->
         interpolate([i \in 1 .. m |-> i - 1], [i \in 1 .. m |-> IF i - 1 = r THEN 1 ELSE 0])]

\* A plaintext of the primary orbit alone.
Primary(profile, f(_)) == [s \in 0 .. 2 * profile.slots - 1 |-> IF s < profile.slots THEN Residue(f(s)) ELSE 0]

ranking_coefficients(profile, top_count) ==
  LET w == rank_window(profile)
      e == equality(profile)
      rank(s) == (w - (s % w)) % w
  IN  [exponent \in 0 .. profile.options - 1 |->
         LET slot(s) == IF rank(s) < top_count THEN e[rank(s)][exponent + 1] ELSE 0
         IN  Primary(profile, slot)]

\* Ties break toward the lower position.
input_offset(profile) ==
  LET w == rank_window(profile)
      slot(s) == IF s \div w < profile.options /\ s % w < s \div w THEN 1 ELSE -1
  IN  Primary(profile, slot)

rank_mask(profile) ==
  LET slot(s) == IF s % rank_window(profile) = 0 THEN 1 ELSE 0 IN Primary(profile, slot)

\* The unused windows' ranks are zero, which counts as a first place.
padding_correction(profile) ==
  LET w == rank_window(profile)
      slot(s) == IF s % w = 0 /\ s \div w >= profile.options THEN -1 ELSE 0
  IN  Primary(profile, slot)

\* A ballot's score differences, and its scores in the complementary orbit.
packing(profile, scores) ==
  LET w == rank_window(profile)
      m == profile.options
  IN  [s \in 0 .. 2 * profile.slots - 1 |->
         IF s < profile.slots
         THEN IF s \div w < m /\ s % w < m
              THEN Residue(2 * (scores[(s % w) + 1] - scores[(s \div w) + 1])) ELSE 0
         ELSE IF s - profile.slots < m THEN scores[s - profile.slots + 1] ELSE 0]

----
VARIABLES profile, top_count, ballots, step, values,
          engine    \* the program and its plaintexts

vars == <<profile, top_count, ballots, step, values, engine>>

NewEngine(p, top) ==
  [program |-> for_profile(p, top), comparison |-> comparison_coefficients(p),
   ranking |-> ranking_coefficients(p, top), offset |-> input_offset(p),
   mask |-> rank_mask(p), padding |-> padding_correction(p)]

ScoreVectors(p) == [1 .. p.options -> 1 .. p.maximum]

Init == /\ profile \in Profiles /\ top_count \in 1 .. profile.options
        /\ engine = NewEngine(profile, top_count)
        /\ ballots \in [1 .. profile.participants -> ScoreVectors(profile) \cup {None}]
        /\ step = 1 /\ values = <<>>

Slotwise(f(_, _), a, b) == [s \in DOMAIN a |-> Residue(f(a[s], b[s]))]
Plus(a, b) == a + b
Product(a, b) == a * b

\* The parameter of a weight: the power it is for, in the declared family.
Weights(parameter) ==
  IF parameter = 0 THEN engine.mask ELSE engine.ranking[parameter % profile.options]

\* What an instruction computes on its operands; a constant is in every slot,
\* and an author without an accepted ballot contributes zero.
Output(i) ==
  LET left == values[i.inputs[1]]
      right == values[i.inputs[2]]
      slots == profile.slots
  IN  CASE i.op = Input ->
             IF ballots[i.parameter + 1] = None THEN [s \in 0 .. 2 * slots - 1 |-> 0]
             ELSE packing(profile, ballots[i.parameter + 1])
        [] i.op = Add -> Slotwise(Plus, left, right)
        [] i.op = Multiply -> Slotwise(Product, left, right)
        [] i.op = Scale -> [s \in DOMAIN left |-> Times(left[s], engine.comparison[i.parameter + 1])]
        [] i.op = Mask -> Slotwise(Product, left, Weights(i.parameter))
        [] i.op = Rotate -> [s \in DOMAIN left |-> left[IF s < slots THEN (s + 1) % slots
                                                        ELSE slots + ((s + 1) % slots)]]
        [] i.op = Offset ->
             CASE i.parameter = 0 -> Slotwise(Plus, left, engine.offset)
               [] i.parameter = 1 -> [s \in DOMAIN left |-> Residue(left[s] + engine.comparison[1])]
               [] i.parameter = profile.options + 3 -> Slotwise(Plus, left, engine.padding)
               [] OTHER -> Slotwise(Plus, left, engine.ranking[0])

UsedAfter(v, k) == \E l \in k + 1 .. Len(engine.program) : v \in ToSet(engine.program[l].inputs)

\* A value is retired with its last use.
Execute ==
  /\ step <= Len(engine.program)
  /\ step' = step + 1
  /\ LET output == Output(engine.program[step])
     IN  values' = [v \in {u \in DOMAIN values : UsedAfter(u, step)} \cup {step} |->
                      IF v = step THEN output ELSE values[v]]
  /\ UNCHANGED <<profile, top_count, ballots, engine>>

Next == Execute
Spec == Init /\ [][Next]_vars

----
(* Decoding the result.                                                    *)

finished == step = Len(engine.program) + 1

\* The slots of an option's ranks.
Place(option, rank) ==
  ((option * rank_window(profile)) + profile.slots - rank) % profile.slots

\* The option at each requested rank, or None when the slots are anything but
\* one at one option of each rank, all different, and zero elsewhere.
selected_positions(result) ==
  LET ranks == 0 .. top_count - 1
      options == 0 .. profile.options - 1
      places == {Place(o, r) : o \in options, r \in ranks}
      one(r) == {o \in options : result[Place(o, r)] = 1}
  IN  IF /\ \A s \in DOMAIN result : result[s] # 0 => s \in places /\ result[s] = 1
         /\ \A r \in ranks : Cardinality(one(r)) = 1
         /\ \A q, r \in ranks : q # r => one(q) # one(r)
      THEN [k \in 1 .. top_count |-> CHOOSE o \in one(k - 1) : TRUE]
      ELSE None

----
(* Properties.                                                             *)

Total(option) ==
  FoldSet(LAMBDA p, t : t + IF ballots[p] = None THEN 0 ELSE ballots[p][option + 1],
          0, DOMAIN ballots)

\* An option is above another by its total, and by its position at a tie.
Above(a, b) == Total(a) > Total(b) \/ (Total(a) = Total(b) /\ a < b)

Standing(option) == Cardinality({o \in 0 .. profile.options - 1 : Above(o, option)})

\* The outcome of every poll: for every set of accepted ballots the program's
\* result decodes, to the options of highest total in order, ties toward the
\* lower position.
OutcomeRight ==
  finished =>
    LET order == selected_positions(values[Len(engine.program)])
    IN  /\ order # None
        /\ \A k \in 1 .. top_count : Standing(order[k]) = k - 1

Decoder(p) == INSTANCE RankingEngine WITH
  Participants <- p.participants, Options <- p.options, MAXIMUM_SCORE <- p.maximum,
  MAXIMUM_INSTRUCTIONS <- 1024, Programs <- {}, Capacity <- <<>>,
  KeyTotal <- <<>>, program <- <<>>, step <- 0, values <- <<>>, stored <- <<>>, uses <- <<>>,
  cache <- 0, records <- 0, pending <- FALSE, work <- FALSE, input <- 0, read <- 0, peak <- 0

\* The engine accepts the program of every profile and reads the requested
\* result length back from it, so that both ends use one set of weights.
EngineAccepts ==
  \A p \in Profiles : \A top \in 1 .. p.options :
    (step = 1 /\ p = profile /\ top = top_count) =>
      LET built == for_profile(p, top)
      IN  /\ Decoder(p)!decode_program(built)
          /\ {Decoder(p)!DeclaredTop(built[k]) : k \in DOMAIN built} \ {None} = {top}
====
