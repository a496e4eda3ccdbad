---------------------------- MODULE RankingEngine ----------------------------
(***************************************************************************)
(* The encrypted evaluation of a ranking program: decoding the program and *)
(* executing it within a bounded number of resident values, with the rest  *)
(* in the host's storage, which is not trusted.                            *)
(*                                                                         *)
(* A ciphertext is right (TRUE), the value the program defines for its     *)
(* index, or wrong (FALSE), anything else; its identity is the same bit,   *)
(* since two values with one identity are the same. An operation's output  *)
(* is right when its inputs are. Keyed work is atomic here: KeyedWork has  *)
(* its jobs and its records.                                               *)
(***************************************************************************)
EXTENDS Integers, Sequences, SequencesExt, FiniteSets, FiniteSetsExt, Functions

CONSTANTS Participants, Options, MAXIMUM_SCORE, MAXIMUM_INSTRUCTIONS,
          Programs,      \* the candidate programs the host hands over: the
                         \* instructions, which the header counts and of which
                         \* it names the last as the output
          Capacity,      \* operation -> the resident values it allows, and zero
                         \* where the memory bound leaves no room for any
          KeyTotal,      \* cache -> the keys it uses
          None

\* An instruction is [op, inputs, parameter]; inputs is the pair of indices,
\* with None where the encoding has no input.
Input == 0
Add == 1
Multiply == 2
Scale == 3
Mask == 4
Offset == 5
Rotate == 6

Arity(op) == CASE op = Input -> 0 [] op \in {Add, Multiply} -> 2 [] OTHER -> 1

EngineAssumption ==
  /\ Participants \in Nat \ {0} /\ Options \in Nat \ {0}
  /\ MAXIMUM_SCORE \in Nat \ {0} /\ MAXIMUM_INSTRUCTIONS \in Nat \ {0}
  /\ \A op \in 0 .. 6 : Capacity[op] \in Nat

VARIABLES program, step, values, stored, uses, cache,
          records,    \* the keys of the cache whose records exist
          pending,    \* whether the last key's records are still to be stored
          work,       \* whether keyed work is running
          input, read, peak

vars == <<program, step, values, stored, uses, cache, records, pending, work, input, read, peak>>

----
(* Decoding.                                                               *)

InputsOf(i) == SubSeq(i.inputs, 1, Arity(i.op))

\* The rank family an instruction declares, or None.
DeclaredTop(i) ==
  IF i.op = Mask /\ i.parameter # 0
  THEN IF i.parameter \div Options = 0 THEN Options ELSE i.parameter \div Options
  ELSE IF i.op = Offset /\ i.parameter \in 2 .. Options + 1
  THEN IF i.parameter = 2 THEN Options ELSE i.parameter - 2
  ELSE None

comparison_degree == 2 * (MAXIMUM_SCORE - 1) * Participants + 1

ValidParameter(i) ==
  CASE i.op = Input -> i.parameter \in 0 .. Participants - 1
    [] i.op \in {Add, Multiply, Rotate} -> i.parameter = 0
    [] i.op = Scale -> i.parameter \in 1 .. comparison_degree /\ i.parameter % 2 = 1
    [] i.op = Mask -> i.parameter = 0 \/ (i.parameter < Options * Options /\ i.parameter % Options # 0)
    [] i.op = Offset -> i.parameter < Options + 2 \/ i.parameter = Options + 3

UsesOf(p, v) ==
  FoldFunction(LAMBDA a, b : a + b, 0,
    [k \in DOMAIN p |-> Cardinality({j \in 1 .. Arity(p[k].op) : p[k].inputs[j] = v})])

\* A program is accepted when every input is an earlier value, every roster
\* position is an input once, one result length is declared and every value
\* but the last is used.
decode_program(p) ==
  LET ins == {k \in DOMAIN p : p[k].op = Input}
      tops == {DeclaredTop(p[k]) : k \in DOMAIN p} \ {None}
  IN  /\ Len(p) \in 1 .. MAXIMUM_INSTRUCTIONS
      /\ \A k \in DOMAIN p : /\ \A j \in 1 .. 2 : IF j <= Arity(p[k].op)
                                                  THEN p[k].inputs[j] \in 1 .. k - 1
                                                  ELSE p[k].inputs[j] = None
                             /\ ValidParameter(p[k])
      /\ {p[k].parameter : k \in ins} = 0 .. Participants - 1
      /\ Cardinality(ins) = Participants
      /\ Cardinality(tops) <= 1
      /\ \A v \in 1 .. Len(p) - 1 : UsesOf(p, v) > 0

\* The most values held at once when each stays until its last use.
peak_values(p) ==
  Max({Cardinality({v \in 1 .. k : v = k \/ \E l \in k .. Len(p) : v \in ToSet(InputsOf(p[l]))})
        : k \in DOMAIN p})

Init ==
  /\ program \in {p \in Programs : decode_program(p)}
  /\ step = 1
  /\ values = [v \in DOMAIN program |-> None] /\ stored = [v \in DOMAIN program |-> None]
  /\ uses = [v \in DOMAIN program |-> IF v = Len(program) THEN 1 ELSE UsesOf(program, v)]
  /\ cache = None /\ records = 0 /\ pending = FALSE /\ work = FALSE
  /\ input = None /\ read = None /\ peak = peak_values(program)

TypeOK ==
  /\ step \in 1 .. Len(program) + 1
  /\ \A v \in DOMAIN program : /\ values[v] \in BOOLEAN \cup {None}
                               /\ stored[v] \in BOOLEAN \cup {None}
                               /\ uses[v] \in Nat
  /\ cache \in {Multiply, Rotate, None} /\ records \in Nat
  /\ pending \in BOOLEAN /\ work \in BOOLEAN /\ input \in BOOLEAN \cup {None}

----
(* Requirements of the next instruction.                                   *)

finished == step = Len(program) + 1
Instruction == program[step]
Required == ToSet(InputsOf(Instruction))
Resident == {v \in DOMAIN program : values[v] # None}
Reloads == Required \ Resident

\* The cache of a keyed instruction; another one leaves it as it is.
Wanted == IF Instruction.op \in {Multiply, Rotate} THEN Instruction.op ELSE cache
Loaded == IF Wanted = cache THEN records ELSE 0

NextUse(v) ==
  LET later == {k \in step + 1 .. Len(program) : v \in ToSet(InputsOf(program[k]))}
  IN  IF later = {} THEN Len(program) + 1 ELSE Min(later)

\* The values that may make room: never an input of the instruction.
Candidates == Resident \ Required

Farther(u, v) == NextUse(u) > NextUse(v) \/ (NextUse(u) = NextUse(v) /\ u > v)

\* How many values must go so that the reloads and the output fit.
Excess == Cardinality(Resident) + Cardinality(Reloads) + 1 - Capacity[Instruction.op]

\* Farthest next use first.
Evicted == {v \in Candidates : Cardinality({u \in Candidates : Farther(u, v)}) < Excess}

\* Mutant: a value is dropped whether or not a copy of it is stored.
UnstoredDrops == Evicted

\* A value whose verified copy is still stored is dropped, the rest spilled.
Drops  == {v \in Evicted : stored[v] # None}
Spills == Evicted \ Drops

\* While work or records are outstanding the call is refused untouched.
Begins == ~finished /\ ~work /\ ~pending

\* It is refused too when a value that must be reloaded was never stored, and
\* when nothing more can go.
Requirable ==
  /\ Begins
  /\ \A v \in Reloads : stored[v] # None
  /\ Cardinality(Candidates) >= Excess

\* What the call itself changes: the cache and the drops.
Prepared == [v \in DOMAIN program |-> IF v \in Drops THEN None ELSE values[v]]

\* A call that is refused for its values has already switched the cache.
requirements ==
  /\ Begins
  /\ cache' = Wanted /\ records' = Loaded
  /\ values' = IF Requirable THEN Prepared ELSE values
  /\ UNCHANGED <<program, step, stored, uses, pending, work, input, read, peak>>

----
(* Keys, inputs and stored values.                                         *)

load_key ==
  /\ cache # None /\ records < KeyTotal[cache] /\ ~pending /\ ~work
  /\ records' = records + 1 /\ pending' = TRUE
  /\ UNCHANGED <<program, step, values, stored, uses, cache, work, input, read, peak>>

\* The host takes the records of the last key, all of them.
take_record ==
  /\ pending
  /\ pending' = FALSE
  /\ UNCHANGED <<program, step, values, stored, uses, cache, records, work, input, read, peak>>

load_input ==
  /\ ~finished /\ Instruction.op = Input /\ input = None
  /\ input' = TRUE
  /\ UNCHANGED <<program, step, values, stored, uses, cache, records, pending, work, read, peak>>

\* A read of stored bytes: a readback is compared with the resident value as
\* it arrives, a reload is decoded. The bytes are whatever the host has.
begin_readback(v, bytes) ==
  /\ read = None /\ values[v] # None
  /\ read' = [index |-> v, reload |-> FALSE, bytes |-> bytes, repeats |-> bytes = values[v]]
  /\ UNCHANGED <<program, step, values, stored, uses, cache, records, pending, work, input, peak>>

begin_reload(v, bytes) ==
  /\ read = None
  /\ read' = [index |-> v, reload |-> TRUE, bytes |-> bytes, repeats |-> FALSE]
  /\ UNCHANGED <<program, step, values, stored, uses, cache, records, pending, work, input, peak>>

\* A readback retires a value this instruction spills once its bytes repeat
\* it; a reload brings one back that the instruction needs, once its bytes
\* have the identity recorded when it was spilled.
Accepted(r) ==
  IF r.reload
  THEN r.index \in Reloads /\ stored[r.index] = r.bytes
  ELSE r.index \in Spills /\ r.repeats

\* The requirements are asked anew, whose refusal ends the read as well.
finish_read ==
  /\ read # None /\ read' = None
  /\ cache' = (IF Begins THEN Wanted ELSE cache) /\ records' = (IF Begins THEN Loaded ELSE records)
  /\ IF ~Requirable
     THEN UNCHANGED <<values, stored>>
     ELSE IF ~Accepted(read)
     THEN values' = Prepared /\ UNCHANGED stored
     ELSE IF read.reload
     THEN values' = [Prepared EXCEPT ![read.index] = read.bytes] /\ UNCHANGED stored
     ELSE /\ values' = [Prepared EXCEPT ![read.index] = None]
          /\ stored' = [stored EXCEPT ![read.index] = read.bytes]
  /\ UNCHANGED <<program, step, uses, pending, work, input, peak>>

\* The host gives a read up.
abandon_read ==
  /\ read # None /\ read' = None
  /\ UNCHANGED <<program, step, values, stored, uses, cache, records, pending, work, input, peak>>

----
(* Execution.                                                              *)

Ready == /\ Requirable /\ Spills = {} /\ Reloads = {}
         /\ Wanted = None => Loaded = 0
         /\ Wanted # None => Loaded = KeyTotal[Wanted]

\* The values whose last use this instruction is.
Retired == {v \in Required :
             uses[v] = Cardinality({j \in 1 .. Arity(Instruction.op) : Instruction.inputs[j] = v})}

\* The output joins the values `held`, and the inputs of last use leave.
Complete(held, output) ==
  /\ values' = [v \in DOMAIN program |->
                 IF v = step THEN output ELSE IF v \in Retired THEN None ELSE held[v]]
  /\ stored' = [v \in DOMAIN program |-> IF v \in Retired THEN None ELSE stored[v]]
  /\ uses' = [v \in DOMAIN program |->
               uses[v] - Cardinality({j \in 1 .. Arity(Instruction.op) : Instruction.inputs[j] = v})]
  /\ step' = step + 1

Output == IF Instruction.op = Input THEN input ELSE \A v \in Required : values[v] = TRUE

\* The next instruction, when everything it needs is there: a keyed one only
\* starts its work.  Otherwise the call has done what requirements does.
execute ==
  /\ ~work /\ ~finished /\ Ready
  /\ Instruction.op = Input => input # None
  /\ cache' = Wanted /\ records' = Loaded
  /\ IF Instruction.op \in {Multiply, Rotate}
     THEN /\ work' = TRUE /\ values' = Prepared
          /\ UNCHANGED <<step, stored, uses, input>>
     ELSE /\ Complete(Prepared, Output)
          /\ input' = IF Instruction.op = Input THEN None ELSE input
          /\ UNCHANGED work
  /\ UNCHANGED <<program, pending, read, peak>>

\* The keyed work ends with the ciphertext of the inputs it started from.
finish_work ==
  /\ work /\ work' = FALSE
  /\ Complete(values, Output)
  /\ UNCHANGED <<program, cache, records, pending, input, read, peak>>

Next ==
  \/ requirements \/ load_key \/ take_record \/ load_input \/ finish_read \/ abandon_read
  \/ execute \/ finish_work
  \/ \E v \in DOMAIN program, bytes \in BOOLEAN : begin_readback(v, bytes) \/ begin_reload(v, bytes)

Spec == Init /\ [][Next]_vars

\* A host that does what the requirements say, whose storage is mostly right.
Serve(v) == \/ v \in Spills /\ begin_readback(v, TRUE)
            \/ v \in Reloads /\ begin_reload(v, TRUE)

ServeAny == ~finished /\ Requirable /\ \E v \in DOMAIN program : Serve(v)

ServedNext ==
  \/ requirements \/ load_key \/ take_record \/ load_input \/ execute \/ finish_work
  \/ finish_read \/ ServeAny
  \/ ~finished /\ Requirable /\ \E v \in Reloads : begin_reload(v, FALSE)

----
(* Properties.                                                             *)

\* Whatever the storage hands back, every value the engine holds, and so the
\* one it ends with, is the value the program defines.
ValuesRight == \A v \in Resident : values[v] = TRUE

\* A value with uses left is never lost: it is resident, or its verified copy
\* is stored. Otherwise the evaluation could not go on.
UsableKept ==
  \A v \in 1 .. step - 1 : uses[v] > 0 => values[v] # None \/ stored[v] = TRUE

\* An instruction executes within the values its operation allows.
WithinCapacity ==
  step' = step + 1 => Cardinality(Resident \cup {step}) <= Capacity[Instruction.op]

\* The memory plan counts no fewer values than the program comes to hold.
WithinPeak ==
  step' = step + 1 =>
    Cardinality({step} \cup {v \in DOMAIN program : values[v] # None \/ stored[v] # None}) <= peak
====
