---------------------------- MODULE TargetSession ----------------------------
(***************************************************************************)
(* The evaluation target of one instance (TargetSession over               *)
(* ClassifiedClosedInventory): it takes the setup, the classifications and *)
(* the close barrier the instance's other verifiers made, evaluates the    *)
(* accepted ballots with bytes the host streams in, and retains its target *)
(* under the participant's credential for a later visit.                   *)
(*                                                                         *)
(* A ballot is its envelope [author, body, valid]: who signed it, the body *)
(* it names and the verdict of the ballot's verification, which is the     *)
(* same in every instance (Classification). A barrier is [setup, slots],   *)
(* a slot being Absent, Conflicting or a ballot. RankingEngine has the     *)
(* evaluator's values; here an instruction of Program is what the host     *)
(* must supply for it: [input, keys, stores], an author or None, the keys  *)
(* of its cache and the stored values to be read back or in.               *)
(***************************************************************************)
EXTENDS Integers, Sequences, FiniteSets, TLAPS

CONSTANTS Authors,       \* participants
          Turnout,     \* accepted ballots an evaluation needs
          Setups, Ballots, Barriers,
          Program,
          StreamParts,       \* pushes that make up a complete stream
          Foreign,     \* retained copies other credentials keyed
          MaxVisits,
          Absent, Conflicting, Nil

SlotValues == {Absent, Conflicting} \cup Ballots

\* What the evaluation has of one author, and what it computes of all of them.
Streams == [ballot : SlotValues \cup {Nil}, exact : BOOLEAN]
Results == [inputs : [1 .. Authors -> Streams \cup {Nil}], sound : BOOLEAN]

\* The program takes an input of every author.
ASSUME TargetAssumption ==
  /\ Authors \in Nat \ {0} /\ Turnout \in 1 .. Authors /\ StreamParts \in Nat \ {0}
  /\ \A b \in Barriers : b.setup \in Setups /\ b.slots \in [1 .. Authors -> SlotValues]
  /\ Program \in Seq([input : 1 .. Authors \cup {Nil}, keys : Seq({"common", "aggregate"}),
                      stores : SUBSET Nat])
  /\ \A a \in 1 .. Authors : \E k \in 1 .. Len(Program) : Program[k].input = a
  /\ Nil \notin 1 .. Authors \cup Results \cup {"requested", "right", "wrong"}

VARIABLES setup,           \* the setup this instance verified
          closeBarrier, classification,  \* what the other verifiers hold
          targetContext, classifications, evaluation, incoming, evaluationTarget,
          copies,          \* the copies the participant's credential keyed
          evaluated,       \* the targets this participant evaluated
          visits

targetVars == <<setup, closeBarrier, classification, targetContext, classifications, evaluation,
          incoming, evaluationTarget, copies, evaluated, visits>>

otherVars == <<setup, closeBarrier, classification, copies, evaluated, visits>>

TargetInit ==
  /\ setup \in Setups /\ closeBarrier = Nil /\ classification = Nil
  /\ targetContext = FALSE /\ classifications = <<>> /\ evaluation = Nil
  /\ incoming = Nil /\ evaluationTarget = Nil
  /\ copies = {} /\ evaluated = {} /\ visits = 1

\* A later visit is a new instance; the retained copies are what is left.
Visit(s) ==
  /\ visits < MaxVisits /\ visits' = visits + 1
  /\ setup' = s /\ closeBarrier' = Nil /\ classification' = Nil
  /\ targetContext' = FALSE /\ classifications' = <<>> /\ evaluation' = Nil
  /\ incoming' = Nil /\ evaluationTarget' = Nil
  /\ UNCHANGED <<copies, evaluated>>

\* The other verifiers of the instance make a barrier of a setup, and classify.
MakeBarrier(b) ==
  /\ closeBarrier' = b
  /\ UNCHANGED <<setup, classification, targetContext, classifications, evaluation,
                 incoming, evaluationTarget, copies, evaluated, visits>>

Classify(b) ==
  /\ classification' = b
  /\ UNCHANGED <<setup, closeBarrier, targetContext, classifications, evaluation, incoming,
                 evaluationTarget, copies, evaluated, visits>>

----
(* The classified inventory.                                               *)

\* Mutant: a classification is matched to its slot by the body it is of.
MatchesBody(b, cs) ==
  /\ Len(cs) = Authors
  /\ \A a \in 1 .. Authors : IF b.slots[a] \in Ballots
                             THEN cs[a] # Nil /\ cs[a].body = b.slots[a].body
                             ELSE cs[a] = Nil

\* One classification for each usable slot, of the slot's own envelope, and
\* none for the others.
Matches(b, cs) ==
  /\ Len(cs) = Authors
  /\ \A a \in 1 .. Authors : cs[a] = IF b.slots[a] \in Ballots THEN b.slots[a] ELSE Nil

\* 0 absent, 1 invalid, 2 accepted, 3 conflicting.
Codes(b, cs) ==
  [a \in 1 .. Authors |-> CASE b.slots[a] = Absent -> 0
                            [] b.slots[a] = Conflicting -> 3
                            [] OTHER -> IF cs[a].valid THEN 2 ELSE 1]

AcceptedAuthors(codes) == {a \in 1 .. Authors : codes[a] = 2}

\* The final ciphertext is determined by the ballots it is made of and by
\* whether every key, stored value and record was the right one.
TargetBody(s, b, codes, result) == [setup |-> s, barrier |-> b, codes |-> codes, result |-> result]

\* Only an evaluation of this instance is keyed to the credential.
CompleteTarget(body) ==
  /\ evaluationTarget' = [body |-> body, classified |-> TRUE]
  /\ evaluated' = evaluated \cup {body}

Zero == [ballot |-> Nil, exact |-> TRUE]

NewEngine == [step |-> 1, keys |-> 0, pending |-> FALSE, input |-> Nil,
              stores |-> {}, work |-> Nil,
              inputs |-> [a \in 1 .. Authors |-> Nil], sound |-> TRUE]

----
(* The commands; none of them follows a target, and while a stream is open *)
(* only its push and its finish do.                                        *)

TargetOpen == evaluationTarget = Nil /\ incoming = Nil

BeginTarget ==
  /\ TargetOpen /\ ~targetContext /\ evaluation = Nil
  /\ targetContext' = TRUE
  /\ UNCHANGED <<classifications, evaluation, incoming, evaluationTarget>> /\ UNCHANGED otherVars

\* Whatever the classifier holds is taken, also nothing.
TakeClassification ==
  /\ TargetOpen /\ evaluation = Nil /\ targetContext
  /\ Len(classifications) < Authors
  /\ classifications' = Append(classifications, classification)
  /\ classification' = Nil
  /\ UNCHANGED <<setup, closeBarrier, targetContext, evaluation, incoming, evaluationTarget, copies,
                 evaluated, visits>>

UsableBarrier == closeBarrier # Nil /\ closeBarrier.setup = setup

EnoughTurnout(codes) == Cardinality(AcceptedAuthors(codes)) >= Turnout

\* The context and the barrier are gone however the start ends; the
\* classifications only once the barrier is this instance's.
StartEvaluation ==
  /\ TargetOpen /\ evaluation = Nil /\ targetContext
  /\ targetContext' = FALSE /\ closeBarrier' = Nil
  /\ classifications' = IF UsableBarrier THEN <<>> ELSE classifications
  /\ IF UsableBarrier /\ Matches(closeBarrier, classifications)
     THEN LET codes == Codes(closeBarrier, classifications)
          IN  IF EnoughTurnout(codes)
              THEN /\ evaluation' = [barrier |-> closeBarrier, codes |-> codes, engine |-> NewEngine]
                   /\ UNCHANGED <<evaluationTarget, evaluated>>
              ELSE CompleteTarget(TargetBody(setup, closeBarrier, codes, Nil)) /\ UNCHANGED evaluation
     ELSE UNCHANGED <<evaluation, evaluationTarget, evaluated>>
  /\ UNCHANGED <<setup, classification, incoming, copies, visits>>

Evaluator == evaluation.engine
Required == Program[Evaluator.step]

\* What the engine answers about the next instruction, before it starts.
Ready == /\ evaluation # Nil /\ Evaluator.step <= Len(Program)
         /\ Evaluator.work = Nil /\ ~Evaluator.pending

LoadKey(e, exact) ==
  [e EXCEPT !.keys = @ + 1, !.pending = TRUE, !.sound = @ /\ exact]

\* A common polynomial is recomputed here; an aggregate one is streamed in.
NextKey ==
  /\ TargetOpen /\ Ready
  /\ Evaluator.keys < Len(Required.keys)
  /\ IF Required.keys[Evaluator.keys + 1] = "common"
     THEN evaluation' = [evaluation EXCEPT !.engine = LoadKey(@, TRUE)] /\ UNCHANGED incoming
     ELSE /\ incoming' = [kind |-> "key", index |-> Evaluator.keys, received |-> 0, exact |-> TRUE]
          /\ UNCHANGED evaluation
  /\ UNCHANGED <<targetContext, classifications, evaluationTarget>> /\ UNCHANGED otherVars

\* An accepted ballot's body is streamed in; another author's input is zero.
BeginBallotInput(a) ==
  /\ TargetOpen /\ Ready /\ Required.input = a
  /\ IF a \in AcceptedAuthors(evaluation.codes)
     THEN /\ incoming' = [kind |-> "ballot", index |-> a, received |-> 0, exact |-> TRUE]
          /\ UNCHANGED evaluation
     ELSE /\ Evaluator.input = Nil
          /\ evaluation' = [evaluation EXCEPT !.engine.input = Zero]
          /\ UNCHANGED incoming
  /\ UNCHANGED <<targetContext, classifications, evaluationTarget>> /\ UNCHANGED otherVars

\* ReadBack and Reload: a stored value the instruction requires.
BeginRead(v) ==
  /\ TargetOpen /\ Ready /\ v \in Required.stores \ Evaluator.stores
  /\ incoming' = [kind |-> "stored", index |-> v, received |-> 0, exact |-> TRUE]
  /\ UNCHANGED <<targetContext, classifications, evaluation, evaluationTarget>> /\ UNCHANGED otherVars

\* A push past the length, and wrong bytes that do not decode, drop the stream.
PushInput(right, decodes) ==
  /\ evaluationTarget = Nil /\ incoming # Nil /\ (right => decodes)
  /\ incoming' = IF incoming.received = StreamParts \/ ~decodes
                 THEN Nil
                 ELSE [incoming EXCEPT !.received = @ + 1, !.exact = @ /\ right]
  /\ UNCHANGED <<targetContext, classifications, evaluation, evaluationTarget>> /\ UNCHANGED otherVars

\* The identity of the complete stream is the expected one.
StreamAuthentic(i) == i.received = StreamParts /\ i.exact

\* What a finished stream of the kind gives the engine.
Loaded(e, i) ==
  CASE i.kind = "key" -> LoadKey(e, i.exact)
    [] i.kind = "ballot" ->
         [e EXCEPT !.input = [ballot |-> evaluation.barrier.slots[i.index], exact |-> i.exact]]
    [] OTHER -> [e EXCEPT !.stores = @ \cup {i.index}, !.sound = @ /\ i.exact]

\* The engine takes one input for an instruction.
Takes(e, i) == i.kind = "ballot" => e.input = Nil

\* The stream is gone whether or not it is loaded.
FinishInput ==
  /\ evaluationTarget = Nil /\ incoming # Nil
  /\ incoming' = Nil
  /\ evaluation' = IF StreamAuthentic(incoming) /\ Takes(Evaluator, incoming)
                THEN [evaluation EXCEPT !.engine = Loaded(@, incoming)]
                ELSE evaluation
  /\ UNCHANGED <<targetContext, classifications, evaluationTarget>> /\ UNCHANGED otherVars

\* The last loaded key's records, which the host stores.
TakeKeyRecord ==
  /\ TargetOpen /\ evaluation # Nil /\ Evaluator.pending
  /\ evaluation' = [evaluation EXCEPT !.engine.pending = FALSE]
  /\ UNCHANGED <<targetContext, classifications, incoming, evaluationTarget>> /\ UNCHANGED otherVars

\* KeyRecord and SharedKeyRecords: the records of the pending request.
KeyRecord(record) ==
  /\ TargetOpen /\ evaluation # Nil /\ Evaluator.work = "requested"
  /\ evaluation' = [evaluation EXCEPT !.engine.work = record]
  /\ UNCHANGED <<targetContext, classifications, incoming, evaluationTarget>> /\ UNCHANGED otherVars

\* The instruction's inputs are used up with it.
Executed(e) ==
  [e EXCEPT !.step = @ + 1, !.keys = 0, !.stores = {}, !.work = Nil, !.input = Nil,
            !.inputs = IF Program[e.step].input = Nil
                       THEN @ ELSE [@ EXCEPT ![Program[e.step].input] = e.input]]

\* Supplied: what the instruction requires before it starts.
Supplied == /\ Evaluator.keys = Len(Required.keys) /\ Evaluator.stores = Required.stores
            /\ Required.input # Nil => Evaluator.input # Nil

\* A keyed instruction asks for its records; a record that is not the stored
\* one ends the evaluation.
Execute ==
  /\ TargetOpen /\ evaluation # Nil
  /\ \/ /\ Ready /\ Supplied
        /\ evaluation' = [evaluation EXCEPT !.engine =
                         IF Required.keys = <<>> THEN Executed(@)
                         ELSE [@ EXCEPT !.work = "requested"]]
     \/ /\ Evaluator.work = "right"
        /\ evaluation' = [evaluation EXCEPT !.engine = Executed(@)]
     \/ /\ Evaluator.work = "wrong"
        /\ evaluation' = Nil
  /\ UNCHANGED <<targetContext, classifications, incoming, evaluationTarget>> /\ UNCHANGED otherVars

FinishEvaluation ==
  /\ TargetOpen /\ evaluation # Nil /\ Evaluator.step = Len(Program) + 1
  /\ CompleteTarget(TargetBody(setup, evaluation.barrier, evaluation.codes,
                   [inputs |-> Evaluator.inputs, sound |-> Evaluator.sound]))
  /\ evaluation' = Nil
  /\ UNCHANGED <<setup, closeBarrier, classification, targetContext, classifications,
                 incoming, copies, visits>>

----
(* The retained copy.                                                      *)

\* A restored target is not retained again.
RetainEvaluation ==
  /\ evaluationTarget # Nil /\ evaluationTarget.classified
  /\ copies' = copies \cup {evaluationTarget.body}
  /\ UNCHANGED <<setup, closeBarrier, classification, targetContext, classifications,
                 evaluation, incoming, evaluationTarget, evaluated, visits>>

\* The tag is this credential's, and the body names this instance's setup.
Restorable(c) == c \in copies /\ c.setup = setup

\* The instance holds no target and no part of an evaluation.
Restored == TargetOpen /\ ~targetContext /\ evaluation = Nil /\ classifications = <<>>

\* The host streams in a copy, in pieces of which one refused drops them all.
RestoreEvaluation(c) ==
  /\ Restorable(c) /\ Restored
  /\ evaluationTarget' = [body |-> c, classified |-> FALSE]
  /\ UNCHANGED <<targetContext, classifications, evaluation, incoming>> /\ UNCHANGED otherVars

TargetNext ==
  \/ BeginTarget \/ TakeClassification \/ StartEvaluation \/ NextKey \/ FinishInput
  \/ TakeKeyRecord \/ Execute \/ FinishEvaluation \/ RetainEvaluation
  \/ \E s \in Setups : Visit(s)
  \/ \E b \in Barriers : MakeBarrier(b)
  \/ \E b \in Ballots : Classify(b)
  \/ \E a \in 1 .. Authors : BeginBallotInput(a)
  \/ Ready /\ \E v \in Required.stores : BeginRead(v)
  \/ \E right, decodes \in BOOLEAN : PushInput(right, decodes)
  \/ \E record \in {"right", "wrong"} : KeyRecord(record)
  \/ \E c \in copies \cup Foreign : RestoreEvaluation(c)

TargetSpec == TargetInit /\ [][TargetNext]_targetVars

----
(* Properties.                                                             *)

\* A verdict never moves to another envelope: in every target the codes are
\* those of the barrier's own slots, with a ballot accepted exactly when its
\* own verification accepts it, also when another author's ballot has its body.
CodesOfSlots ==
  evaluationTarget # Nil =>
    LET b == evaluationTarget.body.barrier
    IN  \A a \in 1 .. Authors :
          evaluationTarget.body.codes[a] = CASE b.slots[a] = Absent -> 0
                                             [] b.slots[a] = Conflicting -> 3
                                             [] OTHER -> IF b.slots[a].valid THEN 2 ELSE 1

\* The result is computed from the accepted ballots' own bodies and from zero
\* for every other author, with the keys of the setup and the values stored.
ResultOfAccepted ==
  evaluationTarget # Nil /\ evaluationTarget.body.result # Nil =>
    /\ evaluationTarget.body.result.sound
    /\ \A a \in 1 .. Authors :
         evaluationTarget.body.result.inputs[a] =
           IF a \in AcceptedAuthors(evaluationTarget.body.codes)
           THEN [ballot |-> evaluationTarget.body.barrier.slots[a], exact |-> TRUE]
           ELSE Zero

\* A target belongs to the setup of its instance, and is one this participant
\* evaluated, in this visit or in an earlier one.
TargetOfSetup ==
  evaluationTarget # Nil =>
    /\ evaluationTarget.body.setup = setup /\ evaluationTarget.body.barrier.setup = setup
    /\ evaluationTarget.body \in evaluated

\* A result stands exactly when the turnout is reached, a no-result otherwise.
ResultAtTurnout ==
  evaluationTarget # Nil =>
    (evaluationTarget.body.result # Nil <=> Cardinality(AcceptedAuthors(evaluationTarget.body.codes)) >= Turnout)

\* Within a visit a target is final and ends the evaluation: nothing runs
\* beside it.
TargetAlone == evaluationTarget # Nil => ~targetContext /\ evaluation = Nil /\ incoming = Nil

\* A target is right in all of this.
TargetSound ==
  CodesOfSlots /\ ResultOfAccepted /\ TargetOfSetup /\ ResultAtTurnout /\ TargetAlone

----
(* The inductive invariant.                                                *)

\* The codes of a barrier's own slots.
RightCodes(b) ==
  [a \in 1 .. Authors |-> CASE b.slots[a] = Absent -> 0
                            [] b.slots[a] = Conflicting -> 3
                            [] OTHER -> IF b.slots[a].valid THEN 2 ELSE 1]

\* What the evaluation takes of an author.
RightInput(b, codes, a) ==
  IF a \in AcceptedAuthors(codes) THEN [ballot |-> b.slots[a], exact |-> TRUE] ELSE Zero

\* Every body evaluated so far is of its barrier's own slots.
RightBody(x) ==
  /\ x.barrier \in Barriers /\ x.barrier.setup = x.setup /\ x.codes = RightCodes(x.barrier)
  /\ x.result # Nil <=> EnoughTurnout(x.codes)
  /\ x.result # Nil =>
       /\ x.result.sound
       /\ \A a \in 1 .. Authors : x.result.inputs[a] = RightInput(x.barrier, x.codes, a)

\* An engine has the right inputs of the instructions it executed, the one it has
\* for the next is that instruction's, and it requests records only once it has it.
RightEngine(b, codes, e) ==
  /\ DOMAIN e = {"step", "keys", "pending", "input", "stores", "work", "inputs", "sound"}
  /\ e.step \in 1 .. Len(Program) + 1 /\ e.sound = TRUE
  /\ e.inputs \in [1 .. Authors -> Streams \cup {Nil}]
  /\ e.input # Nil =>
       /\ e.step <= Len(Program) /\ Program[e.step].input # Nil
       /\ e.input = RightInput(b, codes, Program[e.step].input)
  /\ e.work # Nil =>
       e.step <= Len(Program) /\ (Program[e.step].input # Nil => e.input # Nil)
  /\ \A k \in 1 .. e.step - 1 :
       Program[k].input # Nil => e.inputs[Program[k].input] = RightInput(b, codes, Program[k].input)

\* An open stream is of the next instruction, which waits for it.
RightStream(codes, e, i) ==
  /\ DOMAIN i = {"kind", "index", "received", "exact"} /\ i.exact \in BOOLEAN
  /\ e.step <= Len(Program) /\ e.work = Nil
  /\ i.kind = "ballot" => i.index = Program[e.step].input /\ i.index \in AcceptedAuthors(codes)

\* The evaluation is of this setup's barrier, with enough turnout.
SessionInv ==
  evaluation # Nil =>
    /\ DOMAIN evaluation = {"barrier", "codes", "engine"}
    /\ ~targetContext /\ evaluationTarget = Nil
    /\ evaluation.barrier \in Barriers /\ evaluation.barrier.setup = setup
    /\ evaluation.codes = RightCodes(evaluation.barrier) /\ EnoughTurnout(evaluation.codes)
    /\ RightEngine(evaluation.barrier, evaluation.codes, evaluation.engine)

\* A stream is open only beside the evaluation it is for.
StreamInv ==
  incoming # Nil => evaluation # Nil /\ RightStream(evaluation.codes, evaluation.engine, incoming)

\* Every copy and the target are of evaluated bodies.
BodiesInv ==
  /\ closeBarrier \in Barriers \cup {Nil} /\ copies \subseteq evaluated
  /\ \A x \in evaluated : RightBody(x)
  /\ evaluationTarget # Nil => evaluationTarget.body \in evaluated /\ evaluationTarget.body.setup = setup

\* The inductive invariant.
TargetIInv == SessionInv /\ StreamInv /\ BodiesInv /\ TargetAlone

----
(* Theorems.                                                               *)

\* The program is a sequence of instructions with an author or none.
LEMMA ProgramTyped ==
  /\ Len(Program) \in Nat
         /\ \A k \in 1 .. Len(Program) : Program[k].input \in 1 .. Authors \cup {Nil}
         /\ Nil \notin 1 .. Authors
<1> DEFINE I == [input : 1 .. Authors \cup {Nil}, keys : Seq({"common", "aggregate"}),
                 stores : SUBSET Nat]
<1>1. Program \in Seq(I) /\ Nil \notin 1 .. Authors
  BY TargetAssumption
<1>2. \A i \in I : i.input \in 1 .. Authors \cup {Nil}
  OBVIOUS
<1> HIDE DEF I
<1>3. Len(Program) \in Nat /\ \A k \in 1 .. Len(Program) : Program[k] \in I
  BY <1>1
<1> QED
  BY <1>1, <1>2, <1>3

\* What every author's input may be.
LEMMA RightInputTyped ==
  ASSUME NEW b \in Barriers, NEW codes, NEW a \in 1 .. Authors
  PROVE  RightInput(b, codes, a) \in Streams
<1>1. b.slots[a] \in SlotValues
  BY TargetAssumption
<1> QED
  BY <1>1 DEF RightInput, Zero, Streams

\* Matched classifications give the codes of the barrier's own slots.
LEMMA MatchedCodes ==
  ASSUME NEW b \in Barriers, NEW cs, Matches(b, cs)
  PROVE  Codes(b, cs) = RightCodes(b)
<1>1. ASSUME NEW a \in 1 .. Authors, b.slots[a] # Absent, b.slots[a] # Conflicting
      PROVE  cs[a] = b.slots[a]
  BY <1>1, TargetAssumption DEF SlotValues, Matches
<1> QED
  BY <1>1 DEF Codes, RightCodes

\* A new engine has nothing.
LEMMA NewEngineRight ==
  ASSUME NEW b \in Barriers, NEW codes
  PROVE  RightEngine(b, codes, NewEngine)
<1>1. Len(Program) \in Nat
  BY ProgramTyped
<1> QED
  BY <1>1 DEF RightEngine, NewEngine

\* What is loaded or requested for an instruction keeps what was executed.
LEMMA EngineKept ==
  ASSUME NEW b, NEW codes, NEW e, RightEngine(b, codes, e), NEW f, DOMAIN f = DOMAIN e,
         f.step = e.step, f.inputs = e.inputs, f.sound = TRUE,
         \/ f.input = e.input
         \/ /\ e.step <= Len(Program) /\ Program[e.step].input # Nil /\ f.input # Nil
            /\ f.input = RightInput(b, codes, Program[e.step].input),
         f.work # Nil =>
           e.step <= Len(Program) /\ (Program[e.step].input # Nil => f.input # Nil)
  PROVE  RightEngine(b, codes, f)
BY DEF RightEngine

\* A loaded key that was the right one leaves a right engine.
LEMMA LoadedKey ==
  ASSUME NEW b, NEW codes, NEW e, RightEngine(b, codes, e), NEW exact, exact = TRUE
  PROVE  RightEngine(b, codes, LoadKey(e, exact))
<1> DEFINE f == LoadKey(e, exact)
<1>1. DOMAIN f = DOMAIN e
  BY DEF LoadKey
<1>2. f.step = e.step /\ f.inputs = e.inputs /\ f.input = e.input /\ f.work = e.work /\ f.sound = TRUE
  BY DEF RightEngine, LoadKey
<1> HIDE DEF f
<1>3. RightEngine(b, codes, f)
  BY <1>1, <1>2, EngineKept DEF RightEngine
<1> QED
  BY <1>3 DEF f

\* The executed instruction's input is the right one of its author.
LEMMA ExecutedRight ==
  ASSUME NEW b \in Barriers, NEW codes, NEW e, RightEngine(b, codes, e),
         e.step <= Len(Program), Program[e.step].input # Nil => e.input # Nil
  PROVE  RightEngine(b, codes, Executed(e))
<1> DEFINE f == Executed(e)
           a == Program[e.step].input
<1>1. /\ Len(Program) \in Nat /\ e.step \in 1 .. Len(Program) /\ a \in 1 .. Authors \cup {Nil}
      /\ \A k \in 1 .. Len(Program) : Program[k].input \in 1 .. Authors \cup {Nil}
      /\ Nil \notin 1 .. Authors
  BY ProgramTyped DEF RightEngine
<1>2. /\ DOMAIN f = DOMAIN e
      /\ f.step = e.step + 1 /\ f.work = Nil /\ f.input = Nil /\ f.sound = e.sound
      /\ f.inputs = IF a = Nil THEN e.inputs ELSE [e.inputs EXCEPT ![a] = e.input]
  BY DEF RightEngine, Executed
<1>3. a # Nil => e.input = RightInput(b, codes, a) /\ e.input \in Streams
  BY <1>1, RightInputTyped DEF RightEngine
<1> HIDE DEF f, a
<1>4. f.inputs \in [1 .. Authors -> Streams \cup {Nil}]
  BY <1>1, <1>2, <1>3 DEF RightEngine
<1>5. ASSUME NEW k \in 1 .. e.step, Program[k].input # Nil
      PROVE  f.inputs[Program[k].input] = RightInput(b, codes, Program[k].input)
  <2>1. Program[k].input \in 1 .. Authors
    BY <1>1, <1>5
  <2>2. CASE k = e.step
    BY <1>1, <1>2, <1>3, <1>5, <2>1, <2>2 DEF RightEngine, a
  <2>3. CASE k # e.step
    <3>1. k \in 1 .. e.step - 1
      BY <1>1, <2>3
    <3>2. e.inputs[Program[k].input] = RightInput(b, codes, Program[k].input)
      BY <1>5, <3>1 DEF RightEngine
    <3> QED
      BY <1>1, <1>2, <1>3, <2>1, <3>2 DEF RightEngine
  <2> QED
    BY <2>2, <2>3
<1>6. RightEngine(b, codes, f)
  <2>1. f.step \in 1 .. Len(Program) + 1 /\ 1 .. f.step - 1 = 1 .. e.step
    BY <1>1, <1>2
  <2> QED
    BY <1>2, <1>4, <1>5, <2>1 DEF RightEngine
<1> QED
  BY <1>6 DEF f

\* The other verifiers and the context leave the evaluation alone.
LEMMA OtherSteps ==
  ASSUME TargetIInv,
         \/ BeginTarget \/ TakeClassification
         \/ \E b \in Barriers : MakeBarrier(b)
         \/ \E b \in Ballots : Classify(b)
  PROVE  TargetIInv'
<1>1. /\ UNCHANGED <<setup, evaluation, incoming, evaluationTarget, copies, evaluated>>
      /\ closeBarrier' \in Barriers \cup {Nil}
      /\ targetContext' = targetContext \/ (evaluation = Nil /\ evaluationTarget = Nil)
  BY DEF BeginTarget, TakeClassification, MakeBarrier, Classify, TargetOpen, otherVars, TargetIInv,
       BodiesInv
<1> QED
  BY <1>1 DEF TargetIInv, SessionInv, StreamInv, BodiesInv, TargetAlone

\* A new instance has no part of an evaluation; what was evaluated stays right.
LEMMA VisitStep ==
  ASSUME TargetIInv, \E s \in Setups : Visit(s) PROVE TargetIInv'
<1>1. /\ evaluation' = Nil /\ incoming' = Nil /\ evaluationTarget' = Nil /\ closeBarrier' = Nil
      /\ copies' = copies /\ evaluated' = evaluated
  BY DEF Visit
<1> QED
  BY <1>1 DEF TargetIInv, SessionInv, StreamInv, BodiesInv, TargetAlone

\* An evaluation starts with matched classifications of this setup's barrier, or
\* ends at once below the turnout.
LEMMA StartStep ==
  ASSUME TargetIInv, StartEvaluation PROVE TargetIInv'
<1>1. /\ evaluationTarget = Nil /\ incoming = Nil /\ evaluation = Nil /\ targetContext' = FALSE /\ closeBarrier' = Nil
      /\ UNCHANGED <<setup, incoming, copies>>
  BY DEF StartEvaluation, TargetOpen
<1>2. CASE UNCHANGED <<evaluation, evaluationTarget, evaluated>>
  BY <1>1, <1>2 DEF TargetIInv, SessionInv, StreamInv, BodiesInv, TargetAlone
<1>3. CASE /\ UsableBarrier /\ Matches(closeBarrier, classifications)
           /\ EnoughTurnout(Codes(closeBarrier, classifications))
           /\ evaluation' = [barrier |-> closeBarrier, codes |-> Codes(closeBarrier, classifications), engine |-> NewEngine]
           /\ UNCHANGED <<evaluationTarget, evaluated>>
  <2> DEFINE codes == Codes(closeBarrier, classifications)
  <2>1. closeBarrier \in Barriers /\ closeBarrier.setup = setup /\ codes = RightCodes(closeBarrier)
    BY <1>3, MatchedCodes DEF UsableBarrier, TargetIInv, BodiesInv
  <2>2. RightEngine(closeBarrier, codes, NewEngine)
    BY <2>1, NewEngineRight
  <2>3. evaluation' = [barrier |-> closeBarrier, codes |-> codes, engine |-> NewEngine] /\ EnoughTurnout(codes)
    BY <1>3
  <2> HIDE DEF codes
  <2>4. /\ DOMAIN evaluation' = {"barrier", "codes", "engine"} /\ evaluation'.barrier = closeBarrier
        /\ evaluation'.codes = codes /\ evaluation'.engine = NewEngine
    BY <2>3
  <2>5. SessionInv'
    BY <1>1, <1>3, <2>1, <2>2, <2>3, <2>4 DEF SessionInv, EnoughTurnout
  <2>6. StreamInv' /\ BodiesInv' /\ TargetAlone'
    BY <1>1, <1>3 DEF TargetIInv, StreamInv, BodiesInv, TargetAlone
  <2> QED
    BY <2>5, <2>6 DEF TargetIInv
<1>4. CASE /\ UsableBarrier /\ Matches(closeBarrier, classifications)
           /\ ~EnoughTurnout(Codes(closeBarrier, classifications))
           /\ CompleteTarget(TargetBody(setup, closeBarrier, Codes(closeBarrier, classifications), Nil))
           /\ UNCHANGED evaluation
  <2> DEFINE codes == Codes(closeBarrier, classifications)
             x == TargetBody(setup, closeBarrier, codes, Nil)
  <2>1. closeBarrier \in Barriers /\ closeBarrier.setup = setup /\ codes = RightCodes(closeBarrier)
    BY <1>4, MatchedCodes DEF UsableBarrier, TargetIInv, BodiesInv
  <2>2. evaluationTarget' = [body |-> x, classified |-> TRUE] /\ evaluated' = evaluated \cup {x}
    BY <1>4 DEF CompleteTarget
  <2>3. ~EnoughTurnout(codes)
    BY <1>4
  <2> HIDE DEF codes
  <2>4. x.setup = setup /\ x.barrier = closeBarrier /\ x.codes = codes /\ x.result = Nil
    BY DEF TargetBody
  <2> HIDE DEF x
  <2>5. RightBody(x)
    BY <2>1, <2>3, <2>4 DEF RightBody
  <2>6. evaluationTarget'.body = x
    BY <2>2
  <2>7. BodiesInv'
    BY <1>1, <2>2, <2>4, <2>5, <2>6 DEF TargetIInv, BodiesInv
  <2>8. SessionInv' /\ StreamInv' /\ TargetAlone'
    BY <1>1, <1>4 DEF SessionInv, StreamInv, TargetAlone
  <2> QED
    BY <2>7, <2>8 DEF TargetIInv
<1> QED
  BY <1>2, <1>3, <1>4 DEF StartEvaluation

\* The evaluation goes on with a right engine and no stream.
LEMMA EngineStep ==
  ASSUME TargetIInv, evaluation # Nil, NEW e, RightEngine(evaluation.barrier, evaluation.codes, e),
         evaluation' = [evaluation EXCEPT !.engine = e], incoming' = Nil,
         UNCHANGED <<setup, closeBarrier, targetContext, evaluationTarget, copies, evaluated>>
  PROVE  TargetIInv'
<1>1. /\ DOMAIN evaluation' = {"barrier", "codes", "engine"} /\ evaluation'.barrier = evaluation.barrier
      /\ evaluation'.codes = evaluation.codes /\ evaluation'.engine = e
  BY DEF TargetIInv, SessionInv
<1>2. SessionInv' /\ StreamInv'
  BY <1>1 DEF TargetIInv, SessionInv, StreamInv, EnoughTurnout
<1>3. BodiesInv' /\ TargetAlone'
  BY DEF TargetIInv, SessionInv, BodiesInv, TargetAlone
<1> QED
  BY <1>2, <1>3 DEF TargetIInv

\* The evaluation waits for a stream of its next instruction.
LEMMA StreamStep ==
  ASSUME TargetIInv, evaluation # Nil, evaluation' = evaluation,
         incoming' # Nil => RightStream(evaluation.codes, evaluation.engine, incoming'),
         UNCHANGED <<setup, closeBarrier, targetContext, evaluationTarget, copies, evaluated>>
  PROVE  TargetIInv'
<1>1. SessionInv' /\ StreamInv'
  BY DEF TargetIInv, SessionInv, StreamInv, EnoughTurnout
<1>2. BodiesInv' /\ TargetAlone'
  BY DEF TargetIInv, SessionInv, BodiesInv, TargetAlone
<1> QED
  BY <1>1, <1>2 DEF TargetIInv

\* A stream begins, goes on or is dropped.
LEMMA StreamSteps ==
  ASSUME TargetIInv,
         \/ \E v : BeginRead(v)
         \/ \E right, decodes \in BOOLEAN : PushInput(right, decodes)
  PROVE  TargetIInv'
<1>1. UNCHANGED <<setup, closeBarrier, targetContext, evaluationTarget, copies, evaluated, evaluation>>
  BY DEF BeginRead, PushInput, otherVars
<1>2. evaluation # Nil
  BY DEF BeginRead, Ready, PushInput, TargetIInv, StreamInv
<1>3. ASSUME NEW v, BeginRead(v) PROVE RightStream(evaluation.codes, evaluation.engine, incoming')
  <2>1. /\ incoming' = [kind |-> "stored", index |-> v, received |-> 0, exact |-> TRUE]
        /\ evaluation.engine.step <= Len(Program) /\ evaluation.engine.work = Nil
    BY <1>3 DEF BeginRead, Ready, Evaluator
  <2> QED
    BY <2>1 DEF RightStream
<1>4. ASSUME NEW right \in BOOLEAN, NEW decodes \in BOOLEAN, PushInput(right, decodes), incoming' # Nil
      PROVE  RightStream(evaluation.codes, evaluation.engine, incoming')
  <2>1. /\ incoming # Nil
        /\ incoming' = [incoming EXCEPT !.received = @ + 1, !.exact = @ /\ right]
    BY <1>4 DEF PushInput
  <2>2. RightStream(evaluation.codes, evaluation.engine, incoming)
    BY <2>1 DEF TargetIInv, StreamInv
  <2>3. /\ DOMAIN incoming' = DOMAIN incoming /\ incoming'.exact \in BOOLEAN
        /\ incoming'.kind = incoming.kind /\ incoming'.index = incoming.index
    BY <2>1, <2>2 DEF RightStream
  <2> QED
    BY <2>2, <2>3 DEF RightStream
<1> QED
  BY <1>1, <1>2, <1>3, <1>4, StreamStep

\* A key of the next instruction is recomputed or streamed in.
LEMMA NextKeyStep ==
  ASSUME TargetIInv, NextKey PROVE TargetIInv'
<1> DEFINE e == evaluation.engine
<1>1. /\ evaluation # Nil /\ e.step <= Len(Program) /\ e.work = Nil /\ incoming = Nil
      /\ UNCHANGED <<setup, closeBarrier, targetContext, evaluationTarget, copies, evaluated>>
      /\ RightEngine(evaluation.barrier, evaluation.codes, e)
  BY DEF NextKey, TargetOpen, Ready, Evaluator, otherVars, TargetIInv, SessionInv
<1>2. CASE evaluation' = [evaluation EXCEPT !.engine = LoadKey(@, TRUE)] /\ UNCHANGED incoming
  <2>1. evaluation' = [evaluation EXCEPT !.engine = LoadKey(e, TRUE)]
    BY <1>2 DEF TargetIInv, SessionInv
  <2>2. RightEngine(evaluation.barrier, evaluation.codes, LoadKey(e, TRUE))
    BY <1>1, LoadedKey
  <2> HIDE DEF e
  <2> QED
    BY <1>1, <1>2, <2>1, <2>2, EngineStep
<1>3. CASE /\ incoming' = [kind |-> "key", index |-> Evaluator.keys, received |-> 0, exact |-> TRUE]
           /\ UNCHANGED evaluation
  <2>1. RightStream(evaluation.codes, e, incoming')
    BY <1>1, <1>3 DEF RightStream
  <2> QED
    BY <1>1, <1>3, <2>1, StreamStep
<1> QED
  BY <1>2, <1>3 DEF NextKey

\* An author's input is zero or the accepted ballot of its slot.
LEMMA BallotInputStep ==
  ASSUME TargetIInv, NEW a \in 1 .. Authors, BeginBallotInput(a) PROVE TargetIInv'
<1> DEFINE e == evaluation.engine
<1>1. /\ evaluation # Nil /\ e.step <= Len(Program) /\ e.work = Nil /\ incoming = Nil
      /\ UNCHANGED <<setup, closeBarrier, targetContext, evaluationTarget, copies, evaluated>>
      /\ RightEngine(evaluation.barrier, evaluation.codes, e) /\ Program[e.step].input = a
  BY DEF BeginBallotInput, TargetOpen, Ready, Required, Evaluator, otherVars, TargetIInv, SessionInv
<1>2. CASE /\ a \in AcceptedAuthors(evaluation.codes)
           /\ incoming' = [kind |-> "ballot", index |-> a, received |-> 0, exact |-> TRUE]
           /\ UNCHANGED evaluation
  <2>1. RightStream(evaluation.codes, e, incoming')
    BY <1>1, <1>2 DEF RightStream
  <2> QED
    BY <1>1, <1>2, <2>1, StreamStep
<1>3. CASE /\ a \notin AcceptedAuthors(evaluation.codes) /\ incoming' = incoming
           /\ evaluation' = [evaluation EXCEPT !.engine.input = Zero]
  <2> DEFINE f == [e EXCEPT !.input = Zero]
  <2>1. evaluation' = [evaluation EXCEPT !.engine = f]
    BY <1>3 DEF TargetIInv, SessionInv
  <2>2. /\ DOMAIN f = DOMAIN e /\ f.step = e.step /\ f.inputs = e.inputs /\ f.sound = TRUE
        /\ f.work = e.work /\ f.input = Zero
    BY <1>1 DEF RightEngine
  <2>3. Zero = RightInput(evaluation.barrier, evaluation.codes, a)
    BY <1>3 DEF RightInput
  <2>4. a # Nil
    BY TargetAssumption
  <2> HIDE DEF e, f
  <2>5. RightEngine(evaluation.barrier, evaluation.codes, f)
    BY <1>1, <2>2, <2>3, <2>4 DEF RightEngine
  <2> QED
    BY <1>1, <1>3, <2>1, <2>5, EngineStep
<1> QED
  BY <1>2, <1>3 DEF BeginBallotInput

\* A finished stream is loaded when it is authentic.
LEMMA FinishInputStep ==
  ASSUME TargetIInv, FinishInput PROVE TargetIInv'
<1> DEFINE e == evaluation.engine
           i == incoming
           f == Loaded(e, i)
<1>1. /\ incoming # Nil /\ incoming' = Nil /\ evaluation # Nil
      /\ UNCHANGED <<setup, closeBarrier, targetContext, evaluationTarget, copies, evaluated>>
      /\ RightEngine(evaluation.barrier, evaluation.codes, e) /\ RightStream(evaluation.codes, e, i)
  BY DEF FinishInput, otherVars, TargetIInv, SessionInv, StreamInv
<1>2. CASE evaluation' = evaluation
  BY <1>1, <1>2, StreamStep
<1>3. CASE StreamAuthentic(i) /\ evaluation' = [evaluation EXCEPT !.engine = Loaded(@, i)]
  <2>1. evaluation' = [evaluation EXCEPT !.engine = f]
    BY <1>3 DEF TargetIInv, SessionInv
  <2>2. i.exact = TRUE
    BY <1>1, <1>3 DEF StreamAuthentic, RightStream
  <2>3. RightEngine(evaluation.barrier, evaluation.codes, f)
    <3>1. CASE i.kind = "key"
      <4>1. f = LoadKey(e, i.exact)
        BY <3>1 DEF Loaded
      <4> HIDE DEF f, e, i
      <4> QED
        BY <1>1, <2>2, <4>1, LoadedKey
    <3>2. CASE i.kind = "ballot"
      <4>1. f = [e EXCEPT !.input = [ballot |-> evaluation.barrier.slots[i.index], exact |-> i.exact]]
        BY <3>2 DEF Loaded
      <4>2. /\ DOMAIN f = DOMAIN e /\ f.step = e.step /\ f.inputs = e.inputs /\ f.sound = TRUE
            /\ f.work = e.work
            /\ f.input = [ballot |-> evaluation.barrier.slots[i.index], exact |-> TRUE]
        BY <1>1, <2>2, <4>1 DEF RightEngine
      <4>3. /\ i.index = Program[e.step].input /\ i.index \in AcceptedAuthors(evaluation.codes)
            /\ e.step <= Len(Program) /\ e.work = Nil
        BY <1>1, <3>2 DEF RightStream
      <4>4. i.index # Nil
        BY <4>3, TargetAssumption DEF AcceptedAuthors
      <4> HIDE DEF f, e, i
      <4>5. f.input = RightInput(evaluation.barrier, evaluation.codes, Program[e.step].input)
        BY <4>2, <4>3 DEF RightInput
      <4> QED
        BY <1>1, <4>2, <4>3, <4>4, <4>5 DEF RightEngine
    <3>3. CASE i.kind \notin {"key", "ballot"}
      <4>1. f = [e EXCEPT !.stores = @ \cup {i.index}, !.sound = @ /\ i.exact]
        BY <3>3 DEF Loaded
      <4>2. /\ DOMAIN f = DOMAIN e /\ f.step = e.step /\ f.inputs = e.inputs /\ f.input = e.input
            /\ f.work = e.work /\ f.sound = TRUE
        BY <1>1, <2>2, <4>1 DEF RightEngine
      <4> HIDE DEF f, e, i
      <4> QED
        BY <1>1, <4>2 DEF RightEngine
    <3> QED
      BY <3>1, <3>2, <3>3
  <2> HIDE DEF f
  <2> QED
    BY <1>1, <2>1, <2>3, EngineStep
<1> QED
  BY <1>2, <1>3 DEF FinishInput

\* The host takes a key's records and hands in those of a request.
LEMMA RecordSteps ==
  ASSUME TargetIInv,
         TakeKeyRecord \/ \E record \in {"right", "wrong"} : KeyRecord(record)
  PROVE  TargetIInv'
<1> DEFINE e == evaluation.engine
<1>1. /\ evaluation # Nil /\ incoming' = Nil
      /\ UNCHANGED <<setup, closeBarrier, targetContext, evaluationTarget, copies, evaluated>>
      /\ RightEngine(evaluation.barrier, evaluation.codes, e)
  BY DEF TakeKeyRecord, KeyRecord, TargetOpen, otherVars, TargetIInv, SessionInv
<1>2. CASE TakeKeyRecord
  <2> DEFINE f == [e EXCEPT !.pending = FALSE]
  <2>1. evaluation' = [evaluation EXCEPT !.engine = f]
    BY <1>2 DEF TakeKeyRecord, TargetIInv, SessionInv
  <2>2. /\ DOMAIN f = DOMAIN e /\ f.step = e.step /\ f.inputs = e.inputs /\ f.input = e.input
        /\ f.work = e.work /\ f.sound = TRUE
    BY <1>1 DEF RightEngine
  <2> HIDE DEF e, f
  <2>3. RightEngine(evaluation.barrier, evaluation.codes, f)
    BY <1>1, <2>2 DEF RightEngine
  <2> QED
    BY <1>1, <2>1, <2>3, EngineStep
<1>3. ASSUME NEW record \in {"right", "wrong"}, KeyRecord(record) PROVE TargetIInv'
  <2> DEFINE f == [e EXCEPT !.work = record]
  <2>1. evaluation' = [evaluation EXCEPT !.engine = f] /\ e.work = "requested"
    BY <1>3 DEF KeyRecord, Evaluator, TargetIInv, SessionInv
  <2>2. /\ DOMAIN f = DOMAIN e /\ f.step = e.step /\ f.inputs = e.inputs /\ f.input = e.input
        /\ f.sound = TRUE
    BY <1>1 DEF RightEngine
  <2>3. e.work # Nil
    BY <2>1, TargetAssumption
  <2> HIDE DEF e, f
  <2>4. RightEngine(evaluation.barrier, evaluation.codes, f)
    BY <1>1, <2>2, <2>3 DEF RightEngine
  <2> QED
    BY <1>1, <2>1, <2>4, EngineStep
<1> QED
  BY <1>2, <1>3

\* An instruction executes with its own input, or asks for its records with it.
LEMMA ExecuteStep ==
  ASSUME TargetIInv, Execute PROVE TargetIInv'
<1> DEFINE e == evaluation.engine
<1>1. /\ evaluation # Nil /\ incoming' = Nil /\ evaluation.barrier \in Barriers
      /\ UNCHANGED <<setup, closeBarrier, targetContext, evaluationTarget, copies, evaluated>>
      /\ RightEngine(evaluation.barrier, evaluation.codes, e)
  BY DEF Execute, TargetOpen, otherVars, TargetIInv, SessionInv
<1>2. ASSUME evaluation' = [evaluation EXCEPT !.engine = Executed(@)], e.step <= Len(Program),
             Program[e.step].input # Nil => e.input # Nil
      PROVE  TargetIInv'
  <2>1. evaluation' = [evaluation EXCEPT !.engine = Executed(e)]
    BY <1>2 DEF TargetIInv, SessionInv
  <2> HIDE DEF e
  <2>2. RightEngine(evaluation.barrier, evaluation.codes, Executed(e))
    BY <1>1, <1>2, ExecutedRight
  <2> QED
    BY <1>1, <2>1, <2>2, EngineStep
<1>3. CASE /\ Ready /\ Supplied
           /\ evaluation' = [evaluation EXCEPT !.engine = IF Required.keys = <<>> THEN Executed(@)
                                                         ELSE [@ EXCEPT !.work = "requested"]]
  <2>1. e.step <= Len(Program) /\ (Program[e.step].input # Nil => e.input # Nil)
    BY <1>3 DEF Ready, Supplied, Required, Evaluator
  <2>2. CASE Required.keys = <<>>
    <3>1. evaluation' = [evaluation EXCEPT !.engine = Executed(@)]
      BY <1>3, <2>2
    <3> QED
      BY <1>2, <2>1, <3>1
  <2>3. CASE Required.keys # <<>>
    <3> DEFINE f == [e EXCEPT !.work = "requested"]
    <3>1. evaluation' = [evaluation EXCEPT !.engine = f]
      BY <1>3, <2>3 DEF TargetIInv, SessionInv
    <3>2. /\ DOMAIN f = DOMAIN e /\ f.step = e.step /\ f.inputs = e.inputs /\ f.input = e.input
          /\ f.sound = TRUE
      BY <1>1 DEF RightEngine
    <3> HIDE DEF e, f
    <3>3. RightEngine(evaluation.barrier, evaluation.codes, f)
      BY <1>1, <2>1, <3>2 DEF RightEngine
    <3> QED
      BY <1>1, <3>1, <3>3, EngineStep
  <2> QED
    BY <2>2, <2>3
<1>4. CASE Evaluator.work = "right" /\ evaluation' = [evaluation EXCEPT !.engine = Executed(@)]
  <2>1. e.work # Nil
    BY <1>4, TargetAssumption DEF Evaluator
  <2>2. e.step <= Len(Program) /\ (Program[e.step].input # Nil => e.input # Nil)
    BY <1>1, <2>1 DEF RightEngine
  <2> QED
    BY <1>2, <1>4, <2>2
<1>5. CASE evaluation' = Nil
  BY <1>1, <1>5 DEF TargetIInv, SessionInv, StreamInv, BodiesInv, TargetAlone
<1> QED
  BY <1>3, <1>4, <1>5 DEF Execute

\* The evaluated body has the right input of every author.
LEMMA FinishEvaluationStep ==
  ASSUME TargetIInv, FinishEvaluation PROVE TargetIInv'
<1> DEFINE e == evaluation.engine
           b == evaluation.barrier
           codes == evaluation.codes
           result == [inputs |-> e.inputs, sound |-> e.sound]
           x == TargetBody(setup, b, codes, result)
<1>1. /\ evaluation # Nil /\ evaluation' = Nil /\ incoming' = Nil /\ ~targetContext'
      /\ UNCHANGED <<setup, closeBarrier, copies>> /\ e.step = Len(Program) + 1
      /\ evaluationTarget' = [body |-> x, classified |-> TRUE] /\ evaluated' = evaluated \cup {x}
  BY DEF FinishEvaluation, TargetOpen, Evaluator, CompleteTarget, TargetIInv, SessionInv
<1>2. /\ b \in Barriers /\ b.setup = setup /\ codes = RightCodes(b) /\ EnoughTurnout(codes)
      /\ RightEngine(b, codes, e)
  BY <1>1 DEF TargetIInv, SessionInv
<1>3. e.inputs \in [1 .. Authors -> Streams \cup {Nil}] /\ e.sound = TRUE
  BY <1>2 DEF RightEngine
<1> HIDE DEF e, b, codes
<1>4. result \in Results
  BY <1>3 DEF Results
<1>5. result # Nil
  BY <1>4, TargetAssumption
<1>6. result.inputs = e.inputs /\ result.sound = TRUE
  BY <1>3
<1> HIDE DEF result
<1>7. x.setup = setup /\ x.barrier = b /\ x.codes = codes /\ x.result = result
  BY DEF TargetBody
<1> HIDE DEF x
<1>8. ASSUME NEW a \in 1 .. Authors PROVE e.inputs[a] = RightInput(b, codes, a)
  <2>1. PICK k \in 1 .. Len(Program) : Program[k].input = a
    BY TargetAssumption
  <2>2. k \in 1 .. e.step - 1 /\ a # Nil
    BY <1>1, ProgramTyped
  <2> QED
    BY <1>2, <2>1, <2>2 DEF RightEngine
<1>9. RightBody(x)
  BY <1>2, <1>5, <1>6, <1>7, <1>8 DEF RightBody
<1>10. evaluationTarget'.body = x
  BY <1>1
<1>11. BodiesInv'
  BY <1>1, <1>7, <1>9, <1>10 DEF TargetIInv, BodiesInv
<1>12. SessionInv' /\ StreamInv' /\ TargetAlone'
  BY <1>1 DEF SessionInv, StreamInv, TargetAlone
<1> QED
  BY <1>11, <1>12 DEF TargetIInv

\* A copy that is retained or restored is of a body that was evaluated.
LEMMA CopySteps ==
  ASSUME TargetIInv, RetainEvaluation \/ \E c \in copies \cup Foreign : RestoreEvaluation(c)
  PROVE  TargetIInv'
<1>1. CASE RetainEvaluation
  BY <1>1 DEF RetainEvaluation, TargetIInv, SessionInv, StreamInv, BodiesInv, TargetAlone
<1>2. ASSUME NEW c, RestoreEvaluation(c) PROVE TargetIInv'
  <2>1. /\ c \in copies /\ c.setup = setup /\ evaluation = Nil /\ incoming = Nil /\ ~targetContext
        /\ evaluationTarget'.body = c /\ UNCHANGED <<setup, closeBarrier, targetContext, evaluation, incoming, copies, evaluated>>
    BY <1>2 DEF RestoreEvaluation, Restorable, Restored, TargetOpen, otherVars
  <2> QED
    BY <2>1 DEF TargetIInv, SessionInv, StreamInv, BodiesInv, TargetAlone
<1> QED
  BY <1>1, <1>2

\* Every step of a target session keeps its invariant.
LEMMA TargetStep ==
  ASSUME TargetIInv, [TargetNext]_targetVars PROVE TargetIInv'
<1>1. CASE TargetNext
  BY <1>1, OtherSteps, VisitStep, StartStep, StreamSteps, NextKeyStep, BallotInputStep,
     FinishInputStep, RecordSteps, ExecuteStep, FinishEvaluationStep, CopySteps DEF TargetNext
<1>2. CASE UNCHANGED targetVars
  BY <1>2 DEF targetVars, TargetIInv, SessionInv, StreamInv, BodiesInv, TargetAlone
<1> QED
  BY <1>1, <1>2

\* For every program and roster the evaluation has the right codes, the right
\* inputs of what it executed, and right bodies in every copy it made.
THEOREM TargetInvariant == TargetSpec => []TargetIInv
<1>1. TargetInit => TargetIInv
  BY DEF TargetInit, TargetIInv, SessionInv, StreamInv, BodiesInv, TargetAlone
<1>2. TargetIInv /\ [TargetNext]_targetVars => TargetIInv'
  BY TargetStep
<1> QED
  BY <1>1, <1>2, PTL DEF TargetSpec

\* For every roster, program and order of calls and visits a target has the codes
\* of its own barrier's slots, a result exactly at the turnout, of the accepted
\* ballots' own bodies and of zero for the others, belongs to its instance's setup
\* and is one that the participant evaluated.
THEOREM TargetIsSound == TargetSpec => []TargetSound
<1>1. TargetIInv => TargetSound
  <2> SUFFICES ASSUME TargetIInv PROVE TargetSound
    OBVIOUS
  <2>1. CASE evaluationTarget = Nil
    BY <2>1 DEF TargetIInv, TargetSound, CodesOfSlots, ResultOfAccepted, TargetOfSetup, ResultAtTurnout
  <2>2. CASE evaluationTarget # Nil
    <3>1. RightBody(evaluationTarget.body) /\ evaluationTarget.body \in evaluated /\ evaluationTarget.body.setup = setup
      BY <2>2 DEF TargetIInv, BodiesInv
    <3>2. CodesOfSlots
      BY <3>1 DEF RightBody, RightCodes, CodesOfSlots
    <3>3. ResultOfAccepted
      BY <3>1 DEF RightBody, RightInput, ResultOfAccepted
    <3>4. TargetOfSetup /\ ResultAtTurnout
      BY <3>1 DEF RightBody, EnoughTurnout, TargetOfSetup, ResultAtTurnout
    <3> QED
      BY <3>2, <3>3, <3>4 DEF TargetIInv, TargetSound
  <2> QED
    BY <2>1, <2>2
<1> QED
  BY <1>1, TargetInvariant, PTL
====
