---------------------------- MODULE Classification ----------------------------
(***************************************************************************)
(* The classification of ballots in one instance (ClassificationSession    *)
(* over BallotBodyClassifier): an authenticated envelope, the setup's key  *)
(* and the body stream in from a host that may hand over anything, in any  *)
(* pieces, and every instance must reach the same verdict on a ballot.     *)
(*                                                                         *)
(* A body is its header and `length` units: four ciphertext polynomials of *)
(* Lengths units and the proof. A unit the host hands over is the body's   *)
(* own or a wrong one. An envelope is [setup, header, proof, length,       *)
(* valid]: the setup it is signed under, whether its body's header parses  *)
(* for that setup and position, the proof units the header declares, the   *)
(* body length it commits to, and whether the proof verifies.              *)
(***************************************************************************)
EXTENDS Integers, Sequences, SequencesExt, FiniteSetsExt

CONSTANTS Setups, Envelopes,
          Lengths,      \* units of the four ciphertext polynomials
          KeyUnits,     \* units of a setup's key
          ChunkLimit,   \* units of the largest piece
          None

ClassificationAssumption ==
  /\ Len(Lengths) = 4 /\ \A o \in 1 .. 4 : Lengths[o] \in Nat \ {0}
  /\ KeyUnits \in Nat \ {0} /\ ChunkLimit \in Nat \ {0}

VARIABLES
  classifier,     \* None, or the ballot being classified:
                  \*   envelope; hashed, how many units the body hash has;
                  \*   exact, whether they were the body's own; relation
  classification, \* None, or [envelope, valid]
  inputs,         \* None, or the setup whose statement inputs are shared
  begun,          \* the envelope of the last begin
  verdicts        \* every classification reached

vars == <<classifier, classification, inputs, begun, verdicts>>

\* The relation verifier of a ballot: the setup of its inputs; the key being
\* read, as [units, exact]; the statement pushed; and the proof units pushed.
Relations == [setup : Setups, inputs : Setups \cup {None},
              key : [units : 0 .. KeyUnits, exact : BOOLEAN] \cup {None},
              statement : Seq(Nat \X Int), proof : Nat]

TypeOK ==
  /\ classification \in [envelope : Envelopes, valid : BOOLEAN] \cup {None}
  /\ inputs \in Setups \cup {None} /\ begun \in Envelopes \cup {None}
  /\ classifier # None =>
       /\ classifier.envelope \in Envelopes /\ classifier.exact \in BOOLEAN
       /\ classifier.relation = None \/ classifier.relation \in Relations

Init == /\ classifier = None /\ classification = None /\ inputs = None
        /\ begun = None /\ verdicts = {}

----
CipherUnits == FoldLeft(LAMBDA a, b : a + b, 0, Lengths)

\* Where polynomial o begins in the body.
StartOf(o) == FoldLeft(LAMBDA a, b : a + b, 0, SubSeq(Lengths, 1, o - 1))

\* The common polynomial and the key lead each ciphertext pair; they are
\* those of the setup s.
InputsBefore(o, s) == IF o \in {1, 3} THEN <<<<1, s>>, <<2, s>>>> ELSE <<>>

\* The statement the prover of a ballot under setup s made its proof for.
StatementOf(s) ==
  LET pair(o) == <<<<1, s>>, <<2, s>>>>
                 \o [i \in 1 .. Lengths[o] + Lengths[o + 1] |-> <<3, StartOf(o) + i>>]
  IN  <<<<0, s>>>> \o pair(1) \o pair(3)

\* The verifier's statement after the body's units i .. j, which are the
\* body's own or not, for whatever pieces they come in.
Absorbed(statement, i, j, s, right) ==
  LET unit(u) == IF right THEN <<3, u>> ELSE <<3, -u>>
      led(u) == LET o == {p \in 1 .. 4 : StartOf(p) = u - 1}
                IN  IF o = {} THEN <<>> ELSE InputsBefore(CHOOSE p \in o : TRUE, s)
  IN  FoldLeft(LAMBDA acc, u : acc \o led(u) \o <<unit(u)>>,
               statement, [k \in 1 .. j - i + 1 |-> i + k - 1])

----
\* Mutant: a ballot is read with whatever inputs are shared.
AnyInputs(s) == inputs

\* Inputs of another setup are not used.
ServingInputs(s) == IF inputs = s THEN inputs ELSE None

\* A header that is not the statement's leaves the ballot without a relation:
\* its body is hashed and, when it matches, the ballot is invalid.
NewClassifier(e) ==
  [envelope |-> e, hashed |-> 0, exact |-> TRUE,
   relation |-> IF e.header
                THEN [setup |-> e.setup, inputs |-> ServingInputs(e.setup), key |-> None,
                      statement |-> <<<<0, e.setup>>>>, proof |-> 0]
                ELSE None]

\* Begin under the instance's setup s. Whatever the outcome, the last ballot
\* is forgotten; another setup's inputs are released. A wrong header the host
\* makes up is a wrong unit of the body.
begin(s, e) ==
  /\ begun' = e
  /\ classification' = None
  /\ inputs' = IF inputs = s THEN inputs ELSE None
  /\ classifier' = IF e.setup = s THEN NewClassifier(e) ELSE None
  /\ UNCHANGED verdicts

\* A refused step ends the ballot, and forgets a finished one.
Refuse == /\ classifier' = None /\ classification' = None
          /\ UNCHANGED <<inputs, begun, verdicts>>

Relation == IF classifier = None THEN None ELSE classifier.relation

begin_key(right) ==
  LET r == Relation
  IN  IF r # None /\ r.inputs = None /\ r.key = None /\ right
      THEN /\ classifier' = [classifier EXCEPT !.relation.key = [units |-> 0, exact |-> TRUE]]
           /\ UNCHANGED <<classification, inputs, begun, verdicts>>
      ELSE Refuse

push_key(right) ==
  LET r == Relation
  IN  IF r # None /\ r.key # None /\ r.key.units < KeyUnits
      THEN /\ classifier' = [classifier EXCEPT !.relation.key.units = @ + 1,
                                               !.relation.key.exact = @ /\ right]
           /\ UNCHANGED <<classification, inputs, begun, verdicts>>
      ELSE Refuse

\* The reader compares the complete key with the identity the setup certifies.
CertifiedKey(k) == k.units = KeyUnits /\ k.exact

finish_key ==
  LET r == Relation
  IN  IF r # None /\ r.key # None /\ CertifiedKey(r.key)
      THEN /\ classifier' = [classifier EXCEPT !.relation.inputs = r.setup,
                                               !.relation.key = None]
           /\ inputs' = r.setup
           /\ UNCHANGED <<classification, begun, verdicts>>
      ELSE Refuse

requires_key == Relation # None /\ (Relation.inputs = None \/ Relation.key # None)

\* The relation after n more units. The proof may not exceed what the header
\* declares; `refuses` is the verifier turning the statement or proof down.
Pushed(r, e, n, right, refuses) ==
  LET from  == classifier.hashed + 1
      upto  == classifier.hashed + n
      proof == r.proof + (upto - Max({CipherUnits, from - 1}))
  IN  IF refuses \/ (upto > CipherUnits /\ proof > e.proof)
      THEN None
      ELSE [r EXCEPT !.statement = Absorbed(@, from, Min({upto, CipherUnits}), r.inputs, right),
                     !.proof = IF upto > CipherUnits THEN proof ELSE @]

\* Whether the verifier may turn down what it has after these units: it has no
\* ground to while every unit is the valid ballot's own and the statement is
\* the prover's.
MayRefuse(r, e, right) ==
  ~(e.valid /\ classifier.exact /\ right /\ r.inputs = e.setup)

\* A piece of n units: the hash takes it first, and only the hash can refuse;
\* a relation that refuses is dropped.
push(n, right, refuses) ==
  LET e == classifier.envelope
      r == Relation
  IN  IF classifier # None /\ ~requires_key /\ n \in 1 .. ChunkLimit
         /\ classifier.hashed + n <= e.length
      THEN /\ r = None => ~refuses
           /\ r # None /\ refuses => MayRefuse(r, e, right)
           /\ classifier' = [classifier EXCEPT
                !.hashed = @ + n, !.exact = @ /\ right,
                !.relation = IF r = None THEN None ELSE Pushed(r, e, n, right, refuses)]
           /\ UNCHANGED <<classification, inputs, begun, verdicts>>
      ELSE ~refuses /\ Refuse

\* The relation's own finish: everything arrived and the proof verifies for
\* the statement the verifier was given.
Proved(c) ==
  /\ c.relation # None
  /\ c.hashed >= CipherUnits /\ c.relation.proof = c.envelope.proof
  /\ c.envelope.valid /\ c.exact /\ c.relation.statement = StatementOf(c.envelope.setup)

\* The body hash is complete and is the envelope's identity.
MatchingBody(c) == c.hashed = c.envelope.length /\ c.exact

finish ==
  /\ classifier' = None
  /\ classification' = IF classifier # None /\ MatchingBody(classifier)
                       THEN [envelope |-> classifier.envelope, valid |-> Proved(classifier)]
                       ELSE None
  /\ verdicts' = IF classification' = None THEN verdicts ELSE verdicts \cup {classification'}
  /\ UNCHANGED <<inputs, begun>>

take_classification ==
  /\ classification # None
  /\ classification' = None
  /\ UNCHANGED <<classifier, inputs, begun, verdicts>>

release_inputs ==
  /\ inputs' = None
  /\ UNCHANGED <<classifier, classification, begun, verdicts>>

Next == \/ \E s \in Setups, e \in Envelopes : begin(s, e)
        \/ \E right \in BOOLEAN : begin_key(right) \/ push_key(right)
        \/ finish_key \/ finish \/ take_classification \/ release_inputs
        \/ \E n \in 0 .. ChunkLimit, right, refuses \in BOOLEAN : push(n, right, refuses)

Spec == Init /\ [][Next]_vars

----
(* Properties.                                                             *)

\* The verdict on a ballot is its envelope's alone. Corrupt keys, wrong bytes,
\* odd pieces and steps out of order never make a valid ballot invalid, or an
\* invalid one valid: at worst they yield no classification.
VerdictOfBallot ==
  \A c \in verdicts : c.valid <=> /\ c.envelope.header /\ c.envelope.valid
                                  /\ c.envelope.length = CipherUnits + c.envelope.proof

\* What the instance holds is the classification of the ballot begun last:
\* it cannot be taken for another slot's.
ClassificationOfLastBegun ==
  classification # None => classification.envelope = begun
====
