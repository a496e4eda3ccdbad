------------------------ MODULE PublishedAggregate ------------------------
(* The published key sum of a setup.  The organizer collects verified offers *)
(* in the order it discovers them and seals the sum when the selection is    *)
(* known (crates/setup-aggregate/src/aggregate-publisher.rs).  Every         *)
(* participant checks a published sum against the evaluation proofs of the   *)
(* selected offers (published-aggregate.rs) without reading the committed    *)
(* polynomials themselves.  A visit may end anywhere: what survives it are   *)
(* the records tagged with the participant's credential.                     *)
(*                                                                           *)
(* A polynomial is one residue modulo Modulus, and its digest its value.     *)
(* Evaluation at the challenge point separates any two sums, so that the     *)
(* evaluation of a sum is represented by the sum.                            *)
EXTENDS Naturals, Sequences, SequencesExt, FiniteSets, FiniteSetsExt

CONSTANTS
  Eligible,      \* number of eligible contributors
  Contributors,  \* setup_contributors()
  Streamed,      \* the polynomials that a body carries, numbered first
  Committed,     \* the polynomials that the public oracle carries
  Modulus        \* residues (bound)

PublishedAssumption ==
  /\ {Eligible, Contributors, Streamed, Committed, Modulus} \subseteq Nat \ {0}
  /\ Contributors <= Eligible

Residues == 0..(Modulus - 1)
AllPolynomials == Streamed + Committed
CommittedPolynomials == (Streamed + 1)..AllPolynomials
Manifests == [CommittedPolynomials -> Residues]

\* Polynomial p of the verified offer at position o.
Value(o, p) == (o + p) % Modulus
Add(x, y) == (x + y) % Modulus
SumOf(positions, p) == FoldSet(LAMBDA o, sum : Add(Value(o, p), sum), 0, positions)

VARIABLES
  selected,    \* the positions of the authenticated selection
  collection,  \* the AggregatePublisher, or None
  sealed,      \* the manifest the publisher made, or NoSums
  streamed,    \* whether the streamed sums of the selection are known
  aggregate,   \* the PublishedAggregateVerifier, or None
  inputs,      \* the polynomials of the verified selection inputs, or NoSums
  checked,     \* the cached polynomials that check_cache accepted, or NoSums
  kept         \* tagged records that outlive a visit

vars == <<selected, collection, sealed, streamed, aggregate, inputs, checked, kept>>

None == [none |-> TRUE]
NoSums == <<>>
NoProof == [proof |-> "none"]

Selections == {s \in SUBSET (1..Eligible) : Cardinality(s) = Contributors}

NewCollection(offers, sums) ==
  [offers |-> offers, sums |-> sums, incoming |-> 0, outputs |-> <<>>, failed |-> FALSE]

\* A failed machine refuses everything: of its state only the failure matters.
Failed(machine) == [f \in DOMAIN machine |-> CASE f = "failed" -> TRUE
                                              [] f = "incoming" -> 0
                                              [] f = "evaluation" -> NoProof
                                              [] f = "evaluated" -> 0
                                              [] f \in {"manifest", "claims"} ->
                                                   [p \in CommittedPolynomials |-> 0]
                                              [] OTHER -> <<>>]

Init ==
  /\ selected \in Selections
  /\ collection = None /\ sealed = NoSums /\ streamed = FALSE
  /\ aggregate = None /\ inputs = NoSums /\ checked = NoSums
  /\ kept = [collection |-> None, data |-> None, inputs |-> NoSums]

----
\* The organizer's collection.

Publisher == <<selected, sealed, streamed, aggregate, inputs, checked>>

BeginCollection ==
  /\ collection = None
  /\ \/ collection' = NewCollection(<<>>, <<>>)
     \/ kept.collection # None /\ collection' = kept.collection
  /\ UNCHANGED <<Publisher, kept>>

BeginCollectedOffer(o) ==
  /\ collection # None /\ ~collection.failed /\ collection.incoming = 0
  /\ Len(collection.offers) < Contributors
  /\ o \notin ToSet(collection.offers)
  /\ collection' = [collection EXCEPT !.incoming = o]
  /\ UNCHANGED <<Publisher, kept>>

\* One polynomial of the offer, with the sum so far as the host read it back:
\* a wrong body or a wrong sum fails the collection.
CollectPolynomial(value, read) ==
  /\ collection # None /\ ~collection.failed /\ collection.incoming # 0
  /\ LET p == Len(collection.outputs) + 1
         base == IF collection.offers = <<>> THEN 0 ELSE read
         right == /\ value = Value(collection.incoming, p)
                  /\ collection.offers # <<>> => read = collection.sums[p]
     IN /\ p <= AllPolynomials
        /\ collection' = IF right
                         THEN [collection EXCEPT !.outputs = Append(@, Add(value, base))]
                         ELSE Failed(collection)
  /\ UNCHANGED <<Publisher, kept>>

FinishCollectedOffer ==
  /\ collection # None /\ ~collection.failed /\ collection.incoming # 0
  /\ collection' =
       IF Len(collection.outputs) = AllPolynomials
       THEN NewCollection(Append(collection.offers, collection.incoming), collection.outputs)
       ELSE Failed(collection)
  /\ UNCHANGED <<Publisher, kept>>

RetainCollection ==
  /\ collection # None /\ ~collection.failed /\ collection.incoming = 0
  /\ collection.offers # <<>>
  /\ kept' = [kept EXCEPT !.collection = collection]
  /\ UNCHANGED <<Publisher, collection>>

\* The collection is consumed whether or not it is the selected one.
SealCollection ==
  /\ collection # None
  /\ collection' = None
  /\ IF /\ ~collection.failed /\ collection.incoming = 0
        /\ Len(collection.offers) = Contributors
        /\ ToSet(collection.offers) = selected
     THEN /\ sealed' = [p \in CommittedPolynomials |-> collection.sums[p]]
          /\ streamed' = TRUE
     ELSE UNCHANGED <<sealed, streamed>>
  /\ UNCHANGED <<selected, aggregate, inputs, checked, kept>>

----
\* The verification of a published sum.

\* A participant that collected nothing sums the streamed polynomials itself
\* (OfferAggregator).
FinishSelection ==
  /\ ~streamed
  /\ streamed' = TRUE
  /\ UNCHANGED <<selected, collection, sealed, aggregate, inputs, checked, kept>>

Verification == <<selected, collection, sealed, streamed>>

\* For any manifest that the host supplies.
BeginAggregate(manifest) ==
  /\ streamed
  /\ aggregate' = [manifest |-> manifest, read |-> <<>>, claims |-> [p \in CommittedPolynomials |-> 0],
                   evaluated |-> 0, evaluation |-> NoProof, failed |-> FALSE]
  /\ UNCHANGED <<Verification, inputs, checked, kept>>

DataRead == aggregate # None /\ ~aggregate.failed /\ Len(aggregate.read) = Committed

AggregatePolynomial(value) ==
  /\ aggregate # None /\ ~aggregate.failed /\ Len(aggregate.read) < Committed
  /\ aggregate' = IF value = aggregate.manifest[Streamed + Len(aggregate.read) + 1]
                  THEN [aggregate EXCEPT !.read = Append(@, value)]
                  ELSE Failed(aggregate)
  /\ UNCHANGED <<Verification, inputs, checked, kept>>

RetainData ==
  /\ DataRead
  /\ kept' = [kept EXCEPT !.data = [manifest |-> aggregate.manifest, read |-> aggregate.read]]
  /\ UNCHANGED <<Verification, aggregate, inputs, checked>>

RestoreData ==
  /\ aggregate # None /\ kept.data # None
  /\ ~aggregate.failed /\ aggregate.read = <<>>
  /\ aggregate.evaluation = NoProof /\ aggregate.evaluated = 0
  /\ kept.data.manifest = aggregate.manifest
  /\ aggregate' = [aggregate EXCEPT !.read = kept.data.read]
  /\ UNCHANGED <<Verification, inputs, checked, kept>>

\* The evaluation proof of the next selected offer; a refused one may be begun
\* again with another proof.
BeginEvaluation(proof) ==
  /\ DataRead /\ aggregate.evaluated < Contributors
  /\ aggregate' = [aggregate EXCEPT !.evaluation = [proof |-> proof, offer |->
                                    SetToSortSeq(selected, <)[aggregate.evaluated + 1]]]
  /\ UNCHANGED <<Verification, inputs, checked, kept>>

\* Mutant: the claims of a refused proof are added as well.
FoldingFinishEvaluation ==
  /\ aggregate # None /\ ~aggregate.failed /\ aggregate.evaluation # NoProof
  /\ LET e == aggregate.evaluation
     IN aggregate' = [aggregate EXCEPT !.evaluation = NoProof,
                        !.evaluated = IF e.proof = "valid" THEN @ + 1 ELSE @,
                        !.claims = [p \in CommittedPolynomials |-> Add(@[p], Value(e.offer, p))]]
  /\ UNCHANGED <<Verification, inputs, checked, kept>>

FinishEvaluation ==
  /\ aggregate # None /\ ~aggregate.failed /\ aggregate.evaluation # NoProof
  /\ LET folded == aggregate.evaluation.offer
     IN aggregate' =
          IF aggregate.evaluation.proof = "valid"
          THEN [aggregate EXCEPT !.evaluation = NoProof, !.evaluated = @ + 1,
                                 !.claims = [p \in CommittedPolynomials |->
                                               Add(@[p], Value(folded, p))]]
          ELSE [aggregate EXCEPT !.evaluation = NoProof]
  /\ UNCHANGED <<Verification, inputs, checked, kept>>

\* The sums a complete verifier stands for.
Read == [p \in 1..AllPolynomials |-> IF p <= Streamed THEN SumOf(selected, p)
                                  ELSE aggregate.read[p - Streamed]]

\* The verifier is consumed; its result must agree with inputs already known.
FinishAggregate ==
  /\ aggregate # None
  /\ aggregate' = None
  /\ inputs' = IF /\ DataRead /\ aggregate.evaluation = NoProof
                  /\ aggregate.evaluated = Contributors
                  /\ \A p \in CommittedPolynomials :
                       aggregate.claims[p] = aggregate.read[p - Streamed]
                  /\ inputs # NoSums => inputs = Read
               THEN Read ELSE inputs
  /\ UNCHANGED <<Verification, checked, kept>>

RetainInputs ==
  /\ inputs # NoSums
  /\ kept' = [kept EXCEPT !.inputs = inputs]
  /\ UNCHANGED <<Verification, aggregate, inputs, checked>>

RestoreInputs ==
  /\ kept.inputs # NoSums /\ inputs = NoSums
  /\ inputs' = kept.inputs
  /\ UNCHANGED <<Verification, aggregate, checked, kept>>

\* A cache rebuilt for known inputs is compared polynomial by polynomial.
FinishAggregateCache ==
  /\ aggregate # None
  /\ aggregate' = None
  /\ checked' = IF DataRead /\ inputs # NoSums /\ inputs = Read THEN Read ELSE checked
  /\ UNCHANGED <<Verification, inputs, kept>>

\* The worker ends: only tagged records remain.
EndVisit ==
  /\ collection' = None /\ sealed' = NoSums /\ streamed' = FALSE
  /\ aggregate' = None /\ inputs' = NoSums /\ checked' = NoSums
  /\ UNCHANGED <<selected, kept>>

Next ==
  \/ BeginCollection \/ FinishCollectedOffer \/ RetainCollection \/ SealCollection
  \/ \E o \in 1..Eligible : BeginCollectedOffer(o)
  \/ \E value, read \in Residues : CollectPolynomial(value, read)
  \/ FinishSelection
  \/ \E manifest \in Manifests : BeginAggregate(manifest)
  \/ \E value \in Residues : AggregatePolynomial(value)
  \/ RetainData \/ RestoreData
  \/ \E proof \in {"valid", "invalid"} : BeginEvaluation(proof)
  \/ FinishEvaluation \/ FinishAggregate \/ RetainInputs \/ RestoreInputs
  \/ FinishAggregateCache \/ EndVisit

Spec == Init /\ [][Next]_vars

----
\* Whatever sum the host publishes, reads back or restores from an earlier visit,
\* the inputs a participant endorses are the sums of exactly the selected offers.
InputsAreSums ==
  \A known \in {inputs, kept.inputs, checked} \ {NoSums} :
    \A p \in 1..AllPolynomials : known[p] = SumOf(selected, p)

\* A manifest is sealed only for the selection, and it is the sum of the selected
\* offers although they were collected in another order, over several visits.
SealedIsSum ==
  sealed # NoSums => \A p \in CommittedPolynomials : sealed[p] = SumOf(selected, p)

\* The claims checked so far are those of the first selected offers, each once,
\* through refused proofs and repeated attempts.
ClaimsCountedOnce ==
  aggregate # None =>
    \A p \in CommittedPolynomials :
      aggregate.claims[p] = SumOf(ToSet(SubSeq(SetToSortSeq(selected, <), 1, aggregate.evaluated)), p)
====
