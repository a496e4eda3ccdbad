---------------------------- MODULE SetupSession ----------------------------
(* One participant's public setup verification over its visits: the offers it *)
(* verified, the selection and the work done for it, the certificate and the  *)
(* verified setup (crates/setup-aggregate/src/setup-session.rs and           *)
(* public-work.rs).  The host chooses every call and its input, so that a     *)
(* selection or a certificate of another selection may arrive at any time.    *)
(* How an offer is verified, summed and checked is in OfferVerifier,          *)
(* OfferAggregator and PublishedAggregate; here each is one step.             *)
EXTENDS Naturals, FiniteSets

CONSTANTS
  Offers,        \* signed contribution offers: a position and a body each
  PositionOf,    \* the roster position of an offer
  Valid,         \* the offers whose body and proof verify
  Contributors,  \* setup_contributors()
  Members        \* roster positions

ASSUME SessionAssumption ==
  /\ PositionOf \in [Offers -> Nat]
  /\ Valid \subseteq Offers
  /\ Contributors \in Nat \ {0}

\* At most one offer of each position, as keep_offer leaves a list of offers.
OnePerPosition(s) == \A a, b \in s : PositionOf[a] = PositionOf[b] => a = b

Selections == {s \in SUBSET Offers : Cardinality(s) = Contributors /\ OnePerPosition(s)}

None == {}
NoAggregator == [for |-> None, known |-> {}, accepted |-> {}]

VARIABLES
  roster,        \* whether this visit's roster is verified
  offers,        \* the verified offers
  committed,     \* the verified committed offers
  unsigned,      \* the selection that the organizer may sign
  selected,      \* the authenticated selection
  aggregator,    \* the streamed aggregation
  streamed,      \* the selection of the streamed sums
  aggregate,     \* the selection whose published sum is being verified
  job,           \* the selection of the evaluation job
  inputs,        \* the selection whose inputs are verified
  endorsements,  \* authenticated endorsements, with the selection of each
  certificate,   \* the selection of the authenticated certificate
  verified,      \* the selection of the verified setup
  collection,    \* the organizer's collected offers; an absent one is empty
  kept           \* tagged records of this credential, which outlive a visit

vars == <<roster, offers, committed, unsigned, selected, aggregator, streamed, aggregate,
          job, inputs, endorsements, certificate, verified, collection, kept>>

Init ==
  /\ roster = FALSE
  /\ offers = {} /\ committed = {} /\ collection = {} /\ endorsements = {}
  /\ unsigned = None /\ selected = None /\ aggregator = NoAggregator
  /\ streamed = None /\ aggregate = None /\ job = None /\ inputs = None
  /\ certificate = None /\ verified = None
  /\ kept = [inputs |-> {}, setup |-> {}, collection |-> {}]

\* An offer replaces the one of its position.
KeepOffer(s, o) == {x \in s : PositionOf[x] # PositionOf[o]} \cup {o}

----
\* A new roster verification discards the visit, as the end of a visit does.
BeginRoster ==
  /\ roster' = FALSE
  /\ offers' = {} /\ committed' = {} /\ collection' = {} /\ endorsements' = {}
  /\ unsigned' = None /\ selected' = None /\ aggregator' = NoAggregator
  /\ streamed' = None /\ aggregate' = None /\ job' = None /\ inputs' = None
  /\ certificate' = None /\ verified' = None
  /\ UNCHANGED kept

FinishRoster ==
  /\ ~roster
  /\ roster' = TRUE
  /\ UNCHANGED <<offers, committed, unsigned, selected, aggregator, streamed, aggregate, job,
                 inputs, endorsements, certificate, verified, collection, kept>>

FinishOffer(o) ==
  /\ roster /\ o \in Valid
  /\ offers' = KeepOffer(offers, o)
  /\ UNCHANGED <<roster, committed, unsigned, selected, aggregator, streamed, aggregate, job,
                 inputs, endorsements, certificate, verified, collection, kept>>

ProposeSelection(s) ==
  /\ roster /\ verified = None
  /\ s \subseteq offers
  /\ unsigned' = s
  /\ UNCHANGED <<roster, offers, committed, selected, aggregator, streamed, aggregate, job,
                 inputs, endorsements, certificate, verified, collection, kept>>

\* Mutant: the work of the former selection is kept.
StaleInstallSelection(s) ==
  /\ selected' = s
  /\ UNCHANGED <<aggregator, streamed, aggregate, job, inputs, endorsements>>

\* A selection with another body discards the work of the former one.
InstallSelection(s) ==
  /\ selected' = s
  /\ IF selected = s
     THEN UNCHANGED <<aggregator, streamed, aggregate, job, inputs, endorsements>>
     ELSE /\ aggregator' = NoAggregator
          /\ streamed' = None /\ aggregate' = None /\ job' = None /\ inputs' = None
          /\ endorsements' = {}

\* Any selection that the organizer signed; a corrupt one may sign several.
BeginSelection(s) ==
  /\ roster /\ verified = None
  /\ InstallSelection(s)
  /\ UNCHANGED <<roster, offers, committed, unsigned, certificate, verified, collection, kept>>

\* The selected offers that this visit verified, by position and body.
Known == selected \cap (offers \cup committed)

AggregateSelection ==
  /\ selected # None
  /\ aggregator' = [for |-> selected, known |-> Known, accepted |-> {}]
  /\ UNCHANGED <<roster, offers, committed, unsigned, selected, streamed, aggregate, job,
                 inputs, endorsements, certificate, verified, collection, kept>>

DiscardAggregation ==
  /\ aggregator.for # None
  /\ aggregator' = NoAggregator
  /\ UNCHANGED <<roster, offers, committed, unsigned, selected, streamed, aggregate, job,
                 inputs, endorsements, certificate, verified, collection, kept>>

\* The next selected offer, known or verified while it streams.
FinishSelectedOffer(o) ==
  /\ o \in aggregator.for \ aggregator.accepted
  /\ \A x \in aggregator.for \ aggregator.accepted : PositionOf[o] <= PositionOf[x]
  /\ o \in aggregator.known \/ o \in Valid
  /\ aggregator' = [aggregator EXCEPT !.accepted = @ \cup {o}]
  /\ committed' = KeepOffer(committed, o)
  /\ UNCHANGED <<roster, offers, unsigned, selected, streamed, aggregate, job,
                 inputs, endorsements, certificate, verified, collection, kept>>

FinishSelection ==
  /\ aggregator.for # None /\ aggregator.accepted = aggregator.for
  /\ streamed' = aggregator.for
  /\ aggregator' = NoAggregator
  /\ UNCHANGED <<roster, offers, committed, unsigned, selected, aggregate, job,
                 inputs, endorsements, certificate, verified, collection, kept>>

----
\* The organizer's collection.

Session == <<roster, committed, unsigned, selected, aggregator, aggregate, job,
             inputs, endorsements, certificate, verified>>

BeginCollection ==
  /\ roster
  /\ collection' = {}
  /\ UNCHANGED <<Session, offers, streamed, kept>>

CollectOffer(o) ==
  /\ o \in offers
  /\ Cardinality(collection) < Contributors
  /\ \A x \in collection : PositionOf[x] # PositionOf[o]
  /\ collection' = collection \cup {o}
  /\ UNCHANGED <<Session, offers, streamed, kept>>

RetainCollection ==
  /\ collection # {}
  /\ kept' = [kept EXCEPT !.collection = collection]
  /\ UNCHANGED <<Session, offers, streamed, collection>>

\* The restored offers replace the verified ones of their positions.
RestoreCollection ==
  /\ roster /\ kept.collection # {}
  /\ selected # None => kept.collection \subseteq selected
  /\ offers' = {x \in offers : \A o \in kept.collection : PositionOf[x] # PositionOf[o]}
                 \cup kept.collection
  /\ collection' = kept.collection
  /\ UNCHANGED <<Session, streamed, kept>>

\* The collection is consumed whether or not it is the selected one.
SealCollection ==
  /\ selected # None
  /\ collection' = {}
  /\ streamed' = IF collection = selected THEN selected ELSE streamed
  /\ UNCHANGED <<Session, offers, kept>>

----
\* The published sum and the jobs for its evaluation proofs.

BeginAggregate ==
  /\ streamed # None
  /\ aggregate' = streamed
  /\ UNCHANGED <<roster, offers, committed, unsigned, selected, aggregator, streamed, job,
                 inputs, endorsements, certificate, verified, collection, kept>>

\* The verifier is consumed; its inputs must agree with those already known.
FinishAggregate ==
  /\ aggregate # None
  /\ aggregate' = None
  /\ inputs' = IF inputs \in {None, aggregate} /\ verified \in {None, aggregate}
               THEN aggregate ELSE inputs
  /\ UNCHANGED <<roster, offers, committed, unsigned, selected, aggregator, streamed, job,
                 endorsements, certificate, verified, collection, kept>>

FinishAggregateCache ==
  /\ aggregate # None
  /\ aggregate' = None
  /\ UNCHANGED <<roster, offers, committed, unsigned, selected, aggregator, streamed, job,
                 inputs, endorsements, certificate, verified, collection, kept>>

\* A job proves the evaluations of one selected offer, all of them verified.
BeginEvaluationJob ==
  /\ selected # None /\ selected \subseteq offers \cup committed
  /\ job' = selected
  /\ UNCHANGED <<roster, offers, committed, unsigned, selected, aggregator, streamed, aggregate,
                 inputs, endorsements, certificate, verified, collection, kept>>

\* The last output ends the job.
NextJobOutput ==
  /\ job # None
  /\ job' = None
  /\ UNCHANGED <<roster, offers, committed, unsigned, selected, aggregator, streamed, aggregate,
                 inputs, endorsements, certificate, verified, collection, kept>>

----
\* Endorsements, the certificate and the retained results.

AddEndorsement(m) ==
  /\ selected # None
  /\ \A e \in endorsements : e.position # m
  /\ endorsements' = endorsements \cup {[position |-> m, selection |-> selected]}
  /\ UNCHANGED <<roster, offers, committed, unsigned, selected, aggregator, streamed, aggregate,
                 job, inputs, certificate, verified, collection, kept>>

\* Mutant: another certificate restarts the setup verification.
ReplacingBeginCertificate(s) ==
  /\ roster
  /\ verified' = IF verified = s THEN s ELSE None
  /\ InstallSelection(s)
  /\ certificate' = s
  /\ UNCHANGED <<roster, offers, committed, unsigned, collection, kept>>

\* A certificate of any selection; once a setup is verified, only of that one.
BeginCertificate(s) ==
  /\ roster /\ verified \in {None, s}
  /\ InstallSelection(s)
  /\ certificate' = s
  /\ UNCHANGED <<roster, offers, committed, unsigned, verified, collection, kept>>

FinishCertificate ==
  /\ inputs # None /\ certificate # None
  /\ inputs = certificate
  /\ verified' = inputs
  /\ UNCHANGED <<roster, offers, committed, unsigned, selected, aggregator, streamed, aggregate,
                 job, inputs, endorsements, certificate, collection, kept>>

RetainInputs ==
  /\ inputs # None
  /\ kept' = [kept EXCEPT !.inputs = @ \cup {inputs}]
  /\ UNCHANGED <<roster, offers, committed, unsigned, selected, aggregator, streamed, aggregate,
                 job, inputs, endorsements, certificate, verified, collection>>

RestoreInputs ==
  /\ verified = None /\ selected \in kept.inputs
  /\ inputs' = selected
  /\ aggregator' = NoAggregator
  /\ UNCHANGED <<roster, offers, committed, unsigned, selected, streamed, aggregate, job,
                 endorsements, certificate, verified, collection, kept>>

RetainSetup ==
  /\ verified # None
  /\ kept' = [kept EXCEPT !.setup = @ \cup {verified}]
  /\ UNCHANGED <<roster, offers, committed, unsigned, selected, aggregator, streamed, aggregate,
                 job, inputs, endorsements, certificate, verified, collection>>

RestoreSetup ==
  /\ certificate \in kept.setup
  /\ verified' = certificate
  /\ UNCHANGED <<roster, offers, committed, unsigned, selected, aggregator, streamed, aggregate,
                 job, inputs, endorsements, certificate, collection, kept>>

Next ==
  \/ BeginRoster \/ FinishRoster
  \/ \E o \in Offers : FinishOffer(o) \/ FinishSelectedOffer(o) \/ CollectOffer(o)
  \/ \E s \in Selections : ProposeSelection(s) \/ BeginSelection(s) \/ BeginCertificate(s)
  \/ AggregateSelection \/ DiscardAggregation \/ FinishSelection
  \/ BeginCollection \/ RetainCollection \/ RestoreCollection \/ SealCollection
  \/ BeginAggregate \/ FinishAggregate \/ FinishAggregateCache
  \/ BeginEvaluationJob \/ NextJobOutput
  \/ \E p \in Members : AddEndorsement(p)
  \/ FinishCertificate \/ RetainInputs \/ RestoreInputs \/ RetainSetup \/ RestoreSetup

Spec == Init /\ [][Next]_vars

----
TypeOK ==
  /\ roster \in BOOLEAN
  /\ offers \subseteq Offers /\ committed \subseteq Offers /\ collection \subseteq Offers
  /\ {unsigned, selected, streamed, aggregate, job, inputs, certificate, verified}
       \subseteq Selections \cup {None}
  /\ aggregator \in [for : Selections \cup {None}, known : SUBSET Offers, accepted : SUBSET Offers]
  /\ endorsements \subseteq [position : Members, selection : Selections]
  /\ kept \in [inputs : SUBSET Selections, setup : SUBSET Selections, collection : SUBSET Offers]

\* Whatever order selections and certificates arrive in, every piece of unfinished
\* work, the inputs and the endorsements are those of the current selection.
WorkBelongs ==
  /\ {aggregator.for, streamed, aggregate, job, inputs} \subseteq {None, selected}
  /\ \A e \in endorsements : e.selection = selected

\* A participant proposes, endorses and accepts only selections all of whose offers
\* it verified: none is taken for a verified one because its position was.
InputsVerified ==
  /\ {unsigned, streamed, inputs, verified} \subseteq SUBSET Valid
  /\ kept.inputs \cup kept.setup \subseteq SUBSET Valid

\* The verified setup is the certified one, also after the setup of an earlier visit
\* was restored and another selection was authenticated before it.
VerifiedCertified == verified # None => verified = certificate

\* In whatever order selections, offers and certificates arrive, a session works
\* on one selection, of offers it verified, and accepts only the certified setup.
SessionSound == TypeOK /\ WorkBelongs /\ InputsVerified /\ VerifiedCertified

\* Within a visit the verified setup never changes.
SetupFixed == [][verified # None /\ roster' => verified' = verified]_vars
====
