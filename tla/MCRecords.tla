----------------------------- MODULE MCRecords ------------------------------
(***************************************************************************)
(* Small instances of what is written and read: the wire messages, the     *)
(* trees and the words of a proof, the statement and the witness that it is*)
(* about, the ceremony on one machine and the check of its public files.   *)
(*                                                                         *)
(* The components do not share state in these runs: a behaviour is of one  *)
(* subject, and each component is instantiated over the cells, which are   *)
(* theirs in turn.                                                         *)
(***************************************************************************)
EXTENDS Integers, Sequences, SequencesExt, FiniteSets, FiniteSetsExt, TLC

CONSTANTS
    Subjects,   \* the components this run is about
    None

\* Wire messages: identities of two cells, and messages of every kind.
EncodingLimits == [tuple_length |-> 120, item_count |-> 12, item_length |-> 100,
               nesting_depth |-> 4, work |-> 400, allocation |-> 400]

\* Outside the close a reader's bound is just the longest message of its kind.
LongestMessages ==
    ("registration-header" :> 31) @@ ("poll-definition" :> 62) @@ ("roster-proposal" :> 22)
    @@ ("contribution-offer" :> 22) @@ ("setup-selection" :> 20) @@ ("evaluation-target" :> 29)

A == <<1, 2>>
B == <<2, 1>>

\* Two envelopes of every author, one of some, none.
Full == {0, 1, 2, 3} \X {A, B}
Option(i) == [identifier |-> <<70 + i>>, label |-> <<72 + i>>]

FieldsOf(k) ==
    CASE k = "registration-header" ->
             [poll : {A}, signing_public : {B}, recipient_key_hash : {A}, username : {<<>>, <<72>>, <<73, 74>>, <<73, 72, 70>>},
              source_bindings : {<<A>>, <<A, B>>, <<A, B, A>>}]
      [] k = "poll-definition" ->
             [runtime : {A}, nonce : {<<3>>}, organizer : {B}, title : {<<71>>},
              options : {<<Option(0), Option(1)>>}, top_count : {1, 2}, maximum_participants : {3}]
      [] k = "roster-proposal" -> [poll : {A}, bodies : {<<B, A, B>>, <<B, A, A, B>>}]
      [] k = "contribution-offer" -> [roster : {B}, position : {0, 2}, body_length : {5, 6}, body_identity : {A}]
      [] k = "setup-selection" -> [roster : {B}, selected : {{<<0, A>>, <<2, B>>}, {<<1, B>>, <<2, A>>}}]
      [] k = "close-intent" -> [poll : {A}, setup : {B}, close_time : {<<1, 0, 0>>, <<0, 1, 0>>}]
      [] k = "close-response" ->
             [poll : {A}, setup : {B}, intent : {A}, responder : {0, 3},
              listed : {{}, {<<1, A>>}, {<<1, A>>, <<1, B>>}, {<<0, B>>, <<2, A>>}, Full}]
      [] k = "close-proposal" ->
             [poll : {A}, setup : {B}, intent : {A},
              responses : {{<<0, A>>, <<1, B>>, <<3, A>>}, {<<0, B>>, <<2, A>>, <<3, B>>}}]
      [] k = "evaluation-target" ->
             [poll : {A}, setup : {B}, proposal : {A}, classifications : {<<2, 2, 0, 1>>}, ciphertext : {None}]
             \cup [poll : {A}, setup : {B}, proposal : {A}, classifications : {<<2, 2, 3, 2>>}, ciphertext : {A}]
      [] k = "setup-selection-endorsement" -> [selection : {A, B}, position : {0, 3}]
      [] k = "setup-contribution" -> [participant : {<<70>>}, poll : {A}, proposal : {B}, position : {0, 3}]
      [] k = "ballot-envelope" ->
             [poll : {A}, setup : {B}, position : {0, 3}, ballot_time : {<<1, 0, 0>>}, body_length : {5}, body_identity : {A}]
      [] k = "release-envelope" ->
             [poll : {A}, setup : {B}, target : {A}, position : {1}, body_length : {5}, body_identity : {B}]

NoiseCells == {0, 1, 2, 3, 4, 5, 6, 33, 35, 37, 38, 70, 71, 72, 73}

\* The witness: a table record of the profile of each size.
Profile(n, ciphertext, release, noise, rshare, rquotient, sharing, limb, carry) ==
    [participants |-> n, ciphertext |-> ciphertext, release |-> release, noise |-> noise,
     rshare |-> rshare, rquotient |-> rquotient, sharing |-> sharing, limb |-> limb,
     carry |-> carry]

ProfileRecords ==
    {Profile(3, 496, 144, 128, 112, 144, 108, 96, 32),
     Profile(4, 720, 144, 128, 112, 144, 108, 96, 32),
     Profile(7, 656, 192, 160, 120, 144, 111, 96, 32),
     Profile(10, 768, 192, 168, 120, 144, 112, 96, 32),
     Profile(16, 784, 192, 168, 120, 144, 115, 95, 33),
     Profile(20, 880, 192, 160, 127, 192, 116, 95, 33)}

\* The statement: six polynomials, each with its uses, and statements that are
\* sound, that have a record which is not canonical, another header or a rest.
Value(weight) == [kind |-> "value", weight |-> weight]
Common(weight, terms) == [kind |-> "common", weight |-> weight, terms |-> terms]
HeaderBytes == <<8, 9>>

PolynomialUses ==
    << <<Value(7), Value(12)>>,
       <<Common(5, <<<<1, 1>>, <<2, 100>>>>), Common(9, <<<<2, 4>>>>)>>,
       <<Value(11)>>,
       <<Value(13), Value(2)>>,
       <<Common(3, <<<<1, 6>>>>)>>,
       <<Value(21)>> >>

SignedRecord(c) == IF c < 0 THEN <<1, -c>> ELSE <<0, c>>

Sound(seed) ==
    [header |-> HeaderBytes, extra |-> <<>>,
     polynomials |->
       [p \in 1..6 |-> [i \in 1..4 |->
          SignedRecord((((seed + 1) * i * i + p * i + seed) % 5) - 2)]]]

HeldStatements ==
    {Sound(seed) : seed \in 0..1}
    \cup {[Sound(1) EXCEPT !.polynomials[p][i] = bad] :
            p \in {1, 5}, i \in {1, 4}, bad \in {<<1, 0>>, <<0, 3>>}}
    \cup {[Sound(0) EXCEPT !.header = <<8, 8>>], [Sound(0) EXCEPT !.extra = <<0>>]}

\* The public files: what three responses list, of six stored submissions.
Submission(author, id) == [author |-> author, id |-> id]
ListedBy ==
    (0 :> {Submission(0, 1), Submission(1, 1), Submission(1, 2), Submission(2, 1)})
    @@ (1 :> {Submission(0, 1), Submission(1, 1), Submission(2, 1)})
    @@ (2 :> {Submission(0, 1), Submission(1, 2), Submission(2, 1), Submission(3, 1)})
SubmissionIndex ==
    <<Submission(0, 1), Submission(1, 1), Submission(1, 2), Submission(2, 1),
      Submission(3, 1), Submission(1, 3)>>

VARIABLES subject, c1, c2, c3, c4, c5, c6, c7, c8, c9, c10, c11, c12, c13,
    c14, c15, c16, c17, c18, c19, c20

cells == <<c1, c2, c3, c4, c5, c6, c7, c8, c9, c10, c11, c12, c13, c14, c15,
            c16, c17, c18, c19, c20>>
runVars == <<subject, cells>>

\* A component uses the first cells; the others are empty and stay so.
Empty(n) ==
    /\ IF n < 5 THEN c5 = None ELSE TRUE
    /\ IF n < 6 THEN c6 = None ELSE TRUE
    /\ IF n < 7 THEN c7 = None ELSE TRUE
    /\ IF n < 8 THEN c8 = None ELSE TRUE
    /\ IF n < 9 THEN c9 = None ELSE TRUE
    /\ IF n < 10 THEN c10 = None ELSE TRUE
    /\ IF n < 11 THEN c11 = None ELSE TRUE
    /\ IF n < 12 THEN c12 = None ELSE TRUE
    /\ IF n < 13 THEN c13 = None ELSE TRUE
    /\ IF n < 14 THEN c14 = None ELSE TRUE
    /\ IF n < 15 THEN c15 = None ELSE TRUE
    /\ IF n < 16 THEN c16 = None ELSE TRUE
    /\ IF n < 17 THEN c17 = None ELSE TRUE
    /\ IF n < 18 THEN c18 = None ELSE TRUE
    /\ IF n < 19 THEN c19 = None ELSE TRUE
    /\ IF n < 20 THEN c20 = None ELSE TRUE

StayEmpty(n) ==
    /\ IF n < 5 THEN UNCHANGED c5 ELSE TRUE
    /\ IF n < 6 THEN UNCHANGED c6 ELSE TRUE
    /\ IF n < 7 THEN UNCHANGED c7 ELSE TRUE
    /\ IF n < 8 THEN UNCHANGED c8 ELSE TRUE
    /\ IF n < 9 THEN UNCHANGED c9 ELSE TRUE
    /\ IF n < 10 THEN UNCHANGED c10 ELSE TRUE
    /\ IF n < 11 THEN UNCHANGED c11 ELSE TRUE
    /\ IF n < 12 THEN UNCHANGED c12 ELSE TRUE
    /\ IF n < 13 THEN UNCHANGED c13 ELSE TRUE
    /\ IF n < 14 THEN UNCHANGED c14 ELSE TRUE
    /\ IF n < 15 THEN UNCHANGED c15 ELSE TRUE
    /\ IF n < 16 THEN UNCHANGED c16 ELSE TRUE
    /\ IF n < 17 THEN UNCHANGED c17 ELSE TRUE
    /\ IF n < 18 THEN UNCHANGED c18 ELSE TRUE
    /\ IF n < 19 THEN UNCHANGED c19 ELSE TRUE
    /\ IF n < 20 THEN UNCHANGED c20 ELSE TRUE

Wire == INSTANCE Messages WITH
    HashCells <- 2, U64Cells <- 3, ABSOLUTE_MAXIMUM_NESTING_DEPTH <- 4,
    ITEM_ALLOCATION <- 2, Encoding <- EncodingLimits,
    MaximumBytes <- LongestMessages, MAXIMUM_USERNAME_BYTES <- 2, Printable <- 30..71,
    Letter <- 72, Mark <- 74, Composed <- 73, Participants <- 4,
    SetupContributors <- 2, SetupEligible <- 3,
    SupportedParticipants <- {3, 4}, SupportedOptions <- {2, 3},
    Families <- 2, BodyLengths <- {5, 6}, Organizer <- 0, Runtime <- A,
    Poll <- A, RosterIdentity <- B, Own <- [position |-> 1, body |-> A],
    Fields <- FieldsOf, MaxFaults <- 1, Noise <- NoiseCells, kind <- c1,
    fields <- c2, wire <- c3, faults <- c4

Tree == INSTANCE MerkleTree WITH
    Lengths <- {2, 8, 16}, RECOMPUTED_LEVELS <- 1, SUBTREE_LEAVES <- 8,
    Window <- 1, MaxOpened <- 2, Stage <- 3, length <- c1, leaves <- c2,
    upper <- c3, first <- c4, running <- c5, indices <- c6, multiproof <- c7,
    written <- c8, wire <- c9, altered <- c10, nodes <- c11, position <- c12,
    verdict <- c13

Words == INSTANCE WordVerifier WITH
    MODULUS <- 17, SHIFT <- 7, EVALUATION_DOMAIN_SIZE <- 8,
    Coefficients <- {<<3, 1, 4, 5>>}, Scalars <- {0, 1, 10},
    Queries <- {<<0, 2>>, <<1, 2>>, <<3, 3>>}, PublicColumns <- 0,
    fault <- c1, coefficients <- c2, round <- c3, layers <- c4, chain <- c5,
    folds <- c6, queries <- c7, words <- c8, drawn <- c9, statement <- c10,
    stage <- c11, position <- c12, reading <- c13, buffer <- c14,
    values <- c15, expected <- c16, rest <- c17, failed <- c18,
    complete <- c19, verdict <- c20

\* A relation with a public column, and one more fold layer.
PublicWords == INSTANCE WordVerifier WITH
    MODULUS <- 97, SHIFT <- 5, EVALUATION_DOMAIN_SIZE <- 16,
    Coefficients <- {<<31, 4, 15, 92, 6, 53, 58, 9>>}, Scalars <- {3},
    Queries <- {<<1, 6>>, <<5, 5>>}, PublicColumns <- 1, fault <- c1,
    coefficients <- c2, round <- c3, layers <- c4, chain <- c5, folds <- c6,
    queries <- c7, words <- c8, drawn <- c9, statement <- c10, stage <- c11,
    position <- c12, reading <- c13, buffer <- c14, values <- c15,
    expected <- c16, rest <- c17, failed <- c18, complete <- c19,
    verdict <- c20

Witness == INSTANCE WitnessLayout WITH
    Profiles <- ProfileRecords, MaximumCall <- 20, profile <- c1,
    witness <- c2, rows <- c3, outputs <- c4, nextGadget <- c5,
    commonShare <- c6, nextRecipient <- c7, finished <- c8, firstError <- c9,
    columns <- c10, consumed <- c11, answer <- c12, verifier <- c13

Stream == INSTANCE StatementStream WITH
    FieldModulus <- 101, Alpha <- 3, Modulus <- 5, Radix <- 2, Limbs <- 2,
    ChunkLimit <- 7, Degree <- 4, Header <- HeaderBytes,
    Uses <- PolynomialUses, Committed <- <<3, 4, 6>>, Columns <- {1, 2},
    TargetOffset <- 40, Root <- 77, Windows <- {1, 2, 4},
    Statements <- HeldStatements, statement <- c1, mode <- c2, bound <- c3,
    window <- c4, offered <- c5, overlong <- c6, stream <- c7, output <- c8

Machine == INSTANCE Ceremony WITH
    Sizes <- 3..20, n <- c1, mode <- c2, stage <- c3, todo <- c4,
    enrolled <- c5, offered <- c6, endorsed <- c7, certificate <- c8,
    cast <- c9, held <- c10, known <- c11, locked <- c12, log <- c13,
    listing <- c14, taken <- c15, proposal <- c16, votes <- c17,
    shares <- c18, panicked <- c19

Check == INSTANCE PublicCheck WITH
    N <- 4, Selected <- <<0, 1>>, Lists <- ListedBy,
    Index <- SubmissionIndex, ValidSets <- {{0, 2, 3}, {0, 3}},
    Selectors <- {"target", "certificate", "release", "terminal"},
    MaxFaults <- 1, files <- c1, valid <- c2, selector <- c3, stage <- c4,
    at <- c5, scratch <- c6, needed <- c7, envelopes <- c8, bodies <- c9,
    accepted <- c10, votes <- c11, noVotes <- c12, badVotes <- c13,
    shares <- c14, noShares <- c15, badShares <- c16, outcome <- c17,
    holds <- c18, index <- c19

ASSUME RunAssumption ==
    /\ Tree!TreeAssumption
    /\ Words!FieldAssumption
    /\ PublicWords!FieldAssumption
    /\ Witness!LayoutAssumption
    /\ Stream!StatementStreamAssumption

RunInit ==
    /\ subject \in Subjects
    /\ \/ subject = "messages" /\ Wire!Init /\ Empty(4)
       \/ subject = "tree" /\ Tree!Init /\ Empty(13)
       \/ subject = "words" /\ Words!Init /\ Empty(20)
       \/ subject = "public words" /\ PublicWords!Init /\ Empty(20)
       \/ subject = "witness" /\ Witness!Init /\ Empty(13)
       \/ subject = "statement" /\ Stream!Init /\ Empty(8)
       \/ subject = "ceremony" /\ Machine!Init /\ Empty(19)
       \/ subject = "public check" /\ Check!Init /\ Empty(19)

\* The components that may stop: a finished one, or one that its bounds end.
MayStop == {"messages", "witness", "statement"}

RunNext ==
    /\ UNCHANGED subject
    /\ \/ subject = "messages" /\ Wire!Next /\ StayEmpty(4)
       \/ subject = "tree" /\ Tree!Next /\ StayEmpty(13)
       \/ subject = "words" /\ Words!Next /\ StayEmpty(20)
       \/ subject = "public words" /\ PublicWords!Next /\ StayEmpty(20)
       \/ subject = "witness" /\ Witness!Next /\ StayEmpty(13)
       \/ subject = "statement" /\ Stream!Next /\ StayEmpty(8)
       \/ subject = "ceremony" /\ Machine!Next /\ StayEmpty(19)
       \/ subject = "public check" /\ Check!Next /\ StayEmpty(19)
       \/ subject \in MayStop /\ UNCHANGED cells

RunSpec == RunInit /\ [][RunNext]_runVars

----

\* Every message a participant can send is read by its reader, as what was
\* meant: the bounds each reader computes admit the longest message.
SentReads == subject = "messages" => Wire!SentReads

\* What a reader takes has one spelling, so one identity: no reordered
\* listing, no other length and no trailing cell says the same thing again.
OneSpelling == subject = "messages" => Wire!OneSpelling

\* A reader that accepts a signature takes exactly what the signer meant by
\* it, whichever reader it is and whatever happened to the bytes.
SignedMeaning == subject = "messages" => Wire!SignedMeaning

\* A finished tree's kept nodes are those of the directly hashed tree,
\* however its subtrees were split, and an opening of a forgotten tree
\* finds each of its blocks under its kept node (Tree::hash_rows,
\* place_nodes, finish_above_subtrees, restore).
RootIsReference == subject = "tree" => Tree!RootIsReference

\* Each record supplies exactly the siblings of its path that no earlier
\* record's path or siblings cover, with the digests of the directly hashed
\* tree, whether the tree kept its leaves or hashed their blocks again
\* (Tree::write_record, Tree::node, Tree::opened_rows).
ProofIsReference == subject = "tree" => Tree!ProofIsReference

\* A proof read as it was written completes, and one that lost, gained or
\* changed any item never does (Verifier::push_proof, opening, finish).
CompleteIsWritten == subject = "tree" => Tree!CompleteIsWritten

\* Every node the verifier authenticates while it reads is the committed
\* tree's, so a later record is never checked against a supplied digest
\* that an altered record left behind (Verifier::opening).
AuthenticatedCommitted == subject = "tree" => Tree!AuthenticatedCommitted

\* An intact proof of an intact statement never fails and is accepted once
\* all of it was read and not before, for every polynomial, challenge and
\* query, with and without public columns: the verifier's folds at the
\* queried points are the prover's layers (Fri::create, Coset,
\* Verifier::opening, advance, finish).
IntactAccepted ==
    /\ subject = "words" => Words!IntactAccepted
    /\ subject = "public words" => PublicWords!IntactAccepted

\* A proof whose statement, header, counts or rows were changed, or that
\* has bytes after its end, is refused; changed salts give fresh fold
\* challenges, so those proofs are accepted only when they repeat the
\* prover's (Verifier::push_proof, finish_statement, challenges).
ChangedRefused ==
    /\ subject = "words" => Words!ChangedRefused
    /\ subject = "public words" => PublicWords!ChangedRefused

\* A prover that commits to a word off its polynomial at an opened point is
\* accepted only under the one challenge of that fold that cancels the
\* point (Verifier::advance, requested).
DeviationCaught == subject = "words" => Words!DeviationCaught

\* Every item of the header binds the proof: the public root through the
\* statement's digest, every other one because it is absorbed before the queries
\* are drawn (challenges, Transcript::respond, SetupStatementStream::finish).
HeaderBound ==
    /\ subject = "words" => Words!HeaderBound
    /\ subject = "public words" => PublicWords!HeaderBound

\* The verifier uses every polynomial, and each in one role: those that a
\* contribution carries as values, in the order of their indices, all others
\* as common ones (Accumulator::run and committed_values refuse a mixed use).
UsesPartition == subject = "witness" => Witness!UsesPartition

\* Every equation the verifier writes over column numbers and polynomial
\* indices is, read in the columns and the statement the prover produced,
\* the very row the prover closed: the same operands, signs, digits,
\* automorphisms and rotations (Accumulator::build_with against
\* Contribution and Witness).
EquationsAgree == subject = "witness" => Witness!EquationsAgree

\* A contribution that was finished, whatever calls were refused on the
\* way, always yields its columns, and the verifier's counters end where
\* its own checks want them (into_columns, build_with).
CountsAgree == subject = "witness" => Witness!CountsAgree

\* At every moment the polynomials written are a prefix of the statement's
\* order: a common one where its sampler names one, a carried value where
\* the body has one, and a recipient's key elsewhere; a finished
\* contribution wrote them all.
StatementOrder == subject = "witness" => Witness!StatementOrder

\* The powers of a row stay below the next row's, so no two rows of the
\* statement, its supports' and its source's included, share one (build_with,
\* source_linked::plan).
RowsApart == subject = "witness" => Witness!RowsApart

\* Exactly the columns of sparse secrets are counted, each once and to the half
\* support the prover drew it with, before and after the source is linked.
SupportsAgree == subject = "witness" => Witness!SupportsAgree

\* The relation's lookups and disjoint pairs name the columns the prover
\* filled: a narrow lookup for every word of fewer than sixteen bits, with
\* the factor of its width, and a pair for the two signs of every sparse
\* secret; before and after the source is linked (setup_relation,
\* source_linked::relation).
RelationDescribes == subject = "witness" => Witness!RelationDescribes

\* After the source's columns are appended, every moved equation still
\* reads what it read, and the source's own equations read its quotients,
\* errors and ephemeral, the FHE secret and the error of the registered
\* encryption (source_linked plan against SourceWitness::append).
LinkedAgrees == subject = "witness" => Witness!LinkedAgrees

\* Every ballot column is written once, with the offset the verifier takes
\* off, and exactly the errors and scores are narrow; every reading of a
\* release variable covers each of its words once and no other variable's,
\* from a whole word on, and its narrow top word is the relation's.
BallotAndReleaseAgree == subject = "witness" => Witness!BallotAndReleaseAgree

\* A relation's degree list names every oracle and stays in the code's
\* rate, its messages hold every challenge and its widest leaf even where
\* the size is fixed, and no choice of openings needs more siblings than
\* the proof bound counts (degrees, message_bytes, maximum_proof_bytes).
BoundsHold == subject = "witness" => Witness!BoundsHold

\* A finished stream was given exactly the encoded bytes of one statement:
\* the expected header, canonical records only, nothing before or after a
\* refusal, and, unless an enclosing verifier hashes the bytes, the
\* statement that the expected digest names (SetupStatementStream::push and
\* finish).
AcceptsOneStatement == subject = "statement" => Stream!AcceptsOneStatement

\* A good statement is accepted: no choice of chunks within the limit, of
\* window or of committed polynomials refuses it, and no adjoint of
\* canonical records fails to close.
WholeIsAccepted == subject = "statement" => Stream!WholeIsAccepted

\* The target and the coefficients are those of the whole statement,
\* whatever the chunks and the window and whichever polynomials are
\* committed: each value polynomial is subtracted once per use, each common
\* polynomial's adjoint is added once per use and term, and every job
\* started is taken (Accumulator::take_oldest, settle and
\* committed_values).
OutputIsTheStatement == subject = "statement" => Stream!OutputIsTheStatement

\* The prover's plan, which merges a polynomial's uses into one weight and
\* one list of columns before it reads the polynomial, gives the same
\* target and coefficients as the verifier's stream (prover_operator_plan).
ProverPlanAgrees == subject = "statement" => Stream!ProverPlanAgrees

\* Between two calls at most a window of jobs is started and not taken,
\* though taking a polynomial's last run may start its adjoint behind the
\* others (Accumulator::run).
JobsWithinWindow == subject = "statement" => Stream!JobsWithinWindow

\* A participant whose private state is lost before setup publishes no
\* later message, and the others complete without it.
DepartedSilent == subject = "ceremony" => Machine!DepartedSilent

\* A listing has an entry for each submission the relay scheduled for its
\* responder and, at the organizer and the equivocator, both on-time
\* envelopes of the equivocator; a late envelope is in none (close::run).
ListingsAsPlanned == subject = "ceremony" => Machine!ListingsAsPlanned

\* For every roster size the proposal names responders 0 to q-1 (the active
\* participants of the four participant cases), whatever the relay
\* withheld, and its slots are the ones close::run, no_result_close::run
\* and selected_setup_completion::run expect: each cast ballot usable but
\* the omitted one, the equivocator's conflicting with both on-time
\* envelopes.
SlotsAsPlanned == subject = "ceremony" => Machine!SlotsAsPlanned

\* A close log, from which the lock retired the late envelopes, replays
\* into a fresh work that prepares the signed response again and, at the
\* organizer, the signed proposal (close_work::replay).
ReplayReproduces == subject = "ceremony" => Machine!ReplayReproduces

\* Each credential reports what became of its own ballot: included, omitted
\* by the proposal, never cast, or, at the equivocator's fork, late.
StatusesAsPlanned == subject = "ceremony" => Machine!StatusesAsPlanned

\* A result is of exactly the scenario's voters, who meet the minimum
\* turnout; the empty and the invalid-only cases have none.
OutcomeAsPlanned == subject = "ceremony" => Machine!OutcomeAsPlanned

\* The corrupt participants withhold their votes, so the certificate of the
\* result case needs every honest one, the omitted voter's included.
CertificateNeedsHonest ==
    subject = "ceremony" => Machine!CertificateNeedsHonest

\* No unwrap or assertion of the driver fails, for any roster size: every
\* scheduled delivery is accepted, every probe refused, and at most f
\* departures beside the withholding corrupt participants leave enough
\* release shares.
NeverPanics == subject = "ceremony" => Machine!NeverPanics

\* A target the check evaluates accepts the valid authors of the usable
\* slots, whatever else the directory holds.
TargetSound == subject = "public check" => Check!TargetSound

\* The report accounts for the certificate: a file is reported as missing or as
\* invalid or its vote is in the certificate, whatever name it is filed under; no
\* vote is taken after the first q, and the shares partition the positions read.
ReportsAccount == subject = "public check" => Check!ReportsAccount

\* The outcome as a function of the directory alone: what the target depends on
\* refuses, too few votes or shares block, and the rest never matters, neither
\* the names votes are filed under nor lines of the index that nothing needs.
OutcomeExact == subject = "public check" => Check!OutcomeExact

----
(* What the run checks of each subject.                                     *)

\* Signer and reader agree on a message: what is sent is read, in one spelling,
\* and a signature means one message.
MessagesExact == SentReads /\ OneSpelling /\ SignedMeaning

\* What a commitment opens to is what was committed, in the tree and in the folded
\* words: intact openings are accepted, others are not.
CommitmentsBind ==
    /\ RootIsReference /\ ProofIsReference
    /\ CompleteIsWritten /\ AuthenticatedCommitted
    /\ IntactAccepted /\ ChangedRefused /\ DeviationCaught /\ HeaderBound

\* The layouts that the prover, the verifier and the counts are computed from
\* describe one witness.
LayoutsAgree ==
    /\ UsesPartition /\ EquationsAgree /\ CountsAgree /\ StatementOrder /\ RowsApart /\ SupportsAgree
    /\ RelationDescribes /\ LinkedAgrees /\ BallotAndReleaseAgree /\ BoundsHold

\* A statement stream accepts one statement, whole, and outputs it, with any number
\* of jobs under way.
StatementExact ==
    /\ AcceptsOneStatement /\ WholeIsAccepted /\ OutputIsTheStatement
    /\ ProverPlanAgrees /\ JobsWithinWindow

\* A ceremony with any planned departures, and the check of its public record,
\* come to the verdict that the plan implies.
VerdictsAsPlanned ==
    /\ DepartedSilent /\ ListingsAsPlanned /\ SlotsAsPlanned /\ ReplayReproduces
    /\ StatusesAsPlanned /\ OutcomeAsPlanned /\ CertificateNeedsHonest /\ NeverPanics
    /\ TargetSound /\ ReportsAccount /\ OutcomeExact

====
