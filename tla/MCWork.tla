------------------------------- MODULE MCWork -------------------------------
(***************************************************************************)
(* Small instances of the evaluation and of the work beside it: the        *)
(* barrier, the classification of ballots, keyed work, the ranking engine  *)
(* and its program, target sessions and their completion; the parallel     *)
(* helpers, hash streams, the storage transaction, the discovery of offers *)
(* and their publication.                                                  *)
(*                                                                         *)
(* The components do not share state in these runs: a behaviour is of one  *)
(* subject. The barrier, the target session, its completion and the        *)
(* storage transaction have their variables; the others are instantiated   *)
(* over the cells, which are theirs in turn. A component whose liveness is *)
(* checked has an instance of its own for that, smaller or with a host     *)
(* that serves it.                                                         *)
(***************************************************************************)
EXTENDS StateTransaction, Barrier, TargetSession, Completion, Integers, SequencesExt, FiniteSetsExt, TLC

CONSTANTS
    Subjects,   \* the components this run is about
    s1, s2

\* The barrier: signed envelopes of two authors and two that nobody signed,
\* responses that list them and proposals that name the responses.
EnvelopeOf(a, i, t, s) == [author |-> a, id |-> i, time |-> t, signed |-> s]
A1 == EnvelopeOf(1, 1, 0, TRUE)
A2 == EnvelopeOf(1, 2, 1, TRUE)
B1 == EnvelopeOf(2, 1, 1, TRUE)
B2 == EnvelopeOf(2, 2, 2, TRUE)
F3 == EnvelopeOf(3, 1, 1, FALSE)
G3 == EnvelopeOf(3, 2, 1, FALSE)
ResponseOf(p, l) == [responder |-> p, intent |-> 1, listed |-> l, signed |-> TRUE]
R1 == ResponseOf(1, {A1})
R2 == ResponseOf(2, {A1, B1})
R2b == ResponseOf(2, {A2})
R3 == ResponseOf(3, {B2})
R3b == ResponseOf(3, {F3, G3})
R3c == ResponseOf(3, {A1})
ProposalOf(c, s) == [intent |-> 1, chosen |-> c, signed |-> s]
SomeEnvelopes == {A1, A2, B1, B2, F3, G3}
SomeResponses == {R1, R2, R2b, R3, R3b, R3c}
SomeProposals ==
    {ProposalOf({R1, R2}, TRUE), ProposalOf({R1, R2b}, TRUE), ProposalOf({R1, R3b}, TRUE),
     ProposalOf({R1, R2}, FALSE), ProposalOf({R2, R3c}, TRUE)}

\* Ballots to classify: one that is valid, one of another setup, one whose proof
\* fails, one without its header and one that is short.
Body(s, h, p, v) == [setup |-> s, header |-> h, proof |-> p, length |-> 7, valid |-> v]
SomeBodies ==
    {Body(1, TRUE, 2, TRUE), Body(2, TRUE, 2, TRUE), Body(1, TRUE, 2, FALSE),
     Body(1, FALSE, 2, FALSE), Body(1, TRUE, 1, TRUE)}

\* Ranking programs: with 0 for an input, 1 for a sum, 2 for a product, 3 for a
\* scaling, 4 for a mask, 5 for an offset and 6 for a rotation.
Input(p) == [op |-> 0, inputs |-> <<None, None>>, parameter |-> p]
Binary(op, a, b) == [op |-> op, inputs |-> <<a, b>>, parameter |-> 0]
Unary(op, a, p) == [op |-> op, inputs |-> <<a, None>>, parameter |-> p]
Long ==
    <<Input(0), Input(1), Binary(2, 1, 2), Unary(6, 3, 0), Binary(1, 4, 1), Unary(3, 2, 1),
      Binary(2, 5, 6), Binary(1, 7, 3), Binary(1, 8, 1), Binary(1, 9, 2)>>
Ranks == <<Input(1), Input(0), Binary(1, 1, 2), Unary(4, 3, 3), Unary(5, 4, 3), Unary(5, 5, 5)>>
Mixed == <<Input(1), Input(0), Binary(1, 1, 2), Unary(4, 3, 3), Unary(5, 4, 2)>>
Unused == <<Input(0), Input(1), Unary(4, 1, 0), Unary(6, 3, 0)>>
Later(k) ==
    {Binary(op, a, b) : op \in {1, 2}, a, b \in 1..k - 1}
    \cup {Unary(op, a, 0) : op \in {6, 4}, a \in 1..k - 1}
Short == {<<Input(0), Input(1), c, d>> : c \in Later(3), d \in Later(4)}
\* One instruction more than the bound, and factors outside the comparison degree.
Longer == Append(Long, Binary(1, 10, 10))
Scaled == {<<Input(0), Input(1), Binary(1, 1, 2), Unary(3, 3, f)>> : f \in {0, 4, 5, 7}}
SomePrograms == {Long, Longer, Ranks, Mixed, Unused} \cup Short \cup Scaled
Allowed == [op \in 0..6 |-> IF op = 2 THEN 3 ELSE 4]
\* No rotation fits, so the engine refuses one after it switched its cache.
Tight == [Allowed EXCEPT ![6] = 1]
KeyCounts == [cache \in {2, 6} |-> IF cache = 2 THEN 2 ELSE 1]
PollOf(n, m, s, a) == [participants |-> n, options |-> m, maximum |-> s, slots |-> a]

\* Target sessions: ballots of two authors, two with one body, and barriers of
\* two setups over them.
Ballot(a, body, v) == [author |-> a, body |-> body, valid |-> v]
X1 == Ballot(1, "x", TRUE)
X2 == Ballot(2, "x", FALSE)
Y2 == Ballot(2, "y", TRUE)
SetupSlots(s, x, y) == [setup |-> s, slots |-> <<x, y>>]
SomeBarriers ==
    {SetupSlots(s1, X1, X2), SetupSlots(s1, Conflicting, Y2),
     SetupSlots(s1, Absent, X2), SetupSlots(s2, X1, Y2)}
TargetProgram ==
    <<[input |-> 1, keys |-> <<>>, stores |-> {}],
      [input |-> 2, keys |-> <<>>, stores |-> {}],
      [input |-> Nil, keys |-> <<"common", "aggregate">>, stores |-> {1}]>>
ForeignCopies ==
    {[setup |-> s1, barrier |-> SetupSlots(s1, Absent, X2), codes |-> <<2, 2>>, result |-> Nil]}

\* The completion of a target with a ciphertext, of one without and of one whose
\* ciphertext decrypts to no ranking: votes and share envelopes, some for another target, of another position or with the
\* body of another one.
TargetOf(i, c, d) == [id |-> i, ciphertext |-> c, decodes |-> d]
Decodable == {TargetOf("t", TRUE, TRUE), TargetOf("n", FALSE, FALSE)}
SomeTargets == Decodable \cup {TargetOf("u", TRUE, FALSE)}
Vote(t, p, s) == [target |-> t, position |-> p, signer |-> s]
SomeVotes ==
    {Vote("t", 1, 1), Vote("t", 2, 2), Vote("t", 3, 3), Vote("n", 3, 3), Vote("n", 2, 2),
     Vote("n", 1, 1), Vote("t", 2, 3), Vote("u", 1, 1),
     Vote("u", 2, 2), Vote("u", 3, 3)}
PieceOf(t, p, copy) == [target |-> t, position |-> p, copy |-> copy]
BodyOf(t, p) == <<PieceOf(t, p, 0), PieceOf(t, p, 1), PieceOf(t, p, 1)>>
ShareOf(t, p, b, s) == [target |-> t, position |-> p, body |-> BodyOf(t, b), signer |-> s]
Piece(p, copy) == PieceOf("t", p, copy)
Share(p, b, s) == ShareOf("t", p, b, s)
SomeShares ==
    {Share(1, 1, 1), Share(2, 2, 2), Share(3, 3, 3), Share(3, 1, 3), Share(2, 3, 3),
     ShareOf("u", 1, 1, 1), ShareOf("u", 2, 2, 2)}
SomePartials == {Piece(1, 0), Piece(2, 0), PieceOf("u", 1, 0), PieceOf("u", 2, 0), Undecodable}
SomePieces == {Piece(1, 1), Piece(1, 2), Piece(2, 1), PieceOf("u", 1, 1), PieceOf("u", 2, 1)}
SomeSetups == {s1, s2}
SomeBallots == {X1, X2, Y2}

\* Helper jobs: the shard and what a job has of its own bytes, a shared input, a
\* streamed input and an output.
Shape(shard, parts) ==
    [shard |-> shard, bytes |-> "bytes" \in parts, shared |-> "shared" \in parts,
     streamed |-> "streamed" \in parts, output |-> "output" \in parts]
PinnedJobs == {Shape(0, {"bytes", "output"}), Shape(1, {"bytes", "output"})}
SharedJobs == {Shape(0, {"bytes", "output"}), Shape(1, {"shared", "streamed", "output"})}
StreamedJobs == {Shape(1, {"streamed", "output"})}
FreeJobs == {Shape(0, {"output"})}

\* Candidates of a publication: the file's own chunks, swapped ones, and a
\* candidate one of whose chunks is not stored.
Candidates == {<<1, 2, 3>>, <<2, 1, 3>>, <<1, 2, 9>>}

VARIABLES subject, c1, c2, c3, c4, c5, c6, c7, c8, c9, c10, c11, c12, c13,
    c14, c15, c16

cells == <<c1, c2, c3, c4, c5, c6, c7, c8, c9, c10, c11, c12, c13, c14, c15,
            c16>>
ownVars == <<barrierVars, transactionVars, targetVars, completionVars>>
runVars == <<subject, cells, ownVars>>

\* A component uses the first cells; the others are empty and stay so.
Empty(n) ==
    /\ IF n < 1 THEN c1 = None ELSE TRUE
    /\ IF n < 2 THEN c2 = None ELSE TRUE
    /\ IF n < 3 THEN c3 = None ELSE TRUE
    /\ IF n < 4 THEN c4 = None ELSE TRUE
    /\ IF n < 5 THEN c5 = None ELSE TRUE
    /\ IF n < 6 THEN c6 = None ELSE TRUE
    /\ IF n < 7 THEN c7 = None ELSE TRUE
    /\ IF n < 8 THEN c8 = None ELSE TRUE
    /\ IF n < 9 THEN c9 = None ELSE TRUE
    /\ IF n < 10 THEN c10 = None ELSE TRUE
    /\ IF n < 11 THEN c11 = None ELSE TRUE
    /\ IF n < 12 THEN c12 = None ELSE TRUE
    /\ IF n < 13 THEN c13 = None ELSE TRUE
    /\ IF n < 14 THEN c14 = None ELSE TRUE
    /\ IF n < 15 THEN c15 = None ELSE TRUE
    /\ IF n < 16 THEN c16 = None ELSE TRUE

StayEmpty(n) ==
    /\ IF n < 1 THEN c1 = None ELSE TRUE
    /\ IF n < 2 THEN c2 = None ELSE TRUE
    /\ IF n < 3 THEN c3 = None ELSE TRUE
    /\ IF n < 4 THEN c4 = None ELSE TRUE
    /\ IF n < 5 THEN c5 = None ELSE TRUE
    /\ IF n < 6 THEN UNCHANGED c6 ELSE TRUE
    /\ IF n < 7 THEN UNCHANGED c7 ELSE TRUE
    /\ IF n < 8 THEN UNCHANGED c8 ELSE TRUE
    /\ IF n < 9 THEN UNCHANGED c9 ELSE TRUE
    /\ IF n < 10 THEN UNCHANGED c10 ELSE TRUE
    /\ IF n < 11 THEN UNCHANGED c11 ELSE TRUE
    /\ IF n < 12 THEN UNCHANGED c12 ELSE TRUE
    /\ IF n < 13 THEN UNCHANGED c13 ELSE TRUE
    /\ IF n < 14 THEN UNCHANGED c14 ELSE TRUE
    /\ IF n < 15 THEN UNCHANGED c15 ELSE TRUE
    /\ IF n < 16 THEN UNCHANGED c16 ELSE TRUE

Verdicts == INSTANCE Classification WITH
    Setups <- {1, 2}, Envelopes <- SomeBodies, Lengths <- <<1, 2, 1, 1>>,
    KeyUnits <- 2, ChunkLimit <- 3, classifier <- c1, classification <- c2,
    inputs <- c3, begun <- c4, verdicts <- c5

Keyed == INSTANCE KeyedWork WITH
    Helpers <- 2, Primes <- 2, GadgetLength <- 1, ReadAhead <- 3,
    MaxWorks <- 2, phase <- c1, kind <- c2, plan <- c3, works <- c4,
    session <- c5, stage <- c6, requested <- c7, delivered <- c8,
    shared <- c9, running <- c10, sums <- c11, kept <- c12, queue <- c13,
    store <- c14, ticket <- c15, fault <- c16

\* More primes than helpers: one batch follows another.
Batched == INSTANCE KeyedWork WITH
    Helpers <- 1, Primes <- 2, GadgetLength <- 1, ReadAhead <- 3,
    MaxWorks <- 2, phase <- c1, kind <- c2, plan <- c3, works <- c4,
    session <- c5, stage <- c6, requested <- c7, delivered <- c8,
    shared <- c9, running <- c10, sums <- c11, kept <- c12, queue <- c13,
    store <- c14, ticket <- c15, fault <- c16

ServedKeyed == INSTANCE KeyedWork WITH
    Helpers <- 2, Primes <- 2, GadgetLength <- 2, ReadAhead <- 3,
    MaxWorks <- 2, phase <- c1, kind <- c2, plan <- c3, works <- c4,
    session <- c5, stage <- c6, requested <- c7, delivered <- c8,
    shared <- c9, running <- c10, sums <- c11, kept <- c12, queue <- c13,
    store <- c14, ticket <- c15, fault <- c16

Engine == INSTANCE RankingEngine WITH
    Participants <- 2, Options <- 2, MAXIMUM_SCORE <- 2, MAXIMUM_INSTRUCTIONS <- 10,
    Programs <- SomePrograms,
    Capacity <- Allowed, KeyTotal <- KeyCounts, program <- c1, step <- c2,
    values <- c3, stored <- c4, uses <- c5, cache <- c6, records <- c7,
    pending <- c8, work <- c9, input <- c10, read <- c11, peak <- c12

TightEngine == INSTANCE RankingEngine WITH
    Participants <- 2, Options <- 2, MAXIMUM_SCORE <- 2, MAXIMUM_INSTRUCTIONS <- 10,
    Programs <- {Long, Unused}, Capacity <- Tight, KeyTotal <- KeyCounts,
    program <- c1, step <- c2, values <- c3, stored <- c4, uses <- c5, cache <- c6,
    records <- c7, pending <- c8, work <- c9, input <- c10, read <- c11, peak <- c12

ServedEngine == INSTANCE RankingEngine WITH
    Participants <- 2, Options <- 2, MAXIMUM_SCORE <- 2, MAXIMUM_INSTRUCTIONS <- 10,
    Programs <- {Long, Ranks, Unused},
    Capacity <- Allowed, KeyTotal <- KeyCounts, program <- c1, step <- c2,
    values <- c3, stored <- c4, uses <- c5, cache <- c6, records <- c7,
    pending <- c8, work <- c9, input <- c10, read <- c11, peak <- c12

Ranking == INSTANCE RankingProgram WITH
    PLAINTEXT_MODULUS <- 12289, COMPARISON_BLOCK_WIDTH <- 4,
    Profiles <- {PollOf(3, 2, 3, 4), PollOf(2, 3, 2, 16)}, profile <- c1,
    top_count <- c2, ballots <- c3, step <- c4, values <- c5, engine <- c6

ServedCompletion == INSTANCE Completion WITH
    Holders <- 3, Targets <- Decodable, VotePackets <- SomeVotes,
    OperandParts <- 1, MaxFaults <- 3, Unset <- None,
    EnvelopePackets <- {Share(1, 1, 1), Share(2, 2, 2), Share(2, 1, 2)},
    Partials <- {Piece(1, 0), Piece(2, 0)},
    ProofPieces <- {Piece(1, 1), Piece(2, 1)}, target <- c1, votes <- c2,
    certificate <- c3, operand <- c4, context <- c5, authentication <- c6,
    shareBody <- c7, releases <- c8, terminal <- c9, faults <- c10

\* Two helpers and none, with jobs for any helper and jobs of a shard.
Pinned == INSTANCE ParallelHelpers WITH
    InitialArena <- 1, SoftArena <- 2, MaximumArena <- 3, ArenaGrowth <- 1,
    MaximumTickets <- 2, Counts <- {0, 2}, Shapes <- PinnedJobs,
    MaxShares <- 0, MaxJobs <- 2, EndAfter <- 2, MaxFailures <- 0,
    helpers <- c1, main <- c2, jobs <- c3, taken <- c4, host <- c5,
    arena <- c6, slots <- c7, queues <- c8, woken <- c9, copied <- c10,
    writing <- c11, stop <- c12, helper <- c13, kept <- c14, failures <- c15

\* One helper, whose jobs may trap or fail, and jobs that read a shared input.
Reused == INSTANCE ParallelHelpers WITH
    InitialArena <- 1, SoftArena <- 2, MaximumArena <- 3, ArenaGrowth <- 1,
    MaximumTickets <- 2, Counts <- {1}, Shapes <- SharedJobs, MaxShares <- 1,
    MaxJobs <- 2, EndAfter <- 2, MaxFailures <- 1, helpers <- c1, main <- c2,
    jobs <- c3, taken <- c4, host <- c5, arena <- c6, slots <- c7,
    queues <- c8, woken <- c9, copied <- c10, writing <- c11, stop <- c12,
    helper <- c13, kept <- c14, failures <- c15

OneHelper == INSTANCE ParallelHelpers WITH
    InitialArena <- 1, SoftArena <- 2, MaximumArena <- 3, ArenaGrowth <- 1,
    MaximumTickets <- 2, Counts <- {1}, Shapes <- StreamedJobs,
    MaxShares <- 1, MaxJobs <- 2, EndAfter <- 2, MaxFailures <- 0,
    helpers <- c1, main <- c2, jobs <- c3, taken <- c4, host <- c5,
    arena <- c6, slots <- c7, queues <- c8, woken <- c9, copied <- c10,
    writing <- c11, stop <- c12, helper <- c13, kept <- c14, failures <- c15

TwoHelpers == INSTANCE ParallelHelpers WITH
    InitialArena <- 1, SoftArena <- 2, MaximumArena <- 3, ArenaGrowth <- 1,
    MaximumTickets <- 2, Counts <- {2}, Shapes <- FreeJobs, MaxShares <- 0,
    MaxJobs <- 1, EndAfter <- 1, MaxFailures <- 0, helpers <- c1, main <- c2,
    jobs <- c3, taken <- c4, host <- c5, arena <- c6, slots <- c7,
    queues <- c8, woken <- c9, copied <- c10, writing <- c11, stop <- c12,
    helper <- c13, kept <- c14, failures <- c15

Hash == INSTANCE HashStream WITH
    Helpers <- 2, BATCH_BYTES <- 2, WINDOW <- 1, SEND_BYTES <- 2,
    Streams <- {s1, s2}, Updates <- {1, 4}, MaxBytes <- 5, MaxJobs <- 0,
    streams <- c1, rest <- c2, pipeline <- c3, calling <- c4, sessions <- c5,
    turn <- c6, queues <- c7, slots <- c8, sponges <- c9, trapped <- c10

SmallHash == INSTANCE HashStream WITH
    Helpers <- 2, BATCH_BYTES <- 2, WINDOW <- 1, SEND_BYTES <- 3,
    Streams <- {s1}, Updates <- {1, 2}, MaxBytes <- 3, MaxJobs <- 3,
    streams <- c1, rest <- c2, pipeline <- c3, calling <- c4, sessions <- c5,
    turn <- c6, queues <- c7, slots <- c8, sponges <- c9, trapped <- c10

Discovery == INSTANCE OfferDiscovery WITH
    Authors <- 3, Needed <- 2, PageEntries <- 1, MaxList <- 2,
    MaxFaults <- 1, Budgets <- {1}, HonestRelay <- TRUE, list <- c1,
    offers <- c2, saved <- c3, op <- c4, faults <- c5, failed <- c6,
    promised <- c7

SmallDiscovery == INSTANCE OfferDiscovery WITH
    Authors <- 2, Needed <- 2, PageEntries <- 1, MaxList <- 2,
    MaxFaults <- 1, Budgets <- {1}, HonestRelay <- TRUE, list <- c1,
    offers <- c2, saved <- c3, op <- c4, faults <- c5, failed <- c6,
    promised <- c7

\* A relay whose pages are not those of the stored lists.
HostileDiscovery == INSTANCE OfferDiscovery WITH
    Authors <- 2, Needed <- 2, PageEntries <- 2, MaxList <- 3,
    MaxFaults <- 1, Budgets <- {2}, HonestRelay <- FALSE, list <- c1,
    offers <- c2, saved <- c3, op <- c4, faults <- c5, failed <- c6,
    promised <- c7

Publish == INSTANCE Publication WITH
    Length <- 5, Chunk <- 2, MaxFaults <- 2, MaxStore <- 11,
    Hints <- Candidates, store <- c1, hints <- c2, posted <- c3, stage <- c4,
    hint <- c5, received <- c6, buffer <- c7, sending <- c8, sent <- c9,
    out <- c10, faults <- c11, authority <- c12, late <- c13

SmallPublish == INSTANCE Publication WITH
    Length <- 3, Chunk <- 2, MaxFaults <- 1, MaxStore <- 7,
    Hints <- {<<1, 2>>, <<1, 5>>}, store <- c1, hints <- c2, posted <- c3,
    stage <- c4, hint <- c5, received <- c6, buffer <- c7, sending <- c8,
    sent <- c9, out <- c10, faults <- c11, authority <- c12, late <- c13

ASSUME RunAssumption ==
    /\ Verdicts!ClassificationAssumption
    /\ Keyed!KeyedAssumption
    /\ Batched!KeyedAssumption
    /\ ServedKeyed!KeyedAssumption
    /\ Engine!EngineAssumption
    /\ Pinned!ArenaAssumption
    /\ Reused!ArenaAssumption
    /\ OneHelper!ArenaAssumption
    /\ TwoHelpers!ArenaAssumption
    /\ Hash!StreamAssumption
    /\ SmallHash!StreamAssumption
    /\ Discovery!DiscoveryAssumption
    /\ SmallDiscovery!DiscoveryAssumption
    /\ HostileDiscovery!DiscoveryAssumption
    /\ Publish!PublicationAssumption
    /\ SmallPublish!PublicationAssumption

\* The transaction is opened in every behaviour, and goes on in its own.
RunInit ==
    /\ subject \in Subjects
    /\ BarrierInit /\ TransactionInit /\ TargetInit /\ CompletionInit
    /\ subject # "transaction" => validator = "running"
    /\ subject # "target" => setup = s1
    /\ \/ subject = "barrier" /\ Empty(0)
       \/ subject = "classification" /\ Verdicts!Init /\ Empty(5)
       \/ subject = "keyed work" /\ Keyed!Init /\ Empty(16)
       \/ subject = "batched work" /\ Batched!Init /\ Empty(16)
       \/ subject = "served work" /\ ServedKeyed!Init /\ Empty(16)
       \/ subject = "engine" /\ Engine!Init /\ Empty(12)
       \/ subject = "tight engine" /\ TightEngine!Init /\ Empty(12)
       \/ subject = "served engine" /\ ServedEngine!Init /\ Empty(12)
       \/ subject = "program" /\ Ranking!Init /\ Empty(6)
       \/ subject = "target" /\ Empty(0)
       \/ subject = "completion" /\ Empty(0)
       \/ subject = "served completion" /\ ServedCompletion!CompletionInit /\ Empty(10)
       \/ subject = "pinned jobs" /\ Pinned!Init /\ Empty(15)
       \/ subject = "reused ranges" /\ Reused!Init /\ Empty(15)
       \/ subject = "one helper" /\ OneHelper!Init /\ Empty(15)
       \/ subject = "two helpers" /\ TwoHelpers!Init /\ Empty(15)
       \/ subject = "hash" /\ Hash!Init /\ Empty(10)
       \/ subject = "small hash" /\ SmallHash!Init /\ Empty(10)
       \/ subject = "transaction" /\ Empty(0)
       \/ subject = "discovery" /\ Discovery!Init /\ Empty(7)
       \/ subject = "small discovery" /\ SmallDiscovery!Init /\ Empty(7)
       \/ subject = "hostile discovery" /\ HostileDiscovery!Init /\ Empty(7)
       \/ subject = "publication" /\ Publish!Init /\ Empty(13)
       \/ subject = "small publication" /\ SmallPublish!Init /\ Empty(13)

\* The components that may stop: a finished one, or one that its bounds end.
MayStop == {"keyed work", "batched work", "engine", "tight engine", "program", "target", "completion",
            "hash", "transaction", "discovery", "publication", "served work",
            "served engine", "served completion", "one helper",
            "two helpers", "small hash", "small discovery",
            "hostile discovery", "small publication"}

RunNext ==
    /\ UNCHANGED subject
    /\ \/ subject = "barrier" /\ BarrierNext
            /\ UNCHANGED <<cells, transactionVars, targetVars, completionVars>>
       \/ subject = "classification" /\ Verdicts!Next /\ StayEmpty(5) /\ UNCHANGED ownVars
       \/ subject = "keyed work" /\ Keyed!Next /\ StayEmpty(16) /\ UNCHANGED ownVars
       \/ subject = "batched work" /\ Batched!Next /\ StayEmpty(16) /\ UNCHANGED ownVars
       \/ subject = "served work" /\ ServedKeyed!ServedNext /\ StayEmpty(16) /\ UNCHANGED ownVars
       \/ subject = "engine" /\ Engine!Next /\ StayEmpty(12) /\ UNCHANGED ownVars
       \/ subject = "tight engine" /\ TightEngine!Next /\ StayEmpty(12) /\ UNCHANGED ownVars
       \/ subject = "served engine" /\ ServedEngine!ServedNext /\ StayEmpty(12) /\ UNCHANGED ownVars
       \/ subject = "program" /\ Ranking!Next /\ StayEmpty(6) /\ UNCHANGED ownVars
       \/ subject = "target" /\ TargetNext
            /\ UNCHANGED <<cells, barrierVars, transactionVars, completionVars>>
       \/ subject = "completion" /\ CompletionNext
            /\ UNCHANGED <<cells, barrierVars, transactionVars, targetVars>>
       \/ subject = "served completion" /\ ServedCompletion!CompletionNext /\ StayEmpty(10) /\ UNCHANGED ownVars
       \/ subject = "pinned jobs" /\ Pinned!Next /\ StayEmpty(15) /\ UNCHANGED ownVars
       \/ subject = "reused ranges" /\ Reused!Next /\ StayEmpty(15) /\ UNCHANGED ownVars
       \/ subject = "one helper" /\ OneHelper!Next /\ StayEmpty(15) /\ UNCHANGED ownVars
       \/ subject = "two helpers" /\ TwoHelpers!Next /\ StayEmpty(15) /\ UNCHANGED ownVars
       \/ subject = "hash" /\ Hash!Next /\ StayEmpty(10) /\ UNCHANGED ownVars
       \/ subject = "small hash" /\ SmallHash!Next /\ StayEmpty(10) /\ UNCHANGED ownVars
       \/ subject = "transaction" /\ TransactionNext
            /\ UNCHANGED <<cells, barrierVars, targetVars, completionVars>>
       \/ subject = "discovery" /\ Discovery!Next /\ StayEmpty(7) /\ UNCHANGED ownVars
       \/ subject = "small discovery" /\ SmallDiscovery!Next /\ StayEmpty(7) /\ UNCHANGED ownVars
       \/ subject = "hostile discovery" /\ HostileDiscovery!Next /\ StayEmpty(7) /\ UNCHANGED ownVars
       \/ subject = "publication" /\ Publish!Next /\ StayEmpty(13) /\ UNCHANGED ownVars
       \/ subject = "small publication" /\ SmallPublish!Next /\ StayEmpty(13) /\ UNCHANGED ownVars
       \/ subject \in MayStop /\ UNCHANGED <<cells, ownVars>>

RunSpec == RunInit /\ [][RunNext]_runVars

workVars == ServedKeyed!vars
engineVars == ServedEngine!vars
servedVars == ServedCompletion!completionVars
helperVars == OneHelper!vars
hashVars == SmallHash!vars
discoveryVars == SmallDiscovery!vars
publicationVars == SmallPublish!vars

\* A host that goes on serving right records, and helpers that run; an engine whose
\* storage is mostly right; and a host with enough votes and shares, whose faults
\* are bounded.
EvaluationFairness ==
    /\ WF_workVars(subject = "served work" /\ ServedKeyed!TensorStep)
    /\ WF_workVars(subject = "served work" /\ ServedKeyed!TensorDone)
    /\ WF_workVars(subject = "served work" /\ ServedKeyed!advance)
    /\ WF_workVars(subject = "served work" /\ ServedKeyed!deliver_record(TRUE))
    /\ \A h \in 0..1 : WF_workVars(subject = "served work" /\ ServedKeyed!run(h))
    /\ WF_engineVars(subject = "served engine" /\ ServedEngine!requirements)
    /\ WF_engineVars(subject = "served engine" /\ ServedEngine!load_key)
    /\ WF_engineVars(subject = "served engine" /\ ServedEngine!take_record)
    /\ WF_engineVars(subject = "served engine" /\ ServedEngine!load_input)
    /\ WF_engineVars(subject = "served engine" /\ ServedEngine!execute)
    /\ WF_engineVars(subject = "served engine" /\ ServedEngine!finish_work)
    /\ WF_engineVars(subject = "served engine" /\ ServedEngine!finish_read)
    /\ SF_engineVars(subject = "served engine" /\ ServedEngine!ServeAny)
    /\ WF_servedVars(subject = "served completion" /\ ServedCompletion!NextTarget)
    /\ WF_servedVars(subject = "served completion" /\ ServedCompletion!BeginVotes)
    /\ \A p \in 1..3 :
         WF_servedVars(subject = "served completion" /\ ServedCompletion!NextVote(p))
    /\ WF_servedVars(subject = "served completion" /\ ServedCompletion!Certify)
    /\ WF_servedVars(subject = "served completion" /\ ServedCompletion!NextBegin)
    /\ WF_servedVars(subject = "served completion" /\ ServedCompletion!NextOperand)
    /\ WF_servedVars(subject = "served completion" /\ ServedCompletion!NextEnvelope)
    /\ WF_servedVars(subject = "served completion" /\ ServedCompletion!NextShare)
    /\ WF_servedVars(subject = "served completion" /\ ServedCompletion!NextPiece)
    /\ WF_servedVars(subject = "served completion" /\ ServedCompletion!Result)

\* The worker goes on with a call and stops a failed operation, and a helper goes on
\* with its loop, under the arena's rings and under hash streams; the event loop runs
\* what is due, and the browser answers requests and fires the timer, although the
\* validator may never end; a relay's waits end within the operation's budget, the
\* organizer starts discovery again and a participant its publication.
WorkFairness ==
    /\ WF_helperVars(subject = "one helper" /\ OneHelper!CallStep)
    /\ WF_helperVars(subject = "one helper" /\ OneHelper!StopFailed)
    /\ WF_helperVars(subject = "one helper" /\ OneHelper!HelperRuns(1))
    /\ WF_helperVars(subject = "two helpers" /\ TwoHelpers!CallStep)
    /\ WF_helperVars(subject = "two helpers" /\ TwoHelpers!StopFailed)
    /\ \A h \in 1..2 : WF_helperVars(subject = "two helpers" /\ TwoHelpers!HelperRuns(h))
    /\ \A h \in 0..1 : WF_hashVars(subject = "small hash" /\ SmallHash!Run(h))
    /\ WF_hashVars(subject = "small hash" /\ SmallHash!SendPart)
    /\ WF_hashVars(subject = "small hash" /\ SmallHash!KeepPart)
    /\ WF_hashVars(subject = "small hash" /\ SmallHash!UpdateReturns)
    /\ WF_hashVars(subject = "small hash" /\ SmallHash!PipelineTake)
    /\ WF_hashVars(subject = "small hash" /\ SmallHash!Waited(s1))
    /\ WF_transactionVars(subject = "transaction" /\ Callbacks)
    /\ WF_transactionVars(subject = "transaction" /\ Ends)
    /\ WF_transactionVars(subject = "transaction" /\ Deadline)
    /\ WF_discoveryVars(subject = "small discovery" /\ SmallDiscovery!OperationStep)
    /\ WF_discoveryVars(subject = "small discovery" /\ SmallDiscovery!StartAgain)
    /\ WF_discoveryVars(subject = "hostile discovery" /\ HostileDiscovery!OperationStep)
    /\ WF_publicationVars(subject = "small publication" /\ SmallPublish!PublisherStep)

FairRunSpec == RunSpec /\ EvaluationFairness /\ WorkFairness

----

\* The verdict on a ballot is its envelope's alone. Corrupt keys, wrong
\* bytes, odd pieces and steps out of order never make a valid ballot
\* invalid, or an invalid one valid: at worst they yield no classification.
VerdictOfBallot == subject = "classification" => Verdicts!VerdictOfBallot

\* What the instance holds is the classification of the ballot begun last:
\* it cannot be taken for another slot's.
ClassificationOfLastBegun ==
    subject = "classification" => Verdicts!ClassificationOfLastBegun

\* No job meets an assertion: sources and digits are where a job reads
\* them, after products that were refused or given up too.
KernelsServed == subject = "keyed work" => Keyed!KernelsServed

\* A helper holds what its reservation counts: at most three sources for
\* each of its primes or the digits of one prime, never both.
HelperReserved ==
    /\ subject = "keyed work" => Keyed!HelperReserved
    /\ subject = "batched work" => Batched!HelperReserved

\* A finished work stands on right records alone, for every prime and
\* group, whatever the host delivered.
SumsOfRightRecords == subject = "keyed work" => Keyed!SumsOfRightRecords

\* Once its jobs ran, an ended work has left nothing on any helper.
NothingKept == subject = "keyed work" => Keyed!NothingKept

\* What the host reads ahead is what it is asked for next.
ReadAheadRight == [][subject = "keyed work" => Keyed!ReadAheadRight]_runVars

\* Whatever the storage hands back, every value the engine holds, and so
\* the one it ends with, is the value the program defines.
ValuesRight ==
    /\ subject = "engine" => Engine!ValuesRight
    /\ subject = "tight engine" => TightEngine!ValuesRight

\* A value with uses left is never lost: it is resident, or its verified
\* copy is stored. Otherwise the evaluation could not go on.
UsableKept ==
    /\ subject = "engine" => Engine!UsableKept
    /\ subject = "tight engine" => TightEngine!UsableKept

\* An instruction executes within the values its operation allows.
WithinCapacity == [][subject = "engine" => Engine!WithinCapacity]_runVars

\* The memory plan counts no fewer values than the program comes to hold.
WithinPeak == [][subject = "engine" => Engine!WithinPeak]_runVars

\* The outcome of every poll: for every set of accepted ballots the
\* program's result decodes, to the options of highest total in order, ties
\* toward the lower position.
OutcomeRight == subject = "program" => Ranking!OutcomeRight

\* The engine accepts the program of every profile and reads the requested
\* result length back from it, so that both ends use one set of weights.
EngineAccepts == subject = "program" => Ranking!EngineAccepts

\* Once the worker has stopped its helpers the arena holds no byte of the
\* operation, whatever a helper was still computing.
ClearedForGood == subject = "pinned jobs" => Pinned!ClearedForGood

\* No two helpers run one job, and the slot a helper runs is still queued
\* and held by a ticket: the ticket cannot be finished under it.
ClaimedOnce == subject = "pinned jobs" => Pinned!ClaimedOnce

\* Every output the module takes is the one the instance computes alone: no
\* reuse of an arena range, slot or ring entry, no order of claims, no
\* abandoned job and no released share reaches it.
OutputExact ==
    /\ subject = "pinned jobs" => Pinned!OutputExact
    /\ subject = "reused ranges" => Reused!OutputExact

\* Every unit of the arena is free or has exactly one holder, and a shared
\* input is referenced once by the module while it keeps it and once by
\* each part that still reads it, until the operation ends.
AccountExact == subject = "reused ranges" => Reused!AccountExact

\* A stream's digest is the one this instance computes alone, however its
\* bytes are divided and whichever helper holds its sponge.
DigestsAsAlone == subject = "hash" => Hash!DigestsAsAlone

\* No stream has more than the window and one absorption waiting for its
\* helper, whatever is streamed into it.
WindowBounds == subject = "hash" => Hash!WindowBounds

\* The pipeline's outputs are its jobs' in submission order, whichever
\* helpers ran them.
OutputsInOrder == subject = "small hash" => SmallHash!OutputsInOrder

\* Fair across operation cuts and crashes: no author's list is read two
\* entries further than that of an author whose list is not read to its
\* end, whose offer is not collected and whose pages were available.
FairAcrossCuts == subject = "discovery" => Discovery!FairAcrossCuts

\* Each author supplies at most one offer of the collection, over all
\* operations and crashes.
OneOfferPerAuthor == subject = "discovery" => Discovery!OneOfferPerAuthor

\* A refusal missed nothing: with every page available, the authors that
\* had an acceptable offer announced when the scan began are all collected
\* before "too few" is reported, however the scan was cut.
RefusalMissesNothing ==
    subject = "discovery" => Discovery!RefusalMissesNothing

\* Every manifest that reaches the relay, confirmed or not, names exactly
\* the chunks a reader needs to get the file's bytes in order, whatever
\* fragments the source gave and whichever candidates were compared.
ManifestsReadBack == subject = "publication" => Publish!ManifestsReadBack

\* After the retained authority changes at most the transfer under way is
\* sent, succeed or fail: nothing is read or sent after its inspection.
OneTransferAfterLoss ==
    subject = "publication" => Publish!OneTransferAfterLoss

\* A served work ends: every record it asks for is asked for once more only when it
\* was refused, and its jobs come to an end on every helper.
WorkEnds ==
    subject = "served work" /\ ServedKeyed!Working
      ~> subject = "served work" /\ ServedKeyed!Worked

\* A served evaluation ends, although values are spilled and reloaded and a reload
\* may return wrong bytes.
Evaluated == <>(subject = "served engine" => ServedEngine!finished)

\* A host with enough votes and shares reaches the terminal, also after failed
\* streams and refused bodies.
Completed == <>(subject = "served completion" => ServedCompletion!Terminated)

\* A call of the module into the host returns: a waited job ends, and a worker
\* waiting for arena space is woken or fails.
CallsReturn ==
    subject = "one helper" /\ OneHelper!InCall ~> subject = "one helper" /\ OneHelper!Returned

\* Every helper leaves its loop after the stop.
HelpersClose ==
    subject = "one helper" /\ OneHelper!Stopping(1)
      ~> subject = "one helper" /\ OneHelper!HelperClosed(1)

\* A submitted job ends, unless the operation stops first.
JobsEnd ==
    \A s \in 1..2 : subject = "two helpers" /\ TwoHelpers!Queued(s)
      ~> subject = "two helpers" /\ TwoHelpers!Unqueued(s)

\* A waited digest is delivered, or the operation ends with a helper's failure.
WaitsEnd ==
    subject = "small hash" /\ SmallHash!Waiting(s1)
      ~> subject = "small hash" /\ SmallHash!Served(s1)

\* A stream the caller is done with leaves no sponge in a helper that runs.
SpongesForgotten ==
    subject = "small hash" /\ SmallHash!DoneWith(s1)
      ~> subject = "small hash" /\ SmallHash!SpongeGone(s1)

\* The storage call ends, though the validator never does.
CallEnds == <>(subject = "transaction" => CallEnded)

\* Every discovery operation ends, whatever pages the relay answers.
OperationEnds ==
    subject = "hostile discovery" /\ HostileDiscovery!OperationRuns
      ~> subject = "hostile discovery" /\ ~HostileDiscovery!OperationRuns

\* Once enough authors have announced an acceptable offer, the collection completes,
\* although each operation admits a single offer and invalid announcements come
\* before the valid ones.
CollectionCompletes ==
    subject = "small discovery" /\ SmallDiscovery!EnoughHolding
      ~> subject = "small discovery" /\ SmallDiscovery!Collected

\* A participant that keeps its authority publishes its file in spite of lost
\* answers and useless candidates.
PublicationCompletes == <>(subject = "small publication" => SmallPublish!Published)

----
(* What the runs check: what each part keeps through all its steps.         *)

\* The verdict on a ballot is its own, and the encrypted ranking computes what its
\* program says, on records and values that are the right ones however they were
\* delivered, stored and reloaded.
EvaluationRight ==
    /\ VerdictOfBallot /\ ClassificationOfLastBegun
    /\ KernelsServed /\ HelperReserved /\ SumsOfRightRecords /\ NothingKept
    /\ ValuesRight /\ UsableKept /\ OutcomeRight /\ EngineAccepts

\* No step of the evaluation gives up what was accepted, reads another record
\* than the next one or exceeds its memory.
StepsHold ==
    /\ AcceptedStays /\ ReadAheadRight /\ WithinCapacity /\ WithinPeak /\ Irrevocable

\* Work shared with helpers has the outcome of the work done alone: every part
\* claimed once, its output exact, in order and within the window.
SharedWorkExact ==
    /\ ClearedForGood /\ ClaimedOnce /\ OutputExact /\ AccountExact
    /\ DigestsAsAlone /\ WindowBounds /\ OutputsInOrder

\* Through refusals and cuts of the relay discovery misses no author; publication
\* posts only manifests that read back, and once it has lost its authority it sends
\* no more than the transfer under way.
RelayWorkSafe ==
    /\ FairAcrossCuts /\ OneOfferPerAuthor /\ RefusalMissesNothing
    /\ ManifestsReadBack /\ OneTransferAfterLoss

\* Everything that was begun ends: the evaluation, the helpers' jobs and calls,
\* the storage call, the collection of offers and the publication.
WorkProgress ==
    /\ WorkEnds /\ Evaluated /\ Completed
    /\ CallsReturn /\ HelpersClose /\ JobsEnd /\ WaitsEnd /\ SpongesForgotten
    /\ CallEnds /\ OperationEnds /\ CollectionCompletes /\ PublicationCompletes

====
