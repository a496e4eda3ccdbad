# TLA+ models of sealed-lattice

sealed-lattice is a private ranking poll among a fixed roster of `n` participants with no trusted server. Each participant runs in a browser: a TypeScript worker keeps its durable state in IndexedDB and a WebAssembly module, built from Rust crates, verifies, signs and evaluates. Participants exchange signed records through an untrusted relay. At most `f = floor((n - 1) / 3)` participants are corrupt, and they may collude with the relay.

These modules model its protocol and the machinery around it: how a participant comes to hold a credential, how the roster, the setup, the ballots, the close, the target and the result are agreed, how one participant's durable state survives interruption, how the WebAssembly module verifies what an untrusted host streams into it, and how it divides work over helper instances. Paths below are relative to `src/`; `worker/` stands for `packages/sdk/src/participant/worker/` and `crates/` for `crates/protocol-research/`.

## Inventory

| Part | State it keeps | Operations | What makes it correct |
| --- | --- | --- | --- |
| Thresholds and relations, `crates/supported-profile` | none | quorums, polynomial order, widths, `WordRelation` | quorums that intersect in an honest participant; prover and verifier count the same columns |
| Canonical encoding and messages, `crates/protocol-foundations` | none | encode, decode under limits, sign, read | one spelling of a message, no message read as another |
| Enrollment, `worker/stages/enrollment`, `participant-module` | root generations `intent` and `registered`, capsules | create, stage, commit, verify own registration, restore | one credential, whole or not at all, never drawn twice |
| Roster, `protocol-foundations` `roster*.rs`, `registration*.rs` | registrations under verification, accepted roster | stream records to helpers, propose, accept, confirm | only verified registrations are accepted, one roster |
| Contribution, `worker/stages/contribution`, `contribution-session.rs`, `word-proof` | contribution phase, seeds, stored records, checkpoints | generate, checkpoint, resume, prove, sign the offer, retire | an interrupted run is reproduced exactly, one offer |
| Setup, `worker/stages/setup`, `crates/setup-aggregate` | collection cache, preparation, verified setup | discover and verify offers, sum, publish, select, endorse, certify, retain | one certified setup, whose key is the sum of exactly the selected offers |
| Close rules, `crates/evaluation-target/src/close.rs` | none | `honest_listing`, `ready_listing`, `wanted_listing`, `usable_entries`, `select` | a listing never loses an honest ballot that is held; a selection needs only held bodies |
| Ballot, `worker/stages/ballot` | ballot suffix of the root | lock the attempt, draw a seed, retain the body, sign, publish | one attempt and one signature |
| Closing, `worker/stages/close`, `participant-module/src/close-work.rs` | close suffix: the log of accepted inputs, the locked intent, the retained bodies and packets | hold bodies, sign and lock the intent, take responses, respond, propose, publish | bounded omission, protected ballots, replay, bounded custody, completion |
| Evaluation, `crates/encrypted-ranking`, `evaluation-target` | resident values, keyed work, host storage | decode and execute the program, spill, reload, keyed products | the right order of options, from right values only, within memory |
| Target votes, `worker/stages/target-vote`, `finality-work.rs`, `certification.rs` | target suffix | verify the barrier, evaluate, retain the target, vote | one certified target |
| Release and completion, `worker/stages/release`, `completion-session.rs` | release suffix; one instance's votes and shares | certify, lock the target, prove, sign, verify and combine shares | only the certified target's result becomes recoverable, and it is recovered |
| Public verification, `close-session.rs`, `classification-session.rs`, `check-public-completion` | one session each | feed messages and bodies, classify, check a directory | every instance reaches the same verdict |
| Proofs, `crates/word-proof`, `word-verifier`, `statement-stream`, `setup-witness`, `ballot-proof`, `linked-release-proof` | prover and verifier state | commit, open, fold, read statements and openings in chunks | what the prover writes verifies, a change is refused, both sides name the same columns |
| Parallel work, `crates/parallel-work`, `worker/module/parallel-helpers.ts` | shared control words, arena, tickets | submit, wait, abandon, trap, stop; hash streams | no lost job, no reused range, no deadlock |
| Custody, `worker/storage`, `worker/worker.ts`, `custody.rs` | key, root, head, records, stop marker; the credential's purposes | lock, authenticate, commit in one strict transaction, check a rollback, read back, deliver, stop | one frame per one-time key, a root that only advances, final stops |
| Relay, `worker/relay` | candidate lists are public; the discovery record | publish with readback, page, discover offers fairly | a hostile list cannot starve an honest one; every operation ends |
| Native ceremony, `crates/native-ceremony` | a whole ceremony in one process | run every phase for a scenario | its assertions hold for every roster size |

Participants interact only through records on the relay. Inside one participant the page starts a worker for each request; the workers of a namespace exclude each other with a Web Lock, share the database and share nothing else. Within a worker, TypeScript owns the durable state and the module owns memory that is rebuilt from it; the module treats the worker as an untrusted host wherever the bytes are public. The module's helpers share one memory with it and meet only in atomic words.

What is hard here: participants lock the close intent at different moments with different ballots in hand; an organizer may sign several intents, proposals and selections; responses may name bodies that do not exist; workers end anywhere, also between a signature and the commit that retains it; a failed commit may have completed; IndexedDB commits by itself when nothing is asked of it; streams arrive in chunks of any length and jobs end in any order; two implementations (prover and verifier, module and session, memory and log) must not drift apart. `PROJECT.json` lists each hazard at its line with the properties that cover it.

## Modules

Agreement among all participants:

| Module | Models | State and actions |
| --- | --- | --- |
| `ProtocolRules` | thresholds, root generations, the pure rules of closing | operators |
| `Setup` | selection, endorsement and certification by all members | each member's `intent`, `signed`, `done` messages, `retained` setup; a visit may end between any two |
| `Close` | casting and closing | `gen` is the root's generation; `ballot`, `held`, `known`, `lock`, `response`, `taken`, `retained` are the ballot and close suffixes; `proposals` are the organizer's; one action for each committed transition |
| `Finality` | votes, certificate, release, over `Close` | adds `target`, `vote`, `inclusion` |
| `Outcome` | the abstract promise of a poll | `Certify`, `Recover` |

One participant over its visits:

| Module | Models | State and actions |
| --- | --- | --- |
| `Custody` | workers, lock, root, signatures, deliveries | a worker's `pc`, the root it authenticated (`memory`) and the one it commits (`next`) |
| `StateTransaction`, `AtomicCommit` | `commitParticipantState` task by task; what it promises | request queue, heartbeat, timer, the browser's transaction |
| `CloseLog` | the close log against the worker's memory | `root`, `work`, `seen`, `next` |
| `Credential` | the credential's purposes and all private work that signs | purposes, retained messages, imported bodies |
| `Enrollment` | creation and restoration of the credential | `enrollmentRoot`, `retainedRecords`, `staged`, `session`, `own` |
| `Contribution`, `SetupProver` | the contribution over visits; the prover's commands in one instance | phase, seeds, records, checkpoints |
| `OfferDiscovery` | the organizer's resumable discovery over paged lists | readers, round, saved record, budget |
| `Publication` | chunks, readback, manifest under guarded transfers | stage, buffer, locators |

One instance of the module, fed by an untrusted host:

| Module | Models | State and actions |
| --- | --- | --- |
| `Roster` | registration sessions on helpers, proposal, confirmation | records, shards, queues |
| `OfferVerifier`, `OfferAggregator`, `PublishedAggregate`, `SetupSession` | the verification of an offer, the sum through the host, the published sum, the session over all of them | cursors, digests, claims, certificate |
| `Barrier`, `Classification` | the close barrier; a ballot's verdict | messages held, body under way |
| `TargetSession`, `RankingEngine`, `KeyedWork`, `RankingProgram` | the target; execution with bounded memory; keyed products on helpers; what the program computes | values, storage, jobs |
| `Completion` | votes, operands, shares, terminal; a certified target may be one whose result does not decode | session state |
| `PublicCheck` | the public checker over an untrusted directory | what each file is (`files`), whose vote or submission it holds (`holds`), the unsigned `index`; stage, partial aggregates, reports |

Encodings and proofs:

| Module | Models | State and actions |
| --- | --- | --- |
| `Messages` | every signed message over the tuple codec, each read under its own reader's limits | a sample, its cells, the damage |
| `WitnessLayout` | the sizes both sides take and the columns each side counts | columns, equations and supports written so far |
| `StatementStream` | coefficient records, their values and a setup statement read in chunks | bytes read, jobs, accumulated operator |
| `MerkleTree`, `WordVerifier` | salted commitments and multiproofs; folds and queries | tree and records; layers, transcript, stage |

Parallel work: `ParallelHelpers` (the shared queue, each load and store of a control word a step) and `HashStream`; a job may trap its helper or fail without a trap, before or after it left its state. The driver: `Ceremony`, in each of its modes, the one that stops at a committed offer included.

`CloseProofs`, `FinalityProofs`, `CustodyProofs` (also about `Credential`) and `SetupProofs` (about `SetupSession`, `Setup`, `Roster`, `Contribution`, `SetupProver` and `Enrollment`) hold theorems and nothing else; `StateTransaction`, `Barrier`, `TargetSession` and `Completion` end with their own. The `MC` modules hold instances for TLC. `Finality` extends `Close`, which extends `ProtocolRules`. `CloseLog`, `Custody` and `StateTransaction` are three grains below a step of `Close`: memory and log, worker and root, request and task. `Setup` takes the result of `SetupSession` as one step, which takes those of `OfferVerifier`, `OfferAggregator` and `PublishedAggregate`; `TargetSession` takes those of `Barrier`, `Classification` and `RankingEngine`, and the engine those of `KeyedWork`.

How the code is abstracted:

- A step of `Close`, `Setup` and `Finality` is one committed root transition or signature. That a crash between transitions is harmless is what `CloseLog`, `Custody` and `Contribution` check.
- In the agreement modules the relay is absent as a process. Any action may take any record that was published, at any time or never, which includes delay, reordering, repetition and loss. The relay modules have it as a process that may answer anything.
- A corrupt participant is the set of what its signatures allow: the envelopes in `CorruptEnvelopes`, any response that `authenticate_response` accepts, any vote and share; a corrupt organizer any intent, selection and any proposal that `verify_proposal` accepts. Other participants' bytes are unforgeable.
- A hash is its input, a signature its frame and signer, a proof valid or not. The modules in which these are computed (`Messages`, `MerkleTree`, `WordVerifier`, `StatementStream`) keep the structure and shrink the data: a byte is its place, a field a small prime field.
- An envelope of `Close` is its author, its signed time and an identity that orders the envelopes of a slot. A body either verifies against its envelope or is in `Bodiless` or `Invalid`. A target is a function of its proposal, so it is represented by it.
- A frame of `Custody` is what the signed bytes depend on: the operation's choice and the seed. Its transactions complete or abort and may report a failure although they completed, which is the specification `AtomicCommit` that `StateTransaction` implements.
- In the streaming modules the host chooses every call and its bytes; a chunk is right or wrong where the content plays no role.

The map of `PROJECT.json` lists the operations and the larger helpers; a constant or helper whose lines lie within those of the operation that uses it is not listed separately.

## Runs

The agreement runs have one component each: four participants give `f = 1`, `q = 3`, the smallest roster with a corruption budget; `Voters` restricts who casts, `Times` and `CloseTimes` are one or two clock readings, `MaxCollected` bounds the ballots of others that the relay shows, `MaxProposals` the proposals of a corrupt organizer.

`MCCustody`, `MCSetup`, `MCRecords` and `MCWork` check several components that share no state in one run. The variable `subject` names the component that a behaviour is of; a component with theorems has its own variables, which stay as they are in a behaviour of another subject, and its properties are the ones the theorems state; each other component is instantiated over the first of the cells `c1`, `c2`, ..., its properties are restated for its subject and mean what they mean in the component's own module, and `RunAssumption` evaluates its assumptions on the instance. A subject in `MayStop` may come to rest (a host that has no more calls to make, a stream read to its end, a bound used up); for the others TLC also checks that they never deadlock. The agreement runs say `CHECK_DEADLOCK FALSE` because a participant whose close is complete, or whose relay shows nothing, really may stop.

The streaming components take two or three units where the code takes thousands: enough for a first, an inner and a last chunk, for a window that is full and for a job behind another. `MaxFaults`, `MaxVisits`, `MaxWorks`, `MaxJobs` and `MaxFailures` bound how often a fault or a restart happens, so that two faults may meet. `WitnessLayout` runs at the profile table's real sizes. Symmetry is used in safety runs only, over participants that play the same role.

| Run | What it shows | Checks |
| --- | --- | --- |
| `close` (MCClose.cfg) | An honest organizer closes a poll of four in which a corrupt voter signs two conflicting ballots, one with a body nobody can supply: no proposal omits more than f on-time honest ballots, a widely received one is never lost, and no retained response or proposal gets stuck. | `OmissionBounded`, `ProtectedBallots`, `CloseWorkable` |
| `close_custody` (MCCloseCustody.cfg) | A corrupt voter signs three ballots for its slot and the relay shows them to everyone in every order: what a participant retains stays bounded. | `CustodyBounded` |
| `finality_corrupt` (MCFinalityCorrupt.cfg) | A corrupt organizer signs two intents and two proposals: one target is certified at most, only its result can be recovered, it combines two honest ballots, and the whole implements the abstract outcome. | `CertifiedTargetUnique`, `RecoveredResultProtected`, `TargetLockKept`, `ImplementsOutcome` |
| `finality_live` (MCFinalityLive.cfg) | With an honest organizer the close completes and every honest release is signed, although a corrupt voter lists a body nobody can supply; every participant is told the same status of its ballot as the certified target. | `InclusionStatusAgrees`, `PollCompletes` |
| `inclusion_equivocation` (MCInclusion.cfg) | A corrupt organizer that signs two intents makes a participant read "late" for a ballot that the certified close barrier includes. | `InclusionStatusAgrees` |
| `participant` (MCCustody.cfg) | One durable participant through crashes at every point: the custody of its one-shot messages, the log of its close work and the credential that signs; nothing is signed twice, a reopened participant is the one that crashed, and the log stays bounded. | `FramesKept`, `LogFaithful`, `OwnBallotListed`, `SignedAgree`, `CustodyForward` |
| `setup` (MCSetup.cfg) | The setup from enrollment to the retained certificate, each of its sessions with the hosts, relays and crashes it meets, and the whole of it with a corrupt organizer. | `SessionSound`, `OneSetup`, `MembersBound`, `OfferReproduced`, `EnrollmentWhole`, `RosterSound`, `OfferProofs`, `OffersExact`, `SettledForGood` |
| `setup_live` (MCSetupLive.cfg) | The sessions of the setup make progress: an interrupted enrollment, roster or contribution is taken up again, and with an honest organizer everyone retains the setup. | `SetupProgress` |
| `records` (MCRecords.cfg) | The pure algorithms and codecs against their reference definitions over bounded inputs: messages, Merkle trees, word proofs, witness layouts, statement streams, the native ceremony and the public check. | `MessagesExact`, `CommitmentsBind`, `LayoutsAgree`, `StatementExact`, `VerdictsAsPlanned` |
| `evaluation` (MCEvaluation.cfg) | From the close barrier to the result: each session of the evaluation accepts only what the proposal, the ballots, the program and the target make right, in whatever order the host delivers and repeats it. | `BarrierFixed`, `TargetSound`, `EvaluationRight`, `CompletionSound`, `StepsHold` |
| `workers` (MCWork.cfg) | The concurrent work beside the evaluation: helpers that share an arena, hash streams over helpers, the storage transaction against its timer, discovery against the relay, and publication with lost answers. | `SharedWorkExact`, `TransactionSafe`, `RelayWorkSafe`, `TransactionAtomic` |
| `work_live` (MCWorkLive.cfg) | Evaluation and workers come to an end: a served work, engine and completion, waited calls and jobs, hash waits, the storage call, discovery against any relay, and publication. | `WorkProgress` |

Each property has at least one mutant in `PROJECT.json`, a plausible slip in the code that TLC must find; `OffersExact`, `CommitmentsBind`, `LayoutsAgree`, `VerdictsAsPlanned`, `EvaluationRight` and `WorkProgress`, whose parts are of several components, have several.

Where a run's property is a conjunction, its parts are definitions of their own, each with the comment that states it (in the component's module, or restated for its subject in the `MC` module):

| Property | Parts |
| --- | --- |
| `CloseWorkable` | `RetainedResponseSignable`, `ProposalVerifiable`, and the types |
| `PollCompletes` | `CloseCompletes`, `ReleaseCompletes` |
| `FramesKept` | `OneFramePerPurpose`, `PublishedIsRetained`, and the types |
| `CustodyForward` | `RootAdvances`, `StopIsFinal` |
| `LogFaithful` | `NeverStopped`, `ReplayRestores`, `CopiesRetained`, `LogBounded` |
| `SignedAgree` | `OneMessagePerKey`, `MessagesChain`, `OneTarget`, `SignedBodiesVerified`, and the types |
| `SessionSound` | `WorkBelongs`, `InputsVerified`, `VerifiedCertified`, and the types |
| `MembersBound` | `OneMessagePerPurpose`, `CertifiedVerified`, `RetainedAgree`, and the types |
| `OfferReproduced` | `Reproduced`, `ListedStored`, `OneOffer`, `StoreFree`, and the types |
| `EnrollmentWhole` | `RestoredWhole`, `CommittedRestores`, `NeverRerolled`, `UsedStaysUsed`, `RetirementHolds` |
| `RosterSound` | `AcceptedSound`, `ShardsHeld`, `ConfirmedSound` |
| `OfferProofs` | `OraclesHeld`, `StatementConsumed`, `ResumedExported` |
| `OffersExact` | `VerifiedIsAuthentic`, `HonestHostAccepted`, `RecordsAhead`, `PrefixIsSum`, `FaithfulHostSucceeds`, `UncheckedBounded`, `InputsAreSums`, `SealedIsSum`, `ClaimsCountedOnce` |
| `SettledForGood` | `SetupFixed`, `AcceptedFixed`, `RetiredSilent`, `StoppedFinal` |
| `SetupProgress` | `Restored`, `SessionsForgotten`, `OfferCompletes`, `SetupCompletes` |
| `MessagesExact` | `SentReads`, `OneSpelling`, `SignedMeaning` |
| `CommitmentsBind` | `RootIsReference`, `ProofIsReference`, `CompleteIsWritten`, `AuthenticatedCommitted`, `IntactAccepted`, `ChangedRefused`, `DeviationCaught`, `HeaderBound` |
| `LayoutsAgree` | `UsesPartition`, `EquationsAgree`, `CountsAgree`, `StatementOrder`, `RowsApart`, `SupportsAgree`, `RelationDescribes`, `LinkedAgrees`, `BallotAndReleaseAgree`, `BoundsHold` |
| `StatementExact` | `AcceptsOneStatement`, `WholeIsAccepted`, `OutputIsTheStatement`, `ProverPlanAgrees`, `JobsWithinWindow` |
| `VerdictsAsPlanned` | `DepartedSilent`, `ListingsAsPlanned`, `SlotsAsPlanned`, `ReplayReproduces`, `StatusesAsPlanned`, `OutcomeAsPlanned`, `CertificateNeedsHonest`, `NeverPanics`, `TargetSound`, `ReportsAccount`, `OutcomeExact` |
| `BarrierFixed` | `ProposalFixesSlots`, `BarrierStands`, `SessionBounded`, and the types |
| `TargetSound` | `CodesOfSlots`, `ResultOfAccepted`, `TargetOfSetup`, `ResultAtTurnout`, `TargetAlone` |
| `EvaluationRight` | `VerdictOfBallot`, `ClassificationOfLastBegun`, `KernelsServed`, `HelperReserved`, `SumsOfRightRecords`, `NothingKept`, `ValuesRight`, `UsableKept`, `OutcomeRight`, `EngineAccepts` |
| `CompletionSound` | `CertificateBacked`, `SharesSigned`, `ResultReconstructs` |
| `StepsHold` | `AcceptedStays`, `ReadAheadRight`, `WithinCapacity`, `WithinPeak`, `Irrevocable` |
| `SharedWorkExact` | `ClearedForGood`, `ClaimedOnce`, `OutputExact`, `AccountExact`, `DigestsAsAlone`, `WindowBounds`, `OutputsInOrder` |
| `TransactionSafe` | `NeverCommitsEarly`, `WritesFollowValidation`, `EndsWithTheTransaction`, and the types |
| `RelayWorkSafe` | `FairAcrossCuts`, `OneOfferPerAuthor`, `RefusalMissesNothing`, `ManifestsReadBack`, `OneTransferAfterLoss` |
| `TransactionAtomic` | `ImplementsAtomicCommit`, `LateReadsAreReported` |
| `WorkProgress` | `WorkEnds`, `Evaluated`, `Completed`, `CallsReturn`, `HelpersClose`, `JobsEnd`, `WaitsEnd`, `SpongesForgotten`, `CallEnds`, `OperationEnds`, `CollectionCompletes`, `PublicationCompletes` |

What they show:

- `OmissionBounded` and `ProtectedBallots` are the bounded omission of `SECURITY.md:27`. The code's receipt cutoff is the organizer's signed intent; the model's is each participant's own lock, which is no earlier, so the property is the stronger one.
- `CertifiedTargetUnique` and `RecoveredResultProtected` are `SECURITY.md:28` and `:30`: one certified target, a result only from it, at least two honest ballots in it. `ImplementsOutcome` states them as refinement: votes and shares of all participants together behave like one decision. `OneSetup` and `RetainedAgree` (in `MembersBound`) are the same argument one stage earlier.
- `RetainedResponseSignable`, `NeverStopped` and `ReplayRestores` are about the code's own self-checks, whose failure stops a participant for good (`SECURITY.md:31`): close work never trips them by itself. `KernelsServed`, `EngineAccepts` and `NeverPanics` say it of the assertions of the keyed work, the program decoder and the ceremony.
- `OneFramePerPurpose` is the premise of the one-time signatures (`crates/README.md:9`), across interruptions, repeated requests with other inputs and misreported commits (`Custody`); `OneMessagePerKey` says it across every order of calls on the credential, `OneMessagePerPurpose` of the setup's purposes and `OneOffer` of the contribution's.
- `NeverCommitsEarly` and `ImplementsAtomicCommit` close the gap below `Custody`: the heartbeat keeps the transaction alive through every wait outside the database, so that the commit is the atomic one the rest relies on.
- `VerifiedIsAuthentic`, `PrefixIsSum`, `InputsAreSums` and `VerifiedCertified` follow a setup from the bytes of an offer to the certified sum: no host can make a participant accept another one. `HonestHostAccepted` and `FaithfulHostSucceeds` are the converse, without which the others would be easy.
- `ProposalFixesSlots`, `VerdictOfBallot`, `CodesOfSlots` and `ResultReconstructs` say that instances fed in different orders by different hosts agree, which is what makes a certificate meaningful.
- `OutcomeRight` compares the program the code builds, executed slot by slot, with the order by total score for every set of ballots of small profiles.
- `IntactAccepted`, `ChangedRefused` and `DeviationCaught` run prover and verifier of the low-degree argument against each other; `EquationsAgree`, `RowsApart` and `RelationDescribes` compare the three places that count witness columns; `ProverPlanAgrees` the two that read a statement.
- `OutcomeExact` and `ReportsAccount` are about a directory that anyone may have written. A vote's author is read from its packet, so a genuine vote filed under another position counts for its author, once, and the position whose name it has is in no list; the index is signed by nobody, so another index that names what is needed leads to the same verdict. `OutcomeExact` says which verdict the items in the directory imply, wherever they are filed.
- `HeaderBound` says that no item of a proof header can change unnoticed: most are absorbed by the challenges, the public root by the statement's digest. `SupportsAgree` and `RowsApart` say that the verifier and the source-linked plan give every support a power of its own, after those of all equations.
- `DigestsAsAlone` says that work divided over helpers gives what one instance computes alone; `OutputExact`, `AccountExact` and `JobsEnd` are about the queue itself: no wake is lost and no range is reused while it is read.
- `FairAcrossCuts` and `CollectionCompletes` are about the fairness that `offer-discovery.ts` claims, over operations that are cut and crash.
- `LogBounded` is the bound under which `decodeCloseState` reads the log (`worker/module/runtime-bounds.ts:565`), which counts on the lock retiring late bodies.

### Fairness

Weak fairness unless stated.

- `finality_live`: what the code carries on with by itself whenever the participant's user runs `close`, `sign-target` or `release` again and the relay shows what honest participants published, which is the completion assumption of `SECURITY.md:23`. There is no fairness on casting a ballot, opening the close, collecting other ballots or on anything a corrupt participant publishes, except that the organizer's scan offers every responder (`TakeResponse` is fair for honest responders only). A wanted body is fair only when an honest participant published it.
- `setup_live`: members return, and signing and committing are strongly fair, since some visit is long enough. In a contribution and an enrollment the worker's calls follow one another and a participant whose instance stopped opens it again; faults are bounded. In a roster each helper runs when it can.
- `work_live`, threads: each helper and the worker run when they can. Nothing is assumed of the order in which threads run, and traps and failing jobs need not happen.
- `work_live`, served sessions (`served work`, `served engine`, `served completion`): a host that goes on serving what the session asks for; where it may also serve wrong bytes, the right ones are strongly fair, which says that the wrong ones are not the only ones it is handed.
- `work_live`, the storage call: the event loop runs due tasks, the browser ends a transaction, the timer fires; nothing is assumed of the validator.
- `work_live`, the relay: an operation's awaits end, which the worker's wait limit guarantees; the collection and the publication add that the participant tries again.

### Refinements

`Finality` implements `Outcome` and `StateTransaction` implements `AtomicCommit`, each with a refinement mapping in the detailed module, as a property of a run and as a theorem.

## Proofs

TLAPS proves that the following hold in every behaviour, for every value of the constants that meets the named assumptions. Each theorem states a property that a run also checks on its small instance, or one part of it; `PROJECT.json` lists them side by side.

| Module | For every | Theorems |
| --- | --- | --- |
| `CloseProofs` | roster of at least three with at most `f` corrupt, times, corrupt envelopes, bounds | `CloseTypeCorrect`, `OmissionIsBounded`, `ProtectedBallotsAreUsable`, `CustodyIsBounded`, `CloseIsWorkable` |
| `FinalityProofs` | the same, and any sets of invalid ballots | `TypeCorrect`, `CertifiedTargetIsUnique`, `TargetLockIsKept`, `RecoveredResultIsProtected`, `PollImplementsOutcome`; with an honest organizer `InclusionStatusIsTheTargets` |
| `CustodyProofs` | number of workers, choices and seeds, either role | `CustodyTypeCorrect`, `OneFrameIsSigned`, `PublishedStaysRetained`, `StoppedIsFinal`, `RootOnlyAdvances`; together `FramesAreKept`, `CustodyMovesForward` |
| `CustodyProofs` | set of ballots, intents, targets, their times, size of a body | `OneMessageIsSignedPerKey`, `OwnBallotIsListed`, `MessagesAreChained`, `OneTargetIsReleased`, `BodiesAreVerified`; together `SignedMessagesAgree` |
| `StateTransaction` | set of reads, whatever durability the browser offers | `HeartbeatKeepsTransaction`, `WritesAreValidated`, `CallEndsLast`, `RefusedReadsAreReported`, `TransactionIsAtomic`; together `TransactionIsSafe`, `CallIsAtomic` |
| `SetupProofs` | set of offers, selections, members of one session | `SessionIsSound`, `SetupNeverChanges` |
| `SetupProofs` | roster of at least three with at most `f` corrupt, proposable selections | `OneMessageIsSigned`, `OneSetupIsCertified`, `CertifiedIsVerified`, `MembersAgree`; together `MembersAreBound` |
| `SetupProofs` | set of positions, candidate records and shards of a roster, lengths of a record | `RosterIsSound`, `AcceptedStays` |
| `SetupProofs` | number of records and of visits of a contribution | `RecordsAreReproduced`, `ListedIsStored`, `OneOfferIsSigned`, `StoreIsFree`, `RetiredIsSilent`; together `OfferIsReproduced` |
| `SetupProofs` | size of an offer's statement, its oracles and its checkpoints | `OfferProofsHold`, `StoppedStays` |
| `SetupProofs` | set of signing purposes and of foreign enrollments, number of visits | `EnrollmentInvariant`, `EnrollmentIsWhole` |
| `Barrier` | roster size, quorum, envelopes, responses, proposals, parts of a body | `ProposalFixesTheBarrier`, `BarrierIsSigned`, `SessionIsBounded`, `AcceptedIsKept`; together `BarrierIsFixed` |
| `TargetSession` | roster size, turnout, barriers, ballots, program with an input of every author, number of visits | `TargetInvariant`, `TargetIsSound` |
| `Completion` | roster size, set of targets, votes, envelopes and bodies, length of an operand | `CompletionInvariant`, `CompletionIsSound`, `CompletionIsIrrevocable` |

Assumptions: `RosterAssumption` of `Close`, `TimesAssumption`, `EnvelopesAssumption`, `BoundsAssumption` and `InvalidAssumption` (a roster within the corruption budget, two ballots of a slot told apart by their identity), `CustodyAssumption`, `CredentialAssumption`, `StateTransactionAssumption`, `SessionAssumption`, `SetupAssumption`, `RosterAssumption` of `Roster`, `ContributionAssumption`, `ProverAssumption`, `EnrollmentAssumption`, `BarrierAssumption`, `TargetAssumption` and `CompletionAssumption` (the types of the constants, and a value that stands for none). The runs evaluate every one of them on their instances.

The arguments:

- `CloseIInv`. The safety properties speak of proposals and say nothing of how responses came about. The invariant adds it: an honest participant makes one attempt (`BallotsInv`), knows only authentic envelopes and the envelope of every held body (`KnownInv`), keeps at its lock every on-time body it held, its own among them (`LockInv`), lists every honest one of these (`ResponseInv`: an honest slot never has two envelopes, so the listing rule cannot drop it), and every response taken or proposed is the one its honest responder signed (`TakenInv`, `ProposalsInv`). A proposal names `q = n - f` responders, so at most `f` honest ones are left out, which bounds the omission, and `f + 1` holders meet the responders in one that lists the ballot. That honest slots are never conflicting makes the ballot usable.
- `SlotsInv`, for `CustodyIsBounded`. How many envelopes of one slot a participant knows depends on where they came from: two from bodies it held, two from each response taken, since a response lists at most two for a slot. The bound therefore counts the responses, and the lock has to retire late bodies without raising it.
- `WorkIInv`, for `CloseIsWorkable`. The organizer folds a selection over the responses it took, in their order, and the credential refuses a selection without `q` responders. When the organizer retains its response at least `q - 1` of the taken ones are ready (`OrganizerReady`), and nothing changes that while it waits to sign. A ready response joins every selection that holds the organizer's own: an envelope of it whose body is missing has a rival, and the own listing names the rival (`ReadyJoins`). That the fold then reaches `q` responders, of `q` different responses (`TakenOnce`), and that every selection on the way needs only held bodies, is an induction over the responses, argued by the least position at which it fails. Bodies are not dropped after that, so the proposal stays verifiable (`NoEarlyProposal`).
- `IInv` adds that a participant locks at most one target, votes only for that one (`TargetsInv`) and locks a release only for a certified target with a result (`ReleaseInv`). Two certificates share an honest voter because `2q - n > f`; `d` shares include an honest one; `f + 2` accepted ballots of distinct slots include two honest ones. For the refinement a step that publishes the `q`th vote is `Certify`, one that signs the `d`th share is `Recover`, and every other one is a stutter.
- `OneIntentInv`, for `InclusionStatusIsTheTargets`. An honest organizer signs one intent, so what a participant locked is what every proposal closes; and a participant's ballot does not change once it is cast, so a status stays right. Where the organizer is corrupt the statement is false, which is the finding below.
- `CustodyIInv`. `OneFramePerPurpose` is not inductive: a worker could sign again from a stale root. The invariant adds that at most one worker is active (`ExclusiveInv`), that a worker about to sign or commit works from the stored root and commits what follows it (`MemoryInv`), and that the root is past the signing generation of every signature and still holds its frame (`SignaturesInv`).
- `CredentialIInv` relates the credential of a visit, which remembers nothing of earlier ones, to the root: whatever the credential may still sign the root shows unsigned (`OpenIsUnsigned`), close work knows the retained messages (`CloseRestored`), and a credential that can still sign a ballot after a response responded in this very visit (`NoBallotAfterResponse`), which is why the ballot's own check suffices for `OwnBallotListed`.
- `TransactionIInv`. The browser commits a transaction on which no request is outstanding. The heartbeat is the last request and there until the writes are (`HeartbeatLast`), so no commit is early; every read that is not settled waits in the queue or is issued before the heartbeat (`WaitingHeld`), so a heartbeat that finds nothing to do finds nothing forgotten; and a read that was refused has failed the call (`NothingRefused`).
- `SessionIInv`. That the verified setup is the certified one needs what every piece of retained and restored work belongs to: offers only enter the session verified, the work of a selection is dropped with it, and a certificate names the selection it was built for (`WorkBelongs`, `HeldValid`).
- `SetupIInv`. Between its intent and its commit a member's signature exists only outside its journal, and a visit may end there. The journal holds one verified intent of each purpose (`IntentsSingle`) and, until the setup is retained, a signature is of the journal's intent (`SignaturesIntended`), so signing again signs the same. Two certificates then share an honest endorser.
- `RosterIInv`. The chunks of a record go to its helper through a queue, in which the jobs of an abandoned record at the same shard may still wait. Sessions at a shard, open or queued to be opened, have one number each (`ShardInv`); the jobs of an open record's session are of its candidate, none discards it, and a session that has taken an unsound part is refused (`RecordInv`), so a record is accepted only with all of its own parts sound. The body under signature is already a sound roster (`SignedSound`), since confirmation reads it later.
- `ContributionIInv`. A seed is in the root before anything is drawn from it, and leaves it in the step that lists the run's records (`RootInv`, `RunInv`); so every record ever produced is of a seed the root still shows or has turned into a derivation (`ProducedInv`). The signer has read a prefix of that body (`OfferInv`), so what it signs is the whole of it.
- `ProverIInv`. A command of the prover relies on what earlier ones built and freed, and its passes over the statement are driven by the host. The invariant says what each phase has built and not yet freed (`OraclesInv`), how far the two passes are and that no later phase is reached over another statement (`StatementInv`), what a prover was resumed from (`PartsInv`), and that an import under way holds sealed records of one header while no work exists (`ImportInv`), so a resumed prover is one that was exported whole.
- `EnrollmentIInv`. A store may be read with any record of another enrollment in place of its own, and a visit may end anywhere. What is opened is bound to the registration that the instance verified, and what is sealed to the one that was signed (`SealedInv`); so an instance holds either the credential it created on this visit or the whole of the verified one (`HeldInv`). A purpose the root shows used is locked or signed in every instance that holds the own credential, because nothing is restored or signed before the completed root (`InstanceInv`); and a credential is drawn only on the visit that turned the empty root into an intent (`DrawnInv`).
- `BarrierIInv`. Whatever a host feeds the session, the envelopes it kept are signed, its responses authentic and one for a responder, its bodies exact (`EnvelopesSigned`, `ResponsesAuthentic`, `BodiesExact`). A proposal that is selectable selects exactly the responses it names (`SelectsTheChosen`), so the barrier is a function of the proposal (`BarrierOf`).
- `TargetIInv`. That the result is of the accepted ballots needs every instruction's input to be its author's: an engine has the right inputs of what it executed, the one at hand is the next instruction's, and records are requested only once it is there (`RightEngine`); a stream is open only while its instruction waits (`RightStream`), so a late finish cannot load another author's ballot. At the end every author had an instruction, by the assumption on the program. Copies are of evaluated bodies only (`BodiesInv`), which is why a restored target is as right as the evaluated one.
- `CompletionIInv`. A verification of a share is three pieces that the host fills in any order and may begin again: the operands, the envelope, the body. Operands are read only while nothing else of a share is there (`OperandInv`), so an envelope and a body under way are always the context's own (`ContextInv`), and what enters a slot is both signed by the slot's position and verified for it (`ReleasesInv`). The votes in a certificate come from the slots of their own signers (`VotesInv`), so a quorum of slots is a quorum of signers.

Only model-checked:

- every liveness property and what rests on `ENABLED`: the prover does not handle fairness;
- what a fold or a recursion computes: everything in `CloseLog` (its replay is a fold over the log), and the modules with recursive operators (`Messages`, `RankingProgram`, `StatementStream`), to which no theorem may reach;
- the safety of the modules that the runs instantiate: `OfferVerifier`, `OfferAggregator`, `PublishedAggregate`, `OfferDiscovery`, `Publication`, `Classification`, `RankingEngine`, `KeyedWork`, `PublicCheck`, `ParallelHelpers`, `HashStream`, `MerkleTree`, `WordVerifier`, `WitnessLayout`, `Ceremony`.

## Findings

`inclusion_equivocation`: a participant that signed no target learns its `ballotInclusion` from the certified target when it runs `release` or `compute-result`. `classified_ballot_inclusion` (`finality-work.rs:38`) compares its ballot time with the close time of the intent it locked itself. When the organizer signed two intents and the participant locked the earlier one, a ballot that the certified target includes is reported as late. `README.md:11` defines late by the organizer's public close time and `README.md:114` promises the status of the verified target. With an honest organizer the statuses agree (`finality_live`, and `InclusionStatusIsTheTargets` for every roster).

## Not modelled

- Ciphertext arithmetic: encryption, noise, number-theoretic transforms over the real moduli, samplers, the plaintext ring and the interpolation of shares. A ciphertext is the value it encrypts; that noise stays within its bound is a calculation over the real parameters.
- The combination of a proof's constraints, its lookups and its zero-knowledge masking (`word-proof` `combination.rs`, `linked-release-proof`): polynomial identities over a large field. The relation's layout, the commitments, the folds and the setup statement around them are modelled; the ballot's affine statement is not.
- The hash permutation and its absorption, the Winternitz chains, the scalar allocator: represented by their inputs or left out.
- The tables of text normalisation; byte-level records and keys of the database: a root stands for all its records.
- The scan of candidate lists other than offers and the accounting of an operation's relay time.
- Pages, request parsing and summaries of the SDK, the tools, benchmarks and most tests; a test is read as a statement of intent and named in a hazard or a finding where it disagrees.

## Plan

Done: the agreement from the setup to the result, one participant's custody down to the tasks of a transaction, the public verification of every stage, the encodings, the layouts and streams of the proofs, the helpers and the relay, with the theorems above. Next: `KeyedWork` and `ParallelHelpers`: that work is claimed once, for any number of helpers.
