------------------------------ MODULE MCSetup -------------------------------
(***************************************************************************)
(* Small instances of everything before the voting: enrollment, roster,    *)
(* contribution, its proof, the verification and the sums of the offers,   *)
(* and the agreement on a setup.                                           *)
(*                                                                         *)
(* The components do not share state in these runs: a behaviour is of one  *)
(* subject. SetupSession, Setup, Contribution, Enrollment, Roster and      *)
(* SetupProver have their variables; the others are instantiated over the  *)
(* cells, which are theirs in turn.                                        *)
(***************************************************************************)
EXTENDS SetupSession, Setup, Contribution, Enrollment, Roster, SetupProver, TLC

CONSTANTS
    Subjects,   \* the components this run is about
    o, h1, h2, x, a, b, c, a1, a2

\* Two offers of one position, one of which does not verify.
SignedOffers == {a1, a2}
OnePosition == [signed_ \in SignedOffers |-> 1]
ValidOffers == {a1}

\* Registration records: the organizer's, the own one, and two that are damaged.
Records == {"organizer", "own", "badKey", "badHeader"}
AllParts == {"header", "key", "sources", "signature"}
IdentityOf == [r \in Records |-> IF r \in {"own", "badKey"} THEN 2 ELSE 1]
PartsOf ==
    [r \in Records |-> AllParts \ (CASE r = "badKey" -> {"key"}
                                     [] r = "badHeader" -> {"header"}
                                     [] OTHER -> {})]

VARIABLES subject, c1, c2, c3, c4, c5, c6, c7, c8, c9, c10, c11, c12, c13,
    c14, c15, c16, c17

cells == <<c1, c2, c3, c4, c5, c6, c7, c8, c9, c10, c11, c12, c13, c14, c15,
            c16, c17>>
stageVars == <<vars, setupVars, contributionVars, enrollmentVars, rosterVars, proverVars>>
runVars == <<subject, cells, stageVars>>

\* A component uses the first cells; the others are empty and stay so.
Empty(n) ==
    /\ IF n < 1 THEN c1 = None ELSE TRUE
    /\ IF n < 2 THEN c2 = None ELSE TRUE
    /\ IF n < 3 THEN c3 = None ELSE TRUE
    /\ IF n < 4 THEN c4 = None ELSE TRUE
    /\ IF n < 5 THEN c5 = None ELSE TRUE
    /\ IF n < 6 THEN c6 = None ELSE TRUE
    /\ IF n < 7 THEN c7 = None ELSE TRUE
    /\ IF n < 8 THEN c8 = None ELSE TRUE
    /\ IF n < 9 THEN c9 = None ELSE TRUE
    /\ IF n < 10 THEN c10 = None ELSE TRUE
    /\ IF n < 11 THEN c11 = None ELSE TRUE
    /\ IF n < 12 THEN c12 = None ELSE TRUE
    /\ IF n < 13 THEN c13 = None ELSE TRUE
    /\ IF n < 14 THEN c14 = None ELSE TRUE
    /\ IF n < 15 THEN c15 = None ELSE TRUE
    /\ IF n < 16 THEN c16 = None ELSE TRUE
    /\ IF n < 17 THEN c17 = None ELSE TRUE

StayEmpty(n) ==
    /\ IF n < 1 THEN UNCHANGED c1 ELSE TRUE
    /\ IF n < 2 THEN UNCHANGED c2 ELSE TRUE
    /\ IF n < 3 THEN UNCHANGED c3 ELSE TRUE
    /\ IF n < 4 THEN UNCHANGED c4 ELSE TRUE
    /\ IF n < 5 THEN UNCHANGED c5 ELSE TRUE
    /\ IF n < 6 THEN UNCHANGED c6 ELSE TRUE
    /\ IF n < 7 THEN UNCHANGED c7 ELSE TRUE
    /\ IF n < 8 THEN UNCHANGED c8 ELSE TRUE
    /\ IF n < 9 THEN UNCHANGED c9 ELSE TRUE
    /\ IF n < 10 THEN UNCHANGED c10 ELSE TRUE
    /\ IF n < 11 THEN UNCHANGED c11 ELSE TRUE
    /\ IF n < 12 THEN UNCHANGED c12 ELSE TRUE
    /\ IF n < 13 THEN UNCHANGED c13 ELSE TRUE
    /\ IF n < 14 THEN UNCHANGED c14 ELSE TRUE
    /\ IF n < 15 THEN UNCHANGED c15 ELSE TRUE
    /\ IF n < 16 THEN UNCHANGED c16 ELSE TRUE
    /\ IF n < 17 THEN UNCHANGED c17 ELSE TRUE

OfferCheck == INSTANCE OfferVerifier WITH
    Gadgets <- 2, Recipients <- 2, Windows <- {1, 2, 6}, CommonAhead <- 4,
    Chunks <- 2, SourceChunks <- 2, HeaderChunks <- 1, ProofChunks <- 2,
    exact <- c1, window <- c2, lookahead <- c3, source <- c4, index <- c5,
    ordinal <- c6, offset <- c7, computing <- c8, common <- c9,
    statement <- c10, body <- c11, public <- c12, proofOffset <- c13,
    done <- c14, failed <- c15, outcome <- c16, honest <- c17

Aggregation == INSTANCE OfferAggregator WITH
    Contributors <- 3, Polynomials <- 2, Chunks <- 2, Modulus <- 2,
    Windows <- {1, 2}, window <- c1, offers <- c2, accepted <- c3,
    previous <- c4, pending <- c5, failed <- c6, honest <- c7

Published == INSTANCE PublishedAggregate WITH
    Eligible <- 3, Contributors <- 2, Streamed <- 1, Committed <- 1,
    Modulus <- 2, selected <- c1, collection <- c2, sealed <- c3,
    streamed <- c4, aggregate <- c5, inputs <- c6, checked <- c7, kept <- c8

ASSUME RunAssumption ==
    /\ OfferCheck!OfferVerifierAssumption
    /\ Aggregation!AggregatorAssumption
    /\ Published!PublishedAssumption

RunInit ==
    /\ subject \in Subjects
    /\ Init /\ SetupInit /\ ContributionInit /\ EnrollmentInit /\ RosterInit /\ ProverInit
    /\ \/ subject \in {"session", "agreement", "contribution", "enrollment", "roster", "prover"} /\ Empty(0)
       \/ subject = "offer verifier" /\ OfferCheck!Init /\ Empty(17)
       \/ subject = "aggregator" /\ Aggregation!Init /\ Empty(7)
       \/ subject = "published aggregate" /\ Published!Init /\ c1 = {1, 2} /\ Empty(8)

\* The components that may stop: a finished one, or one that its bounds end.
MayStop == {"session", "enrollment", "roster", "contribution",
            "offer verifier", "agreement"}

RunNext ==
    /\ UNCHANGED subject
    /\ \/ subject = "session" /\ Next /\ UNCHANGED <<cells, setupVars, contributionVars, enrollmentVars, rosterVars, proverVars>>
       \/ subject = "agreement" /\ SetupNext /\ UNCHANGED <<cells, vars, contributionVars, enrollmentVars, rosterVars, proverVars>>
       \/ subject = "enrollment" /\ EnrollmentNext /\ UNCHANGED <<cells, vars, setupVars, contributionVars, rosterVars, proverVars>>
       \/ subject = "roster" /\ RosterNext /\ UNCHANGED <<cells, vars, setupVars, contributionVars, enrollmentVars, proverVars>>
       \/ subject = "contribution" /\ ContributionNext /\ UNCHANGED <<cells, vars, setupVars, enrollmentVars, rosterVars, proverVars>>
       \/ subject = "prover" /\ ProverNext /\ UNCHANGED <<cells, vars, setupVars, contributionVars, enrollmentVars, rosterVars>>
       \/ subject = "offer verifier" /\ OfferCheck!Next /\ StayEmpty(17) /\ UNCHANGED stageVars
       \/ subject = "aggregator" /\ Aggregation!Next /\ StayEmpty(7) /\ UNCHANGED stageVars
       \/ subject = "published aggregate" /\ Published!Next /\ StayEmpty(8) /\ UNCHANGED stageVars
       \/ subject \in MayStop /\ UNCHANGED <<cells, stageVars>>

RunSpec == RunInit /\ [][RunNext]_runVars

\* The worker's calls follow one another and read what was retained, and a visit
\* that cannot go on ends and the next one starts over.
EnrollmentFairness ==
    /\ WF_enrollmentVars(subject = "enrollment" /\ OwnBegun)
    /\ WF_enrollmentVars(subject = "enrollment" /\ KeyPushed)
    /\ WF_enrollmentVars(subject = "enrollment" /\ KeyFinished)
    /\ WF_enrollmentVars(subject = "enrollment" /\ SourcesPushed)
    /\ WF_enrollmentVars(subject = "enrollment" /\ OwnFinished)
    /\ WF_enrollmentVars(subject = "enrollment" /\ OwnRestored)
    /\ WF_enrollmentVars(subject = "enrollment" /\ Retry)

\* A helper runs the jobs it was sent.  A participant goes on with its contribution
\* and opens it again when its instance has stopped.  A member's visits end at any
\* point, and often enough not before it has signed and committed.
Fairness ==
    /\ EnrollmentFairness
    /\ \A s \in Shards : WF_rosterVars(subject = "roster" /\ RunJob(s))
    /\ WF_contributionVars(subject = "contribution" /\ Work)
    /\ WF_contributionVars(subject = "contribution" /\ Reopen)
    /\ \A p \in {o, h1, h2} :
         /\ WF_setupVars(subject = "agreement" /\ Progress(p))
         /\ SF_setupVars(subject = "agreement" /\ SignAny(p))
         /\ SF_setupVars(subject = "agreement" /\ CommitAny(p))

FairSpec == RunSpec /\ Fairness

----

\* An offer is verified only from the registered source, the body its
\* envelope names, the committed polynomials of its proof header and the
\* whole statement in index order: what finish may return for any sequence
\* of calls.
VerifiedIsAuthentic ==
    subject = "offer verifier" => OfferCheck!VerifiedIsAuthentic

\* The supply of fixed inputs never refuses a host that sends the offer as
\* it is: the records computed ahead always are the next ones of the
\* statement, whatever the window, and a body and proof sent completely are
\* accepted.
HonestHostAccepted ==
    subject = "offer verifier" => OfferCheck!HonestHostAccepted

\* The host holds the records of at most COMMON_AHEAD common polynomials,
\* and none is dropped or started twice.
RecordsAhead == subject = "offer verifier" => OfferCheck!RecordsAhead

\* The digests kept after each contribution are those of the sum of exactly
\* the first accepted selected bodies, whatever the host read back and
\* whenever the helpers finished the digests: a wrong read is found before
\* it is accepted.
PrefixIsSum == subject = "aggregator" => Aggregation!PrefixIsSum

\* An aggregation whose host is faithful never fails, so that a failure
\* shows a damaged cache or a wrong body and a replay can succeed.
FaithfulHostSucceeds ==
    subject = "aggregator" => Aggregation!FaithfulHostSucceeds

\* Identities are left unchecked for at most a window of polynomials.
UncheckedBounded == subject = "aggregator" => Aggregation!UncheckedBounded

\* Whatever sum the host publishes, reads back or restores from an earlier
\* visit, the inputs a participant endorses are the sums of exactly the
\* selected offers.
InputsAreSums == subject = "published aggregate" => Published!InputsAreSums

\* A manifest is sealed only for the selection, and it is the sum of the
\* selected offers although they were collected in another order, over
\* several visits.
SealedIsSum == subject = "published aggregate" => Published!SealedIsSum

\* The claims checked so far are those of the first selected offers, each
\* once, through refused proofs and repeated attempts.
ClaimsCountedOnce ==
    subject = "published aggregate" => Published!ClaimsCountedOnce

\* Every visit to a registered root comes to hold the original credential.
Restored ==
    subject = "enrollment" /\ MustReopen
      ~> subject = "enrollment" /\ HoldsRestored

\* A helper at last forgets every session that no open record owns.
SessionsForgotten ==
    \A s \in Shards, n \in {0, 1} :
      subject = "roster" /\ Orphaned(n)
        ~> subject = "roster" /\ Forgotten(s, n)

\* A participant whose interruptions end signs its offer, unless it is retired.
OfferCompletes == <>(subject = "contribution" => OfferMade)

\* With an honest organizer and a selection of valid offers, every honest member
\* at last retains the setup, although visits end at any point.
SetupCompletes == <>[](subject = "agreement" => AllRetained)

----
(* What the runs check: what each part keeps through all its steps.         *)

\* An offer is accepted exactly for the proof it is of, and the aggregated keys are
\* the sums of exactly the selected offers, whatever the host reads back, repeats or
\* restores.
OffersExact ==
    /\ VerifiedIsAuthentic /\ HonestHostAccepted /\ RecordsAhead
    /\ PrefixIsSum /\ FaithfulHostSucceeds /\ UncheckedBounded
    /\ InputsAreSums /\ SealedIsSum /\ ClaimsCountedOnce

\* What the preparation has settled no step undoes: the verified setup, an accepted
\* record, a retired contribution and a stopped prover.
SettledForGood == SetupFixed /\ AcceptedFixed /\ RetiredSilent /\ StoppedFinal

\* Everyone who goes on with the preparation comes to its end.
SetupProgress == Restored /\ SessionsForgotten /\ OfferCompletes /\ SetupCompletes

====
