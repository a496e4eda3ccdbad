----------------------------- MODULE Completion -----------------------------
(***************************************************************************)
(* The completion of one instance (CompletionSession): votes certify the   *)
(* instance's evaluation target, each release share is verified from the   *)
(* setup's operands, a signed envelope and a streamed body, and enough     *)
(* shares decrypt the result. Everything is handed in by a host that may   *)
(* repeat, mix, alter or withhold it.                                      *)
(*                                                                         *)
(* A target is [id, ciphertext, decodes]: whether it has a ciphertext and  *)
(* whether what the ciphertext decrypts to is the encoding of a ranking,   *)
(* which an honest evaluation makes it. A vote packet is [target,          *)
(* position, signer]. A body is <<partial, head, rest>>: the partial       *)
(* decryption and the proof in two pieces. A partial or a piece of a proof *)
(* is [target, position, copy], what it was made for, with a copy number   *)
(* because one participant can make several proofs; Undecodable is any     *)
(* other partial. An envelope packet is [target, position, body, signer].  *)
(* A signature verifies exactly for the position that made it, a proof     *)
(* exactly for the position's own partial of the target. Reconstruction    *)
(* has the arithmetic of the result.                                       *)
(***************************************************************************)
EXTENDS Integers, Sequences, FiniteSets, ProtocolRules, TLAPS

CONSTANTS Holders, Targets, VotePackets, EnvelopePackets, Partials, ProofPieces,
          OperandParts,  \* pushes of a complete setup polynomial
          MaxFaults,     \* wrong data and restarts of a run
          Undecodable, Unset

Positions == 1 .. Holders

ASSUME CompletionAssumption ==
  /\ Holders \in Nat \ {0} /\ OperandParts \in Nat \ {0} /\ MaxFaults \in Nat
  /\ \A t \in Targets : t.ciphertext \in BOOLEAN /\ t.decodes \in BOOLEAN

VARIABLES target,     \* the target the instance verified
          votes, certificate, operand, context, authentication, shareBody,
          releases,   \* the accepted share bodies
          terminal,
          faults

completionState == <<votes, certificate, operand, context, authentication, shareBody, releases, terminal>>
completionVars == <<target, completionState, faults>>

CompletionInit ==
  /\ target = Unset /\ votes = Unset /\ certificate = Unset /\ operand = Unset
  /\ context = Unset /\ authentication = Unset /\ shareBody = Unset
  /\ releases = Unset /\ terminal = Unset /\ faults = 0

\* Wrong data, or a restart, where `wrong` says so.
Fault(wrong) == /\ wrong => faults < MaxFaults
                /\ faults' = IF wrong THEN faults + 1 ELSE faults

\* TargetSession makes the one target of the instance.
VerifyTarget(t) ==
  /\ target = Unset /\ target' = t
  /\ UNCHANGED <<completionState, faults>>

----
(* The certificate.                                                        *)

BeginVotes ==
  /\ votes = Unset /\ target # Unset
  /\ votes' = [target |-> target, slots |-> [p \in Positions |-> Unset]]
  /\ UNCHANGED <<target, certificate, operand, context, authentication, shareBody,
                 releases, terminal, faults>>

authenticate_vote(vote) == vote.target = votes.target.id /\ vote.signer = vote.position

\* Invalid and duplicate packets change nothing.
InsertVote(vote) ==
  /\ votes # Unset
  /\ votes' = IF authenticate_vote(vote) /\ votes.slots[vote.position] = Unset
              THEN [votes EXCEPT !.slots[vote.position] = vote] ELSE votes
  /\ UNCHANGED <<target, certificate, operand, context, authentication, shareBody,
                 releases, terminal, faults>>

Accepted == {p \in Positions : votes.slots[p] # Unset}

\* The certificate is made once; a target without a ciphertext has no releases.
Certify ==
  /\ certificate = Unset /\ votes # Unset
  /\ Cardinality(Accepted) >= InventoryThreshold(Holders)
  /\ certificate' = [target |-> votes.target, votes |-> {votes.slots[p] : p \in Accepted}]
  /\ releases' = IF votes.target.ciphertext THEN [p \in Positions |-> Unset] ELSE releases
  /\ UNCHANGED <<target, votes, operand, context, authentication, shareBody, terminal, faults>>

\* The verifier refuses a proof of any other statement.
Verifies(position, received) ==
  /\ Len(received) = 3 /\ received[2] = received[3]
  /\ \A k \in 1 .. 2 : /\ received[k] # Undecodable
                       /\ received[k].target = certificate.target.id
                       /\ received[k].position = position

\* The envelopes of verifiable bodies, any other one being a fault.
Offered == {e \in EnvelopePackets : e.target = certificate.target.id /\ Verifies(e.position, e.body)}

----
(* The operands of one share.                                              *)

NewReader == [offset |-> 0, exact |-> TRUE, failed |-> FALSE]

\* A position whose share is verifiable and not yet accepted.
Wanted(p) == releases[p] = Unset /\ \E e \in Offered : e.position = p /\ e.signer = p

\* A verification that would still succeed, which a restart gives up.
Unfinished == \/ operand # Unset /\ Wanted(operand.position)
              \/ context # Unset /\ Wanted(context)
                 /\ (authentication # Unset => authentication \in Offered)

\* Mutant: a retry starts the releases over.
RevokingBegin(p) ==
  /\ certificate # Unset /\ certificate.target.ciphertext
  /\ operand' = [position |-> p, reader |-> NewReader, constant |-> FALSE]
  /\ context' = Unset /\ authentication' = Unset /\ shareBody' = Unset
  /\ releases' = [releases EXCEPT ![p] = Unset]
  /\ Fault(Unfinished \/ ~Wanted(p))
  /\ UNCHANGED <<target, votes, certificate, terminal>>

\* A retry replaces only unfinished verification.
BeginShareConstant(p) ==
  /\ certificate # Unset /\ certificate.target.ciphertext
  /\ operand' = [position |-> p, reader |-> NewReader, constant |-> FALSE]
  /\ context' = Unset /\ authentication' = Unset /\ shareBody' = Unset
  /\ Fault(Unfinished \/ ~Wanted(p))
  /\ UNCHANGED <<target, votes, certificate, releases, terminal>>

\* AggregatePolynomialReader::push: the next bytes, right or altered, or bytes
\* of another offset or past the end, which fail the reader for good.
PushOperand(kind) ==
  /\ operand # Unset
  /\ LET reader == operand.reader
     IN  operand' = [operand EXCEPT !.reader =
           IF reader.failed \/ kind = "misplaced" \/ reader.offset = OperandParts
           THEN [reader EXCEPT !.failed = TRUE]
           ELSE [reader EXCEPT !.offset = @ + 1, !.exact = @ /\ kind = "right"]]
     /\ Fault(reader.failed \/ kind # "right" \/ reader.offset = OperandParts)
  /\ UNCHANGED <<target, votes, certificate, context, authentication, shareBody,
                 releases, terminal>>

ReaderFinishes(reader) == ~reader.failed /\ reader.offset = OperandParts /\ reader.exact

ReaderRight == operand.reader.exact /\ ~operand.reader.failed

\* The operand is taken first; the linear polynomial follows the constant one.
FinishOperand ==
  /\ operand # Unset
  /\ IF ~ReaderFinishes(operand.reader)
     THEN operand' = Unset /\ UNCHANGED context
     ELSE IF operand.constant
          THEN operand' = Unset /\ context' = operand.position
          ELSE /\ operand' = [operand EXCEPT !.reader = NewReader, !.constant = TRUE]
               /\ UNCHANGED context
  /\ Fault(operand.reader.offset < OperandParts /\ ReaderRight)
  /\ UNCHANGED <<target, votes, certificate, authentication, shareBody, releases, terminal>>

----
(* The envelope and the body.                                              *)

\* ReleaseContext::authenticate.
authenticate(packet) ==
  /\ packet.target = certificate.target.id
  /\ packet.position = context /\ packet.signer = context

AuthenticateRelease(packet) ==
  /\ authentication = Unset /\ context # Unset
  /\ authenticate(packet)
  /\ authentication' = packet
  /\ Fault(packet \notin Offered)
  /\ UNCHANGED <<target, votes, certificate, operand, context, shareBody, releases, terminal>>

\* The header is exactly the context's.
BeginReleaseBody ==
  /\ shareBody = Unset /\ authentication # Unset /\ context # Unset
  /\ shareBody' = [position |-> context, received |-> <<>>, failed |-> FALSE]
  /\ UNCHANGED <<target, votes, certificate, operand, context, authentication,
                 releases, terminal, faults>>

\* Bytes past the end, and a partial found undecodable once the proof begins,
\* fail the body; a wrong proof does at once or when it is finished.
PushReleaseBody(piece, early) ==
  /\ shareBody # Unset
  /\ LET received == Append(shareBody.received, piece)
         fails == \/ shareBody.failed \/ Len(received) > 3
                  \/ Len(received) = 2 /\ received[1] = Undecodable
                  \/ Len(received) = 3 /\ ~Verifies(shareBody.position, received) /\ early
     IN  /\ shareBody' = IF fails THEN [shareBody EXCEPT !.failed = TRUE]
                         ELSE [shareBody EXCEPT !.received = received]
         /\ Fault(fails \/ received # SubSeq(authentication.body, 1, Len(received)))
  /\ UNCHANGED <<target, votes, certificate, operand, context, authentication,
                 releases, terminal>>

\* What was pushed so far is the body the envelope names.
BodyRight == ~shareBody.failed /\ shareBody.received = SubSeq(authentication.body, 1, Len(shareBody.received))

\* Mutant: a body is finished without the verdict of its proof.
UnverifiedBody == ~shareBody.failed /\ Len(shareBody.received) = 3

\* ReleaseBodyVerifier::finish.
BodyFinishes == ~shareBody.failed /\ Verifies(shareBody.position, shareBody.received)

\* VerifiedReleaseBody::authenticate: the envelope names exactly this body.
Authenticated(packet, b) ==
  /\ packet.target = certificate.target.id
  /\ packet.position = b.position /\ packet.body = b.received

\* The body is taken, then the envelope; the context stays when either fails.
FinishRelease ==
  /\ shareBody # Unset
  /\ shareBody' = Unset
  /\ IF ~BodyFinishes
     THEN UNCHANGED <<authentication, context, releases>>
     ELSE /\ authentication' = Unset
          /\ IF Authenticated(authentication, shareBody)
             THEN /\ releases' = IF releases[shareBody.position] = Unset
                                 THEN [releases EXCEPT ![shareBody.position] = shareBody.received]
                                 ELSE releases
                  /\ context' = Unset
             ELSE UNCHANGED <<releases, context>>
  /\ Fault(BodyRight /\ Len(shareBody.received) < 3)
  /\ UNCHANGED <<target, votes, certificate, operand, terminal>>

----
(* The terminal.                                                           *)

Released == {p \in Positions : releases[p] # Unset}

\* The first shares by position.
Chosen == {p \in Released : Cardinality({q \in Released : q < p}) < ReleaseThreshold(Holders)}

\* The terminal is computed once and read from then on. A decryption that is no
\* ranking is refused, and the session then stays without a terminal.
Result ==
  /\ certificate # Unset
  /\ IF terminal # Unset THEN UNCHANGED terminal
     ELSE IF ~certificate.target.ciphertext THEN terminal' = [result |-> FALSE]
     ELSE /\ Cardinality(Chosen) = ReleaseThreshold(Holders)
          /\ certificate.target.decodes
          /\ terminal' = [result |-> TRUE, shares |-> [p \in Chosen |-> releases[p]]]
  /\ UNCHANGED <<target, votes, certificate, operand, context, authentication,
                 shareBody, releases, faults>>

CompletionNext ==
  \/ BeginVotes \/ Certify \/ FinishOperand \/ BeginReleaseBody \/ FinishRelease \/ Result
  \/ \E t \in Targets : VerifyTarget(t)
  \/ \E vote \in VotePackets : InsertVote(vote)
  \/ \E p \in Positions : BeginShareConstant(p)
  \/ \E kind \in {"right", "altered", "misplaced"} : PushOperand(kind)
  \/ \E packet \in EnvelopePackets : AuthenticateRelease(packet)
  \/ \E piece \in Partials \cup ProofPieces, early \in BOOLEAN : PushReleaseBody(piece, early)

CompletionSpec == CompletionInit /\ [][CompletionNext]_completionVars

----
(* A host with a vote of every position and a share of enough of them, that *)
(* serves the session in order and tries again after a fault.              *)

NextBegin == /\ certificate # Unset /\ certificate.target.ciphertext /\ ~Unfinished
             /\ terminal = Unset /\ Cardinality(Released) < ReleaseThreshold(Holders)
             /\ \E p \in Positions : Wanted(p) /\ BeginShareConstant(p)
NextOperand == /\ operand # Unset
               /\ IF ReaderRight /\ operand.reader.offset < OperandParts
                  THEN PushOperand("right") ELSE FinishOperand
NextEnvelope == certificate # Unset /\ \E e \in Offered : AuthenticateRelease(e)
NextBody == authentication \in Offered /\ BeginReleaseBody
NextPiece == /\ shareBody # Unset
             /\ IF BodyRight /\ Len(shareBody.received) < 3
                THEN PushReleaseBody(authentication.body[Len(shareBody.received) + 1], FALSE)
                ELSE FinishRelease

NextVote(p) ==
  \E v \in VotePackets : votes # Unset /\ v.position = p /\ InsertVote(v) /\ votes' # votes
NextTarget == \E t \in Targets : VerifyTarget(t)
NextShare == certificate # Unset /\ NextBody

----
(* Properties.                                                             *)

CompletionTypeOK ==
  /\ target \in Targets \cup {Unset} /\ faults \in 0 .. MaxFaults
  /\ certificate # Unset => certificate.target \in Targets
  /\ context \in Positions \cup {Unset}

\* A certificate rests on a quorum of the roster, each position's own key
\* under a vote for exactly the target this instance verified.
CertificateBacked ==
  certificate # Unset =>
    /\ certificate.target = target
    /\ Cardinality({v.signer : v \in certificate.votes}) >= InventoryThreshold(Holders)
    /\ \A v \in certificate.votes : v.target = target.id

ShareSigned(p) ==
  \E e \in EnvelopePackets : /\ e.signer = p /\ e.position = p
                             /\ e.target = target.id /\ e.body = releases[p]

\* An accepted share is one its position signed for the certified target,
\* however envelopes, bodies and retries were interleaved.
SharesSigned == releases # Unset => \A p \in Released : ShareSigned(p)

\* The shares of a result are the true partial decryptions of the certified
\* target by different positions, as many as reconstruct it, and what they
\* decrypt is a ranking.
ResultReconstructs ==
  terminal # Unset =>
    /\ terminal.result = certificate.target.ciphertext
    /\ terminal.result =>
         /\ certificate.target.decodes
         /\ Cardinality(DOMAIN terminal.shares) = ReleaseThreshold(Holders)
         /\ \A p \in DOMAIN terminal.shares : Verifies(p, terminal.shares[p])

\* A completed instance rests on signed votes and signed, verified shares.
CompletionSound == CertificateBacked /\ SharesSigned /\ ResultReconstructs

\* A retry revokes nothing: votes, the certificate, accepted shares and the
\* terminal stay as they are in every step.
StaysAccepted ==
  /\ votes # Unset => \A p \in Positions : votes.slots[p] # Unset => votes'.slots[p] = votes.slots[p]
  /\ certificate # Unset => certificate' = certificate
  /\ releases # Unset => \A p \in Positions : releases[p] # Unset => releases'[p] = releases[p]
  /\ terminal # Unset => terminal' = terminal

Irrevocable == [][StaysAccepted]_completionVars

Terminated == terminal # Unset

----
(* The inductive invariant. What is under way belongs to the position that *)
(* the verification was begun for, and is given up with it.                *)

\* A vote in a slot is the slot's own, for the target of the instance.
VotesInv ==
  votes # Unset =>
    /\ target # Unset
    /\ votes \in [target : {target}, slots : [Positions -> VotePackets \cup {Unset}]]
    /\ \A p \in Positions :
         votes.slots[p] # Unset => votes.slots[p].target = target.id /\ votes.slots[p].signer = p

\* The operands are read before anything of the share is there.
OperandInv ==
  operand # Unset =>
    /\ "position" \in DOMAIN operand /\ operand.position \in Positions
    /\ certificate # Unset /\ certificate.target.ciphertext
    /\ context = Unset /\ authentication = Unset /\ shareBody = Unset

\* An envelope is the context's own, and a body is streamed under one.
ContextInv ==
  /\ context # Unset => certificate # Unset /\ certificate.target.ciphertext
  /\ authentication # Unset =>
       context # Unset /\ authentication \in EnvelopePackets /\ authenticate(authentication)
  /\ shareBody # Unset =>
       authentication # Unset /\ "position" \in DOMAIN shareBody /\ shareBody.position = context

\* There are slots for the shares of a certified ciphertext, and a share in one
\* is signed by its position and verified.
ReleasesInv ==
  IF certificate # Unset /\ certificate.target.ciphertext
  THEN DOMAIN releases = Positions /\ \A p \in Released : Verifies(p, releases[p]) /\ ShareSigned(p)
  ELSE releases # Unset => Released = {}

\* The terminal follows the certificate, and the certificate the target.
StagesInv == (certificate # Unset => target # Unset) /\ (terminal # Unset => certificate # Unset)

\* The inductive invariant.
CompletionIInv ==
  /\ CompletionTypeOK /\ StagesInv /\ CertificateBacked
  /\ VotesInv /\ OperandInv /\ ContextInv /\ ReleasesInv /\ ResultReconstructs

----
(* Theorems.                                                               *)

\* What counts wrong data stays within its bound.
LEMMA FaultBounded ==
  ASSUME faults \in 0 .. MaxFaults, NEW wrong \in BOOLEAN, Fault(wrong)
  PROVE  faults' \in 0 .. MaxFaults
<1>1. CASE wrong
  BY <1>1, CompletionAssumption DEF Fault
<1>2. CASE ~wrong
  BY <1>2, CompletionAssumption DEF Fault
<1> QED
  BY <1>1, <1>2

\* What is settled stays so in a step that leaves it alone.
LEMMA SettledKept ==
  ASSUME CompletionIInv, UNCHANGED <<target, votes, certificate, releases, terminal>>
  PROVE  StagesInv' /\ CertificateBacked' /\ VotesInv' /\ ReleasesInv' /\ ResultReconstructs'
<1>1. StagesInv' /\ CertificateBacked' /\ VotesInv'
  BY DEF CompletionIInv, StagesInv, CertificateBacked, VotesInv
<1>2. ReleasesInv'
  BY DEF CompletionIInv, ReleasesInv, ShareSigned, Released, Verifies
<1>3. ResultReconstructs'
  BY DEF CompletionIInv, ResultReconstructs, Verifies
<1> QED
  BY <1>1, <1>2, <1>3

\* Verifying the target and counting votes.
LEMMA VoteSteps ==
  ASSUME CompletionIInv,
         \/ \E t \in Targets : VerifyTarget(t)
         \/ BeginVotes
         \/ \E vote \in VotePackets : InsertVote(vote)
  PROVE  CompletionIInv'
<1>1. UNCHANGED <<certificate, operand, context, authentication, shareBody, releases, terminal, faults>>
  BY DEF VerifyTarget, BeginVotes, InsertVote, completionState
<1>2. ASSUME target' = target \/ (target = Unset /\ target' \in Targets), VotesInv'
      PROVE  CompletionIInv'
  <2>1. /\ CompletionTypeOK' /\ StagesInv' /\ CertificateBacked'
        /\ certificate # Unset => target' = target
    BY <1>1, <1>2 DEF CompletionIInv, StagesInv, CompletionTypeOK, CertificateBacked
  <2>2. OperandInv' /\ ContextInv'
    BY <1>1 DEF CompletionIInv, OperandInv, ContextInv, authenticate
  <2>3. ReleasesInv' /\ ResultReconstructs'
    BY <1>1, <2>1 DEF CompletionIInv, ReleasesInv, ShareSigned, Released, Verifies, ResultReconstructs
  <2> QED
    BY <1>2, <2>1, <2>2, <2>3 DEF CompletionIInv
<1>3. CASE \E t \in Targets : VerifyTarget(t)
  <2>1. target = Unset /\ target' \in Targets /\ votes = Unset /\ votes' = votes
    BY <1>3 DEF VerifyTarget, completionState, CompletionIInv, VotesInv
  <2> QED
    BY <1>2, <2>1 DEF VotesInv
<1>4. CASE BeginVotes
  <2>1. target' = target /\ target # Unset
        /\ votes' = [target |-> target, slots |-> [p \in Positions |-> Unset]]
    BY <1>4 DEF BeginVotes
  <2>2. /\ votes' \in [target : {target}, slots : [Positions -> VotePackets \cup {Unset}]]
        /\ \A p \in Positions : votes'.slots[p] = Unset
    BY <2>1
  <2>3. VotesInv'
    BY <2>1, <2>2 DEF VotesInv
  <2> QED
    BY <1>2, <2>1, <2>3
<1>5. ASSUME NEW vote \in VotePackets, InsertVote(vote) PROVE CompletionIInv'
  <2>1. target' = target /\ votes # Unset
    BY <1>5 DEF InsertVote
  <2>2. CASE votes' = votes
    BY <1>2, <2>1, <2>2 DEF CompletionIInv, VotesInv
  <2>3. CASE votes' # votes
    <3>1. /\ vote.target = votes.target.id /\ vote.signer = vote.position
          /\ votes' = [votes EXCEPT !.slots[vote.position] = vote]
      BY <1>5, <2>3 DEF InsertVote, authenticate_vote
    <3>2. /\ votes \in [target : {target}, slots : [Positions -> VotePackets \cup {Unset}]]
          /\ votes.target = target /\ target # Unset
      BY <2>1 DEF CompletionIInv, VotesInv
    <3>3. /\ votes'.slots = [votes.slots EXCEPT ![vote.position] = vote]
          /\ votes' = [votes EXCEPT !.slots = votes'.slots]
      BY <3>1, <3>2
    <3>4. votes'.slots \in [Positions -> VotePackets \cup {Unset}]
      BY <3>2, <3>3
    <3>5. votes' \in [target : {target}, slots : [Positions -> VotePackets \cup {Unset}]]
      BY <3>2, <3>3, <3>4
    <3>6. ASSUME NEW p \in Positions, votes'.slots[p] # Unset
          PROVE  votes'.slots[p].target = target.id /\ votes'.slots[p].signer = p
      BY <2>1, <3>1, <3>2, <3>3, <3>6 DEF CompletionIInv, VotesInv
    <3>7. VotesInv'
      BY <2>1, <3>2, <3>5, <3>6 DEF VotesInv
    <3> QED
      BY <1>2, <2>1, <3>7
  <2> QED
    BY <2>2, <2>3
<1> QED
  BY <1>3, <1>4, <1>5

\* A certificate is of the accepted votes, each from its own position.
LEMMA CertifyStep ==
  ASSUME CompletionIInv, Certify PROVE CompletionIInv'
<1>1. /\ certificate = Unset /\ votes # Unset /\ Cardinality(Accepted) >= InventoryThreshold(Holders)
      /\ certificate' = [target |-> votes.target, votes |-> {votes.slots[p] : p \in Accepted}]
      /\ releases' = IF votes.target.ciphertext THEN [p \in Positions |-> Unset] ELSE releases
      /\ UNCHANGED <<target, votes, operand, context, authentication, shareBody, terminal, faults>>
  BY DEF Certify
<1>2. /\ votes.target = target /\ target # Unset /\ target \in Targets
      /\ \A p \in Accepted : votes.slots[p].target = target.id /\ votes.slots[p].signer = p
  BY <1>1 DEF CompletionIInv, VotesInv, CompletionTypeOK, Accepted
<1>3. certificate'.target = target /\ certificate'.votes = {votes.slots[p] : p \in Accepted}
  BY <1>1, <1>2
<1>4. operand = Unset /\ context = Unset /\ authentication = Unset /\ shareBody = Unset
  BY <1>1 DEF CompletionIInv, OperandInv, ContextInv
<1>5. CompletionTypeOK'
  BY <1>1, <1>2, <1>3 DEF CompletionIInv, CompletionTypeOK
<1>6. CertificateBacked'
  <2>1. {v.signer : v \in certificate'.votes} = Accepted
    BY <1>2, <1>3
  <2>2. \A v \in certificate'.votes : v.target = target.id
    BY <1>2, <1>3
  <2> QED
    BY <1>1, <1>3, <2>1, <2>2 DEF CertificateBacked
<1>7. VotesInv'
  BY <1>1 DEF CompletionIInv, VotesInv
<1>8. OperandInv' /\ ContextInv'
  BY <1>1, <1>4 DEF OperandInv, ContextInv
<1>9. releases' # Unset \/ votes.target.ciphertext => \A p \in Positions : releases'[p] = Unset
  BY <1>1 DEF CompletionIInv, ReleasesInv, Released
<1>10. ReleasesInv'
  <2>1. certificate'.target.ciphertext => DOMAIN releases' = Positions
    BY <1>1, <1>2, <1>3
  <2> QED
    BY <1>2, <1>3, <1>9, <2>1 DEF ReleasesInv, Released
<1>11. terminal' = Unset
  BY <1>1 DEF CompletionIInv, StagesInv
<1> QED
  BY <1>1, <1>2, <1>5, <1>6, <1>7, <1>8, <1>10, <1>11 DEF CompletionIInv, StagesInv, ResultReconstructs

\* A verification is begun anew, and its operands are read, with nothing of an
\* earlier one left.
LEMMA OperandSteps ==
  ASSUME CompletionIInv,
         \/ \E p \in Positions : BeginShareConstant(p)
         \/ \E kind \in {"right", "altered", "misplaced"} : PushOperand(kind)
         \/ FinishOperand
  PROVE  CompletionIInv'
<1>1. UNCHANGED <<target, votes, certificate, releases, terminal>>
  BY DEF BeginShareConstant, PushOperand, FinishOperand
<1>2. faults \in 0 .. MaxFaults
  BY DEF CompletionIInv, CompletionTypeOK
<1>3. ASSUME faults' \in 0 .. MaxFaults, context' \in Positions \cup {Unset},
             OperandInv', ContextInv'
      PROVE  CompletionIInv'
  <2>1. CompletionTypeOK'
    BY <1>1, <1>3 DEF CompletionIInv, CompletionTypeOK
  <2> QED
    BY <1>1, <1>3, <2>1, SettledKept DEF CompletionIInv
<1>4. ASSUME NEW p \in Positions, BeginShareConstant(p) PROVE CompletionIInv'
  <2>1. /\ certificate # Unset /\ certificate.target.ciphertext
        /\ operand' = [position |-> p, reader |-> NewReader, constant |-> FALSE]
        /\ context' = Unset /\ authentication' = Unset /\ shareBody' = Unset
        /\ Fault(Unfinished \/ ~Wanted(p))
    BY <1>4 DEF BeginShareConstant
  <2>2. faults' \in 0 .. MaxFaults
    BY <1>2, <2>1, FaultBounded
  <2>3. "position" \in DOMAIN operand' /\ operand'.position = p
    BY <2>1
  <2>4. OperandInv' /\ ContextInv'
    BY <1>1, <2>1, <2>3 DEF OperandInv, ContextInv
  <2> QED
    BY <1>3, <2>1, <2>2, <2>4
<1>5. ASSUME operand # Unset
      PROVE  /\ certificate # Unset /\ certificate.target.ciphertext
             /\ "position" \in DOMAIN operand /\ operand.position \in Positions
             /\ context = Unset /\ authentication = Unset /\ shareBody = Unset
  BY <1>5 DEF CompletionIInv, OperandInv
<1>6. ASSUME NEW kind \in {"right", "altered", "misplaced"}, PushOperand(kind) PROVE CompletionIInv'
  <2> DEFINE reader == operand.reader
             read == IF reader.failed \/ kind = "misplaced" \/ reader.offset = OperandParts
                     THEN [reader EXCEPT !.failed = TRUE]
                     ELSE [reader EXCEPT !.offset = @ + 1, !.exact = @ /\ kind = "right"]
             wrong == reader.failed \/ kind # "right" \/ reader.offset = OperandParts
  <2>1. /\ operand # Unset /\ operand' = [operand EXCEPT !.reader = read] /\ Fault(wrong)
        /\ UNCHANGED <<context, authentication, shareBody>>
    BY <1>6 DEF PushOperand
  <2>2. wrong \in BOOLEAN
    OBVIOUS
  <2> HIDE DEF read, wrong
  <2>3. faults' \in 0 .. MaxFaults
    BY <1>2, <2>1, <2>2, FaultBounded
  <2>4. "position" \in DOMAIN operand' /\ operand'.position = operand.position
    BY <1>5, <2>1
  <2>5. OperandInv' /\ ContextInv'
    BY <1>1, <1>5, <2>1, <2>4 DEF OperandInv, ContextInv
  <2> QED
    BY <1>3, <1>5, <2>1, <2>3, <2>5
<1>7. CASE FinishOperand
  <2>1. /\ operand # Unset /\ UNCHANGED <<authentication, shareBody>>
        /\ Fault(operand.reader.offset < OperandParts /\ ReaderRight)
    BY <1>7 DEF FinishOperand
  <2>2. faults' \in 0 .. MaxFaults
    BY <1>2, <2>1, FaultBounded
  <2>3. \/ operand' = Unset /\ context' = context
        \/ operand' = Unset /\ context' = operand.position
        \/ operand' = [operand EXCEPT !.reader = NewReader, !.constant = TRUE] /\ context' = context
    BY <1>7 DEF FinishOperand
  <2>4. operand' = Unset \/ ("position" \in DOMAIN operand' /\ operand'.position = operand.position
                            /\ context' = context)
    BY <1>5, <2>1, <2>3
  <2>5. context' \in Positions \cup {Unset}
    BY <1>5, <2>1, <2>3
  <2>6. OperandInv' /\ ContextInv'
    BY <1>1, <1>5, <2>1, <2>4 DEF OperandInv, ContextInv
  <2> QED
    BY <1>3, <2>2, <2>5, <2>6
<1> QED
  BY <1>4, <1>6, <1>7

\* An envelope is taken for the context's position, and a body streamed under it.
LEMMA BodySteps ==
  ASSUME CompletionIInv,
         \/ \E packet \in EnvelopePackets : AuthenticateRelease(packet)
         \/ BeginReleaseBody
         \/ \E piece \in Partials \cup ProofPieces, early \in BOOLEAN : PushReleaseBody(piece, early)
  PROVE  CompletionIInv'
<1>1. UNCHANGED <<target, votes, certificate, releases, terminal, operand, context>>
  BY DEF AuthenticateRelease, BeginReleaseBody, PushReleaseBody
<1>2. faults \in 0 .. MaxFaults
  BY DEF CompletionIInv, CompletionTypeOK
<1>3. context # Unset /\ operand = Unset
  BY DEF AuthenticateRelease, BeginReleaseBody, PushReleaseBody, CompletionIInv, ContextInv, OperandInv
<1>4. ASSUME faults' \in 0 .. MaxFaults, ContextInv' PROVE CompletionIInv'
  <2>1. CompletionTypeOK' /\ OperandInv'
    BY <1>1, <1>3, <1>4 DEF CompletionIInv, CompletionTypeOK, OperandInv
  <2> QED
    BY <1>1, <1>4, <2>1, SettledKept DEF CompletionIInv
<1>5. ASSUME NEW packet \in EnvelopePackets, AuthenticateRelease(packet) PROVE CompletionIInv'
  <2>1. /\ authentication = Unset /\ authenticate(packet) /\ authentication' = packet /\ shareBody' = shareBody
        /\ Fault(packet \notin Offered)
    BY <1>5 DEF AuthenticateRelease
  <2>2. faults' \in 0 .. MaxFaults
    BY <1>2, <2>1, FaultBounded
  <2>3. shareBody = Unset
    BY <2>1 DEF CompletionIInv, ContextInv
  <2>4. ContextInv'
    BY <1>1, <1>3, <2>1, <2>3 DEF CompletionIInv, ContextInv, authenticate
  <2> QED
    BY <1>4, <2>2, <2>4
<1>6. CASE BeginReleaseBody
  <2>1. /\ authentication # Unset /\ faults' = faults /\ authentication' = authentication
        /\ shareBody' = [position |-> context, received |-> <<>>, failed |-> FALSE]
    BY <1>6 DEF BeginReleaseBody
  <2>2. "position" \in DOMAIN shareBody' /\ shareBody'.position = context
    BY <2>1
  <2>3. ContextInv'
    BY <1>1, <2>1, <2>2 DEF CompletionIInv, ContextInv, authenticate
  <2> QED
    BY <1>2, <1>4, <2>1, <2>3
<1>7. ASSUME NEW piece, NEW early, PushReleaseBody(piece, early) PROVE CompletionIInv'
  <2> DEFINE received == Append(shareBody.received, piece)
             fails == \/ shareBody.failed \/ Len(received) > 3
                      \/ Len(received) = 2 /\ received[1] = Undecodable
                      \/ Len(received) = 3 /\ ~Verifies(shareBody.position, received) /\ early
             wrong == fails \/ received # SubSeq(authentication.body, 1, Len(received))
  <2>1. /\ shareBody # Unset /\ authentication' = authentication /\ Fault(wrong)
        /\ shareBody' = IF fails THEN [shareBody EXCEPT !.failed = TRUE] ELSE [shareBody EXCEPT !.received = received]
    BY <1>7 DEF PushReleaseBody
  <2>2. wrong \in BOOLEAN
    OBVIOUS
  <2> HIDE DEF received, fails, wrong
  <2>3. faults' \in 0 .. MaxFaults
    BY <1>2, <2>1, <2>2, FaultBounded
  <2>4. authentication # Unset /\ "position" \in DOMAIN shareBody /\ shareBody.position = context
    BY <2>1 DEF CompletionIInv, ContextInv
  <2>5. "position" \in DOMAIN shareBody' /\ shareBody'.position = context
    BY <2>1, <2>4
  <2>6. ContextInv'
    BY <1>1, <2>1, <2>4, <2>5 DEF CompletionIInv, ContextInv, authenticate
  <2> QED
    BY <1>4, <2>3, <2>6
<1> QED
  BY <1>5, <1>6, <1>7

\* A finished share is the body that the context's position signed.
LEMMA FinishStep ==
  ASSUME CompletionIInv, FinishRelease PROVE CompletionIInv'
<1>1. /\ shareBody # Unset /\ shareBody' = Unset
      /\ UNCHANGED <<target, votes, certificate, operand, terminal>>
      /\ Fault(BodyRight /\ Len(shareBody.received) < 3)
  BY DEF FinishRelease
<1>2. /\ authentication # Unset /\ shareBody.position = context /\ context # Unset
      /\ authentication \in EnvelopePackets /\ authenticate(authentication)
      /\ certificate # Unset /\ certificate.target.ciphertext
      /\ operand = Unset /\ DOMAIN releases = Positions /\ context \in Positions
      /\ certificate.target = target
  BY <1>1 DEF CompletionIInv, ContextInv, OperandInv, ReleasesInv, CompletionTypeOK, CertificateBacked
<1>3. faults' \in 0 .. MaxFaults
  <2>1. faults \in 0 .. MaxFaults
    BY DEF CompletionIInv, CompletionTypeOK
  <2> QED
    BY <1>1, <2>1, FaultBounded
<1>4. /\ authentication' \in {authentication, Unset} /\ context' \in {context, Unset}
      /\ authentication' # Unset => context' = context
  BY <1>2 DEF FinishRelease
<1>5. CompletionTypeOK'
  BY <1>1, <1>2, <1>3, <1>4 DEF CompletionIInv, CompletionTypeOK
<1>6. StagesInv' /\ CertificateBacked' /\ VotesInv' /\ OperandInv'
  BY <1>1, <1>2 DEF CompletionIInv, StagesInv, CertificateBacked, VotesInv, OperandInv
<1>7. ContextInv'
  BY <1>1, <1>2, <1>4 DEF ContextInv, authenticate
<1>8. ResultReconstructs'
  BY <1>1 DEF CompletionIInv, ResultReconstructs, Verifies
<1>9. ReleasesInv'
  <2>1. CASE releases' = releases
    BY <1>1, <2>1 DEF CompletionIInv, ReleasesInv, ShareSigned, Released, Verifies
  <2>2. CASE releases' # releases
    <3>1. /\ BodyFinishes /\ Authenticated(authentication, shareBody)
          /\ releases' = [releases EXCEPT ![context] = shareBody.received]
      BY <1>2, <2>2 DEF FinishRelease
    <3>2. /\ Verifies(context, shareBody.received)
          /\ authentication.signer = context /\ authentication.position = context
          /\ authentication.target = target.id /\ authentication.body = shareBody.received
      BY <1>2, <3>1 DEF BodyFinishes, Authenticated, authenticate
    <3>3. DOMAIN releases' = Positions
      BY <1>2, <3>1
    <3>4. ASSUME NEW p \in Positions, releases'[p] # Unset
          PROVE  /\ Verifies(p, releases'[p])
                 /\ \E e \in EnvelopePackets : /\ e.signer = p /\ e.position = p
                                               /\ e.target = target.id /\ e.body = releases'[p]
      <4>1. CASE p = context
        <5>1. releases'[p] = shareBody.received
          BY <1>2, <3>1, <4>1
        <5> QED
          BY <1>2, <3>2, <4>1, <5>1
      <4>2. CASE p # context
        <5>1. releases'[p] = releases[p] /\ p \in Released
          BY <1>2, <3>1, <3>4, <4>2 DEF Released
        <5> QED
          BY <1>2, <5>1 DEF CompletionIInv, ReleasesInv, ShareSigned
      <4> QED
        BY <4>1, <4>2
    <3>5. ASSUME NEW p \in Positions, Verifies(p, releases'[p]) PROVE Verifies(p, releases[p])'
      BY <1>1, <3>5 DEF Verifies
    <3> QED
      BY <1>1, <1>2, <3>3, <3>4, <3>5 DEF ReleasesInv, ShareSigned, Released
  <2> QED
    BY <2>1, <2>2
<1> QED
  BY <1>5, <1>6, <1>7, <1>8, <1>9 DEF CompletionIInv

\* A result is of the first accepted shares, which were all verified.
LEMMA ResultStep ==
  ASSUME CompletionIInv, Result PROVE CompletionIInv'
<1>1. /\ certificate # Unset
      /\ UNCHANGED <<target, votes, certificate, operand, context, authentication, shareBody, releases, faults>>
  BY DEF Result
<1>2. CompletionTypeOK' /\ StagesInv' /\ CertificateBacked' /\ VotesInv' /\ OperandInv'
  BY <1>1 DEF CompletionIInv, CompletionTypeOK, StagesInv, CertificateBacked, VotesInv, OperandInv
<1>3. ContextInv' /\ ReleasesInv'
  BY <1>1 DEF CompletionIInv, ContextInv, authenticate, ReleasesInv, ShareSigned, Released, Verifies
<1>4. ResultReconstructs'
  <2>1. CASE terminal' = terminal
    BY <1>1, <2>1 DEF CompletionIInv, ResultReconstructs, Verifies
  <2>2. CASE ~certificate.target.ciphertext /\ terminal' = [result |-> FALSE]
    <3>1. certificate.target.ciphertext = FALSE
      BY <1>1, <2>2, CompletionAssumption DEF CompletionIInv, CompletionTypeOK
    <3> QED
      BY <1>1, <2>2, <3>1 DEF ResultReconstructs
  <2>3. CASE /\ certificate.target.ciphertext /\ certificate.target.decodes
             /\ Cardinality(Chosen) = ReleaseThreshold(Holders)
             /\ terminal' = [result |-> TRUE, shares |-> [p \in Chosen |-> releases[p]]]
    <3>1. certificate.target.ciphertext = TRUE
      BY <1>1, <2>3, CompletionAssumption DEF CompletionIInv, CompletionTypeOK
    <3>2. /\ terminal'.result = TRUE /\ DOMAIN terminal'.shares = Chosen
          /\ \A p \in Chosen : terminal'.shares[p] = releases[p]
      BY <2>3
    <3>3. \A p \in Chosen : Verifies(p, releases[p])
      BY <1>1, <2>3 DEF CompletionIInv, ReleasesInv, Chosen
    <3>4. ASSUME NEW p \in Chosen PROVE Verifies(p, terminal.shares[p])'
      BY <1>1, <3>2, <3>3 DEF Verifies
    <3> HIDE DEF Chosen
    <3> QED
      BY <1>1, <2>3, <3>1, <3>2, <3>4 DEF ResultReconstructs
  <2> QED
    BY <2>1, <2>2, <2>3 DEF Result
<1> QED
  BY <1>2, <1>3, <1>4 DEF CompletionIInv

\* Every step of a completion keeps its invariant.
LEMMA CompletionStep ==
  ASSUME CompletionIInv, [CompletionNext]_completionVars PROVE CompletionIInv'
<1>1. CASE CompletionNext
  BY <1>1, VoteSteps, CertifyStep, OperandSteps, BodySteps, FinishStep, ResultStep DEF CompletionNext
<1>2. CASE UNCHANGED completionVars
  <2>1. CompletionTypeOK' /\ OperandInv' /\ ContextInv'
    BY <1>2 DEF completionVars, completionState, CompletionIInv, CompletionTypeOK, OperandInv,
         ContextInv, authenticate
  <2> QED
    BY <1>2, <2>1, SettledKept DEF completionVars, completionState, CompletionIInv
<1> QED
  BY <1>1, <1>2

\* For every roster, and whatever a host hands in, the work of a share belongs to
\* the position it was begun for.
THEOREM CompletionInvariant == CompletionSpec => []CompletionIInv
<1>1. CompletionInit => CompletionIInv
  BY CompletionAssumption DEF CompletionInit, CompletionIInv, CompletionTypeOK, StagesInv,
       CertificateBacked, VotesInv, OperandInv, ContextInv, ReleasesInv, ResultReconstructs
<1>2. CompletionIInv /\ [CompletionNext]_completionVars => CompletionIInv'
  BY CompletionStep
<1> QED
  BY <1>1, <1>2, PTL DEF CompletionSpec

\* For every roster a certificate rests on a quorum of own votes for the verified
\* target, an accepted share is signed by its position and verified, and a result
\* is reconstructed from as many verified shares of different positions as it needs.
THEOREM CompletionIsSound == CompletionSpec => []CompletionSound
<1>1. CompletionIInv => CompletionSound
  BY DEF CompletionIInv, ReleasesInv, SharesSigned, CompletionSound
<1> QED
  BY <1>1, CompletionInvariant, PTL

\* For every roster no step takes back a vote, the certificate, an accepted share
\* or the terminal, however often a verification is begun again.
THEOREM CompletionIsIrrevocable == CompletionSpec => Irrevocable
<1>1. CompletionIInv /\ [CompletionNext]_completionVars => [StaysAccepted]_completionVars
  <2> SUFFICES ASSUME CompletionIInv, CompletionNext PROVE StaysAccepted
    BY DEF StaysAccepted
  <2>1. certificate # Unset => certificate' = certificate
    BY DEF CompletionNext, VerifyTarget, completionState, BeginVotes, InsertVote, Certify,
         BeginShareConstant, PushOperand,
         FinishOperand, AuthenticateRelease, BeginReleaseBody, PushReleaseBody, FinishRelease, Result
  <2>2. terminal # Unset => terminal' = terminal
    BY DEF CompletionNext, VerifyTarget, completionState, BeginVotes, InsertVote, Certify,
         BeginShareConstant, PushOperand,
         FinishOperand, AuthenticateRelease, BeginReleaseBody, PushReleaseBody, FinishRelease, Result
  <2>3. ASSUME votes # Unset, NEW p \in Positions, votes.slots[p] # Unset
        PROVE  votes'.slots[p] = votes.slots[p]
    <3>1. votes' = votes \/ \E vote \in VotePackets : InsertVote(vote)
      BY <2>3 DEF CompletionNext, VerifyTarget, completionState, BeginVotes, Certify,
           BeginShareConstant, PushOperand,
           FinishOperand, AuthenticateRelease, BeginReleaseBody, PushReleaseBody, FinishRelease, Result
    <3>2. ASSUME NEW vote \in VotePackets, InsertVote(vote) PROVE votes'.slots[p] = votes.slots[p]
      <4>1. \/ votes' = votes
            \/ votes.slots[vote.position] = Unset /\ votes' = [votes EXCEPT !.slots[vote.position] = vote]
        BY <3>2 DEF InsertVote
      <4>2. votes \in [target : {target}, slots : [Positions -> VotePackets \cup {Unset}]]
        BY <2>3 DEF CompletionIInv, VotesInv
      <4> QED
        BY <2>3, <4>1, <4>2
    <3> QED
      BY <3>1, <3>2
  <2>4. ASSUME releases # Unset, NEW p \in Positions, releases[p] # Unset
        PROVE  releases'[p] = releases[p]
    <3>1. p \in Released
      BY <2>4 DEF Released
    <3>2. certificate # Unset /\ DOMAIN releases = Positions
      BY <2>4, <3>1 DEF CompletionIInv, ReleasesInv
    <3>3. releases' = releases \/ FinishRelease
      BY <3>2 DEF CompletionNext, VerifyTarget, completionState, BeginVotes, InsertVote, Certify,
           BeginShareConstant,
           PushOperand, FinishOperand, AuthenticateRelease, BeginReleaseBody, PushReleaseBody, Result
    <3>4. \/ releases' = releases
          \/ releases[shareBody.position] = Unset /\ releases' = [releases EXCEPT ![shareBody.position] = shareBody.received]
      BY <3>3 DEF FinishRelease
    <3> QED
      BY <2>4, <3>2, <3>4
  <2> QED
    BY <2>1, <2>2, <2>3, <2>4 DEF StaysAccepted
<1> QED
  BY <1>1, CompletionInvariant, PTL DEF CompletionSpec, Irrevocable
====
