---------------------------- MODULE Credential ----------------------------
(* One participant's credential and the private work that signs with it     *)
(* (protocol-foundations ballot-authentication.rs, close-signing.rs,        *)
(* target-signing.rs, release-signing.rs and custody.rs; participant-module *)
(* ballot.rs, release-body.rs, release-work.rs, finality-work.rs).  A host  *)
(* calls in any order.  A visit's credential is opened anew, with only the  *)
(* purposes unlocked that the root shows unused; the completed messages are *)
(* restored when close work begins.  That a frame is retained before it is  *)
(* signed, and what happens when a visit ends in between, is in Custody:    *)
(* here a signature and its retention are one step.                         *)
EXTENDS Integers, FiniteSets

CONSTANTS
  Ballots,      \* the envelopes this participant can form
  BallotTime,   \* an envelope's ballot time
  Intents,      \* the close intents an organizer can sign
  CloseTime,    \* an intent's close time
  Targets,      \* evaluated targets, certified ones among them
  ResultTargets,\* those with a result
  BodyChunks,   \* the chunks of a ballot or release body
  NoMessage     \* what stands for none

Responses == [intent : Intents, listed : SUBSET Ballots]
Proposals == [intent : Intents, response : Responses]
Messages == Ballots \cup Intents \cup Responses \cup Proposals \cup Targets

ASSUME CredentialAssumption ==
  /\ BallotTime \in [Ballots -> Nat] /\ CloseTime \in [Intents -> Nat]
  /\ ResultTargets \subseteq Targets /\ BodyChunks \in Nat \ {0}
  /\ NoMessage \notin Messages

\* In the order of the root's generations.
KeyPurposes == {"ballot", "intent", "response", "proposal", "target", "release"}
Rank ==
  [p \in KeyPurposes |->
     CASE p = "ballot" -> 1 [] p = "intent" -> 2 [] p = "response" -> 3
       [] p = "proposal" -> 4 [] p = "target" -> 5 [] p = "release" -> 6]

VARIABLES
  organizer,  \* whether this participant is the organizer
  kept,       \* root: the completed message of each purpose, the locked intent, the begun release
  cred,       \* the visit's credential
  closing,    \* whether close work has begun in this visit
  ballot,     \* the visit's ballot work
  release,    \* the visit's own release body
  frames      \* history: every message signed, and whether its body was verified

credentialVars == <<organizer, kept, cred, closing, ballot, release, frames>>
work == <<closing, ballot, release>>

\* A credential opened with the given purposes locked.
Opened(locked) ==
  [locked |-> locked, ballot |-> NoMessage, attempted |-> FALSE, intentSigned |-> FALSE,
   lock |-> NoMessage, response |-> NoMessage, proposalSigned |-> FALSE, target |-> NoMessage,
   targetSigned |-> FALSE, releaseStarted |-> FALSE, releaseSigned |-> FALSE]

NoBallotWork == [phase |-> "empty", envelope |-> NoMessage, chunks |-> 0, sound |-> TRUE]
NoRelease == [phase |-> "empty", target |-> NoMessage, chunks |-> 0, sound |-> TRUE]

CredentialInit ==
  /\ organizer \in BOOLEAN
  /\ kept = [signed |-> [p \in KeyPurposes |-> NoMessage], lock |-> NoMessage, releasing |-> NoMessage]
  /\ cred = Opened({})
  /\ closing = FALSE /\ ballot = NoBallotWork /\ release = NoRelease
  /\ frames = {}

----
(* Custody *)

\* The purposes that the root's generation has not passed.
Unused ==
  {p \in KeyPurposes :
     /\ \A q \in KeyPurposes : Rank[q] >= Rank[p] => kept.signed[q] = NoMessage
     /\ kept.lock # NoMessage => Rank[p] > Rank["intent"]
     /\ kept.releasing # NoMessage => p = "release"}

\* A visit ends and another opens the sealed credential.
OpenVisit ==
  /\ cred' = Opened(KeyPurposes \ Unused)
  /\ closing' = FALSE /\ ballot' = NoBallotWork /\ release' = NoRelease
  /\ UNCHANGED <<organizer, kept, frames>>

\* Close work begins once in a visit, before ballot work, and restores the
\* completed messages: a ballot, the locked intent, the close messages, the vote.
BeginClose ==
  /\ ~closing /\ ballot.phase = "empty" /\ cred.ballot = NoMessage
  /\ closing' = TRUE
  /\ cred' = [cred EXCEPT !.ballot = kept.signed["ballot"],
                          !.lock = kept.lock,
                          !.intentSigned = kept.signed["intent"] # NoMessage,
                          !.response = kept.signed["response"],
                          !.proposalSigned = kept.signed["proposal"] # NoMessage,
                          !.target = kept.signed["target"],
                          !.targetSigned = kept.signed["target"] # NoMessage]
  /\ UNCHANGED <<organizer, kept, ballot, release, frames>>

Unlocked(p) == p \notin cred.locked

\* The message is signed and retained.
Signed(p, value, verified) ==
  /\ frames' = frames \cup {[purpose |-> p, value |-> value, verified |-> verified]}
  /\ kept' = [kept EXCEPT !.signed[p] = value]

----
(* Ballot work *)

\* The encryption key is delivered in chunks; a failed delivery ends the work.
DeliverKey ==
  /\ ballot.phase = "empty"
  /\ \E phase \in {"keyed", "failed"} : ballot' = [ballot EXCEPT !.phase = phase]
  /\ UNCHANGED <<organizer, kept, cred, closing, release, frames>>

\* No attempt starts after an authenticated close intent.
Reserve ==
  /\ Unlocked("ballot") /\ cred.ballot = NoMessage /\ cred.lock = NoMessage
  /\ cred' = [cred EXCEPT !.attempted = TRUE]

\* A ballot is created from the seed that the root retains.
CreateBallot(b) ==
  /\ ballot.phase = "keyed"
  /\ Reserve
  /\ ballot' = [ballot EXCEPT !.phase = "ready", !.envelope = b]
  /\ UNCHANGED <<organizer, kept, closing, release, frames>>

\* A retained unsigned ballot is imported, chunk by chunk; the records may be
\* altered, so sound says whether the chunks are those of the envelope.
BeginBallotImport(b) ==
  /\ ballot.phase = "keyed"
  /\ ballot' = [ballot EXCEPT !.phase = "importing", !.envelope = b]
  /\ UNCHANGED <<organizer, kept, cred, closing, release, frames>>

PushBallotImport(n, sound) ==
  /\ ballot.phase = "importing"
  /\ ballot' = IF n = 0 \/ n > BodyChunks - ballot.chunks
               THEN [ballot EXCEPT !.phase = "failed"]
               ELSE [ballot EXCEPT !.chunks = @ + n, !.sound = @ /\ sound]
  /\ UNCHANGED <<organizer, kept, cred, closing, release, frames>>

Complete(body) == body.chunks = BodyChunks /\ body.sound

\* The complete body is verified against the envelope.
FinishBallotImport ==
  /\ ballot.phase = "importing"
  /\ ballot' = [ballot EXCEPT !.phase = IF Complete(ballot) THEN "ready" ELSE "failed"]
  /\ UNCHANGED <<organizer, kept, cred, closing, release, frames>>

\* An attempt reserved before the close intent completes; a new one never starts.
SignBallot ==
  /\ ballot.phase = "ready"
  /\ Unlocked("ballot") /\ cred.ballot = NoMessage
  /\ cred.lock # NoMessage => cred.attempted
  /\ cred' = [cred EXCEPT !.ballot = ballot.envelope]
  /\ ballot' = [ballot EXCEPT !.phase = "signed"]
  /\ Signed("ballot", ballot.envelope, Complete(ballot) \/ cred.attempted)
  /\ UNCHANGED <<organizer, closing, release>>

----
(* Close messages *)

\* The organizer's one intent, which it also locks.
SignIntent(i) ==
  /\ closing /\ organizer
  /\ Unlocked("intent") /\ ~cred.intentSigned /\ cred.lock \in {NoMessage, i}
  /\ cred' = [cred EXCEPT !.intentSigned = TRUE, !.lock = i]
  /\ frames' = frames \cup {[purpose |-> "intent", value |-> i, verified |-> TRUE]}
  /\ kept' = [kept EXCEPT !.signed["intent"] = i, !.lock = i]
  /\ UNCHANGED <<organizer, work>>

\* Mutant: another intent replaces the locked one.
ReplacingLockIntent(i) ==
  /\ closing
  /\ organizer => kept.signed["intent"] = i
  /\ cred' = [cred EXCEPT !.lock = i]
  /\ kept' = [kept EXCEPT !.lock = i]
  /\ UNCHANGED <<organizer, work, frames>>

\* The first intent that carries the organizer's signature is locked.
LockIntent(i) ==
  /\ closing
  /\ organizer => kept.signed["intent"] = i
  /\ cred.lock \in {NoMessage, i}
  /\ cred' = [cred EXCEPT !.lock = i]
  /\ kept' = [kept EXCEPT !.lock = i]
  /\ UNCHANGED <<organizer, work, frames>>

\* Mutant: a response is signed while a reserved ballot is unsigned.
EarlyRespondable(r) ==
  /\ cred.lock = r.intent
  /\ cred.ballot # NoMessage /\ BallotTime[cred.ballot] <= CloseTime[r.intent] => cred.ballot \in r.listed

\* A reserved ballot completes first, and an own on-time ballot is listed.
Respondable(r) ==
  /\ cred.lock = r.intent
  /\ cred.attempted => cred.ballot # NoMessage
  /\ cred.ballot # NoMessage /\ BallotTime[cred.ballot] <= CloseTime[r.intent] => cred.ballot \in r.listed

SignResponse(r) ==
  /\ closing
  /\ Unlocked("response") /\ cred.response = NoMessage
  /\ Respondable(r)
  /\ cred' = [cred EXCEPT !.response = r]
  /\ Signed("response", r, TRUE)
  /\ UNCHANGED <<organizer, work>>

\* A proposal, by its intent and its response in the organizer's name.
SignProposal(i, r) ==
  /\ closing /\ organizer
  /\ Unlocked("proposal") /\ ~cred.proposalSigned
  /\ cred.intentSigned /\ cred.lock = i /\ cred.response = r
  /\ cred' = [cred EXCEPT !.proposalSigned = TRUE]
  /\ Signed("proposal", [intent |-> i, response |-> r], TRUE)
  /\ UNCHANGED <<organizer, work>>

----
(* Targets and releases *)

Predecessors == cred.response # NoMessage /\ (organizer => cred.proposalSigned)

\* An evaluated target whose used response in this participant's name, if any,
\* is the one it signed; the caller's evaluation decides which targets come.
SignTarget(t) ==
  /\ closing
  /\ cred.target \in {NoMessage, t} /\ Predecessors
  /\ Unlocked("target") /\ ~cred.targetSigned
  /\ cred' = [cred EXCEPT !.targetSigned = TRUE, !.target = t]
  /\ Signed("target", t, TRUE)
  /\ UNCHANGED <<organizer, work>>

\* The release of a certified target with a result, which the root retains first.
BeginRelease(t) ==
  /\ closing /\ release.phase = "empty" /\ kept.releasing \in {NoMessage, t}
  /\ cred.target \in {NoMessage, t} /\ Predecessors
  /\ Unlocked("release") /\ t \in ResultTargets /\ ~cred.releaseStarted
  /\ cred' = [cred EXCEPT !.target = t, !.releaseStarted = TRUE]
  /\ kept' = [kept EXCEPT !.releasing = t]

\* A release is proved here, and its body verified as any other; a failed proof
\* leaves the release begun.
CreateRelease(t) ==
  /\ BeginRelease(t)
  /\ \/ release' = [phase |-> "ready", target |-> t, chunks |-> BodyChunks, sound |-> TRUE]
     \/ UNCHANGED release
  /\ UNCHANGED <<organizer, closing, ballot, frames>>

\* A retained unsigned body is imported.
BeginReleaseImport(t) ==
  /\ BeginRelease(t)
  /\ release' = [NoRelease EXCEPT !.phase = "importing", !.target = t]
  /\ UNCHANGED <<organizer, closing, ballot, frames>>

\* A refused chunk closes the import.
PushReleaseImport(n, sound) ==
  /\ release.phase = "importing"
  /\ release' = IF n = 0 \/ n > BodyChunks - release.chunks
                THEN [release EXCEPT !.phase = "closed"]
                ELSE [release EXCEPT !.chunks = @ + n, !.sound = @ /\ sound]
  /\ UNCHANGED <<organizer, kept, cred, closing, ballot, frames>>

FinishReleaseImport ==
  /\ release.phase = "importing"
  /\ release' = [release EXCEPT !.phase = IF Complete(release) THEN "ready" ELSE "closed"]
  /\ UNCHANGED <<organizer, kept, cred, closing, ballot, frames>>

SignRelease ==
  /\ release.phase = "ready"
  /\ Predecessors /\ cred.releaseStarted /\ ~cred.releaseSigned
  /\ cred.target = release.target
  /\ cred' = [cred EXCEPT !.releaseSigned = TRUE]
  /\ Signed("release", release.target, Complete(release))
  /\ UNCHANGED <<organizer, work>>

----
CredentialNext ==
  \/ OpenVisit \/ BeginClose \/ DeliverKey \/ FinishBallotImport \/ SignBallot
  \/ \E b \in Ballots : CreateBallot(b) \/ BeginBallotImport(b)
  \/ \E n \in 0..BodyChunks, sound \in BOOLEAN :
       PushBallotImport(n, sound) \/ PushReleaseImport(n, sound)
  \/ \E i \in Intents : SignIntent(i) \/ LockIntent(i)
  \/ \E r \in Responses : SignResponse(r)
  \/ \E i \in Intents, r \in Responses : SignProposal(i, r)
  \/ \E t \in Targets : SignTarget(t) \/ CreateRelease(t) \/ BeginReleaseImport(t)
  \/ FinishReleaseImport \/ SignRelease

CredentialSpec == CredentialInit /\ [][CredentialNext]_credentialVars

----
Frames(p) == {f \in frames : f.purpose = p}

Optional(S) == S \cup {NoMessage}

KeptRoots ==
  [signed : [KeyPurposes -> Optional(Messages)], lock : Optional(Intents), releasing : Optional(Targets)]
Credentials ==
  [locked : SUBSET KeyPurposes, ballot : Optional(Ballots), attempted : BOOLEAN,
   intentSigned : BOOLEAN, lock : Optional(Intents), response : Optional(Responses),
   proposalSigned : BOOLEAN, target : Optional(Targets), targetSigned : BOOLEAN,
   releaseStarted : BOOLEAN, releaseSigned : BOOLEAN]
BallotWorks ==
  [phase : {"empty", "keyed", "importing", "ready", "signed", "failed"},
   envelope : Optional(Ballots), chunks : 0..BodyChunks, sound : BOOLEAN]
ReleaseBodies ==
  [phase : {"empty", "importing", "ready", "closed"},
   target : Optional(Targets), chunks : 0..BodyChunks, sound : BOOLEAN]
SignedMessages == [purpose : KeyPurposes, value : Messages, verified : BOOLEAN]

CredentialTypeOK ==
  /\ organizer \in BOOLEAN /\ closing \in BOOLEAN
  /\ kept \in KeptRoots
  /\ kept.signed["ballot"] \in Optional(Ballots)
  /\ kept.signed["response"] \in Optional(Responses)
  /\ kept.signed["target"] \in Optional(Targets)
  /\ cred \in Credentials
  /\ ballot \in BallotWorks /\ release \in ReleaseBodies
  /\ frames \subseteq SignedMessages

\* A one-time key signs one message of each purpose, over any number of visits
\* whose credentials remember nothing.
OneMessagePerKey ==
  \A p \in KeyPurposes : \A f, g \in Frames(p) : f.value = g.value

\* A response lists the ballot that its signer signed on time, whether it was
\* signed before the response or is signed at any later point: no honest voter
\* is missing from its own listing.
OwnBallotListed ==
  \A f \in Frames("ballot"), g \in Frames("response") :
    BallotTime[f.value] <= CloseTime[g.value.intent] => f.value \in g.value.listed

\* The signed messages of a participant agree: the response answers the locked
\* intent, and the organizer's proposal follows its own intent and response.
MessagesChain ==
  /\ \A g \in Frames("response") : kept.lock = g.value.intent
  /\ organizer => \A f \in Frames("intent"), g \in Frames("response") : g.value.intent = f.value
  /\ \A h \in Frames("proposal") :
       /\ [purpose |-> "intent", value |-> h.value.intent, verified |-> TRUE] \in frames
       /\ [purpose |-> "response", value |-> h.value.response, verified |-> TRUE] \in frames

\* A participant that votes for a target releases no other one, in whichever
\* order and visits it does both.
OneTarget ==
  \A f \in Frames("target"), g \in Frames("release") : f.value = g.value

\* Only complete bodies that were created here or verified are signed for.
SignedBodiesVerified == \A f \in frames : f.verified

\* Over any number of visits, everything one credential signs agrees: one verified
\* message of a purpose, each following from the others, and one target.
SignedAgree ==
  /\ CredentialTypeOK /\ OneMessagePerKey /\ MessagesChain
  /\ OneTarget /\ SignedBodiesVerified

----
(* What the visits, the root and the signed messages keep between them.     *)

\* The root retains what was signed, and the parents of a proposal are among it.
RootRetains ==
  /\ \A f \in frames : kept.signed[f.purpose] = f.value
  /\ \A p \in {"intent", "response"} :
       kept.signed[p] # NoMessage => [purpose |-> p, value |-> kept.signed[p], verified |-> TRUE] \in frames

\* What the credential may still sign, no visit has signed.
OpenIsUnsigned ==
  /\ Unlocked("ballot") /\ cred.ballot = NoMessage => kept.signed["ballot"] = NoMessage
  /\ Unlocked("intent") /\ ~cred.intentSigned => kept.signed["intent"] = NoMessage
  /\ Unlocked("response") /\ cred.response = NoMessage => kept.signed["response"] = NoMessage
  /\ Unlocked("proposal") /\ ~cred.proposalSigned => kept.signed["proposal"] = NoMessage
  /\ Unlocked("target") /\ ~cred.targetSigned => kept.signed["target"] = NoMessage
  /\ Unlocked("release") /\ ~cred.releaseSigned => kept.signed["release"] = NoMessage

\* Close work knows what the root retains.
CloseRestored ==
  closing =>
    /\ cred.ballot = kept.signed["ballot"]
    /\ cred.lock = kept.lock
    /\ cred.response = kept.signed["response"]
    /\ cred.intentSigned => kept.signed["intent"] # NoMessage
    /\ kept.signed["target"] # NoMessage => cred.target = kept.signed["target"]

\* A credential that can still sign a ballot responded, if at all, in this visit.
NoBallotAfterResponse ==
  Unlocked("ballot") /\ kept.signed["response"] # NoMessage =>
    /\ closing /\ cred.lock # NoMessage
    /\ cred.attempted => cred.ballot # NoMessage

ResponseLists ==
  LET b == kept.signed["ballot"]
      r == kept.signed["response"]
  IN b # NoMessage /\ r # NoMessage /\ BallotTime[b] <= CloseTime[r.intent] => b \in r.listed

LockAgrees ==
  /\ kept.signed["intent"] # NoMessage => kept.lock = kept.signed["intent"]
  /\ kept.signed["response"] # NoMessage => kept.lock = kept.signed["response"].intent

ProposalFollows ==
  LET i == kept.signed["intent"]
      r == kept.signed["response"]
  IN kept.signed["proposal"] # NoMessage =>
       /\ i # NoMessage /\ r # NoMessage
       /\ kept.signed["proposal"] = [intent |-> i, response |-> r]

\* The retained release is the vote's target, and this visit's if it was begun here.
TargetAgrees ==
  /\ kept.signed["target"] # NoMessage /\ kept.releasing # NoMessage => kept.signed["target"] = kept.releasing
  /\ kept.signed["release"] # NoMessage => kept.signed["release"] = kept.releasing
  /\ cred.releaseStarted => closing /\ Unlocked("release") /\ cred.target # NoMessage /\ cred.target = kept.releasing
  /\ Unlocked("target") /\ kept.releasing # NoMessage => closing /\ cred.target = kept.releasing

\* Work that is ready to be signed was verified.
ReadyIsVerified ==
  /\ ballot.phase \in {"importing", "ready"} => ballot.envelope # NoMessage
  /\ ballot.phase = "ready" => Complete(ballot) \/ cred.attempted
  /\ release.phase \in {"importing", "ready"} => release.target # NoMessage
  /\ release.phase = "ready" => Complete(release)

CredentialIInv ==
  /\ CredentialTypeOK
  /\ RootRetains /\ OpenIsUnsigned /\ CloseRestored /\ NoBallotAfterResponse
  /\ ResponseLists /\ LockAgrees /\ ProposalFollows /\ TargetAgrees
  /\ ReadyIsVerified /\ SignedBodiesVerified
====
