------------------------------ MODULE Finality ------------------------------
(***************************************************************************)
(* From a signed proposal to the result: target votes, the certificate     *)
(* and the release shares, over the ballot closing of Close.               *)
(*                                                                         *)
(* A target is a deterministic function of the proposal it is evaluated    *)
(* from: its body holds the proposal's identity and the classification of  *)
(* every slot.  A target is therefore represented by its proposal.         *)
(***************************************************************************)
EXTENDS Close

CONSTANT Invalid  \* the corrupt envelopes whose ballots do not verify

ASSUME InvalidAssumption == Invalid \subseteq CorruptEnvelopes

VARIABLES
  target,     \* the target the root locks, as a set of at most one
  vote,       \* the target its signed vote names, as a set of at most one
  inclusion   \* the retained status of the own ballot

finalityVars == <<target, vote, inclusion>>
vars == <<closeVars, finalityVars>>

Inclusions == {"unknown", "not cast", "late", "included", "omitted"}

Init ==
  /\ CloseInit
  /\ target = [p \in Honest |-> {}]
  /\ vote = [p \in Honest |-> {}]
  /\ inclusion = [p \in Honest |-> "unknown"]

----
(* The evaluated target. *)

Accepted(pr) == Usable(pr) \ Invalid

\* A target of too few accepted ballots carries no result.
HasResult(pr) == Cardinality(Accepted(pr)) >= MinimumTurnout(N)

\* The target that a participant can evaluate from the public close records:
\* a signed proposal with the body of every usable slot.
Evaluable(pr) == pr \in proposals /\ Usable(pr) \subseteq AvailableBodies

InclusionStatus(p, closeTime, usable) ==
  IF ballot[p] = {} THEN "not cast"
  ELSE IF OnTime(ballot[p], closeTime) = {} THEN "late"
  ELSE IF usable THEN "included"
  ELSE "omitted"

\* The own ballot's status in the barrier a voter verified.
BallotInclusion(p, pr) == InclusionStatus(p, pr.intent, ballot[p] \subseteq Usable(pr))

\* Mutant: a late ballot is reported as omitted.
TimelessBallotInclusion(p, pr) ==
  IF ballot[p] = {} THEN "not cast"
  ELSE IF Slot(Usable(pr), p) # {} THEN "included" ELSE "omitted"

\* The status a participant that signed no target reads from a certified one:
\* late by the close time it locked itself, included when its slot is usable.
ClassifiedBallotInclusion(p, pr) == InclusionStatus(p, lock[p], Slot(Usable(pr), p) # {})

----
(* Target votes. *)

CompletedClosePhase(p) == IF p = Organizer THEN proposed ELSE responded

\* The exact target body enters the root before its signature exists.
RetainTarget(p, pr) ==
  /\ gen[p] = CompletedClosePhase(p)
  /\ Evaluable(pr)
  /\ gen' = [gen EXCEPT ![p] = targetLocked]
  /\ target' = [target EXCEPT ![p] = {pr}]
  /\ inclusion' = [inclusion EXCEPT ![p] = BallotInclusion(p, pr)]
  /\ UNCHANGED <<ballot, held, known, lock, response, taken, retained,
                 proposals, receipt, vote>>

\* A used response in this participant's name must be the one it signed.
SignTarget(p) ==
  /\ gen[p] = targetLocked
  /\ \A pr \in target[p] : \A r \in pr.responses : r.responder = p => r = ResponseOf(p)
  /\ gen' = [gen EXCEPT ![p] = targetSigned]
  /\ vote' = [vote EXCEPT ![p] = target[p]]
  /\ UNCHANGED <<ballot, held, known, lock, response, taken, retained,
                 proposals, receipt, target, inclusion>>

HonestVotes(pr) == {p \in Honest : pr \in vote[p]}

\* A certificate needs q votes; every corrupt participant votes for anything.
Certified(pr) == pr \in proposals /\ Cardinality(HonestVotes(pr)) + Cardinality(Corrupt) >= Q

----
(* The release. *)

\* Mutant: a release of any certified target, also after a vote for another.
UnboundLockRelease(p, pr) ==
  /\ gen[p] \in {targetSigned, CompletedClosePhase(p)}
  /\ Evaluable(pr) /\ Certified(pr) /\ HasResult(pr)
  /\ gen' = [gen EXCEPT ![p] = releaseLocked]
  /\ target' = [target EXCEPT ![p] = {pr}]
  /\ UNCHANGED <<ballot, held, known, lock, response, taken, retained,
                 proposals, receipt, vote, inclusion>>

\* Mutant: the root of a locked release no longer retains the signed vote.
VotelessLockRelease(p, pr) ==
  /\ gen[p] = targetSigned /\ pr \in target[p]
  /\ Evaluable(pr) /\ Certified(pr) /\ HasResult(pr)
  /\ gen' = [gen EXCEPT ![p] = releaseLocked]
  /\ vote' = [vote EXCEPT ![p] = {}]
  /\ UNCHANGED <<ballot, held, known, lock, response, taken, retained,
                 proposals, receipt, target, inclusion>>

\* A release follows the own signed target or, for a participant that signed
\* none, the completed close; it locks the certified target either way.
LockRelease(p, pr) ==
  /\ \/ gen[p] = targetSigned /\ pr \in target[p]
     \/ gen[p] = CompletedClosePhase(p)
  /\ Evaluable(pr)
  /\ Certified(pr)
  /\ HasResult(pr)
  /\ gen' = [gen EXCEPT ![p] = releaseLocked]
  /\ target' = [target EXCEPT ![p] = {pr}]
  /\ inclusion' = IF gen[p] = targetSigned
                  THEN inclusion
                  ELSE [inclusion EXCEPT ![p] = ClassifiedBallotInclusion(p, pr)]
  /\ UNCHANGED <<ballot, held, known, lock, response, taken, retained,
                 proposals, receipt, vote>>

\* The seed, the proved body and the signature of the locked release.
SignRelease(p) ==
  /\ gen[p] = releaseLocked
  /\ gen' = [gen EXCEPT ![p] = releaseSigned]
  /\ UNCHANGED <<ballot, held, known, lock, response, taken, retained,
                 proposals, receipt, target, vote, inclusion>>

HonestShares(pr) == {p \in Honest : gen[p] = releaseSigned /\ pr \in target[p]}

\* Whether the published shares and those of the corrupt recover the result.
Recoverable(pr) ==
  Cardinality(HonestShares(pr)) + Cardinality(Corrupt) >= ReleaseThreshold(N)

----
FinalityStep(p) ==
  \/ \E pr \in proposals : RetainTarget(p, pr)
  \/ SignTarget(p)
  \/ \E pr \in proposals : LockRelease(p, pr)
  \/ SignRelease(p)

Next ==
  \/ CloseNext /\ UNCHANGED finalityVars
  \/ \E p \in Honest : FinalityStep(p)

Spec == Init /\ [][Next]_vars

\* What the code carries on with by itself once participants keep running close,
\* sign-target and release, and the relay shows them what honest participants
\* published.  Starting a ballot and opening the close are requests of the users;
\* collecting other ballots may find none.
Fairness ==
  /\ \A p \in Honest :
       /\ WF_vars(CompleteBallot(p) /\ UNCHANGED finalityVars)
       /\ WF_vars(HoldOwnBallot(p) /\ UNCHANGED finalityVars)
       /\ WF_vars((\E t \in CloseTimes : LockIntent(p, t)) /\ UNCHANGED finalityVars)
       /\ WF_vars(RetainResponse(p) /\ UNCHANGED finalityVars)
       /\ WF_vars(SignResponse(p) /\ UNCHANGED finalityVars)
       /\ WF_vars(TakeResponse(p) /\ UNCHANGED finalityVars)
       /\ WF_vars(\E pr \in proposals : RetainTarget(p, pr))
       /\ WF_vars(SignTarget(p))
       /\ WF_vars(\E pr \in proposals : LockRelease(p, pr))
       /\ WF_vars(SignRelease(p))
  /\ WF_vars(LockOwnIntent /\ UNCHANGED finalityVars)
  /\ WF_vars((\E e \in HonestCopies : DeliverWantedBody(e)) /\ UNCHANGED finalityVars)
  /\ WF_vars(Propose /\ UNCHANGED finalityVars)

FairSpec == Spec /\ Fairness

----
(* Properties. *)

\* Every variable has its type.
TypeOK ==
  /\ CloseTypeOK
  /\ target \in [Honest -> SUBSET Proposals]
  /\ vote \in [Honest -> SUBSET Proposals]
  /\ inclusion \in [Honest -> Inclusions]

\* At most one target of a poll is certified, even when the organizer signs
\* several intents and proposals and every corrupt participant votes for all.
CertifiedTargetUnique ==
  \A a, b \in proposals : Certified(a) /\ Certified(b) => a = b

\* A result can be recovered only from the certified target, and the certified
\* target combines the ballots of at least two honest participants.
RecoveredResultProtected ==
  \A pr \in proposals : Recoverable(pr) =>
    /\ Certified(pr)
    /\ Cardinality({e \in Accepted(pr) : e.author \in Honest}) >= 2

\* The status a participant is told of its own ballot is the one the certified
\* target's close barrier gives it.
InclusionStatusAgrees ==
  \A p \in Honest : inclusion[p] # "unknown" =>
    \A pr \in target[p] : inclusion[p] = BallotInclusion(p, pr)

\* With an honest organizer every honest participant's release is signed once
\* the close was opened, unless the target carries no result.
ReleaseCompletes ==
  Organizer \in Honest /\ gen[Organizer] >= intentRetained ~>
    \A p \in Honest : \/ gen[p] = releaseSigned
                      \/ gen[p] = targetSigned /\ \A pr \in target[p] : ~HasResult(pr)

\* The target a participant locked, to vote or to release, is never replaced:
\* one that voted for another target than the certified one releases nothing.
TargetLockKept ==
  [][\A p \in Honest : target[p] # {} => target'[p] = target[p]]_vars

\* Once the organizer closes, the poll ends: a proposal is published, and every
\* honest participant votes and, where there is a result, releases its share.
PollCompletes == CloseCompletes /\ ReleaseCompletes

----
(* The poll's outcome is the abstract one. *)

certifiedTargets == {pr \in proposals : Certified(pr)}
recoverableTargets == {pr \in proposals : Recoverable(pr)}

Abstract == INSTANCE Outcome WITH
  certified <- certifiedTargets,
  recoverable <- recoverableTargets

\* The votes and shares of all participants implement one decision: a target
\* is certified once and for good, and only its result becomes recoverable.
ImplementsOutcome == Abstract!Spec

----
(* The inductive invariant behind the properties of the outcome. *)

\* A participant locks at most one target, and votes only for that one.
TargetsInv ==
  \A p \in Honest :
    /\ \A a, b \in target[p] : a = b
    /\ target[p] \subseteq proposals
    /\ vote[p] \subseteq target[p]
    /\ gen[p] < targetLocked => target[p] = {}
    /\ gen[p] < targetSigned => vote[p] = {}

\* A release is locked only for a certified target that carries a result.
ReleaseInv ==
  \A p \in Honest : gen[p] >= releaseLocked =>
    \A pr \in target[p] : Certified(pr) /\ HasResult(pr)

IInv ==
  /\ CloseIInv
  /\ TypeOK
  /\ TargetsInv
  /\ ReleaseInv
====
