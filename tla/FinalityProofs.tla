--------------------------- MODULE FinalityProofs ---------------------------
(***************************************************************************)
(* Proofs about target votes, certificates and release shares for every    *)
(* roster, every set of at most f corrupt participants, and every number   *)
(* of intents and proposals a corrupt organizer signs.                     *)
(***************************************************************************)
EXTENDS Finality, CloseProofs

----
(* What a close step leaves alone. *)

\* A close step only moves generations below the target vote.
LEMMA CloseGenerations ==
  ASSUME IInv, CloseNext, NEW p \in Honest
  PROVE  gen'[p] = gen[p] \/ (gen[p] < targetLocked /\ gen'[p] < targetLocked)
<1> USE DEF targetLocked, setupRetained, ballotLocked, ballotSigned, intentRetained,
            intentLocked, responding, responded, proposed
<1>1. gen \in [Honest -> Generations]
  BY DEF IInv, TypeOK, CloseTypeOK
<1> DEFINE Moves(h, g) == gen[h] < 23 /\ g < 23 /\ gen' = [gen EXCEPT ![h] = g]
<1>2. ASSUME NEW h \in Honest, NEW g \in Int, Moves(h, g)
      PROVE  gen'[p] = gen[p] \/ (gen[p] < targetLocked /\ gen'[p] < targetLocked)
  BY <1>1, <1>2
<1>3. ASSUME NEW h \in Honest, NEW t, Lock(h, t), gen[h] < 23
      PROVE  Moves(h, 19)
  BY <1>3 DEF Lock
<1>4. ASSUME NEW h \in Honest, NEW e, Hold(h, e)
      PROVE  gen' = gen
  BY <1>4 DEF Hold
<1>5. ASSUME NEW h \in Honest, CloseStep(h)
      PROVE  gen' = gen \/ Moves(h, 13) \/ Moves(h, 17) \/ Moves(h, 19) \/ Moves(h, 20) \/ Moves(h, 21)
  <2>1. CASE \E time \in Times : BeginBallot(h, time)
    BY <2>1 DEF BeginBallot
  <2>2. CASE CompleteBallot(h)
    BY <2>2 DEF CompleteBallot
  <2>3. CASE HoldOwnBallot(h) \/ \E e \in AvailableBodies : CollectBallot(h, e)
    BY <2>3, <1>4 DEF HoldOwnBallot, CollectBallot
  <2>4. CASE \E t \in CloseTimes : LockIntent(h, t)
    BY <2>4, <1>3 DEF LockIntent, Unlocked
  <2>5. CASE RetainResponse(h)
    BY <2>5 DEF RetainResponse
  <2>6. CASE SignResponse(h)
    BY <2>6 DEF SignResponse
  <2> HIDE DEF Moves
  <2> QED
    BY <1>5, <2>1, <2>2, <2>3, <2>4, <2>5, <2>6 DEF CloseStep
<1>6. ASSUME OrganizerStep
      PROVE  \/ gen' = gen
             \/ Organizer \in Honest /\ (Moves(Organizer, 18) \/ Moves(Organizer, 19) \/ Moves(Organizer, 22))
  <2>1. CASE \E t \in CloseTimes : SignIntent(t)
    BY <2>1 DEF SignIntent, Unlocked
  <2>2. CASE LockOwnIntent
    BY <2>2, <1>3 DEF LockOwnIntent
  <2>3. CASE \E h \in Participants : TakeResponse(h)
    BY <2>3 DEF TakeResponse
  <2>4. CASE \E e \in AvailableBodies : DeliverWantedBody(e)
    BY <2>4, <1>4 DEF DeliverWantedBody
  <2>5. CASE Propose
    BY <2>5 DEF Propose
  <2>6. CASE \E t \in CloseTimes, responders \in CorruptQuorums :
               CorruptPropose(t, responders)
    BY <2>6 DEF CorruptPropose
  <2> HIDE DEF Moves
  <2> QED
    BY <1>6, <2>1, <2>2, <2>3, <2>4, <2>5, <2>6 DEF OrganizerStep
<1> HIDE DEF Moves
<1> QED
  BY <1>2, <1>5, <1>6 DEF CloseNext

\* Signed proposals are never withdrawn.
LEMMA ProposalsGrow ==
  ASSUME CloseNext
  PROVE  proposals \subseteq proposals'
<1>1. ASSUME NEW h, NEW t, Lock(h, t) PROVE proposals' = proposals
  BY <1>1 DEF Lock
<1>2. ASSUME NEW h, NEW e, Hold(h, e) PROVE proposals' = proposals
  BY <1>2 DEF Hold
<1>3. ASSUME NEW h \in Honest, CloseStep(h) PROVE proposals' = proposals
  <2>1. CASE \E time \in Times : BeginBallot(h, time)
    BY <2>1 DEF BeginBallot
  <2>2. CASE CompleteBallot(h)
    BY <2>2 DEF CompleteBallot
  <2>3. CASE HoldOwnBallot(h) \/ \E e \in AvailableBodies : CollectBallot(h, e)
    BY <2>3, <1>2 DEF HoldOwnBallot, CollectBallot
  <2>4. CASE \E t \in CloseTimes : LockIntent(h, t)
    BY <2>4, <1>1 DEF LockIntent
  <2>5. CASE RetainResponse(h)
    BY <2>5 DEF RetainResponse
  <2>6. CASE SignResponse(h)
    BY <2>6 DEF SignResponse
  <2> QED
    BY <1>3, <2>1, <2>2, <2>3, <2>4, <2>5, <2>6 DEF CloseStep
<1>4. ASSUME OrganizerStep PROVE proposals \subseteq proposals'
  <2>1. CASE \E t \in CloseTimes : SignIntent(t)
    BY <2>1 DEF SignIntent
  <2>2. CASE LockOwnIntent
    BY <2>2, <1>1 DEF LockOwnIntent
  <2>3. CASE \E h \in Participants : TakeResponse(h)
    BY <2>3 DEF TakeResponse
  <2>4. CASE \E e \in AvailableBodies : DeliverWantedBody(e)
    BY <2>4, <1>2 DEF DeliverWantedBody
  <2>5. CASE Propose
    BY <2>5 DEF Propose
  <2>6. CASE \E t \in CloseTimes, responders \in CorruptQuorums :
               CorruptPropose(t, responders)
    BY <2>6 DEF CorruptPropose
  <2> QED
    BY <1>4, <2>1, <2>2, <2>3, <2>4, <2>5, <2>6 DEF OrganizerStep
<1> QED
  BY <1>3, <1>4 DEF CloseNext

----
(* The inductive invariant. *)

\* A generation that moves past the completed close disturbs nothing of it.
LEMMA CloseKept ==
  ASSUME CloseIInv, NEW p \in Honest, NEW g \in Generations, gen[p] >= responded, g >= gen[p],
         gen' = [gen EXCEPT ![p] = g],
         UNCHANGED <<ballot, held, known, lock, response, taken, retained, proposals, receipt>>
  PROVE  CloseIInv'
<1>1. CloseTypeOK'
  BY DEF CloseIInv, CloseTypeOK
<1>2. gen[p] \in Int /\ g \in Int
  BY GenTyped DEF CloseIInv, Generations, setupRetained
<1>3. ASSUME NEW h \in Honest
      PROVE  gen'[h] = gen[h] \/ (gen[h] >= responded /\ gen'[h] >= responded)
  <2>1. gen'[h] = IF h = p THEN g ELSE gen[h]
    BY DEF CloseIInv, CloseTypeOK
  <2> QED
    BY <1>2, <2>1 DEF responded
<1>4. ASSUME NEW h \in Honest PROVE gen'[h] >= gen[h]
  BY <1>2, GenTyped DEF CloseIInv, CloseTypeOK
<1>5. Frame
  BY <1>4 DEF Frame
<1>6. SignedEnvelopes \subseteq SignedEnvelopes'
  BY <1>1, <1>5, SignedGrow DEF CloseIInv
<1>7. BallotsInv'
  BY <1>3 DEF CloseIInv, BallotsInv, responded, setupRetained
<1>8. KnownInv'
  BY <1>6 DEF CloseIInv, KnownInv
<1>9. LockInv'
  BY <1>3, GenTyped DEF CloseIInv, LockInv, responded, intentRetained, intentLocked
<1>10. ResponseInv'
  BY <1>3, GenTyped DEF CloseIInv, ResponseInv, responded, responding
<1>11. TakenInv' /\ ProposalsInv'
  BY <1>1, <1>5, TakenStays, ProposalsStay
<1> QED
  BY <1>1, <1>7, <1>8, <1>9, <1>10, <1>11 DEF CloseIInv

\* A target stays certified when no vote is withdrawn.
LEMMA CertifiedStays ==
  ASSUME NEW pr, Certified(pr), proposals \subseteq proposals',
         \A p \in Honest : vote[p] \subseteq vote'[p]
  PROVE  Certified(pr)'
<1> DEFINE V == HonestVotes(pr)
           W == HonestVotes(pr)'
<1>1. V \subseteq W /\ W \subseteq Honest
  BY DEF HonestVotes
<1>2. IsFiniteSet(W) /\ Cardinality(V) <= Cardinality(W)
  BY <1>1, HonestCount, FS_Subset
<1>3. Cardinality(V) \in Nat /\ Cardinality(W) \in Nat
  BY <1>1, <1>2, FS_Subset, FS_CardinalityType
<1>4. pr \in proposals /\ Cardinality(V) + Cardinality(Corrupt) >= Q
  BY DEF Certified
<1>5. Cardinality(W) + Cardinality(Corrupt) >= Q
  <2> HIDE DEF V, W
  <2> QED
    BY <1>2, <1>3, <1>4, HonestCount, Thresholds
<1> QED
  BY <1>4, <1>5 DEF Certified

\* The initial state satisfies the invariant.
LEMMA FinalityInit == Init => IInv
<1> SUFFICES ASSUME Init PROVE IInv
  OBVIOUS
<1>1. CloseIInv
  BY IInvInit DEF Init
<1>2. TypeOK
  BY <1>1 DEF Init, TypeOK, CloseIInv, Inclusions
<1>3. TargetsInv /\ ReleaseInv
  BY DEF Init, TargetsInv, ReleaseInv
<1> QED
  BY <1>1, <1>2, <1>3 DEF IInv

\* A step of the close preserves the invariant.
LEMMA CloseNextInv ==
  ASSUME IInv, CloseNext, UNCHANGED finalityVars
  PROVE  IInv'
<1> USE DEF finalityVars
<1>1. CloseIInv'
  BY IInvNext DEF IInv
<1>2. TypeOK'
  BY <1>1 DEF IInv, TypeOK, CloseIInv
<1>3. proposals \subseteq proposals'
  BY ProposalsGrow
<1>4. \A p \in Honest : gen'[p] = gen[p] \/ (gen[p] < targetLocked /\ gen'[p] < targetLocked)
  BY CloseGenerations
<1>5. \A p \in Honest : gen[p] \in Int /\ gen'[p] \in Int
  BY <1>1, GenTyped, GenTypedNext DEF IInv, CloseIInv
<1>6. TargetsInv'
  BY <1>3, <1>4, <1>5 DEF IInv, TargetsInv, targetLocked, targetSigned
<1>7. ReleaseInv'
  <2>1. SUFFICES ASSUME NEW p \in Honest, gen'[p] >= releaseLocked, NEW pr \in target[p]
                 PROVE  Certified(pr)' /\ HasResult(pr)
    BY DEF ReleaseInv, HasResult, Accepted, Usable
  <2>2. gen[p] >= releaseLocked
    BY <1>4, <1>5, <2>1 DEF releaseLocked, targetLocked
  <2>3. Certified(pr) /\ HasResult(pr)
    BY <2>1, <2>2 DEF IInv, ReleaseInv
  <2> QED
    BY <1>3, <2>3, CertifiedStays
<1> QED
  BY <1>1, <1>2, <1>6, <1>7 DEF IInv

\* Voting for a target or releasing from it disturbs no other participant.
LEMMA OthersKept ==
  ASSUME IInv, NEW p \in Honest, NEW g \in Generations, gen' = [gen EXCEPT ![p] = g],
         CloseIInv', TypeOK', proposals' = proposals,
         \A h \in Honest \ {p} : target'[h] = target[h] /\ vote'[h] = vote[h],
         vote[p] \subseteq vote'[p],
         \A a, b \in target'[p] : a = b,
         target'[p] \subseteq proposals,
         vote'[p] \subseteq target'[p],
         g >= targetLocked,
         g < targetSigned => vote'[p] = {},
         g >= releaseLocked => \A pr \in target'[p] : Certified(pr) /\ HasResult(pr)
  PROVE  IInv'
<1>1. \A h \in Honest : gen'[h] = IF h = p THEN g ELSE gen[h]
  BY DEF IInv, TypeOK, CloseTypeOK
<1>2. g \in Int
  BY DEF Generations, setupRetained
<1>3. TargetsInv'
  <2>1. SUFFICES ASSUME NEW h \in Honest
                 PROVE  /\ \A a, b \in target'[h] : a = b
                        /\ target'[h] \subseteq proposals
                        /\ vote'[h] \subseteq target'[h]
                        /\ gen'[h] < targetLocked => target'[h] = {}
                        /\ gen'[h] < targetSigned => vote'[h] = {}
    BY DEF TargetsInv
  <2>2. CASE h = p
    BY <1>1, <1>2, <2>2 DEF targetLocked
  <2>3. CASE h # p
    BY <1>1, <2>3 DEF IInv, TargetsInv
  <2> QED
    BY <2>2, <2>3
<1>4. ReleaseInv'
  <2>1. SUFFICES ASSUME NEW h \in Honest, gen'[h] >= releaseLocked, NEW pr \in target'[h]
                 PROVE  Certified(pr)' /\ HasResult(pr)
    BY DEF ReleaseInv, HasResult, Accepted, Usable
  <2>2. Certified(pr) /\ HasResult(pr)
    <3>1. CASE h = p
      BY <1>1, <2>1, <3>1
    <3>2. CASE h # p
      BY <1>1, <2>1, <3>2 DEF IInv, ReleaseInv
    <3> QED
      BY <3>1, <3>2
  <2> QED
    BY <2>2, CertifiedStays
<1> QED
  BY <1>3, <1>4 DEF IInv

\* Retaining a target preserves the invariant.
LEMMA RetainTargetInv ==
  ASSUME IInv, NEW p \in Honest, NEW pr \in proposals, RetainTarget(p, pr)
  PROVE  IInv'
<1>1. gen[p] \in {responded, proposed}
  BY DEF RetainTarget, CompletedClosePhase
<1>2. targetLocked \in Generations
  BY DEF Generations, setupRetained, targetLocked
<1>3. CloseIInv'
  <2>1. gen[p] >= responded /\ targetLocked >= gen[p]
    BY <1>1 DEF responded, proposed, targetLocked
  <2>2. gen' = [gen EXCEPT ![p] = targetLocked]
    BY DEF RetainTarget
  <2>3. UNCHANGED <<ballot, held, known, lock, response, taken, retained, proposals, receipt>>
    BY DEF RetainTarget
  <2> QED
    BY <1>2, <2>1, <2>2, <2>3, CloseKept DEF IInv
<1>4. pr \in Proposals
  BY DEF IInv, CloseIInv, CloseTypeOK
<1>5. TypeOK'
  <2>1. BallotInclusion(p, pr) \in Inclusions
    BY DEF BallotInclusion, InclusionStatus, Inclusions
  <2> QED
    BY <1>3, <1>4, <2>1 DEF RetainTarget, IInv, TypeOK, CloseIInv
<1>6. /\ target'[p] = {pr} /\ \A h \in Honest \ {p} : target'[h] = target[h]
      /\ vote' = vote /\ proposals' = proposals /\ gen' = [gen EXCEPT ![p] = targetLocked]
  BY DEF RetainTarget, IInv, TypeOK
<1>7. vote[p] = {}
  BY <1>1 DEF IInv, TargetsInv, responded, proposed, targetSigned
<1>8. targetLocked >= targetLocked /\ ~(targetLocked >= releaseLocked)
  BY DEF targetLocked, releaseLocked
<1> QED
  BY <1>2, <1>3, <1>5, <1>6, <1>7, <1>8, OthersKept

\* Signing the retained target preserves the invariant.
LEMMA SignTargetInv ==
  ASSUME IInv, NEW p \in Honest, SignTarget(p)
  PROVE  IInv'
<1>1. targetSigned \in Generations
  BY DEF Generations, setupRetained, targetSigned
<1>2. CloseIInv'
  <2>1. gen[p] >= responded /\ targetSigned >= gen[p]
    BY DEF SignTarget, responded, targetLocked, targetSigned
  <2>2. gen' = [gen EXCEPT ![p] = targetSigned]
    BY DEF SignTarget
  <2>3. UNCHANGED <<ballot, held, known, lock, response, taken, retained, proposals, receipt>>
    BY DEF SignTarget
  <2> QED
    BY <1>1, <2>1, <2>2, <2>3, CloseKept DEF IInv
<1>3. TypeOK'
  BY <1>2 DEF SignTarget, IInv, TypeOK, CloseIInv
<1>4. /\ vote'[p] = target[p] /\ \A h \in Honest \ {p} : vote'[h] = vote[h]
      /\ target' = target /\ proposals' = proposals /\ gen' = [gen EXCEPT ![p] = targetSigned]
  BY DEF SignTarget, IInv, TypeOK
<1>5. vote[p] = {}
  BY DEF SignTarget, IInv, TargetsInv, targetLocked, targetSigned
<1>6. /\ \A a, b \in target[p] : a = b
      /\ target[p] \subseteq proposals
  BY DEF IInv, TargetsInv
<1>7. /\ targetSigned >= targetLocked /\ ~(targetSigned < targetSigned)
      /\ ~(targetSigned >= releaseLocked)
  BY DEF targetLocked, targetSigned, releaseLocked
<1> QED
  BY <1>1, <1>2, <1>3, <1>4, <1>5, <1>6, <1>7, OthersKept

\* A release locks the one target already locked, or the first.
LEMMA ReleaseTarget ==
  ASSUME IInv, NEW p \in Honest, NEW pr \in proposals, LockRelease(p, pr)
  PROVE  /\ gen[p] \in {responded, proposed, targetSigned}
         /\ target'[p] = {pr}
         /\ target[p] = {} \/ target[p] = {pr}
         /\ vote[p] \subseteq {pr}
<1>1. target'[p] = {pr}
  BY DEF LockRelease, IInv, TypeOK
<1>2. CASE gen[p] = targetSigned /\ pr \in target[p]
  BY <1>1, <1>2 DEF IInv, TargetsInv
<1>3. CASE gen[p] = CompletedClosePhase(p)
  BY <1>1, <1>3 DEF CompletedClosePhase, IInv, TargetsInv, responded, proposed, targetLocked,
    targetSigned
<1> QED
  BY <1>2, <1>3 DEF LockRelease

\* Locking a release preserves the invariant.
LEMMA LockReleaseInv ==
  ASSUME IInv, NEW p \in Honest, NEW pr \in proposals, LockRelease(p, pr)
  PROVE  IInv'
<1>1. gen[p] \in {responded, proposed, targetSigned}
  BY ReleaseTarget
<1>2. releaseLocked \in Generations
  BY DEF Generations, setupRetained, releaseLocked
<1>3. CloseIInv'
  <2>1. gen[p] >= responded /\ releaseLocked >= gen[p]
    BY <1>1 DEF responded, proposed, targetSigned, releaseLocked
  <2>2. gen' = [gen EXCEPT ![p] = releaseLocked]
    BY DEF LockRelease
  <2>3. UNCHANGED <<ballot, held, known, lock, response, taken, retained, proposals, receipt>>
    BY DEF LockRelease
  <2> QED
    BY <1>2, <2>1, <2>2, <2>3, CloseKept DEF IInv
<1>4. pr \in Proposals
  BY DEF IInv, CloseIInv, CloseTypeOK
<1>5. TypeOK'
  <2>1. ClassifiedBallotInclusion(p, pr) \in Inclusions
    BY DEF ClassifiedBallotInclusion, InclusionStatus, Inclusions
  <2>2. inclusion' \in [Honest -> Inclusions]
    BY <2>1 DEF LockRelease, IInv, TypeOK
  <2> QED
    BY <1>3, <1>4, <2>2 DEF LockRelease, IInv, TypeOK, CloseIInv
<1>6. target'[p] = {pr} /\ \A h \in Honest \ {p} : target'[h] = target[h]
  BY ReleaseTarget DEF LockRelease, IInv, TypeOK
<1>7. /\ vote' = vote /\ vote[p] \subseteq target'[p]
      /\ proposals' = proposals /\ gen' = [gen EXCEPT ![p] = releaseLocked]
  BY <1>6, ReleaseTarget DEF LockRelease
<1>8. Certified(pr) /\ HasResult(pr)
  BY DEF LockRelease
<1>9. releaseLocked >= targetLocked /\ ~(releaseLocked < targetSigned)
  BY DEF targetLocked, targetSigned, releaseLocked
<1> QED
  BY <1>2, <1>3, <1>5, <1>6, <1>7, <1>8, <1>9, OthersKept

\* Signing a release preserves the invariant.
LEMMA SignReleaseInv ==
  ASSUME IInv, NEW p \in Honest, SignRelease(p)
  PROVE  IInv'
<1>1. releaseSigned \in Generations
  BY DEF Generations, setupRetained, releaseSigned
<1>2. CloseIInv'
  <2>1. gen[p] >= responded /\ releaseSigned >= gen[p]
    BY DEF SignRelease, responded, releaseLocked, releaseSigned
  <2>2. gen' = [gen EXCEPT ![p] = releaseSigned]
    BY DEF SignRelease
  <2>3. UNCHANGED <<ballot, held, known, lock, response, taken, retained, proposals, receipt>>
    BY DEF SignRelease
  <2> QED
    BY <1>1, <2>1, <2>2, <2>3, CloseKept DEF IInv
<1>3. TypeOK'
  BY <1>2 DEF SignRelease, IInv, TypeOK, CloseIInv
<1>4. /\ \A a, b \in target[p] : a = b
      /\ target[p] \subseteq proposals
      /\ vote[p] \subseteq target[p]
  BY DEF IInv, TargetsInv
<1>5. \A pr \in target[p] : Certified(pr) /\ HasResult(pr)
  BY DEF SignRelease, IInv, ReleaseInv, releaseLocked
<1>6. /\ target' = target /\ vote' = vote /\ proposals' = proposals
      /\ gen' = [gen EXCEPT ![p] = releaseSigned]
  BY DEF SignRelease
<1>7. releaseSigned >= targetLocked /\ ~(releaseSigned < targetSigned)
  BY DEF targetLocked, targetSigned, releaseSigned
<1> QED
  BY <1>1, <1>2, <1>3, <1>4, <1>5, <1>6, <1>7, OthersKept

\* Every step preserves the invariant.
LEMMA FinalityNext ==
  ASSUME IInv, [Next]_vars
  PROVE  IInv'
<1>1. CASE CloseNext /\ UNCHANGED finalityVars
  BY <1>1, CloseNextInv
<1>2. ASSUME NEW p \in Honest, FinalityStep(p) PROVE IInv'
  BY <1>2, RetainTargetInv, SignTargetInv, LockReleaseInv, SignReleaseInv DEF FinalityStep
<1>3. CASE UNCHANGED vars
  <2>1. CloseIInv'
    BY <1>3, IInvStutter DEF IInv, vars
  <2>2. UNCHANGED <<gen, proposals, target, vote, inclusion>>
    BY <1>3 DEF vars, closeVars, finalityVars
  <2>3. TypeOK'
    BY <2>1, <2>2 DEF IInv, TypeOK, CloseIInv
  <2>4. TargetsInv' /\ ReleaseInv'
    BY <2>2 DEF IInv, TargetsInv, ReleaseInv, Certified, HonestVotes, HasResult, Accepted,
      Usable
  <2> QED
    BY <2>1, <2>3, <2>4 DEF IInv
<1> QED
  BY <1>1, <1>2, <1>3 DEF Next

\* The conjuncts of the inductive invariant hold in every reachable state.
THEOREM FinalityInvariant == Spec => []IInv
BY FinalityInit, FinalityNext, PTL DEF Spec

\* Every variable keeps its type in every behaviour of the poll.
THEOREM TypeCorrect == Spec => []TypeOK
<1>1. IInv => TypeOK
  BY DEF IInv
<1> QED
  BY <1>1, FinalityInvariant, PTL

----
(* Certificates. *)

\* A certificate holds an honest vote, and the votes of a target are finite.
LEMMA VotesCount ==
  ASSUME NEW pr, Certified(pr)
  PROVE  /\ HonestVotes(pr) \subseteq Honest
         /\ Cardinality(HonestVotes(pr)) \in Nat
         /\ Cardinality(HonestVotes(pr)) + Cardinality(Corrupt) >= Q
         /\ HonestVotes(pr) # {}
<1>1. HonestVotes(pr) \subseteq Honest
  BY DEF HonestVotes
<1>2. Cardinality(HonestVotes(pr)) \in Nat
  BY <1>1, HonestCount, FS_Subset, FS_CardinalityType
<1>3. Cardinality(HonestVotes(pr)) + Cardinality(Corrupt) >= Q
  BY DEF Certified
<1>4. Cardinality(HonestVotes(pr)) # 0
  BY <1>2, <1>3, HonestCount, Thresholds, RosterAssumption
<1> QED
  BY <1>1, <1>2, <1>3, <1>4, FS_EmptySet

\* Two certificates share an honest voter, which votes once.
LEMMA UniqueFromInv == IInv => CertifiedTargetUnique
<1> SUFFICES ASSUME IInv, NEW a \in proposals, NEW b \in proposals, Certified(a), Certified(b)
             PROVE  a = b
  BY DEF CertifiedTargetUnique
<1>1. /\ Cardinality(Honest) = N - Cardinality(Corrupt)
      /\ Cardinality(Corrupt) \in Nat /\ Cardinality(Corrupt) <= F
      /\ IsFiniteSet(Honest)
  BY HonestCount, RosterAssumption
<1>2. Cardinality(HonestVotes(a)) + Cardinality(HonestVotes(b)) > Cardinality(Honest)
  BY <1>1, VotesCount, Thresholds
<1>3. HonestVotes(a) \cap HonestVotes(b) # {}
  BY <1>1, <1>2, VotesCount, FS_MajoritiesIntersect
<1>4. PICK p \in Honest : a \in vote[p] /\ b \in vote[p]
  BY <1>3 DEF HonestVotes
<1> QED
  BY <1>4 DEF IInv, TargetsInv

\* For every roster, and whatever at most f corrupt participants, the organizer
\* among them, sign, two certified targets are the same: a certificate takes q
\* votes and a participant's root signs one target.
THEOREM CertifiedTargetIsUnique == Spec => []CertifiedTargetUnique
BY UniqueFromInv, FinalityInvariant, PTL

\* A locked target is never replaced by another.
LEMMA LockKeptStep ==
  ASSUME IInv, [Next]_vars, NEW p \in Honest, target[p] # {}
  PROVE  target'[p] = target[p]
<1>1. CASE CloseNext /\ UNCHANGED finalityVars
  BY <1>1 DEF finalityVars
<1>2. ASSUME NEW h \in Honest, NEW pr \in proposals, RetainTarget(h, pr)
      PROVE  target'[p] = target[p]
  <2>1. target[h] = {}
    BY <1>2 DEF RetainTarget, CompletedClosePhase, IInv, TargetsInv, responded, proposed,
      targetLocked
  <2> QED
    BY <1>2, <2>1 DEF RetainTarget, IInv, TypeOK
<1>3. ASSUME NEW h \in Honest, NEW pr \in proposals, LockRelease(h, pr)
      PROVE  target'[p] = target[p]
  <2>1. target'[h] = {pr} /\ (target[h] = {} \/ target[h] = {pr})
    BY <1>3, ReleaseTarget
  <2>2. h # p => target'[p] = target[p]
    BY <1>3 DEF LockRelease, IInv, TypeOK
  <2> QED
    BY <2>1, <2>2
<1>4. ASSUME NEW h \in Honest, SignTarget(h) \/ SignRelease(h)
      PROVE  target'[p] = target[p]
  BY <1>4 DEF SignTarget, SignRelease
<1>5. CASE UNCHANGED vars
  BY <1>5 DEF vars, finalityVars
<1> QED
  BY <1>1, <1>2, <1>3, <1>4, <1>5 DEF Next, FinalityStep

\* No step replaces the target that a participant locked to vote or to release.
THEOREM TargetLockIsKept == Spec => TargetLockKept
<1>1. IInv /\ [Next]_vars => [\A p \in Honest : target[p] # {} => target'[p] = target[p]]_vars
  BY LockKeptStep
<1> QED
  BY <1>1, FinalityInvariant, PTL DEF Spec, TargetLockKept

----
(* Recovered results. *)

\* The honest shares of a target are finite; a recoverable target has one.
LEMMA SharesCount ==
  ASSUME NEW pr, Recoverable(pr)
  PROVE  \E p \in Honest : gen[p] = releaseSigned /\ pr \in target[p]
<1>1. HonestShares(pr) \subseteq Honest
  BY DEF HonestShares
<1>2. Cardinality(HonestShares(pr)) \in Nat
  BY <1>1, HonestCount, FS_Subset, FS_CardinalityType
<1>3. ReleaseThreshold(N) > F /\ ReleaseThreshold(N) \in Nat
  BY Thresholds DEF ReleaseThreshold, F
<1>4. Cardinality(HonestShares(pr)) + Cardinality(Corrupt) >= ReleaseThreshold(N)
  BY DEF Recoverable
<1>5. Cardinality(HonestShares(pr)) # 0
  BY <1>2, <1>3, <1>4, HonestCount, Thresholds, RosterAssumption
<1> QED
  BY <1>5, FS_EmptySet DEF HonestShares

\* A recoverable target is certified and carries a result.
LEMMA RecoverableCertified ==
  ASSUME IInv, NEW pr, Recoverable(pr)
  PROVE  pr \in proposals /\ Certified(pr) /\ HasResult(pr)
<1>1. PICK p \in Honest : gen[p] = releaseSigned /\ pr \in target[p]
  BY SharesCount
<1> QED
  BY <1>1 DEF IInv, TargetsInv, ReleaseInv, releaseSigned, releaseLocked

\* The ballots a proposal accepts have distinct authors of the roster.
LEMMA AcceptedAuthors ==
  ASSUME IInv, NEW pr \in proposals
  PROVE  /\ \A e \in Accepted(pr) : e.author \in Participants
         /\ \A d, e \in Accepted(pr) : d.author = e.author => d = e
<1>1. ASSUME NEW e \in Accepted(pr) PROVE e.author \in Participants
  <2>1. e \in ListedUnion(pr.responses)
    BY <1>1 DEF Accepted, Usable, UsableEntries
  <2>2. e \in SignedEnvelopes
    BY <2>1 DEF IInv, CloseIInv, ProposalsInv, AuthenticResponse, ListedUnion
  <2>3. CASE e \in CorruptEnvelopes
    BY <2>3, EnvelopesAssumption, RosterAssumption
  <2>4. CASE e \in SignedBallots
    BY <2>4 DEF SignedBallots, IInv, CloseIInv, BallotsInv, Honest
  <2> QED
    BY <2>2, <2>3, <2>4 DEF SignedEnvelopes
<1>2. ASSUME NEW d \in Accepted(pr), NEW e \in Accepted(pr), d.author = e.author
      PROVE  d = e
  BY <1>2 DEF Accepted, Usable, UsableEntries, HasRival
<1> QED
  BY <1>1, <1>2

\* At least two of the ballots of a target with a result are honest ones.
LEMMA TwoHonestBallots ==
  ASSUME IInv, NEW pr \in proposals, HasResult(pr)
  PROVE  Cardinality({e \in Accepted(pr) : e.author \in Honest}) >= 2
<1> DEFINE A == Accepted(pr)
           HA == {e \in A : e.author \in Honest}
           CA == {e \in A : e.author \in Corrupt}
           f == [e \in A |-> e.author]
           g == [e \in CA |-> e.author]
<1>1. f \in Injection(A, Participants)
  <2>1. f \in [A -> Participants]
    BY AcceptedAuthors
  <2>2. \A d, e \in A : f[d] = f[e] => d = e
    BY AcceptedAuthors
  <2> QED
    BY <2>1, <2>2 DEF Injection, IsInjective
<1>2. g \in Injection(CA, Corrupt)
  <2>1. g \in [CA -> Corrupt]
    OBVIOUS
  <2>2. \A d, e \in CA : g[d] = g[e] => d = e
    BY AcceptedAuthors
  <2> QED
    BY <2>1, <2>2 DEF Injection, IsInjective
<1>3. IsFiniteSet(A)
  BY <1>1, RosterAssumption, FS_Injection
<1>4. Cardinality(CA) <= Cardinality(Corrupt)
  BY <1>2, HonestCount, FS_Injection
<1>5. /\ IsFiniteSet(HA) /\ IsFiniteSet(CA)
      /\ Cardinality(HA) \in Nat /\ Cardinality(CA) \in Nat
  BY <1>3, FS_Subset, FS_CardinalityType
<1>6. A = HA \cup CA /\ HA \cap CA = {}
  BY AcceptedAuthors DEF Honest
<1>7. Cardinality(A) = Cardinality(HA) + Cardinality(CA)
  <2>1. Cardinality(HA \cap CA) = 0
    BY <1>6, FS_EmptySet
  <2>2. Cardinality(HA \cup CA) = Cardinality(HA) + Cardinality(CA) - Cardinality(HA \cap CA)
    BY <1>5, FS_Union
  <2>3. Cardinality(A) = Cardinality(HA \cup CA)
    BY <1>6
  <2> HIDE DEF A, HA, CA
  <2> QED
    BY <1>5, <2>1, <2>2, <2>3
<1>8. Cardinality(A) >= F + 2
  BY DEF HasResult, MinimumTurnout, F
<1>9. Cardinality(HA) >= 2
  <2>1. Cardinality(Corrupt) \in Nat /\ Cardinality(Corrupt) <= F /\ F \in Nat
    BY HonestCount, RosterAssumption, Thresholds
  <2> HIDE DEF A, HA, CA
  <2> QED
    BY <1>4, <1>5, <1>7, <1>8, <2>1
<1> QED
  BY <1>9

\* The invariant implies that a recovered result is protected.
LEMMA RecoveredFromInv == IInv => RecoveredResultProtected
BY RecoverableCertified, TwoHonestBallots DEF RecoveredResultProtected

\* For every roster, d release shares for a target exist only after its
\* certificate does, and its result combines the ballots of at least two honest
\* participants: no coalition of at most f reads a single honest ballot from it.
THEOREM RecoveredResultIsProtected == Spec => []RecoveredResultProtected
BY RecoveredFromInv, FinalityInvariant, PTL

----
(* With an honest organizer everyone is told the same status of its ballot. *)

\* An honest organizer signs one intent, so every lock is its lock.
OneIntentInv ==
  \A p \in Honest : gen[p] >= intentLocked =>
    gen[Organizer] >= intentLocked /\ lock[p] = lock[Organizer]

\* A step of the close locks no second intent.
LEMMA CloseOneIntent ==
  ASSUME Organizer \in Honest, CloseIInv, OneIntentInv, CloseNext
  PROVE  OneIntentInv'
<1> USE DEF setupRetained, ballotLocked, ballotSigned, intentRetained, intentLocked, responding,
            responded, proposed
<1>1. /\ gen \in [Honest -> Generations] /\ lock \in [Honest -> CloseTimes \cup {NoTime}]
      /\ \A p \in Honest : gen[p] \in Int
  BY GenTyped DEF CloseIInv, CloseTypeOK
<1> DEFINE Moves(h, g) == /\ gen' = [gen EXCEPT ![h] = g] /\ lock' = lock
                          /\ gen[h] >= intentLocked <=> g >= intentLocked
<1>2. ASSUME NEW h \in Honest, NEW g \in Int, Moves(h, g) PROVE OneIntentInv'
  BY <1>1, <1>2 DEF OneIntentInv
<1>3. ASSUME gen' = gen, lock' = lock PROVE OneIntentInv'
  BY <1>3 DEF OneIntentInv
<1>4. ASSUME NEW h \in Honest, NEW e, Hold(h, e) PROVE OneIntentInv'
  BY <1>3, <1>4 DEF Hold
<1>5. ASSUME NEW h \in Honest, CloseStep(h) PROVE OneIntentInv'
  <2>1. CASE \E time \in Times : BeginBallot(h, time)
    <3>1. Moves(h, 13)
      BY <2>1 DEF BeginBallot
    <3> HIDE DEF Moves
    <3> QED
      BY <1>2, <3>1
  <2>2. CASE CompleteBallot(h)
    <3>1. Moves(h, 17)
      BY <2>2 DEF CompleteBallot
    <3> HIDE DEF Moves
    <3> QED
      BY <1>2, <3>1
  <2>3. CASE HoldOwnBallot(h) \/ \E e \in AvailableBodies : CollectBallot(h, e)
    BY <1>4, <2>3 DEF HoldOwnBallot, CollectBallot
  <2>4. CASE \E t \in CloseTimes : LockIntent(h, t)
    <3>1. PICK t \in CloseTimes : LockIntent(h, t)
      BY <2>4
    <3>2. h # Organizer /\ gen[Organizer] >= intentLocked /\ lock[Organizer] = t
      BY <3>1 DEF LockIntent, Intents
    <3>3. gen' = [gen EXCEPT ![h] = intentLocked] /\ lock' = [lock EXCEPT ![h] = t]
      BY <3>1 DEF LockIntent, Lock
    <3> QED
      BY <1>1, <3>2, <3>3 DEF OneIntentInv
  <2>5. CASE RetainResponse(h)
    <3>1. Moves(h, 20)
      BY <2>5 DEF RetainResponse
    <3> HIDE DEF Moves
    <3> QED
      BY <1>2, <3>1
  <2>6. CASE SignResponse(h)
    <3>1. Moves(h, 21)
      BY <2>6 DEF SignResponse
    <3> HIDE DEF Moves
    <3> QED
      BY <1>2, <3>1
  <2> QED
    BY <1>5, <2>1, <2>2, <2>3, <2>4, <2>5, <2>6 DEF CloseStep
<1>6. ASSUME OrganizerStep PROVE OneIntentInv'
  <2> DEFINE Locks(g, t) == /\ gen[Organizer] < intentLocked
                            /\ gen' = [gen EXCEPT ![Organizer] = g]
                            /\ lock' = [lock EXCEPT ![Organizer] = t]
  <2>1. ASSUME NEW g \in Int, NEW t, Locks(g, t) PROVE OneIntentInv'
    <3>1. \A p \in Honest \ {Organizer} : ~(gen'[p] >= intentLocked)
      BY <1>1, <2>1 DEF OneIntentInv
    <3> QED
      BY <3>1 DEF OneIntentInv
  <2>2. CASE \E t \in CloseTimes : SignIntent(t)
    <3>1. PICK t \in CloseTimes : SignIntent(t)
      BY <2>2
    <3>2. Locks(18, t)
      BY <3>1 DEF SignIntent, Unlocked
    <3> HIDE DEF Locks
    <3> QED
      BY <2>1, <3>2
  <2>3. CASE LockOwnIntent
    <3>1. Locks(19, lock[Organizer])
      BY <2>3 DEF LockOwnIntent, Lock
    <3> HIDE DEF Locks
    <3> QED
      BY <2>1, <3>1
  <2>4. CASE \E h \in Participants : TakeResponse(h)
    BY <1>3, <2>4 DEF TakeResponse
  <2>5. CASE \E e \in AvailableBodies : DeliverWantedBody(e)
    BY <1>4, <2>5 DEF DeliverWantedBody
  <2>6. CASE Propose
    <3>1. Moves(Organizer, 22)
      BY <2>6 DEF Propose
    <3> HIDE DEF Moves
    <3> QED
      BY <1>2, <3>1
  <2>7. CASE \E t \in CloseTimes, responders \in CorruptQuorums :
               CorruptPropose(t, responders)
    BY <1>3, <2>7 DEF CorruptPropose
  <2> QED
    BY <1>6, <2>2, <2>3, <2>4, <2>5, <2>6, <2>7 DEF OrganizerStep
<1> QED
  BY <1>5, <1>6 DEF CloseNext

\* A ballot changes only before its participant's root passes the setup.
LEMMA CloseBallotKept ==
  ASSUME CloseNext, CloseIInv, NEW p \in Honest, gen[p] # setupRetained
  PROVE  ballot'[p] = ballot[p]
<1>1. ballot \in [Honest -> SUBSET Envelopes]
  BY DEF CloseIInv, CloseTypeOK
<1>2. ASSUME NEW h, NEW e, Hold(h, e) PROVE ballot' = ballot
  BY <1>2 DEF Hold
<1>3. ASSUME NEW h \in Honest, CloseStep(h) PROVE ballot'[p] = ballot[p]
  <2>1. CASE \E time \in Times : BeginBallot(h, time)
    BY <1>1, <2>1 DEF BeginBallot
  <2>2. CASE HoldOwnBallot(h) \/ \E e \in AvailableBodies : CollectBallot(h, e)
    BY <1>2, <2>2 DEF HoldOwnBallot, CollectBallot
  <2>3. CASE CompleteBallot(h) \/ RetainResponse(h) \/ SignResponse(h)
    BY <2>3 DEF CompleteBallot, RetainResponse, SignResponse
  <2>4. CASE \E t \in CloseTimes : LockIntent(h, t)
    BY <2>4 DEF LockIntent, Lock
  <2> QED
    BY <1>3, <2>1, <2>2, <2>3, <2>4 DEF CloseStep
<1>4. ASSUME OrganizerStep PROVE ballot' = ballot
  <2>1. CASE \E e \in AvailableBodies : DeliverWantedBody(e)
    BY <1>2, <2>1 DEF DeliverWantedBody
  <2>2. CASE (\E t \in CloseTimes : SignIntent(t)) \/ LockOwnIntent
    BY <2>2 DEF SignIntent, LockOwnIntent, Lock
  <2>3. CASE (\E h \in Participants : TakeResponse(h)) \/ Propose
    BY <2>3 DEF TakeResponse, Propose
  <2>4. CASE \E t \in CloseTimes, responders \in CorruptQuorums :
               CorruptPropose(t, responders)
    BY <2>4 DEF CorruptPropose
  <2> QED
    BY <1>4, <2>1, <2>2, <2>3, <2>4 DEF OrganizerStep
<1> QED
  BY <1>3, <1>4 DEF CloseNext

\* An honest participant's slot is usable exactly when its own ballot is.
LEMMA SlotIsOwnBallot ==
  ASSUME IInv, NEW p \in Honest, NEW pr \in proposals, ballot[p] # {}
  PROVE  ballot[p] \subseteq Usable(pr) <=> Slot(Usable(pr), p) # {}
<1>1. \A e \in ballot[p] : e.author = p
  BY DEF IInv, CloseIInv, BallotsInv
<1>2. Usable(pr) \subseteq SignedEnvelopes
  BY DEF IInv, CloseIInv, ProposalsInv, AuthenticResponse, Usable, UsableEntries, ListedUnion
<1>3. ASSUME NEW e \in SignedEnvelopes, e.author = p PROVE e \in ballot[p]
  <2>1. e \notin CorruptEnvelopes
    BY <1>3, EnvelopesAssumption DEF Honest
  <2>2. PICK h \in Honest : e \in ballot[h]
    BY <2>1 DEF SignedEnvelopes, SignedBallots
  <2> QED
    BY <1>3, <2>2 DEF IInv, CloseIInv, BallotsInv
<1>4. \A e \in ballot[p] : ballot[p] = {e}
  BY DEF IInv, CloseIInv, BallotsInv
<1> QED
  BY <1>1, <1>2, <1>3, <1>4 DEF Slot

\* At the lock of a release the close time a participant locked itself is the
\* certified target's, and so is the status it derives.
LEMMA ClassifiedAgrees ==
  ASSUME Organizer \in Honest, IInv, OneIntentInv, NEW p \in Honest, NEW pr \in proposals,
         gen[p] >= intentLocked
  PROVE  ClassifiedBallotInclusion(p, pr) = BallotInclusion(p, pr)
<1>1. PICK r \in pr.responses : r.responder = Organizer
  BY DEF IInv, CloseIInv, ProposalsInv, Responders
<1>2. AuthenticResponse(r, pr.intent)
  BY DEF IInv, CloseIInv, ProposalsInv
<1>3. lock[Organizer] = pr.intent
  BY <1>1, <1>2 DEF AuthenticResponse
<1>4. lock[p] = pr.intent
  BY <1>3 DEF OneIntentInv
<1>5. CASE ballot[p] = {}
  BY <1>5 DEF ClassifiedBallotInclusion, BallotInclusion, InclusionStatus
<1>6. CASE ballot[p] # {}
  <2>1. (ballot[p] \subseteq Usable(pr)) = (Slot(Usable(pr), p) # {})
    BY <1>6, SlotIsOwnBallot
  <2> QED
    BY <1>4, <2>1 DEF ClassifiedBallotInclusion, BallotInclusion
<1> QED
  BY <1>5, <1>6

\* Both facts are inductive together.
LEMMA InclusionStep ==
  ASSUME Organizer \in Honest, IInv, OneIntentInv, InclusionStatusAgrees, [Next]_vars
  PROVE  OneIntentInv' /\ InclusionStatusAgrees'
<1> USE DEF setupRetained, intentLocked, responded, proposed, targetLocked, targetSigned,
            releaseLocked, releaseSigned
<1>1. /\ gen \in [Honest -> Generations] /\ \A h \in Honest : gen[h] \in Int
      /\ inclusion \in [Honest -> Inclusions] /\ target \in [Honest -> SUBSET Proposals]
  BY GenTyped DEF IInv, TypeOK, CloseTypeOK
<1> DEFINE Moves(h, g) == /\ gen' = [gen EXCEPT ![h] = g] /\ lock' = lock
                          /\ gen[h] >= intentLocked /\ g >= intentLocked
<1>2. ASSUME NEW h \in Honest, NEW g \in Int, Moves(h, g) PROVE OneIntentInv'
  BY <1>1, <1>2 DEF OneIntentInv
<1>3. ASSUME ballot' = ballot, NEW q, NEW pr
      PROVE  BallotInclusion(q, pr)' = BallotInclusion(q, pr)
  BY <1>3 DEF BallotInclusion, InclusionStatus, OnTime, Usable
<1>4. CASE CloseNext /\ UNCHANGED finalityVars
  <2>1. OneIntentInv'
    BY <1>4, CloseOneIntent DEF IInv
  <2>2. ASSUME NEW p \in Honest, inclusion'[p] # "unknown", NEW pr \in target'[p]
        PROVE  inclusion'[p] = BallotInclusion(p, pr)'
    <3>1. inclusion[p] = BallotInclusion(p, pr) /\ pr \in target[p]
      BY <1>4, <2>2 DEF InclusionStatusAgrees, finalityVars
    <3>2. gen[p] # setupRetained
      BY <3>1 DEF IInv, TargetsInv
    <3>3. ballot'[p] = ballot[p]
      BY <1>4, <3>2, CloseBallotKept DEF IInv
    <3>4. BallotInclusion(p, pr)' = BallotInclusion(p, pr)
      BY <3>3 DEF BallotInclusion, InclusionStatus, OnTime, Usable
    <3> QED
      BY <1>4, <3>1, <3>4 DEF finalityVars
  <2> QED
    BY <2>1, <2>2 DEF InclusionStatusAgrees
<1>5. ASSUME NEW p \in Honest, NEW pr \in proposals, RetainTarget(p, pr)
      PROVE  OneIntentInv' /\ InclusionStatusAgrees'
  <2>1. OneIntentInv'
    <3>1. Moves(p, 23)
      BY <1>5 DEF RetainTarget, CompletedClosePhase
    <3> HIDE DEF Moves
    <3> QED
      BY <1>2, <3>1
  <2>2. ballot' = ballot /\ inclusion' = [inclusion EXCEPT ![p] = BallotInclusion(p, pr)]
        /\ target' = [target EXCEPT ![p] = {pr}]
    BY <1>5 DEF RetainTarget
  <2> QED
    BY <1>1, <1>3, <2>1, <2>2 DEF InclusionStatusAgrees
<1>6. ASSUME NEW p \in Honest, SignTarget(p) \/ SignRelease(p)
      PROVE  OneIntentInv' /\ InclusionStatusAgrees'
  <2>1. OneIntentInv'
    <3>1. Moves(p, 24) \/ Moves(p, 29)
      BY <1>6 DEF SignTarget, SignRelease
    <3> HIDE DEF Moves
    <3> QED
      BY <1>2, <3>1
  <2>2. ballot' = ballot /\ inclusion' = inclusion /\ target' = target
    BY <1>6 DEF SignTarget, SignRelease
  <2> QED
    BY <1>3, <2>1, <2>2 DEF InclusionStatusAgrees
<1>7. ASSUME NEW p \in Honest, NEW pr \in proposals, LockRelease(p, pr)
      PROVE  OneIntentInv' /\ InclusionStatusAgrees'
  <2>1. gen[p] \in {responded, proposed, targetSigned} /\ target'[p] = {pr}
    BY <1>7, ReleaseTarget
  <2>2. OneIntentInv'
    <3>1. Moves(p, 25)
      BY <1>7, <2>1 DEF LockRelease
    <3> HIDE DEF Moves
    <3> QED
      BY <1>2, <3>1
  <2>3. ballot' = ballot /\ target' = [target EXCEPT ![p] = {pr}]
    BY <1>7 DEF LockRelease
  <2>4. CASE gen[p] = targetSigned
    <3>1. inclusion' = inclusion /\ pr \in target[p]
      BY <1>7, <2>4 DEF LockRelease, CompletedClosePhase
    <3> QED
      BY <1>1, <1>3, <2>2, <2>3, <3>1 DEF InclusionStatusAgrees
  <2>5. CASE gen[p] # targetSigned
    <3>1. inclusion' = [inclusion EXCEPT ![p] = ClassifiedBallotInclusion(p, pr)]
      BY <1>7, <2>5 DEF LockRelease
    <3>2. gen[p] >= intentLocked
      BY <2>1
    <3>3. ClassifiedBallotInclusion(p, pr) = BallotInclusion(p, pr)
      BY <3>2, ClassifiedAgrees
    <3> QED
      BY <1>1, <1>3, <2>2, <2>3, <3>1, <3>3 DEF InclusionStatusAgrees
  <2> QED
    BY <2>4, <2>5
<1>8. CASE UNCHANGED vars
  <2>1. /\ gen' = gen /\ lock' = lock /\ ballot' = ballot /\ inclusion' = inclusion
        /\ target' = target
    BY <1>8 DEF vars, closeVars, finalityVars
  <2> QED
    BY <1>3, <2>1 DEF OneIntentInv, InclusionStatusAgrees
<1> QED
  BY <1>4, <1>5, <1>6, <1>7, <1>8 DEF Next, FinalityStep

\* When the organizer is honest, the status that every honest participant is told
\* of its own ballot is the one of the target it locks, for every roster: only an
\* organizer that signs two intents makes classified_ballot_inclusion disagree.
THEOREM InclusionStatusIsTheTargets ==
  ASSUME Organizer \in Honest
  PROVE  Spec => []InclusionStatusAgrees
<1>1. Init => OneIntentInv /\ InclusionStatusAgrees
  BY DEF Init, CloseInit, OneIntentInv, InclusionStatusAgrees, setupRetained, intentLocked
<1>2. IInv /\ OneIntentInv /\ InclusionStatusAgrees /\ [Next]_vars
        => OneIntentInv' /\ InclusionStatusAgrees'
  BY InclusionStep
<1> QED
  BY <1>1, <1>2, FinalityInvariant, PTL DEF Spec

----
(* The poll implements the abstract outcome. *)

\* What the invariant says of the mapped variables.
OutcomeInv ==
  /\ \A a, b \in certifiedTargets : a = b
  /\ recoverableTargets \subseteq certifiedTargets
  /\ \A p \in Honest : vote[p] \subseteq proposals
  /\ \A pr : Recoverable(pr) => pr \in proposals

\* Every step maps to a step of the abstract outcome or to a stutter.
LEMMA OutcomeFromInv == IInv => OutcomeInv
<1> SUFFICES ASSUME IInv PROVE OutcomeInv
  OBVIOUS
<1>1. \A a, b \in certifiedTargets : a = b
  BY UniqueFromInv DEF CertifiedTargetUnique, certifiedTargets
<1>2. recoverableTargets \subseteq certifiedTargets
  BY RecoverableCertified DEF recoverableTargets, certifiedTargets
<1>3. \A p \in Honest : vote[p] \subseteq proposals
  BY DEF IInv, TargetsInv
<1>4. \A pr : Recoverable(pr) => pr \in proposals
  BY RecoverableCertified
<1> QED
  BY <1>1, <1>2, <1>3, <1>4 DEF OutcomeInv

\* A step that signs no vote certifies nothing.
LEMMA SameCertified ==
  ASSUME OutcomeInv, vote' = vote, proposals \subseteq proposals'
  PROVE  certifiedTargets' = certifiedTargets
<1>1. ASSUME NEW pr PROVE HonestVotes(pr)' = HonestVotes(pr)
  BY DEF HonestVotes
<1>2. ASSUME NEW pr, pr \in proposals', Certified(pr)' PROVE pr \in proposals
  <2>1. /\ HonestVotes(pr) \subseteq Honest
        /\ Cardinality(HonestVotes(pr)) + Cardinality(Corrupt) >= Q
    BY <1>1, <1>2 DEF Certified, HonestVotes
  <2>2. Cardinality(HonestVotes(pr)) \in Nat /\ IsFiniteSet(HonestVotes(pr))
    BY <2>1, HonestCount, FS_Subset, FS_CardinalityType
  <2>3. Cardinality(HonestVotes(pr)) # 0
    BY <2>1, <2>2, HonestCount, Thresholds, RosterAssumption
  <2>4. HonestVotes(pr) # {}
    BY <2>3, FS_EmptySet
  <2> QED
    BY <2>4 DEF HonestVotes, OutcomeInv
<1>3. ASSUME NEW pr \in proposals PROVE Certified(pr)' <=> Certified(pr)
  BY <1>1 DEF Certified
<1> QED
  BY <1>2, <1>3 DEF certifiedTargets

\* A step that signs no release makes nothing recoverable.
LEMMA SameRecoverable ==
  ASSUME OutcomeInv, proposals \subseteq proposals',
         \A pr : HonestShares(pr)' = HonestShares(pr)
  PROVE  recoverableTargets' = recoverableTargets
<1>1. ASSUME NEW pr PROVE Recoverable(pr)' <=> Recoverable(pr)
  BY DEF Recoverable
<1> QED
  BY <1>1 DEF recoverableTargets, OutcomeInv

\* A step that changes the target or the generation of participants without a
\* signed release changes no share.
LEMMA SameShares ==
  ASSUME \A p \in Honest : \/ gen'[p] = gen[p] /\ target'[p] = target[p]
                           \/ gen[p] # releaseSigned /\ gen'[p] # releaseSigned
  PROVE  \A pr : HonestShares(pr)' = HonestShares(pr)
BY DEF HonestShares

\* Every step of the poll is a step of the outcome or changes nothing of it.
LEMMA OutcomeStep ==
  ASSUME IInv, OutcomeInv, OutcomeInv', [Next]_vars
  PROVE  [Abstract!Next]_<<certifiedTargets, recoverableTargets>>
<1> USE DEF setupRetained, responded, proposed, targetLocked, targetSigned, releaseLocked, releaseSigned
<1>1. CASE CloseNext /\ UNCHANGED finalityVars
  <2>1. proposals \subseteq proposals' /\ vote' = vote /\ target' = target
    BY <1>1, ProposalsGrow DEF finalityVars
  <2>2. \A pr : HonestShares(pr)' = HonestShares(pr)
    BY <1>1, <2>1, CloseGenerations, SameShares
  <2> QED
    BY <2>1, <2>2, SameCertified, SameRecoverable
<1>2. ASSUME NEW p \in Honest, NEW pr \in proposals, RetainTarget(p, pr) \/ LockRelease(p, pr)
      PROVE  UNCHANGED <<certifiedTargets, recoverableTargets>>
  <2>1. proposals' = proposals /\ vote' = vote
    BY <1>2 DEF RetainTarget, LockRelease
  <2>2. ASSUME NEW h \in Honest
        PROVE  \/ gen'[h] = gen[h] /\ target'[h] = target[h]
               \/ gen[h] # releaseSigned /\ gen'[h] # releaseSigned
    BY <1>2 DEF RetainTarget, LockRelease, CompletedClosePhase, IInv, TypeOK, CloseTypeOK
  <2>3. \A t : HonestShares(t)' = HonestShares(t)
    BY <2>2, SameShares
  <2> QED
    BY <2>1, <2>3, SameCertified, SameRecoverable
<1>3. ASSUME NEW p \in Honest, SignTarget(p)
      PROVE  Abstract!Next \/ UNCHANGED <<certifiedTargets, recoverableTargets>>
  <2>1. proposals' = proposals /\ target' = target
    BY <1>3 DEF SignTarget
  <2>2. ASSUME NEW h \in Honest
        PROVE  \/ gen'[h] = gen[h] /\ target'[h] = target[h]
               \/ gen[h] # releaseSigned /\ gen'[h] # releaseSigned
    BY <1>3 DEF SignTarget, IInv, TypeOK, CloseTypeOK
  <2>3. recoverableTargets' = recoverableTargets
    BY <2>1, <2>2, SameShares, SameRecoverable
  <2>4. \A h \in Honest : vote[h] \subseteq vote'[h]
    BY <1>3 DEF SignTarget, IInv, TypeOK, TargetsInv
  <2>5. certifiedTargets \subseteq certifiedTargets'
    BY <2>1, <2>4, CertifiedStays DEF certifiedTargets
  <2>6. \A a, b \in certifiedTargets' : a = b
    BY DEF OutcomeInv
  <2>7. CASE certifiedTargets' = certifiedTargets
    BY <2>3, <2>7
  <2>8. CASE certifiedTargets' # certifiedTargets
    <3>1. PICK t \in certifiedTargets' : t \notin certifiedTargets
      BY <2>5, <2>8
    <3>2. certifiedTargets = {} /\ certifiedTargets' = {t}
      BY <2>5, <2>6, <3>1
    <3> QED
      BY <2>3, <3>2 DEF Abstract!Next, Abstract!Certify
  <2> QED
    BY <2>7, <2>8
<1>4. ASSUME NEW p \in Honest, SignRelease(p)
      PROVE  Abstract!Next \/ UNCHANGED <<certifiedTargets, recoverableTargets>>
  <2>1. proposals' = proposals /\ vote' = vote /\ target' = target
    BY <1>4 DEF SignRelease
  <2>2. certifiedTargets' = certifiedTargets
    BY <2>1, SameCertified
  <2>3. recoverableTargets \subseteq recoverableTargets'
    <3>1. ASSUME NEW pr \in proposals, Recoverable(pr) PROVE Recoverable(pr)'
      <4> DEFINE S == HonestShares(pr)
                 T == HonestShares(pr)'
      <4>1. S \subseteq T /\ T \subseteq Honest
        BY <1>4, <2>1 DEF SignRelease, HonestShares, IInv, TypeOK, CloseTypeOK
      <4>2. IsFiniteSet(T) /\ Cardinality(S) <= Cardinality(T)
        BY <4>1, HonestCount, FS_Subset
      <4>3. Cardinality(S) \in Nat /\ Cardinality(T) \in Nat
        BY <4>1, <4>2, FS_Subset, FS_CardinalityType
      <4>4. Cardinality(S) + Cardinality(Corrupt) >= ReleaseThreshold(N)
        BY <3>1 DEF Recoverable
      <4>5. ReleaseThreshold(N) \in Nat
        BY Thresholds DEF ReleaseThreshold, F
      <4>6. Cardinality(T) + Cardinality(Corrupt) >= ReleaseThreshold(N)
        <5> HIDE DEF S, T
        <5> QED
          BY <4>2, <4>3, <4>4, <4>5, HonestCount
      <4> QED
        BY <4>6 DEF Recoverable
    <3> QED
      BY <2>1, <3>1 DEF recoverableTargets
  <2>4. recoverableTargets' \subseteq certifiedTargets
    BY <2>2 DEF OutcomeInv
  <2>5. \A a, b \in certifiedTargets : a = b
    BY DEF OutcomeInv
  <2>6. CASE recoverableTargets' = recoverableTargets
    BY <2>2, <2>6
  <2>7. CASE recoverableTargets' # recoverableTargets
    <3>1. PICK t \in recoverableTargets' : t \notin recoverableTargets
      BY <2>3, <2>7
    <3>2. /\ certifiedTargets # {} /\ recoverableTargets = {}
          /\ recoverableTargets' = certifiedTargets
      BY <2>3, <2>4, <2>5, <3>1
    <3> QED
      BY <2>2, <3>2 DEF Abstract!Next, Abstract!Recover
  <2> QED
    BY <2>6, <2>7
<1>5. CASE UNCHANGED vars
  <2>1. UNCHANGED <<proposals, gen, target, vote>>
    BY <1>5 DEF vars, closeVars, finalityVars
  <2> QED
    BY <2>1, SameShares, SameCertified, SameRecoverable
<1> QED
  BY <1>1, <1>2, <1>3, <1>4, <1>5 DEF Next, FinalityStep

\* The poll implements the abstract outcome for every roster and every choice of
\* at most f corrupt participants: one target is certified, once and for good,
\* and only its result becomes recoverable, after its certificate.
THEOREM PollImplementsOutcome == Spec => ImplementsOutcome
<1>1. Init => Abstract!Init
  <2> SUFFICES ASSUME Init PROVE Abstract!Init
    OBVIOUS
  <2>1. proposals = {}
    BY DEF Init, CloseInit
  <2> QED
    BY <2>1 DEF Abstract!Init, certifiedTargets, recoverableTargets
<1>2. IInv /\ OutcomeInv /\ OutcomeInv' /\ [Next]_vars =>
        [Abstract!Next]_<<certifiedTargets, recoverableTargets>>
  BY OutcomeStep
<1> QED
  BY <1>1, <1>2, FinalityInvariant, OutcomeFromInv, PTL DEF Spec, ImplementsOutcome,
    Abstract!Spec
====
