----------------------------- MODULE CloseProofs -----------------------------
(***************************************************************************)
(* Proofs about ballot closing for every roster, every set of corrupt      *)
(* participants within the bound f, and every set of times and envelopes.  *)
(***************************************************************************)
EXTENDS Close, FiniteSetTheorems, WellFoundedInduction, TLAPS

\* The bound f leaves two thirds of the roster honest, and is smaller than q.
LEMMA Thresholds ==
  /\ N \in Nat /\ F \in Nat /\ Q \in Nat
  /\ 3 * F < N
  /\ Q = N - F
<1>1. N \in Nat
  BY RosterAssumption, FS_CardinalityType DEF N
<1>2. N > 0
  BY <1>1, RosterAssumption
<1>3. F = (N - 1) \div 3
  BY <1>1, <1>2 DEF F, MaximumCorruptParticipants
<1>4. F \in Nat /\ 3 * F < N
  BY <1>1, <1>2, <1>3
<1> QED
  BY <1>1, <1>4 DEF Q, InventoryThreshold, F

\* The honest participants are finite and outnumber the corrupt ones as the
\* roster assumption says.
LEMMA HonestCount ==
  /\ IsFiniteSet(Honest) /\ IsFiniteSet(Corrupt)
  /\ Cardinality(Corrupt) \in Nat
  /\ Cardinality(Honest) = N - Cardinality(Corrupt)
<1>1. IsFiniteSet(Corrupt)
  BY RosterAssumption, FS_Subset
<1>2. IsFiniteSet(Honest) /\ Cardinality(Honest) = N - Cardinality(Participants \cap Corrupt)
  BY RosterAssumption, FS_Difference DEF Honest, N
<1>3. Participants \cap Corrupt = Corrupt
  BY RosterAssumption
<1> QED
  BY <1>1, <1>2, <1>3, FS_CardinalityType

----
(* The organizer's selection, by induction on the responses it took. *)

\* A set of natural numbers has a least one.
LEMMA LeastNatural ==
  ASSUME NEW T, T \subseteq Nat, T # {}
  PROVE  \E x \in T : \A y \in T : x <= y
<1>1. IsWellFoundedOn(OpToRel(<, Nat), Nat)
  BY NatLessThanWellFounded
<1>2. PICK x \in T : \A y \in T : ~(<<y, x>> \in OpToRel(<, Nat))
  BY <1>1, WFMin
<1>3. \A y \in T : ~(y < x)
  BY <1>2 DEF OpToRel
<1> QED
  BY <1>3

\* Induction, with the numbers a fact holds of as a set.
LEMMA Counting ==
  ASSUME NEW S, 0 \in S, \A n \in Nat : n \in S => n + 1 \in S
  PROVE  Nat \subseteq S
<1>1. SUFFICES ASSUME Nat \ S # {} PROVE FALSE
  OBVIOUS
<1>2. PICK x \in Nat \ S : \A y \in Nat \ S : x <= y
  BY <1>1, LeastNatural
<1>3. x - 1 \in Nat /\ ~(x <= x - 1)
  BY <1>2
<1>4. x - 1 \in S
  BY <1>2, <1>3
<1> QED
  BY <1>2, <1>3, <1>4

\* The selections after each taken response are what their definition says.
LEMMA JoinedSteps ==
  ASSUME NEW own, NEW D, NEW responses \in Seq(D), NEW H, NEW q
  PROVE  /\ Joined(own, responses, H, q)[0] = {own}
         /\ \A i \in 1 .. Len(responses) :
              Joined(own, responses, H, q)[i] =
                Join(Joined(own, responses, H, q)[i - 1], responses[i], H, q)
<1> DEFINE n == Len(responses)
           V == SUBSET ({own} \cup D)
           Follows(f, k) == /\ f[0] = {own}
                            /\ \A i \in 1 .. k : f[i] = Join(f[i - 1], responses[i], H, q)
           S == {k \in Nat : k <= n => \E f \in [0 .. k -> V] : Follows(f, k)}
           G(f) == [i \in 0 .. n |->
                      IF i = 0 THEN {own} ELSE Join(f[i - 1], responses[i], H, q)]
<1>0. n \in Nat /\ \A i \in 1 .. n : responses[i] \in D
  OBVIOUS
<1>1. 0 \in S
  <2>1. [i \in 0 .. 0 |-> {own}] \in [0 .. 0 -> V] /\ Follows([i \in 0 .. 0 |-> {own}], 0)
    OBVIOUS
  <2> QED
    BY <2>1
<1>2. ASSUME NEW k \in Nat, k \in S PROVE k + 1 \in S
  <2> SUFFICES ASSUME k + 1 <= n
               PROVE  \E f \in [0 .. k + 1 -> V] : Follows(f, k + 1)
    OBVIOUS
  <2>1. PICK f \in [0 .. k -> V] : Follows(f, k)
    BY <1>0, <1>2
  <2> DEFINE last == Join(f[k], responses[k + 1], H, q)
             g == [i \in 0 .. k + 1 |-> IF i <= k THEN f[i] ELSE last]
  <2>2. last \in V
    <3>1. f[k] \in V /\ responses[k + 1] \in D
      BY <1>0, <2>1
    <3> QED
      BY <3>1 DEF Join
  <2>3. g \in [0 .. k + 1 -> V]
    BY <2>1, <2>2
  <2>4. g[0] = {own}
    BY <2>1
  <2>5. ASSUME NEW i \in 1 .. k + 1 PROVE g[i] = Join(g[i - 1], responses[i], H, q)
    <3>1. g[i - 1] = f[i - 1] /\ (i <= k => g[i] = f[i]) /\ (i = k + 1 => g[i] = last)
      OBVIOUS
    <3> HIDE DEF g
    <3>2. CASE i <= k
      BY <2>1, <3>1, <3>2
    <3>3. CASE i = k + 1
      BY <3>1, <3>3
    <3> QED
      BY <3>2, <3>3
  <2> HIDE DEF g
  <2> QED
    BY <2>3, <2>4, <2>5
<1> HIDE DEF S
<1>3. n \in S
  BY <1>0, <1>1, <1>2, Counting
<1>4. \E f : f = G(f)
  <2>1. PICK f \in [0 .. n -> V] : Follows(f, n)
    BY <1>0, <1>3 DEF S
  <2>2. f = G(f)
    BY <1>0, <2>1
  <2> QED
    BY <2>2
<1>5. Joined(own, responses, H, q) = CHOOSE f : f = G(f)
  BY DEF Joined
<1> HIDE DEF G, n
<1>6. Joined(own, responses, H, q) = G(Joined(own, responses, H, q))
  BY <1>4, <1>5, Zenon
<1> QED
  BY <1>0, <1>6 DEF G, n

\* The selection holds the own response and at most q of those taken, needs only
\* bodies that are held, and leaves out no response that may always join unless
\* it is full.
LEMMA SelectionComplete ==
  ASSUME NEW own, NEW D, NEW responses \in Seq(D), NEW H, NEW q \in Nat, q >= 1,
         NEW R, HoldsUsable(H, {own}),
         \A W \in SUBSET ({own} \cup ToSet(responses)), r \in R :
           own \in W /\ HoldsUsable(H, W) => HoldsUsable(H, W \cup {r})
  PROVE  LET selection == Selection(own, responses, H, q)
         IN  /\ selection \subseteq {own} \cup ToSet(responses)
             /\ own \in selection
             /\ IsFiniteSet(selection) /\ Cardinality(selection) <= q
             /\ HoldsUsable(H, selection)
             /\ Cardinality(selection) < q => R \cap ToSet(responses) \subseteq selection
<1> DEFINE s == Joined(own, responses, H, q)
           n == Len(responses)
           Good(i) == /\ s[i] \subseteq {own} \cup ToSet(responses)
                      /\ own \in s[i]
                      /\ IsFiniteSet(s[i]) /\ Cardinality(s[i]) <= q
                      /\ HoldsUsable(H, s[i])
                      /\ Cardinality(s[i]) < q =>
                           \A j \in 1 .. i : responses[j] \in R => responses[j] \in s[i]
           S == {i \in Nat : i <= n => Good(i)}
<1>0. n \in Nat /\ \A i \in 1 .. n : responses[i] \in ToSet(responses)
  BY DEF ToSet
<1>1. s[0] = {own} /\ \A i \in 1 .. n : s[i] = Join(s[i - 1], responses[i], H, q)
  <2>1. ASSUME NEW limit
        PROVE  /\ Joined(own, responses, H, limit)[0] = {own}
               /\ \A i \in 1 .. Len(responses) :
                    Joined(own, responses, H, limit)[i] =
                      Join(Joined(own, responses, H, limit)[i - 1], responses[i], H, limit)
    BY JoinedSteps
  <2> QED
    BY <2>1
<1> HIDE DEF s
<1>2. 0 \in S
  <2>1. IsFiniteSet({own}) /\ Cardinality({own}) = 1
    BY FS_Singleton
  <2>2. Good(0)
    BY <1>1, <2>1
  <2> QED
    BY <2>2
<1>3. ASSUME NEW i \in Nat, i \in S PROVE i + 1 \in S
  <2> SUFFICES ASSUME i + 1 <= n PROVE Good(i + 1)
    OBVIOUS
  <2>1. Good(i)
    BY <1>0, <1>3
  <2>2. i + 1 \in 1 .. n /\ s[i + 1] = Join(s[i], responses[i + 1], H, q)
    BY <1>0, <1>1
  <2> DEFINE r == responses[i + 1]
             T == s[i] \cup {r}
  <2>3. IsFiniteSet(T) /\ Cardinality(s[i]) \in Nat /\ Cardinality(T) \in Nat
    BY <2>1, FS_AddElement, FS_CardinalityType
  <2>4. Cardinality(T) <= Cardinality(s[i]) + 1 /\ (Cardinality(T) < q => Cardinality(s[i]) < q)
    BY <2>1, <2>3, FS_AddElement, FS_CardinalityType
  <2>5. CASE Cardinality(s[i]) < q /\ HoldsUsable(H, T)
    <3>1. s[i + 1] = T
      BY <2>2, <2>5 DEF Join
    <3>2. T \subseteq {own} \cup ToSet(responses) /\ own \in T
      BY <1>0, <2>1, <2>2
    <3>3. Cardinality(T) <= q
      BY <2>3, <2>4, <2>5
    <3>4. ASSUME NEW j \in 1 .. i + 1, responses[j] \in R PROVE responses[j] \in T
      <4>1. j \in 1 .. i \/ j = i + 1
        OBVIOUS
      <4> QED
        BY <2>1, <2>5, <3>4, <4>1
    <3> QED
      BY <2>3, <2>5, <3>1, <3>2, <3>3, <3>4
  <2>6. CASE ~(Cardinality(s[i]) < q /\ HoldsUsable(H, T))
    <3>1. s[i + 1] = s[i]
      BY <2>2, <2>6 DEF Join
    <3>2. ASSUME Cardinality(s[i]) < q, NEW j \in 1 .. i + 1, responses[j] \in R
          PROVE  responses[j] \in s[i]
      <4>1. r \notin R
        BY <2>1, <2>6, <3>2
      <4>2. j \in 1 .. i \/ j = i + 1
        OBVIOUS
      <4> QED
        BY <2>1, <3>2, <4>1, <4>2
    <3> QED
      BY <2>1, <3>1, <3>2
  <2> QED
    BY <2>5, <2>6
<1> HIDE DEF S
<1>4. n \in S
  BY <1>0, <1>2, <1>3, Counting
<1>5. Good(n)
  BY <1>0, <1>4 DEF S
<1>6. s[n] = Selection(own, responses, H, q)
  BY DEF Selection, s
<1>7. \A r \in R \cap ToSet(responses) : \E j \in 1 .. n : r = responses[j]
  BY DEF ToSet
<1> HIDE DEF n
<1> QED
  BY <1>5, <1>6, <1>7

\* Whatever joins, the selection is of the own response and those taken.
LEMMA SelectionTaken ==
  ASSUME NEW own, NEW D, NEW responses \in Seq(D), NEW H, NEW q
  PROVE  Selection(own, responses, H, q) \subseteq {own} \cup ToSet(responses)
<1> DEFINE s == Joined(own, responses, H, q)
           n == Len(responses)
           S == {i \in Nat : i <= n => s[i] \subseteq {own} \cup ToSet(responses)}
<1>0. n \in Nat /\ \A i \in 1 .. n : responses[i] \in ToSet(responses)
  BY DEF ToSet
<1>1. s[0] = {own} /\ \A i \in 1 .. n : s[i] = Join(s[i - 1], responses[i], H, q)
  BY JoinedSteps
<1> HIDE DEF s
<1>2. 0 \in S
  BY <1>1
<1>3. ASSUME NEW i \in Nat, i \in S PROVE i + 1 \in S
  <2> SUFFICES ASSUME i + 1 <= n PROVE s[i + 1] \subseteq {own} \cup ToSet(responses)
    OBVIOUS
  <2>1. s[i] \subseteq {own} \cup ToSet(responses) /\ i + 1 \in 1 .. n
    BY <1>0, <1>3
  <2>2. s[i + 1] = Join(s[i], responses[i + 1], H, q)
    BY <1>1, <2>1
  <2> QED
    BY <1>0, <2>1, <2>2 DEF Join
<1> HIDE DEF S
<1>4. n \in S
  BY <1>0, <1>2, <1>3, Counting
<1>5. s[n] = Selection(own, responses, H, q)
  BY DEF Selection, s
<1> QED
  BY <1>0, <1>4, <1>5 DEF S

----
(* Type correctness. *)

\* The initial state is typed.
LEMMA TypeInit == CloseInit => CloseTypeOK
<1> SUFFICES ASSUME CloseInit PROVE CloseTypeOK
  OBVIOUS
<1>1. taken \in Seq(Responses)
  BY DEF CloseInit
<1> QED
  BY <1>1 DEF CloseInit, CloseTypeOK, Generations, setupRetained, NoTime

\* An honest participant's envelope is an envelope.
LEMMA EnvelopeTyped ==
  ASSUME NEW p \in Honest, NEW time \in Times
  PROVE  Envelope(p, time) \in Envelopes
BY DEF Envelopes

\* Every signed envelope is an envelope.
LEMMA SignedTyped ==
  ASSUME CloseTypeOK
  PROVE  SignedEnvelopes \subseteq Envelopes /\ AvailableBodies \subseteq Envelopes
BY DEF CloseTypeOK, SignedEnvelopes, SignedBallots, AvailableBodies, Envelopes

----
(* What no step changes. *)

\* Generations grow; an attempted ballot, a locked intent with the bodies held
\* at the lock, and a retained response stay as they are.
Frame ==
  \A p \in Honest :
    /\ gen'[p] >= gen[p]
    /\ gen[p] >= ballotLocked => ballot'[p] = ballot[p]
    /\ gen[p] >= intentLocked => lock'[p] = lock[p] /\ receipt'[p] = receipt[p]
    /\ gen[p] >= responding => response'[p] = response[p]

\* The generation of a root is an integer.
LEMMA GenTyped ==
  ASSUME CloseTypeOK
  PROVE  \A p \in Honest : gen[p] \in Int
<1>1. gen \in [Honest -> Generations]
  BY DEF CloseTypeOK
<1>2. Generations \subseteq Int
  BY DEF Generations, setupRetained
<1> QED
  BY <1>1, <1>2

\* The same after a step that keeps the type.
LEMMA GenTypedNext ==
  ASSUME CloseTypeOK'
  PROVE  \A p \in Honest : gen'[p] \in Int
<1>1. gen' \in [Honest -> Generations]
  BY DEF CloseTypeOK
<1>2. Generations \subseteq Int
  BY DEF Generations, setupRetained
<1> QED
  BY <1>1, <1>2

\* A signed ballot stays signed: roots advance and ballots stay.
LEMMA SignedGrow ==
  ASSUME CloseTypeOK, CloseTypeOK', Frame
  PROVE  SignedEnvelopes \subseteq SignedEnvelopes'
<1>1. ASSUME NEW p \in Honest, gen[p] >= ballotSigned
      PROVE  gen'[p] >= ballotSigned /\ ballot'[p] = ballot[p]
  BY <1>1, GenTyped, GenTypedNext DEF Frame, ballotSigned, ballotLocked
<1>2. SignedBallots \subseteq SignedBallots'
  BY <1>1 DEF SignedBallots
<1> QED
  BY <1>2 DEF SignedEnvelopes

\* An authentic response stays authentic while roots only advance.
LEMMA AuthenticStays ==
  ASSUME CloseTypeOK, CloseTypeOK', Frame, NEW r, NEW t, AuthenticResponse(r, t)
  PROVE  AuthenticResponse(r, t)'
<1>1. r.listed \subseteq SignedEnvelopes'
  BY SignedGrow DEF AuthenticResponse
<1>2. ASSUME r.responder \in Honest
      PROVE  /\ gen'[r.responder] >= responded
             /\ lock'[r.responder] = t
             /\ response'[r.responder] = r.listed
  BY <1>2, GenTyped, GenTypedNext
  DEF AuthenticResponse, Frame, responded, responding, intentLocked
<1> QED
  BY <1>1, <1>2 DEF AuthenticResponse

\* What the organizer took stays authentic while roots only advance.
LEMMA TakenStays ==
  ASSUME CloseIInv, CloseTypeOK', Frame, taken' = taken
  PROVE  TakenInv'
<1> SUFFICES ASSUME NEW r \in ToSet(taken)
             PROVE  /\ Organizer \in Honest
                    /\ gen'[Organizer] >= intentLocked
                    /\ r.responder # Organizer
                    /\ AuthenticResponse(r, lock[Organizer])'
  BY DEF TakenInv
<1>1. /\ Organizer \in Honest
      /\ gen[Organizer] >= intentLocked
      /\ r.responder # Organizer
      /\ AuthenticResponse(r, lock[Organizer])
  BY DEF CloseIInv, TakenInv
<1>2. gen'[Organizer] >= intentLocked /\ lock'[Organizer] = lock[Organizer]
  BY <1>1, GenTyped, GenTypedNext DEF Frame, CloseIInv, intentLocked
<1>3. AuthenticResponse(r, lock[Organizer])'
  <2>1. PICK t : t = lock[Organizer]
    OBVIOUS
  <2>2. AuthenticResponse(r, t)
    BY <1>1, <2>1
  <2>3. AuthenticResponse(r, t)'
    BY <2>2, AuthenticStays DEF CloseIInv
  <2> QED
    BY <1>2, <2>1, <2>3
<1> QED
  BY <1>1, <1>2, <1>3

\* Proposals stay authentic while roots only advance.
LEMMA ProposalsStay ==
  ASSUME CloseIInv, CloseTypeOK', Frame,
         retained' \cup proposals' \subseteq retained \cup proposals
  PROVE  ProposalsInv'
<1> SUFFICES ASSUME NEW pr \in retained \cup proposals
             PROVE  /\ \A r \in pr.responses : AuthenticResponse(r, pr.intent)'
                    /\ Cardinality(Responders(pr.responses)) = Q
                    /\ Organizer \in Responders(pr.responses)
  BY DEF ProposalsInv, Responders
<1>1. /\ \A r \in pr.responses : AuthenticResponse(r, pr.intent)
      /\ Cardinality(Responders(pr.responses)) = Q
      /\ Organizer \in Responders(pr.responses)
  BY DEF CloseIInv, ProposalsInv
<1>2. ASSUME NEW r \in pr.responses
      PROVE  AuthenticResponse(r, pr.intent)'
  BY <1>1, AuthenticStays DEF CloseIInv
<1> QED
  BY <1>1, <1>2

----
(* Each action preserves the inductive invariant. *)

\* Locking a ballot attempt preserves the invariant.
LEMMA BeginBallotInv ==
  ASSUME CloseIInv, NEW p \in Honest, NEW time \in Times, BeginBallot(p, time)
  PROVE  CloseIInv'
<1> USE DEF BeginBallot
<1>1. CloseTypeOK'
  BY EnvelopeTyped
  DEF CloseIInv, CloseTypeOK, Generations, setupRetained, ballotLocked
<1>2. Frame
  BY GenTyped DEF CloseIInv, CloseTypeOK, Frame, setupRetained, ballotLocked, intentLocked,
    responding
<1>3. SignedEnvelopes \subseteq SignedEnvelopes'
  BY <1>1, <1>2, SignedGrow DEF CloseIInv
<1>4. BallotsInv'
  BY EnvelopeTyped, GenTyped
  DEF CloseIInv, CloseTypeOK, BallotsInv, Envelope, setupRetained, ballotLocked
<1>5. KnownInv'
  BY <1>3 DEF CloseIInv, KnownInv
<1>6. LockInv'
  BY GenTyped DEF CloseIInv, CloseTypeOK, LockInv, intentRetained, intentLocked, ballotLocked
<1>7. ResponseInv'
  BY GenTyped DEF CloseIInv, CloseTypeOK, ResponseInv, responding, ballotLocked
<1>8. TakenInv'
  BY <1>1, <1>2, TakenStays
<1>9. ProposalsInv'
  BY <1>1, <1>2, ProposalsStay
<1> QED
  BY <1>1, <1>4, <1>5, <1>6, <1>7, <1>8, <1>9 DEF CloseIInv

\* Signing the ballot preserves the invariant.
LEMMA CompleteBallotInv ==
  ASSUME CloseIInv, NEW p \in Honest, CompleteBallot(p)
  PROVE  CloseIInv'
<1> USE DEF CompleteBallot
<1>1. CloseTypeOK'
  BY DEF CloseIInv, CloseTypeOK, Generations, setupRetained, ballotSigned
<1>2. Frame
  BY GenTyped DEF CloseIInv, CloseTypeOK, Frame, ballotLocked, ballotSigned
<1>3. SignedEnvelopes \subseteq SignedEnvelopes'
  BY <1>1, <1>2, SignedGrow DEF CloseIInv
<1>4. BallotsInv'
  BY GenTyped DEF CloseIInv, CloseTypeOK, BallotsInv, setupRetained, ballotSigned
<1>5. KnownInv'
  BY <1>3 DEF CloseIInv, KnownInv
<1>6. LockInv'
  BY GenTyped DEF CloseIInv, CloseTypeOK, LockInv, intentRetained, intentLocked, ballotSigned
<1>7. ResponseInv'
  BY GenTyped DEF CloseIInv, CloseTypeOK, ResponseInv, responding, ballotSigned
<1>8. TakenInv'
  BY <1>1, <1>2, TakenStays
<1>9. ProposalsInv'
  BY <1>1, <1>2, ProposalsStay
<1> QED
  BY <1>1, <1>4, <1>5, <1>6, <1>7, <1>8, <1>9 DEF CloseIInv

\* Holding a ballot body preserves the invariant.
LEMMA HoldInv ==
  ASSUME CloseIInv, NEW p \in Honest, NEW e \in SignedEnvelopes, Hold(p, e)
  PROVE  CloseIInv'
<1> USE DEF Hold
<1>1. CloseTypeOK'
  BY SignedTyped DEF CloseIInv, CloseTypeOK
<1>2. Frame
  BY GenTyped DEF CloseIInv, Frame
<1>3. SignedEnvelopes \subseteq SignedEnvelopes'
  BY <1>1, <1>2, SignedGrow DEF CloseIInv
<1>4. BallotsInv'
  BY DEF CloseIInv, BallotsInv
<1>5. KnownInv'
  BY <1>3 DEF CloseIInv, CloseTypeOK, KnownInv
<1>6. LockInv'
  BY GenTyped DEF CloseIInv, CloseTypeOK, LockInv, Admissible, Collecting,
                  intentRetained, intentLocked
<1>7. ResponseInv'
  BY GenTyped DEF CloseIInv, CloseTypeOK, ResponseInv, Collecting, responding
<1>8. TakenInv'
  BY <1>1, <1>2, TakenStays
<1>9. ProposalsInv'
  BY <1>1, <1>2, ProposalsStay
<1> QED
  BY <1>1, <1>4, <1>5, <1>6, <1>7, <1>8, <1>9 DEF CloseIInv

\* Retaining the intent body preserves the invariant.
LEMMA SignIntentInv ==
  ASSUME CloseIInv, NEW t \in CloseTimes, SignIntent(t)
  PROVE  CloseIInv'
<1> USE DEF SignIntent
<1>1. CloseTypeOK'
  BY DEF CloseIInv, CloseTypeOK, Generations, setupRetained, intentRetained
<1>2. Frame
  BY GenTyped DEF CloseIInv, CloseTypeOK, Frame, Unlocked, setupRetained, ballotSigned,
                  intentRetained, intentLocked
<1>3. SignedEnvelopes \subseteq SignedEnvelopes'
  BY <1>1, <1>2, SignedGrow DEF CloseIInv
<1>4. BallotsInv'
  BY GenTyped DEF CloseIInv, CloseTypeOK, BallotsInv, setupRetained, intentRetained
<1>5. KnownInv'
  BY <1>3 DEF CloseIInv, KnownInv
<1>6. LockInv'
  BY GenTyped DEF CloseIInv, CloseTypeOK, LockInv, Unlocked, intentRetained, intentLocked
<1>7. ResponseInv'
  BY GenTyped DEF CloseIInv, CloseTypeOK, ResponseInv, responding, intentRetained
<1>8. TakenInv'
  BY <1>1, <1>2, TakenStays
<1>9. ProposalsInv'
  BY <1>1, <1>2, ProposalsStay
<1> QED
  BY <1>1, <1>4, <1>5, <1>6, <1>7, <1>8, <1>9 DEF CloseIInv

\* Locking an intent preserves the invariant.
LEMMA LockIntentInv ==
  ASSUME CloseIInv, NEW p \in Honest, NEW t \in CloseTimes,
         gen[p] < intentLocked, ballot[p] \subseteq held[p], Lock(p, t)
  PROVE  CloseIInv'
<1> USE DEF Lock
<1>1. CloseTypeOK'
  BY DEF CloseIInv, CloseTypeOK, Generations, setupRetained, intentLocked, OnTime
<1>2. Frame
  BY GenTyped DEF CloseIInv, CloseTypeOK, Frame, intentLocked, responding
<1>3. SignedEnvelopes \subseteq SignedEnvelopes'
  BY <1>1, <1>2, SignedGrow DEF CloseIInv
<1>4. BallotsInv'
  BY GenTyped DEF CloseIInv, CloseTypeOK, BallotsInv, setupRetained, intentLocked
<1>5. KnownInv'
  BY <1>3 DEF CloseIInv, CloseTypeOK, KnownInv, OnTime
<1>6. LockInv'
  BY GenTyped DEF CloseIInv, CloseTypeOK, LockInv, OnTime, intentRetained, intentLocked
<1>7. ResponseInv'
  BY GenTyped DEF CloseIInv, CloseTypeOK, ResponseInv, responding, intentLocked
<1>8. TakenInv'
  BY <1>1, <1>2, TakenStays
<1>9. ProposalsInv'
  BY <1>1, <1>2, ProposalsStay
<1> QED
  BY <1>1, <1>4, <1>5, <1>6, <1>7, <1>8, <1>9 DEF CloseIInv

\* Two authentic envelopes of one honest author are the same.
LEMMA HonestSlotSingle ==
  ASSUME CloseIInv, NEW d \in SignedEnvelopes, NEW e \in SignedEnvelopes,
         d.author = e.author, e.author \in Honest
  PROVE  d = e
<1>1. ASSUME NEW c \in SignedEnvelopes, c.author \in Honest
      PROVE  c \in ballot[c.author]
  <2>1. c \notin CorruptEnvelopes
    BY <1>1, EnvelopesAssumption DEF Honest
  <2>2. PICK p \in Honest : c \in ballot[p]
    BY <1>1, <2>1 DEF SignedEnvelopes, SignedBallots
  <2> QED
    BY <2>2 DEF CloseIInv, BallotsInv
<1> QED
  BY <1>1 DEF CloseIInv, BallotsInv

\* Retaining the response body preserves the invariant.
LEMMA RetainResponseInv ==
  ASSUME CloseIInv, NEW p \in Honest, RetainResponse(p)
  PROVE  CloseIInv'
<1> USE DEF RetainResponse
<1>1. CloseTypeOK'
  BY DEF CloseIInv, CloseTypeOK, Generations, setupRetained, responding, HonestListing, OnTime
<1>2. Frame
  BY GenTyped DEF CloseIInv, CloseTypeOK, Frame, intentLocked, responding
<1>3. SignedEnvelopes \subseteq SignedEnvelopes'
  BY <1>1, <1>2, SignedGrow DEF CloseIInv
<1>4. BallotsInv'
  BY GenTyped DEF CloseIInv, CloseTypeOK, BallotsInv, setupRetained, responding
<1>5. KnownInv'
  BY <1>3 DEF CloseIInv, KnownInv
<1>6. LockInv'
  BY GenTyped DEF CloseIInv, CloseTypeOK, LockInv, intentRetained, intentLocked, responding
<1>7. ResponseInv'
  <2>1. HonestListing(known[p], held[p], lock[p]) \subseteq known[p]
    BY DEF HonestListing, OnTime
  <2>2. ASSUME NEW e \in OnTime(receipt[p], lock[p]), e.author \in Honest
        PROVE  e \in HonestListing(known[p], held[p], lock[p])
    <3>1. e \in held[p] /\ e \in known[p] /\ e.time <= lock[p]
      BY GenTyped DEF CloseIInv, LockInv, KnownInv, OnTime
    <3>2. ASSUME NEW d \in known[p], d.author = e.author PROVE d = e
      BY <2>2, <3>1, <3>2, HonestSlotSingle DEF CloseIInv, KnownInv
    <3>3. ~HasRival(OnTime(known[p], lock[p]), e)
      BY <3>2 DEF HasRival, OnTime
    <3> QED
      BY <3>1, <3>3 DEF HonestListing, OnTime
  <2>3. response'[p] = HonestListing(known[p], held[p], lock[p])
    BY DEF CloseIInv, CloseTypeOK
  <2>4. ASSUME NEW h \in Honest, h # p
        PROVE  response'[h] = response[h] /\ gen'[h] = gen[h]
    BY <2>4 DEF CloseIInv, CloseTypeOK
  <2> QED
    BY <2>1, <2>2, <2>3, <2>4 DEF CloseIInv, ResponseInv
<1>8. TakenInv'
  BY <1>1, <1>2, TakenStays
<1>9. ProposalsInv'
  BY <1>1, <1>2, ProposalsStay
<1> QED
  BY <1>1, <1>4, <1>5, <1>6, <1>7, <1>8, <1>9 DEF CloseIInv

\* A signed response that a participant is shown is authentic and on time.
LEMMA SignedResponseAuthentic ==
  ASSUME CloseIInv, NEW p \in Participants, NEW t \in CloseTimes,
         NEW r \in SignedResponses(p, t)
  PROVE  AuthenticResponse(r, t) /\ r.responder = p /\ \A e \in r.listed : e.time <= t
<1>1. CASE p \in Honest
  <2>1. r = ResponseOf(p) /\ gen[p] >= responded /\ lock[p] = t
    BY <1>1 DEF SignedResponses
  <2>2. response[p] \subseteq known[p] /\ known[p] \subseteq SignedEnvelopes
    BY <1>1, <2>1, GenTyped DEF CloseIInv, ResponseInv, KnownInv, responded, responding
  <2>3. \A e \in known[p] : e.time <= lock[p]
    BY <1>1, <2>1, GenTyped DEF CloseIInv, LockInv, responded, intentLocked
  <2>4. response[p] \in SUBSET Envelopes
    BY <1>1 DEF CloseIInv, CloseTypeOK
  <2> QED
    BY <1>1, <2>1, <2>2, <2>3, <2>4 DEF AuthenticResponse, ResponseOf, Responses
<1>2. CASE p \notin Honest
  <2>1. PICK listed \in CorruptListings(t) :
          r = [responder |-> p, intent |-> t, listed |-> listed]
    BY <1>2 DEF SignedResponses
  <2>2. listed \subseteq SignedEnvelopes /\ \A e \in listed : e.time <= t
    BY <2>1 DEF CorruptListings, OnTime
  <2>3. listed \subseteq Envelopes
    BY <2>2, SignedTyped DEF CloseIInv
  <2> QED
    BY <1>2, <2>1, <2>2, <2>3 DEF AuthenticResponse, Responses
<1> QED
  BY <1>1, <1>2

\* Taking a response preserves the invariant.
LEMMA TakeResponseInv ==
  ASSUME CloseIInv, NEW p \in Participants, TakeResponse(p)
  PROVE  CloseIInv'
<1>1. Organizer \in Honest /\ gen[Organizer] = intentLocked /\ p # Organizer
  BY DEF TakeResponse
<1>2. lock[Organizer] \in CloseTimes
  BY <1>1, GenTyped DEF CloseIInv, LockInv, intentLocked, intentRetained
<1>3. PICK r \in SignedResponses(p, lock[Organizer]) :
        /\ taken' = Append(taken, r)
        /\ known' = [known EXCEPT ![Organizer] = @ \cup r.listed]
  BY DEF TakeResponse
<1>4. /\ AuthenticResponse(r, lock[Organizer])
      /\ r.responder = p
      /\ \A e \in r.listed : e.time <= lock[Organizer]
  BY <1>2, <1>3, SignedResponseAuthentic
<1>5. UNCHANGED <<gen, ballot, held, lock, response, retained, proposals, receipt>>
  BY DEF TakeResponse
<1>6. CloseTypeOK'
  <2>1. r \in Responses /\ r.listed \subseteq Envelopes
    BY <1>4, SignedTyped DEF AuthenticResponse, CloseIInv
  <2>2. taken' \in Seq(Responses)
    BY <1>3, <2>1 DEF CloseIInv, CloseTypeOK
  <2>3. known' \in [Honest -> SUBSET Envelopes]
    BY <1>3, <2>1 DEF CloseIInv, CloseTypeOK
  <2> QED
    BY <1>5, <2>2, <2>3 DEF CloseIInv, CloseTypeOK
<1>7. Frame
  BY <1>5, GenTyped DEF CloseIInv, Frame
<1>8. SignedEnvelopes \subseteq SignedEnvelopes'
  BY <1>6, <1>7, SignedGrow DEF CloseIInv
<1>9. BallotsInv'
  BY <1>5 DEF CloseIInv, BallotsInv
<1>10. KnownInv'
  BY <1>3, <1>4, <1>5, <1>8 DEF CloseIInv, CloseTypeOK, KnownInv, AuthenticResponse
<1>11. LockInv'
  BY <1>3, <1>4, <1>5 DEF CloseIInv, CloseTypeOK, LockInv
<1>12. ResponseInv'
  BY <1>3, <1>5 DEF CloseIInv, CloseTypeOK, ResponseInv
<1>13. TakenInv'
  <2>1. taken \in Seq(Responses)
    BY DEF CloseIInv, CloseTypeOK
  <2>2. ToSet(taken') \subseteq ToSet(taken) \cup {r}
    BY <1>3, <2>1 DEF ToSet
  <2>3. ASSUME NEW s \in ToSet(taken')
        PROVE  s.responder # Organizer /\ AuthenticResponse(s, lock[Organizer])
    BY <1>1, <1>4, <2>2 DEF CloseIInv, TakenInv
  <2>4. ASSUME NEW s \in ToSet(taken')
        PROVE  AuthenticResponse(s, lock[Organizer])'
    <3>1. PICK t : t = lock[Organizer]
      OBVIOUS
    <3>2. AuthenticResponse(s, t)'
      BY <1>6, <1>7, <2>3, <3>1, AuthenticStays DEF CloseIInv
    <3> QED
      BY <1>5, <3>1, <3>2
  <2> QED
    BY <1>1, <1>5, <2>3, <2>4, GenTyped DEF TakenInv, CloseIInv, intentLocked
<1>14. ProposalsInv'
  BY <1>5, <1>6, <1>7, ProposalsStay
<1> QED
  BY <1>6, <1>9, <1>10, <1>11, <1>12, <1>13, <1>14 DEF CloseIInv

\* Signing the response preserves the invariant.
LEMMA SignResponseInv ==
  ASSUME CloseIInv, NEW p \in Honest, SignResponse(p)
  PROVE  CloseIInv'
<1>1. /\ gen[p] = responding
      /\ gen' = [gen EXCEPT ![p] = responded]
      /\ UNCHANGED <<ballot, held, known, lock, response, taken, proposals, receipt>>
  BY DEF SignResponse
<1>2. gen' \in [Honest -> Generations] /\ gen'[p] = responded
  BY <1>1 DEF CloseIInv, CloseTypeOK, Generations, setupRetained, responded
<1>3. Frame
  BY <1>1, GenTyped DEF CloseIInv, CloseTypeOK, Frame, responding, responded
<1>4. lock[p] \in CloseTimes /\ ResponseOf(p) \in Responses
  <2>1. lock[p] \in CloseTimes
    BY <1>1, GenTyped DEF CloseIInv, LockInv, responding, intentRetained
  <2>2. p \in Participants /\ response[p] \in SUBSET Envelopes
    BY DEF CloseIInv, CloseTypeOK, Honest
  <2> QED
    BY <2>1, <2>2 DEF ResponseOf, Responses
<1>5. CASE p # Organizer
  <2>1. retained' = retained
    BY <1>5 DEF SignResponse
  <2>2. CloseTypeOK'
    BY <1>1, <1>2, <2>1 DEF CloseIInv, CloseTypeOK
  <2> QED
    BY <1>1, <1>2, <1>3, <2>1, <2>2, TakenStays, ProposalsStay, SignedGrow, GenTyped
    DEF CloseIInv, CloseTypeOK, BallotsInv, KnownInv, LockInv, ResponseInv, setupRetained,
        intentRetained, intentLocked, responding, responded
<1>6. CASE p = Organizer
  <2>0. PICK own : own = ResponseOf(Organizer)
    OBVIOUS
  <2>1. ProposalSelection \subseteq {own} \cup ToSet(taken)
    <3>1. taken \in Seq(Responses)
      BY DEF CloseIInv, CloseTypeOK
    <3> QED
      BY <2>0, <3>1, SelectionTaken DEF ProposalSelection
  <2>2. retained' = {[intent |-> lock[p], responses |-> ProposalSelection]}
    BY <1>6 DEF SignResponse
  <2>3. CanPropose
    BY <1>6 DEF SignResponse
  <2>4. ToSet(taken) \subseteq Responses
    BY DEF CloseIInv, CloseTypeOK, ToSet
  <2>5. retained' \in SUBSET Proposals
    BY <1>4, <1>6, <2>0, <2>1, <2>2, <2>4 DEF Proposals
  <2>6. CloseTypeOK'
    BY <1>1, <1>2, <2>5 DEF CloseIInv, CloseTypeOK
  <2>7. \A r \in {own} \cup ToSet(taken) : AuthenticResponse(r, lock[Organizer])'
    <3>1. PICK t : t = lock[Organizer]
      OBVIOUS
    <3>2. ASSUME NEW r \in ToSet(taken) PROVE AuthenticResponse(r, t)'
      BY <1>3, <2>6, <3>1, AuthenticStays DEF CloseIInv, TakenInv
    <3>3. own.listed \subseteq SignedEnvelopes'
      BY <1>1, <1>3, <1>6, <2>0, <2>6, SignedGrow, GenTyped
      DEF CloseIInv, ResponseInv, KnownInv, ResponseOf
    <3>4. AuthenticResponse(own, t)'
      BY <1>1, <1>2, <1>4, <1>6, <2>0, <3>1, <3>3 DEF AuthenticResponse, ResponseOf, responded
    <3> QED
      BY <1>1, <3>1, <3>2, <3>4
  <2>8. ProposalsInv'
    <3>1. ASSUME NEW pr \in retained'
          PROVE  /\ \A r \in pr.responses : AuthenticResponse(r, pr.intent)'
                 /\ Cardinality(Responders(pr.responses)) = Q
                 /\ Organizer \in Responders(pr.responses)
      BY <1>1, <1>6, <2>1, <2>2, <2>3, <2>7 DEF CanPropose
    <3>2. ASSUME NEW pr \in proposals
          PROVE  /\ \A r \in pr.responses : AuthenticResponse(r, pr.intent)'
                 /\ Cardinality(Responders(pr.responses)) = Q
                 /\ Organizer \in Responders(pr.responses)
      BY <1>3, <2>6, AuthenticStays DEF CloseIInv, ProposalsInv
    <3> QED
      BY <1>1, <3>1, <3>2 DEF ProposalsInv, Responders
  <2> QED
    BY <1>1, <1>2, <1>3, <2>6, <2>8, TakenStays, SignedGrow, GenTyped
    DEF CloseIInv, CloseTypeOK, BallotsInv, KnownInv, LockInv, ResponseInv, setupRetained,
        intentRetained, intentLocked, responding, responded
<1> QED
  BY <1>5, <1>6

\* Signing the proposal preserves the invariant.
LEMMA ProposeInv ==
  ASSUME CloseIInv, Propose
  PROVE  CloseIInv'
<1> USE DEF Propose
<1>1. CloseTypeOK'
  BY DEF CloseIInv, CloseTypeOK, Generations, setupRetained, proposed
<1>2. Frame
  BY GenTyped DEF CloseIInv, CloseTypeOK, Frame, responded, proposed
<1>3. SignedEnvelopes \subseteq SignedEnvelopes'
  BY <1>1, <1>2, SignedGrow DEF CloseIInv
<1>4. BallotsInv' /\ KnownInv'
  BY <1>3, GenTyped DEF CloseIInv, CloseTypeOK, BallotsInv, KnownInv, setupRetained, proposed
<1>5. LockInv' /\ ResponseInv'
  BY GenTyped DEF CloseIInv, CloseTypeOK, LockInv, ResponseInv, intentRetained, intentLocked,
                  responding, responded, proposed
<1>6. TakenInv' /\ ProposalsInv'
  BY <1>1, <1>2, TakenStays, ProposalsStay
<1> QED
  BY <1>1, <1>4, <1>5, <1>6 DEF CloseIInv

\* A corrupt organizer's proposal preserves the invariant.
LEMMA CorruptProposeInv ==
  ASSUME CloseIInv, NEW t \in CloseTimes, NEW responders \in CorruptQuorums,
         CorruptPropose(t, responders)
  PROVE  CloseIInv'
<1>0. /\ responders \in SUBSET Participants
      /\ Organizer \in responders /\ Cardinality(responders) = Q
  BY DEF CorruptQuorums
<1>1. PICK listing \in [responders \cap Corrupt -> CorruptListings(t)] :
        proposals' = proposals \cup
          {[intent |-> t,
            responses |-> {ResponseOf(p) : p \in responders \cap Honest} \cup
              {[responder |-> p, intent |-> t, listed |-> listing[p]] :
                 p \in responders \cap Corrupt}]}
  BY DEF CorruptPropose
<1>2. UNCHANGED <<gen, ballot, held, known, lock, response, taken, retained, receipt>>
  BY DEF CorruptPropose
<1>3. PICK responses :
        responses = {ResponseOf(p) : p \in responders \cap Honest} \cup
                    {[responder |-> p, intent |-> t, listed |-> listing[p]] :
                       p \in responders \cap Corrupt}
  OBVIOUS
<1>4. ASSUME NEW r \in responses
      PROVE  AuthenticResponse(r, t) /\ r.responder \in responders
  <2> USE <1>0
  <2>1. CASE \E p \in responders \cap Honest : r = ResponseOf(p)
    <3>1. PICK p \in responders \cap Honest : r = ResponseOf(p)
      BY <2>1
    <3>2. ResponseOf(p) \in SignedResponses(p, t)
      BY DEF CorruptPropose, SignedResponses
    <3> QED
      BY <3>1, <3>2, SignedResponseAuthentic
  <2>2. CASE \E p \in responders \cap Corrupt :
               r = [responder |-> p, intent |-> t, listed |-> listing[p]]
    <3>1. PICK p \in responders \cap Corrupt :
            r = [responder |-> p, intent |-> t, listed |-> listing[p]]
      BY <2>2
    <3>2. p \notin Honest /\ listing[p] \in CorruptListings(t)
      BY <1>1 DEF Honest
    <3>3. r \in SignedResponses(p, t)
      BY <3>1, <3>2 DEF SignedResponses
    <3> QED
      BY <3>1, <3>3, SignedResponseAuthentic
  <2> QED
    BY <1>3, <1>4, <2>1, <2>2
<1>5. Responders(responses) = responders
  <2>1. ASSUME NEW p \in responders PROVE p \in Responders(responses)
    <3>1. CASE p \in Honest
      <4>1. ResponseOf(p) \in responses /\ ResponseOf(p).responder = p
        BY <1>3, <3>1 DEF ResponseOf
      <4> QED
        BY <4>1 DEF Responders
    <3>2. CASE p \notin Honest
      <4>1. p \in responders \cap Corrupt
        BY <1>0, <3>2 DEF Honest
      <4>2. [responder |-> p, intent |-> t, listed |-> listing[p]] \in responses
        BY <1>3, <4>1
      <4>3. [responder |-> p, intent |-> t, listed |-> listing[p]].responder = p
        OBVIOUS
      <4> QED
        BY <4>2, <4>3 DEF Responders
    <3> QED
      BY <3>1, <3>2
  <2> QED
    BY <1>4, <2>1 DEF Responders
<1>6. responses \subseteq Responses
  BY <1>4 DEF AuthenticResponse
<1>7. CloseTypeOK'
  <2>1. proposals' \in SUBSET Proposals
    BY <1>1, <1>3, <1>6 DEF CloseIInv, CloseTypeOK, Proposals
  <2> QED
    BY <1>2, <2>1 DEF CloseIInv, CloseTypeOK
<1>8. Frame
  BY <1>2, GenTyped DEF CloseIInv, Frame
<1>9. ProposalsInv'
  <2>1. \A r \in responses : AuthenticResponse(r, t)'
    BY <1>4, <1>7, <1>8, AuthenticStays DEF CloseIInv
  <2>2. Cardinality(Responders(responses)) = Q /\ Organizer \in Responders(responses)
    BY <1>0, <1>5
  <2>3. ASSUME NEW pr \in retained \cup proposals
        PROVE  /\ \A r \in pr.responses : AuthenticResponse(r, pr.intent)'
               /\ Cardinality(Responders(pr.responses)) = Q
               /\ Organizer \in Responders(pr.responses)
    BY <1>7, <1>8, AuthenticStays DEF CloseIInv, ProposalsInv
  <2>4. ASSUME NEW pr \in retained' \cup proposals', pr \notin retained \cup proposals
        PROVE  /\ \A r \in pr.responses : AuthenticResponse(r, pr.intent)'
               /\ Cardinality(Responders(pr.responses)) = Q
               /\ Organizer \in Responders(pr.responses)
    <3>1. pr = [intent |-> t, responses |-> responses]
      BY <1>1, <1>2, <1>3, <2>4
    <3>2. pr.intent = t /\ pr.responses = responses
      BY <3>1
    <3> QED
      BY <2>1, <2>2, <3>2
  <2>5. ASSUME NEW pr \in retained' \cup proposals'
        PROVE  /\ \A r \in pr.responses : AuthenticResponse(r, pr.intent)'
               /\ Cardinality(Responders(pr.responses)) = Q
               /\ Organizer \in Responders(pr.responses)
    BY <2>3, <2>4
  <2> QED
    BY <2>5 DEF ProposalsInv, Responders
<1>10. BallotsInv' /\ LockInv' /\ ResponseInv'
  BY <1>2 DEF CloseIInv, BallotsInv, LockInv, ResponseInv
<1>11. KnownInv'
  BY <1>2, <1>7, <1>8, SignedGrow DEF CloseIInv, KnownInv
<1>12. TakenInv'
  BY <1>2, <1>7, <1>8, TakenStays
<1> QED
  BY <1>7, <1>9, <1>10, <1>11, <1>12 DEF CloseIInv

\* The invariant holds initially.
LEMMA IInvInit == CloseInit => CloseIInv
<1> SUFFICES ASSUME CloseInit PROVE CloseIInv
  OBVIOUS
<1>1. CloseTypeOK
  BY TypeInit
<1>2. BallotsInv /\ KnownInv
  BY DEF CloseInit, BallotsInv, KnownInv
<1>3. LockInv /\ ResponseInv
  BY DEF CloseInit, LockInv, ResponseInv, setupRetained, intentRetained, intentLocked,
    responding
<1>4. TakenInv /\ ProposalsInv
  BY DEF CloseInit, TakenInv, ProposalsInv, ToSet
<1> QED
  BY <1>1, <1>2, <1>3, <1>4 DEF CloseIInv

\* Every step of closing preserves the invariant.
LEMMA IInvNext ==
  ASSUME CloseIInv, CloseNext
  PROVE  CloseIInv'
<1>1. ASSUME NEW p \in Honest, CloseStep(p) PROVE CloseIInv'
  <2>1. CASE \E time \in Times : BeginBallot(p, time)
    BY <2>1, BeginBallotInv
  <2>2. CASE CompleteBallot(p)
    BY <2>2, CompleteBallotInv
  <2>3. CASE HoldOwnBallot(p)
    <3>1. PICK e \in ballot[p] : Hold(p, e)
      BY <2>3 DEF HoldOwnBallot
    <3>2. e \in SignedEnvelopes
      BY <2>3, <3>1 DEF HoldOwnBallot, SignedEnvelopes, SignedBallots
    <3> QED
      BY <3>1, <3>2, HoldInv
  <2>4. CASE \E e \in AvailableBodies : CollectBallot(p, e)
    BY <2>4, HoldInv DEF CollectBallot, AvailableBodies
  <2>5. CASE \E t \in CloseTimes : LockIntent(p, t)
    BY <2>5, LockIntentInv DEF LockIntent, Unlocked, setupRetained, ballotSigned, intentLocked
  <2>6. CASE RetainResponse(p)
    BY <2>6, RetainResponseInv
  <2>7. CASE SignResponse(p)
    BY <2>7, SignResponseInv
  <2> QED
    BY <1>1, <2>1, <2>2, <2>3, <2>4, <2>5, <2>6, <2>7 DEF CloseStep
<1>2. ASSUME OrganizerStep PROVE CloseIInv'
  <2>1. CASE \E t \in CloseTimes : SignIntent(t)
    BY <2>1, SignIntentInv
  <2>2. CASE LockOwnIntent
    <3>1. lock[Organizer] \in CloseTimes /\ ballot[Organizer] \subseteq held[Organizer]
      BY <2>2, GenTyped DEF LockOwnIntent, CloseIInv, LockInv, intentRetained
    <3>2. gen[Organizer] < intentLocked
      BY <2>2 DEF LockOwnIntent, intentRetained, intentLocked
    <3> QED
      BY <2>2, <3>1, <3>2, LockIntentInv DEF LockOwnIntent
  <2>3. CASE \E p \in Participants : TakeResponse(p)
    BY <2>3, TakeResponseInv
  <2>4. CASE \E e \in AvailableBodies : DeliverWantedBody(e)
    BY <2>4, HoldInv DEF DeliverWantedBody, AvailableBodies
  <2>5. CASE Propose
    BY <2>5, ProposeInv
  <2>6. CASE \E t \in CloseTimes, responders \in CorruptQuorums :
               CorruptPropose(t, responders)
    BY <2>6, CorruptProposeInv
  <2> QED
    BY <1>2, <2>1, <2>2, <2>3, <2>4, <2>5, <2>6 DEF OrganizerStep
<1> QED
  BY <1>1, <1>2 DEF CloseNext

\* A step that leaves closing alone preserves the invariant.
LEMMA IInvStutter ==
  ASSUME CloseIInv, UNCHANGED closeVars
  PROVE  CloseIInv'
BY DEF closeVars, CloseIInv, CloseTypeOK, BallotsInv, KnownInv, LockInv, ResponseInv, TakenInv,
       ProposalsInv, AuthenticResponse, SignedEnvelopes, SignedBallots

\* The conjuncts of the inductive invariant hold in every reachable state.
THEOREM CloseInvariant == CloseSpec => []CloseIInv
<1>1. CloseInit => CloseIInv
  BY IInvInit
<1>2. CloseIInv /\ [CloseNext]_closeVars => CloseIInv'
  BY IInvNext, IInvStutter
<1> QED
  BY <1>1, <1>2, PTL DEF CloseSpec

----
(* What the invariant says of a signed proposal. *)

HonestResponders(pr) == Responders(pr.responses) \cap Honest

\* At most f honest participants are missing from a proposal.
LEMMA FewMissing ==
  ASSUME CloseIInv, NEW pr \in proposals
  PROVE  /\ IsFiniteSet(Honest \ HonestResponders(pr))
         /\ Cardinality(Honest \ HonestResponders(pr)) <= F
         /\ Cardinality(HonestResponders(pr)) \in Nat
         /\ Cardinality(HonestResponders(pr)) + F >= Cardinality(Honest)
<1> DEFINE R == Responders(pr.responses)
           HR == HonestResponders(pr)
           CR == R \cap Corrupt
<1>1. R \subseteq Participants /\ Cardinality(R) = Q
  <2>1. \A r \in pr.responses : r \in Responses
    BY DEF CloseIInv, ProposalsInv, AuthenticResponse
  <2> QED
    BY <2>1 DEF CloseIInv, ProposalsInv, Responders, Responses
<1>2. IsFiniteSet(R) /\ R = HR \cup CR /\ HR \cap CR = {}
  BY <1>1, RosterAssumption, FS_Subset DEF Honest, HonestResponders
<1>3. IsFiniteSet(HR) /\ IsFiniteSet(CR) /\ Cardinality(HR) \in Nat /\ Cardinality(CR) \in Nat
  BY <1>2, FS_Subset, FS_CardinalityType
<1>4. Cardinality(R) = Cardinality(HR) + Cardinality(CR)
  <2>1. Cardinality(HR \cap CR) = 0
    BY <1>2, FS_EmptySet
  <2>2. Cardinality(HR \cup CR) = Cardinality(HR) + Cardinality(CR) - Cardinality(HR \cap CR)
    BY <1>3, FS_Union
  <2>3. Cardinality(R) = Cardinality(HR \cup CR)
    BY <1>2
  <2> HIDE DEF R, HR, CR
  <2> QED
    BY <1>3, <2>1, <2>2, <2>3
<1>5. Cardinality(CR) <= Cardinality(Corrupt)
  BY HonestCount, FS_Subset
<1>6. Cardinality(HR) + F >= Cardinality(Honest)
  <2>1. Q = Cardinality(HR) + Cardinality(CR)
    BY <1>1, <1>4
  <2>2. /\ Cardinality(Corrupt) \in Nat
        /\ Cardinality(Honest) = N - Cardinality(Corrupt)
    BY HonestCount
  <2>3. Cardinality(HR) \in Nat /\ Cardinality(CR) \in Nat
    BY <1>3
  <2> HIDE DEF HR, CR
  <2> QED
    BY <1>5, <2>1, <2>2, <2>3, Thresholds
<1>7. /\ IsFiniteSet(Honest \ HR)
      /\ Cardinality(Honest \ HR) = Cardinality(Honest) - Cardinality(Honest \cap HR)
  BY HonestCount, FS_Difference
<1>8. Honest \cap HR = HR
  BY DEF HonestResponders
<1>9. Cardinality(Honest \ HR) <= F
  <2>1. Cardinality(Honest \ HR) = Cardinality(Honest) - Cardinality(HR)
    BY <1>7, <1>8
  <2>2. Cardinality(Honest) \in Nat
    BY HonestCount, FS_CardinalityType
  <2> HIDE DEF HR
  <2> QED
    BY <1>3, <1>6, <2>1, <2>2, Thresholds
<1> QED
  BY <1>3, <1>6, <1>7, <1>9

\* An honest responder of a proposal put every honest ballot it held at its
\* lock, and that is on time for the proposal, into the proposal's slots.
LEMMA HeldIsUsable ==
  ASSUME CloseIInv, NEW pr \in proposals, NEW p \in HonestResponders(pr),
         NEW e \in OnTime(SignedBallots, pr.intent), e \in receipt[p]
  PROVE  e \in Usable(pr)
<1>1. p \in Honest
  BY DEF HonestResponders
<1>2. PICK r \in pr.responses : r.responder = p
  BY DEF HonestResponders, Responders
<1>3. gen[p] >= responded /\ lock[p] = pr.intent /\ response[p] = r.listed
  BY <1>1, <1>2 DEF CloseIInv, ProposalsInv, AuthenticResponse
<1>4. e.author \in Honest /\ e \in SignedEnvelopes /\ e.time <= pr.intent
  BY DEF OnTime, SignedBallots, SignedEnvelopes, CloseIInv, BallotsInv
<1>5. e \in response[p]
  BY <1>1, <1>3, <1>4, GenTyped DEF CloseIInv, ResponseInv, OnTime, responded, responding
<1>6. e \in ListedUnion(pr.responses)
  BY <1>2, <1>3, <1>5 DEF ListedUnion
<1>7. ASSUME NEW d \in ListedUnion(pr.responses), d.author = e.author PROVE d = e
  <2>1. d \in SignedEnvelopes
    BY <1>7 DEF ListedUnion, CloseIInv, ProposalsInv, AuthenticResponse
  <2> QED
    BY <1>4, <1>7, <2>1, HonestSlotSingle
<1> QED
  BY <1>6, <1>7 DEF Usable, UsableEntries, HasRival

\* The invariant implies that protected ballots are usable.
LEMMA ProtectedFromInv == CloseIInv => ProtectedBallots
<1> SUFFICES ASSUME CloseIInv, NEW pr \in proposals, NEW e \in OnTime(SignedBallots, pr.intent),
                    \/ Cardinality({p \in Honest : e \in receipt[p]}) > F
                    \/ Organizer \in Honest /\ e \in receipt[Organizer]
             PROVE  e \in Usable(pr)
  BY DEF ProtectedBallots
<1> DEFINE Holders == {p \in Honest : e \in receipt[p]}
<1>1. CASE Cardinality(Holders) > F
  <2>1. Holders \subseteq Honest /\ HonestResponders(pr) \subseteq Honest
    BY DEF HonestResponders
  <2>2. Cardinality(Holders) \in Nat /\ Cardinality(Honest) \in Nat
    BY <2>1, HonestCount, FS_Subset, FS_CardinalityType
  <2>3. Cardinality(Holders) + Cardinality(HonestResponders(pr)) > Cardinality(Honest)
    <3>1. /\ Cardinality(HonestResponders(pr)) \in Nat
          /\ Cardinality(HonestResponders(pr)) + F >= Cardinality(Honest)
      BY FewMissing
    <3> HIDE DEF Holders
    <3> QED
      BY <1>1, <2>2, <3>1, Thresholds
  <2>4. Holders \cap HonestResponders(pr) # {}
    BY <2>1, <2>3, HonestCount, FS_MajoritiesIntersect
  <2> QED
    BY <2>4, HeldIsUsable
<1>2. CASE Organizer \in Honest /\ e \in receipt[Organizer]
  BY <1>2, HeldIsUsable DEF CloseIInv, ProposalsInv, HonestResponders
<1> QED
  BY <1>1, <1>2

\* The invariant implies that omission is bounded.
LEMMA OmissionFromInv == CloseIInv => OmissionBounded
<1> SUFFICES ASSUME CloseIInv, NEW pr \in proposals
             PROVE  Cardinality(OnTime(SignedBallots, pr.intent) \ Usable(pr)) <= F
  BY DEF OmissionBounded
<1> DEFINE Omitted == OnTime(SignedBallots, pr.intent) \ Usable(pr)
           Missing == Honest \ HonestResponders(pr)
           f == [e \in Omitted |-> e.author]
<1>1. ASSUME NEW e \in Omitted
      PROVE  e.author \in Honest /\ e \in ballot[e.author] /\ e \in SignedEnvelopes
  BY <1>1 DEF OnTime, SignedBallots, SignedEnvelopes, CloseIInv, BallotsInv
<1>2. ASSUME NEW e \in Omitted PROVE e.author \in Missing
  <2>1. SUFFICES ASSUME e.author \in HonestResponders(pr) PROVE FALSE
    BY <1>1
  <2>2. PICK p : p = e.author
    OBVIOUS
  <2>3. gen[p] >= responded
    BY <1>1, <2>1, <2>2 DEF HonestResponders, Responders, CloseIInv, ProposalsInv,
      AuthenticResponse
  <2>4. e \in receipt[p]
    BY <1>1, <2>2, <2>3, GenTyped DEF CloseIInv, LockInv, responded, intentLocked
  <2> QED
    BY <2>1, <2>2, <2>4, HeldIsUsable
<1>3. f \in [Omitted -> Missing]
  BY <1>2
<1>4. f \in Injection(Omitted, Missing)
  <2>1. \A d, e \in Omitted : f[d] = f[e] => d = e
    BY <1>1, HonestSlotSingle
  <2> QED
    BY <1>3, <2>1 DEF Injection, IsInjective
<1>5. IsFiniteSet(Missing) /\ Cardinality(Missing) <= F
  BY FewMissing
<1>6. Cardinality(Omitted) <= Cardinality(Missing) /\ IsFiniteSet(Omitted)
  BY <1>4, <1>5, FS_Injection
<1>7. Cardinality(Omitted) \in Nat /\ Cardinality(Missing) \in Nat
  BY <1>5, <1>6, FS_CardinalityType
<1> QED
  BY <1>5, <1>6, <1>7, Thresholds

\* Every variable keeps its type in every behaviour of the close.
THEOREM CloseTypeCorrect == CloseSpec => []CloseTypeOK
<1>1. CloseIInv => CloseTypeOK
  BY DEF CloseIInv
<1> QED
  BY <1>1, CloseInvariant, PTL

\* For every roster, and whatever at most f corrupt participants do, a signed
\* proposal leaves out at most f of the ballots honest participants signed on
\* time: the bounded omission of the close rules of evaluation-target/close.rs.
THEOREM OmissionIsBounded == CloseSpec => []OmissionBounded
BY OmissionFromInv, CloseInvariant, PTL

\* For every roster, an honest on-time ballot that f + 1 honest participants or
\* an honest organizer held at their intent locks is usable in every proposal.
THEOREM ProtectedBallotsAreUsable == CloseSpec => []ProtectedBallots
BY ProtectedFromInv, CloseInvariant, PTL

----
(* What a relay can make a participant retain. *)

\* The envelopes of a slot that a participant may come to know.
KnownBound(p) == 2 + (IF p = Organizer THEN 2 * Len(taken) ELSE 0)

\* Every slot is finite and within its bound, and so are retained listings.
SlotsInv ==
  /\ \A p \in Honest, author \in Participants :
       /\ IsFiniteSet(Slot(held[p], author)) /\ Cardinality(Slot(held[p], author)) <= 2
       /\ IsFiniteSet(Slot(known[p], author))
       /\ Cardinality(Slot(known[p], author)) <= KnownBound(p)
  /\ \A p \in Honest : gen[p] >= responding => AtMostTwoPerSlot(response[p])

\* A set without three elements has at most two.
LEMMA NoThreeElements ==
  ASSUME NEW S, \A x, y, z \in S : x = y \/ y = z \/ x = z
  PROVE  IsFiniteSet(S) /\ Cardinality(S) <= 2
<1>1. CASE S = {}
  BY <1>1, FS_EmptySet
<1>2. ASSUME NEW a \in S PROVE IsFiniteSet(S) /\ Cardinality(S) <= 2
  <2>1. IsFiniteSet({a}) /\ Cardinality({a}) = 1
    BY FS_Singleton
  <2>2. CASE S = {a}
    BY <2>1, <2>2
  <2>3. ASSUME NEW b \in S, b # a PROVE IsFiniteSet(S) /\ Cardinality(S) <= 2
    <3>1. S = {a} \cup {b}
      BY <2>3
    <3>2. IsFiniteSet({a} \cup {b}) /\ Cardinality({a} \cup {b}) = 2
      BY <2>1, <2>3, FS_AddElement
    <3> QED
      BY <3>1, <3>2
  <2> QED
    BY <2>2, <2>3
<1> QED
  BY <1>1, <1>2

\* In the slot of one author, an identity names one authentic envelope.
LEMMA IdentityNamesOne ==
  ASSUME CloseIInv, NEW d \in SignedEnvelopes, NEW e \in SignedEnvelopes, d.author = e.author
  PROVE  d.id \in Int /\ e.id \in Int /\ (d.id = e.id => d = e)
<1>1. ASSUME NEW c \in SignedEnvelopes PROVE c.id \in Int
  BY SignedTyped, EnvelopesAssumption DEF CloseIInv, Envelopes, Envelope
<1>2. CASE e.author \in Honest
  BY <1>1, <1>2, HonestSlotSingle
<1>3. CASE e.author \notin Honest
  <2>1. ASSUME NEW c \in SignedEnvelopes, c.author \notin Honest PROVE c \in CorruptEnvelopes
    BY <2>1 DEF SignedEnvelopes, SignedBallots, CloseIInv, BallotsInv
  <2> QED
    BY <1>1, <1>3, <2>1, EnvelopesAssumption
<1> QED
  BY <1>2, <1>3

\* A listing that the canonical encoding accepts has two envelopes of a slot.
LEMMA ListedSlotsSmall ==
  ASSUME CloseIInv, NEW listed \in SUBSET SignedEnvelopes, AtMostTwoPerSlot(listed), NEW author
  PROVE  IsFiniteSet(Slot(listed, author)) /\ Cardinality(Slot(listed, author)) <= 2
<1> DEFINE S == Slot(listed, author)
<1>1. ASSUME NEW c \in S, NEW d \in S, NEW e \in S, c.id < e.id, d.id < e.id PROVE c = d
  <2>1. e \in listed /\ c \in Slot(listed, e.author) /\ d \in Slot(listed, e.author)
    BY DEF Slot
  <2> QED
    BY <1>1, <2>1 DEF AtMostTwoPerSlot, AmongTwoSmallest
<1>2. ASSUME NEW d \in S, NEW e \in S PROVE d.id \in Int /\ e.id \in Int /\ (d.id = e.id => d = e)
  BY IdentityNamesOne DEF Slot
<1>3. ASSUME NEW x \in S, NEW y \in S, NEW z \in S, x # y, y # z, x # z PROVE FALSE
  <2>1. x.id \in Int /\ y.id \in Int /\ z.id \in Int /\ x.id # y.id /\ y.id # z.id /\ x.id # z.id
    BY <1>2, <1>3
  <2>2. \/ x.id < z.id /\ y.id < z.id
        \/ x.id < y.id /\ z.id < y.id
        \/ y.id < x.id /\ z.id < x.id
    BY <2>1
  <2> QED
    BY <1>1, <1>3, <2>2
<1> HIDE DEF S
<1>4. \A x, y, z \in S : x = y \/ y = z \/ x = z
  BY <1>3
<1>5. IsFiniteSet(S) /\ Cardinality(S) <= 2
  BY <1>4, NoThreeElements
<1> QED
  BY <1>5 DEF S

\* An honest listing names at most two envelopes of a slot.
LEMMA HonestListingSmall ==
  ASSUME NEW K, NEW H, NEW t
  PROVE  AtMostTwoPerSlot(HonestListing(K, H, t))
<1> DEFINE L == HonestListing(K, H, t)
           slots == OnTime(K, t)
<1>1. SUFFICES ASSUME NEW e \in L, NEW c \in Slot(L, e.author), NEW d \in Slot(L, e.author),
                      c.id < e.id, d.id < e.id
               PROVE  c = d
  BY DEF AtMostTwoPerSlot, AmongTwoSmallest
<1>2. /\ e \in slots /\ c \in slots /\ d \in slots
      /\ c.author = e.author /\ d.author = e.author
      /\ IF HasRival(slots, e) THEN AmongTwoSmallest(slots, e) ELSE e \in H
  BY DEF HonestListing, Slot
<1>3. CASE HasRival(slots, e)
  BY <1>1, <1>2, <1>3 DEF AmongTwoSmallest, Slot
<1>4. CASE ~HasRival(slots, e)
  BY <1>2, <1>4 DEF HasRival
<1> QED
  BY <1>3, <1>4

\* A slot that gains an envelope.
LEMMA SlotAdd ==
  ASSUME NEW S, NEW e, NEW author, IsFiniteSet(Slot(S, author))
  PROVE  /\ IsFiniteSet(Slot(S \cup {e}, author))
         /\ Cardinality(Slot(S \cup {e}, author)) <=
              IF author = e.author /\ e \notin S THEN Cardinality(Slot(S, author)) + 1
                                                ELSE Cardinality(Slot(S, author))
<1>1. Cardinality(Slot(S, author)) \in Nat
  BY FS_CardinalityType
<1>2. CASE author = e.author /\ e \notin S
  <2>1. Slot(S \cup {e}, author) = Slot(S, author) \cup {e} /\ e \notin Slot(S, author)
    BY <1>2 DEF Slot
  <2>2. /\ IsFiniteSet(Slot(S, author) \cup {e})
        /\ Cardinality(Slot(S, author) \cup {e}) = Cardinality(Slot(S, author)) + 1
    BY <2>1, FS_AddElement
  <2>3. /\ IsFiniteSet(Slot(S \cup {e}, author))
        /\ Cardinality(Slot(S \cup {e}, author)) = Cardinality(Slot(S, author)) + 1
    BY <2>1, <2>2
  <2>4. Cardinality(Slot(S \cup {e}, author)) <= Cardinality(Slot(S, author)) + 1
    BY <1>1, <2>3
  <2> QED
    BY <1>2, <2>3, <2>4
<1>3. CASE ~(author = e.author /\ e \notin S)
  <2>1. Slot(S \cup {e}, author) = Slot(S, author)
    BY <1>3 DEF Slot
  <2> QED
    BY <1>1, <1>3, <2>1
<1> QED
  BY <1>2, <1>3

\* A slot of fewer envelopes is no larger.
LEMMA SlotSubset ==
  ASSUME NEW S, NEW T \in SUBSET S, NEW author, IsFiniteSet(Slot(S, author))
  PROVE  IsFiniteSet(Slot(T, author)) /\ Cardinality(Slot(T, author)) <= Cardinality(Slot(S, author))
<1>1. Slot(T, author) \subseteq Slot(S, author)
  BY DEF Slot
<1> QED
  BY <1>1, FS_Subset

\* The bound on the slots is inductive relative to the close's invariant.
LEMMA SlotsInductive ==
  ASSUME CloseIInv, CloseIInv', SlotsInv, [CloseNext]_closeVars
  PROVE  SlotsInv'
<1>1. /\ held \in [Honest -> SUBSET Envelopes] /\ known \in [Honest -> SUBSET Envelopes]
      /\ gen \in [Honest -> Generations] /\ response \in [Honest -> SUBSET Envelopes]
      /\ taken \in Seq(Responses) /\ \A p \in Honest : gen[p] \in Int
  BY GenTyped DEF CloseIInv, CloseTypeOK
<1>2. Len(taken) \in Nat /\ \A p \in Honest : KnownBound(p) \in Nat /\ KnownBound(p) >= 2
  BY <1>1 DEF KnownBound
<1>3. ASSUME NEW p \in Honest, NEW author \in Participants
      PROVE  /\ IsFiniteSet(Slot(held[p], author)) /\ Cardinality(Slot(held[p], author)) <= 2
             /\ IsFiniteSet(Slot(known[p], author))
             /\ Cardinality(Slot(known[p], author)) <= KnownBound(p)
             /\ Cardinality(Slot(held[p], author)) \in Nat
             /\ Cardinality(Slot(known[p], author)) \in Nat
  BY FS_CardinalityType DEF SlotsInv
<1>4. ASSUME UNCHANGED <<held, known, taken>>, \A p \in Honest : gen'[p] >= responding => AtMostTwoPerSlot(response'[p])
      PROVE  SlotsInv'
  BY <1>4 DEF SlotsInv, KnownBound
<1>5. ASSUME NEW p \in Honest, NEW e \in SignedEnvelopes, Hold(p, e) PROVE SlotsInv'
  <2>1. /\ held' = [held EXCEPT ![p] = @ \cup {e}] /\ known' = [known EXCEPT ![p] = @ \cup {e}]
        /\ UNCHANGED <<gen, response, taken>>
        /\ e \in known[p] \/ Cardinality(Slot(known[p], e.author)) < 2
        /\ Cardinality(Slot(held[p], e.author)) < 2
    BY <1>5 DEF Hold, Admissible, MaximumListedEnvelopesPerSlot
  <2>2. ASSUME NEW q \in Honest, NEW author \in Participants
        PROVE  /\ IsFiniteSet(Slot(held'[q], author)) /\ Cardinality(Slot(held'[q], author)) <= 2
               /\ IsFiniteSet(Slot(known'[q], author))
               /\ Cardinality(Slot(known'[q], author)) <= KnownBound(q)
    <3>1. CASE q # p
      BY <1>1, <1>3, <2>1, <3>1
    <3>2. CASE q = p
      <4>1. held'[q] = held[p] \cup {e} /\ known'[q] = known[p] \cup {e}
        BY <1>1, <2>1, <3>2
      <4>2. IsFiniteSet(Slot(held[p], author)) /\ IsFiniteSet(Slot(known[p], author))
        BY <1>3
      <4>3. /\ IsFiniteSet(Slot(held[p] \cup {e}, author))
            /\ Cardinality(Slot(held[p] \cup {e}, author)) \in Nat
            /\ Cardinality(Slot(held[p] \cup {e}, author)) <= 2
        <5>1. /\ IsFiniteSet(Slot(held[p] \cup {e}, author))
              /\ Cardinality(Slot(held[p] \cup {e}, author)) <=
                   IF author = e.author /\ e \notin held[p] THEN Cardinality(Slot(held[p], author)) + 1
                                                           ELSE Cardinality(Slot(held[p], author))
          BY <4>2, SlotAdd
        <5>2. Cardinality(Slot(held[p] \cup {e}, author)) \in Nat
          BY <5>1, FS_CardinalityType
        <5> QED
          BY <1>3, <2>1, <5>1, <5>2
      <4>4. /\ IsFiniteSet(Slot(known[p] \cup {e}, author))
            /\ Cardinality(Slot(known[p] \cup {e}, author)) <= KnownBound(p)
        <5>1. /\ IsFiniteSet(Slot(known[p] \cup {e}, author))
              /\ Cardinality(Slot(known[p] \cup {e}, author)) <=
                   IF author = e.author /\ e \notin known[p] THEN Cardinality(Slot(known[p], author)) + 1
                                                            ELSE Cardinality(Slot(known[p], author))
          BY <4>2, SlotAdd
        <5>2. Cardinality(Slot(known[p] \cup {e}, author)) \in Nat
          BY <5>1, FS_CardinalityType
        <5>3. \A k, m, b \in Nat : b >= 2 /\ ((k < 2 /\ m <= k + 1) \/ (k <= b /\ m <= k)) => m <= b
          OBVIOUS
        <5>4. CASE author = e.author /\ e \notin known[p]
          BY <1>2, <1>3, <2>1, <5>1, <5>2, <5>3, <5>4
        <5>5. CASE ~(author = e.author /\ e \notin known[p])
          BY <1>2, <1>3, <5>1, <5>2, <5>3, <5>5
        <5> QED
          BY <5>1, <5>4, <5>5
      <4> QED
        BY <3>2, <4>1, <4>3, <4>4
    <3> QED
      BY <3>1, <3>2
  <2> QED
    BY <2>1, <2>2 DEF SlotsInv, KnownBound
<1>6. ASSUME NEW p \in Honest, NEW t, Lock(p, t) PROVE SlotsInv'
  <2>1. /\ held' = [held EXCEPT ![p] = OnTime(@, t)]
        /\ known' = [known EXCEPT ![p] = OnTime(@, t)]
        /\ gen' = [gen EXCEPT ![p] = intentLocked] /\ UNCHANGED <<response, taken>>
    BY <1>6 DEF Lock
  <2>2. ASSUME NEW q \in Honest, NEW author \in Participants
        PROVE  /\ IsFiniteSet(Slot(held'[q], author)) /\ Cardinality(Slot(held'[q], author)) <= 2
               /\ IsFiniteSet(Slot(known'[q], author))
               /\ Cardinality(Slot(known'[q], author)) <= KnownBound(q)
    <3>1. held'[q] \subseteq held[q] /\ known'[q] \subseteq known[q]
      BY <1>1, <2>1 DEF OnTime
    <3>2. /\ IsFiniteSet(Slot(held'[q], author))
          /\ Cardinality(Slot(held'[q], author)) <= Cardinality(Slot(held[q], author))
          /\ IsFiniteSet(Slot(known'[q], author))
          /\ Cardinality(Slot(known'[q], author)) <= Cardinality(Slot(known[q], author))
      BY <1>3, <3>1, SlotSubset
    <3>3. /\ Cardinality(Slot(held'[q], author)) \in Nat
          /\ Cardinality(Slot(known'[q], author)) \in Nat
      BY <3>2, FS_CardinalityType
    <3>4. \A m, n, b \in Nat : m <= n /\ n <= b => m <= b
      OBVIOUS
    <3> QED
      BY <1>2, <1>3, <3>2, <3>3, <3>4
  <2>3. \A q \in Honest : gen'[q] >= responding => AtMostTwoPerSlot(response'[q])
    BY <1>1, <2>1 DEF SlotsInv, intentLocked, responding
  <2> QED
    BY <2>1, <2>2, <2>3 DEF SlotsInv, KnownBound
<1>7. ASSUME NEW p \in Participants, TakeResponse(p) PROVE SlotsInv'
  <2>1. Organizer \in Honest /\ gen[Organizer] = intentLocked /\ UNCHANGED <<gen, held, response>>
    BY <1>7 DEF TakeResponse
  <2>2. lock[Organizer] \in CloseTimes
    BY <2>1, <1>1 DEF CloseIInv, LockInv, intentLocked, intentRetained
  <2>3. PICK r \in SignedResponses(p, lock[Organizer]) :
          taken' = Append(taken, r) /\ known' = [known EXCEPT ![Organizer] = @ \cup r.listed]
    BY <1>7 DEF TakeResponse
  <2>4. r \in Responses /\ r.listed \subseteq SignedEnvelopes
    BY <2>2, <2>3, SignedResponseAuthentic DEF AuthenticResponse
  <2>5. AtMostTwoPerSlot(r.listed)
    <3>1. CASE p \in Honest
      BY <1>1, <2>3, <3>1 DEF SignedResponses, ResponseOf, SlotsInv, responded, responding
    <3>2. CASE p \notin Honest
      BY <2>3, <3>2 DEF SignedResponses, CorruptListings
    <3> QED
      BY <3>1, <3>2
  <2>6. Len(taken') = Len(taken) + 1
    BY <1>1, <2>3, <2>4
  <2>7. ASSUME NEW q \in Honest, NEW author \in Participants
        PROVE  IsFiniteSet(Slot(known'[q], author)) /\ Cardinality(Slot(known'[q], author)) <= KnownBound(q)'
    <3>1. CASE q # Organizer
      BY <1>1, <1>3, <2>3, <3>1 DEF KnownBound
    <3>2. CASE q = Organizer
      <4> DEFINE K == Slot(known[q], author)
                 L == Slot(r.listed, author)
      <4>1. known'[q] = known[q] \cup r.listed
        BY <1>1, <2>3, <3>2
      <4>2. Slot(known'[q], author) = K \cup L
        BY <4>1 DEF Slot
      <4>3. IsFiniteSet(K) /\ Cardinality(K) \in Nat /\ Cardinality(K) <= 2 + 2 * Len(taken)
        BY <1>3, <3>2 DEF KnownBound
      <4>4. IsFiniteSet(L) /\ Cardinality(L) <= 2
        BY <2>4, <2>5, ListedSlotsSmall
      <4> HIDE DEF K, L
      <4>5. Cardinality(L) \in Nat /\ IsFiniteSet(K \cap L)
        BY <4>3, <4>4, FS_CardinalityType, FS_Subset
      <4>6. Cardinality(K \cap L) \in Nat
        BY <4>5, FS_CardinalityType
      <4>7. /\ IsFiniteSet(K \cup L)
            /\ Cardinality(K \cup L) = Cardinality(K) + Cardinality(L) - Cardinality(K \cap L)
        BY <4>3, <4>4, FS_Union
      <4>8. KnownBound(q)' = 2 + 2 * (Len(taken) + 1)
        BY <2>6, <3>2 DEF KnownBound
      <4>9. \A k, l, i, n \in Nat : k <= 2 + 2 * n /\ l <= 2 => k + l - i <= 2 + 2 * (n + 1)
        OBVIOUS
      <4>10. Cardinality(K) + Cardinality(L) - Cardinality(K \cap L) <= 2 + 2 * (Len(taken) + 1)
        BY <1>2, <4>3, <4>4, <4>5, <4>6, <4>9
      <4> QED
        BY <4>2, <4>7, <4>8, <4>10
    <3> QED
      BY <3>1, <3>2
  <2> QED
    BY <2>1, <2>7 DEF SlotsInv
<1>8. ASSUME NEW p \in Honest, RetainResponse(p) PROVE SlotsInv'
  <2>1. \A q \in Honest : gen'[q] >= responding => AtMostTwoPerSlot(response'[q])
    BY <1>1, <1>8, HonestListingSmall DEF RetainResponse, SlotsInv, responding
  <2> QED
    BY <1>4, <1>8, <2>1 DEF RetainResponse
<1>9. ASSUME NEW p \in Honest, CloseStep(p) PROVE SlotsInv'
  <2>1. CASE (\E time \in Times : BeginBallot(p, time)) \/ CompleteBallot(p) \/ SignResponse(p)
    <3>1. /\ UNCHANGED <<held, known, taken, response>>
          /\ \A q \in Honest : gen'[q] >= responding => gen[q] >= responding
      <4>1. CASE \E time \in Times : BeginBallot(p, time)
        BY <1>1, <4>1 DEF BeginBallot, ballotLocked, responding
      <4>2. CASE CompleteBallot(p)
        BY <1>1, <4>2 DEF CompleteBallot, ballotSigned, responding
      <4>3. CASE SignResponse(p)
        BY <1>1, <4>3 DEF SignResponse, responding
      <4> QED
        BY <2>1, <4>1, <4>2, <4>3
    <3> QED
      BY <1>4, <3>1 DEF SlotsInv
  <2>2. CASE HoldOwnBallot(p)
    BY <1>5, <2>2 DEF HoldOwnBallot, SignedEnvelopes, SignedBallots
  <2>3. CASE \E e \in AvailableBodies : CollectBallot(p, e)
    BY <1>5, <2>3 DEF CollectBallot, AvailableBodies
  <2>4. CASE \E t \in CloseTimes : LockIntent(p, t)
    BY <1>6, <2>4 DEF LockIntent
  <2>5. CASE RetainResponse(p)
    BY <1>8, <2>5
  <2> QED
    BY <1>9, <2>1, <2>2, <2>3, <2>4, <2>5 DEF CloseStep
<1>10. ASSUME OrganizerStep PROVE SlotsInv'
  <2>1. CASE \/ \E t \in CloseTimes : SignIntent(t)
             \/ Propose
             \/ \E t \in CloseTimes, responders \in CorruptQuorums : CorruptPropose(t, responders)
    <3>1. /\ UNCHANGED <<held, known, taken, response>>
          /\ \A q \in Honest : gen'[q] >= responding => gen[q] >= responding
      <4>1. CASE \E t \in CloseTimes : SignIntent(t)
        BY <1>1, <4>1 DEF SignIntent, intentRetained, responding
      <4>2. CASE Propose
        BY <1>1, <4>2 DEF Propose, responding, responded
      <4>3. CASE \E t \in CloseTimes, responders \in CorruptQuorums : CorruptPropose(t, responders)
        BY <1>1, <4>3 DEF CorruptPropose
      <4> QED
        BY <2>1, <4>1, <4>2, <4>3
    <3> QED
      BY <1>4, <3>1 DEF SlotsInv
  <2>2. CASE LockOwnIntent
    BY <1>6, <2>2 DEF LockOwnIntent
  <2>3. CASE \E p \in Participants : TakeResponse(p)
    BY <1>7, <2>3
  <2>4. CASE \E e \in AvailableBodies : DeliverWantedBody(e)
    BY <1>5, <2>4 DEF DeliverWantedBody, AvailableBodies
  <2> QED
    BY <1>10, <2>1, <2>2, <2>3, <2>4 DEF OrganizerStep
<1>11. CASE UNCHANGED closeVars
  BY <1>4, <1>11 DEF closeVars, SlotsInv
<1> QED
  BY <1>9, <1>10, <1>11 DEF CloseNext

\* For every roster, and whatever the relay shows and corrupt participants sign,
\* a root retains two bodies of a slot, and the organizer's knows two envelopes
\* more for each response taken: the limits of close.rs and close-log.rs.
THEOREM CustodyIsBounded == CloseSpec => []CustodyBounded
<1>1. CloseInit => SlotsInv
  <2> SUFFICES ASSUME CloseInit PROVE SlotsInv
    OBVIOUS
  <2>1. ASSUME NEW author PROVE Slot({}, author) = {}
    BY DEF Slot
  <2>2. IsFiniteSet({}) /\ Cardinality({}) = 0
    BY FS_EmptySet
  <2>3. \A p \in Honest : held[p] = {} /\ known[p] = {} /\ ~(gen[p] >= responding) /\ KnownBound(p) = 2
    BY DEF CloseInit, setupRetained, responding, KnownBound
  <2>4. \A p \in Honest, author \in Participants :
          /\ Slot(held[p], author) = {} /\ Slot(known[p], author) = {} /\ KnownBound(p) = 2
    BY <2>1, <2>3
  <2>5. ASSUME NEW p \in Honest, NEW author \in Participants
        PROVE  /\ IsFiniteSet(Slot(held[p], author)) /\ Cardinality(Slot(held[p], author)) <= 2
               /\ IsFiniteSet(Slot(known[p], author))
               /\ Cardinality(Slot(known[p], author)) <= KnownBound(p)
    <3>1. Slot(held[p], author) = {} /\ Slot(known[p], author) = {} /\ KnownBound(p) = 2
      BY <2>4
    <3>2. Cardinality(Slot(held[p], author)) = 0 /\ Cardinality(Slot(known[p], author)) = 0
      BY <2>2, <3>1
    <3> QED
      BY <2>2, <3>1, <3>2
  <2> QED
    BY <2>3, <2>5 DEF SlotsInv
<1>2. CloseIInv /\ CloseIInv' /\ SlotsInv /\ [CloseNext]_closeVars => SlotsInv'
  BY SlotsInductive
<1>3. SlotsInv => CustodyBounded
  BY DEF SlotsInv, KnownBound, CustodyBounded
<1> QED
  BY <1>1, <1>2, <1>3, CloseInvariant, PTL DEF CloseSpec

----
(* What the close work has prepared can be done. *)

\* A slot with two on-time envelopes is listed with an envelope other than any
\* given one.
LEMMA RivalListed ==
  ASSUME CloseIInv, NEW p \in Honest, NEW t,
         NEW e \in OnTime(known[p], t), HasRival(OnTime(known[p], t), e)
  PROVE  \E d \in HonestListing(known[p], held[p], t) : d.author = e.author /\ d # e
<1> DEFINE slots == OnTime(known[p], t)
           Rivals == {d \in slots : d.author = e.author /\ d # e}
           Ids == {d.id : d \in Rivals}
<1>1. slots \subseteq SignedEnvelopes
  BY DEF OnTime, CloseIInv, KnownInv
<1>2. ASSUME NEW c \in SignedEnvelopes PROVE c.id \in Nat
  BY SignedTyped, EnvelopesAssumption DEF CloseIInv, Envelopes, Envelope
<1>3. Ids \subseteq Nat /\ Ids # {}
  BY <1>1, <1>2 DEF HasRival
<1>4. PICK x \in Ids : \A y \in Ids : x <= y
  BY <1>3, LeastNatural
<1>5. PICK d \in Rivals : d.id = x
  BY <1>4
<1>6. ASSUME NEW c \in Slot(slots, d.author), c.id < d.id PROVE c = e
  <2>1. c \in slots /\ c.author = e.author
    BY <1>5 DEF Slot
  <2>2. c \in Rivals => d.id <= c.id
    BY <1>4, <1>5
  <2>3. c.id \in Nat /\ d.id \in Nat
    BY <1>1, <1>2, <1>5, <2>1
  <2> QED
    BY <1>6, <2>1, <2>2, <2>3
<1>7. AmongTwoSmallest(slots, d)
  BY <1>6 DEF AmongTwoSmallest
<1>8. HasRival(slots, d)
  BY <1>5 DEF HasRival
<1> QED
  BY <1>5, <1>7, <1>8 DEF HonestListing

\* The organizer holds every body that its own listing makes usable.
LEMMA OwnUsable ==
  ASSUME CloseIInv, Organizer \in Honest, NEW own,
         own.listed = HonestListing(known[Organizer], held[Organizer], lock[Organizer])
  PROVE  HoldsUsable(held[Organizer], {own})
<1> DEFINE slots == OnTime(known[Organizer], lock[Organizer])
<1>1. ListedUnion({own}) = own.listed
  BY DEF ListedUnion
<1>2. ASSUME NEW e \in own.listed, ~HasRival(own.listed, e) PROVE e \in held[Organizer]
  <2>1. e \in slots /\ (~HasRival(slots, e) => e \in held[Organizer])
    BY DEF HonestListing
  <2>2. ~HasRival(slots, e)
    <3>1. SUFFICES ASSUME HasRival(slots, e) PROVE FALSE
      OBVIOUS
    <3>2. PICK d \in own.listed : d.author = e.author /\ d # e
      BY <2>1, <3>1, RivalListed
    <3> QED
      BY <1>2, <3>2 DEF HasRival
  <2> QED
    BY <2>1, <2>2
<1> QED
  BY <1>1, <1>2 DEF HoldsUsable, UsableEntries

\* A ready response joins every selection that holds the organizer's own.
LEMMA ReadyJoins ==
  ASSUME CloseIInv, Organizer \in Honest, NEW own,
         own.listed = HonestListing(known[Organizer], held[Organizer], lock[Organizer]),
         NEW W, own \in W, HoldsUsable(held[Organizer], W), NEW r \in ReadyResponses
  PROVE  HoldsUsable(held[Organizer], W \cup {r})
<1> DEFINE slots == OnTime(known[Organizer], lock[Organizer])
<1>1. /\ ListedUnion(W) \subseteq ListedUnion(W \cup {r})
      /\ ListedUnion(W \cup {r}) = ListedUnion(W) \cup r.listed
      /\ own.listed \subseteq ListedUnion(W)
  BY DEF ListedUnion
<1>2. ASSUME NEW e \in ListedUnion(W \cup {r}), ~HasRival(ListedUnion(W \cup {r}), e)
      PROVE  e \in held[Organizer]
  <2>1. ~HasRival(ListedUnion(W), e)
    BY <1>1, <1>2 DEF HasRival
  <2>2. CASE e \in ListedUnion(W)
    BY <2>1, <2>2 DEF HoldsUsable, UsableEntries
  <2>3. CASE e \in r.listed
    <3>1. e \in slots /\ (HasRival(slots, e) \/ e \in held[Organizer])
      BY <2>3 DEF ReadyResponses, ReadyListing
    <3>2. ~HasRival(slots, e)
      <4>1. SUFFICES ASSUME HasRival(slots, e) PROVE FALSE
        OBVIOUS
      <4>2. PICK d \in own.listed : d.author = e.author /\ d # e
        BY <3>1, <4>1, RivalListed
      <4> QED
        BY <1>1, <1>2, <4>2 DEF HasRival
    <3> QED
      BY <3>1, <3>2
  <2> QED
    BY <1>1, <1>2, <2>2, <2>3
<1> QED
  BY <1>2 DEF HoldsUsable, UsableEntries

\* A ready organizer's selection has q responders, itself among them, and needs
\* only bodies it holds.
LEMMA ReadyProposes ==
  ASSUME WorkIInv, Organizer \in Honest, gen[Organizer] = responding
  PROVE  CanPropose /\ HoldsUsable(held[Organizer], ProposalSelection)
<1> DEFINE own == ResponseOf(Organizer)
           selection == ProposalSelection
           R == ReadyResponses
<1>1. CloseIInv /\ taken \in Seq(Responses)
  BY DEF WorkIInv, CloseIInv, CloseTypeOK
<1>2. own.listed = HonestListing(known[Organizer], held[Organizer], lock[Organizer])
  BY DEF WorkIInv, OrganizerReady, ResponseOf
<1>3. own.responder = Organizer
  BY DEF ResponseOf
<1>4. Q \in Nat /\ Q >= 1 /\ Cardinality(R) >= Q - 1
  BY Thresholds DEF WorkIInv, OrganizerReady, Ready
<1>5. R \subseteq ToSet(taken)
  BY DEF ReadyResponses
<1> HIDE DEF own, R
<1>6. HoldsUsable(held[Organizer], {own})
  BY <1>1, <1>2, OwnUsable
<1>7. \A W \in SUBSET ({own} \cup ToSet(taken)), r \in R :
        own \in W /\ HoldsUsable(held[Organizer], W) => HoldsUsable(held[Organizer], W \cup {r})
  BY <1>1, <1>2, ReadyJoins DEF R
<1>8. selection = Selection(own, taken, held[Organizer], Q)
  BY DEF ProposalSelection, own
<1> HIDE DEF selection
<1>9. /\ selection \subseteq {own} \cup ToSet(taken)
      /\ own \in selection
      /\ IsFiniteSet(selection) /\ Cardinality(selection) <= Q
      /\ HoldsUsable(held[Organizer], selection)
      /\ Cardinality(selection) < Q => R \cap ToSet(taken) \subseteq selection
  <2> DEFINE H == held[Organizer]
  <2> HIDE DEF H
  <2>1. taken \in Seq(Responses) /\ Q \in Nat /\ Q >= 1 /\ HoldsUsable(H, {own})
    BY <1>1, <1>4, <1>6 DEF H
  <2>2. \A W \in SUBSET ({own} \cup ToSet(taken)), r \in R :
          own \in W /\ HoldsUsable(H, W) => HoldsUsable(H, W \cup {r})
    BY <1>7 DEF H
  <2>3. selection = Selection(own, taken, H, Q)
    BY <1>8 DEF H
  <2>4. /\ Selection(own, taken, H, Q) \subseteq {own} \cup ToSet(taken)
        /\ own \in Selection(own, taken, H, Q)
        /\ IsFiniteSet(Selection(own, taken, H, Q)) /\ Cardinality(Selection(own, taken, H, Q)) <= Q
        /\ HoldsUsable(H, Selection(own, taken, H, Q))
        /\ Cardinality(Selection(own, taken, H, Q)) < Q =>
             R \cap ToSet(taken) \subseteq Selection(own, taken, H, Q)
    BY <2>1, <2>2, SelectionComplete, Zenon
  <2> QED
    BY <2>3, <2>4 DEF H
<1>10. \A r \in ToSet(taken) : r.responder # Organizer
  BY <1>1 DEF CloseIInv, TakenInv
<1>11. Cardinality(selection) = Q
  <2>1. Cardinality(selection) \in Nat
    BY <1>9, FS_CardinalityType
  <2>2. SUFFICES ASSUME Cardinality(selection) < Q PROVE FALSE
    BY <1>4, <1>9, <2>1
  <2>3. R \subseteq selection /\ R \cup {own} \subseteq selection
    BY <1>5, <1>9, <2>2
  <2>4. IsFiniteSet(R) /\ own \notin R
    BY <1>3, <1>5, <1>9, <1>10, <2>3, FS_Subset
  <2>5. Cardinality(R \cup {own}) = Cardinality(R) + 1 /\ Cardinality(R) \in Nat
    BY <2>4, FS_AddElement, FS_CardinalityType
  <2>6. Cardinality(R \cup {own}) <= Cardinality(selection)
    BY <1>9, <2>3, FS_Subset
  <2> QED
    BY <1>4, <2>1, <2>2, <2>5, <2>6
<1>12. \A r, s \in selection : r.responder = s.responder => r = s
  BY <1>3, <1>9, <1>10 DEF WorkIInv, TakenOnce
<1>13. Cardinality(Responders(selection)) = Cardinality(selection)
  <2> DEFINE f == [r \in selection |-> r.responder]
  <2>1. f \in Bijection(selection, Responders(selection))
    BY <1>12 DEF Responders, Bijection, Injection, Surjection, IsInjective
  <2> QED
    BY <1>9, <2>1, FS_Bijection DEF ExistsBijection
<1>14. Organizer \in Responders(selection)
  BY <1>3, <1>9 DEF Responders
<1> QED
  BY <1>6, <1>9, <1>11, <1>13, <1>14 DEF CanPropose, own, selection

\* A step that leaves a participant's close alone, or an organizer's proposals.
LEMMA WorkInductive ==
  ASSUME WorkIInv, CloseIInv', [CloseNext]_closeVars
  PROVE  WorkIInv'
<1>1. CloseIInv /\ CloseTypeOK /\ (\A p \in Honest : gen[p] \in Int)
  BY GenTyped DEF WorkIInv, CloseIInv
<1> USE DEF WorkIInv
<1>2. ASSUME UNCHANGED <<taken, retained, proposals>>,
             Organizer \in Honest =>
               UNCHANGED <<gen[Organizer], held[Organizer], known[Organizer], lock[Organizer],
                           response[Organizer]>>
      PROVE  WorkIInv'
  <2>1. OrganizerReady'
    BY <1>2 DEF OrganizerReady, Ready, ReadyResponses
  <2>2. TakenOnce' /\ NoEarlyProposal' /\ ProposalVerifiable'
    BY <1>2 DEF TakenOnce, NoEarlyProposal, ProposalVerifiable
  <2> QED
    BY <2>1, <2>2
<1>3. ASSUME UNCHANGED <<taken, retained, proposals>>, Organizer \in Honest,
             gen[Organizer] < responded, gen'[Organizer] < responding
      PROVE  WorkIInv'
  <2>1. retained = {} /\ proposals = {}
    BY <1>3 DEF NoEarlyProposal
  <2>2. ~(gen'[Organizer] = responding)
    BY <1>3 DEF responding
  <2>3. OrganizerReady'
    BY <2>2 DEF OrganizerReady
  <2>4. TakenOnce' /\ NoEarlyProposal' /\ ProposalVerifiable'
    BY <1>3, <2>1 DEF TakenOnce, NoEarlyProposal, ProposalVerifiable
  <2> QED
    BY <2>3, <2>4
<1>4. ASSUME NEW p \in Honest, NEW e, Hold(p, e) PROVE WorkIInv'
  <2>1. CASE p = Organizer
    BY <1>1, <1>3, <1>4, <2>1 DEF Hold, Collecting, responding, responded
  <2>2. CASE p # Organizer
    BY <1>1, <1>2, <1>4, <2>2 DEF Hold, CloseTypeOK
  <2> QED
    BY <2>1, <2>2
<1>5. ASSUME NEW p \in Honest, NEW t, Lock(p, t), gen[p] < intentLocked PROVE WorkIInv'
  <2>1. CASE p = Organizer
    BY <1>1, <1>3, <1>5, <2>1 DEF Lock, CloseTypeOK, intentLocked, responding, responded
  <2>2. CASE p # Organizer
    BY <1>1, <1>2, <1>5, <2>2 DEF Lock, CloseTypeOK
  <2> QED
    BY <2>1, <2>2
<1>6. ASSUME NEW p \in Honest, CloseStep(p) PROVE WorkIInv'
  <2>1. ASSUME NEW time \in Times, BeginBallot(p, time) PROVE WorkIInv'
    <3>1. CASE p = Organizer
      BY <1>1, <1>3, <2>1, <3>1 DEF BeginBallot, CloseTypeOK, setupRetained, ballotLocked,
        responding, responded
    <3>2. CASE p # Organizer
      BY <1>1, <1>2, <2>1, <3>2 DEF BeginBallot, CloseTypeOK
    <3> QED
      BY <3>1, <3>2
  <2>2. CASE CompleteBallot(p)
    <3>1. CASE p = Organizer
      BY <1>1, <1>3, <2>2, <3>1 DEF CompleteBallot, CloseTypeOK, ballotLocked, ballotSigned,
        responding, responded
    <3>2. CASE p # Organizer
      BY <1>1, <1>2, <2>2, <3>2 DEF CompleteBallot, CloseTypeOK
    <3> QED
      BY <3>1, <3>2
  <2>3. CASE HoldOwnBallot(p)
    BY <1>4, <2>3 DEF HoldOwnBallot
  <2>4. ASSUME NEW e \in AvailableBodies, CollectBallot(p, e) PROVE WorkIInv'
    BY <1>4, <2>4 DEF CollectBallot
  <2>5. ASSUME NEW t \in CloseTimes, LockIntent(p, t) PROVE WorkIInv'
    BY <1>5, <2>5 DEF LockIntent, Unlocked, setupRetained, ballotSigned, intentLocked
  <2>6. CASE RetainResponse(p)
    <3>1. CASE p = Organizer
      <4>1. /\ Organizer \in Honest /\ gen[Organizer] = intentLocked /\ Ready
            /\ gen'[Organizer] = responding
            /\ response'[Organizer] =
                 HonestListing(known[Organizer], held[Organizer], lock[Organizer])
            /\ UNCHANGED <<held, known, lock, taken, retained, proposals>>
        BY <1>1, <2>6, <3>1 DEF RetainResponse, CloseTypeOK
      <4>2. retained = {} /\ proposals = {}
        BY <4>1 DEF NoEarlyProposal, intentLocked, responded
      <4>3. OrganizerReady'
        BY <4>1 DEF OrganizerReady, Ready, ReadyResponses
      <4>4. TakenOnce' /\ NoEarlyProposal' /\ ProposalVerifiable'
        BY <4>1, <4>2 DEF TakenOnce, NoEarlyProposal, ProposalVerifiable
      <4> QED
        BY <4>3, <4>4
    <3>2. CASE p # Organizer
      BY <1>1, <1>2, <2>6, <3>2 DEF RetainResponse, CloseTypeOK
    <3> QED
      BY <3>1, <3>2
  <2>7. CASE SignResponse(p)
    <3>1. CASE p = Organizer
      <4>1. /\ Organizer \in Honest /\ gen[Organizer] = responding
            /\ gen'[Organizer] = responded
            /\ retained' = {[intent |-> lock[p], responses |-> ProposalSelection]}
            /\ UNCHANGED <<held, taken, proposals>>
        BY <1>1, <2>7, <3>1 DEF SignResponse, CloseTypeOK
      <4>2. proposals = {}
        BY <4>1 DEF NoEarlyProposal, responding, responded
      <4>3. UsableEntries(ListedUnion(ProposalSelection)) \subseteq held[Organizer]
        BY <4>1, ReadyProposes DEF HoldsUsable
      <4>4. ProposalVerifiable'
        BY <4>1, <4>2, <4>3 DEF ProposalVerifiable, Usable
      <4>5. OrganizerReady' /\ NoEarlyProposal' /\ TakenOnce'
        BY <4>1 DEF OrganizerReady, NoEarlyProposal, TakenOnce, responding, responded
      <4> QED
        BY <4>4, <4>5
    <3>2. CASE p # Organizer
      BY <1>1, <1>2, <2>7, <3>2 DEF SignResponse, CloseTypeOK
    <3> QED
      BY <3>1, <3>2
  <2> QED
    BY <1>6, <2>1, <2>2, <2>3, <2>4, <2>5, <2>6, <2>7 DEF CloseStep
<1>7. ASSUME OrganizerStep PROVE WorkIInv'
  <2>1. ASSUME NEW t \in CloseTimes, SignIntent(t) PROVE WorkIInv'
    BY <1>1, <1>3, <2>1 DEF SignIntent, Unlocked, CloseTypeOK, setupRetained, ballotSigned,
      intentRetained, responding, responded
  <2>2. CASE LockOwnIntent
    BY <1>5, <2>2 DEF LockOwnIntent, intentRetained, intentLocked
  <2>3. ASSUME NEW p \in Participants, TakeResponse(p) PROVE WorkIInv'
    <3>1. /\ Organizer \in Honest /\ gen[Organizer] = intentLocked
          /\ \A r \in ToSet(taken) : r.responder # p
          /\ UNCHANGED <<gen, retained, proposals>>
      BY <2>3 DEF TakeResponse
    <3>2. PICK r \in SignedResponses(p, lock[Organizer]) : taken' = Append(taken, r)
      BY <2>3 DEF TakeResponse
    <3>3. r.responder = p
      BY <3>2 DEF SignedResponses, ResponseOf
    <3>4. ToSet(taken') \subseteq ToSet(taken) \cup {r}
      BY <1>1, <3>2 DEF ToSet, CloseTypeOK
    <3>5. TakenOnce'
      BY <3>1, <3>3, <3>4 DEF TakenOnce
    <3>6. OrganizerReady' /\ NoEarlyProposal' /\ ProposalVerifiable'
      BY <3>1 DEF OrganizerReady, NoEarlyProposal, ProposalVerifiable, intentLocked, responding,
        responded
    <3> QED
      BY <3>5, <3>6
  <2>4. ASSUME NEW e \in AvailableBodies, DeliverWantedBody(e) PROVE WorkIInv'
    BY <1>4, <2>4 DEF DeliverWantedBody
  <2>5. CASE Propose
    <3>1. /\ Organizer \in Honest /\ gen'[Organizer] = proposed
          /\ proposals' = proposals \cup retained
          /\ UNCHANGED <<held, taken, retained>>
      BY <1>1, <2>5 DEF Propose, CloseTypeOK
    <3>2. ProposalVerifiable'
      BY <3>1 DEF ProposalVerifiable, Usable
    <3> QED
      BY <3>1, <3>2 DEF OrganizerReady, NoEarlyProposal, TakenOnce, responding, responded, proposed
  <2>6. ASSUME NEW t \in CloseTimes, NEW responders \in CorruptQuorums,
               CorruptPropose(t, responders)
        PROVE  WorkIInv'
    <3>1. Organizer \notin Honest
      BY DEF CorruptQuorums, Honest
    <3>2. UNCHANGED taken
      BY <2>6 DEF CorruptPropose
    <3> QED
      BY <3>1, <3>2 DEF OrganizerReady, NoEarlyProposal, TakenOnce, ProposalVerifiable
  <2> QED
    BY <1>7, <2>1, <2>2, <2>3, <2>4, <2>5, <2>6 DEF OrganizerStep
<1>8. CASE UNCHANGED closeVars
  BY <1>2, <1>8 DEF closeVars
<1> QED
  BY <1>6, <1>7, <1>8 DEF CloseNext

\* For every roster, a participant signs the response that it retains, an honest
\* organizer that may respond can always propose, and its proposal needs no body
\* that it does not hold: prepare_response and the selection of close-log.rs.
THEOREM CloseIsWorkable == CloseSpec => []CloseWorkable
<1>1. CloseInit /\ CloseIInv => WorkIInv
  BY DEF CloseInit, WorkIInv, OrganizerReady, TakenOnce, NoEarlyProposal, ProposalVerifiable,
    ToSet, setupRetained, responding
<1>2. WorkIInv /\ CloseIInv' /\ [CloseNext]_closeVars => WorkIInv'
  BY WorkInductive
<1>3. WorkIInv => CloseWorkable
  <2> SUFFICES ASSUME WorkIInv PROVE RetainedResponseSignable
    BY DEF CloseWorkable, WorkIInv, CloseIInv
  <2>1. ASSUME NEW p \in Honest, gen[p] = responding PROVE ListsOwnBallot(p)
    <3>1. /\ ballot[p] \subseteq receipt[p]
          /\ \A e \in OnTime(receipt[p], lock[p]) : e.author \in Honest => e \in response[p]
          /\ \A e \in ballot[p] : e.author = p
      BY <2>1 DEF WorkIInv, CloseIInv, LockInv, ResponseInv, BallotsInv, responding, intentLocked
    <3> QED
      BY <3>1 DEF ListsOwnBallot, OnTime
  <2> QED
    BY <2>1, ReadyProposes DEF RetainedResponseSignable
<1> QED
  BY <1>1, <1>2, <1>3, CloseInvariant, PTL DEF CloseSpec
====
