---- MODULE Barrier ----
(***************************************************************************)
(* Public close verification in one instance (CloseSession): the host, who *)
(* is not trusted, feeds an intent, the listed envelopes, the responses,   *)
(* the bodies of the usable slots and a proposal, in any order and with    *)
(* any repetition, and the session makes the close barrier of them.        *)
(*                                                                         *)
(* A message stands for its canonical bytes, so its identity is itself.    *)
(* An envelope is [author, id, time, signed]; a response is [responder,    *)
(* intent, listed, signed]; a proposal is [intent, chosen, signed] where   *)
(* chosen is the set of responses it names. `signed` says whether the      *)
(* signature the host hands in verifies under the roster key.              *)
(***************************************************************************)
EXTENDS ProtocolRules, FiniteSetTheorems, TLAPS

CONSTANTS Count,      \* participants
          Organizer,  \* the position whose response every proposal names
          Quorum,     \* responses a proposal names
          Intents,    \* the signed close times
          Envelopes, Responses, Proposals,
          Parts,      \* pushes that make up a complete body
          None

ASSUME BarrierAssumption ==
  /\ Count \in Nat \ {0} /\ Quorum \in 1 .. Count /\ Parts \in Nat \ {0}
  /\ \A e \in Envelopes : e.author \in 1 .. Count
  /\ \A r \in Responses : r.responder \in 1 .. Count
  /\ \A p \in Proposals : IsFiniteSet(p.chosen)
  /\ None \notin Intents \cup [envelope : Envelopes, pushed : 0 .. Parts, exact : BOOLEAN]

VARIABLES begun,      \* whether the session has its close context
          intent, envelopes, responses, bodies, missing,
          pending,    \* the body being streamed: its envelope, the parts
                      \* hashed and whether they were the body's own
          barrier,
          taken       \* the barriers made so far

barrierVars == <<begun, intent, envelopes, responses, bodies, missing, pending, barrier, taken>>

BarrierInit ==
  /\ begun = FALSE /\ intent = None /\ envelopes = {} /\ responses = {}
  /\ bodies = {} /\ missing = {} /\ pending = None /\ barrier = None
  /\ taken = {}

BarrierTypeOK ==
  /\ begun \in BOOLEAN /\ intent \in Intents \cup {None}
  /\ envelopes \subseteq Envelopes /\ responses \subseteq Responses
  /\ bodies \subseteq [envelope : Envelopes, exact : BOOLEAN]
  /\ missing \subseteq Envelopes
  /\ pending = None \/ pending \in [envelope : Envelopes, pushed : 0 .. Parts, exact : BOOLEAN]

----
Held == {b.envelope : b \in bodies}

\* Begin resets everything but the input buffer, whatever the session held.
Begin ==
  /\ begun' = TRUE /\ intent' = None /\ envelopes' = {} /\ responses' = {}
  /\ bodies' = {} /\ missing' = {} /\ pending' = None /\ barrier' = None
  /\ UNCHANGED taken

\* Every other command needs the context, and none follows a barrier.
Open == begun /\ barrier = None

Intent(i) ==
  /\ Open /\ intent = None
  /\ intent' = i
  /\ UNCHANGED <<begun, envelopes, responses, bodies, missing, pending, barrier, taken>>

\* A repeated envelope is accepted and changes nothing.
Envelope(e) ==
  /\ Open /\ e.signed
  /\ Cardinality(envelopes) < MaximumListedEnvelopesPerSlot * Count * Count
  /\ envelopes' = envelopes \cup {e}
  /\ UNCHANGED <<begun, intent, responses, bodies, missing, pending, barrier, taken>>

BeginBody(e) ==
  /\ Open /\ pending = None
  /\ Cardinality(bodies) < Count
  /\ e \in envelopes
  /\ pending' = [envelope |-> e, pushed |-> 0, exact |-> TRUE]
  /\ UNCHANGED <<begun, intent, envelopes, responses, bodies, missing, barrier, taken>>

\* A push past the envelope's body length drops the pending body.
PushBody(right) ==
  /\ Open /\ pending # None
  /\ pending' = IF pending.pushed = Parts
                THEN None
                ELSE [pending EXCEPT !.pushed = @ + 1, !.exact = @ /\ right]
  /\ UNCHANGED <<begun, intent, envelopes, responses, bodies, missing, barrier, taken>>

\* The hash accepts a complete body only, and the envelope names its identity.
Authentic(p) == p.pushed = Parts /\ p.exact

\* The pending body is gone whether or not it is authenticated.
FinishBody ==
  /\ Open /\ pending # None
  /\ pending' = None
  /\ bodies' = IF Authentic(pending) /\ pending.envelope \notin Held
               THEN bodies \cup {[envelope |-> pending.envelope, exact |-> pending.exact]}
               ELSE bodies
  /\ UNCHANGED <<begun, intent, envelopes, responses, missing, barrier, taken>>

DiscardBody ==
  /\ Open
  /\ pending' = None
  /\ UNCHANGED <<begun, intent, envelopes, responses, bodies, missing, barrier, taken>>

\* Every listed entry has its authenticated envelope, no later than the close.
AuthenticateResponse(r) ==
  /\ r.signed /\ r.intent = intent
  /\ r.listed \subseteq OnTime(envelopes, intent)

\* One response per signer; a duplicate never replaces the first.
Response(r) ==
  /\ Open /\ intent # None
  /\ Cardinality(responses) < Count
  /\ AuthenticateResponse(r)
  /\ \A s \in responses : s.responder # r.responder
  /\ responses' = responses \cup {r}
  /\ UNCHANGED <<begun, intent, envelopes, bodies, missing, pending, barrier, taken>>

\* Mutant: a named response is found by its responder alone.
SelectResponder(p) ==
  {r \in responses : \E s \in p.chosen : s.responder = r.responder}

\* The responses of the session that a proposal for its intent names.
Select(p) == responses \cap p.chosen

\* Parsing checks the number of responses and that the organizer's is among them;
\* every one of them is needed.
Selectable(p) ==
  /\ intent # None /\ p.intent = intent
  /\ Cardinality(p.chosen) = Quorum
  /\ \E r \in p.chosen : r.responder = Organizer
  /\ Cardinality(Select(p)) = Quorum

\* The signature is not checked here: this creates no barrier.
RequiredBodies(p) ==
  /\ Open /\ Selectable(p)
  /\ missing' = UsableEntries(ListedUnion(Select(p))) \ Held
  /\ UNCHANGED <<begun, intent, envelopes, responses, bodies, pending, barrier, taken>>

\* The slots of the union: absent, usable with its body, or conflicting.
Slots(p) ==
  LET union == ListedUnion(Select(p))
  IN  [usable |-> {b \in bodies : b.envelope \in UsableEntries(union)},
       conflicting |-> union \ UsableEntries(union)]

Proposal(p) ==
  /\ Open /\ Selectable(p) /\ p.signed
  /\ UsableEntries(ListedUnion(Select(p))) \subseteq Held
  /\ barrier' = [intent |-> intent, proposal |-> p, slots |-> Slots(p)]
  /\ taken' = taken \cup {barrier'}
  /\ UNCHANGED <<begun, intent, envelopes, responses, bodies, missing, pending>>

TakeBarrier ==
  /\ barrier # None
  /\ barrier' = None
  /\ UNCHANGED <<begun, intent, envelopes, responses, bodies, missing, pending, taken>>

BarrierNext ==
  \/ Begin \/ FinishBody \/ DiscardBody \/ TakeBarrier
  \/ \E i \in Intents : Intent(i)
  \/ \E e \in Envelopes : Envelope(e) \/ BeginBody(e)
  \/ \E right \in BOOLEAN : PushBody(right)
  \/ \E r \in Responses : Response(r)
  \/ \E p \in Proposals : RequiredBodies(p) \/ Proposal(p)

BarrierSpec == BarrierInit /\ [][BarrierNext]_barrierVars

----
(* Properties.                                                             *)

\* A proposal fixes its union: two barriers of one proposal, from sessions
\* that took the messages in different orders, are the same barrier.
ProposalFixesSlots ==
  \A b, c \in taken : b.proposal = c.proposal => b = c

\* A barrier stands on the signatures it claims: a quorum of distinct signed
\* responses to its intent, the organizer's among them, each of whose entries is a signed on-time envelope,
\* also in the conflicting slots, whose bodies nobody reads; and only bodies
\* that are byte for byte the ones their envelopes name.
BarrierStands ==
  \A b \in taken :
    /\ b.proposal.signed
    /\ Cardinality({r.responder : r \in b.proposal.chosen}) = Quorum
    /\ \E r \in b.proposal.chosen : r.responder = Organizer
    /\ \A r \in b.proposal.chosen :
         /\ r.signed /\ r.intent = b.intent
         /\ \A e \in r.listed : e.signed /\ e.time <= b.intent
    /\ \A c \in b.slots.usable : c.exact

\* No host fills the session: the bodies stay one per participant.
SessionBounded == Cardinality(bodies) <= Count

\* Whatever the host feeds in, a barrier is its proposal's alone, stands on the
\* signatures and bodies it claims, and is made within the session's bounds.
BarrierFixed == BarrierTypeOK /\ ProposalFixesSlots /\ BarrierStands /\ SessionBounded

\* Until a new session begins, nothing accepted is replaced or given up.
AcceptedStays ==
  [][\/ Begin
     \/ /\ intent # None => intent' = intent
        /\ envelopes \subseteq envelopes' /\ responses \subseteq responses'
        /\ bodies \subseteq bodies']_barrierVars

----
(* Proofs.                                                                 *)

\* What the session accepted so far holds together.
EnvelopesSigned == \A e \in envelopes : e.signed

ResponsesAuthentic ==
  /\ \A r \in responses :
       r.signed /\ intent # None /\ r.intent = intent /\ r.listed \subseteq OnTime(envelopes, intent)
  /\ \A r, s \in responses : r.responder = s.responder => r = s

\* A pending body has its place among the bodies.
BodiesExact ==
  /\ \A b \in bodies : b.exact
  /\ IsFiniteSet(bodies) /\ Cardinality(bodies) <= Count
  /\ pending # None => Cardinality(bodies) < Count

\* The one barrier that a proposal can become.
BarrierOf(p) ==
  LET union == ListedUnion(p.chosen)
  IN  [intent |-> p.intent, proposal |-> p,
       slots |-> [usable |-> {[envelope |-> e, exact |-> TRUE] : e \in UsableEntries(union)},
                  conflicting |-> union \ UsableEntries(union)]]

TakenOfProposals == \A b \in taken : b = BarrierOf(b.proposal)

BarrierIInv ==
  /\ BarrierTypeOK /\ EnvelopesSigned /\ ResponsesAuthentic /\ BodiesExact
  /\ TakenOfProposals /\ BarrierStands

\* A selectable proposal names exactly the responses that it selects.
LEMMA SelectsTheChosen ==
  ASSUME NEW p \in Proposals, Selectable(p)
  PROVE  Select(p) = p.chosen
<1>1. /\ IsFiniteSet(p.chosen) /\ Select(p) \subseteq p.chosen
      /\ Cardinality(Select(p)) = Cardinality(p.chosen)
  BY BarrierAssumption DEF Selectable, Select
<1>2. QED BY <1>1, FS_Subset

\* The barrier made of a proposal is the proposal's own.
LEMMA ProposalMakesItsBarrier ==
  ASSUME BarrierIInv, NEW p \in Proposals, Proposal(p)
  PROVE  barrier' = BarrierOf(p)
<1>1. Select(p) = p.chosen /\ p.intent = intent
  BY SelectsTheChosen DEF Proposal, Selectable
<1> DEFINE U == UsableEntries(ListedUnion(p.chosen))
           B == {b \in bodies : b.envelope \in U}
<1>2. U \subseteq Held
  BY <1>1 DEF Proposal
<1>3. ASSUME NEW b \in bodies PROVE b = [envelope |-> b.envelope, exact |-> TRUE]
  BY DEF BarrierIInv, BarrierTypeOK, BodiesExact
<1>4. ASSUME NEW b \in B PROVE b \in {[envelope |-> e, exact |-> TRUE] : e \in U}
  BY <1>3, <1>4
<1>5. ASSUME NEW e \in U PROVE [envelope |-> e, exact |-> TRUE] \in B
  <2>1. PICK b \in bodies : b.envelope = e
    BY <1>2 DEF Held
  <2>2. b = [envelope |-> e, exact |-> TRUE]
    BY <1>3, <2>1
  <2>3. QED BY <2>1, <2>2
<1>6. B = {[envelope |-> e, exact |-> TRUE] : e \in U}
  BY <1>4, <1>5
<1>7. barrier' = [intent |-> p.intent, proposal |-> p,
                  slots |-> [usable |-> B, conflicting |-> ListedUnion(p.chosen) \ U]]
  BY <1>1 DEF Proposal, Slots
<1>8. QED BY <1>6, <1>7 DEF BarrierOf

\* A barrier stands on the signatures of the responses that it names.
LEMMA ProposalStands ==
  ASSUME BarrierIInv, NEW p \in Proposals, Proposal(p)
  PROVE  BarrierStands'
<1>1. /\ Select(p) = p.chosen /\ p.intent = intent /\ Cardinality(p.chosen) = Quorum /\ p.signed
      /\ \E r \in p.chosen : r.responder = Organizer
  BY SelectsTheChosen DEF Proposal, Selectable
<1>2. p.chosen \subseteq responses
  BY <1>1 DEF Select
<1> DEFINE S == {r.responder : r \in p.chosen}
           f == [r \in p.chosen |-> r.responder]
<1>3. Cardinality(S) = Quorum
  <2>1. f \in Bijection(p.chosen, S)
    <3>1. f \in [p.chosen -> S] /\ \A s \in S : \E r \in p.chosen : f[r] = s
      OBVIOUS
    <3>2. \A r, s \in p.chosen : f[r] = f[s] => r = s
      BY <1>2 DEF BarrierIInv, ResponsesAuthentic
    <3>3. QED BY <3>1, <3>2, Zenon DEF Bijection, Injection, Surjection, IsInjective
  <2>2. IsFiniteSet(p.chosen)
    BY BarrierAssumption
  <2>3. QED BY <1>1, <2>1, <2>2, FS_Bijection DEF ExistsBijection
<1>4. ASSUME NEW r \in p.chosen
      PROVE  r.signed /\ r.intent = intent /\ \A e \in r.listed : e.signed /\ e.time <= intent
  BY <1>2 DEF BarrierIInv, ResponsesAuthentic, EnvelopesSigned, OnTime
<1>5. taken' = taken \cup {BarrierOf(p)}
  BY ProposalMakesItsBarrier DEF Proposal
<1>6. ASSUME NEW b \in taken', b \notin taken
      PROVE  /\ b.proposal.signed /\ Cardinality({r.responder : r \in b.proposal.chosen}) = Quorum
             /\ \E r \in b.proposal.chosen : r.responder = Organizer
             /\ \A r \in b.proposal.chosen :
                  /\ r.signed /\ r.intent = b.intent
                  /\ \A e \in r.listed : e.signed /\ e.time <= b.intent
             /\ \A c \in b.slots.usable : c.exact
  <2>1. b = BarrierOf(p)
    BY <1>5, <1>6
  <2>2. b.proposal = p /\ b.intent = p.intent
    BY <2>1 DEF BarrierOf
  <2>3. b.slots.usable = {[envelope |-> e, exact |-> TRUE] : e \in UsableEntries(ListedUnion(p.chosen))}
    BY <2>1 DEF BarrierOf
  <2>4. \A c \in b.slots.usable : c.exact
    BY <2>3
  <2>5. QED BY <1>1, <1>3, <1>4, <2>2, <2>4
<1>7. QED BY <1>5, <1>6 DEF BarrierIInv, BarrierStands

\* A body that is complete and exact takes the place kept for it.
LEMMA FinishBodyExact ==
  ASSUME BarrierIInv, FinishBody
  PROVE  BodiesExact' /\ bodies' \subseteq [envelope : Envelopes, exact : BOOLEAN]
<1>1. /\ IsFiniteSet(bodies) /\ Cardinality(bodies) < Count /\ pending' = None
      /\ pending \in [envelope : Envelopes, pushed : 0 .. Parts, exact : BOOLEAN]
  BY DEF BarrierIInv, BodiesExact, BarrierTypeOK, FinishBody
<1>2. CASE bodies' = bodies
  BY <1>1, <1>2 DEF BarrierIInv, BodiesExact, BarrierTypeOK
<1>3. CASE bodies' # bodies
  <2> DEFINE b == [envelope |-> pending.envelope, exact |-> pending.exact]
  <2>1. bodies' = bodies \cup {b} /\ pending.exact
    BY <1>3 DEF FinishBody, Authentic
  <2>2. b.exact /\ b \in [envelope : Envelopes, exact : BOOLEAN]
    BY <1>1, <2>1
  <2>3. /\ IsFiniteSet(bodies') /\ Cardinality(bodies') <= Cardinality(bodies) + 1
        /\ Cardinality(bodies) \in Nat
    <3> HIDE DEF b
    <3>1. Cardinality(bodies) \in Nat
      BY <1>1, FS_CardinalityType
    <3>2. /\ IsFiniteSet(bodies \cup {b})
          /\ Cardinality(bodies \cup {b}) = IF b \in bodies THEN Cardinality(bodies) ELSE Cardinality(bodies) + 1
      BY <1>1, FS_AddElement
    <3>3. QED BY <2>1, <3>1, <3>2
  <2>4. Cardinality(bodies') \in Nat
    BY <2>3, FS_CardinalityType
  <2>5. Cardinality(bodies') <= Count
    <3>1. \A m, n \in Nat : m < Count /\ n <= m + 1 => n <= Count
      BY BarrierAssumption
    <3>2. QED BY <1>1, <2>3, <2>4, <3>1
  <2>6. \A c \in bodies' : c.exact
    BY <2>1, <2>2 DEF BarrierIInv, BodiesExact
  <2>7. bodies' \subseteq [envelope : Envelopes, exact : BOOLEAN]
    BY <2>1, <2>2 DEF BarrierIInv, BarrierTypeOK
  <2>8. QED BY <1>1, <2>3, <2>5, <2>6, <2>7 DEF BodiesExact
<1>4. QED BY <1>2, <1>3

\* The session's invariant is inductive.
LEMMA BarrierInvariant == BarrierSpec => []BarrierIInv
<1>1. BarrierInit => BarrierIInv
  <2> SUFFICES ASSUME BarrierInit PROVE BarrierIInv
    OBVIOUS
  <2>1. IsFiniteSet(bodies) /\ Cardinality(bodies) = 0
    BY FS_EmptySet DEF BarrierInit
  <2>2. BodiesExact
    BY <2>1, BarrierAssumption DEF BarrierInit, BodiesExact
  <2>3. BarrierTypeOK /\ EnvelopesSigned /\ ResponsesAuthentic
    BY DEF BarrierInit, BarrierTypeOK, EnvelopesSigned, ResponsesAuthentic
  <2>4. TakenOfProposals /\ BarrierStands
    BY DEF BarrierInit, TakenOfProposals, BarrierStands
  <2>5. QED BY <2>2, <2>3, <2>4 DEF BarrierIInv
<1>2. BarrierIInv /\ [BarrierNext]_barrierVars => BarrierIInv'
  <2> SUFFICES ASSUME BarrierIInv, [BarrierNext]_barrierVars PROVE BarrierIInv'
    OBVIOUS
  <2> USE DEF BarrierIInv
  <2>1. CASE UNCHANGED barrierVars
    BY <2>1 DEF barrierVars, BarrierTypeOK, EnvelopesSigned, ResponsesAuthentic, BodiesExact,
      TakenOfProposals,
       BarrierStands
  <2>2. CASE Begin
    <3>1. IsFiniteSet(bodies') /\ Cardinality(bodies') = 0
      BY <2>2, FS_EmptySet DEF Begin
    <3>2. BodiesExact'
      BY <2>2, <3>1, BarrierAssumption DEF Begin, BodiesExact
    <3>3. BarrierTypeOK' /\ EnvelopesSigned' /\ ResponsesAuthentic'
      BY <2>2 DEF Begin, BarrierTypeOK, EnvelopesSigned, ResponsesAuthentic
    <3>4. TakenOfProposals' /\ BarrierStands'
      BY <2>2 DEF Begin, TakenOfProposals, BarrierStands
    <3>5. QED BY <3>2, <3>3, <3>4
  <2>3. CASE FinishBody
    <3>1. BarrierTypeOK'
      BY <2>3, FinishBodyExact DEF FinishBody, BarrierTypeOK
    <3>2. EnvelopesSigned' /\ ResponsesAuthentic' /\ TakenOfProposals' /\ BarrierStands'
      BY <2>3 DEF FinishBody, EnvelopesSigned, ResponsesAuthentic, TakenOfProposals,
        BarrierStands
    <3>3. QED BY <2>3, <3>1, <3>2, FinishBodyExact
  <2>4. CASE DiscardBody \/ TakeBarrier
    <3>1. BarrierTypeOK' /\ BodiesExact'
      BY <2>4 DEF DiscardBody, TakeBarrier, BarrierTypeOK, BodiesExact
    <3>2. EnvelopesSigned' /\ ResponsesAuthentic' /\ TakenOfProposals' /\ BarrierStands'
      BY <2>4 DEF DiscardBody, TakeBarrier, EnvelopesSigned, ResponsesAuthentic,
        TakenOfProposals, BarrierStands
    <3>3. QED BY <3>1, <3>2
  <2>5. ASSUME NEW i \in Intents, Intent(i) PROVE BarrierIInv'
    <3>1. BarrierTypeOK' /\ BodiesExact'
      BY <2>5 DEF Intent, BarrierTypeOK, BodiesExact
    <3>2. EnvelopesSigned' /\ ResponsesAuthentic' /\ TakenOfProposals' /\ BarrierStands'
      BY <2>5 DEF Intent, EnvelopesSigned, ResponsesAuthentic, TakenOfProposals, BarrierStands
    <3>3. QED BY <3>1, <3>2
  <2>6. ASSUME NEW e \in Envelopes, Envelope(e) PROVE BarrierIInv'
    <3>1. BarrierTypeOK' /\ BodiesExact'
      BY <2>6 DEF Envelope, BarrierTypeOK, BodiesExact
    <3>2. EnvelopesSigned' /\ TakenOfProposals' /\ BarrierStands'
      BY <2>6 DEF Envelope, EnvelopesSigned, TakenOfProposals, BarrierStands
    <3>3. ResponsesAuthentic'
      BY <2>6 DEF Envelope, ResponsesAuthentic, OnTime
    <3>4. QED BY <3>1, <3>2, <3>3
  <2>7. ASSUME NEW e \in Envelopes, BeginBody(e) PROVE BarrierIInv'
    <3>1. [envelope |-> e, pushed |-> 0, exact |-> TRUE] \in [envelope : Envelopes, pushed : 0 .. Parts, exact : BOOLEAN]
      BY BarrierAssumption
    <3>2. BarrierTypeOK' /\ BodiesExact'
      BY <2>7, <3>1 DEF BeginBody, BarrierTypeOK, BodiesExact
    <3>3. EnvelopesSigned' /\ ResponsesAuthentic' /\ TakenOfProposals' /\ BarrierStands'
      BY <2>7 DEF BeginBody, EnvelopesSigned, ResponsesAuthentic, TakenOfProposals,
        BarrierStands
    <3>4. QED BY <3>2, <3>3
  <2>8. ASSUME NEW right \in BOOLEAN, PushBody(right) PROVE BarrierIInv'
    <3>1. pending' = None \/ pending' \in [envelope : Envelopes, pushed : 0 .. Parts, exact : BOOLEAN]
      <4>1. pending \in [envelope : Envelopes, pushed : 0 .. Parts, exact : BOOLEAN]
        BY <2>8 DEF PushBody, BarrierTypeOK
      <4>2. CASE pending.pushed = Parts
        BY <2>8, <4>2 DEF PushBody
      <4>3. CASE pending.pushed # Parts
        <5>1. pending.pushed + 1 \in 0 .. Parts /\ (pending.exact /\ right) \in BOOLEAN
          BY <4>1, <4>3, BarrierAssumption
        <5>2. pending' = [pending EXCEPT !.pushed = @ + 1, !.exact = @ /\ right]
          BY <2>8, <4>3 DEF PushBody
        <5>3. QED BY <4>1, <5>1, <5>2
      <4>4. QED BY <4>2, <4>3
    <3>2. BarrierTypeOK'
      BY <2>8, <3>1 DEF PushBody, BarrierTypeOK
    <3>3. BodiesExact'
      BY <2>8 DEF PushBody, BodiesExact
    <3>4. EnvelopesSigned' /\ ResponsesAuthentic' /\ TakenOfProposals' /\ BarrierStands'
      BY <2>8 DEF PushBody, EnvelopesSigned, ResponsesAuthentic, TakenOfProposals, BarrierStands
    <3>5. QED BY <3>2, <3>3, <3>4
  <2>9. ASSUME NEW r \in Responses, Response(r) PROVE BarrierIInv'
    <3>1. BarrierTypeOK' /\ BodiesExact'
      BY <2>9 DEF Response, BarrierTypeOK, BodiesExact
    <3>2. EnvelopesSigned' /\ TakenOfProposals' /\ BarrierStands'
      BY <2>9 DEF Response, EnvelopesSigned, TakenOfProposals, BarrierStands
    <3>3. ResponsesAuthentic'
      BY <2>9 DEF Response, AuthenticateResponse, ResponsesAuthentic
    <3>4. QED BY <3>1, <3>2, <3>3
  <2>10. ASSUME NEW p \in Proposals, RequiredBodies(p) PROVE BarrierIInv'
    <3>1. missing' \subseteq Envelopes
      BY <2>10 DEF RequiredBodies, UsableEntries, ListedUnion, Select, ResponsesAuthentic,
        OnTime, BarrierTypeOK
    <3>2. BarrierTypeOK' /\ BodiesExact'
      BY <2>10, <3>1 DEF RequiredBodies, BarrierTypeOK, BodiesExact
    <3>3. EnvelopesSigned' /\ ResponsesAuthentic' /\ TakenOfProposals' /\ BarrierStands'
      BY <2>10 DEF RequiredBodies, EnvelopesSigned, ResponsesAuthentic, TakenOfProposals,
        BarrierStands
    <3>4. QED BY <3>2, <3>3
  <2>11. ASSUME NEW p \in Proposals, Proposal(p) PROVE BarrierIInv'
    <3>1. BarrierTypeOK' /\ BodiesExact' /\ EnvelopesSigned' /\ ResponsesAuthentic'
      BY <2>11 DEF Proposal, BarrierTypeOK, BodiesExact, EnvelopesSigned, ResponsesAuthentic
    <3>2. taken' = taken \cup {BarrierOf(p)} /\ BarrierOf(p).proposal = p
      BY <2>11, ProposalMakesItsBarrier DEF Proposal, BarrierOf
    <3>3. TakenOfProposals'
      BY <3>2 DEF TakenOfProposals
    <3>4. QED BY <2>11, <3>1, <3>3, ProposalStands
  <2>12. QED BY <2>1, <2>2, <2>3, <2>4, <2>5, <2>6, <2>7, <2>8, <2>9, <2>10, <2>11
      DEF BarrierNext
<1>3. QED BY <1>1, <1>2, PTL DEF BarrierSpec

\* For any roster and messages, and whatever the host feeds in whichever order,
\* the barrier that CloseSession makes of a proposal is the proposal's alone.
THEOREM ProposalFixesTheBarrier == BarrierSpec => []ProposalFixesSlots
<1>1. BarrierIInv => ProposalFixesSlots
  BY DEF BarrierIInv, TakenOfProposals, ProposalFixesSlots
<1>2. QED BY <1>1, BarrierInvariant, PTL

\* For any roster, a barrier of CloseSession stands on a quorum of distinct
\* signed responses over signed on-time envelopes, and on exact bodies.
THEOREM BarrierIsSigned == BarrierSpec => []BarrierStands
<1>1. BarrierIInv => BarrierStands
  BY DEF BarrierIInv
<1>2. QED BY <1>1, BarrierInvariant, PTL

\* For any roster, no host makes CloseSession hold more bodies than participants.
THEOREM SessionIsBounded == BarrierSpec => []SessionBounded
<1>1. BarrierIInv => SessionBounded
  BY DEF BarrierIInv, BodiesExact, SessionBounded
<1>2. QED BY <1>1, BarrierInvariant, PTL

\* For any roster, messages and order of calls, the barriers of CloseSession are
\* fixed by their proposals, stand on what they claim and stay within bounds.
THEOREM BarrierIsFixed == BarrierSpec => []BarrierFixed
<1>1. BarrierIInv => BarrierTypeOK
  BY DEF BarrierIInv
<1>2. QED
  BY <1>1, BarrierInvariant, ProposalFixesTheBarrier, BarrierIsSigned, SessionIsBounded, PTL
     DEF BarrierFixed

\* CloseSession never replaces or gives up what it accepted before it begins anew.
THEOREM AcceptedIsKept == BarrierSpec => AcceptedStays
<1> DEFINE Kept == /\ intent # None => intent' = intent
                   /\ envelopes \subseteq envelopes' /\ responses \subseteq responses'
                   /\ bodies \subseteq bodies'
<1>1. BarrierNext => Begin \/ Kept
  <2> SUFFICES ASSUME BarrierNext, ~Begin PROVE Kept
    OBVIOUS
  <2>1. CASE FinishBody \/ DiscardBody \/ TakeBarrier
    BY <2>1 DEF FinishBody, DiscardBody, TakeBarrier
  <2>2. CASE \E i \in Intents : Intent(i)
    BY <2>2 DEF Intent
  <2>3. CASE \E e \in Envelopes : Envelope(e) \/ BeginBody(e)
    BY <2>3 DEF Envelope, BeginBody
  <2>4. CASE \E right \in BOOLEAN : PushBody(right)
    BY <2>4 DEF PushBody
  <2>5. CASE \E r \in Responses : Response(r)
    BY <2>5 DEF Response
  <2>6. CASE \E p \in Proposals : RequiredBodies(p) \/ Proposal(p)
    BY <2>6 DEF RequiredBodies, Proposal
  <2>7. QED BY <2>1, <2>2, <2>3, <2>4, <2>5, <2>6 DEF BarrierNext
<1>2. [BarrierNext]_barrierVars => [Begin \/ Kept]_barrierVars
  BY <1>1
<1>3. QED BY <1>2, PTL DEF BarrierSpec, AcceptedStays
====
