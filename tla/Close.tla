-------------------------------- MODULE Close --------------------------------
(***************************************************************************)
(* Ballot casting and ballot closing among all participants of one poll.   *)
(*                                                                         *)
(* Each honest participant is a durable root whose generation orders its   *)
(* one-shot steps; a step of this module is one committed root transition, *)
(* so a crash between two of them changes nothing.  Everything published   *)
(* is read through an untrusted relay that may hide, delay or repeat it: a *)
(* participant may take any published record at any time, or never.        *)
(* Corrupt participants publish whatever their own signatures allow: any   *)
(* of CorruptEnvelopes, any response to any intent and, when the organizer *)
(* is corrupt, any intents and any well-formed proposals.                  *)
(***************************************************************************)
EXTENDS ProtocolRules

CONSTANTS
  Participants,      \* the roster
  Corrupt,           \* the participants that do not follow the code
  Organizer,         \* the participant that opened the poll
  Voters,            \* the participants whose users ask to cast a ballot
  Times,             \* the clock readings a ballot can be timed with
  CloseTimes,        \* the close times an organizer can name
  CorruptEnvelopes,  \* the ballot envelopes corrupt authors sign
  Bodiless,          \* those of them whose body nobody can supply
  MaxProposals,      \* a bound on the proposals a corrupt organizer signs
  MaxCollected       \* a bound on the other ballots the relay shows a participant

Honest == Participants \ Corrupt
N == Cardinality(Participants)
F == MaximumCorruptParticipants(N)
Q == InventoryThreshold(N)

ASSUME RosterAssumption ==
  /\ IsFiniteSet(Participants)
  /\ N >= 3
  /\ Corrupt \subseteq Participants
  /\ Cardinality(Corrupt) <= F
  /\ Organizer \in Participants

ASSUME TimesAssumption ==
  /\ Times \subseteq Nat
  /\ CloseTimes \subseteq Nat

\* One identity names one envelope.
ASSUME EnvelopesAssumption ==
  /\ CorruptEnvelopes \subseteq [author : Corrupt, time : Times, id : Nat]
  /\ \A d, e \in CorruptEnvelopes : d.author = e.author /\ d.id = e.id => d = e
  /\ Bodiless \subseteq CorruptEnvelopes

ASSUME BoundsAssumption == MaxProposals \in Nat /\ MaxCollected \in Nat

NoTime == -1

VARIABLES
  gen,       \* the root's generation
  ballot,    \* the envelope of the own ballot attempt, as a set of at most one
  held,      \* the envelopes whose complete bodies are held
  known,     \* the known envelopes, with or without bodies
  lock,      \* the close time of the retained or locked intent
  response,  \* the listing of the retained response
  taken,     \* the organizer: the other responses taken, in arrival order
  retained,  \* the organizer: the retained proposal, as a set of at most one
  proposals, \* the proposals signed by the organizer
  receipt    \* history: the bodies held when the intent was locked

closeVars == <<gen, ballot, held, known, lock, response, taken, retained,
               proposals, receipt>>

Envelope(p, time) == [author |-> p, time |-> time, id |-> 0]

Envelopes == {Envelope(p, time) : p \in Honest, time \in Times} \cup CorruptEnvelopes

Responses == [responder : Participants, intent : CloseTimes, listed : SUBSET Envelopes]

Proposals == [intent : CloseTimes, responses : SUBSET Responses]

CloseInit ==
  /\ gen = [p \in Honest |-> setupRetained]
  /\ ballot = [p \in Honest |-> {}]
  /\ held = [p \in Honest |-> {}]
  /\ known = [p \in Honest |-> {}]
  /\ lock = [p \in Honest |-> NoTime]
  /\ response = [p \in Honest |-> {}]
  /\ taken = <<>>
  /\ retained = {}
  /\ proposals = {}
  /\ receipt = [p \in Honest |-> {}]

----
(* What is published. *)

\* A ballot is delivered once its root retains the signature.
SignedBallots == UNION {ballot[p] : p \in {h \in Honest : gen[h] >= ballotSigned}}

SignedEnvelopes == SignedBallots \cup CorruptEnvelopes

AvailableBodies == SignedEnvelopes \ Bodiless

\* An intent is delivered once the organizer's root locks it.
Intents ==
  IF Organizer \in Honest
  THEN {t \in CloseTimes : gen[Organizer] >= intentLocked /\ lock[Organizer] = t}
  ELSE CloseTimes

ResponseOf(p) == [responder |-> p, intent |-> lock[p], listed |-> response[p]]

\* A corrupt responder lists any published envelopes, at most two of a slot.
CorruptListings(intent) ==
  {listed \in SUBSET OnTime(SignedEnvelopes, intent) : AtMostTwoPerSlot(listed)}

\* The signed responses of p to an intent.
SignedResponses(p, intent) ==
  IF p \in Honest
  THEN {r \in {ResponseOf(p)} : gen[p] >= responded /\ lock[p] = intent}
  ELSE {[responder |-> p, intent |-> intent, listed |-> listed] :
          listed \in CorruptListings(intent)}

----
(* Casting a ballot. *)

\* The scores and the ballot time enter the root before any randomness.
BeginBallot(p, time) ==
  /\ p \in Voters
  /\ gen[p] = setupRetained
  /\ gen' = [gen EXCEPT ![p] = ballotLocked]
  /\ ballot' = [ballot EXCEPT ![p] = {Envelope(p, time)}]
  /\ UNCHANGED <<held, known, lock, response, taken, retained, proposals, receipt>>

\* The seed, the body and the signature of the locked attempt.
CompleteBallot(p) ==
  /\ gen[p] = ballotLocked
  /\ gen' = [gen EXCEPT ![p] = ballotSigned]
  /\ UNCHANGED <<ballot, held, known, lock, response, taken, retained, proposals, receipt>>

----
(* Collecting ballot bodies. *)

Collecting(p) == gen[p] # intentRetained /\ gen[p] < responding

\* Mutant: no limit on the bodies of a slot whose envelopes are known.
UnboundedAdmissible(p, e) ==
  /\ gen[p] >= intentLocked => e.time <= lock[p]
  /\ \/ e \in known[p]
     \/ Cardinality(Slot(known[p], e.author)) < MaximumListedEnvelopesPerSlot
  /\ e \notin held[p]

\* The close work refuses a late envelope after the lock, a new envelope for
\* a slot with two known ones, a held body and a third body for a slot.
Admissible(p, e) ==
  /\ gen[p] >= intentLocked => e.time <= lock[p]
  /\ \/ e \in known[p]
     \/ Cardinality(Slot(known[p], e.author)) < MaximumListedEnvelopesPerSlot
  /\ Cardinality(Slot(held[p], e.author)) < MaximumListedEnvelopesPerSlot
  /\ e \notin held[p]

\* A complete body is held and its envelope known from the same commit.
Hold(p, e) ==
  /\ Collecting(p)
  /\ Admissible(p, e)
  /\ held' = [held EXCEPT ![p] = @ \cup {e}]
  /\ known' = [known EXCEPT ![p] = @ \cup {e}]
  /\ UNCHANGED <<gen, ballot, lock, response, taken, retained, proposals, receipt>>

\* The own signed ballot, from the ballot suffix of the own root.
HoldOwnBallot(p) == gen[p] >= ballotSigned /\ \E e \in ballot[p] : Hold(p, e)

\* Another author's ballot, from any candidate the relay shows.
CollectBallot(p, e) ==
  /\ e \in AvailableBodies
  /\ e.author # p
  /\ Cardinality(held[p] \ ballot[p]) < MaxCollected
  /\ Hold(p, e)

----
(* The close intent. *)

\* A locked ballot attempt completes before any intent is locked, and the
\* operation that locks holds the own signed ballot first.
Unlocked(p) == gen[p] \in {setupRetained, ballotSigned} /\ ballot[p] \subseteq held[p]

\* The organizer retains the exact intent body before its signature exists.
SignIntent(t) ==
  /\ Organizer \in Honest
  /\ Unlocked(Organizer)
  /\ gen' = [gen EXCEPT ![Organizer] = intentRetained]
  /\ lock' = [lock EXCEPT ![Organizer] = t]
  /\ UNCHANGED <<ballot, held, known, response, taken, retained, proposals, receipt>>

\* Mutant: the lock discards every body but the own ballot's.
OwnOnlyLock(p, t) ==
  /\ gen' = [gen EXCEPT ![p] = intentLocked]
  /\ lock' = [lock EXCEPT ![p] = t]
  /\ held' = [held EXCEPT ![p] = OnTime(@ \cap ballot[p], t)]
  /\ known' = [known EXCEPT ![p] = OnTime(@, t)]
  /\ receipt' = [receipt EXCEPT ![p] = held[p]]
  /\ UNCHANGED <<ballot, response, taken, retained, proposals>>

\* The lock discards the held bodies and known envelopes timed after it.
Lock(p, t) ==
  /\ gen' = [gen EXCEPT ![p] = intentLocked]
  /\ lock' = [lock EXCEPT ![p] = t]
  /\ held' = [held EXCEPT ![p] = OnTime(@, t)]
  /\ known' = [known EXCEPT ![p] = OnTime(@, t)]
  /\ receipt' = [receipt EXCEPT ![p] = held[p]]
  /\ UNCHANGED <<ballot, response, taken, retained, proposals>>

\* The organizer signs the retained intent and locks it.
LockOwnIntent ==
  /\ Organizer \in Honest
  /\ gen[Organizer] = intentRetained
  /\ Lock(Organizer, lock[Organizer])

\* Any other participant locks the first authentic intent it is shown.
LockIntent(p, t) ==
  /\ p # Organizer
  /\ Unlocked(p)
  /\ t \in Intents
  /\ Lock(p, t)

----
(* Responses and the proposal. *)

ReadyResponses ==
  {r \in ToSet(taken) :
     ReadyListing(known[Organizer], held[Organizer], lock[Organizer], r.listed)}

\* Whether the organizer may sign its own response.
Ready == Cardinality(ReadyResponses) >= Q - 1

WantedBodies ==
  WantedListing(known[Organizer], held[Organizer], lock[Organizer],
                {r.listed : r \in ToSet(taken)})

\* The organizer takes the first authentic response of a responder, with the
\* listed envelopes it does not know.
TakeResponse(p) ==
  /\ Organizer \in Honest
  /\ gen[Organizer] = intentLocked
  /\ ~Ready
  /\ p # Organizer
  /\ \A r \in ToSet(taken) : r.responder # p
  /\ \E r \in SignedResponses(p, lock[Organizer]) :
       /\ taken' = Append(taken, r)
       /\ known' = [known EXCEPT ![Organizer] = @ \cup r.listed]
  /\ UNCHANGED <<gen, ballot, held, lock, response, retained, proposals, receipt>>

\* A body a taken response needs, from its author's route or from the copy a
\* responder that lists it forwarded.
DeliverWantedBody(e) ==
  /\ Organizer \in Honest
  /\ gen[Organizer] = intentLocked
  /\ ~Ready
  /\ e \in WantedBodies \cap AvailableBodies
  /\ Hold(Organizer, e)

\* The exact response body enters the root before its signature exists.  The
\* organizer responds only once it can propose.
RetainResponse(p) ==
  /\ gen[p] = intentLocked
  /\ p = Organizer => Ready
  /\ gen' = [gen EXCEPT ![p] = responding]
  /\ response' = [response EXCEPT ![p] = HonestListing(known[p], held[p], lock[p])]
  /\ UNCHANGED <<ballot, held, known, lock, taken, retained, proposals, receipt>>

\* The credential signs no response that leaves out its own on-time ballot.
ListsOwnBallot(p) == OnTime(ballot[p], lock[p]) \subseteq response[p]

ProposalSelection ==
  Selection(ResponseOf(Organizer), taken, held[Organizer], Q)

Responders(responses) == {r.responder : r \in responses}

\* A proposal names the responses of exactly q responders, the organizer among
\* them; a selection that names others is refused.
CanPropose ==
  /\ HoldsUsable(held[Organizer], {ResponseOf(Organizer)})
  /\ Cardinality(Responders(ProposalSelection)) = Q
  /\ Organizer \in Responders(ProposalSelection)

\* The signed response and, for the organizer, the exact proposal body.
SignResponse(p) ==
  /\ gen[p] = responding
  /\ ListsOwnBallot(p)
  /\ p = Organizer => CanPropose
  /\ gen' = [gen EXCEPT ![p] = responded]
  /\ retained' = IF p = Organizer
                 THEN {[intent |-> lock[p], responses |-> ProposalSelection]}
                 ELSE retained
  /\ UNCHANGED <<ballot, held, known, lock, response, taken, proposals, receipt>>

Propose ==
  /\ Organizer \in Honest
  /\ gen[Organizer] = responded
  /\ gen' = [gen EXCEPT ![Organizer] = proposed]
  /\ proposals' = proposals \cup retained
  /\ UNCHANGED <<ballot, held, known, lock, response, taken, retained, receipt>>

\* The responders a corrupt organizer may name: q of them, itself among them.
CorruptQuorums ==
  {responders \in SUBSET Participants :
     Organizer \in Corrupt \cap responders /\ Cardinality(responders) = Q}

\* A corrupt organizer signs any proposal that verify_proposal can accept:
\* signed responses of such responders to one intent.
CorruptPropose(t, responders) ==
  /\ Cardinality(proposals) < MaxProposals
  /\ \A p \in responders \cap Honest : SignedResponses(p, t) # {}
  /\ \E listing \in [responders \cap Corrupt -> CorruptListings(t)] :
       proposals' = proposals \cup
         {[intent |-> t,
           responses |-> {ResponseOf(p) : p \in responders \cap Honest} \cup
             {[responder |-> p, intent |-> t, listed |-> listing[p]] :
                p \in responders \cap Corrupt}]}
  /\ UNCHANGED <<gen, ballot, held, known, lock, response, taken, retained, receipt>>

----
CloseStep(p) ==
  \/ \E time \in Times : BeginBallot(p, time)
  \/ CompleteBallot(p)
  \/ HoldOwnBallot(p)
  \/ \E e \in AvailableBodies : CollectBallot(p, e)
  \/ \E t \in CloseTimes : LockIntent(p, t)
  \/ RetainResponse(p)
  \/ SignResponse(p)

OrganizerStep ==
  \/ \E t \in CloseTimes : SignIntent(t)
  \/ LockOwnIntent
  \/ \E p \in Participants : TakeResponse(p)
  \/ \E e \in AvailableBodies : DeliverWantedBody(e)
  \/ Propose
  \/ \E t \in CloseTimes, responders \in CorruptQuorums : CorruptPropose(t, responders)

CloseNext == OrganizerStep \/ \E p \in Honest : CloseStep(p)

CloseSpec == CloseInit /\ [][CloseNext]_closeVars

\* The bodies honest participants published, as authors or with the responses
\* that list them.
HonestCopies ==
  SignedBallots \cup
  UNION {held[p] \cap response[p] : p \in {h \in Honest : gen[h] >= responded}}

----
(* Properties. *)

Usable(pr) == UsableEntries(ListedUnion(pr.responses))

\* Every variable has its type.
CloseTypeOK ==
  /\ gen \in [Honest -> Generations]
  /\ ballot \in [Honest -> SUBSET Envelopes]
  /\ held \in [Honest -> SUBSET Envelopes]
  /\ known \in [Honest -> SUBSET Envelopes]
  /\ lock \in [Honest -> CloseTimes \cup {NoTime}]
  /\ response \in [Honest -> SUBSET Envelopes]
  /\ taken \in Seq(Responses)
  /\ retained \in SUBSET Proposals
  /\ proposals \in SUBSET Proposals
  /\ receipt \in [Honest -> SUBSET Envelopes]

\* Whatever the organizer and the relay do, no signed proposal leaves out more
\* than f of the ballots that honest participants signed on time.
OmissionBounded ==
  \A pr \in proposals :
    Cardinality(OnTime(SignedBallots, pr.intent) \ Usable(pr)) <= F

\* An honest on-time ballot whose body f + 1 honest participants, or an honest
\* organizer, held when they locked the intent is usable in every proposal.
ProtectedBallots ==
  \A pr \in proposals : \A e \in OnTime(SignedBallots, pr.intent) :
    \/ Cardinality({p \in Honest : e \in receipt[p]}) > F
    \/ Organizer \in Honest /\ e \in receipt[Organizer]
    => e \in Usable(pr)

\* A participant that retained its response can always sign it, and the
\* organizer that did can always propose: the replayed state satisfies every
\* check the module and the credential make, whose failure stops the root.
RetainedResponseSignable ==
  \A p \in Honest : gen[p] = responding =>
    ListsOwnBallot(p) /\ (p = Organizer => CanPropose)

\* An honest organizer's proposal needs only bodies it holds and publishes, so
\* a corrupt response naming a body nobody supplies cannot block the vote.
ProposalVerifiable ==
  Organizer \in Honest =>
    \A pr \in retained \cup proposals : Usable(pr) \subseteq held[Organizer]

\* What a relay can make a participant retain is bounded: two bodies of a slot
\* and two envelopes of a slot, and two more for each response taken.
CustodyBounded ==
  \A p \in Honest, author \in Participants :
    /\ Cardinality(Slot(held[p], author)) <= 2
    /\ Cardinality(Slot(known[p], author)) <=
         2 + (IF p = Organizer THEN 2 * Len(taken) ELSE 0)

\* The honest organizer's close completes once it retained its intent.
CloseCompletes ==
  Organizer \in Honest /\ gen[Organizer] >= intentRetained ~> proposals # {}

\* A participant can always do what its close work has prepared: sign the response
\* that it retains, and publish a proposal that every other participant verifies.
CloseWorkable == CloseTypeOK /\ RetainedResponseSignable /\ ProposalVerifiable

----
(* The inductive invariant behind OmissionBounded and ProtectedBallots. *)

\* An honest participant makes one ballot attempt, under its own name.
BallotsInv ==
  \A p \in Honest :
    /\ \A e \in ballot[p] : e.author = p /\ e \in Envelopes
    /\ \A d, e \in ballot[p] : d = e
    /\ gen[p] = setupRetained => ballot[p] = {}

\* Only authentic envelopes are known, and every held body's is known.
KnownInv == \A p \in Honest : held[p] \subseteq known[p] /\ known[p] \subseteq SignedEnvelopes

\* After the lock a participant knows only on-time envelopes and holds every
\* on-time body it held before, its own ballot's among them.
LockInv ==
  \A p \in Honest :
    /\ gen[p] >= intentRetained => lock[p] \in CloseTimes
    /\ gen[p] = intentRetained => ballot[p] \subseteq held[p]
    /\ gen[p] >= intentLocked =>
         /\ \A e \in known[p] : e.time <= lock[p]
         /\ OnTime(receipt[p], lock[p]) \subseteq held[p]
         /\ ballot[p] \subseteq receipt[p]

\* A response lists known envelopes, and every honest one held at the lock.
ResponseInv ==
  \A p \in Honest : gen[p] >= responding =>
    /\ response[p] \subseteq known[p]
    /\ \A e \in OnTime(receipt[p], lock[p]) : e.author \in Honest => e \in response[p]

\* A response to an intent lists authentic envelopes, and an honest
\* responder's is the one it signed.
AuthenticResponse(r, intent) ==
  /\ r \in Responses
  /\ r.intent = intent
  /\ r.listed \subseteq SignedEnvelopes
  /\ r.responder \in Honest =>
       gen[r.responder] >= responded /\ lock[r.responder] = intent /\ response[r.responder] = r.listed

TakenInv ==
  \A r \in ToSet(taken) :
    /\ Organizer \in Honest
    /\ gen[Organizer] >= intentLocked
    /\ r.responder # Organizer
    /\ AuthenticResponse(r, lock[Organizer])

\* A proposal names authentic responses of q responders, the organizer's too.
ProposalsInv ==
  \A pr \in retained \cup proposals :
    /\ \A r \in pr.responses : AuthenticResponse(r, pr.intent)
    /\ Cardinality(Responders(pr.responses)) = Q
    /\ Organizer \in Responders(pr.responses)

CloseIInv ==
  /\ CloseTypeOK
  /\ BallotsInv
  /\ KnownInv
  /\ LockInv
  /\ ResponseInv
  /\ TakenInv
  /\ ProposalsInv

----
(* The inductive invariant behind CloseWorkable. *)

\* An honest organizer that retained its response can still propose from what it
\* listed, took and holds.
OrganizerReady ==
  Organizer \in Honest /\ gen[Organizer] = responding =>
    /\ response[Organizer] =
         HonestListing(known[Organizer], held[Organizer], lock[Organizer])
    /\ Ready

TakenOnce == \A r, s \in ToSet(taken) : r.responder = s.responder => r = s

\* An honest organizer has no proposal before it responded.
NoEarlyProposal ==
  Organizer \in Honest /\ gen[Organizer] < responded => retained = {} /\ proposals = {}

WorkIInv ==
  /\ CloseIInv
  /\ OrganizerReady
  /\ TakenOnce
  /\ NoEarlyProposal
  /\ ProposalVerifiable
====
