------------------------------- MODULE Setup -------------------------------
(* The agreement on one setup.  The organizer signs one selection of verified *)
(* offers, members verify and endorse one selection each, and inventory       *)
(* threshold many endorsements certify it                                     *)
(* (protocol-foundations/src/setup-selection.rs, custody.rs, preparation.rs   *)
(* and the worker's stages/setup).  A signing key may sign one message of     *)
(* each purpose ever; a visit may end between the retained intent, the        *)
(* signature and its retained result, and the next visit signs again from     *)
(* what the journal shows.  How a selection's offers are verified is in       *)
(* SetupSession.                                                              *)
EXTENDS ProtocolRules, FiniteSets

CONSTANTS
  Participants,  \* the roster's
  Corrupt,     \* those that may sign anything
  Organizer,
  Proposable,  \* selections that may be proposed
  Sound        \* those of offers that all verify

Honest == Participants \ Corrupt
N == Cardinality(Participants)
F == MaximumCorruptParticipants(N)
Q == InventoryThreshold(N)

ASSUME SetupAssumption ==
  /\ IsFiniteSet(Participants) /\ N >= 3
  /\ Corrupt \subseteq Participants /\ Cardinality(Corrupt) <= F
  /\ Organizer \in Participants
  /\ Sound \subseteq Proposable

Purposes == {"proposal", "endorsement"}

VARIABLES
  intent,      \* journal: the message retained for a purpose, as a set of at most one
  signed,      \* journal: the message retained with its signature, likewise
  retained,    \* journal: the retained setup, likewise
  locked,      \* credential: the purposes that it withholds in this visit
  done,        \* credential: the message of a purpose it signed or restored
  retired,     \* credential: whether preparation is retired
  signatures,  \* history: every signature that an honest key produced
  published    \* those that became public

journal == <<intent, signed, retained>>
credential == <<locked, done, retired>>
setupVars == <<journal, credential, signatures, published>>

Message(p, u, s) == [member |-> p, purpose |-> u, selection |-> s]

NoMessages == [p \in Honest |-> [u \in Purposes |-> {}]]

SetupInit ==
  /\ intent = NoMessages /\ signed = NoMessages /\ done = NoMessages
  /\ retained = [p \in Honest |-> {}]
  /\ locked = [p \in Honest |-> {}]
  /\ retired = [p \in Honest |-> FALSE]
  /\ signatures = {} /\ published = {}

\* A corrupt organizer signs any selection.
Authentic(s) == Organizer \in Honest => Message(Organizer, "proposal", s) \in published

Endorsers(s) == {p \in Honest : Message(p, "endorsement", s) \in published}

\* Mutant: a certificate one endorsement short.
ShortCertified(s) ==
  /\ Authentic(s)
  /\ Cardinality(Endorsers(s)) + Cardinality(Corrupt) >= Q - 1

\* Enough endorsements of an authentic selection; corrupt members endorse any.
Certified(s) ==
  /\ Authentic(s)
  /\ Cardinality(Endorsers(s)) + Cardinality(Corrupt) >= Q

----
\* Mutant: a purpose with an unsigned intent is taken for used.
IntentUnused(p) == IF retained[p] = {} THEN {u \in Purposes : intent[p][u] = {}} ELSE {}

\* The purposes that the journal shows unused: those without a signature, until
\* the setup is retained.
Unused(p) == IF retained[p] = {} THEN {u \in Purposes : signed[p][u] = {}} ELSE {}

\* A visit ends and another opens the sealed credential.
Open(p) ==
  /\ locked' = [locked EXCEPT ![p] = Purposes \ Unused(p)]
  /\ done' = [done EXCEPT ![p] = [u \in Purposes |-> {}]]
  /\ retired' = [retired EXCEPT ![p] = retained[p] # {}]
  /\ UNCHANGED <<journal, signatures, published>>

\* A retained signature is restored into the credential.
Restore(p, u) ==
  /\ signed[p][u] # {} /\ done[p][u] \subseteq signed[p][u]
  /\ done' = [done EXCEPT ![p][u] = signed[p][u]]
  /\ locked' = [locked EXCEPT ![p] = @ \cup {u}]
  /\ UNCHANGED <<journal, retired, signatures, published>>

\* Mutant: an unsigned intent is replaced by another selection.
ReplacingIntend(p, u, s) ==
  /\ retained[p] = {} /\ signed[p][u] = {}
  /\ s \in Sound
  /\ IF u = "proposal" THEN p = Organizer ELSE Authentic(s)
  /\ intent' = [intent EXCEPT ![p][u] = {s}]
  /\ UNCHANGED <<signed, retained, credential, signatures, published>>

\* The organizer proposes, and a member endorses, a selection it verified; the
\* message is retained before it is signed.
Intend(p, u, s) ==
  /\ retained[p] = {} /\ intent[p][u] = {}
  /\ s \in Sound
  /\ IF u = "proposal" THEN p = Organizer ELSE Authentic(s)
  /\ intent' = [intent EXCEPT ![p][u] = {s}]
  /\ UNCHANGED <<signed, retained, credential, signatures, published>>

\* The credential signs the retained message of a purpose that is neither
\* locked, done nor retired.
Sign(p, u) ==
  /\ retained[p] = {} /\ signed[p][u] = {}
  /\ u \notin locked[p] /\ done[p][u] = {} /\ ~retired[p]
  /\ \E s \in intent[p][u] :
       /\ done' = [done EXCEPT ![p][u] = {s}]
       /\ signatures' = signatures \cup {Message(p, u, s)}
  /\ UNCHANGED <<journal, locked, retired, published>>

Commit(p, u) ==
  /\ retained[p] = {} /\ signed[p][u] = {}
  /\ intent[p][u] # {} /\ done[p][u] = intent[p][u]
  /\ signed' = [signed EXCEPT ![p][u] = intent[p][u]]
  /\ UNCHANGED <<intent, retained, credential, signatures, published>>

Publish(p, u) ==
  /\ \E s \in signed[p][u] : published' = published \cup {Message(p, u, s)}
  /\ UNCHANGED <<journal, credential, signatures>>

\* A certified setup is retained once its inputs are verified here: those of an
\* own endorsement are.  The preparation journal is cleared.
RetainCertified(p, s) ==
  /\ retained[p] = {} /\ Certified(s)
  /\ s \in Sound
  /\ retained' = [retained EXCEPT ![p] = {s}]
  /\ intent' = [intent EXCEPT ![p] = [u \in Purposes |-> {}]]
  /\ signed' = [signed EXCEPT ![p] = [u \in Purposes |-> {}]]
  /\ UNCHANGED <<credential, signatures, published>>

\* The retirement of the contribution sources in the same visit.
Retire(p) ==
  /\ retained[p] # {} /\ ~retired[p]
  /\ retired' = [retired EXCEPT ![p] = TRUE]
  /\ locked' = [locked EXCEPT ![p] = Purposes]
  /\ UNCHANGED <<journal, done, signatures, published>>

SetupNext ==
  \E p \in Honest :
    \/ Open(p) \/ Retire(p)
    \/ \E u \in Purposes : Restore(p, u) \/ Sign(p, u) \/ Commit(p, u) \/ Publish(p, u)
    \/ \E u \in Purposes, s \in Proposable : Intend(p, u, s)
    \/ \E s \in Proposable : RetainCertified(p, s)

SetupSpec == SetupInit /\ [][SetupNext]_setupVars

\* What a member's operations retain and publish.
Progress(p) ==
  \/ \E u \in Purposes : Publish(p, u) \/ \E s \in Proposable : Intend(p, u, s)
  \/ \E s \in Proposable : RetainCertified(p, s)
SignAny(p) == \E u \in Purposes : Sign(p, u)
CommitAny(p) == \E u \in Purposes : Commit(p, u)

----
SetupTypeOK ==
  /\ intent \in [Honest -> [Purposes -> SUBSET Proposable]]
  /\ signed \in [Honest -> [Purposes -> SUBSET Proposable]]
  /\ done \in [Honest -> [Purposes -> SUBSET Proposable]]
  /\ retained \in [Honest -> SUBSET Proposable]
  /\ locked \in [Honest -> SUBSET Purposes]
  /\ retired \in [Honest -> BOOLEAN]
  /\ published \subseteq signatures
  /\ signatures \subseteq [member : Honest, purpose : Purposes, selection : Proposable]

\* A one-time key signs one message of a purpose, through visits that end between
\* the intent, the signature and its commit and that sign the intent again.
OneMessagePerPurpose ==
  \A a, b \in signatures :
    a.member = b.member /\ a.purpose = b.purpose => a.selection = b.selection

\* Whatever a corrupt organizer and f corrupt endorsers sign, one setup is
\* certified: no two members can go on with different keys.
OneSetup == \A s, t \in Proposable : Certified(s) /\ Certified(t) => s = t

\* A certified selection consists of offers that verify: an honest member checked.
CertifiedVerified == \A s \in Proposable : Certified(s) => s \in Sound

\* Participants retain the certified setup, and only that one.
RetainedAgree == \A p, q \in Honest : \A s \in retained[p], t \in retained[q] : s = t

\* Each honest member is bound to one proposal and one endorsement through all its
\* visits, verified before it signs, and the members retain one setup.
MembersBound == SetupTypeOK /\ OneMessagePerPurpose /\ CertifiedVerified /\ RetainedAgree

AllRetained == \A p \in Honest : retained[p] # {}

----
(* What makes them inductive.                                             *)

\* The journal retains one message of a purpose, verified and, to endorse, of
\* the organizer.
IntentsSingle ==
  \A p \in Honest, u \in Purposes :
    /\ \A s, t \in intent[p][u] : s = t
    /\ intent[p][u] \subseteq Sound

\* Until the setup is retained, what a key signed is what the journal retains;
\* and everything it signed was verified.
SignaturesIntended ==
  \A m \in signatures :
    /\ m.selection \in Sound
    /\ retained[m.member] = {} => m.selection \in intent[m.member][m.purpose]

\* What the credential or the journal shows as signed is signed.
SignedProduced ==
  \A p \in Honest, u \in Purposes :
    \A s \in done[p][u] \cup signed[p][u] : Message(p, u, s) \in signatures

RetainedCertified == \A p \in Honest : \A s \in retained[p] : Certified(s)

SetupIInv ==
  /\ SetupTypeOK
  /\ IntentsSingle /\ SignaturesIntended /\ SignedProduced
  /\ OneMessagePerPurpose /\ RetainedCertified
====
