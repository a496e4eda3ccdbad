---------------------------- MODULE Enrollment ----------------------------
(* How a participant's credential comes into being and comes back           *)
(* (participant-module lib.rs, enrollment-input.rs, own-registration.rs and *)
(* their abi; protocol-foundations lib.rs, source-seeds.rs and custody.rs). *)
(* The worker commits an intent, the module creates the credential, its     *)
(* source seeds and its recipient key in one call and stages what has to be *)
(* retained, and the worker commits it all at once.  On a later visit a new *)
(* module instance verifies the retained registration in public and opens   *)
(* the capsules under it.  The store's records are read with any of them    *)
(* replaced by another enrollment's, and an instance is lost at any point.  *)
EXTENDS Naturals, FiniteSets

CONSTANTS
  Own,          \* this enrollment
  Foreign,      \* other enrollments, whose records the store may hold instead
  SigningPurposes, \* the credential's signing purposes
  Preparation,  \* the ones that preparation alone uses
  KeyChunks,    \* the chunks of a recipient public key
  Families,     \* the source families of the poll
  MaxFaults,    \* bound: records read wrong, refused calls and lost instances
  Absent

Ids == {Own} \cup Foreign

\* What an instance holds: whose keys and sources, and what it may sign.
Enrollments ==
  [signing : Ids, recipient : Ids, sources : Ids \cup {Absent}, locked : SUBSET SigningPurposes,
   retired : BOOLEAN, signed : SUBSET SigningPurposes]

ASSUME EnrollmentAssumption ==
  /\ Own \notin Foreign /\ Absent \notin Ids \cup Enrollments
  /\ Preparation \subseteq SigningPurposes
  /\ KeyChunks \in Nat \ {0} /\ Families \in Nat \ {0}

\* What an enrollment stages, the joiner's or the organizer's poll included.
Kinds ==
  {"ciphertexts", "key", "header", "signature", "recipient", "signing", "source",
   "poll", "data keys"}

VARIABLES
  enrollmentRoot,  \* "empty", "intent", "registered" or "prepared"
  retainedRecords, \* the store's records of each kind, with the body of each capsule
  used,     \* the purposes whose signatures the root retains
  creating, \* this visit committed the intent
  creation, \* a creation under way in the module: the credential's progress
  staged,   \* what the module staged, with the body each capsule is sealed for
  session,  \* the module's session
  own,      \* the module's verification of the own registration
  created,  \* how many credentials were ever created
  faults

enrollmentModule == <<creation, staged, session, own>>
enrollmentStore == <<enrollmentRoot, retainedRecords, used>>
enrollmentVars == <<enrollmentStore, creating, enrollmentModule, created, faults>>

NoSession == [started |-> FALSE, restored |-> FALSE, enrollment |-> Absent]
NoVerifier == [begun |-> FALSE, pending |-> Absent, verified |-> Absent]
NothingStaged == [k \in {} |-> Absent]

EnrollmentInit ==
  /\ enrollmentRoot = "empty" /\ retainedRecords = [k \in {} |-> Absent] /\ used = {} /\ creating = FALSE
  /\ creation = Absent /\ staged = NothingStaged
  /\ session = NoSession /\ own = NoVerifier
  /\ created = 0 /\ faults = 0

Fault == faults < MaxFaults /\ faults' = faults + 1

\* The instance is lost with what it staged; the store stays.
Reload ==
  /\ \/ session.started \/ own.begun \/ creating
  /\ Fault
  /\ creating' = FALSE /\ creation' = Absent /\ staged' = NothingStaged
  /\ session' = NoSession /\ own' = NoVerifier
  /\ UNCHANGED <<enrollmentStore, created>>

----
(* Creation *)

\* The intent commits to an empty namespace before any private generation.
CommitIntent ==
  /\ enrollmentRoot = "empty" /\ ~session.started
  /\ enrollmentRoot' = "intent" /\ creating' = TRUE
  /\ UNCHANGED <<retainedRecords, used, enrollmentModule, created, faults>>

\* An input that does not parse leaves the session as it was.
RefusedPrepare ==
  /\ creating /\ ~session.started /\ Fault
  /\ UNCHANGED <<enrollmentStore, creating, enrollmentModule, created>>

\* The fresh credential of an organizer, which signs its poll, or of a joiner,
\* to whom the signed poll came with the input.
Prepare ==
  /\ creating /\ ~session.started
  /\ session' = [session EXCEPT !.started = TRUE]
  /\ creation' = [signed |-> FALSE, completed |-> Absent, sourcesConsumed |-> FALSE, sources |-> FALSE,
                  sealedSources |-> FALSE, key |-> FALSE]
  /\ created' = created + 1
  /\ staged' = NothingStaged
  /\ UNCHANGED <<enrollmentStore, creating, own, faults>>

Stage(ks, body) == [k \in DOMAIN staged \cup ks |-> IF k \in ks THEN body ELSE staged[k]]

\* The seeds are drawn once, and the ciphertexts staged as they are formed.
CreateSources ==
  /\ creation # Absent /\ ~creation.sourcesConsumed /\ creation.completed = Absent
  /\ creation' = [creation EXCEPT !.sourcesConsumed = TRUE, !.sources = TRUE]
  /\ staged' = Stage({"ciphertexts"}, Absent)
  /\ UNCHANGED <<enrollmentStore, creating, session, own, created, faults>>

\* The recipient key follows; the header then names the poll, both public keys
\* and the source bindings.
CreateRecipientKey ==
  /\ creation # Absent /\ creation.sources /\ ~creation.key
  /\ creation' = [creation EXCEPT !.key = TRUE]
  /\ staged' = Stage({"key"}, Absent)
  /\ UNCHANGED <<enrollmentStore, creating, session, own, created, faults>>

\* The one registration signature, after which no poll can be signed.
SignRegistration ==
  /\ creation # Absent /\ creation.key /\ ~creation.signed
  /\ creation' = [creation EXCEPT !.signed = TRUE, !.completed = Own]
  /\ UNCHANGED <<enrollmentStore, creating, staged, session, own, created, faults>>

\* Mutant: the seeds are sealed before their registration is signed.
SealEarly ==
  /\ creation # Absent /\ creation.key /\ ~creation.sealedSources
  /\ creation' = [creation EXCEPT !.sealedSources = TRUE]
  /\ staged' = Stage({"source"}, creation.completed)
  /\ UNCHANGED <<enrollmentStore, creating, session, own, created, faults>>

\* The seeds are sealed once, for the completed body that names them.
SealSources ==
  /\ creation # Absent /\ creation.completed = Own /\ ~creation.sealedSources
  /\ creation' = [creation EXCEPT !.sealedSources = TRUE]
  /\ staged' = Stage({"source"}, creation.completed)
  /\ UNCHANGED <<enrollmentStore, creating, session, own, created, faults>>

\* The recipient key and the credential are sealed for the completed body, and
\* the records staged, the capsule keys last.
FinishPrepare ==
  /\ creation # Absent /\ creation.sealedSources /\ creation.completed # Absent
  /\ staged' = Stage(Kinds \ {"ciphertexts", "key", "source"}, creation.completed)
  /\ session' = [session EXCEPT !.enrollment =
       [signing |-> Own, recipient |-> Own, sources |-> Own, locked |-> {}, retired |-> FALSE,
        signed |-> {}]]
  /\ creation' = Absent
  /\ UNCHANGED <<enrollmentStore, creating, own, created, faults>>

\* A refusal on the way drops the credential; the session stays started.
FailPrepare ==
  /\ creation # Absent
  /\ Fault
  /\ creation' = Absent
  /\ UNCHANGED <<enrollmentStore, creating, staged, session, own, created>>

\* The completed root and every record commit together.
CommitRegistered ==
  /\ creating /\ enrollmentRoot = "intent"
  /\ session.enrollment # Absent /\ DOMAIN staged = Kinds
  /\ enrollmentRoot' = "registered" /\ retainedRecords' = staged
  /\ UNCHANGED <<used, creating, enrollmentModule, created, faults>>

----
(* The own registration *)

\* A wrong call costs the host a fault.
Costs(right) == IF right THEN UNCHANGED faults ELSE Fault

\* The poll and the header of one of the registrations, whose signature is
\* checked last; only a refused begin leaves another begin open.
BeginOwn(id, authentic) ==
  /\ ~own.begun
  /\ Costs(authentic /\ id = Own)
  /\ own' = [own EXCEPT !.begun = TRUE,
                        !.pending = [of |-> id, authentic |-> authentic, key |-> 0, sound |-> TRUE,
                                     keyed |-> FALSE, sources |-> 0, failed |-> FALSE]]
  /\ UNCHANGED <<enrollmentStore, creating, creation, staged, session, created>>

Verifying == own.pending # Absent /\ own.verified = Absent

Verifier(v) ==
  /\ own' = [own EXCEPT !.pending = v]
  /\ UNCHANGED <<enrollmentStore, creating, creation, staged, session, created>>

\* A chunk of the recipient key.
PushKey(sound) ==
  /\ Verifying
  /\ LET v == own.pending
         fits == ~v.failed /\ ~v.keyed /\ v.key < KeyChunks
     IN  /\ Costs(sound /\ fits)
         /\ Verifier(IF fits THEN [v EXCEPT !.key = @ + 1, !.sound = @ /\ sound]
                     ELSE [v EXCEPT !.failed = TRUE])

FinishKey ==
  /\ Verifying
  /\ LET v == own.pending
         right == ~v.failed /\ ~v.keyed /\ v.key = KeyChunks /\ v.sound
     IN  /\ Costs(right)
         /\ Verifier(IF right THEN [v EXCEPT !.keyed = TRUE] ELSE [v EXCEPT !.failed = TRUE])

\* One family's ciphertexts, checked against the header's binding as they end.
PushSources(sound) ==
  /\ Verifying
  /\ LET v == own.pending
         right == ~v.failed /\ v.keyed /\ v.sources < Families /\ sound
     IN  /\ Costs(right)
         /\ Verifier(IF right THEN [v EXCEPT !.sources = @ + 1] ELSE [v EXCEPT !.failed = TRUE])

Verified(v) == ~v.failed /\ v.keyed /\ v.sources = Families /\ v.authentic

\* Finishing takes the verifier whether or not it accepts.
FinishOwn ==
  /\ Verifying
  /\ Costs(Verified(own.pending))
  /\ own' = [own EXCEPT !.pending = Absent,
                        !.verified = IF Verified(own.pending) THEN own.pending.of ELSE Absent]
  /\ UNCHANGED <<enrollmentStore, creating, creation, staged, session, created>>

----
(* Restoring *)

RestoreRecords == {"header", "body", "public", "recipient", "signing", "last"}

\* The purposes that the root shows unused; preparation's only until it ends.
unusedSigningPurposes ==
  SigningPurposes \ (used \cup IF enrollmentRoot = "prepared" THEN Preparation ELSE {})

\* What a restore reads: whose each record is, or Absent for one that opens under
\* no key at hand.  The last one is the source capsule or the tagged setup.
Inputs == [RestoreRecords -> Ids \cup {Absent}]

Right == [r \in RestoreRecords |-> Own]

\* A capsule opens for the body that it was sealed for; a foreign one is sound.
Opens(kind, id, body) ==
  id = body /\ (id = Own => kind \in DOMAIN retainedRecords /\ retainedRecords[kind] = Own)

\* The retained credential, opened for the registration that was verified.
Reopens(in) ==
  /\ own.verified # Absent
  /\ in["header"] = own.verified /\ in["body"] = own.verified /\ in["public"] = own.verified
  /\ Opens("signing", in["signing"], in["body"])
  /\ Opens("recipient", in["recipient"], in["body"])
  /\ IF enrollmentRoot = "prepared" THEN in["last"] = in["signing"]
     ELSE Opens("source", in["last"], own.verified)

\* The prepared path opens no sources and retires preparation before the
\* purposes that the root shows unused are unlocked.
Reopened(in, mask) ==
  [signing |-> in["signing"], recipient |-> in["recipient"],
   sources |-> IF enrollmentRoot = "prepared" THEN Absent ELSE in["last"],
   locked |-> SigningPurposes \ mask, retired |-> enrollmentRoot = "prepared", signed |-> {}]

\* An instance that created the credential keeps its own, consumed authority.
Taken(in, mask) ==
  IF session.enrollment # Absent THEN session.enrollment ELSE Reopened(in, mask)

\* Without an enrollment of its own the instance takes the reopened one.
Agrees(in, mask) ==
  LET e == session.enrollment IN
    e # Absent =>
      /\ mask = {}
      /\ e.signing = in["signing"] /\ e.recipient = in["recipient"]
      /\ (e.sources = Absent) = (enrollmentRoot = "prepared")

\* One restore per instance, refused where a creation failed; a refused one
\* consumes the attempt.  The worker names no purpose when it created the
\* credential on this visit.
RestoreEnrollment(in) ==
  /\ enrollmentRoot \in {"registered", "prepared"}
  /\ ~session.restored /\ (session.started => session.enrollment # Absent) /\ creation = Absent
  /\ LET mask == IF creating THEN {} ELSE unusedSigningPurposes
         accepted == Reopens(in) /\ Agrees(in, mask)
     IN  /\ Costs(accepted /\ in = Right)
         /\ session' = [started |-> TRUE, restored |-> TRUE,
                        enrollment |-> IF accepted THEN Taken(in, mask) ELSE session.enrollment]
  /\ UNCHANGED <<enrollmentStore, creating, creation, staged, own, created>>

----
(* The authority in use *)

CanSign(p) ==
  LET e == session.enrollment IN
    e # Absent /\ p \notin e.locked \cup e.signed /\ (p \in Preparation => ~e.retired)

\* The worker signs with the restored enrollment, and retains the signature.
SignPurpose(p) ==
  /\ session.restored /\ CanSign(p)
  /\ session.enrollment.signing = Own
  /\ session' = [session EXCEPT !.enrollment.signed = @ \cup {p}]
  /\ used' = used \cup {p}
  /\ UNCHANGED <<enrollmentRoot, retainedRecords, creating, creation, staged, own, created, faults>>

\* The root retains the verified setup, and the source capsule and its key are
\* deleted.
CommitPrepared ==
  /\ enrollmentRoot = "registered" /\ session.restored /\ session.enrollment # Absent
  /\ session.enrollment.signing = Own /\ own.verified = Own
  /\ enrollmentRoot' = "prepared" /\ retainedRecords' = [k \in DOMAIN retainedRecords \ {"source"} |-> retainedRecords[k]]
  /\ UNCHANGED <<used, creating, enrollmentModule, created, faults>>

retire_sources(e) == [e EXCEPT !.sources = Absent, !.retired = TRUE, !.locked = @ \cup Preparation]

\* The module follows, once, for the setup of its own registration.
RetireContributionSources ==
  /\ enrollmentRoot = "prepared"
  /\ session.enrollment # Absent /\ session.enrollment.sources # Absent
  /\ own.verified = session.enrollment.signing
  /\ session' = [session EXCEPT !.enrollment = retire_sources(@)]
  /\ UNCHANGED <<enrollmentStore, creating, creation, staged, own, created, faults>>

----
HoldsOriginal == session.enrollment # Absent /\ session.enrollment.signing = Own

\* A visit that cannot go on ends, and the next one starts over.
Stuck ==
  \/ own.begun /\ own.pending = Absent /\ own.verified # Own
  \/ Verifying /\ (own.pending.failed \/ ~own.pending.sound \/ own.pending.of # Own \/ ~own.pending.authentic)
  \/ session.restored /\ ~HoldsOriginal
  \/ session.started /\ ~session.restored /\ session.enrollment = Absent /\ creation = Absent

Retry ==
  /\ Stuck /\ enrollmentRoot \in {"registered", "prepared"}
  /\ creating' = FALSE /\ creation' = Absent /\ staged' = NothingStaged
  /\ session' = NoSession /\ own' = NoVerifier
  /\ UNCHANGED <<enrollmentStore, created, faults>>

Create ==
  CreateSources \/ CreateRecipientKey \/ SignRegistration \/ SealSources \/ FinishPrepare

Verify ==
  \/ \E id \in Ids, authentic \in BOOLEAN : BeginOwn(id, authentic)
  \/ \E sound \in BOOLEAN : PushKey(sound) \/ PushSources(sound)
  \/ FinishKey \/ FinishOwn

EnrollmentNext ==
  \/ Reload \/ Retry \/ CommitIntent \/ RefusedPrepare \/ Prepare \/ FailPrepare \/ Create
  \/ CommitRegistered \/ CommitPrepared \/ RetireContributionSources
  \/ Verify
  \/ \E in \in Inputs : RestoreEnrollment(in)
  \/ \E p \in SigningPurposes : SignPurpose(p)

EnrollmentSpec == EnrollmentInit /\ [][EnrollmentNext]_enrollmentVars

\* The steps of a visit whose calls follow one another and whose records are read
\* as they were stored, which the fairness of a run is stated with.
OwnBegun == BeginOwn(Own, TRUE)
KeyPushed == PushKey(TRUE) /\ UNCHANGED faults
KeyFinished == FinishKey /\ UNCHANGED faults
SourcesPushed == PushSources(TRUE) /\ UNCHANGED faults
OwnFinished == FinishOwn /\ UNCHANGED faults
OwnRestored == own.verified = Own /\ RestoreEnrollment(Right)

----
Creations ==
  [signed : BOOLEAN, completed : {Absent, Own}, sourcesConsumed : BOOLEAN, sources : BOOLEAN,
   sealedSources : BOOLEAN, key : BOOLEAN]
Verifiers ==
  [of : Ids, authentic : BOOLEAN, key : Nat, sound : BOOLEAN, keyed : BOOLEAN, sources : Nat,
   failed : BOOLEAN]

EnrollmentTypeOK ==
  /\ enrollmentRoot \in {"empty", "intent", "registered", "prepared"}
  /\ \E kinds \in SUBSET Kinds : retainedRecords \in [kinds -> {Absent, Own}]
  /\ \E kinds \in SUBSET Kinds : staged \in [kinds -> {Absent, Own}]
  /\ used \subseteq SigningPurposes /\ creating \in BOOLEAN
  /\ creation \in Creations \cup {Absent}
  /\ session \in [started : BOOLEAN, restored : BOOLEAN, enrollment : Enrollments \cup {Absent}]
  /\ own \in [begun : BOOLEAN, pending : Verifiers \cup {Absent}, verified : Ids \cup {Absent}]
  /\ created \in Nat /\ faults \in Nat

\* A restored enrollment is of one piece: its signing key, its recipient key
\* and its sources are those of the registration that this instance verified,
\* with whichever records of other enrollments the store was read.
RestoredWhole ==
  LET e == session.enrollment IN
    session.restored /\ e # Absent /\ own.verified # Absent =>
      /\ e.signing = e.recipient /\ e.sources \in {e.signing, Absent}
      /\ ~creating => e.signing = own.verified

\* What the worker committed, a later visit restores: the capsules are sealed
\* for the registration that was signed, whatever failed before.
CommittedRestores ==
  enrollmentRoot = "registered" =>
    \A k \in {"recipient", "signing", "source"} : k \in DOMAIN retainedRecords /\ retainedRecords[k] = Own

\* A namespace's credential and sources are drawn once: a visit that ends
\* between the intent and the completed root leaves nothing that can be drawn
\* again.
NeverRerolled == created <= 1

\* A purpose that the root shows used is signed by no instance again, whether
\* it was reopened or created the credential itself.
UsedStaysUsed ==
  HoldsOriginal => \A p \in used : ~CanSign(p)

\* The instance that saw the setup retained, and every later one, holds no
\* source and signs nothing of preparation.
RetirementHolds ==
  LET e == session.enrollment IN
    enrollmentRoot = "prepared" /\ e # Absent /\ e.sources = Absent => \A p \in Preparation : ~CanSign(p)

\* An enrollment is drawn once and restored whole, wherever a visit ends, and
\* what was used or retired stays so.
EnrollmentWhole ==
  RestoredWhole /\ CommittedRestores /\ NeverRerolled /\ UsedStaysUsed /\ RetirementHolds

----
(* The inductive invariant *)

\* One credential is drawn, on the visit that committed the intent.
DrawnInv ==
  /\ created <= 1
  /\ enrollmentRoot = "empty" => created = 0
  /\ creating => enrollmentRoot # "empty"
  /\ creating /\ ~session.started => created = 0

\* A sealed capsule is sealed for the registration that was signed.
SealedInv ==
  /\ \A k \in {"recipient", "signing", "source"} :
       k \in DOMAIN staged => staged[k] = Own
  /\ CommittedRestores

\* The enrollment an instance holds is of one piece, is the verified one unless it
\* was created on this visit, signs nothing twice and has no sources left behind.
HeldInv ==
  LET e == session.enrollment IN
    e # Absent =>
      /\ e.signing = e.recipient /\ e.sources \in {e.signing, Absent}
      /\ ~creating => own.verified # Absent /\ e.signing = own.verified
      /\ e.signing = Own => used \subseteq e.locked \cup e.signed
      /\ e.sources = Absent => e.retired

\* Before the completed root nothing is restored and no signature retained; an
\* instance that is not started holds nothing, and one that creates a credential
\* holds none yet.
InstanceInv ==
  /\ used # {} \/ session.restored => enrollmentRoot \in {"registered", "prepared"}
  /\ ~session.started => session.enrollment = Absent /\ creation = Absent
  /\ creation # Absent => session.enrollment = Absent /\ creating
  /\ creating /\ session.enrollment = Absent => enrollmentRoot = "intent"

EnrollmentIInv == EnrollmentTypeOK /\ DrawnInv /\ SealedInv /\ HeldInv /\ InstanceInv

\* A root that every visit should come to hold the original credential of, and
\* an instance that does.
MustReopen == enrollmentRoot \in {"registered", "prepared"}
HoldsRestored == session.restored /\ HoldsOriginal
====
