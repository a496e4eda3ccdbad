------------------------------- MODULE Custody -------------------------------
(***************************************************************************)
(* One participant's custody: the workers that run its operations, the     *)
(* lock they take, the root they advance by strict transactions, and the   *)
(* one-time signatures and the deliveries that a root permits.             *)
(*                                                                         *)
(* Every request runs in a worker of its own that may end at any moment: a *)
(* closed page, a failed helper, a public input that is missing, a storage *)
(* request that the browser failed.  Its memory ends with it, and only the *)
(* root remains.  A transaction completes or aborts, and one that reports  *)
(* a failure may nevertheless have completed.                              *)
(*                                                                         *)
(* Each signing purpose has one Winternitz one-time key, which must never  *)
(* sign two frames.  What a frame depends on is the choice of an operation *)
(* (scores and time, a listing, a target) and, for a ballot and a release, *)
(* a fresh seed; both come from outside and differ between operations.     *)
(***************************************************************************)
EXTENDS ProtocolRules, FiniteSets

CONSTANTS
  Workers,      \* the workers of one namespace
  IsOrganizer,  \* whether this participant opened the poll
  Decisions,      \* what an operation can choose to sign
  Seeds,        \* what a seed can be
  MaxEvents     \* a bound on the events of the close log

ASSUME CustodyAssumption == IsOrganizer \in BOOLEAN /\ MaxEvents \in Nat

Purposes == {"ballot", "intent", "response", "proposal", "target", "release"}

\* The generation whose root permits the purpose's signature.
SigningGeneration ==
  [p \in Purposes |->
     CASE p = "ballot" -> ballotBody
       [] p = "intent" -> intentRetained
       [] p = "response" -> responding
       [] p = "proposal" -> responded
       [] p = "target" -> targetLocked
       [] p = "release" -> releaseBody]

CompletedClose == IF IsOrganizer THEN proposed ELSE responded

None == "none"

\* The generations a root can hold: none lies between a retained ballot or
\* release body and its signature.
RootGenerations == Generations \ {16, 28}

Roots == [generation : RootGenerations,
          choice : [Purposes -> Decisions \cup {None}],
          seed : [Purposes -> Seeds \cup {None}],
          signed : SUBSET Purposes,
          events : Nat]

VARIABLES
  root,        \* the stored root
  stopped,     \* whether the stop marker is stored
  pc,          \* where each worker is
  memory,      \* the root each worker authenticated
  next,        \* the root each worker commits
  signatures,  \* history: every frame signed
  published    \* history: every frame delivered to the relay

custodyVars == <<root, stopped, pc, memory, next, signatures, published>>

SetupRoot == [generation |-> setupRetained,
              choice |-> [p \in Purposes |-> None],
              seed |-> [p \in Purposes |-> None],
              signed |-> {},
              events |-> 0]

CustodyInit ==
  /\ root = SetupRoot
  /\ stopped = FALSE
  /\ pc = [w \in Workers |-> "idle"]
  /\ memory = [w \in Workers |-> SetupRoot]
  /\ next = [w \in Workers |-> SetupRoot]
  /\ signatures = {}
  /\ published = {}

----
(* The successors of a root. *)

\* The frame a root retains for a purpose.
Frame(r, p) == [purpose |-> p, choice |-> r.choice[p], seed |-> r.seed[p]]

Advanced(r, g) == [r EXCEPT !.generation = g]
Chosen(r, g, p) == {[r EXCEPT !.generation = g, !.choice[p] = c] : c \in Decisions}
Seeded(r, g, p) == {[r EXCEPT !.generation = g, !.seed[p] = s] : s \in Seeds}

\* Mutant: an interrupted signing draws another seed for the ballot.
RedrawnBallotSuccessors(r) ==
  CASE r.generation = setupRetained -> Chosen(r, ballotLocked, "ballot")
    [] r.generation \in {ballotLocked, ballotBody} -> Seeded(r, ballotReady, "ballot")
    [] r.generation = ballotReady -> {Advanced(r, ballotBody)}
    [] OTHER -> {}

\* A ballot attempt: its scores and time, then its seed, then its body.
BallotSuccessors(r) ==
  CASE r.generation = setupRetained -> Chosen(r, ballotLocked, "ballot")
    [] r.generation = ballotLocked -> Seeded(r, ballotReady, "ballot")
    [] r.generation = ballotReady -> {Advanced(r, ballotBody)}
    [] OTHER -> {}

\* A log event, the own intent or the lock of another's, and the response.
CloseSuccessors(r) ==
  CASE r.generation \in {setupRetained, ballotSigned} ->
         IF IsOrganizer
         THEN Chosen(r, intentRetained, "intent")
         ELSE {Advanced(r, intentLocked)}
    [] r.generation = intentLocked -> Chosen(r, responding, "response")
    [] OTHER -> {}

EventSuccessors(r) ==
  IF r.generation # intentRetained /\ r.generation < responding /\ r.events < MaxEvents
  THEN {[r EXCEPT !.events = @ + 1]}
  ELSE {}

\* The target of a vote; a release follows it or, without one, the close.
TargetSuccessors(r) ==
  IF r.generation = CompletedClose THEN Chosen(r, targetLocked, "target") ELSE {}

ReleaseSuccessors(r) ==
  CASE r.generation = CompletedClose -> Chosen(r, releaseLocked, "release")
    [] r.generation = targetSigned ->
         {s \in Chosen(r, releaseLocked, "release") : s.choice["release"] = r.choice["target"]}
    [] r.generation = releaseLocked -> Seeded(r, releaseReady, "release")
    [] r.generation = releaseReady -> {Advanced(r, releaseBody)}
    [] OTHER -> {}

Successors(r) ==
  BallotSuccessors(r) \cup CloseSuccessors(r) \cup EventSuccessors(r)
    \cup TargetSuccessors(r) \cup ReleaseSuccessors(r)

\* The purposes a root permits to sign now.
DuePurposes(r) ==
  {p \in Purposes : /\ r.generation = SigningGeneration[p]
                    /\ p \in {"intent", "proposal"} => IsOrganizer}

\* The generation whose root retains the purpose's signature.
SignedGeneration ==
  [p \in Purposes |->
     CASE p = "ballot" -> ballotSigned
       [] p = "intent" -> intentLocked
       [] p = "response" -> responded
       [] p = "proposal" -> proposed
       [] p = "target" -> targetSigned
       [] p = "release" -> releaseSigned]

\* The root that retains the signature; the organizer's signed response enters
\* it with the exact proposal body.
SignedSuccessors(r, p) ==
  LET s == [r EXCEPT !.generation = SignedGeneration[p], !.signed = @ \cup {p}]
  IN  IF p = "response" /\ IsOrganizer
      THEN Chosen(s, responded, "proposal")
      ELSE {s}

----
(* A worker's operation. *)

\* The worker ends, its memory and its lock with it.
Ended(w) ==
  /\ pc' = [pc EXCEPT ![w] = "idle"]
  /\ memory' = [memory EXCEPT ![w] = SetupRoot]
  /\ next' = [next EXCEPT ![w] = SetupRoot]

\* The participant's exclusive lock; a worker that ends releases it.
Acquire(w) ==
  /\ pc[w] = "idle"
  /\ \A v \in Workers : pc[v] = "idle"
  /\ pc' = [pc EXCEPT ![w] = "opening"]
  /\ UNCHANGED <<root, stopped, memory, next, signatures, published>>

\* Root authentication fails when a stop marker exists.
Open(w) ==
  /\ pc[w] = "opening"
  /\ IF stopped
     THEN pc' = [pc EXCEPT ![w] = "stopping"] /\ UNCHANGED memory
     ELSE pc' = [pc EXCEPT ![w] = "ready"] /\ memory' = [memory EXCEPT ![w] = root]
  /\ UNCHANGED <<root, stopped, next, signatures, published>>

\* A transition that signs nothing.
Prepare(w) ==
  /\ pc[w] = "ready"
  /\ \E s \in Successors(memory[w]) : next' = [next EXCEPT ![w] = s]
  /\ pc' = [pc EXCEPT ![w] = "committing"]
  /\ UNCHANGED <<root, stopped, memory, signatures, published>>

\* Mutant: a purpose is signed before the root retains its frame.
EarlySign(w, p) ==
  /\ pc[w] = "committing"
  /\ SigningGeneration[p] = next[w].generation
  /\ signatures' = signatures \cup {Frame(next[w], p)}
  /\ UNCHANGED <<root, stopped, pc, memory, next, published>>

\* The module signs the frame its root retains, and the packet is committed.
Sign(w, p) ==
  /\ pc[w] = "ready"
  /\ p \in DuePurposes(memory[w])
  /\ signatures' = signatures \cup {Frame(memory[w], p)}
  /\ \E s \in SignedSuccessors(memory[w], p) : next' = [next EXCEPT ![w] = s]
  /\ pc' = [pc EXCEPT ![w] = "committing"]
  /\ UNCHANGED <<root, stopped, memory, published>>

\* The exact predecessor authenticates inside the transaction that writes.
Validated(w) == root = memory[w] /\ ~stopped

\* The transaction completes, whether or not the worker is told so.
Commit(w) ==
  /\ pc[w] = "committing"
  /\ Validated(w)
  /\ root' = next[w]
  /\ \E outcome \in {"reading", "rejected"} : pc' = [pc EXCEPT ![w] = outcome]
  /\ UNCHANGED <<stopped, memory, next, signatures, published>>

\* The transaction aborts: validation failed, or the browser failed it.
Abort(w) ==
  /\ pc[w] = "committing"
  /\ pc' = [pc EXCEPT ![w] = "rejected"]
  /\ UNCHANGED <<root, stopped, memory, next, signatures, published>>

\* Rejection does not prove rollback: the participant stays pending only when
\* its exact predecessor authenticates again, and stops otherwise.
CheckRollback(w) ==
  /\ pc[w] = "rejected"
  /\ IF Validated(w)
     THEN Ended(w)
     ELSE pc' = [pc EXCEPT ![w] = "stopping"] /\ UNCHANGED <<memory, next>>
  /\ UNCHANGED <<root, stopped, signatures, published>>

\* The committed root is read back before the operation continues from it.
ReadBack(w) ==
  /\ pc[w] = "reading"
  /\ IF root = next[w]
     THEN pc' = [pc EXCEPT ![w] = "ready"] /\ memory' = [memory EXCEPT ![w] = root]
     ELSE pc' = [pc EXCEPT ![w] = "stopping"] /\ UNCHANGED memory
  /\ UNCHANGED <<root, stopped, next, signatures, published>>

\* A retained packet is delivered, its root inspected around every transfer.
Publish(w, p) ==
  /\ pc[w] = "ready"
  /\ p \in memory[w].signed
  /\ Validated(w)
  /\ published' = published \cup {Frame(memory[w], p)}
  /\ UNCHANGED <<root, stopped, pc, memory, next, signatures>>

\* A local fault stores the stop marker, if the browser lets it.
Stop(w) ==
  /\ pc[w] = "stopping"
  /\ \E written \in {TRUE, stopped} : stopped' = written
  /\ Ended(w)
  /\ UNCHANGED <<root, signatures, published>>

\* The operation completes, is left pending, or its worker is killed.
End(w) ==
  /\ pc[w] # "idle"
  /\ Ended(w)
  /\ UNCHANGED <<root, stopped, signatures, published>>

WorkerStep(w) ==
  \/ Acquire(w)
  \/ Open(w)
  \/ Prepare(w)
  \/ \E p \in Purposes : Sign(w, p)
  \/ Commit(w)
  \/ Abort(w)
  \/ CheckRollback(w)
  \/ ReadBack(w)
  \/ \E p \in Purposes : Publish(w, p)
  \/ Stop(w)
  \/ End(w)

CustodyNext == \E w \in Workers : WorkerStep(w)

CustodySpec == CustodyInit /\ [][CustodyNext]_custodyVars

----
(* Properties. *)

PCs == {"idle", "opening", "ready", "committing", "rejected", "reading", "stopping"}

\* Every variable has its type.
CustodyTypeOK ==
  /\ root \in Roots
  /\ stopped \in BOOLEAN
  /\ pc \in [Workers -> PCs]
  /\ memory \in [Workers -> Roots]
  /\ next \in [Workers -> Roots]

\* No purpose ever signs two frames, however often operations are interrupted,
\* repeated with other inputs or told a wrong outcome of their commits.
OneFramePerPurpose == \A s, t \in signatures : s.purpose = t.purpose => s = t

\* What the relay was given is what the root still retains as signed, so a
\* later operation can only deliver the same record again.
PublishedIsRetained ==
  \A f \in published : f.purpose \in root.signed /\ f = Frame(root, f.purpose)

\* Once a stop marker is stored nothing is committed, signed or delivered.
StopIsFinal ==
  [][stopped => UNCHANGED <<root, signatures, published>>]_custodyVars

\* A root is never replaced by an earlier one, and retains what it retained:
\* every permitted frame and every signature.
RootAdvances ==
  [][/\ root'.generation >= root.generation
     /\ root.signed \subseteq root'.signed
     /\ \A p \in Purposes :
          root.generation >= SigningGeneration[p] => Frame(root', p) = Frame(root, p)]_custodyVars

\* Whatever ends a worker's visit, one frame of a purpose is ever signed, and the
\* stored root retains every frame that was published.
FramesKept == CustodyTypeOK /\ OneFramePerPurpose /\ PublishedIsRetained

\* The stored root only ever moves forward, and not at all once the worker stopped.
CustodyForward == RootAdvances /\ StopIsFinal

----
(* The inductive invariant behind these properties. *)

\* What a successor keeps of a root.
Follows(r, s) ==
  /\ s.generation >= r.generation
  /\ r.signed \subseteq s.signed
  /\ \A p \in Purposes : r.generation >= SigningGeneration[p] => Frame(s, p) = Frame(r, p)
  /\ \A p \in s.signed \ r.signed : s.generation >= SigningGeneration[p]

\* At most one worker holds the lock.
ExclusiveInv == \A v, w \in Workers : pc[v] # "idle" /\ pc[w] # "idle" => v = w

\* A worker works from the stored root, and what it commits follows that root.
MemoryInv ==
  \A w \in Workers :
    /\ pc[w] \in {"ready", "committing"} => memory[w] = root /\ ~stopped
    /\ pc[w] = "committing" => Follows(memory[w], next[w])
    /\ pc[w] = "reading" => next[w] = root /\ ~stopped

\* The root retains every signature's frame, past its signing generation.
SignaturesInv ==
  /\ \A p \in root.signed : root.generation >= SigningGeneration[p]
  /\ \A f \in signatures :
       /\ f.purpose \in Purposes
       /\ root.generation >= SigningGeneration[f.purpose]
       /\ f = Frame(root, f.purpose)

CustodyIInv ==
  /\ CustodyTypeOK
  /\ ExclusiveInv
  /\ MemoryInv
  /\ SignaturesInv
  /\ PublishedIsRetained
====
