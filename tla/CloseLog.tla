------------------------------ MODULE CloseLog ------------------------------
(***************************************************************************)
(* One participant's close log: every input that its close work accepts is *)
(* first taken into the memory of the worker that runs the operation and   *)
(* then committed as an event of the root.  Each operation rebuilds that   *)
(* memory by replaying the log, and an interrupted signing must recompute  *)
(* from it the exact body that the root retains; anything else stops the   *)
(* participant.                                                            *)
(*                                                                         *)
(* Module memory is the close work of the WebAssembly module.  The session *)
(* beside it keeps its own set of known envelopes, which decides what is   *)
(* delivered with a response.                                              *)
(***************************************************************************)
EXTENDS ProtocolRules

CONSTANTS
  Participants,  \* the roster
  Corrupt,       \* the participants that may sign several ballots
  Self,          \* this participant
  OwnBallots,    \* the ballots it may sign
  Submissions,   \* the ballots of the others, with their bodies
  CloseTimes,    \* the close times an intent can name
  Packets        \* the signed responses of the others

N == Cardinality(Participants)
Q == InventoryThreshold(N)

LogAssumption ==
  /\ Self \in Participants \ Corrupt
  /\ Cardinality(Corrupt) <= MaximumCorruptParticipants(N)
  /\ \A e \in OwnBallots : e.author = Self
  /\ \A e \in Submissions \cup ListedUnion(Packets) : e.author # Self
  /\ \A d, e \in Submissions \cup ListedUnion(Packets) :
       d.author = e.author /\ d # e => e.author \in Corrupt
  /\ \A r \in Packets : r.responder # Self /\ AtMostTwoPerSlot(r.listed)

NoTime == -1

\* The part of the root that close work reads and commits.
EmptyRoot == [generation |-> setupRetained, ballot |-> {}, log |-> <<>>,
              intent |-> NoTime, response |-> {}, proposal |-> {}]

\* The module's close work as an operation begins it.
NewWork == [intent |-> NoTime, held |-> {}, known |-> {}, responses |-> <<>>]

VARIABLES
  isOrganizer,  \* whether this participant opened the poll
  root,         \* the stored close state
  pc,           \* where the operation is
  work,         \* the module's close work
  seen,         \* the envelopes that the session takes for known
  next          \* the close state being committed

logVars == <<isOrganizer, root, pc, work, seen, next>>

LogInit ==
  /\ isOrganizer \in BOOLEAN
  /\ root = EmptyRoot
  /\ pc = "idle"
  /\ work = NewWork
  /\ seen = {}
  /\ next = EmptyRoot

----
(* The commands of the close work: each gives the new work, as a set that  *)
(* is empty when the command is refused.                                   *)

Admits(w, e) ==
  /\ w.intent # NoTime => e.time <= w.intent
  /\ \/ e \in w.known
     \/ Cardinality(Slot(w.known, e.author)) < MaximumListedEnvelopesPerSlot
  /\ Cardinality(Slot(w.held, e.author)) < MaximumListedEnvelopesPerSlot
  /\ e \notin w.held

HoldBody(w, e) ==
  IF Admits(w, e)
  THEN {[w EXCEPT !.held = @ \cup {e}, !.known = @ \cup {e}]}
  ELSE {}

LockWork(w, t) ==
  IF w.intent = NoTime
  THEN {[w EXCEPT !.intent = t, !.held = OnTime(@, t), !.known = OnTime(@, t)]}
  ELSE {}

\* A response is taken with the envelopes it lists that are not known, and
\* only the first one of a responder.
AdmitResponse(w, r, supplied) ==
  IF /\ isOrganizer
     /\ w.intent # NoTime
     /\ \A s \in ToSet(w.responses) : s.responder # r.responder
     /\ supplied \subseteq r.listed \ w.known
     /\ r.listed \subseteq OnTime(w.known \cup supplied, w.intent)
  THEN {[w EXCEPT !.known = @ \cup supplied, !.responses = Append(@, r)]}
  ELSE {}

OwnResponse(listed) == [responder |-> Self, listed |-> listed]

ReadyOthers(w) ==
  {r \in ToSet(w.responses) :
     r.responder # Self /\ ReadyListing(w.known, w.held, w.intent, r.listed)}

\* The listings the work can prepare: one, or none while the organizer waits.
PrepareResponse(w) ==
  IF w.intent # NoTime /\ (isOrganizer => Cardinality(ReadyOthers(w)) >= Q - 1)
  THEN {HonestListing(w.known, w.held, w.intent)}
  ELSE {}

\* The proposals the work can prepare, with the own response admitted.
PrepareProposal(w, own) ==
  LET others == SelectSeq(w.responses, LAMBDA r : r # own)
      selection == Selection(own, others, w.held, Q)
  IN  IF /\ own \in ToSet(w.responses)
         /\ HoldsUsable(w.held, {own})
         /\ Cardinality(selection) = Q
      THEN {selection}
      ELSE {}

----
(* The log. *)

Own == [kind |-> "own"]
Held(e) == [kind |-> "held", envelope |-> e]
LockEvent == [kind |-> "lock"]
Response(r, supplied) == [kind |-> "response", response |-> r, supplied |-> supplied]

\* The submission an own or held event retains, as a set of at most one.
SubmissionOf(r, event) ==
  CASE event.kind = "own" -> r.ballot
    [] event.kind = "held" -> {event.envelope}
    [] OTHER -> {}

\* The envelopes the session learns from an event.
LearnedFrom(r, event) ==
  IF event.kind = "response" THEN event.supplied ELSE SubmissionOf(r, event)

Learned(r) == UNION {LearnedFrom(r, event) : event \in ToSet(r.log)}

ReplayEvent(r, w, event) ==
  CASE event.kind \in {"own", "held"} ->
         UNION {HoldBody(w, e) : e \in SubmissionOf(r, event)}
    [] event.kind = "lock" -> LockWork(w, r.intent)
    [] event.kind = "response" -> AdmitResponse(w, event.response, event.supplied)

\* The work that a log rebuilds, as a set that is empty when an event that
\* was accepted on arrival is refused.
Replay(r) ==
  FoldLeft(LAMBDA works, event : UNION {ReplayEvent(r, w, event) : w \in works},
           {NewWork}, r.log)

\* The events of submissions timed after the close time.
Retired(r, t) ==
  {event \in ToSet(r.log) : \E e \in SubmissionOf(r, event) : e.time > t}

LockedLog(r, t) ==
  Append(SelectSeq(r.log, LAMBDA event : event \notin Retired(r, t)), LockEvent)

----
(* An operation. *)

Collecting == root.generation # intentRetained /\ root.generation < responding

CloseComplete == root.generation = IF isOrganizer THEN proposed ELSE responded

OwnIsHeld == root.ballot = {} \/ Own \in ToSet(root.log)

\* The ballot of this participant, by an operation of its own.
CastBallot ==
  /\ pc = "idle"
  /\ root.generation = setupRetained
  /\ \E e \in OwnBallots :
       root' = [root EXCEPT !.generation = ballotSigned, !.ballot = {e}]
  /\ UNCHANGED <<isOrganizer, pc, work, seen, next>>

Stopped ==
  /\ pc' = "stopped"
  /\ UNCHANGED <<isOrganizer, root, work, seen, next>>

\* The new work and the close state that the operation commits.
Committing(w, r) ==
  /\ work' = w
  /\ next' = r
  /\ pc' = "committing"
  /\ UNCHANGED <<isOrganizer, root, seen>>

\* An operation begins with the work its log rebuilds.
Start ==
  /\ pc = "idle"
  /\ ~CloseComplete
  /\ IF Replay(root) = {}
     THEN Stopped
     ELSE /\ pc' = "ready"
          /\ work' \in Replay(root)
          /\ seen' = Learned(root)
          /\ UNCHANGED <<isOrganizer, root, next>>

\* Mutant: the session keeps the envelopes that the lock retired.
KeepingCommit ==
  /\ pc = "committing"
  /\ root' = next
  /\ pc' = "ready"
  /\ seen' = seen \cup Learned(next)
  /\ UNCHANGED <<isOrganizer, work, next>>

\* The commit completes, and the session learns and forgets its envelopes.
Commit ==
  /\ pc = "committing"
  /\ root' = next
  /\ pc' = "ready"
  /\ seen' = (seen \ (Learned(root) \ Learned(next))) \cup Learned(next)
  /\ UNCHANGED <<isOrganizer, work, next>>

\* The operation ends: complete, pending, or killed around its commit.
End ==
  /\ pc \in {"ready", "committing"}
  /\ root' \in (IF pc = "committing" THEN {root, next} ELSE {root})
  /\ pc' = "idle"
  /\ work' = NewWork
  /\ seen' = {}
  /\ next' = EmptyRoot
  /\ UNCHANGED isOrganizer

HoldOwnBallot ==
  /\ pc = "ready"
  /\ Collecting
  /\ ~OwnIsHeld
  /\ \E e \in root.ballot : \E w \in HoldBody(work, e) :
       Committing(w, [root EXCEPT !.log = Append(@, Own)])

CollectBallot(e) ==
  /\ pc = "ready"
  /\ Collecting
  /\ \E w \in HoldBody(work, e) :
       Committing(w, [root EXCEPT !.log = Append(@, Held(e))])

Unlocked == root.generation \in {setupRetained, ballotSigned} /\ OwnIsHeld

SignIntent(t) ==
  /\ pc = "ready"
  /\ isOrganizer
  /\ Unlocked
  /\ Committing(work, [root EXCEPT !.generation = intentRetained, !.intent = t])

\* The organizer locks its retained intent, any other participant the first
\* authentic one.  The lock's commit retires the late events.
LockIntent(t) ==
  /\ pc = "ready"
  /\ IF isOrganizer
     THEN root.generation = intentRetained /\ t = root.intent
     ELSE Unlocked
  /\ \E w \in LockWork(work, t) :
       Committing(w, [root EXCEPT !.generation = intentLocked,
                                  !.intent = t,
                                  !.log = LockedLog(root, t)])

\* A published response with the listed envelopes that the session lacks.
TakeResponse(r) ==
  /\ pc = "ready"
  /\ isOrganizer
  /\ root.generation = intentLocked
  /\ PrepareResponse(work) = {}
  /\ \E w \in AdmitResponse(work, r, r.listed \ seen) :
       Committing(w, [root EXCEPT !.log = Append(@, Response(r, r.listed \ seen))])

RetainResponse ==
  /\ pc = "ready"
  /\ root.generation = intentLocked
  /\ \E listed \in PrepareResponse(work) :
       Committing(work, [root EXCEPT !.generation = responding, !.response = listed])

\* The retained response must be prepared again, whether the operation just
\* retained it or replayed it; the organizer then takes its own response and
\* prepares its proposal.
SignResponse ==
  /\ pc = "ready"
  /\ root.generation = responding
  /\ LET own == OwnResponse(root.response)
         admitted == AdmitResponse(work, own, {})
         selections == UNION {PrepareProposal(w, own) : w \in admitted}
     IN  IF \/ PrepareResponse(work) # {root.response}
            \/ isOrganizer /\ selections = {}
         THEN Stopped
         ELSE IF isOrganizer
         THEN \E w \in admitted, selection \in selections :
                Committing(w, [root EXCEPT !.generation = responded, !.proposal = selection])
         ELSE Committing(work, [root EXCEPT !.generation = responded])

\* The operation that signed the response signs the proposal it prepared; a
\* later one takes its own response again and must prepare the same.
Propose ==
  /\ pc = "ready"
  /\ isOrganizer
  /\ root.generation = responded
  /\ LET own == OwnResponse(root.response)
         admitted == IF own \in ToSet(work.responses)
                     THEN {work}
                     ELSE AdmitResponse(work, own, {})
     IN  IF UNION {PrepareProposal(w, own) : w \in admitted} # {root.proposal}
         THEN Stopped
         ELSE \E w \in admitted : Committing(w, [root EXCEPT !.generation = proposed])

LogNext ==
  \/ CastBallot
  \/ Start
  \/ Commit
  \/ End
  \/ HoldOwnBallot
  \/ \E e \in Submissions : CollectBallot(e)
  \/ \E t \in CloseTimes : SignIntent(t)
  \/ \E t \in CloseTimes : LockIntent(t)
  \/ \E r \in Packets : TakeResponse(r)
  \/ RetainResponse
  \/ SignResponse
  \/ Propose

LogSpec == LogInit /\ [][LogNext]_logVars

----
(* Properties. *)

\* A replay never refuses what was accepted on arrival and an interrupted
\* signing recomputes exactly what the root retains: close work never stops
\* its own participant, wherever its operations are interrupted.
NeverStopped == pc # "stopped"

\* While an operation runs, its memory is what the log would rebuild, and the
\* session and the module know the same envelopes.
ReplayRestores ==
  pc = "ready" =>
    /\ seen = work.known
    /\ Replay(root) =
         {[work EXCEPT !.responses = SelectSeq(@, LAMBDA r : r.responder # Self)]}

\* The submissions that a root's custody holds.
HeldSubmissions(r) == r.ballot \cup Learned(r)

\* The bodies that a root's custody holds.
HeldBodies(r) == r.ballot \cup UNION {SubmissionOf(r, event) : event \in ToSet(r.log)}

\* Once a response or a proposal is signed its root holds a copy of every
\* envelope it lists and the body of every slot it lists once, which its
\* publication needs and must never take from the relay.
CopiesRetained ==
  root.generation >= responded =>
    \A listed \in {root.response, ListedUnion(root.proposal)} :
      /\ listed \subseteq HeldSubmissions(root)
      /\ UsableEntries(listed) \subseteq HeldBodies(root)

EventsOf(r, kinds) == Len(SelectSeq(r.log, LAMBDA event : event.kind \in kinds))

\* The log stays within the bounds that its encoding is read with, however
\* the relay orders what the authors sign: one body of an honest slot, two of
\* a corrupt one, one lock and one response of every other participant.
LogBounded ==
  LET f == MaximumCorruptParticipants(N)
  IN  /\ EventsOf(root, {"own", "held"}) <= N - f + 2 * f
      /\ EventsOf(root, {"lock"}) <= 1
      /\ EventsOf(root, {"response"}) <= N - 1
====
