------------------------------ MODULE Ceremony ------------------------------
(***************************************************************************)
(* The native ceremony (crates/native-ceremony): a driver that enrolls a   *)
(* roster, runs every phase of a poll with original credentials and stops  *)
(* at the first unwrap or assertion that fails.  One ceremony proves and   *)
(* evaluates for hours, so it is run for few roster sizes; the model runs  *)
(* its control for every size of Sizes and every mode.                     *)
(*                                                                         *)
(* An optional position of the scenario is a set of at most one position.  *)
(* Loops over positions take the least position left in todo.              *)
(***************************************************************************)
EXTENDS ProtocolRules

CONSTANT Sizes  \* participants of the profiles, each from 3 to 20

Modes == {"result", "empty", "invalid-only", "setup-departure", "selection-fork", "committed-offer"}
FourParticipantModes == {"setup-departure", "selection-fork"}
NoResultModes == {"empty", "invalid-only"}

VARIABLES
  n, mode,
  stage, todo,
  enrolled,    \* OriginalEnrollments: the positions whose private state exists
  offered,     \* positions with a published, verified setup offer
  endorsed,    \* the selection each position's credential endorsed
  certificate, \* endorsers of the setup certificate
  cast,        \* what each position's credential signed as its ballot body
  held, known, \* bodies held and envelopes known, in each CloseWork
  locked,      \* positions that locked the close intent
  log,         \* LoggedWork::events
  listing,     \* the signed responses' listings, each in a set of at most one
  taken,       \* responses the organizer took, in arrival order
  proposal,    \* the proposed responses
  votes, shares,
  panicked     \* an unwrap or an assertion failed

setupVars == <<offered, endorsed, certificate>>
closeVars == <<held, known, locked, log, listing, taken, proposal>>
finalVars == <<votes, shares>>
vars == <<n, mode, stage, todo, enrolled, setupVars, cast, closeVars, finalVars, panicked>>

Positions == 0..(n - 1)
F == MaximumCorruptParticipants(n)
Q == InventoryThreshold(n)

----
(* The scenario. *)

Plain == mode \notin FourParticipantModes

Departed == IF mode = "setup-departure" THEN {1} ELSE {}
Active == Positions \ Departed

CorruptSet ==
  CASE mode = "selection-fork" -> {0}
    [] mode = "setup-departure" -> {2}
    [] OTHER -> 1..F

HonestSet == Positions \ CorruptSet

Role(rank) == IF Plain THEN {F - rank} \cap 1..F ELSE {}
Equivocator == Role(0)
InvalidProof == Role(1)
WrongPosition == Role(2)

\* The k smallest members of S.
Least(S, k) == {p \in S : Cardinality({r \in S : r < p}) < k}

Voters == IF Plain THEN Least(HonestSet, MinimumTurnout(n)) ELSE Active

Omitted == IF Plain /\ F > 0 /\ Cardinality(HonestSet) > MinimumTurnout(n) THEN {n - 1} ELSE {}

Nonvoters == IF Plain THEN (HonestSet \ Voters) \ Omitted ELSE {}

\* The authors of the usable slots of the result case.
UsableAuthors == Voters \cup InvalidProof \cup WrongPosition

OmittedHolders == (n - F)..(n - 1)

EquivocationHolders(second) ==
  {p \in Positions \ ({0} \cup Equivocator \cup Omitted) : (p > n \div 2) = second}

FirstHonestResponder == Min(HonestSet \ ({0} \cup Departed))

----
(* Submissions.  Ballots are cast at time Now; the result case closes two   *)
(* milliseconds later and the other cases at the current time.              *)

Now == 1
CloseTime == IF mode = "result" THEN Now + 2 ELSE Now

Envelope(author, time, identity) == [author |-> author, time |-> time, id |-> identity]
Ballot(p) == Envelope(p, Now, 1)
FirstOnTime == {Envelope(p, CloseTime - 2, 1) : p \in Equivocator}
SecondOnTime == {Envelope(p, CloseTime - 1, 2) : p \in Equivocator}
Late == {Envelope(p, CloseTime + 1, 3) : p \in Equivocator}

Cast == {p \in Positions : cast[p] # "none"}

\* The submissions that everyone holds.
Common ==
  {Ballot(p) : p \in IF mode = "result" THEN UsableAuthors ELSE Cast}

OmittedBallot == IF mode = "result" THEN {Ballot(p) : p \in Omitted} ELSE {}

\* The relay's schedule of the result case.
Scheduled(p) ==
  IF mode # "result"
  THEN Common
  ELSE Common
       \cup (IF p \in EquivocationHolders(FALSE) THEN FirstOnTime ELSE {})
       \cup (IF p \in EquivocationHolders(TRUE) THEN SecondOnTime ELSE {})
       \cup (IF p \in OmittedHolders THEN OmittedBallot ELSE {})

Everything == Common \cup FirstOnTime \cup SecondOnTime \cup Late \cup OmittedBallot

----
(* Control. *)

\* Continue with a stage's loop; a failed check panics.
Goto(s, S, check) ==
  /\ stage' = s
  /\ todo' = S
  /\ panicked' = (panicked \/ ~check)

\* One iteration of the current loop, for position p.
Iterate(p, check) ==
  /\ todo # {}
  /\ p = Min(todo)
  /\ Goto(stage, todo \ {p}, check)

AtEnd(s) == stage = s /\ todo = {} /\ ~panicked

Running(s) == stage = s /\ ~panicked

----
(* Setup. *)

SetupContributors == ReleaseThreshold(n)
SetupEligible == 0..(SetupContributors + F - 1)

SelectedAuthors == IF Plain THEN 0..(SetupContributors - 1) ELSE {0, 2}
LosingAuthors == {0, 1}

Init ==
  /\ mode \in Modes
  /\ n \in Sizes
  /\ mode \in FourParticipantModes => n = 4
  /\ mode = "committed-offer" => n = 3
  /\ stage = "enroll" /\ todo = {}
  /\ enrolled = Positions
  /\ offered = {} /\ certificate = {}
  /\ endorsed = [p \in Positions |-> "none"]
  /\ cast = [p \in Positions |-> "none"]
  /\ held = [p \in Positions |-> {}] /\ known = [p \in Positions |-> {}]
  /\ locked = {}
  /\ log = [p \in Positions |-> <<>>]
  /\ listing = [p \in Positions |-> {}]
  /\ taken = <<>> /\ proposal = {}
  /\ votes = {} /\ shares = {}
  /\ panicked = FALSE

\* OriginalEnrollments::depart, before any setup message, and the loop over
\* the eligible contributors left.
Depart ==
  /\ AtEnd("enroll")
  /\ enrolled' = enrolled \ Departed
  /\ Goto("offer", enrolled' \cap SetupEligible, mode = "setup-departure" => enrolled' = {0, 2, 3})
  /\ UNCHANGED <<n, mode, setupVars, cast, closeVars, finalVars>>

\* An eligible contributor publishes its offer, which verifies.
Offer(p) ==
  /\ Running("offer")
  /\ Iterate(p, p \in enrolled)
  /\ offered' = offered \cup {p}
  /\ UNCHANGED <<n, mode, enrolled, endorsed, certificate, cast, closeVars, finalVars>>

\* Position 1 endorses the losing selection of the corrupt organizer.
LosingEndorsement ==
  IF mode = "selection-fork" THEN [endorsed EXCEPT ![1] = "losing"] ELSE endorsed

\* A selection is built from offers of the eligible prefix, then aggregated.
\* The participant that endorsed the losing selection, and its credential's
\* refusal of a second endorsement, come before the loop over endorsers.
BuildSelection ==
  /\ AtEnd("offer")
  /\ endorsed' = LosingEndorsement
  /\ Goto("endorse",
          enrolled \ (IF mode = "selection-fork" THEN {1} ELSE {}),
          /\ SelectedAuthors \subseteq offered
          /\ Cardinality(SelectedAuthors) = SetupContributors
          /\ mode = "selection-fork" => LosingAuthors \subseteq offered /\ endorsed'[1] # "none")
  /\ UNCHANGED <<n, mode, enrolled, offered, certificate, cast, closeVars, finalVars>>

Endorse(p) ==
  /\ Running("endorse")
  /\ Iterate(p, p \in enrolled /\ endorsed[p] = "none")
  /\ endorsed' = [endorsed EXCEPT ![p] = "selected"]
  /\ UNCHANGED <<n, mode, enrolled, offered, certificate, cast, closeVars, finalVars>>

Endorsers(selection) == {p \in Positions : endorsed[p] = selection}

\* Authors of the ballots, in every mode.
Authors ==
  CASE mode = "result" -> UsableAuthors \cup Omitted
    [] mode = "empty" -> {}
    [] mode = "invalid-only" -> {0}
    [] OTHER -> Active

\* The first q endorsements certify the setup, and the last q another
\* certificate of it when there are more; the losing selection has none.  The
\* sources of every participant are retired.  The committed-offer case ends here.
Certify ==
  /\ AtEnd("endorse")
  /\ certificate' = Least(Endorsers("selected"), Q)
  /\ Goto(IF mode = "committed-offer" THEN "done" ELSE "cast",
          IF mode = "committed-offer" THEN {} ELSE Authors,
          /\ Cardinality(certificate') = Q
          /\ Cardinality(Endorsers("losing")) < Q
          /\ Cardinality(Endorsers("selected")) > Q =>
               Endorsers("selected") \ Least(Endorsers("selected"),
                                             Cardinality(Endorsers("selected")) - Q)
                 # certificate')
  /\ UNCHANGED <<n, mode, enrolled, offered, endorsed, cast, closeVars, finalVars>>

----
(* Ballots. *)

\* A ballot attempt starts before the close intent is locked, and a credential
\* signs one ballot.
CanCast(p) == p \in enrolled /\ cast[p] = "none" /\ p \notin locked

\* What an author signs: an honest body through its private commands, position
\* zero's body under a corrupt author's envelope or statement, or a body of
\* zeros under the organizer's envelope.
BodyOf(p) ==
  IF mode = "invalid-only" \/ p \in InvalidProof \cup WrongPosition THEN "invalid" ELSE "valid"

CastBallot(p) ==
  /\ Running("cast")
  /\ Iterate(p, CanCast(p))
  /\ cast' = [cast EXCEPT ![p] = BodyOf(p)]
  /\ UNCHANGED <<n, mode, enrolled, setupVars, closeVars, finalVars>>

----
(* The close. *)

\* Whether a CloseWork holding H and knowing K begins the body of envelope e.
Accepts(p, e, H, K, L) ==
  /\ e \notin H[p]
  /\ p \in L => e.time <= CloseTime
  /\ e \in K[p] \/ Cardinality(Slot(K[p], e.author)) < MaximumListedEnvelopesPerSlot
  /\ Cardinality(Slot(H[p], e.author)) < MaximumListedEnvelopesPerSlot

\* Whether a work accepts the deliveries of S, in any order.
AcceptsAll(p, S) ==
  \A e \in S :
    /\ Accepts(p, e, held, known, locked)
    /\ Cardinality(Slot(held[p] \cup S, e.author)) <= MaximumListedEnvelopesPerSlot

\* Deliver the bodies S[p] to each position p, and log what changed.
Deliver(S) ==
  /\ held' = [p \in Positions |-> held[p] \cup S[p]]
  /\ known' = [p \in Positions |-> known[p] \cup S[p]]
  /\ log' = [p \in Positions |->
               IF S[p] = {} THEN log[p] ELSE Append(log[p], [kind |-> "held", input |-> S[p]])]

\* Only the organizer's credential signs an intent, once.
CanSignIntent(p, L) == p = 0 /\ p \in enrolled /\ p \notin L

\* In the four participant cases every active participant holds every ballot
\* before the intent.
HoldEvery ==
  LET every == [p \in Positions |-> IF p \in Active THEN Common ELSE {}]
  IN  /\ AtEnd("cast") /\ ~Plain
      /\ Deliver(every)
      /\ Goto("open", {}, enrolled = Active /\ \A p \in Positions : AcceptsAll(p, every[p]))
      /\ UNCHANGED <<n, mode, enrolled, setupVars, cast, locked, listing, taken, proposal, finalVars>>

\* Before the intent, in the result case: the late envelope reaches the
\* organizer and the first honest responder, and the equivocator holds its two
\* on-time envelopes, so that its work refuses the third.
BeforeIntent ==
  LET first(p) ==
        CASE mode = "result" /\ p \in {0, FirstHonestResponder} -> Late
          [] mode = "result" /\ p \in Equivocator -> FirstOnTime \cup SecondOnTime
          [] OTHER -> {}
  IN  /\ AtEnd("cast") /\ Plain
      /\ Deliver([p \in Positions |-> first(p)])
      /\ Goto("open", {},
              /\ \A p \in Positions : AcceptsAll(p, first(p))
              /\ CanSignIntent(0, locked)
              /\ mode = "result" =>
                   /\ ~CanSignIntent(1, locked)
                   /\ \A p \in Equivocator : \A e \in Late : ~Accepts(p, e, held', known', locked))
      /\ UNCHANGED <<n, mode, enrolled, setupVars, cast, locked, listing, taken, proposal, finalVars>>

\* The organizer signs the intent and every participant locks it.  The lock
\* discards what is late and retires it from the log; a late envelope is
\* refused from then on, and no ballot attempt starts.
OpenIntent ==
  LET onTime(event) == event.kind = "held" => OnTime(event.input, CloseTime) = event.input
  IN  /\ AtEnd("open")
      /\ locked' = enrolled
      /\ held' = [p \in Positions |-> OnTime(held[p], CloseTime)]
      /\ known' = [p \in Positions |-> OnTime(known[p], CloseTime)]
      /\ log' = [p \in Positions |->
                   IF p \in enrolled
                   THEN Append(SelectSeq(log[p], onTime), [kind |-> "lock", input |-> {}])
                   ELSE log[p]]
      /\ Goto(IF mode = "result" THEN "hold" ELSE "respond",
              IF mode = "result" THEN {} ELSE enrolled \ {0},
              mode = "result" =>
                /\ ~CanSignIntent(0, locked')
                /\ \A p \in {0, FirstHonestResponder}, e \in Late :
                     ~Accepts(p, e, held', known', locked')
                /\ \A p \in Nonvoters : p \in locked')
      /\ UNCHANGED <<n, mode, enrolled, setupVars, cast, listing, taken, proposal, finalVars>>

\* A response signed from a listing of the envelopes K and the bodies H.
ListingOf(H, K) == HonestListing(K, H, CloseTime)

\* The credential signs no response that leaves out its own on-time ballot.
ListsOwn(p, listed) == cast[p] # "none" => Ballot(p) \in listed

\* Whether the organizer may prepare its response.
Ready(H, K, responses) ==
  Cardinality({r \in responses : ReadyListing(K, H, CloseTime, r.listed)}) >= Q - 1

\* The organizer holds the common submissions, and answers no request for its
\* response before it can propose.  A voter without its own ballot prepares a
\* response that its credential refuses.
OrganizerHolds ==
  LET voter == IF Omitted # {} THEN Omitted ELSE {CHOOSE p \in Voters : \A r \in Voters : r <= p}
      receives == [p \in Positions |-> IF p = 0 THEN Common ELSE {}]
      others(p) == Common \ {Ballot(p)}
  IN  /\ AtEnd("hold") /\ mode = "result"
      /\ Deliver(receives)
      /\ Goto("respond", enrolled \ {0},
              /\ AcceptsAll(0, receives[0])
              /\ ~Ready(held'[0], known'[0], ToSet(taken))
              /\ \A p \in voter : ~ListsOwn(p, ListingOf(others(p), others(p))))
      /\ UNCHANGED <<n, mode, enrolled, setupVars, cast, locked, listing, taken, proposal, finalVars>>

\* In the cases without a result the organizer's work takes the invalid ballot,
\* if there is one, after every other participant has responded.
HoldInvalid ==
  LET receives == [p \in Positions |-> IF p = 0 THEN Common ELSE {}]
  IN  /\ AtEnd("hold") /\ mode \in NoResultModes
      /\ Deliver(receives)
      /\ Goto("gather", enrolled \ {0}, AcceptsAll(0, receives[0]))
      /\ UNCHANGED <<n, mode, enrolled, setupVars, cast, locked, listing, taken, proposal, finalVars>>

\* Every participant but the organizer responds without waiting, once.  In the
\* four participant cases it holds every ballot since before the intent.
Respond(p) ==
  LET receives == [r \in Positions |-> IF r = p /\ Plain THEN Scheduled(p) ELSE {}]
  IN  /\ Running("respond")
      /\ Deliver(receives)
      /\ listing' = [listing EXCEPT ![p] = {ListingOf(held'[p], known'[p])}]
      /\ Iterate(p, /\ AcceptsAll(p, receives[p])
                    /\ \A listed \in listing'[p] : ListsOwn(p, listed))
      /\ UNCHANGED <<n, mode, enrolled, setupVars, cast, locked, taken, proposal, finalVars>>

Listed(p) == UNION listing[p]

\* The verdict on a signed response: a third entry of a slot is refused before
\* a late one, and a listed envelope that is not available leaves it pending.
Authentication(listed, available) ==
  CASE \E e \in listed : Cardinality(Slot(listed, e.author)) > MaximumListedEnvelopesPerSlot -> "shape"
    [] ~(listed \subseteq available) -> "incomplete"
    [] OnTime(listed, CloseTime) # listed -> "context"
    [] OTHER -> "authentic"

Arrivals == {[responder |-> p, listed |-> Listed(p)] : p \in enrolled \ {0}}

\* No verifier authenticates a corrupt fork's response that lists its late
\* envelope, or three envelopes for a slot.
\* A response listing the omitted ballot, or else the organizer's, is pending
\* while that envelope is unavailable.  An organizer that holds no body wants
\* one for each listed usable slot, the omitted one included, and none for the
\* conflicting slot, and can neither answer nor propose.
ProbeDelivery ==
  LET pendingResponder == IF Omitted # {} THEN n - F ELSE 1
      pendingAuthor == IF Omitted # {} THEN n - 1 ELSE 0
      lists == {r.listed : r \in Arrivals}
      lacking == UNION lists
  IN  /\ AtEnd("respond")
      /\ Goto(IF mode \in NoResultModes THEN "hold" ELSE "gather",
              IF mode \in NoResultModes THEN {} ELSE enrolled \ {0},
              mode = "result" =>
                /\ \A p \in Equivocator :
                     /\ Authentication(Late, Everything) = "context"
                     /\ Authentication(FirstOnTime \cup SecondOnTime \cup Late, Everything) = "shape"
                /\ Authentication(Listed(pendingResponder), Everything \ {Ballot(pendingAuthor)})
                     = "incomplete"
                /\ \A r \in Arrivals : Authentication(r.listed, Everything) = "authentic"
                /\ WantedListing(lacking, {}, CloseTime, lists) = Common \cup OmittedBallot
                /\ ~Ready({}, lacking, Arrivals))
      /\ UNCHANGED <<n, mode, enrolled, setupVars, cast, closeVars, finalVars>>

\* The organizer takes a response with the listed envelopes it lacks, without
\* their bodies: it lacks the equivocator's and the omitted ballot.
Gather(p) ==
  LET lacked == IF mode = "result" THEN FirstOnTime \cup SecondOnTime \cup OmittedBallot ELSE {}
      given == (Listed(p) \cap lacked) \ known[0]
  IN  /\ Running("gather")
      /\ known' = [known EXCEPT ![0] = @ \cup given]
      /\ taken' = Append(taken, [responder |-> p, listed |-> Listed(p)])
      /\ log' = [log EXCEPT ![0] = Append(@, [kind |-> "response",
                                              input |-> [envelopes |-> given, responder |-> p]])]
      /\ Iterate(p, Listed(p) \subseteq known'[0])
      /\ UNCHANGED <<n, mode, enrolled, setupVars, cast, held, locked, listing, proposal, finalVars>>

OwnListing == ListingOf(held[0], known[0])

\* The organizer signs its response and the proposal.
Conclude ==
  LET own == [responder |-> 0, listed |-> OwnListing]
      wanted == WantedListing(known[0], held[0], CloseTime, {r.listed : r \in ToSet(taken)})
  IN  /\ AtEnd("gather")
      /\ listing' = [listing EXCEPT ![0] = {OwnListing}]
      /\ proposal' = Selection(own, taken, held[0], Q)
      /\ Goto("classify", {},
              /\ wanted = OmittedBallot
              /\ Ready(held[0], known[0], ToSet(taken))
              /\ ListsOwn(0, OwnListing)
              /\ Cardinality(proposal') = Q)
      /\ UNCHANGED <<n, mode, enrolled, setupVars, cast, held, known, locked, log, taken, finalVars>>

----
(* Completion. *)

Union == ListedUnion(proposal)
Usable == UsableEntries(Union)
SlotKind(p) ==
  IF Slot(Usable, p) # {} THEN "usable" ELSE IF Slot(Union, p) # {} THEN "conflicting" ELSE "absent"

Accepted == {e.author : e \in {d \in Usable : cast[d.author] = "valid"}}
HasResult == Cardinality(Accepted) >= MinimumTurnout(n)

\* The own-ballot status of a credential whose signed ballots have these times.
Inclusion(times, p) ==
  IF times = {} THEN "not cast"
  ELSE IF \E t \in times : t > CloseTime THEN "late"
  ELSE IF SlotKind(p) = "usable" THEN "included" ELSE "omitted"

SignedTimes(p) == IF cast[p] = "none" THEN {} ELSE {Now}

Signers == IF mode = "result" THEN HonestSet ELSE enrolled

\* Whether responses and bodies let a verifier accept the proposal.
Verifies(responses, bodies) == proposal \subseteq responses /\ Usable \subseteq bodies

\* The slots each driver asserts of its barrier.
NoResultSlots ==
  \A p \in Positions : SlotKind(p) = IF mode = "invalid-only" /\ p = 0 THEN "usable" ELSE "absent"
FourParticipantSlots ==
  \A p \in Positions : SlotKind(p) = IF p \in Active THEN "usable" ELSE "absent"

\* The proposal verifies with exactly the common submissions' bodies.  In the
\* result case it does not without the response of position q - 1, which the
\* driver takes to be named.  The closed slots are then classified and the target
\* evaluated.
Classify ==
  LET responses == Arrivals \cup {[responder |-> 0, listed |-> Listed(0)]}
  IN  /\ AtEnd("classify")
      /\ Goto("vote", Signers,
              /\ Usable = Common
              /\ Verifies(responses, Common)
              /\ mode \in NoResultModes => NoResultSlots
              /\ mode \in FourParticipantModes => FourParticipantSlots
              /\ mode = "result" =>
                   ~Verifies({r \in responses : r.responder # Q - 1}, Common))
      /\ UNCHANGED <<n, mode, enrolled, setupVars, cast, closeVars, finalVars>>

\* A signer votes once, and the collector has a certificate from q votes on.
Vote(p) ==
  /\ Running("vote")
  /\ votes' = votes \cup {p}
  /\ Iterate(p, p \in enrolled)
  /\ UNCHANGED <<n, mode, enrolled, setupVars, cast, closeVars, shares>>

Certified == Cardinality(votes) >= Q

\* A target without a ciphertext has a certified no-result outcome.
Finish ==
  /\ AtEnd("vote")
  /\ Goto(IF HasResult THEN "release" ELSE "done", IF HasResult THEN enrolled ELSE {},
          Certified /\ (HasResult => Accepted = Voters))
  /\ UNCHANGED <<n, mode, enrolled, setupVars, cast, closeVars, finalVars>>

Release(p) ==
  /\ Running("release")
  /\ shares' = shares \cup {p}
  /\ Iterate(p, p \in enrolled)
  /\ UNCHANGED <<n, mode, enrolled, setupVars, cast, closeVars, votes>>

\* The result is recovered from the shares of the first positions available,
\* each of which must be there.
Recovers(available) ==
  LET first == Least(available, ReleaseThreshold(n))
  IN  Cardinality(first) = ReleaseThreshold(n) /\ first \subseteq shares

\* The largest roster of which every set of at most f positions is among the
\* CHECKED_SETS = 256 checked sets.
CompleteSize == 11

\* The departures checked after share generation: the one that happened, or
\* every set of at most f positions while there are few.  The code samples the
\* sets of a larger roster; the model takes the first, the last and the first
\* honest ones of each size.
CheckedDepartures ==
  IF Departed # {} THEN {Departed}
  ELSE IF n <= CompleteSize THEN {S \in SUBSET Positions : Cardinality(S) <= F}
  ELSE UNION {{Least(Positions, k), (n - k)..(n - 1), Least(HonestSet, k)} : k \in 0..F}

Available(missing) ==
  IF Plain THEN HonestSet \ missing ELSE Positions \ missing

CheckDepartures ==
  /\ AtEnd("release")
  /\ Goto("done", {},
          /\ Recovers(enrolled)
          /\ Recovers(enrolled \ Least(enrolled, Cardinality(enrolled) - ReleaseThreshold(n)))
          /\ \A missing \in CheckedDepartures : Recovers(Available(missing)))
  /\ UNCHANGED <<n, mode, enrolled, setupVars, cast, closeVars, finalVars>>

Done == stage = "done" /\ UNCHANGED vars

Step ==
  \/ Depart \/ BuildSelection \/ Certify
  \/ BeforeIntent \/ HoldEvery \/ OpenIntent \/ OrganizerHolds \/ HoldInvalid \/ ProbeDelivery \/ Conclude
  \/ Classify \/ Finish \/ CheckDepartures
  \/ \E p \in todo : \/ Offer(p) \/ Endorse(p) \/ CastBallot(p)
                     \/ Respond(p) \/ Gather(p) \/ Vote(p) \/ Release(p)

Next == Step \/ Done

Spec == Init /\ [][Next]_vars

----
TypeOK ==
  /\ mode \in Modes /\ n \in Sizes
  /\ todo \subseteq Positions /\ enrolled \subseteq Positions
  /\ offered \subseteq Positions /\ certificate \subseteq Positions
  /\ endorsed \in [Positions -> {"none", "selected", "losing"}]
  /\ cast \in [Positions -> {"none", "valid", "invalid"}]
  /\ held \in [Positions -> SUBSET Everything] /\ known \in [Positions -> SUBSET Everything]
  /\ locked \subseteq Positions
  /\ votes \subseteq Positions /\ shares \subseteq Positions
  /\ panicked \in BOOLEAN

Proposed == proposal # {}

\* For every roster size the proposal names responders 0 to q-1 (the active
\* participants of the four participant cases), whatever the relay withheld,
\* and its slots are the ones close::run, no_result_close::run and
\* selected_setup_completion::run expect: each cast ballot usable but the
\* omitted one, the equivocator's conflicting with both on-time envelopes.
SlotsAsPlanned ==
  Proposed =>
    /\ {r.responder : r \in proposal} = Least(enrolled, Q)
    /\ \A p \in Positions :
         SlotKind(p) = CASE mode = "result" /\ p \in Equivocator -> "conflicting"
                         [] cast[p] # "none" /\ p \notin Omitted -> "usable"
                         [] OTHER -> "absent"
    /\ mode = "result" => FirstOnTime \cup SecondOnTime \subseteq Union

\* A listing has an entry for each submission the relay scheduled for its
\* responder and, at the organizer and the equivocator, both on-time
\* envelopes of the equivocator; a late envelope is in none (close::run).
ListingsAsPlanned ==
  \A p \in Positions : \A listed \in listing[p] :
    /\ listed \cap Late = {}
    /\ Cardinality(listed) =
         Cardinality(Common)
         + (IF mode = "result" /\ p \in {0} \cup Equivocator THEN 2 * Cardinality(Equivocator)
            ELSE Cardinality(Scheduled(p) \ Common))

\* The work that replays a log up to its end: bodies, envelopes and responses.
Replayed(p) ==
  LET apply(work, event) ==
        CASE event.kind = "held" -> [work EXCEPT !.held = @ \cup event.input,
                                                 !.known = @ \cup event.input]
          [] event.kind = "lock" -> [work EXCEPT !.held = OnTime(@, CloseTime),
                                                 !.known = OnTime(@, CloseTime)]
          [] event.kind = "response" ->
               [work EXCEPT !.known = @ \cup event.input.envelopes,
                            !.taken = Append(@, [responder |-> event.input.responder,
                                                 listed |-> Listed(event.input.responder)])]
  IN  FoldLeft(apply, [held |-> {}, known |-> {}, taken |-> <<>>], log[p])

\* A close log, from which the lock retired the late envelopes, replays into a
\* fresh work that prepares the signed response again and, at the organizer,
\* the signed proposal (close_work::replay).
ReplayReproduces ==
  \A p \in Positions : listing[p] # {} =>
    LET work == Replayed(p)
        listed == ListingOf(work.held, work.known)
    IN  /\ listing[p] = {listed}
        /\ p = 0 => proposal = Selection([responder |-> 0, listed |-> listed],
                                         work.taken, work.held, Q)

\* The corrupt participants withhold their votes, so the certificate of the
\* result case needs every honest one, the omitted voter's included.
CertificateNeedsHonest == mode = "result" /\ Certified => HonestSet \subseteq votes

\* Each credential reports what became of its own ballot: included, omitted by
\* the proposal, never cast, or, at the equivocator's fork, late.
StatusesAsPlanned ==
  Proposed =>
    /\ \A p \in enrolled :
         Inclusion(SignedTimes(p), p) = CASE cast[p] = "none" -> "not cast"
                                          [] p \in Omitted -> "omitted"
                                          [] OTHER -> "included"
    /\ mode = "result" =>
         \A p \in Equivocator : Inclusion({CloseTime + 1}, p) = "late"

\* A result is of exactly the scenario's voters, who meet the minimum turnout;
\* the empty and the invalid-only cases have none.
OutcomeAsPlanned ==
  Proposed =>
    /\ HasResult <=> mode \notin NoResultModes
    /\ HasResult => Accepted = Voters

\* A participant whose private state is lost before setup publishes no later
\* message, and the others complete without it.
DepartedSilent ==
  Departed \cap UNION {offered, Endorsers("selected"), Endorsers("losing"), Cast,
                       {p \in Positions : listing[p] # {}}, votes, shares} = {}

\* No unwrap or assertion of the driver fails, for any roster size: every
\* scheduled delivery is accepted, every probe refused, and at most f departures
\* beside the withholding corrupt participants leave enough release shares.
NeverPanics == ~panicked
====
