---------------------------- MODULE ProtocolRules ----------------------------
(***************************************************************************)
(* The pure rules that several components share: the participant           *)
(* thresholds of the supported profile, the generations of a participant's *)
(* root, and the rules of ballot closing: what a participant lists, when   *)
(* the organizer may include a response, which bodies it still needs, and  *)
(* what a set of listings makes of each slot.                              *)
(*                                                                         *)
(* An envelope is a record with its author (the slot), its signed ballot   *)
(* time and its identity, a number that orders the envelopes of a slot.    *)
(* A listing is a set of envelopes: the author of an entry is part of the  *)
(* envelope, and authenticate_response refuses an entry under another one. *)
(***************************************************************************)
EXTENDS Integers, FiniteSets, SequencesExt

----
(* The thresholds: every quorum is computed from the roster size n.        *)

\* The corruptions a roster of n tolerates: n.saturating_sub(1) / 3.
MaximumCorruptParticipants(n) == IF n = 0 THEN 0 ELSE (n - 1) \div 3

\* Mutant: a quorum one participant short.
ShortInventoryThreshold(n) == n - MaximumCorruptParticipants(n) - 1

\* The size q of a close proposal and of every certificate.
InventoryThreshold(n) == n - MaximumCorruptParticipants(n)

\* Mutant: a turnout that leaves one honest ballot beside f corrupt ones.
ShortMinimumTurnout(n) == MaximumCorruptParticipants(n) + 1

\* The accepted ballots below which a target carries no result.
MinimumTurnout(n) == MaximumCorruptParticipants(n) + 2

\* The release shares d that recover the result.
ReleaseThreshold(n) ==
  IF MaximumCorruptParticipants(n) + 1 < 2
  THEN 2
  ELSE MaximumCorruptParticipants(n) + 1

----
(* The generations a root passes through once its setup is verified.  A    *)
(* generation between a retained body and its signature, or before the     *)
(* setup, is none of these.                                                *)

setupRetained == 12

ballotLocked == 13  \* the scores and the ballot time
ballotReady == 14   \* the seed of the ballot's randomness
ballotBody == 15    \* the envelope and the complete body
ballotSigned == 17

intentRetained == 18
intentLocked == 19
responding == 20
responded == 21
proposed == 22

targetLocked == 23
targetSigned == 24

releaseLocked == 25 \* the certified target
releaseReady == 26  \* the seed of the release's randomness
releaseBody == 27   \* the envelope and the complete body
releaseSigned == 29

Generations == setupRetained .. 29

----
(* Ballot closing.                                                         *)

MaximumListedEnvelopesPerSlot == 2

Slot(S, author) == {e \in S : e.author = author}

\* The envelopes timed no later than the close time.
OnTime(S, closeTime) == {e \in S : e.time <= closeTime}

\* Whether S has another envelope of e's slot.
HasRival(S, e) == \E d \in S : d.author = e.author /\ d # e

\* Whether e is one of the two smallest identities of its slot in S.
AmongTwoSmallest(S, e) ==
  \A c, d \in Slot(S, e.author) : c.id < e.id /\ d.id < e.id => c = d

\* A slot with one known on-time envelope lists it when its body is held;
\* a slot with more lists the two smallest identities.
HonestListing(known, held, closeTime) ==
  LET slots == OnTime(known, closeTime)
  IN  {e \in slots : IF HasRival(slots, e)
                     THEN AmongTwoSmallest(slots, e)
                     ELSE e \in held}

\* Whether the organizer can include a response with this listing.
ReadyListing(known, held, closeTime, listed) ==
  LET slots == OnTime(known, closeTime)
  IN  \A e \in listed : e \in slots /\ (HasRival(slots, e) \/ e \in held)

\* Mutant: a body is not wanted once its envelope is known.
UnknownWantedListing(known, held, closeTime, listings) ==
  OnTime(UNION listings, closeTime) \ known

\* The bodies the organizer still needs for these listings.
WantedListing(known, held, closeTime, listings) ==
  LET slots == OnTime(known, closeTime)
  IN  {e \in (UNION listings) \cap slots : ~HasRival(slots, e) /\ e \notin held}

\* The slots of a union of listings that list exactly one envelope; a slot
\* that lists more is conflicting.
UsableEntries(union) == {e \in union : ~HasRival(union, e)}

ListedUnion(responses) == UNION {r.listed : r \in responses}

\* The canonical encoding of a response refuses a third entry for a slot.
AtMostTwoPerSlot(listed) == \A e \in listed : AmongTwoSmallest(listed, e)

\* Whether the organizer holds the body of every usable slot of a selection.
HoldsUsable(held, selection) == UsableEntries(ListedUnion(selection)) \subseteq held

\* Mutant: the first q responses, whatever bodies they need.
FirstSelection(own, taken, held, q) ==
  {own} \cup {taken[i] : i \in {j \in 1 .. Len(taken) : j < q}}

\* A taken response joins the selection below q while every usable slot of the
\* result has its body held.
Join(selection, r, held, q) ==
  IF Cardinality(selection) < q /\ HoldsUsable(held, selection \cup {r})
  THEN selection \cup {r}
  ELSE selection

\* The selections after each of the taken responses, from the own one alone.
Joined(own, taken, held, q) ==
  LET after[i \in 0 .. Len(taken)] ==
        IF i = 0 THEN {own} ELSE Join(after[i - 1], taken[i], held, q)
  IN  after

\* The organizer's selection: its own response, then the taken responses in
\* arrival order, each joining where it can.
Selection(own, taken, held, q) == Joined(own, taken, held, q)[Len(taken)]
====
