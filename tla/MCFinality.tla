----------------------------- MODULE MCFinality -----------------------------
(***************************************************************************)
(* Small instances of the whole path from the ballots to the release.      *)
(***************************************************************************)
EXTENDS Finality, TLC

CONSTANTS o, h1, h2, x

Four == {o, h1, h2, x}

\* The corrupt organizer's own ballots: one that verifies and one that does not.
ValidEnvelope == {[author |-> o, time |-> 1, id |-> 1]}
InvalidEnvelope == {[author |-> o, time |-> 1, id |-> 2]}
OrganizerEnvelopes == ValidEnvelope \cup InvalidEnvelope

\* The ballot of a corrupt voter.
VoterEnvelope == {[author |-> x, time |-> 1, id |-> 1]}

\* Two conflicting ballots of it, one with a body that nobody can supply.
BodilessEnvelope == {[author |-> x, time |-> 1, id |-> 2]}
ConflictingEnvelopes == VoterEnvelope \cup BodilessEnvelope

TwoVoters == Permutations({h1, h2})
CorruptOrganizerSymmetry == Permutations({h1, h2, x})
====
