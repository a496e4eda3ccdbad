------------------------------- MODULE MCClose -------------------------------
(***************************************************************************)
(* Small instances of ballot closing for TLC: four participants, of whom   *)
(* one may be corrupt, so that f = 1 and q = 3.                            *)
(***************************************************************************)
EXTENDS Close, TLC

CONSTANTS o, h1, h2, x

Four == {o, h1, h2, x}

\* The corrupt author signs two conflicting envelopes for its slot, one of
\* them with a body that nobody can supply.
BodilessEnvelope == [author |-> x, time |-> 1, id |-> 1]
WholeEnvelope == [author |-> x, time |-> 1, id |-> 2]
Conflicting == {BodilessEnvelope, WholeEnvelope}
OnlyBodiless == {BodilessEnvelope}

\* The corrupt author signs three envelopes for its slot.
Many == {[author |-> x, time |-> 1, id |-> i] : i \in 1 .. 3}

HonestSymmetry == Permutations({h1, h2})
====
