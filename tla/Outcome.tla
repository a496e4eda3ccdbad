------------------------------- MODULE Outcome -------------------------------
(***************************************************************************)
(* What a poll promises its participants: at most one target is ever       *)
(* certified, it stays certified, and the result of that target, of no     *)
(* other, may become recoverable, once it is certified.                    *)
(***************************************************************************)
VARIABLES certified, recoverable

Init == certified = {} /\ recoverable = {}

Certify ==
  /\ certified = {}
  /\ \E t \in certified' : certified' = {t}
  /\ UNCHANGED recoverable

Recover ==
  /\ recoverable = {}
  /\ certified # {}
  /\ recoverable' = certified
  /\ UNCHANGED certified

Next == Certify \/ Recover

Spec == Init /\ [][Next]_<<certified, recoverable>>
====
