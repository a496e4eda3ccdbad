---------------------------- MODULE AtomicCommit ----------------------------
(***************************************************************************)
(* What a caller of commitParticipantState may rely on, and all that the   *)
(* commit of Custody assumes: the state changes at most once and as a      *)
(* whole, success is reported only for a change that was made, a failure   *)
(* may be reported for either, and nothing changes after the report.       *)
(***************************************************************************)
VARIABLES stored, reported

Init == stored = "old" /\ reported = "none"

Apply ==
    /\ reported = "none"
    /\ stored = "old"
    /\ stored' = "new"
    /\ UNCHANGED reported

ReportSuccess ==
    /\ reported = "none"
    /\ stored = "new"
    /\ reported' = "resolved"
    /\ UNCHANGED stored

ReportFailure ==
    /\ reported = "none"
    /\ reported' = "rejected"
    /\ UNCHANGED stored

Next == Apply \/ ReportSuccess \/ ReportFailure

vars == <<stored, reported>>

Spec == Init /\ [][Next]_vars

====
