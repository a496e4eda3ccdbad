----------------------------- MODULE MCCustody ------------------------------
(***************************************************************************)
(* Small instances of what one participant keeps: the root under two       *)
(* workers (Custody), the close log and its replay (CloseLog) and the      *)
(* credential through its visits (Credential).                             *)
(*                                                                         *)
(* The components do not share state in these runs: a behaviour is of one  *)
(* subject. Custody and Credential have their variables; the log is        *)
(* instantiated over the cells.                                            *)
(***************************************************************************)
EXTENDS Custody, Credential, TLC

CONSTANTS
    Subjects,   \* the components this run is about
    w1, w2, d1, d2, s1, s2, o, h1, h2, x, early, late, first, second, t1, t2

Symmetries == Permutations({w1, w2}) \cup Permutations({d1, d2}) \cup Permutations({s1, s2})

\* The close log of the organizer among four.  The corrupt author signs four
\* envelopes, one of them late and one without a body, and two responses.
E(author, time, id) == [author |-> author, time |-> time, id |-> id]
OnTimeOrLate == {E(o, 1, 0), E(o, 2, 0)}
H1 == E(h1, 1, 0)
H2 == E(h2, 1, 0)
OneOfX == E(x, 1, 1)
AnotherOfX == E(x, 1, 2)
LateOfX == E(x, 2, 3)
Unsupplied == E(x, 1, 4)
Published == {H1, OneOfX, AnotherOfX, LateOfX}
SignedPackets ==
    {[responder |-> h1, listed |-> {H1, OneOfX}],
     [responder |-> h2, listed |-> {H1, H2, Unsupplied}],
     [responder |-> x, listed |-> {Unsupplied, AnotherOfX}],
     [responder |-> x, listed |-> {H2}]}

\* A participant with an early and a late ballot, two intents and two targets.
BallotTimes == early :> 1 @@ late :> 3
CloseTimesOfIntents == first :> 2 @@ second :> 4

VARIABLES subject, c1, c2, c3, c4, c5, c6

cells == <<c1, c2, c3, c4, c5, c6>>
participantVars == <<custodyVars, credentialVars>>
runVars == <<subject, cells, participantVars>>

\* A component uses the first cells; the others are empty and stay so.
Empty(n) ==
    /\ IF n < 1 THEN c1 = None ELSE TRUE
    /\ IF n < 2 THEN c2 = None ELSE TRUE
    /\ IF n < 3 THEN c3 = None ELSE TRUE
    /\ IF n < 4 THEN c4 = None ELSE TRUE
    /\ IF n < 5 THEN c5 = None ELSE TRUE
    /\ IF n < 6 THEN c6 = None ELSE TRUE

StayEmpty(n) ==
    /\ IF n < 1 THEN UNCHANGED c1 ELSE TRUE
    /\ IF n < 2 THEN UNCHANGED c2 ELSE TRUE
    /\ IF n < 3 THEN UNCHANGED c3 ELSE TRUE
    /\ IF n < 4 THEN UNCHANGED c4 ELSE TRUE
    /\ IF n < 5 THEN UNCHANGED c5 ELSE TRUE
    /\ IF n < 6 THEN UNCHANGED c6 ELSE TRUE

Log == INSTANCE CloseLog WITH
    Participants <- {o, h1, h2, x}, Corrupt <- {x}, Self <- o,
    OwnBallots <- OnTimeOrLate, Submissions <- Published, CloseTimes <- {1},
    Packets <- SignedPackets, isOrganizer <- c1, root <- c2, pc <- c3,
    work <- c4, seen <- c5, next <- c6

ASSUME RunAssumption == Log!LogAssumption

RunInit ==
    /\ subject \in Subjects
    /\ CustodyInit /\ CredentialInit
    /\ subject # "credential" => ~organizer
    /\ \/ subject \in {"custody", "credential"} /\ Empty(0)
       \/ subject = "close log" /\ Log!LogInit /\ Empty(6)

\* The components that may stop: a finished one, or one that its bounds end.
MayStop == {"close log"}

RunNext ==
    /\ UNCHANGED subject
    /\ \/ subject = "custody" /\ CustodyNext /\ UNCHANGED <<cells, credentialVars>>
       \/ subject = "credential" /\ CredentialNext /\ UNCHANGED <<cells, custodyVars>>
       \/ subject = "close log" /\ Log!LogNext /\ StayEmpty(6) /\ UNCHANGED participantVars
       \/ subject \in MayStop /\ UNCHANGED <<cells, participantVars>>

RunSpec == RunInit /\ [][RunNext]_runVars

----

\* A replay never refuses what was accepted on arrival and an interrupted
\* signing recomputes exactly what the root retains: close work never stops
\* its own participant, wherever its operations are interrupted.
NeverStopped == subject = "close log" => Log!NeverStopped

\* While an operation runs, its memory is what the log would rebuild, and
\* the session and the module know the same envelopes.
ReplayRestores == subject = "close log" => Log!ReplayRestores

\* Once a response or a proposal is signed its root holds a copy of every
\* envelope it lists and the body of every slot it lists once, which its
\* publication needs and must never take from the relay.
CopiesRetained == subject = "close log" => Log!CopiesRetained

\* The log stays within the bounds that its encoding is read with, however
\* the relay orders what the authors sign: one body of an honest slot, two
\* of a corrupt one, one lock and one response of every other participant.
LogBounded == subject = "close log" => Log!LogBounded

\* The close log carries the close work through every interruption: what it
\* replays is what was accepted, complete, bounded and never refused.
LogFaithful == NeverStopped /\ ReplayRestores /\ CopiesRetained /\ LogBounded

====
