-------------------------- MODULE StateTransaction --------------------------
(***************************************************************************)
(* commitParticipantState: one IndexedDB write transaction that is kept    *)
(* alive by a heartbeat request while a validator, which also waits on     *)
(* work outside the database, reads through a queue; the writes are issued *)
(* from a heartbeat's callback once validation has ended and every read is *)
(* answered; a deadline bounds validation.                                 *)
(*                                                                         *)
(* The browser's side is external: requests are answered in order, a       *)
(* transaction commits by itself when no request is left, it may fail at   *)
(* any moment, and an abort fails every request before it is reported.     *)
(* Each action is one task of the event loop.                              *)
(***************************************************************************)
EXTENDS Naturals, Sequences, FiniteSets, SequenceTheorems, TLAPS

CONSTANTS
    Reads,      \* the reads a validator may ask for
    Strict      \* whether the browser may offer strict durability

ASSUME StateTransactionAssumption ==
    /\ Strict \subseteq BOOLEAN /\ Strict # {}
    /\ "heartbeat" \notin Reads /\ "write" \notin Reads

VARIABLES
    idb,            \* the browser's transaction
    requests,       \* its requests that are not answered, in order
    queue,          \* the reads that wait for an active callback
    pendingReads,   \* the count of reads issued and not answered
    reads,          \* what each read's promise is
    validator,      \* "running", "ended", "failed" or "absent"
    validated,
    written,
    failed,         \* whether failure is set
    finished,
    timer,          \* "armed", "cleared" or "fired"
    reported        \* how the call ended

transactionVars == <<idb, requests, queue, pendingReads, reads, validator, validated,
          written, failed, finished, timer, reported>>

caller == <<validator, validated>>

\* The types of what the call and the browser keep (the timer and the count of
\* pending reads follow from their assignments).
TransactionTypes ==
    /\ idb \in {"active", "committing", "aborting", "committed", "aborted"}
    /\ requests \in Seq(Reads \cup {"heartbeat", "write"})
    /\ queue \in Seq(Reads)
    /\ reads \in [Reads -> {"unasked", "waiting", "answered", "rejected"}]
    /\ validator \in {"running", "ended", "failed", "absent"}
    /\ validated \in BOOLEAN /\ written \in BOOLEAN
    /\ failed \in BOOLEAN /\ finished \in BOOLEAN
    /\ reported \in {"none", "resolved", "rejected"}

\* The transaction is opened, the deadline armed and, with strict durability,
\* the first heartbeat sent and the validator started.
TransactionInit ==
    /\ queue = << >>
    /\ pendingReads = 0
    /\ reads = [r \in Reads |-> "unasked"]
    /\ validated = FALSE /\ written = FALSE /\ finished = FALSE
    /\ timer = "armed"
    /\ reported = "none"
    /\ \E strict \in Strict :
         /\ failed = ~strict
         /\ validator = IF strict THEN "running" ELSE "absent"
         /\ idb = IF strict THEN "active" ELSE "aborting"
         /\ requests = IF strict THEN <<"heartbeat">> ELSE << >>

\* abort: the first failure is kept, and a transaction that has begun to
\* commit cannot be aborted any more.
Aborted(state) == IF state = "active" THEN "aborting" ELSE state

Abort ==
    /\ failed' = TRUE
    /\ idb' = IF finished THEN idb ELSE Aborted(idb)

Answerable == idb = "active" /\ requests # << >>

----
(* The validator.                                                          *)

AskLate(r) ==
    /\ reads[r] = "unasked"
    /\ ~finished
    /\ validated \/ written
    /\ reads' = [reads EXCEPT ![r] = "rejected"]
    /\ Abort
    /\ UNCHANGED <<requests, queue, pendingReads, caller, written, finished,
                   timer, reported>>

Ask(r) ==
    /\ reads[r] = "unasked"
    /\ validator = "running"
    /\ ~finished /\ ~validated /\ ~written
    /\ reads' = [reads EXCEPT ![r] = "waiting"]
    /\ queue' = Append(queue, r)
    /\ UNCHANGED <<idb, requests, pendingReads, caller, written, failed,
                   finished, timer, reported>>

AskFinished(r) ==
    /\ reads[r] = "unasked"
    /\ validator # "absent"
    /\ finished
    /\ reads' = [reads EXCEPT ![r] = "rejected"]
    /\ UNCHANGED <<idb, requests, queue, pendingReads, caller, written,
                   failed, finished, timer, reported>>

\* The validator returns. It should have awaited its reads, and need not have.
Validated ==
    /\ validator = "running"
    /\ validator' = "ended"
    /\ validated' = TRUE
    /\ UNCHANGED <<idb, requests, queue, pendingReads, reads, written, failed,
                   finished, timer, reported>>

ValidatorFails ==
    /\ validator = "running"
    /\ validator' = "failed"
    /\ Abort
    /\ UNCHANGED <<requests, queue, pendingReads, reads, validated, written,
                   finished, timer, reported>>

\* Mutant: the deadline is recorded and the transaction goes on.
PatientDeadline ==
    /\ timer = "armed"
    /\ timer' = "fired"
    /\ UNCHANGED <<idb, failed, requests, queue, pendingReads, reads, caller, written,
                   finished, reported>>

Deadline ==
    /\ timer = "armed"
    /\ timer' = "fired"
    /\ Abort
    /\ UNCHANGED <<requests, queue, pendingReads, reads, caller, written,
                   finished, reported>>

----
(* Request callbacks.                                                      *)

ReadyToWrite == validated /\ pendingReads = 0 /\ queue = << >>

\* Mutant: the heartbeat stops while the validator has no read queued.
HeartbeatReadsOnce ==
    /\ Answerable /\ Head(requests) = "heartbeat"
    /\ ~failed /\ ~ReadyToWrite
    /\ requests' = Tail(requests) \o queue
                     \o (IF queue = << >> THEN << >> ELSE <<"heartbeat">>)
    /\ pendingReads' = pendingReads + Len(queue)
    /\ queue' = << >>
    /\ UNCHANGED <<idb, reads, caller, written, failed, finished, timer,
                   reported>>

HeartbeatReads ==
    /\ Answerable /\ Head(requests) = "heartbeat"
    /\ ~failed /\ ~ReadyToWrite
    /\ requests' = Tail(requests) \o queue \o <<"heartbeat">>
    /\ pendingReads' = pendingReads + Len(queue)
    /\ queue' = << >>
    /\ UNCHANGED <<idb, reads, caller, written, failed, finished, timer,
                   reported>>

\* Issuing a queued read throws: the reads before it are issued, the read is
\* rejected, those behind it stay in the queue.
HeartbeatIssueFails ==
    /\ Answerable /\ Head(requests) = "heartbeat"
    /\ ~failed
    /\ \E i \in 1 .. Len(queue) :
         /\ requests' = Tail(requests) \o SubSeq(queue, 1, i - 1)
         /\ pendingReads' = pendingReads + i - 1
         /\ reads' = [reads EXCEPT ![queue[i]] = "rejected"]
         /\ queue' = SubSeq(queue, i + 1, Len(queue))
    /\ Abort
    /\ UNCHANGED <<caller, written, finished, timer, reported>>

\* The writes are issued, synchronously, or the writer throws.
HeartbeatWrites ==
    /\ Answerable /\ Head(requests) = "heartbeat"
    /\ ~failed /\ ReadyToWrite
    /\ timer' = IF timer = "armed" THEN "cleared" ELSE timer
    /\ written' = TRUE
    /\ \/ /\ requests' = Append(Tail(requests), "write")
          /\ UNCHANGED <<idb, failed>>
       \/ /\ requests' \in { Tail(requests), Append(Tail(requests), "write") }
          /\ Abort
    /\ UNCHANGED <<queue, pendingReads, reads, caller, finished, reported>>

ReadAnswered ==
    /\ Answerable /\ Head(requests) \in Reads
    /\ requests' = Tail(requests)
    /\ pendingReads' = pendingReads - 1
    /\ reads' = [reads EXCEPT ![Head(requests)] = "answered"]
    /\ UNCHANGED <<idb, queue, caller, written, failed, finished, timer,
                   reported>>

WriteAnswered ==
    /\ Answerable /\ Head(requests) = "write"
    /\ requests' = Tail(requests)
    /\ UNCHANGED <<idb, queue, pendingReads, reads, caller, written, failed,
                   finished, timer, reported>>

\* A request fails: its read is rejected and the transaction aborted.
FailHead ==
    /\ requests # << >>
    /\ requests' = Tail(requests)
    /\ IF Head(requests) \in Reads
       THEN /\ pendingReads' = pendingReads - 1
            /\ reads' = [reads EXCEPT ![Head(requests)] = "rejected"]
       ELSE UNCHANGED <<pendingReads, reads>>
    /\ Abort
    /\ UNCHANGED <<queue, caller, written, finished, timer, reported>>

RequestFails == idb = "active" /\ FailHead

\* An abort fails every request that is left.
AbortFailsRequest == idb = "aborting" /\ FailHead

----
(* The end of the transaction.                                             *)

\* A transaction without requests commits by itself; the browser may also
\* fail it, before or while it commits.
AutoCommit ==
    /\ idb = "active" /\ requests = << >>
    /\ idb' = "committing"
    /\ UNCHANGED <<requests, queue, pendingReads, reads, caller, written,
                   failed, finished, timer, reported>>

BrowserAborts ==
    /\ idb \in {"active", "committing"}
    /\ idb' = "aborting"
    /\ UNCHANGED <<requests, queue, pendingReads, reads, caller, written,
                   failed, finished, timer, reported>>

\* Every read that is not answered is rejected; the call ends and clears the
\* deadline.
Finish ==
    /\ finished' = TRUE
    /\ queue' = << >>
    /\ reads' = [r \in Reads |->
                   IF reads[r] = "waiting" THEN "rejected" ELSE reads[r]]
    /\ timer' = IF timer = "armed" THEN "cleared" ELSE timer

\* The browser makes the writes durable, and reports it in a later task.
BrowserCommits ==
    /\ idb = "committing"
    /\ idb' = "committed"
    /\ UNCHANGED <<requests, queue, pendingReads, reads, caller, written,
                   failed, finished, timer, reported>>

OnComplete ==
    /\ idb = "committed" /\ ~finished
    /\ Finish
    /\ reported' = IF written /\ ~failed THEN "resolved" ELSE "rejected"
    /\ UNCHANGED <<idb, requests, pendingReads, caller, written, failed>>

\* Mutant: an abort after the writes is taken for their commit.
OnAbortResolves ==
    /\ idb = "aborting" /\ requests = << >>
    /\ idb' = "aborted"
    /\ Finish
    /\ reported' = IF written /\ ~failed THEN "resolved" ELSE "rejected"
    /\ UNCHANGED <<requests, pendingReads, caller, written, failed>>

OnAbort ==
    /\ idb = "aborting" /\ requests = << >>
    /\ idb' = "aborted"
    /\ Finish
    /\ reported' = "rejected"
    /\ UNCHANGED <<requests, pendingReads, caller, written, failed>>

----
Callbacks ==
    \/ HeartbeatReads \/ HeartbeatIssueFails \/ HeartbeatWrites
    \/ ReadAnswered \/ WriteAnswered \/ AbortFailsRequest

Ends == AutoCommit \/ BrowserCommits \/ OnComplete \/ OnAbort

TransactionNext ==
    \/ \E r \in Reads : Ask(r) \/ AskLate(r) \/ AskFinished(r)
    \/ Validated \/ ValidatorFails \/ Deadline
    \/ Callbacks \/ RequestFails \/ BrowserAborts \/ Ends

TransactionSpec == TransactionInit /\ [][TransactionNext]_transactionVars

----
\* The transaction never commits before its writes: the heartbeat keeps it
\* alive through every wait of the validator outside the database, and stops
\* only for the writes or for a failure that aborts the transaction.
NeverCommitsEarly == idb \in {"committing", "committed"} => written

\* The writes are issued only after the validator accepted the state and every
\* read it had asked for was answered, also one it did not wait for.
WritesFollowValidation ==
    written => /\ validated
               /\ validator = "ended"
               /\ \A r \in Reads : reads[r] # "waiting"

\* The call ends only when the transaction has ended, so the state that the
\* caller then authenticates is the state that stays; and every read's promise
\* has then settled, so that no validator waits for ever.
EndsWithTheTransaction ==
    reported # "none" =>
        /\ idb \in {"committed", "aborted"}
        /\ \A r \in Reads : reads[r] # "waiting"

\* What is stored, for the caller.
Stored == IF idb = "committed" /\ written THEN "new" ELSE "old"

Commit == INSTANCE AtomicCommit WITH stored <- Stored, reported <- reported

\* The storage call is an atomic commit: success is reported only for stored
\* writes, and nothing is stored after the report.
ImplementsAtomicCommit == Commit!Spec

CallEnded == reported # "none"

\* Success is never reported over a read that was refused or failed, not even
\* over one asked for after validation while the writes were committing, which
\* can no longer be undone.
LateReadsAreReported ==
    [][reported' = "resolved" /\ reported = "none" =>
         \A r \in Reads : reads'[r] \in {"unasked", "answered"}]_transactionVars

\* In whatever order reads, answers, faults and the deadline come, a transaction
\* commits only validated writes and the call ends after it.
TransactionSafe ==
    /\ TransactionTypes
    /\ NeverCommitsEarly /\ WritesFollowValidation /\ EndsWithTheTransaction

\* The caller sees one atomic commit, and success only where every read was served.
TransactionAtomic == ImplementsAtomicCommit /\ LateReadsAreReported

----
(* The proofs, for any reads and whatever durability the browser offers.   *)

Within(r, s) == \E i \in 1 .. Len(s) : s[i] = r

\* Nothing is behind the heartbeat, so its callback finds every issued read
\* answered; and it is there until the writes are.
HeartbeatLast ==
    /\ \A i \in 1 .. Len(requests) :
         requests[i] = "heartbeat" => i = Len(requests)
    /\ idb = "active" /\ ~written => Within("heartbeat", requests)

\* A read that is not settled waits in the queue or is issued.
WaitingHeld ==
    \A r \in Reads :
      reads[r] = "waiting" => Within(r, queue) \/ Within(r, requests)

\* How far the call is agrees with how far the transaction is.
PhasesAgree ==
    /\ idb = "active" => ~failed
    /\ finished <=> reported # "none"
    /\ finished => idb \in {"committed", "aborted"}
    /\ validated => validator = "ended"

NothingRefused ==
    ~failed /\ ~finished => \A r \in Reads : reads[r] # "rejected"

TransactionIInv ==
    /\ TransactionTypes
    /\ HeartbeatLast /\ WaitingHeld /\ PhasesAgree /\ NothingRefused
    /\ NeverCommitsEarly /\ WritesFollowValidation /\ EndsWithTheTransaction

\* What is left of a sequence when its first member is taken.
LEMMA TailMembers ==
  ASSUME NEW S, NEW s \in Seq(S), s # << >>
  PROVE  /\ Tail(s) \in Seq(S)
         /\ Len(Tail(s)) = Len(s) - 1
         /\ Len(s) \in Nat /\ Len(s) > 0
         /\ Head(s) = s[1]
         /\ \A i \in 1 .. Len(s) - 1 : Tail(s)[i] = s[i + 1]
         /\ \A r : Within(r, s) => r = Head(s) \/ Within(r, Tail(s))
         /\ \A r : Within(r, Tail(s)) => Within(r, s)
<1>1. /\ Tail(s) \in Seq(S)
      /\ Len(Tail(s)) = Len(s) - 1
      /\ Len(s) \in Nat /\ Len(s) > 0
      /\ Head(s) = s[1]
      /\ \A i \in 1 .. Len(s) - 1 : Tail(s)[i] = s[i + 1]
  OBVIOUS
<1>2. ASSUME NEW r, Within(r, s) PROVE r = Head(s) \/ Within(r, Tail(s))
  <2>1. PICK i \in 1 .. Len(s) : s[i] = r
    BY <1>2 DEF Within
  <2>2. CASE i = 1
    BY <1>1, <2>1, <2>2
  <2>3. CASE i # 1
    <3>1. i - 1 \in 1 .. Len(s) - 1 /\ (i - 1) + 1 = i
      BY <1>1, <2>3
    <3>2. Tail(s)[i - 1] = r
      BY <1>1, <2>1, <3>1
    <3>3. QED
      BY <1>1, <3>1, <3>2 DEF Within
  <2>4. QED
    BY <2>2, <2>3
<1>3. ASSUME NEW r, Within(r, Tail(s)) PROVE Within(r, s)
  <2>1. PICK i \in 1 .. Len(s) - 1 : Tail(s)[i] = r
    BY <1>1, <1>3 DEF Within
  <2>2. i + 1 \in 1 .. Len(s) /\ s[i + 1] = r
    BY <1>1, <2>1
  <2>3. QED
    BY <2>2 DEF Within
<1>4. QED
  BY <1>1, <1>2, <1>3

\* What one sequence after another holds.
LEMMA ConcatMembers ==
  ASSUME NEW S, NEW s \in Seq(S), NEW t \in Seq(S)
  PROVE  /\ s \o t \in Seq(S)
         /\ Len(s \o t) = Len(s) + Len(t)
         /\ \A r : Within(r, s) \/ Within(r, t) <=> Within(r, s \o t)
<1>1. /\ s \o t \in Seq(S)
      /\ Len(s \o t) = Len(s) + Len(t)
      /\ Len(s) \in Nat /\ Len(t) \in Nat
      /\ \A i \in 1 .. Len(s) + Len(t) :
           (s \o t)[i] = IF i <= Len(s) THEN s[i] ELSE t[i - Len(s)]
  OBVIOUS
<1>2. ASSUME NEW r, Within(r, s) PROVE Within(r, s \o t)
  <2>1. PICK i \in 1 .. Len(s) : s[i] = r
    BY <1>2 DEF Within
  <2>2. i \in 1 .. Len(s) + Len(t) /\ i <= Len(s)
    BY <1>1, <2>1
  <2>3. QED
    BY <1>1, <2>1, <2>2 DEF Within
<1>3. ASSUME NEW r, Within(r, t) PROVE Within(r, s \o t)
  <2>1. PICK i \in 1 .. Len(t) : t[i] = r
    BY <1>3 DEF Within
  <2>2. Len(s) + i \in 1 .. Len(s) + Len(t) /\ ~(Len(s) + i <= Len(s)) /\ (Len(s) + i) - Len(s) = i
    BY <1>1, <2>1
  <2>3. QED
    BY <1>1, <2>1, <2>2 DEF Within
<1>4. ASSUME NEW r, Within(r, s \o t) PROVE Within(r, s) \/ Within(r, t)
  <2>1. PICK i \in 1 .. Len(s) + Len(t) : (s \o t)[i] = r
    BY <1>1, <1>4 DEF Within
  <2>2. CASE i <= Len(s)
    BY <1>1, <2>1, <2>2 DEF Within
  <2>3. CASE ~(i <= Len(s))
    <3>1. i - Len(s) \in 1 .. Len(t) /\ t[i - Len(s)] = r
      BY <1>1, <2>1, <2>3
    <3>2. QED
      BY <3>1 DEF Within
  <2>4. QED
    BY <2>2, <2>3
<1>5. QED
  BY <1>1, <1>2, <1>3, <1>4

\* The start of a sequence and what is behind one of its members.
LEMMA PartMembers ==
  ASSUME NEW S, NEW s \in Seq(S), NEW k \in 1 .. Len(s)
  PROVE  /\ SubSeq(s, 1, k - 1) \in Seq(S)
         /\ SubSeq(s, k + 1, Len(s)) \in Seq(S)
         /\ s[k] \in S
         /\ \A r : Within(r, s) =>
              \/ r = s[k]
              \/ Within(r, SubSeq(s, 1, k - 1))
              \/ Within(r, SubSeq(s, k + 1, Len(s)))
<1>1. Len(s) \in Nat /\ s \in [1 .. Len(s) -> S]
  OBVIOUS
<1>2. /\ SubSeq(s, 1, k - 1) \in Seq(S)
      /\ Len(SubSeq(s, 1, k - 1)) = k - 1
      /\ \A i \in 1 .. k - 1 : SubSeq(s, 1, k - 1)[i] = s[i]
  BY <1>1, SubSeqProperties
<1>3. /\ SubSeq(s, k + 1, Len(s)) \in Seq(S)
      /\ Len(SubSeq(s, k + 1, Len(s))) = Len(s) - k
      /\ \A i \in 1 .. Len(s) - k : SubSeq(s, k + 1, Len(s))[i] = s[i + k]
  <2>1. k + 1 \in Int /\ Len(s) \in Int /\ \A i \in k + 1 .. Len(s) : s[i] \in S
    BY <1>1
  <2>2. /\ SubSeq(s, k + 1, Len(s)) \in Seq(S)
        /\ Len(SubSeq(s, k + 1, Len(s))) =
             IF k + 1 <= Len(s) THEN Len(s) - (k + 1) + 1 ELSE 0
        /\ \A i \in 1 .. Len(s) - (k + 1) + 1 :
             SubSeq(s, k + 1, Len(s))[i] = s[(k + 1) + i - 1]
    BY <2>1, SubSeqProperties
  <2>3. \A i \in 1 .. Len(s) - k : (k + 1) + i - 1 = i + k
    BY <1>1
  <2>4. Len(s) - (k + 1) + 1 = Len(s) - k
    BY <1>1
  <2>5. Len(SubSeq(s, k + 1, Len(s))) = Len(s) - k
    <3>1. CASE k + 1 <= Len(s)
      BY <2>2, <2>4, <3>1
    <3>2. CASE ~(k + 1 <= Len(s))
      <4>1. \A n \in Nat : \A j \in 1 .. n : ~(j + 1 <= n) => n - j = 0
        OBVIOUS
      <4>2. Len(s) - k = 0
        BY <1>1, <3>2, <4>1
      <4>3. QED
        BY <2>2, <3>2, <4>2
    <3>3. QED
      BY <3>1, <3>2
  <2>6. QED
    BY <2>2, <2>3, <2>4, <2>5
<1>6. ASSUME NEW r, Within(r, s), r # s[k]
      PROVE  \/ Within(r, SubSeq(s, 1, k - 1))
             \/ Within(r, SubSeq(s, k + 1, Len(s)))
  <2>1. PICK i \in 1 .. Len(s) : s[i] = r
    BY <1>6 DEF Within
  <2>2. CASE i < k
    BY <1>1, <1>2, <2>1, <2>2 DEF Within
  <2>3. CASE i > k
    <3>1. i - k \in 1 .. Len(s) - k /\ (i - k) + k = i
      BY <1>1, <2>3
    <3>2. QED
      BY <1>3, <2>1, <3>1 DEF Within
  <2>4. i # k
    BY <1>6, <2>1
  <2>5. QED
    BY <2>2, <2>3, <2>4
<1>7. QED
  BY <1>1, <1>2, <1>3, <1>6

\* An abort ends an active transaction and leaves one that has ended.
LEMMA AbortEffect ==
  ASSUME TransactionIInv, Abort
  PROVE  /\ failed'
         /\ failed' \in BOOLEAN
         /\ idb' \in {"committing", "aborting", "committed", "aborted"}
         /\ idb # "active" => idb' = idb
         /\ idb = "active" => idb' = "aborting"
BY DEF TransactionIInv, TransactionTypes, PhasesAgree, Abort, Aborted

\* The transaction as commitParticipantState opens it satisfies the invariant.
LEMMA TransactionStarts ==
  TransactionInit => TransactionIInv
<1> SUFFICES ASSUME TransactionInit PROVE TransactionIInv
  OBVIOUS
<1>1. PICK strict \in Strict :
        /\ failed = ~strict
        /\ validator = IF strict THEN "running" ELSE "absent"
        /\ idb = IF strict THEN "active" ELSE "aborting"
        /\ requests = IF strict THEN <<"heartbeat">> ELSE << >>
  BY DEF TransactionInit
<1>2. strict \in BOOLEAN
  BY StateTransactionAssumption
<1>3. /\ requests = <<"heartbeat">> \/ requests = << >>
      /\ idb = "active" => requests = <<"heartbeat">>
      /\ idb = "active" => ~failed
      /\ idb \in {"active", "aborting"}
      /\ validator \in {"running", "absent"}
      /\ failed \in BOOLEAN
  BY <1>1, <1>2
<1>4. /\ requests \in Seq(Reads \cup {"heartbeat", "write"})
      /\ \A i \in 1 .. Len(requests) : requests[i] = "heartbeat" => i = Len(requests)
  <2>1. CASE requests = <<"heartbeat">>
    BY <2>1
  <2>2. CASE requests = << >>
    BY <2>2
  <2>3. QED
    BY <1>3, <2>1, <2>2
<1>5. TransactionTypes
  <2>1. /\ queue = << >> /\ reads = [r \in Reads |-> "unasked"]
        /\ validated = FALSE /\ written = FALSE /\ finished = FALSE /\ reported = "none"
    BY DEF TransactionInit
  <2>2. queue \in Seq(Reads)
    BY <2>1
  <2>3. QED
    BY <1>3, <1>4, <2>1, <2>2 DEF TransactionTypes
<1>6. HeartbeatLast
  <2>1. ASSUME idb = "active" PROVE Within("heartbeat", requests)
    <3>1. Len(requests) = 1 /\ requests[1] = "heartbeat"
      BY <1>3, <2>1
    <3>2. QED
      BY <3>1 DEF Within
  <2>2. QED
    BY <1>4, <2>1 DEF HeartbeatLast
<1>7. WaitingHeld /\ NothingRefused
  BY DEF TransactionInit, WaitingHeld, NothingRefused
<1>8. PhasesAgree /\ NeverCommitsEarly /\ WritesFollowValidation /\ EndsWithTheTransaction
  BY <1>3 DEF TransactionInit, PhasesAgree, NeverCommitsEarly,
              WritesFollowValidation, EndsWithTheTransaction
<1>9. QED
  BY <1>5, <1>6, <1>7, <1>8 DEF TransactionIInv

\* A read that is asked for joins the queue.
LEMMA AskKeeps ==
  ASSUME TransactionIInv, NEW r \in Reads, Ask(r)
  PROVE  TransactionIInv'
<1> USE DEF TransactionIInv
<1>1. TransactionTypes'
  BY DEF TransactionTypes, Ask, caller
<1>2. queue \in Seq(Reads) /\ queue' = Append(queue, r)
  BY DEF TransactionTypes, Ask
<1>3. queue' = queue \o <<r>> /\ <<r>> \in Seq(Reads)
  BY <1>2
<1>4. Len(<<r>>) = 1 /\ <<r>>[1] = r
  OBVIOUS
<1>5. Within(r, <<r>>)
  BY <1>4 DEF Within
<1>6. \A q : Within(q, queue) \/ q = r => Within(q, queue')
  <2>1. \A q : Within(q, queue) \/ Within(q, <<r>>) <=> Within(q, queue \o <<r>>)
    BY <1>2, <1>3, ConcatMembers
  <2>2. QED
    BY <1>3, <1>5, <2>1
<1>7. HeartbeatLast'
  BY DEF HeartbeatLast, Within, Ask, caller
<1>8. ASSUME NEW q \in Reads, reads'[q] = "waiting"
      PROVE  Within(q, queue') \/ Within(q, requests')
  BY <1>6, <1>8 DEF Ask, TransactionTypes, WaitingHeld
<1>9. WaitingHeld'
  BY <1>8 DEF WaitingHeld
<1>10. PhasesAgree' /\ NeverCommitsEarly'
  BY DEF PhasesAgree, NeverCommitsEarly, Ask, caller
<1>11. NothingRefused'
  BY DEF NothingRefused, Ask, TransactionTypes
<1>12. WritesFollowValidation' /\ EndsWithTheTransaction'
  BY DEF WritesFollowValidation, EndsWithTheTransaction, PhasesAgree, Ask, TransactionTypes, caller
<1>13. QED
  BY <1>1, <1>7, <1>9, <1>10, <1>11, <1>12

\* Steps that move no read and no request: a refused read, the validator's end,
\* the deadline, and the browser's own steps towards a commit or an abort.
LEMMA QuietKeeps ==
  ASSUME TransactionIInv,
         \/ \E r \in Reads : AskLate(r) \/ AskFinished(r)
         \/ Validated \/ ValidatorFails \/ Deadline
         \/ AutoCommit \/ BrowserAborts \/ BrowserCommits
  PROVE  TransactionIInv'
<1> USE DEF TransactionIInv
<1>1. UNCHANGED <<requests, queue, written, finished, reported>>
  BY DEF AskLate, AskFinished, Validated, ValidatorFails, Deadline, AutoCommit,
         BrowserAborts, BrowserCommits, caller
<1>2. /\ reads' \in [Reads -> {"unasked", "waiting", "answered", "rejected"}]
      /\ \A r \in Reads : reads'[r] = "waiting" => reads[r] = "waiting"
      /\ ~failed' /\ ~finished => reads' = reads
  BY DEF TransactionTypes, AskLate, AskFinished, Validated, ValidatorFails, Deadline,
         AutoCommit, BrowserAborts, BrowserCommits, Abort
<1>3. /\ idb' \in {"active", "committing", "aborting", "committed", "aborted"}
      /\ failed' \in BOOLEAN /\ (failed => failed')
      /\ idb' = "active" => idb = "active" /\ ~failed'
      /\ finished => idb' = idb
  <2>1. CASE Abort
    BY <2>1, AbortEffect DEF TransactionTypes, PhasesAgree
  <2>2. CASE UNCHANGED failed /\ (UNCHANGED idb \/ AutoCommit \/ BrowserAborts \/ BrowserCommits)
    BY <2>2 DEF TransactionTypes, PhasesAgree, AutoCommit, BrowserAborts, BrowserCommits
  <2>3. QED
    BY <2>1, <2>2 DEF AskLate, AskFinished, Validated, ValidatorFails, Deadline,
                      AutoCommit, BrowserAborts, BrowserCommits
<1>4. idb' \in {"committing", "committed"} => written
  <2>1. CASE Abort
    BY <2>1, AbortEffect DEF NeverCommitsEarly
  <2>2. CASE AutoCommit
    <3>1. idb = "active" /\ requests = << >>
      BY <2>2 DEF AutoCommit
    <3>2. ~Within("heartbeat", requests)
      BY <3>1 DEF Within
    <3>3. QED
      BY <3>1, <3>2 DEF HeartbeatLast
  <2>3. CASE UNCHANGED idb \/ BrowserAborts \/ BrowserCommits
    BY <2>3 DEF NeverCommitsEarly, BrowserAborts, BrowserCommits
  <2>4. QED
    BY <2>1, <2>2, <2>3 DEF AskLate, AskFinished, Validated, ValidatorFails, Deadline
<1>5. /\ validator' \in {"running", "ended", "failed", "absent"} /\ validated' \in BOOLEAN
      /\ validated' => validator' = "ended"
      /\ validated => validated'
  <2>1. CASE UNCHANGED <<validator, validated>>
    BY <2>1 DEF TransactionTypes, PhasesAgree
  <2>2. CASE Validated
    BY <2>2 DEF Validated
  <2>3. CASE ValidatorFails
    BY <2>3 DEF TransactionTypes, PhasesAgree, ValidatorFails
  <2>4. QED
    BY <2>1, <2>2, <2>3 DEF AskLate, AskFinished, Deadline, AutoCommit, BrowserAborts,
                            BrowserCommits, caller
<1>6. TransactionTypes'
  BY <1>1, <1>2, <1>3, <1>5 DEF TransactionTypes
<1>7. HeartbeatLast'
  BY <1>1, <1>3 DEF HeartbeatLast, Within
<1>8. WaitingHeld'
  BY <1>1, <1>2 DEF WaitingHeld, Within
<1>9. PhasesAgree'
  BY <1>1, <1>3, <1>5 DEF PhasesAgree
<1>10. NothingRefused'
  BY <1>1, <1>2, <1>3 DEF NothingRefused
<1>11. NeverCommitsEarly'
  BY <1>1, <1>4 DEF NeverCommitsEarly
<1>12. WritesFollowValidation' /\ EndsWithTheTransaction'
  BY <1>1, <1>2, <1>3, <1>5 DEF WritesFollowValidation, EndsWithTheTransaction, PhasesAgree
<1>13. QED
  BY <1>6, <1>7, <1>8, <1>9, <1>10, <1>11, <1>12

\* The end of the call settles every read.
LEMMA FinishKeeps ==
  ASSUME TransactionIInv, OnComplete \/ OnAbort
  PROVE  TransactionIInv'
<1> USE DEF TransactionIInv
<1>1. /\ Finish
      /\ UNCHANGED <<requests, validator, validated, written, failed>>
      /\ idb' \in {"committed", "aborted"}
      /\ idb' = "committed" => idb = "committed"
      /\ reported' \in {"resolved", "rejected"}
  BY DEF OnComplete, OnAbort, caller
<1>2. /\ reads' \in [Reads -> {"unasked", "waiting", "answered", "rejected"}]
      /\ \A r \in Reads : reads'[r] # "waiting"
      /\ queue' \in Seq(Reads)
      /\ finished'  /\ finished' \in BOOLEAN
  BY <1>1 DEF Finish, TransactionTypes
<1>3. TransactionTypes'
  BY <1>1, <1>2 DEF TransactionTypes
<1>4. HeartbeatLast'
  BY <1>1 DEF HeartbeatLast
<1>5. WaitingHeld' /\ NothingRefused'
  BY <1>2 DEF WaitingHeld, NothingRefused
<1>6. PhasesAgree' /\ NeverCommitsEarly'
  BY <1>1, <1>2 DEF PhasesAgree, NeverCommitsEarly
<1>7. WritesFollowValidation' /\ EndsWithTheTransaction'
  BY <1>1, <1>2 DEF WritesFollowValidation, EndsWithTheTransaction
<1>8. QED
  BY <1>3, <1>4, <1>5, <1>6, <1>7

\* The heartbeat's callback finds no other request.
LEMMA HeartbeatAlone ==
  ASSUME TransactionIInv, Answerable, Head(requests) = "heartbeat"
  PROVE  /\ Tail(requests) = << >>
         /\ idb = "active" /\ ~failed /\ ~finished
         /\ \A r \in Reads : ~Within(r, requests)
<1> USE DEF TransactionIInv
<1>1. requests \in Seq(Reads \cup {"heartbeat", "write"}) /\ requests # << >>
  BY DEF TransactionTypes, Answerable
<1>2. requests[1] = "heartbeat" /\ Len(requests) \in Nat /\ Len(requests) > 0
  BY <1>1, TailMembers
<1>3. Len(requests) = 1
  <2>1. 1 \in 1 .. Len(requests)
    BY <1>2
  <2>2. QED
    BY <1>2, <2>1 DEF HeartbeatLast
<1>4. Tail(requests) \in Seq(Reads \cup {"heartbeat", "write"}) /\ Len(Tail(requests)) = 0
  BY <1>1, <1>3, TailMembers
<1>5. Tail(requests) = << >>
  BY <1>4, EmptySeq
<1>6. \A r \in Reads : ~Within(r, requests)
  BY <1>2, <1>3, StateTransactionAssumption DEF Within
<1>7. idb = "active" /\ ~failed /\ ~finished
  BY DEF Answerable, PhasesAgree
<1>8. QED
  BY <1>5, <1>6, <1>7

\* Where the validator, the writes and the report stay, and the transaction at
\* most aborts, only the places of the reads are left to be shown.
LEMMA ReadsMoved ==
  ASSUME TransactionIInv,
         UNCHANGED <<validator, validated, written, finished, reported>>,
         Abort \/ (idb = "active" /\ UNCHANGED <<idb, failed>>),
         ~finished,
         requests' \in Seq(Reads \cup {"heartbeat", "write"}),
         queue' \in Seq(Reads),
         reads' \in [Reads -> {"unasked", "waiting", "answered", "rejected"}],
         \A r \in Reads : reads'[r] = "waiting" => reads[r] = "waiting",
         ~failed' => \A r \in Reads : reads'[r] = "rejected" => reads[r] = "rejected",
         HeartbeatLast', WaitingHeld'
  PROVE  TransactionIInv'
<1> USE DEF TransactionIInv
<1>1. /\ idb' \in {"active", "committing", "aborting", "committed", "aborted"}
      /\ failed' \in BOOLEAN
      /\ failed => failed'
      /\ idb' = "active" => ~failed'
      /\ idb' \in {"committing", "committed"} => idb' = idb
  <2>1. CASE Abort
    BY <2>1, AbortEffect
  <2>2. CASE idb = "active" /\ UNCHANGED <<idb, failed>>
    BY <2>2 DEF TransactionTypes, PhasesAgree
  <2>3. QED
    BY <2>1, <2>2
<1>2. TransactionTypes'
  BY <1>1 DEF TransactionTypes
<1>3. PhasesAgree' /\ NeverCommitsEarly'
  BY <1>1 DEF PhasesAgree, NeverCommitsEarly
<1>4. NothingRefused'
  BY <1>1 DEF NothingRefused
<1>5. WritesFollowValidation' /\ EndsWithTheTransaction'
  BY DEF WritesFollowValidation, EndsWithTheTransaction, PhasesAgree
<1>6. QED
  BY <1>2, <1>3, <1>4, <1>5

\* The queued reads are issued before the next heartbeat.
LEMMA HeartbeatReadsKeeps ==
  ASSUME TransactionIInv, HeartbeatReads
  PROVE  TransactionIInv'
<1> DEFINE S == Reads \cup {"heartbeat", "write"}
<1>1. /\ Answerable /\ Head(requests) = "heartbeat"
      /\ requests' = Tail(requests) \o queue \o <<"heartbeat">>
      /\ queue' = << >>
      /\ UNCHANGED <<idb, reads, validator, validated, written, failed, finished, reported>>
  BY DEF HeartbeatReads, caller
<1>2. /\ Tail(requests) = << >> /\ idb = "active" /\ ~finished
      /\ \A r \in Reads : ~Within(r, requests)
  BY <1>1, HeartbeatAlone
<1>3. queue \in Seq(Reads) /\ queue \in Seq(S)
  BY DEF TransactionIInv, TransactionTypes
<1>4. requests' = queue \o <<"heartbeat">>
  <2>1. << >> \o queue = queue
    BY <1>3, ConcatEmptySeq
  <2>2. QED
    BY <1>1, <1>2, <2>1
<1>5. <<"heartbeat">> \in Seq(S) /\ Len(<<"heartbeat">>) = 1 /\ <<"heartbeat">>[1] = "heartbeat"
  OBVIOUS
<1>6. Within("heartbeat", <<"heartbeat">>)
  BY <1>5 DEF Within
<1>7. /\ requests' \in Seq(S) /\ Len(requests') = Len(queue) + 1
      /\ \A r : Within(r, queue) => Within(r, requests')
      /\ Within("heartbeat", requests')
  <2>1. /\ queue \o <<"heartbeat">> \in Seq(S)
        /\ Len(queue \o <<"heartbeat">>) = Len(queue) + Len(<<"heartbeat">>)
        /\ \A r : Within(r, queue) \/ Within(r, <<"heartbeat">>)
                 <=> Within(r, queue \o <<"heartbeat">>)
    BY <1>3, <1>5, ConcatMembers
  <2>2. QED
    BY <1>4, <1>5, <1>6, <2>1
<1>8. HeartbeatLast'
  <2>1. ASSUME NEW i \in 1 .. Len(requests'), i # Len(requests')
        PROVE  requests'[i] # "heartbeat"
    <3>1. i \in 1 .. Len(queue)
      BY <1>3, <1>7, <2>1
    <3>2. requests'[i] = queue[i] /\ queue[i] \in Reads
      BY <1>3, <1>4, <3>1
    <3>3. QED
      BY <3>2, StateTransactionAssumption
  <2>2. QED
    BY <1>7, <2>1 DEF HeartbeatLast
<1>9. WaitingHeld'
  BY <1>1, <1>2, <1>7 DEF TransactionIInv, WaitingHeld
<1>10. /\ queue' \in Seq(Reads)
       /\ reads' \in [Reads -> {"unasked", "waiting", "answered", "rejected"}]
  BY <1>1 DEF TransactionIInv, TransactionTypes
<1>11. QED
  BY <1>1, <1>2, <1>7, <1>8, <1>9, <1>10, ReadsMoved

\* A read that cannot be issued is rejected, and the transaction aborted.
LEMMA HeartbeatIssueFailsKeeps ==
  ASSUME TransactionIInv, HeartbeatIssueFails
  PROVE  TransactionIInv'
<1> DEFINE S == Reads \cup {"heartbeat", "write"}
<1>1. /\ Answerable /\ Head(requests) = "heartbeat" /\ Abort
      /\ UNCHANGED <<validator, validated, written, finished, reported>>
  BY DEF HeartbeatIssueFails, caller
<1>2. /\ Tail(requests) = << >> /\ idb = "active" /\ ~finished
      /\ \A r \in Reads : ~Within(r, requests)
  BY <1>1, HeartbeatAlone
<1>3. /\ queue \in Seq(Reads)
      /\ reads \in [Reads -> {"unasked", "waiting", "answered", "rejected"}]
  BY DEF TransactionIInv, TransactionTypes
<1>4. PICK k \in 1 .. Len(queue) :
        /\ requests' = Tail(requests) \o SubSeq(queue, 1, k - 1)
        /\ reads' = [reads EXCEPT ![queue[k]] = "rejected"]
        /\ queue' = SubSeq(queue, k + 1, Len(queue))
  BY DEF HeartbeatIssueFails
<1>5. /\ SubSeq(queue, 1, k - 1) \in Seq(Reads)
      /\ SubSeq(queue, k + 1, Len(queue)) \in Seq(Reads)
      /\ queue[k] \in Reads
      /\ \A r : Within(r, queue) =>
           \/ r = queue[k]
           \/ Within(r, SubSeq(queue, 1, k - 1))
           \/ Within(r, SubSeq(queue, k + 1, Len(queue)))
  BY <1>3, PartMembers
<1>6. requests' = SubSeq(queue, 1, k - 1)
  <2>1. << >> \o SubSeq(queue, 1, k - 1) = SubSeq(queue, 1, k - 1)
    BY <1>5, ConcatEmptySeq
  <2>2. QED
    BY <1>2, <1>4, <2>1
<1>7. requests' \in Seq(Reads) /\ requests' \in Seq(S) /\ queue' \in Seq(Reads)
  <2>1. requests' \in Seq(Reads) /\ queue' \in Seq(Reads)
    BY <1>4, <1>5, <1>6
  <2>2. requests' \in Seq(S)
    BY <2>1
  <2>3. QED
    BY <2>1, <2>2
<1>8. HeartbeatLast'
  <2>1. \A i \in 1 .. Len(requests') : requests'[i] \in Reads
    BY <1>7
  <2>2. idb' # "active"
    BY <1>1, <1>2, AbortEffect
  <2>3. QED
    BY <2>1, <2>2, StateTransactionAssumption DEF HeartbeatLast
<1>9. WaitingHeld'
  BY <1>2, <1>3, <1>4, <1>5, <1>6 DEF TransactionIInv, WaitingHeld
<1>10. /\ reads' \in [Reads -> {"unasked", "waiting", "answered", "rejected"}]
       /\ \A r \in Reads : reads'[r] = "waiting" => reads[r] = "waiting"
  BY <1>3, <1>4, <1>5
<1>11. failed'
  BY <1>1, AbortEffect
<1>12. QED
  BY <1>1, <1>2, <1>7, <1>8, <1>9, <1>10, <1>11, ReadsMoved

\* The writes find validation ended and every read settled.
LEMMA HeartbeatWritesKeeps ==
  ASSUME TransactionIInv, HeartbeatWrites
  PROVE  TransactionIInv'
<1> DEFINE S == Reads \cup {"heartbeat", "write"}
<1>1. /\ Answerable /\ Head(requests) = "heartbeat"
      /\ validated /\ queue = << >> /\ written' = TRUE
      /\ requests' \in {Tail(requests), Append(Tail(requests), "write")}
      /\ Abort \/ UNCHANGED <<idb, failed>>
      /\ UNCHANGED <<queue, reads, validator, validated, finished, reported>>
  BY DEF HeartbeatWrites, ReadyToWrite, caller
<1>2. /\ Tail(requests) = << >> /\ idb = "active" /\ ~failed /\ ~finished
      /\ \A r \in Reads : ~Within(r, requests)
  BY <1>1, HeartbeatAlone
<1>3. \A r \in Reads : reads[r] # "waiting"
  <2>1. \A r : ~Within(r, queue)
    BY <1>1 DEF Within
  <2>2. QED
    BY <1>2, <2>1 DEF TransactionIInv, WaitingHeld
<1>4. /\ requests' \in Seq(S)
      /\ \A i \in 1 .. Len(requests') : requests'[i] # "heartbeat"
  <2>1. CASE requests' = << >>
    BY <2>1
  <2>2. CASE requests' = Append(<< >>, "write")
    <3>1. requests' = <<"write">>
      BY <2>2
    <3>2. QED
      BY <3>1
  <2>3. QED
    BY <1>1, <1>2, <2>1, <2>2
<1>5. /\ idb' \in {"active", "aborting"}
      /\ failed' \in BOOLEAN
      /\ idb' = "active" => ~failed'
  <2>1. CASE Abort
    BY <1>2, <2>1, AbortEffect
  <2>2. CASE UNCHANGED <<idb, failed>>
    BY <1>2, <2>2 DEF TransactionIInv, TransactionTypes
  <2>3. QED
    BY <1>1, <2>1, <2>2
<1>6. TransactionTypes'
  BY <1>1, <1>4, <1>5 DEF TransactionIInv, TransactionTypes
<1>7. HeartbeatLast' /\ WaitingHeld'
  BY <1>1, <1>3, <1>4 DEF HeartbeatLast, WaitingHeld
<1>8. PhasesAgree' /\ NeverCommitsEarly'
  BY <1>1, <1>2, <1>5 DEF TransactionIInv, PhasesAgree, NeverCommitsEarly
<1>9. NothingRefused'
  BY <1>1, <1>2 DEF TransactionIInv, NothingRefused
<1>10. WritesFollowValidation' /\ EndsWithTheTransaction'
  BY <1>1, <1>2, <1>3 DEF TransactionIInv, PhasesAgree, WritesFollowValidation,
                          EndsWithTheTransaction
<1>11. QED
  BY <1>6, <1>7, <1>8, <1>9, <1>10 DEF TransactionIInv

\* A request leaves the transaction: it is answered, or it fails and the
\* transaction is aborted.
LEMMA AnswerKeeps ==
  ASSUME TransactionIInv,
         ReadAnswered \/ WriteAnswered \/ RequestFails \/ AbortFailsRequest
  PROVE  TransactionIInv'
<1> DEFINE S == Reads \cup {"heartbeat", "write"}
<1>1. /\ requests # << >> /\ requests' = Tail(requests)
      /\ UNCHANGED <<queue, validator, validated, written, finished, reported>>
      /\ ~finished
  BY DEF TransactionIInv, PhasesAgree, ReadAnswered, WriteAnswered, RequestFails,
         AbortFailsRequest, FailHead, Answerable, caller
<1>2. /\ requests \in Seq(S) /\ queue' \in Seq(Reads)
      /\ reads \in [Reads -> {"unasked", "waiting", "answered", "rejected"}]
  BY <1>1 DEF TransactionIInv, TransactionTypes
<1>3. Abort \/ (idb = "active" /\ UNCHANGED <<idb, failed>> /\ Head(requests) # "heartbeat")
  BY StateTransactionAssumption
     DEF ReadAnswered, WriteAnswered, RequestFails, AbortFailsRequest, FailHead, Answerable
<1>4. /\ reads' \in [Reads -> {"unasked", "waiting", "answered", "rejected"}]
      /\ \A r \in Reads : reads'[r] = "waiting" => reads[r] = "waiting" /\ r # Head(requests)
      /\ Abort \/ \A r \in Reads : reads'[r] = "rejected" => reads[r] = "rejected"
  BY <1>2, StateTransactionAssumption
     DEF ReadAnswered, WriteAnswered, RequestFails, AbortFailsRequest, FailHead
<1>5. /\ requests' \in Seq(S)
      /\ Len(requests') = Len(requests) - 1
      /\ Len(requests) \in Nat
      /\ \A i \in 1 .. Len(requests) - 1 : requests'[i] = requests[i + 1]
      /\ \A r : Within(r, requests) => r = Head(requests) \/ Within(r, requests')
  BY <1>1, <1>2, TailMembers
<1>6. HeartbeatLast'
  <2>1. ASSUME NEW i \in 1 .. Len(requests'), requests'[i] = "heartbeat"
        PROVE  i = Len(requests')
    <3>1. i + 1 \in 1 .. Len(requests) /\ i \in 1 .. Len(requests) - 1
      BY <1>5
    <3>2. requests[i + 1] = "heartbeat"
      BY <1>5, <2>1, <3>1
    <3>3. i + 1 = Len(requests)
      BY <3>1, <3>2 DEF TransactionIInv, HeartbeatLast
    <3>4. QED
      BY <1>5, <3>3
  <2>2. ASSUME idb' = "active", ~written'
        PROVE  Within("heartbeat", requests')
    <3>1. idb = "active" /\ ~written /\ Head(requests) # "heartbeat"
      BY <1>1, <1>3, <2>2, AbortEffect
    <3>2. Within("heartbeat", requests)
      BY <3>1 DEF TransactionIInv, HeartbeatLast
    <3>3. QED
      BY <1>5, <3>1, <3>2
  <2>3. QED
    BY <2>1, <2>2 DEF HeartbeatLast
<1>7. WaitingHeld'
  BY <1>1, <1>4, <1>5 DEF TransactionIInv, WaitingHeld, Within
<1>8. ~failed' => \A r \in Reads : reads'[r] = "rejected" => reads[r] = "rejected"
  BY <1>4, AbortEffect
<1>9. QED
  BY <1>1, <1>2, <1>3, <1>4, <1>5, <1>6, <1>7, <1>8, ReadsMoved

\* Every task of the event loop keeps it.
LEMMA TransactionSteps ==
  TransactionIInv /\ [TransactionNext]_transactionVars => TransactionIInv'
<1> SUFFICES ASSUME TransactionIInv, [TransactionNext]_transactionVars
             PROVE  TransactionIInv'
  OBVIOUS
<1>1. CASE \E r \in Reads : Ask(r)
  BY <1>1, AskKeeps
<1>2. CASE \/ \E r \in Reads : AskLate(r) \/ AskFinished(r)
           \/ Validated \/ ValidatorFails \/ Deadline
           \/ AutoCommit \/ BrowserAborts \/ BrowserCommits
  BY <1>2, QuietKeeps
<1>3. CASE OnComplete \/ OnAbort
  BY <1>3, FinishKeeps
<1>4. CASE HeartbeatReads
  BY <1>4, HeartbeatReadsKeeps
<1>5. CASE HeartbeatIssueFails
  BY <1>5, HeartbeatIssueFailsKeeps
<1>6. CASE HeartbeatWrites
  BY <1>6, HeartbeatWritesKeeps
<1>7. CASE ReadAnswered \/ WriteAnswered \/ RequestFails \/ AbortFailsRequest
  BY <1>7, AnswerKeeps
<1>8. CASE UNCHANGED transactionVars
  <2>1. UNCHANGED <<idb, requests, queue, reads, validator, validated, written, failed,
                    finished, reported>>
    BY <1>8 DEF transactionVars
  <2>2. QED
    BY <2>1 DEF TransactionIInv, TransactionTypes, HeartbeatLast, WaitingHeld, PhasesAgree,
                NothingRefused, NeverCommitsEarly, WritesFollowValidation,
                EndsWithTheTransaction, Within
<1>9. QED
  BY <1>1, <1>2, <1>3, <1>4, <1>5, <1>6, <1>7, <1>8 DEF TransactionNext, Callbacks, Ends

\* The inductive invariant holds throughout, for any reads and any durability.
THEOREM TransactionInvariant == TransactionSpec => []TransactionIInv
BY TransactionStarts, TransactionSteps, PTL DEF TransactionSpec

\* For any number of reads, the transaction never commits without its writes.
THEOREM HeartbeatKeepsTransaction == TransactionSpec => []NeverCommitsEarly
<1>1. TransactionIInv => NeverCommitsEarly
  BY DEF TransactionIInv
<1>2. QED
  BY <1>1, TransactionInvariant, PTL

\* The writes follow the validator's end and the answer of every read, also of
\* reads it did not wait for.
THEOREM WritesAreValidated == TransactionSpec => []WritesFollowValidation
<1>1. TransactionIInv => WritesFollowValidation
  BY DEF TransactionIInv
<1>2. QED
  BY <1>1, TransactionInvariant, PTL

\* The call reports nothing before the transaction has ended and every read is
\* settled.
THEOREM CallEndsLast == TransactionSpec => []EndsWithTheTransaction
<1>1. TransactionIInv => EndsWithTheTransaction
  BY DEF TransactionIInv
<1>2. QED
  BY <1>1, TransactionInvariant, PTL

\* No success is reported over a read that was refused.
THEOREM RefusedReadsAreReported == TransactionSpec => LateReadsAreReported
<1> DEFINE Reported ==
      reported' = "resolved" /\ reported = "none" =>
        \A r \in Reads : reads'[r] \in {"unasked", "answered"}
<1>1. ASSUME TransactionIInv, [TransactionNext]_transactionVars
      PROVE  Reported
  <2>1. SUFFICES ASSUME reported' = "resolved", reported = "none"
                 PROVE  \A r \in Reads : reads'[r] \in {"unasked", "answered"}
    OBVIOUS
  <2>2. OnComplete /\ written /\ ~failed
    BY <1>1, <2>1 DEF TransactionNext, Callbacks, Ends, transactionVars, Ask, AskLate,
         AskFinished, Validated, ValidatorFails, Deadline, HeartbeatReads,
         HeartbeatIssueFails, HeartbeatWrites, ReadAnswered, WriteAnswered, RequestFails,
         AbortFailsRequest, FailHead, AutoCommit, BrowserAborts, BrowserCommits,
         OnComplete, OnAbort
  <2>3. \A r \in Reads : reads[r] \in {"unasked", "answered"}
    BY <1>1, <2>2 DEF TransactionIInv, TransactionTypes, NothingRefused,
                      WritesFollowValidation, OnComplete
  <2>4. QED
    BY <2>2, <2>3 DEF OnComplete, Finish
<1>2. QED
  BY <1>1, TransactionInvariant, PTL DEF TransactionSpec, LateReadsAreReported

\* commitParticipantState is the atomic commit that custody relies on: every
\* step of the browser, the validator and the callbacks is a step of
\* AtomicCommit or none.
THEOREM TransactionIsAtomic == TransactionSpec => ImplementsAtomicCommit
<1>1. TransactionInit => Commit!Init
  BY StateTransactionAssumption DEF TransactionInit, Commit!Init, Stored
<1>2. ASSUME TransactionIInv, [TransactionNext]_transactionVars
      PROVE  [Commit!Next]_(Commit!vars)
  <2>1. CASE BrowserCommits
    <3>1. written /\ ~finished /\ reported = "none"
      BY <1>2, <2>1 DEF BrowserCommits, TransactionIInv, NeverCommitsEarly, PhasesAgree
    <3>2. QED
      BY <2>1, <3>1 DEF BrowserCommits, Stored, Commit!Next, Commit!Apply
  <2>2. CASE OnComplete
    <3>1. written /\ reported = "none" /\ Stored = "new" /\ Stored' = Stored
      BY <1>2, <2>2 DEF OnComplete, TransactionIInv, NeverCommitsEarly, PhasesAgree, Stored
    <3>2. reported' \in {"resolved", "rejected"}
      BY <2>2 DEF OnComplete
    <3>3. QED
      BY <3>1, <3>2 DEF Commit!Next, Commit!ReportSuccess, Commit!ReportFailure
  <2>3. CASE OnAbort
    <3>1. reported = "none" /\ reported' = "rejected" /\ Stored = "old" /\ Stored' = "old"
      BY <1>2, <2>3 DEF OnAbort, TransactionIInv, PhasesAgree, Stored
    <3>2. QED
      BY <3>1 DEF Commit!Next, Commit!ReportFailure
  <2>4. CASE HeartbeatWrites
    <3>1. idb = "active" /\ reported' = reported
      BY <2>4 DEF HeartbeatWrites, Answerable
    <3>2. idb' # "committed"
      BY <1>2, <2>4, <3>1, AbortEffect DEF HeartbeatWrites
    <3>3. QED
      BY <3>1, <3>2 DEF Stored, Commit!vars
  <2>5. CASE /\ UNCHANGED <<written, reported>>
             /\ idb' = "committed" <=> idb = "committed"
    BY <2>5 DEF Stored, Commit!vars
  <2>6. ASSUME ~BrowserCommits, ~OnComplete, ~OnAbort, ~HeartbeatWrites
        PROVE  UNCHANGED <<written, reported>> /\ (idb' = "committed" <=> idb = "committed")
    <3>1. UNCHANGED <<written, reported>>
      BY <1>2, <2>6 DEF TransactionNext, Callbacks, Ends, transactionVars, Ask, AskLate,
         AskFinished, Validated, ValidatorFails, Deadline, HeartbeatReads,
         HeartbeatIssueFails, ReadAnswered, WriteAnswered, RequestFails,
         AbortFailsRequest, FailHead, AutoCommit, BrowserAborts
    <3>2. Abort \/ UNCHANGED idb \/ AutoCommit \/ BrowserAborts
      BY <1>2, <2>6 DEF TransactionNext, Callbacks, Ends, transactionVars, Ask, AskLate,
         AskFinished, Validated, ValidatorFails, Deadline, HeartbeatReads,
         HeartbeatIssueFails, ReadAnswered, WriteAnswered, RequestFails,
         AbortFailsRequest, FailHead
    <3>3. idb' = "committed" <=> idb = "committed"
      BY <1>2, <3>2, AbortEffect DEF AutoCommit, BrowserAborts
    <3>4. QED
      BY <3>1, <3>3
  <2>7. QED
    BY <2>1, <2>2, <2>3, <2>4, <2>5, <2>6
<1>3. QED
  BY <1>1, <1>2, TransactionInvariant, PTL DEF TransactionSpec, ImplementsAtomicCommit, Commit!Spec

\* For any reads and durability, the transaction commits validated writes only and
\* the call ends after it.
THEOREM TransactionIsSafe == TransactionSpec => []TransactionSafe
<1>1. TransactionIInv => TransactionTypes
  BY DEF TransactionIInv
<1>2. QED
  BY <1>1, TransactionInvariant, HeartbeatKeepsTransaction, WritesAreValidated, CallEndsLast,
     PTL DEF TransactionSafe

\* For any reads and durability, the storage call is one atomic commit to its caller,
\* and reports every read that was refused.
THEOREM CallIsAtomic == TransactionSpec => TransactionAtomic
BY TransactionIsAtomic, RefusedReadsAreReported DEF TransactionAtomic

====
