---- MODULE Roster ----
(* The verification of a roster's registrations, its proposal, and its       *)
(* confirmation, in one visit of a participant (protocol-foundations         *)
(* roster-input.rs, registration-session.rs, registration.rs, roster.rs,     *)
(* roster-authentication.rs, preparation.rs; participant-module abi/roster).  *)
(* The worker streams each record to a session of a helper.  A helper runs   *)
(* the jobs of its shard in order while the worker goes on, may discard a    *)
(* candidate and gives the shard to another record at once; it waits for     *)
(* source chunks and for the verdict.  Without helpers a job runs at once,   *)
(* which is the same as a helper that is never behind.                       *)
EXTENDS Naturals, Sequences

CONSTANTS
  Positions,    \* the positions of the proposed roster
  Candidates,   \* the registration records that the relay can deliver
  Identity,     \* a candidate's body identity
  Signer,       \* its signing key
  Parts,        \* its sound parts, of "header", "key", "sources", "signature"
  OrganizerKey,    \* the key that signed the poll
  OwnIdentity,          \* the identity of this participant's own registration
  Shards,       \* the helpers' shards
  RegistrationKeyChunks, SourceChunks,  \* the chunks of a key and of the source bodies
  MaxSessions,  \* a bound on the sessions of a visit
  MaxRosters,   \* a bound on the rosters begun in a visit
  NoRoster

ASSUME RosterAssumption ==
  /\ RegistrationKeyChunks \in Nat \ {0} /\ SourceChunks \in Nat \ {0}
  /\ MaxSessions \in Nat /\ MaxRosters \in Nat
  /\ Parts \in [Candidates -> SUBSET {"header", "key", "sources", "signature"}]

VARIABLES
  records,     \* worker: the state of each position's record
  identities,  \* worker: the identity first requested at a position
  free,        \* worker: the shards that no open record holds
  begun,       \* worker: how many rosters were begun
  signedBody,  \* worker: the roster whose signature was verified
  confirmed,   \* credential: the confirmed roster
  queue,       \* helpers: the jobs that each shard has not yet run
  sessions,    \* helpers: the open sessions of each shard
  opened       \* how many sessions were opened

worker == <<records, identities, free, begun, signedBody, confirmed>>
helpers == <<queue, sessions>>
rosterVars == <<worker, helpers, opened>>

Unread == [state |-> "unread"]
Refused == [state |-> "refused"]
VerifiedRecord(c) == [state |-> "verified", candidate |-> c]
OpenRecord(c, session, shard) ==
  [state |-> "open", candidate |-> c, session |-> session, shard |-> shard,
   key |-> 0, keySent |-> FALSE, sources |-> 0, failed |-> FALSE]

RecordOpen(p) == records[p].state = "open"
Fresh == [p \in Positions |-> Unread]

RosterInit ==
  /\ records = Fresh /\ identities = [p \in Positions |-> NoRoster]
  /\ free = Shards /\ begun = 1
  /\ signedBody = NoRoster /\ confirmed = NoRoster
  /\ queue = [s \in Shards |-> <<>>] /\ sessions = [s \in Shards |-> {}]
  /\ opened = 0

----
(* The helpers: a session's verifier, or the refusal that ended it *)

Job(operation, session, candidate) ==
  [operation |-> operation, session |-> session, candidate |-> candidate]

Send(s, job) == queue' = [queue EXCEPT ![s] = Append(@, job)]

\* The sessions of shard s after a job.
Ran(s, job) ==
  LET others == {v \in sessions[s] : v.session # job.session} IN
    CASE job.operation = "open" ->
           sessions[s] \cup {[session |-> job.session, candidate |-> job.candidate,
                              key |-> FALSE, refused |-> FALSE]}
      [] job.operation = "key" ->
           others \cup {[v EXCEPT !.key = TRUE,
                                  !.refused = @ \/ "key" \notin Parts[job.candidate]] :
                          v \in sessions[s] \ others}
      [] job.operation = "discard" -> others

RunJob(s) ==
  /\ queue[s] # <<>>
  /\ sessions' = [sessions EXCEPT ![s] = Ran(s, Head(queue[s]))]
  /\ queue' = [queue EXCEPT ![s] = Tail(@)]
  /\ UNCHANGED <<worker, opened>>

SessionOf(p) ==
  CHOOSE v \in sessions[records[p].shard] : v.session = records[p].session

\* The worker waits until the shard has run the jobs sent before.
Waited(p) == queue[records[p].shard] = <<>>

----
(* The worker's records *)

\* The identity requested at a position is never replaced.
Requested(p, i) == identities[p] \in {NoRoster, i}

\* A candidate is opened under the requested identity; a refused header refuses
\* the record.
BeginRecord(p, c, i) ==
  /\ records[p] = Unread /\ signedBody = NoRoster
  /\ Requested(p, i) /\ free # {} /\ opened < MaxSessions
  /\ identities' = [identities EXCEPT ![p] = i]
  /\ LET s == CHOOSE s \in free : TRUE IN
       IF "header" \in Parts[c]
       THEN /\ records' = [records EXCEPT ![p] = OpenRecord(c, opened, s)]
            /\ free' = free \ {s} /\ opened' = opened + 1
            /\ Send(s, Job("open", opened, c))
       ELSE /\ records' = [records EXCEPT ![p] = Refused]
            /\ UNCHANGED <<free, opened, queue>>
  /\ UNCHANGED <<begun, signedBody, confirmed, sessions>>

\* Chunks past the key's length fail the record, as does a key out of order.
PushRecordKey(p, n) ==
  /\ RecordOpen(p) /\ ~records[p].failed
  /\ records' = IF records[p].keySent \/ n > RegistrationKeyChunks - records[p].key
                THEN [records EXCEPT ![p].failed = TRUE]
                ELSE [records EXCEPT ![p].key = @ + n]
  /\ UNCHANGED <<identities, free, begun, signedBody, confirmed, helpers, opened>>

FinishRecordKey(p) ==
  /\ RecordOpen(p) /\ ~records[p].failed
  /\ IF records[p].keySent \/ records[p].key # RegistrationKeyChunks
     THEN records' = [records EXCEPT ![p].failed = TRUE] /\ UNCHANGED queue
     ELSE /\ records' = [records EXCEPT ![p].keySent = TRUE]
          /\ Send(records[p].shard, Job("key", records[p].session, records[p].candidate))
  /\ UNCHANGED <<identities, free, begun, signedBody, confirmed, sessions, opened>>

\* Each source chunk is waited for, so that helpers hold no second inventory; a
\* chunk that completes an unsound source refuses the session.
PushRecordSources(p, n) ==
  /\ RecordOpen(p) /\ ~records[p].failed
  /\ LET r == records[p]
         total == r.sources + n
     IN IF ~r.keySent \/ n > SourceChunks - r.sources
        THEN records' = [records EXCEPT ![p].failed = TRUE] /\ UNCHANGED sessions
        ELSE /\ Waited(p)
             /\ records' = [records EXCEPT ![p].sources = total]
             /\ sessions' = [sessions EXCEPT ![r.shard] =
                  (@ \ {SessionOf(p)}) \cup
                  {[SessionOf(p) EXCEPT !.refused =
                      @ \/ (total = SourceChunks /\ "sources" \notin Parts[r.candidate])]}]
  /\ UNCHANGED <<identities, free, begun, signedBody, confirmed, queue, opened>>

\* The registration verifier's verdict.
Verdict(p) ==
  /\ SessionOf(p).key /\ ~SessionOf(p).refused
  /\ "signature" \in Parts[records[p].candidate]

\* Mutant: a record that fails keeps its shard.
HoldingFinishRecord(p) ==
  LET r == records[p] IN
  /\ RecordOpen(p)
  /\ IF r.failed \/ ~r.keySent \/ r.sources # SourceChunks
     THEN /\ records' = [records EXCEPT ![p] = Refused] /\ UNCHANGED free
          /\ Send(r.shard, Job("discard", r.session, r.candidate)) /\ UNCHANGED sessions
     ELSE /\ Waited(p) /\ free' = free \cup {r.shard}
          /\ records' = [records EXCEPT ![p] =
               IF Verdict(p) /\ Identity[r.candidate] = identities[p]
               THEN VerifiedRecord(r.candidate) ELSE Refused]
          /\ sessions' = [sessions EXCEPT ![r.shard] = @ \ {SessionOf(p)}]
          /\ UNCHANGED queue
  /\ UNCHANGED <<identities, begun, signedBody, confirmed, opened>>

\* The shard is released; an incomplete record is discarded there, and a complete
\* one is accepted on a positive verdict for the requested identity.
FinishRecord(p) ==
  LET r == records[p] IN
  /\ RecordOpen(p)
  /\ free' = free \cup {r.shard}
  /\ IF r.failed \/ ~r.keySent \/ r.sources # SourceChunks
     THEN /\ records' = [records EXCEPT ![p] = Refused]
          /\ Send(r.shard, Job("discard", r.session, r.candidate)) /\ UNCHANGED sessions
     ELSE /\ Waited(p)
          /\ records' = [records EXCEPT ![p] =
               IF Verdict(p) /\ Identity[r.candidate] = identities[p]
               THEN VerifiedRecord(r.candidate) ELSE Refused]
          /\ sessions' = [sessions EXCEPT ![r.shard] = @ \ {SessionOf(p)}]
          /\ UNCHANGED queue
  /\ UNCHANGED <<identities, begun, signedBody, confirmed, opened>>

\* No accepted record is discarded.
Discardable(p) == records[p].state # "verified"

\* A failed candidate's input is discarded, and its session at its helper.
DiscardRecord(p) ==
  /\ Discardable(p) /\ records[p] # Unread /\ signedBody = NoRoster
  /\ records' = [records EXCEPT ![p] = Unread]
  /\ IF RecordOpen(p)
     THEN /\ free' = free \cup {records[p].shard}
          /\ Send(records[p].shard, Job("discard", records[p].session, records[p].candidate))
     ELSE UNCHANGED <<free, queue>>
  /\ UNCHANGED <<identities, begun, signedBody, confirmed, sessions, opened>>

----
(* The proposal and its confirmation *)

Proposal == [p \in Positions |-> records[p].candidate]

\* A roster has the organizer, and every signer once.
IsRoster(r) ==
  /\ \A p, q \in Positions : Signer[r[p]] = Signer[r[q]] => p = q
  /\ \E p \in Positions : Signer[r[p]] = OrganizerKey

\* The organizer's signature of the verified records' proposal is verified.
VerifySignature ==
  /\ \A p \in Positions : records[p].state = "verified"
  /\ IsRoster(Proposal)
  /\ signedBody' = Proposal
  /\ UNCHANGED <<records, identities, free, begun, confirmed, helpers, opened>>

\* The roster is confirmed where it holds the own registration, once.
ConfirmRoster ==
  /\ signedBody # NoRoster
  /\ \E p \in Positions : Identity[signedBody[p]] = OwnIdentity
  /\ confirmed = NoRoster
  /\ confirmed' = signedBody
  /\ UNCHANGED <<records, identities, free, begun, signedBody, helpers, opened>>

\* Another roster begins; the sessions of the open records are discarded.
StartRoster ==
  /\ begun < MaxRosters /\ begun' = begun + 1
  /\ records' = Fresh /\ identities' = [p \in Positions |-> NoRoster]
  /\ free' = Shards /\ signedBody' = NoRoster
  /\ queue' = [s \in Shards |->
       LET held == {p \in Positions : RecordOpen(p) /\ records[p].shard = s} IN
         IF held = {} THEN queue[s]
         ELSE LET r == records[CHOOSE p \in held : TRUE]
              IN Append(queue[s], Job("discard", r.session, r.candidate))]
  /\ UNCHANGED <<confirmed, sessions, opened>>

----
WorkerStep ==
  \/ VerifySignature \/ ConfirmRoster \/ StartRoster
  \/ \E p \in Positions :
       \/ FinishRecordKey(p) \/ FinishRecord(p) \/ DiscardRecord(p)
       \/ \E n \in 1..RegistrationKeyChunks : PushRecordKey(p, n)
       \/ \E n \in 1..SourceChunks : PushRecordSources(p, n)
       \/ \E c \in Candidates, i \in {Identity[d] : d \in Candidates} : BeginRecord(p, c, i)

RosterNext == WorkerStep \/ \E s \in Shards : RunJob(s)

RosterSpec == RosterInit /\ [][RosterNext]_rosterVars

----
OpenRecords ==
  [state : {"open"}, candidate : Candidates, session : Nat, shard : Shards,
   key : Nat, keySent : BOOLEAN, sources : Nat, failed : BOOLEAN]
Jobs == [operation : {"open", "key", "discard"}, session : Nat, candidate : Candidates]
HelperSessions == [session : Nat, candidate : Candidates, key : BOOLEAN, refused : BOOLEAN]

RosterTypeOK ==
  /\ records \in [Positions ->
                  OpenRecords \cup {Unread, Refused} \cup {VerifiedRecord(c) : c \in Candidates}]
  /\ identities \in [Positions -> {Identity[c] : c \in Candidates} \cup {NoRoster}]
  /\ free \subseteq Shards
  /\ begun \in Nat /\ opened \in Nat
  /\ queue \in [Shards -> Seq(Jobs)]
  /\ sessions \in [Shards -> SUBSET HelperSessions]

SoundRegistration(c) == Parts[c] = {"header", "key", "sources", "signature"}

\* Every accepted record is a sound candidate of the identity that was asked for at
\* its position, whatever was opened, failed and discarded there or on the shard
\* before, and however far behind the helper was.
AcceptedSound ==
  \A p \in Positions : records[p].state = "verified" =>
    SoundRegistration(records[p].candidate) /\ Identity[records[p].candidate] = identities[p]

\* Every shard is free or held by one open record, so two records never share a
\* helper's session slot and no shard is lost.
ShardsHeld ==
  /\ \A p, q \in Positions : RecordOpen(p) /\ RecordOpen(q) /\ records[p].shard = records[q].shard => p = q
  /\ free = Shards \ {records[p].shard : p \in {p \in Positions : RecordOpen(p)}}

\* A confirmed roster holds distinct sound registrations, the organizer's and the
\* own one among them.
ConfirmedSound ==
  confirmed # NoRoster =>
    /\ \A p \in Positions : SoundRegistration(confirmed[p])
    /\ \A p, q \in Positions : p # q => Signer[confirmed[p]] # Signer[confirmed[q]]
    /\ \E p \in Positions : Signer[confirmed[p]] = OrganizerKey
    /\ \E p \in Positions : Identity[confirmed[p]] = OwnIdentity

\* Within one roster an accepted record stays, and a confirmed roster for good.
AcceptedFixed ==
  [][/\ confirmed # NoRoster => confirmed' = confirmed
     /\ begun' = begun =>
          \A p \in Positions : records[p].state = "verified" => records'[p] = records[p]]_rosterVars

\* The records of a roster are checked on helpers of their own and accepted sound.
RosterSound == AcceptedSound /\ ShardsHeld /\ ConfirmedSound

\* A session was opened that no open record owns, and a shard holds none of it.
Orphaned(n) == (\A p \in Positions : RecordOpen(p) => records[p].session # n) /\ opened > n
Forgotten(s, n) == \A v \in sessions[s] : v.session # n

----
(* The inductive invariant behind RosterSound. *)

\* The sessions at a shard, open or to be opened, have one number each.
ShardInv(s) ==
  /\ \A i \in DOMAIN queue[s] : queue[s][i].session < opened
  /\ \A v \in sessions[s] : v.session < opened
  /\ \A v, w \in sessions[s] : v.session = w.session => v = w
  /\ \A i \in DOMAIN queue[s] : queue[s][i].operation = "open" =>
       /\ \A v \in sessions[s] : v.session # queue[s][i].session
       /\ \A j \in DOMAIN queue[s] :
            queue[s][j].operation = "open" /\ queue[s][j].session = queue[s][i].session => j = i

\* An open record has its session at its helper or will have it, the jobs of that
\* session are of its candidate and keep it, and a session that has taken an unsound
\* part is refused.
RecordInv(p) ==
  LET r == records[p]
      jobs == queue[r.shard]
  IN
    /\ "header" \in Parts[r.candidate]
    /\ \A i \in DOMAIN jobs : jobs[i].session = r.session =>
         /\ jobs[i].operation # "discard" /\ jobs[i].candidate = r.candidate
         /\ jobs[i].operation = "open" => r.sources = 0
    /\ \/ \E v \in sessions[r.shard] : v.session = r.session
       \/ \E i \in DOMAIN jobs : jobs[i].session = r.session /\ jobs[i].operation = "open"
    /\ \A v \in sessions[r.shard] : v.session = r.session =>
         /\ v.key => v.refused \/ "key" \in Parts[r.candidate]
         /\ r.sources = SourceChunks => v.refused \/ "sources" \in Parts[r.candidate]

SignedSound ==
  signedBody # NoRoster =>
    IsRoster(signedBody) /\ \A p \in Positions : SoundRegistration(signedBody[p])

RosterIInv ==
  /\ RosterTypeOK /\ RosterSound /\ SignedSound
  /\ \A s \in Shards : ShardInv(s)
  /\ \A p \in Positions : RecordOpen(p) => RecordInv(p)
====
