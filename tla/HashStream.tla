----------------------------- MODULE HashStream -----------------------------
(***************************************************************************)
(* Jobs on helper instances: the hash streams whose sponges helpers hold,  *)
(* and a pipeline of independent jobs. One caller submits jobs to helpers' *)
(* queues and waits for their slots; each helper runs its queue in order,  *)
(* and one that trapped fails every later job.                             *)
(***************************************************************************)
EXTENDS Naturals, Sequences, SequencesExt, FiniteSets

CONSTANTS
    Streams,        \* the handles of the streams the caller opens
    Helpers,        \* the number of helpers
    BATCH_BYTES, SEND_BYTES, WINDOW,
    Updates,        \* the lengths of the slices the caller streams
    MaxBytes,       \* bound on the bytes of a stream
    MaxJobs,        \* the jobs the pipeline runs
    None

StreamAssumption ==
    /\ Helpers \in Nat \ {0}
    /\ 0 < BATCH_BYTES /\ BATCH_BYTES <= SEND_BYTES
    /\ WINDOW \in Nat

VARIABLES
    streams,    \* the caller's streams
    rest,       \* the parts the running update has still to send, or None
    pipeline,   \* the tickets in submission order and the outputs consumed
    calling,    \* whether the caller's operation still runs
    sessions,   \* the next session number
    turn,       \* the helper the next unpinned job goes to
    queues,     \* each helper's jobs
    slots,      \* each submitted job's end: None, or <<its output>>, or <<>>
    sponges,    \* the bytes each helper's streams have absorbed, by session
    trapped     \* the helpers whose job panicked

vars == <<streams, rest, pipeline, calling, sessions, turn, queues, slots, sponges, trapped>>

HelperIds == 0..(Helpers - 1)
Bytes(s, first, last) == [i \in 1..(last - first + 1) |-> <<s, first + i - 1>>]

\* The session a new stream draws, which no other caller receives.
Session(n) == n

Stream(session, remote) ==
    [session |-> session, remote |-> remote, state |-> "open", pushed |-> 0,
     pending |-> <<>>, running |-> <<>>, finish |-> None, digest |-> None]

Init == /\ streams = [s \in Streams |-> None]
        /\ rest = None
        /\ pipeline = [next |-> 0, running |-> <<>>, outputs |-> <<>>]
        /\ calling = TRUE
        /\ sessions = 1
        /\ turn = 0
        /\ queues = [h \in HelperIds |-> <<>>]
        /\ slots = <<>>
        /\ sponges = [h \in HelperIds |-> <<>>]
        /\ trapped = {}

\* The helper a job runs on: the one that holds its shard, or the next.
Helper(pin) == IF pin = 0 THEN turn ELSE pin - 1

Pin(shard) == IF shard = None THEN 0 ELSE (shard % Helpers) + 1

Ticket == Len(slots) + 1

submit(job, shard) ==
    LET pin == Pin(shard)
        helper == Helper(pin)
    IN  /\ queues' = [queues EXCEPT ![helper] = Append(@, job @@ [ticket |-> Ticket])]
        /\ slots' = Append(slots, None)
        /\ turn' = IF pin = 0 THEN (turn + 1) % Helpers ELSE turn

send(session, operation, bytes) ==
    submit([operation |-> operation, session |-> session, bytes |-> bytes], session)

----
(* The caller.                                                             *)

\* Whether the caller waits for a job it started.
Waits == \/ rest # None
         \/ Len(pipeline.running) > 2 * Helpers
         \/ \E s \in Streams : streams[s] # None /\ streams[s].state = "waiting"

Calls == calling /\ ~Waits

\* A stream held by a helper, or by this instance.
New(s, remote) ==
    /\ Calls
    /\ streams[s] = None
    /\ streams' = [streams EXCEPT ![s] = Stream(IF remote THEN Session(sessions) ELSE None, remote)]
    /\ sessions' = IF remote THEN sessions + 1 ELSE sessions
    /\ UNCHANGED <<rest, pipeline, calling, turn, queues, slots, sponges, trapped>>

\* The parts of at most SEND_BYTES bytes.
Chunks(bytes) ==
    LET count == (Len(bytes) + SEND_BYTES - 1) \div SEND_BYTES
    IN  [i \in 1..count |-> SubSeq(bytes, (i - 1) * SEND_BYTES + 1,
                                   IF i = count THEN Len(bytes) ELSE i * SEND_BYTES)]

\* What an update sends and what it gathers: gathered bytes leave as one
\* batch once they fill it, and a slice of a batch or more leaves at once.
Divided(pending, bytes) ==
    LET count == IF pending = <<>> THEN 0
                 ELSE IF Len(bytes) < BATCH_BYTES - Len(pending)
                      THEN Len(bytes) ELSE BATCH_BYTES - Len(pending)
        batch == pending \o SubSeq(bytes, 1, count)
        left == SubSeq(bytes, count + 1, Len(bytes))
        sent == IF pending = <<>> THEN <<>> ELSE <<batch>>
    IN  IF pending # <<>> /\ Len(batch) < BATCH_BYTES
        THEN [parts |-> <<>>, pending |-> batch]
        ELSE IF Len(left) < BATCH_BYTES
             THEN [parts |-> sent, pending |-> left]
             ELSE [parts |-> sent \o Chunks(left), pending |-> <<>>]

Update(s, n) ==
    /\ Calls
    /\ streams[s] # None
    /\ streams[s].state = "open"
    /\ streams[s].pushed + n <= MaxBytes
    /\ LET pushed == streams[s].pushed
           bytes == Bytes(s, pushed + 1, pushed + n)
           divided == IF streams[s].remote THEN Divided(streams[s].pending, bytes)
                      ELSE [parts |-> <<>>, pending |-> streams[s].pending \o bytes]
       IN  /\ streams' = [streams EXCEPT ![s].pushed = pushed + n,
                                         ![s].pending = divided.pending]
           /\ rest' = IF divided.parts = <<>> THEN None ELSE [stream |-> s, parts |-> divided.parts]
    /\ UNCHANGED <<pipeline, calling, sessions, turn, queues, slots, sponges, trapped>>

\* Whether the running absorptions leave room for another.
Keeps(running) == Len(running) <= WINDOW

\* The update's next absorption.
SendPart ==
    /\ calling
    /\ rest # None
    /\ LET s == rest.stream
       IN  /\ Keeps(streams[s].running)
           /\ rest.parts # <<>>
           /\ send(streams[s].session, "ABSORB", Head(rest.parts))
           /\ streams' = [streams EXCEPT ![s].running = Append(@, Ticket)]
           /\ rest' = [rest EXCEPT !.parts = Tail(@)]
    /\ UNCHANGED <<pipeline, calling, sessions, sponges, trapped>>

\* Waits for the oldest absorption beyond the window, which fails with its helper.
KeepPart ==
    /\ calling
    /\ rest # None
    /\ LET s == rest.stream
           oldest == Head(streams[s].running)
       IN  /\ Len(streams[s].running) > WINDOW
           /\ slots[oldest] # None
           /\ calling' = (slots[oldest] # <<>>)
           /\ streams' = [streams EXCEPT ![s].running = Tail(@)]
    /\ UNCHANGED <<rest, pipeline, sessions, turn, queues, slots, sponges, trapped>>

UpdateReturns ==
    /\ calling
    /\ rest # None
    /\ rest.parts = <<>>
    /\ Keeps(streams[rest.stream].running)
    /\ rest' = None
    /\ UNCHANGED <<streams, pipeline, calling, sessions, turn, queues, slots, sponges, trapped>>

\* Starts the digest with the gathered bytes, without waiting for it.
FinishLater(s) ==
    /\ Calls
    /\ streams[s] # None
    /\ streams[s].state = "open"
    /\ IF streams[s].remote
       THEN /\ send(streams[s].session, "FINISH", streams[s].pending)
            /\ streams' = [streams EXCEPT ![s].state = "finishing", ![s].finish = Ticket]
       ELSE /\ streams' = [streams EXCEPT ![s].state = "finishing"]
            /\ UNCHANGED <<turn, queues, slots>>
    /\ UNCHANGED <<rest, pipeline, calling, sessions, sponges, trapped>>

Wait(s) ==
    /\ Calls
    /\ streams[s] # None
    /\ streams[s].state = "finishing"
    /\ streams' = [streams EXCEPT ![s].state = "waiting"]
    /\ UNCHANGED <<rest, pipeline, calling, sessions, turn, queues, slots, sponges, trapped>>

\* Waits for the earlier absorptions and then takes the digest.
Waited(s) ==
    /\ calling
    /\ streams[s] # None
    /\ streams[s].state = "waiting"
    /\ LET stream == streams[s]
           tickets == ToSet(stream.running) \union (IF stream.remote THEN {stream.finish} ELSE {})
           failed == \E t \in tickets : slots[t] = <<>>
       IN  /\ \A t \in tickets : slots[t] # None
           /\ calling' = ~failed
           /\ streams' = [streams EXCEPT ![s].state = "ended",
                            ![s].digest = IF failed THEN None
                                          ELSE IF stream.remote THEN slots[stream.finish][1]
                                          ELSE stream.pending]
    /\ UNCHANGED <<rest, pipeline, sessions, turn, queues, slots, sponges, trapped>>

\* Mutant: an open stream is dropped without telling its helper.
SilentDrop(s) ==
    /\ Calls
    /\ streams[s] # None
    /\ streams[s].state \in {"open", "finishing"}
    /\ streams' = [streams EXCEPT ![s].state = "dropped"]
    /\ UNCHANGED <<rest, pipeline, calling, sessions, turn, queues, slots, sponges, trapped>>

\* Drops a stream or its unwaited digest: an open stream's helper is told to
\* forget it, and a started digest is still computed and then cleared.
Drop(s) ==
    /\ Calls
    /\ streams[s] # None
    /\ streams[s].state \in {"open", "finishing"}
    /\ IF streams[s].state = "open" /\ streams[s].remote
       THEN send(streams[s].session, "DISCARD", <<>>)
       ELSE UNCHANGED <<turn, queues, slots>>
    /\ streams' = [streams EXCEPT ![s].state = "dropped"]
    /\ UNCHANGED <<rest, pipeline, calling, sessions, sponges, trapped>>

----
(* The pipeline of independent jobs, each with its index as its output.    *)

PipelinePush ==
    /\ Calls
    /\ pipeline.next < MaxJobs
    /\ submit([operation |-> "JOB", session |-> None, bytes |-> pipeline.next], None)
    /\ pipeline' = [pipeline EXCEPT !.next = @ + 1,
                                    !.running = Append(@, <<pipeline.next, Ticket>>)]
    /\ UNCHANGED <<streams, rest, calling, sessions, sponges, trapped>>

\* The place among the running jobs of the output to consume: the oldest's.
Consumed(running) == {i \in {1} : Len(running) > 0 /\ slots[running[i][2]] # None}

\* Takes the oldest output beyond the window, or after the last job.
PipelineTake ==
    /\ calling
    /\ rest = None
    /\ Len(pipeline.running) > 2 * Helpers \/ (Calls /\ pipeline.next = MaxJobs)
    /\ \E i \in Consumed(pipeline.running) :
        LET output == slots[pipeline.running[i][2]]
        IN  /\ calling' = (output # <<>>)
            /\ pipeline' = [pipeline EXCEPT
                                !.running = RemoveAt(@, i),
                                !.outputs = IF output = <<>> THEN @
                                            ELSE Append(@, <<pipeline.running[i][1], output[1]>>)]
    /\ UNCHANGED <<streams, rest, sessions, turn, queues, slots, sponges, trapped>>

----
(* The helpers.                                                            *)

Held(h, session) == IF session \in DOMAIN sponges[h] THEN sponges[h][session] ELSE <<>>

Without(function, key) == [k \in DOMAIN function \ {key} |-> function[k]]

\* The streams a helper holds after the job.
Sponges(h, job) ==
    IF job.operation = "ABSORB"
    THEN (job.session :> (Held(h, job.session) \o job.bytes)) @@ sponges[h]
    ELSE Without(sponges[h], job.session)

\* The job's output.
Output(h, job) == IF job.operation = "FINISH" THEN Held(h, job.session) \o job.bytes
                  ELSE IF job.operation = "JOB" THEN job.bytes ELSE <<>>

\* A helper ends its next job, which fails once it has trapped.
Run(h) ==
    /\ queues[h] # <<>>
    /\ LET job == Head(queues[h])
       IN  /\ queues' = [queues EXCEPT ![h] = Tail(@)]
           /\ slots' = [slots EXCEPT ![job.ticket] = IF h \in trapped THEN <<>>
                                                     ELSE <<Output(h, job)>>]
           /\ sponges' = IF h \in trapped \/ job.operation = "JOB" THEN sponges
                         ELSE [sponges EXCEPT ![h] = Sponges(h, job)]
    /\ UNCHANGED <<streams, rest, pipeline, calling, sessions, turn, trapped>>

\* The running job panics, and the helper fails it and every later one.
Trap(h) ==
    /\ h \notin trapped
    /\ queues[h] # <<>>
    /\ trapped' = trapped \union {h}
    /\ queues' = [queues EXCEPT ![h] = Tail(@)]
    /\ slots' = [slots EXCEPT ![Head(queues[h]).ticket] = <<>>]
    /\ UNCHANGED <<streams, rest, pipeline, calling, sessions, turn, sponges>>

Next == \/ \E s \in Streams : \/ \E remote \in BOOLEAN : New(s, remote)
                              \/ \E n \in Updates : Update(s, n)
                              \/ FinishLater(s) \/ Wait(s) \/ Waited(s) \/ Drop(s)
        \/ SendPart \/ KeepPart \/ UpdateReturns
        \/ PipelinePush \/ PipelineTake
        \/ \E h \in HelperIds : Run(h) \/ Trap(h)

Spec == Init /\ [][Next]_vars

----
(* Properties.                                                             *)

\* A stream's digest is the one this instance computes alone, however its
\* bytes are divided and whichever helper holds its sponge.
DigestsAsAlone ==
    \A s \in Streams :
        streams[s] # None /\ streams[s].digest # None =>
            streams[s].digest = Bytes(s, 1, streams[s].pushed)

\* No stream has more than the window and one absorption waiting for its
\* helper, whatever is streamed into it.
WindowBounds ==
    \A s \in Streams : streams[s] # None =>
        Cardinality({t \in 1..Len(slots) : slots[t] = None /\
            \E h \in HelperIds, i \in 1..MaxBytes : i <= Len(queues[h]) /\
                queues[h][i].ticket = t /\ queues[h][i].operation = "ABSORB"
                /\ queues[h][i].session = streams[s].session}) <= WINDOW + 1

\* The pipeline's outputs are its jobs' in submission order, whichever
\* helpers ran them.
OutputsInOrder ==
    \A i \in 1..Len(pipeline.outputs) : pipeline.outputs[i] = <<i - 1, i - 1>>

\* A stream that waits for its digest and has it, and one the caller is done with
\* and that is gone.
Waiting(s) == streams[s] # None /\ streams[s].state = "waiting"
Served(s) ==
    streams[s] # None /\ streams[s].state = "ended" /\ (streams[s].digest # None \/ ~calling)
DoneWith(s) == streams[s] # None /\ streams[s].state \in {"ended", "dropped"}
SpongeGone(s) ==
    streams[s] # None =>
        \A h \in HelperIds \ trapped : streams[s].session \notin DOMAIN sponges[h]
====
