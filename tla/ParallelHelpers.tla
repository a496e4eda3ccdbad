--------------------------- MODULE ParallelHelpers ---------------------------
(***************************************************************************)
(* The queue through which a participant module runs jobs on helper        *)
(* instances. The worker's thread shares inputs, submits jobs and takes    *)
(* their outputs; it owns the arena's ranges. Helpers claim slots, copy a  *)
(* job's parts out of the arena, run it and write its output back. After   *)
(* startup the threads meet only in shared control words, so every load,   *)
(* store and wait on one of them is a step of its own.                     *)
(*                                                                         *)
(* Every nonempty range is one unit of the arena. A word that only grows   *)
(* and is compared with the value last loaded is kept as whether it has    *)
(* grown since that load.                                                  *)
(***************************************************************************)
EXTENDS Naturals, Sequences, FiniteSets, FiniteSetsExt, TLC

CONSTANTS
    Counts,         \* the helpers an operation may start with, zero included
    Shapes,         \* the parts, shard and output of the jobs submitted
    InitialArena, SoftArena, MaximumArena, ArenaGrowth,
    MaximumTickets,
    MaxShares,      \* bound on the inputs shared
    MaxJobs,        \* bound on the jobs submitted
    EndAfter,       \* bound: an operation that does not fail ends after so many jobs
    MaxFailures     \* bound on the jobs that trap their helper or fail

ArenaAssumption ==
    /\ 0 < InitialArena /\ InitialArena <= SoftArena /\ SoftArena <= MaximumArena
    /\ ArenaGrowth \in Nat \ {0} /\ MaximumTickets \in Nat \ {0}
    /\ Counts \subseteq Nat /\ Counts # {}

VARIABLES
    helpers,    \* the helpers that started; none runs when one did not
    main,       \* the worker's thread: where it is and the job it submits
    jobs,       \* the jobs submitted, by ticket
    taken,      \* the outputs the module took, by ticket
    host,       \* the worker's own tables: shares, tickets, free ranges
    arena,      \* the shared bytes
    slots,      \* the shared job slots
    queues,     \* the shared rings: unpinned at zero, then each helper's
    woken,      \* the helpers whose wake word grew since they loaded it
    copied,     \* whether the copied word grew since the worker loaded it
    writing,    \* the helpers counted as writing an output
    stop,       \* the stop word
    helper,     \* each helper's place in its loop
    kept,       \* the state jobs left, by instance and shard; zero is the worker's
    failures    \* the jobs that trapped or failed, and whether each left its state

vars == <<helpers, main, jobs, taken, host, arena, slots, queues, woken, copied, writing, stop,
          helper, kept, failures>>

Units == 1..MaximumArena
Slots == 1..MaximumTickets
Shards == {s.shard : s \in Shapes} \ {0}
Instances == 0..Max(Counts)
Running == 1..helpers
Zero == <<>>
Bytes(ticket) == <<"bytes", ticket>>
Shared(handle) == <<"shared", handle>>

Rest == [at |-> "idle", goal |-> "", shape |-> <<>>, slot |-> 0, inputs |-> {}, shared |-> {},
         streamed |-> {}, output |-> {}, ticket |-> 0, wakes |-> {}]
Idle == [at |-> "look", slot |-> 0, head |-> 0, input |-> <<>>, output |-> <<>>, done |-> FALSE,
         trapped |-> FALSE]
EmptySlot == [state |-> "free", kind |-> 0, shard |-> 0, inputs |-> {}, shared |-> {},
              streamed |-> {}, output |-> {}, copied |-> FALSE]

Init ==
    /\ helpers \in Counts
    /\ main = Rest
    /\ jobs = <<>> /\ taken = <<>>
    /\ host = [shares |-> <<>>, tickets |-> <<>>, discarded |-> {},
               free |-> 1..InitialArena, size |-> InitialArena]
    /\ arena = [u \in Units |-> Zero]
    /\ slots = [s \in Slots |-> EmptySlot]
    /\ queues = [p \in Instances |-> [head |-> 0, tail |-> 0,
                                      entries |-> [e \in 0..MaximumTickets - 1 |-> 0]]]
    /\ woken = {} /\ copied = FALSE /\ writing = {} /\ stop = FALSE
    /\ helper = [h \in Instances \ {0} |-> Idle]
    /\ kept = [i \in Instances |-> [s \in Shards |-> 0]]
    /\ failures = {}

----
(* The worker's tables. *)

Ended(tickets, t) == slots[tickets[t].slot].state # "queued"

\* Drops one reference to each named input; the last one frees its range.
dereference(H, handles) ==
    LET left == [i \in DOMAIN H.shares |->
                    IF i \in handles THEN [H.shares[i] EXCEPT !.references = @ - 1]
                    ELSE H.shares[i]]
    IN  [H EXCEPT !.shares = left,
                  !.free = @ \cup {left[i].block : i \in {j \in handles : left[j].references = 0}}]

\* Releases a job's copied inputs and, once it has ended, the part it streamed.
releaseInputs(H, t, ended) ==
    LET r == H.tickets[t]
        inputs == IF r.holding
                  THEN dereference([H EXCEPT !.free = @ \cup r.inputs], r.shared)
                  ELSE H
        streamed == IF ended THEN dereference(inputs, r.streamed) ELSE inputs
    IN  [streamed EXCEPT !.tickets[t].holding = FALSE,
                         !.tickets[t].streamed = IF ended THEN {} ELSE @]

\* The queued jobs whose input ranges are still held.
Holding(H) == {t \in DOMAIN H.tickets : H.tickets[t].holding \/ H.tickets[t].streamed # {}}

\* Releases the inputs that helpers have copied or whose jobs have ended.
releaseCopied(H) ==
    FoldSet(LAMBDA t, G : releaseInputs(G, t, Ended(G.tickets, t)), H,
            {t \in Holding(H) : Ended(H.tickets, t) \/ slots[H.tickets[t].slot].copied})

\* Releases what an ended job still holds, its output and its slot.
finish(H, t) ==
    LET settled == releaseInputs(H, t, TRUE)
    IN  [settled EXCEPT !.free = @ \cup settled.tickets[t].output,
                        !.tickets = [u \in DOMAIN @ \ {t} |-> @[u]],
                        !.discarded = @ \ {t}]

\* Finishes the discarded jobs that have ended.
sweep(H) ==
    FoldSet(LAMBDA t, G : finish(G, t), H, {t \in H.discarded : Ended(H.tickets, t)})

\* The arena's length after one growth: to the soft bound from below it.
Grown(H) ==
    Min({IF H.size < SoftArena THEN SoftArena ELSE MaximumArena, H.size + ArenaGrowth})

----
(* The worker's thread. *)

At(place) == main.at = place
Fails == main' = [Rest EXCEPT !.at = "failed"]
Threads == <<helper, kept, failures, writing, stop>>
Nothing == <<helpers, jobs, taken, arena, slots, queues, woken, copied, Threads>>

\* Shares bytes, or records the worker read for the module to adopt.
Share ==
    /\ At("idle") /\ Len(host.shares) < MaxShares
    /\ \/ /\ helpers > 0
          /\ main' = [main EXCEPT !.at = "allocate", !.goal = "share"]
          /\ UNCHANGED host
       \/ /\ helpers = 0
          /\ host' = [host EXCEPT !.shares =
                Append(@, [block |-> 0, references |-> 1, named |-> TRUE])]
          /\ UNCHANGED main
    /\ UNCHANGED Nothing

\* The module drops its reference to shared bytes.
release(handle) ==
    /\ At("idle") /\ host.shares[handle].named
    /\ host' = IF helpers = 0 THEN [host EXCEPT !.shares[handle].named = FALSE]
               ELSE [dereference(host, {handle}) EXCEPT !.shares[handle].named = FALSE]
    /\ UNCHANGED <<main, Nothing>>

Output(kind, bytes, shared, streamed, before) ==
    <<"output", kind, bytes, shared, streamed, before>>

\* The state a job finds on its instance, and the state it leaves there.
Found(i, shard) == IF shard = 0 THEN 0 ELSE kept[i][shard]
Leaves(i, shard, kind) ==
    [kept EXCEPT ![i] = [s \in Shards |-> IF s = shard THEN kind ELSE @[s]]]

\* The handles a job's parts may name.
Named == {i \in DOMAIN host.shares : host.shares[i].named}
Picks(wanted) == IF wanted THEN {{i} : i \in Named} ELSE {{}}

\* Without helpers a job runs when it is submitted.
RunHere(shape) ==
    /\ At("idle") /\ helpers = 0 /\ Len(jobs) < MaxJobs
    /\ \E shared \in Picks(shape.shared), streamed \in Picks(shape.streamed) :
        LET t == Len(jobs) + 1 IN
        /\ jobs' = Append(jobs, [shape |-> shape, shared |-> shared, streamed |-> streamed])
        /\ host' = [host EXCEPT !.tickets = @ @@ (t :> Output(t,
                        IF shape.bytes THEN {Bytes(t)} ELSE {},
                        {Shared(i) : i \in shared}, {Shared(i) : i \in streamed},
                        Found(0, shape.shard)))]
        /\ kept' = Leaves(0, shape.shard, t)
    /\ UNCHANGED <<helpers, main, taken, arena, slots, queues, woken, copied, helper, failures,
                   writing, stop>>

WaitHere(t) ==
    /\ At("idle") /\ helpers = 0 /\ t \in DOMAIN host.tickets
    /\ taken' = taken @@ (t :> IF jobs[t].shape.output THEN {host.tickets[t]} ELSE {})
    /\ host' = [host EXCEPT !.tickets = [u \in DOMAIN @ \ {t} |-> @[u]]]
    /\ UNCHANGED <<helpers, main, jobs, arena, slots, queues, woken, copied, Threads>>

\* Where a submission stands once its inputs or its output have ranges.
Continue(m, goal) ==
    IF goal = "inputs" /\ m.shape.bytes THEN [m EXCEPT !.at = "allocate", !.goal = "inputs"]
    ELSE IF goal # "end" /\ m.shape.output THEN [m EXCEPT !.at = "allocate", !.goal = "output"]
    ELSE [m EXCEPT !.at = "enqueue", !.goal = ""]

\* Starts a submission: claims a slot and references its shared parts.
submit(shape) ==
    /\ At("idle") /\ helpers > 0 /\ Len(jobs) < MaxJobs
    /\ \E shared \in Picks(shape.shared), streamed \in Picks(shape.streamed) :
        LET H == IF Cardinality(DOMAIN host.tickets) >= MaximumTickets THEN sweep(host) ELSE host
            unused == Slots \ {H.tickets[t].slot : t \in DOMAIN H.tickets}
            Uses(i) == (IF i \in shared THEN 1 ELSE 0) + (IF i \in streamed THEN 1 ELSE 0)
        IN  IF unused = {} THEN /\ Fails /\ host' = H
                                /\ UNCHANGED Nothing
            ELSE LET slot == Min(unused) IN
                 /\ main' = Continue([main EXCEPT !.shape = shape, !.slot = slot,
                                        !.shared = shared, !.streamed = streamed], "inputs")
                 /\ host' = [H EXCEPT !.shares = [i \in DOMAIN @ |->
                                [@[i] EXCEPT !.references = @ + Uses(i)]]]
                 /\ slots' = [slots EXCEPT ![slot].streamed =
                                {H.shares[i].block : i \in streamed}]
                 /\ UNCHANGED <<helpers, jobs, taken, arena, queues, woken, copied, Threads>>

----
(* Allocation, which may wait for helpers. *)

\* Gives the first free unit to what the worker allocates.
FirstFit ==
    /\ At("allocate") /\ host.free # {}
    /\ LET unit == Min(host.free)
           H == [host EXCEPT !.free = @ \ {unit}]
       IN \/ /\ main.goal = "share"
             /\ host' = [H EXCEPT !.shares = Append(@, [block |-> unit, references |-> 1,
                                                        named |-> TRUE])]
             /\ arena' = [arena EXCEPT ![unit] = Shared(Len(host.shares) + 1)]
             /\ main' = Rest
          \/ /\ main.goal = "inputs"
             /\ host' = H
             /\ arena' = [arena EXCEPT ![unit] = Bytes(Len(jobs) + 1)]
             /\ main' = Continue([main EXCEPT !.inputs = {unit}], "output")
          \/ /\ main.goal = "output"
             /\ host' = H
             /\ main' = Continue([main EXCEPT !.output = {unit}], "end")
             /\ UNCHANGED arena
    /\ UNCHANGED <<helpers, jobs, taken, slots, queues, woken, copied, Threads>>

\* Loads the copied word before looking at what helpers have copied.
LoadCopied ==
    /\ At("allocate") /\ host.free = {}
    /\ copied' = FALSE
    /\ main' = [main EXCEPT !.at = "sweep"]
    /\ UNCHANGED <<helpers, jobs, taken, host, arena, slots, queues, woken, Threads>>

\* Releases what has ended, else waits, grows, or fails.
Reclaim ==
    /\ At("sweep")
    /\ LET H == sweep(releaseCopied(host)) IN
       \/ /\ H.free # {}
          /\ host' = H /\ main' = [main EXCEPT !.at = "allocate"]
       \/ /\ H.free = {} /\ H.size >= SoftArena /\ Holding(H) # {}
          /\ host' = H /\ main' = [main EXCEPT !.at = "full"]
       \/ /\ H.free = {} /\ ~(H.size >= SoftArena /\ Holding(H) # {})
          /\ \/ /\ Grown(H) > H.size
                /\ host' = [H EXCEPT !.size = Grown(H), !.free = (H.size + 1)..Grown(H)]
                /\ main' = [main EXCEPT !.at = "allocate"]
             \/ /\ Grown(H) = H.size /\ H.discarded # {}
                /\ host' = H
                /\ \E t \in H.discarded : main' = [main EXCEPT !.at = "abandoned", !.ticket = t]
             \/ /\ Grown(H) = H.size => H.discarded = {}
                /\ host' = H /\ Fails
    /\ UNCHANGED Nothing

\* Woken once a helper has copied an input or ended a job that held one.
WakeFull ==
    /\ At("full") /\ copied
    /\ main' = [main EXCEPT !.at = "allocate"]
    /\ UNCHANGED <<host, Nothing>>

\* Only a discarded job still frees memory without the module.
AwaitAbandoned ==
    /\ At("abandoned") /\ Ended(host.tickets, main.ticket)
    /\ host' = sweep(host)
    /\ main' = [main EXCEPT !.at = "allocate", !.ticket = 0]
    /\ UNCHANGED Nothing

----
(* The end of a submission, and its ticket. *)

\* Mutant: any helper runs a sharded job.
LoosePin(shard) == 0

\* A job with a shard runs on the one helper that holds the shard.
Pin(shard) == IF shard = 0 THEN 0 ELSE (shard % helpers) + 1

\* Writes the job's slot and then the ring entry and tail that publish it.
Enqueue ==
    /\ At("enqueue")
    /\ LET t == Len(jobs) + 1
           pin == Pin(main.shape.shard)
           q == queues[pin]
           blocks(handles) == {host.shares[i].block : i \in handles}
           parts == main.inputs # {} \/ main.shared # {} \/ main.streamed # {}
       IN /\ jobs' = Append(jobs, [shape |-> main.shape, shared |-> main.shared,
                                   streamed |-> main.streamed])
          /\ slots' = [slots EXCEPT ![main.slot] =
                [state |-> "queued", kind |-> t, shard |-> main.shape.shard,
                 inputs |-> main.inputs, shared |-> blocks(main.shared),
                 streamed |-> blocks(main.streamed), output |-> main.output, copied |-> FALSE]]
          /\ host' = [host EXCEPT !.tickets = @ @@ (t :>
                [slot |-> main.slot, inputs |-> main.inputs, shared |-> main.shared,
                 streamed |-> main.streamed, output |-> main.output, holding |-> parts])]
          /\ queues' = [queues EXCEPT ![pin] =
                [q EXCEPT !.entries[q.tail % MaximumTickets] = main.slot, !.tail = @ + 1]]
          /\ main' = [Rest EXCEPT !.at = "wake",
                                  !.wakes = IF pin = 0 THEN Running ELSE {pin}]
    /\ UNCHANGED <<helpers, taken, arena, woken, copied, Threads>>

\* Wakes the helpers in turn.
wakeHelper ==
    /\ main.at \in {"wake", "stopping"} /\ main.wakes # {}
    /\ LET h == Min(main.wakes)
           left == main.wakes \ {h}
       IN /\ woken' = woken \cup {h}
          /\ main' = IF left # {} THEN [main EXCEPT !.wakes = left]
                     ELSE IF At("wake") THEN Rest
                     ELSE [Rest EXCEPT !.at = "draining"]
    /\ UNCHANGED <<helpers, jobs, taken, host, arena, slots, queues, copied, Threads>>

\* The module holds the tickets it has neither taken nor dropped.
Held(t) == t \in DOMAIN host.tickets \ host.discarded

wait(t) ==
    /\ At("idle") /\ helpers > 0 /\ Held(t)
    /\ main' = [main EXCEPT !.at = "wait", !.ticket = t]
    /\ UNCHANGED <<host, Nothing>>

\* Takes the output of a job that ended well; another ends the operation.
take ==
    /\ At("wait") /\ Ended(host.tickets, main.ticket)
    /\ LET t == main.ticket IN
       \/ /\ slots[host.tickets[t].slot].state = "done"
          /\ taken' = taken @@ (t :> {arena[u] : u \in host.tickets[t].output})
          /\ host' = finish(host, t)
          /\ main' = Rest
       \/ /\ slots[host.tickets[t].slot].state = "failed"
          /\ host' = releaseInputs(host, t, TRUE)
          /\ Fails
          /\ UNCHANGED taken
    /\ UNCHANGED <<helpers, jobs, arena, slots, queues, woken, copied, Threads>>

\* An abandoned job still runs; its output is cleared.
discard(t) ==
    /\ At("idle") /\ Held(t)
    /\ host' = IF helpers = 0
               THEN [host EXCEPT !.tickets = [u \in DOMAIN @ \ {t} |-> @[u]]]
               ELSE sweep([host EXCEPT !.discarded = @ \cup {t}])
    /\ UNCHANGED <<main, Nothing>>

\* The operation's end, or its failure, stops the helpers.
Stop ==
    /\ (At("idle") /\ Len(jobs) >= EndAfter) \/ At("failed")
    /\ stop' = TRUE
    /\ main' = [Rest EXCEPT !.at = IF helpers = 0 THEN "stopped" ELSE "stopping", !.wakes = Running]
    /\ UNCHANGED <<helpers, jobs, taken, host, arena, slots, queues, woken, copied, helper, kept,
                   failures, writing>>

\* Clears the arena once no helper writes an output into it.
Clear ==
    /\ At("draining") /\ writing = {}
    /\ arena' = [u \in Units |-> Zero]
    /\ main' = [Rest EXCEPT !.at = "stopped"]
    /\ UNCHANGED <<helpers, jobs, taken, host, slots, queues, woken, copied, Threads>>

----
(* A helper. *)

Moves(h, from, to) == helper[h].at = from /\ helper' = [helper EXCEPT ![h].at = to]
Worker == <<helpers, main, jobs, taken, host>>

\* Mutant: looks for work and loads the wake word only when it found none.
LateLook(h) ==
    /\ \/ Moves(h, "look", "check") /\ UNCHANGED woken
       \/ Moves(h, "asleep", "drowsy") /\ woken' = woken \ {h}
       \/ Moves(h, "drowsy", "look") /\ h \in woken /\ UNCHANGED woken
    /\ UNCHANGED <<Worker, arena, slots, queues, copied, writing, stop, kept, failures>>

\* Loads the wake word before it looks for work.
Look(h) ==
    /\ Moves(h, "look", "check")
    /\ woken' = woken \ {h}
    /\ UNCHANGED <<Worker, arena, slots, queues, copied, writing, stop, kept, failures>>

\* Leaves after the stop, else takes the next pinned job, which only this
\* helper takes.
Check(h) ==
    /\ helper[h].at = "check"
    /\ LET q == queues[h] IN
       \/ /\ stop
          /\ helper' = [helper EXCEPT ![h].at = "closed"]
          /\ UNCHANGED queues
       \/ /\ ~stop /\ q.head = q.tail
          /\ helper' = [helper EXCEPT ![h].at = "unpinned"]
          /\ UNCHANGED queues
       \/ /\ ~stop /\ q.head # q.tail
          /\ helper' = [helper EXCEPT ![h].at = "copy",
                                      ![h].slot = q.entries[q.head % MaximumTickets]]
          /\ queues' = [queues EXCEPT ![h].head = @ + 1]
    /\ UNCHANGED <<Worker, arena, slots, woken, copied, writing, stop, kept, failures>>

\* Loads the unpinned queue's head and the slot there, or sleeps.
NextUnpinned(h) ==
    /\ helper[h].at = "unpinned"
    /\ LET q == queues[0] IN
       helper' = IF q.head = q.tail THEN [helper EXCEPT ![h].at = "asleep"]
                 ELSE [helper EXCEPT ![h].at = "claim", ![h].head = q.head,
                                     ![h].slot = q.entries[q.head % MaximumTickets]]
    /\ UNCHANGED <<Worker, arena, slots, queues, woken, copied, writing, stop, kept, failures>>

\* Claims the loaded slot unless another helper moved the head.
Claim(h) ==
    /\ helper[h].at = "claim"
    /\ \/ /\ queues[0].head = helper[h].head
          /\ queues' = [queues EXCEPT ![0].head = @ + 1]
          /\ helper' = [helper EXCEPT ![h].at = "copy", ![h].head = 0]
       \/ /\ queues[0].head # helper[h].head
          /\ helper' = [helper EXCEPT ![h].at = "unpinned", ![h].slot = 0, ![h].head = 0]
          /\ UNCHANGED queues
    /\ UNCHANGED <<Worker, arena, slots, woken, copied, writing, stop, kept, failures>>

\* Sleeps until its wake word grew past the value it loaded.
Sleep(h) ==
    /\ h \in woken
    /\ Moves(h, "asleep", "look")
    /\ UNCHANGED <<Worker, arena, slots, queues, woken, copied, writing, stop, kept, failures>>

\* Copies the job's parts into the instance; a streamed part stays.
Copy(h) ==
    /\ helper[h].at = "copy" /\ ~helper[h].trapped
    /\ LET s == slots[helper[h].slot] IN
       helper' = [helper EXCEPT ![h].at = "copied",
                    ![h].input = [bytes |-> {arena[u] : u \in s.inputs},
                                  shared |-> {arena[u] : u \in s.shared},
                                  streamed |-> s.streamed]]
    /\ UNCHANGED <<Worker, arena, slots, queues, woken, copied, writing, stop, kept, failures>>

\* Tells the worker that it reads the input's ranges no more.
MarkCopied(h) ==
    /\ Moves(h, "copied", "run")
    /\ slots' = [slots EXCEPT ![helper[h].slot].copied = TRUE]
    /\ copied' = TRUE
    /\ UNCHANGED <<Worker, arena, queues, woken, writing, stop, kept, failures>>

\* Runs the job, which reads its streamed part as it goes.
Run(h) ==
    /\ helper[h].at = "run"
    /\ LET s == slots[helper[h].slot]
           i == helper[h].input
       IN /\ helper' = [helper EXCEPT ![h].at = "enter", ![h].input = <<>>,
                ![h].output = Output(s.kind, i.bytes, i.shared, {arena[u] : u \in i.streamed},
                                     Found(h, s.shard))]
          /\ kept' = Leaves(h, s.shard, s.kind)
    /\ UNCHANGED <<Worker, arena, slots, queues, woken, copied, writing, stop, failures>>

\* The job does not end well, having left its shard's state or not.
Failing(h, left) ==
    /\ ~helper[h].trapped /\ Cardinality(failures) < MaxFailures
    /\ failures' = failures \cup {[job |-> slots[helper[h].slot].kind, left |-> left]}
    /\ UNCHANGED <<Worker, arena, slots, queues, woken, copied, writing, stop>>

\* A job traps before or while it runs, which leaves the instance unusable.
Trap(h) ==
    /\ helper[h].at \in {"copy", "run"}
    /\ helper' = [helper EXCEPT ![h].at = "end", ![h].input = <<>>, ![h].trapped = TRUE]
    /\ Failing(h, FALSE)
    /\ UNCHANGED kept

\* A job fails without a trap: the instance takes no input of its length or knows
\* no job of its kind, or the job ran and its output is not of the slot's length.
Fail(h) ==
    /\ \/ helper[h].at \in {"copy", "run"} /\ Failing(h, FALSE) /\ UNCHANGED kept
       \/ /\ helper[h].at = "run" /\ Failing(h, TRUE)
          /\ LET s == slots[helper[h].slot] IN kept' = Leaves(h, s.shard, s.kind)
    /\ helper' = [helper EXCEPT ![h].at = "end", ![h].input = <<>>]

\* A trapped instance ends every later job as its trap ended the first.
Refuse(h) ==
    /\ helper[h].trapped
    /\ Moves(h, "copy", "end")
    /\ UNCHANGED <<Worker, arena, slots, queues, woken, copied, writing, stop, kept, failures>>

\* Counts itself as writing before it looks at the stop word.
Enter(h) ==
    /\ Moves(h, "enter", "gate")
    /\ writing' = writing \cup {h}
    /\ UNCHANGED <<Worker, arena, slots, queues, woken, copied, stop, kept, failures>>

Gate(h) ==
    /\ Moves(h, "gate", IF stop THEN "leave" ELSE "write")
    /\ UNCHANGED <<Worker, arena, slots, queues, woken, copied, writing, stop, kept, failures>>

Write(h) ==
    /\ helper[h].at = "write"
    /\ arena' = [u \in Units |-> IF u \in slots[helper[h].slot].output
                                 THEN helper[h].output ELSE arena[u]]
    /\ helper' = [helper EXCEPT ![h].at = "leave", ![h].done = TRUE]
    /\ UNCHANGED <<Worker, slots, queues, woken, copied, writing, stop, kept, failures>>

\* Leaves the writers and clears the instance's buffers.
Leave(h) ==
    /\ helper[h].at = "leave"
    /\ helper' = [helper EXCEPT ![h].at = "end", ![h].output = <<>>]
    /\ writing' = writing \ {h}
    /\ UNCHANGED <<Worker, arena, slots, queues, woken, copied, stop, kept, failures>>

\* Stores the job's end.
End(h) ==
    /\ helper[h].at = "end"
    /\ slots' = [slots EXCEPT ![helper[h].slot].state =
                    IF helper[h].done THEN "done" ELSE "failed"]
    /\ helper' = [helper EXCEPT ![h].at = "release", ![h].done = FALSE]
    /\ UNCHANGED <<Worker, arena, queues, woken, copied, writing, stop, kept, failures>>

\* A job that ended uncopied, or that streamed a part, releases input now.
Released(s) == ~s.copied \/ s.streamed # {}

\* Wakes a worker waiting for arena space; the slot may be another job's by now.
WakeWorker(h) ==
    /\ helper[h].at = "release"
    /\ copied' = (copied \/ Released(slots[helper[h].slot]))
    /\ helper' = [helper EXCEPT ![h].at = "look", ![h].slot = 0]
    /\ UNCHANGED <<Worker, arena, slots, queues, woken, writing, stop, kept, failures>>

----
HelperStep(h) ==
    \/ Look(h) \/ Check(h) \/ NextUnpinned(h) \/ Claim(h) \/ Sleep(h)
    \/ Copy(h) \/ MarkCopied(h) \/ Run(h) \/ Refuse(h)
    \/ Enter(h) \/ Gate(h) \/ Write(h) \/ Leave(h) \/ End(h) \/ WakeWorker(h)

\* What the worker's thread does inside a call.
CallStep ==
    \/ FirstFit \/ LoadCopied \/ Reclaim \/ WakeFull \/ AwaitAbandoned
    \/ Enqueue \/ wakeHelper \/ take \/ Clear

Ops ==
    \/ Share \/ Stop
    \/ \E i \in DOMAIN host.shares : release(i)
    \/ \E shape \in Shapes : RunHere(shape) \/ submit(shape)
    \/ \E t \in DOMAIN host.tickets : WaitHere(t) \/ wait(t) \/ discard(t)

\* The operation has stopped and every helper has left its loop.
Closed ==
    /\ At("stopped") /\ \A h \in Running : helper[h].at = "closed"
    /\ UNCHANGED vars

Next ==
    \/ CallStep \/ Ops \/ Closed
    \/ \E h \in Running : HelperStep(h) \/ Trap(h) \/ Fail(h)

Spec == Init /\ [][Next]_vars

\* The steps that the worker and a helper owe: a call goes on, a failed operation
\* stops, and a running helper goes on with its loop.
StopFailed == Stop /\ At("failed")
HelperRuns(h) == h \in Running /\ HelperStep(h)

----
TypeOK ==
    /\ helpers \in Counts
    /\ main.at \in {"idle", "allocate", "sweep", "full", "abandoned", "enqueue", "wake", "wait",
                    "failed", "stopping", "draining", "stopped"}
    /\ host.size \in InitialArena..MaximumArena /\ host.free \subseteq 1..host.size
    /\ host.discarded \subseteq DOMAIN host.tickets
    /\ woken \subseteq Running /\ writing \subseteq Running
    /\ copied \in BOOLEAN /\ stop \in BOOLEAN /\ Cardinality(failures) <= MaxFailures

\* The output a job computes alone: from its own parts and from the state the
\* latest earlier job of its shard left, of those that left any.
Alone(t) ==
    LET j == jobs[t]
        earlier == {u \in 1..(t - 1) : /\ jobs[u].shape.shard = j.shape.shard
                                       /\ [job |-> u, left |-> FALSE] \notin failures}
    IN  IF ~j.shape.output THEN {}
        ELSE {Output(t, IF j.shape.bytes THEN {Bytes(t)} ELSE {},
                     {Shared(i) : i \in j.shared}, {Shared(i) : i \in j.streamed},
                     IF j.shape.shard = 0 \/ earlier = {} THEN 0 ELSE Max(earlier))}

(* Every output the module takes is the one the instance computes alone:   *)
(* no reuse of an arena range, slot or ring entry, no order of claims, no  *)
(* abandoned job and no released share reaches it.                         *)
OutputExact == \A t \in DOMAIN taken : taken[t] = Alone(t)

\* The units each holder keeps, with how many holders a unit has.
UnitHolders(u) ==
    Cardinality({i \in DOMAIN host.shares : host.shares[i].references > 0 /\ host.shares[i].block = u})
    + Cardinality({t \in DOMAIN host.tickets : host.tickets[t].holding /\ u \in host.tickets[t].inputs})
    + Cardinality({t \in DOMAIN host.tickets : u \in host.tickets[t].output})
    + (IF u \in main.inputs \cup main.output THEN 1 ELSE 0)
    + (IF u \in host.free THEN 1 ELSE 0)

References(i) ==
    (IF host.shares[i].named THEN 1 ELSE 0)
    + Cardinality({t \in DOMAIN host.tickets : host.tickets[t].holding /\ i \in host.tickets[t].shared})
    + Cardinality({t \in DOMAIN host.tickets : i \in host.tickets[t].streamed})
    + (IF i \in main.shared THEN 1 ELSE 0) + (IF i \in main.streamed THEN 1 ELSE 0)

(* Every unit of the arena is free or has exactly one holder, and a shared *)
(* input is referenced once by the module while it keeps it and once by    *)
(* each part that still reads it, until the operation ends.                *)
AccountExact ==
    helpers > 0 /\ ~stop /\ ~At("failed") =>
        /\ \A u \in 1..host.size : UnitHolders(u) = 1
        /\ \A i \in DOMAIN host.shares : host.shares[i].references = References(i)

Working(h) == helper[h].at \in {"copy", "copied", "run", "enter", "gate", "write", "leave", "end"}

(* No two helpers run one job, and the slot a helper runs is still queued  *)
(* and held by a ticket: the ticket cannot be finished under it.           *)
ClaimedOnce ==
    \A h \in Running : Working(h) =>
        /\ \A g \in Running \ {h} : Working(g) => helper[g].slot # helper[h].slot
        /\ slots[helper[h].slot].state = "queued"
        /\ \E t \in DOMAIN host.tickets : host.tickets[t].slot = helper[h].slot

(* Once the worker has stopped its helpers the arena holds no byte of the  *)
(* operation, whatever a helper was still computing.                       *)
ClearedForGood == At("stopped") => \A u \in Units : arena[u] = Zero

\* What the liveness of the calls, the jobs and the helpers is stated with.
InCall == main.at \notin {"idle", "failed", "stopped"}
Returned == main.at \in {"idle", "stopped"}
Queued(s) == slots[s].state = "queued"
Unqueued(s) == slots[s].state # "queued" \/ stop
Stopping(h) == stop /\ h \in Running
HelperClosed(h) == helper[h].at = "closed"
====
