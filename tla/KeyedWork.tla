------------------------------ MODULE KeyedWork ------------------------------
(***************************************************************************)
(* The keyed work of one ranking instruction: the tensor products of a     *)
(* ciphertext product, and then the keyed products over the key records    *)
(* that an untrusted host reads back from its storage.                     *)
(*                                                                         *)
(* A prime's jobs run on one helper, in the order they were submitted, and *)
(* helpers keep transformed polynomials between jobs: a tensor's sources,  *)
(* or one prime's digits. A record is right or not; what a job sums from   *)
(* wrong records is only refused when its output is taken.                 *)
(*                                                                         *)
(* Without helpers the instance runs each job as it is submitted: the case *)
(* of one helper that is never behind, but that its window is one job and  *)
(* not two, so outputs are taken a step sooner.  The sets that a helper's  *)
(* primes are split into by the job bound run on that helper one after the *)
(* other, and are one set here.                                            *)
(***************************************************************************)
EXTENDS Integers, Sequences, SequencesExt, FiniteSets, FiniteSetsExt

CONSTANTS Helpers, Primes, GadgetLength,
          ReadAhead,   \* requests named for the host after the pending one
          MaxWorks,    \* bound on the works started
          None

KeyedAssumption ==
  {Helpers, Primes, GadgetLength, ReadAhead, MaxWorks} \subseteq Nat \ {0}

Groups == 2
Total  == Groups * Primes
Digits == 4    \* the slot of a prime's digits

VARIABLES
  phase,      \* "idle", "tensor", "keyed", "done", "refused"
  kind,       \* "product", "square" or "rotation"
  plan,       \* the tensor steps still to take
  works, session, stage, requested, delivered, shared, running, sums, kept,
  queue,      \* helper -> its jobs, oldest first
  store,      \* helper -> what it keeps, as <<session, prime, slot>>
  ticket,     \* the number of the last job
  fault       \* whether a job met an assertion

vars == <<phase, kind, plan, works, session, stage, requested, delivered, shared,
          running, sums, kept, queue, store, ticket, fault>>

product == <<stage, requested, delivered, shared, running, sums, kept>>

HelperIds == 0 .. Helpers - 1
HelperOf(p) == p % Helpers
SetOf(h) == {p \in 0 .. Primes - 1 : HelperOf(p) = h}
NoSums == [g \in 0 .. Groups - 1 |-> [p \in 0 .. Primes - 1 |-> None]]

TypeOK ==
  /\ phase \in {"idle", "tensor", "keyed", "done", "refused"}
  /\ kind \in {"product", "square", "rotation"}
  /\ requested \in 0 .. Total /\ Len(delivered) <= GadgetLength
  /\ shared \in BOOLEAN \cup {None} /\ kept \subseteq 0 .. Primes - 1
  /\ fault \in BOOLEAN /\ stage \in 1 .. 2

Init ==
  /\ phase = "idle" /\ kind = "rotation" /\ plan = <<>> /\ works = 0 /\ session = 0
  /\ stage = 1 /\ requested = 0 /\ delivered = <<>> /\ shared = None
  /\ running = <<>> /\ sums = NoSums /\ kept = {}
  /\ queue = [h \in HelperIds |-> <<>>] /\ store = [h \in HelperIds |-> {}]
  /\ ticket = 0 /\ fault = FALSE

Ended(t) == \A h \in HelperIds : \A i \in 1 .. Len(queue[h]) : queue[h][i].ticket # t
AllEnded == \A h \in HelperIds : queue[h] = <<>>

----
(* Tensor products. A keep step puts a component's residues in a slot of   *)
(* every helper; a product step names two slots and the ones it drops.     *)

Keep(s) == [keep |-> s, left |-> None, right |-> None, drops |-> {}]
Times(l, r, d) == [keep |-> None, left |-> l, right |-> r, drops |-> d]

\* Slots 0 and 1 are the left ciphertext's components, 2 and 3 the right's.
\* A rotation has no tensor.
Tensors(k) ==
  IF k = "square"
  THEN <<Keep(0), Keep(1), Times(0, 0, {}), Times(0, 1, {0}), Times(1, 1, {1})>>
  ELSE IF k = "product"
  THEN <<Keep(0), Keep(2), Times(0, 2, {}), Keep(3), Times(0, 3, {0}), Keep(1),
         Times(1, 2, {2}), Times(1, 3, {1, 3})>>
  ELSE <<>>

Fresh ==
  /\ requested' = 0 /\ delivered' = <<>> /\ shared' = None /\ running' = <<>>
  /\ sums' = NoSums /\ kept' = {}

Start(k) ==
  /\ phase \in {"idle", "done"} /\ works < MaxWorks
  /\ kind' = k /\ works' = works + 1 /\ session' = session + 1 /\ stage' = 1
  /\ plan' = Tensors(k)
  /\ phase' = IF k = "rotation" THEN "keyed" ELSE "tensor"
  /\ Fresh
  /\ UNCHANGED <<queue, store, ticket, fault>>

\* A keep step only submits; a product step waits for the sources before it
\* and for its own outputs, so the step after it finds them ended.
TensorStep ==
  /\ phase = "tensor" /\ plan # <<>>
  /\ LET step == Head(plan)
         n    == Len(Tensors(kind)) - Len(plan)
         job(h) == [kind |-> IF step.keep # None THEN "sources" ELSE "tensor",
                    ticket |-> ticket + 1, session |-> session, primes |-> SetOf(h),
                    step |-> step]
     IN  /\ (step.keep = None \/ (n > 0 /\ Tensors(kind)[n].keep = None)) => AllEnded
         /\ queue' = [h \in HelperIds |-> IF SetOf(h) = {} THEN queue[h] ELSE Append(queue[h], job(h))]
  /\ plan' = Tail(plan) /\ ticket' = ticket + 1
  /\ UNCHANGED <<phase, kind, works, session, product, store, fault>>

\* The quadratic term starts the first keyed product, of a session of its own.
TensorDone ==
  /\ phase = "tensor" /\ plan = <<>> /\ AllEnded
  /\ phase' = "keyed" /\ session' = session + 1
  /\ UNCHANGED <<kind, plan, works, product, queue, store, ticket, fault>>

----
(* Keyed products.                                                         *)

\* The prime and group of the job of the index: in batches of as many primes
\* as helpers, each batch's first group before its second.
keyed_job(index) ==
  LET first == (index \div (Groups * Helpers)) * Helpers
      held  == Min({Helpers, Primes - first})
      within == index - Groups * first
  IN  <<first + (within % held), within \div held>>

\* A request: the first key's ordinal and the prime. A product's second
\* keyed product uses the next pair of groups.
RequestAt(st, index) ==
  LET job == keyed_job(index)
  IN  [first |-> ((st - 1) * Groups + job[2]) * GadgetLength, prime |-> job[1]]

Pending == RequestAt(stage, requested)

Stages == IF kind = "rotation" THEN 1 ELSE 2

\* The requests after the pending one.
Following ==
  LET later == [i \in 1 .. Total - requested - 1 |-> RequestAt(stage, requested + i)]
      second == IF stage < Stages THEN [i \in 1 .. Total |-> RequestAt(2, i - 1)] ELSE <<>>
      all == later \o second
  IN  SubSeq(all, 1, Min({ReadAhead, Len(all)}))

\* The host delivers the request's next record; any other is refused.
deliver_record(exact) ==
  /\ phase = "keyed" /\ requested < Total /\ shared = None
  /\ Len(delivered) < GadgetLength
  /\ delivered' = Append(delivered, exact)
  /\ UNCHANGED <<phase, kind, plan, works, session, stage, requested, shared, running,
                 sums, kept, queue, store, ticket, fault>>

\* Or it shares the whole request's records at once.
deliver_shared_records(exact) ==
  /\ phase = "keyed" /\ requested < Total /\ shared = None /\ delivered = <<>>
  /\ shared' = exact
  /\ UNCHANGED <<phase, kind, plan, works, session, stage, requested, delivered, running,
                 sums, kept, queue, store, ticket, fault>>

Complete == requested < Total /\ (shared # None \/ Len(delivered) = GadgetLength)
Exact == IF shared # None THEN shared ELSE \A i \in 1 .. Len(delivered) : delivered[i]

\* The last group's job drops the prime's digits.
LastGroup(group) == group + 1 = Groups

\* The jobs a complete delivery starts: the digits before a first group.
Started ==
  LET job == keyed_job(requested)
      new(k, t) == [kind |-> k, ticket |-> t, session |-> session, primes |-> {job[1]},
                    last |-> LastGroup(job[2])]
  IN  IF ~Complete THEN <<>>
      ELSE IF job[2] = 0 THEN <<new("digits", ticket + 1), new("keyed", ticket + 2)>>
      ELSE <<new("keyed", ticket + 1)>>

\* A job is pinned to the helper of its prime and queued there.
Submitted(jobs) ==
  [h \in HelperIds |-> queue[h] \o SelectSeq(jobs, LAMBDA j : \A p \in j.primes : HelperOf(p) = h)]

\* Mutant: nothing is given up.
ForgetsNone(primes) == <<>>

\* The primes whose digits the product left on the helpers, given up after
\* their jobs there.
Forgets(primes) ==
  LET ps == SetToSortSeq(primes, <)
  IN  [i \in 1 .. Len(ps) |-> [kind |-> "forget", ticket |-> ticket + i, session |-> session,
                               primes |-> {ps[i]}, last |-> FALSE]]

\* The identities of a job's records are those of the loaded keys.
Refused(outputs) == \E i \in 1 .. Len(outputs) : ~outputs[i].exact

\* Each output is the sum of its own prime and group.
Summed(outputs) ==
  FoldLeft(LAMBDA all, o : LET job == keyed_job(o.index)
                           IN  [all EXCEPT ![job[2]][job[1]] = o.exact],
           sums, outputs)

\* Starts the job of a complete delivery and takes the outputs beyond the
\* window, oldest first, until one that still runs. After the last job the
\* window is empty, and the product is done once every output is taken; a
\* product's first keyed product is followed by the second.
advance ==
  /\ phase = "keyed"
  /\ LET job == keyed_job(requested)
         all == IF Complete
                THEN Append(running, [index |-> requested, exact |-> Exact,
                                      ticket |-> ticket + Len(Started)])
                ELSE running
         next == IF Complete THEN requested + 1 ELSE requested
         window == IF next = Total THEN 0 ELSE Helpers + 1
         ended(i) == i <= Len(running) /\ Ended(running[i].ticket)
         beyond == IF Len(all) > window THEN Len(all) - window ELSE 0
         take == CHOOSE k \in 0 .. beyond : /\ \A i \in 1 .. k : ended(i)
                                            /\ (k = beyond \/ ~ended(k + 1))
         outputs == SubSeq(all, 1, take)
         left == IF ~Complete THEN kept
                 ELSE IF job[2] + 1 = Groups THEN kept \ {job[1]} ELSE kept \cup {job[1]}
         done == next = Total /\ take = Len(all)
     IN  /\ Complete \/ take > 0
         /\ queue' = Submitted(Started)
         /\ ticket' = ticket + Len(Started)
         /\ IF Refused(outputs)
            THEN /\ phase' = "refused"
                 /\ requested' = next /\ running' = <<>> /\ sums' = NoSums
                 /\ kept' = left
                 /\ UNCHANGED <<session, stage>>
            ELSE IF done /\ stage < Stages
            THEN /\ stage' = stage + 1 /\ session' = session + 1
                 /\ requested' = 0 /\ running' = <<>> /\ sums' = NoSums /\ kept' = {}
                 /\ UNCHANGED phase
            ELSE /\ phase' = IF done THEN "done" ELSE "keyed"
                 /\ requested' = next /\ running' = SubSeq(all, take + 1, Len(all))
                 /\ sums' = Summed(outputs)
                 /\ kept' = left
                 /\ UNCHANGED <<session, stage>>
  /\ delivered' = (IF Complete THEN <<>> ELSE delivered) /\ shared' = (IF Complete THEN None ELSE shared)
  /\ UNCHANGED <<kind, plan, works, store, fault>>

\* The evaluation ends with the product unfinished, as after a refusal.
drop ==
  /\ phase \in {"keyed", "refused"}
  /\ phase' = "idle"
  /\ queue' = Submitted(Forgets(kept)) /\ ticket' = ticket + Cardinality(kept)
  /\ Fresh
  /\ UNCHANGED <<kind, plan, works, session, stage, store, fault>>

----
(* The kernels.                                                            *)

Slots(j, slot) == {<<j.session, p, slot>> : p \in j.primes}

\* What a job leaves on its helper.
Kept(j, held) ==
  CASE j.kind = "sources" -> held \cup Slots(j, j.step.keep)
    [] j.kind = "tensor"  -> held \ UNION {Slots(j, s) : s \in j.step.drops}
    [] j.kind = "digits"  -> held \cup Slots(j, Digits)
    [] j.kind = "keyed"   -> IF j.last THEN held \ Slots(j, Digits) ELSE held
    [] j.kind = "forget"  -> held \ Slots(j, Digits)

\* The assertions of the kernels: nothing is kept twice, and what a product
\* reads is there.
Asserts(j, held) ==
  CASE j.kind = "sources" -> Slots(j, j.step.keep) \cap held = {}
    [] j.kind = "tensor"  -> Slots(j, j.step.left) \cup Slots(j, j.step.right) \subseteq held
    [] j.kind = "digits"  -> Slots(j, Digits) \cap held = {}
    [] j.kind = "keyed"   -> Slots(j, Digits) \subseteq held
    [] j.kind = "forget"  -> TRUE

run(h) ==
  /\ queue[h] # <<>>
  /\ queue' = [queue EXCEPT ![h] = Tail(@)]
  /\ store' = [store EXCEPT ![h] = Kept(Head(queue[h]), @)]
  /\ fault' = (fault \/ ~Asserts(Head(queue[h]), store[h]))
  /\ UNCHANGED <<phase, kind, plan, works, session, product, ticket>>

Next == \/ \E k \in {"product", "square", "rotation"} : Start(k)
        \/ TensorStep \/ TensorDone \/ advance \/ drop
        \/ \E exact \in BOOLEAN : deliver_record(exact) \/ deliver_shared_records(exact)
        \/ \E h \in HelperIds : run(h)

Spec == Init /\ [][Next]_vars

\* A host that goes on serving right records, and helpers that run.
ServedNext == \/ works = 0 /\ \E k \in {"product", "square", "rotation"} : Start(k)
              \/ TensorStep \/ TensorDone \/ advance
              \/ deliver_record(TRUE) \/ deliver_shared_records(TRUE)
              \/ \E h \in HelperIds : run(h)

----
(* Properties.                                                             *)

\* No job meets an assertion: sources and digits are where a job reads them,
\* after products that were refused or given up too.
KernelsServed == ~fault

\* A helper holds what its reservation counts: at most three sources for each
\* of its primes or the digits of one prime, never both.
HelperReserved ==
  \A h \in HelperIds :
    LET digits == {k \in store[h] : k[3] = Digits}
        sources == store[h] \ digits
    IN  /\ Cardinality(digits) <= 1
        /\ \A p \in 0 .. Primes - 1 : Cardinality({k \in sources : k[2] = p}) <= 3
        /\ digits = {} \/ sources = {}

\* A finished work stands on right records alone, for every prime and group,
\* whatever the host delivered.
SumsOfRightRecords ==
  phase = "done" => \A g \in 0 .. Groups - 1, p \in 0 .. Primes - 1 : sums[g][p] = TRUE

\* Once its jobs ran, an ended work has left nothing on any helper.
NothingKept ==
  phase \in {"idle", "done"} /\ AllEnded => \A h \in HelperIds : store[h] = {}

\* What the host reads ahead is what it is asked for next.
ReadAheadRight ==
  phase = "keyed" /\ phase' = "keyed" /\ requested' < Total
  /\ <<stage, requested>>' # <<stage, requested>>
  => Following # <<>> /\ Pending' = Head(Following)

\* A work that runs, and a work that has ended well.
Working == phase \in {"tensor", "keyed"}
Worked == phase = "done"
====
