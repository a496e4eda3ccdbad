---------------------------- MODULE Contribution ----------------------------
(* A participant's contribution over its visits: the worker's root and stored *)
(* records, the seeds that its runs draw from, the module's generation and     *)
(* proof (SetupProver in one step per stored record), and the signing of the   *)
(* offer (worker stages/contribution; participant-module abi/contribution.rs,  *)
(* offer-signing.rs, operation-random.rs; protocol-foundations                *)
(* contribution-offer.rs, contribution-body.rs, preparation.rs).              *)
EXTENDS Naturals, FiniteSets

CONSTANTS
  Polynomials,  \* the body's polynomial records
  Checkpoints,  \* the checkpoint's records
  Proofs,       \* the proof's records
  MaxVisits,    \* a bound on the visits
  Nothing

ASSUME ContributionAssumption ==
  /\ {Polynomials, Checkpoints, Proofs, MaxVisits} \subseteq Nat \ {0}
  /\ Nothing \notin Nat

VARIABLES
  root,      \* the committed phase, seed, derivation and envelope
  store,     \* the stored records, whether the root lists them or not
  preparationRetired,  \* the root has retired the preparation
  run,       \* instance: the generation or continuation that runs, or Nothing
  prover,    \* instance: the derivation of the checkpointed prover, or Nothing
  offer,     \* instance: the offer signer
  stopped,   \* instance: a command failed
  visits,    \* the visits so far
  drawn,     \* the seeds drawn from the browser so far
  produced,  \* every record that any run produced
  signedEnvelopes     \* the envelopes that were signed

durable == <<root, store, preparationRetired>>
instance == <<run, prover, offer, stopped>>
history == <<visits, drawn, produced, signedEnvelopes>>
contributionVars == <<durable, instance, history>>

Name(kind, n) == [kind |-> kind, index |-> n]
Names == [kind : {"polynomial"}, index : 1..Polynomials]
         \cup [kind : {"checkpoint"}, index : 1..Checkpoints]
         \cup [kind : {"proof"}, index : 1..Proofs]

\* The records of a run, in the order that it produces them.
RunLength(kind) == IF kind = "generation" THEN Polynomials + Checkpoints ELSE Proofs
RunName(kind, n) ==
  IF kind = "continuation" THEN Name("proof", n)
  ELSE IF n <= Polynomials THEN Name("polynomial", n)
  ELSE Name("checkpoint", n - Polynomials)

\* The records that the root lists.
Listed(phase) ==
  {n \in Names :
     \/ n.kind = "polynomial" /\ phase \notin {"none", "generationIntent"}
     \/ n.kind = "checkpoint" /\ phase \in {"checkpoint", "continuationIntent"}
     \/ n.kind = "proof" /\ phase \in {"body", "signingIntent", "signed"}}

NoOffer == [pushed |-> 0, content |-> {}, envelope |-> Nothing, signature |-> FALSE]

ContributionInit ==
  /\ root = [phase |-> "none", seed |-> Nothing, generation |-> Nothing,
             continuation |-> Nothing, envelope |-> Nothing]
  /\ store = [n \in Names |-> Nothing] /\ preparationRetired = FALSE
  /\ run = Nothing /\ prover = Nothing /\ offer = NoOffer /\ stopped = FALSE
  /\ visits = 1 /\ drawn = 0 /\ produced = {} /\ signedEnvelopes = {}

----
(* The intents: a seed is retained before anything is drawn from it *)

BeginContribution ==
  /\ root.phase = "none" /\ ~preparationRetired
  /\ root' = [root EXCEPT !.phase = "generationIntent", !.seed = drawn]
  /\ drawn' = drawn + 1
  /\ UNCHANGED <<store, preparationRetired, instance, visits, produced, signedEnvelopes>>

\* The records of an interrupted run are discarded before another one.
Discarded(kind) ==
  [n \in Names |-> IF n \in Listed(root.phase) \/ (kind = "continuation" /\ n.kind # "proof")
                   THEN store[n] ELSE Nothing]

\* Mutant: a run draws a seed of its own.
FreshSeed == drawn

\* The installed stream is the retained seed's.
InstalledSeed == root.seed

StartRun(kind) ==
  /\ run = Nothing /\ ~stopped /\ ~preparationRetired /\ offer = NoOffer
  /\ run' = [kind |-> kind, seed |-> InstalledSeed, next |-> 1]
  /\ store' = Discarded(kind)
  /\ drawn' = drawn + (IF InstalledSeed = drawn THEN 1 ELSE 0)
  /\ UNCHANGED <<root, preparationRetired, offer, stopped, visits, produced, signedEnvelopes>>

Generate ==
  /\ root.phase = "generationIntent" /\ prover = Nothing
  /\ StartRun("generation") /\ UNCHANGED prover

\* The continuation's own seed is committed first.
BeginContinuation ==
  /\ root.phase = "checkpoint" /\ prover # Nothing /\ ~stopped
  /\ root' = [root EXCEPT !.phase = "continuationIntent", !.seed = drawn]
  /\ drawn' = drawn + 1
  /\ UNCHANGED <<store, preparationRetired, instance, visits, produced, signedEnvelopes>>

Continue ==
  /\ root.phase = "continuationIntent" /\ prover # Nothing
  /\ StartRun("continuation") /\ UNCHANGED prover

----
(* The runs *)

\* What a run makes its records of.
Derived(r) ==
  [generation |-> IF r.kind = "generation" THEN r.seed ELSE prover,
   continuation |-> IF r.kind = "generation" THEN Nothing ELSE r.seed]

\* The next record is stored ahead of the root that will list it.
StoreRecord ==
  /\ run # Nothing /\ run.next <= RunLength(run.kind)
  /\ LET n == RunName(run.kind, run.next) IN
       /\ store[n] = Nothing
       /\ store' = [store EXCEPT ![n] = Derived(run)]
       /\ produced' = produced \cup {[name |-> n, content |-> Derived(run)]}
  /\ run' = [run EXCEPT !.next = @ + 1]
  /\ UNCHANGED <<root, preparationRetired, prover, offer, stopped, visits, drawn, signedEnvelopes>>

\* Every record of the run is stored.
Complete == run.next > RunLength(run.kind)

\* The root that lists a complete run retires its seed; the body's root clears the
\* checkpoint in the same transaction.
CommitRun ==
  /\ run # Nothing /\ Complete
  /\ IF run.kind = "generation"
     THEN /\ root' = [root EXCEPT !.phase = "checkpoint", !.seed = Nothing, !.generation = run.seed]
          /\ prover' = run.seed /\ UNCHANGED store
     ELSE /\ root' = [root EXCEPT !.phase = "body", !.seed = Nothing, !.continuation = run.seed]
          /\ prover' = Nothing
          /\ store' = [n \in Names |-> IF n.kind = "checkpoint" THEN Nothing ELSE store[n]]
  /\ run' = Nothing
  /\ UNCHANGED <<preparationRetired, offer, stopped, history>>

\* A run that fails stops the instance; its records stay in the store.  The last
\* visit of the bound is not interrupted.
Fail ==
  /\ run # Nothing /\ visits < MaxVisits
  /\ run' = Nothing /\ prover' = Nothing /\ stopped' = TRUE
  /\ UNCHANGED <<durable, offer, history>>

\* The checkpointed prover resumes from the listed records.
RestoreCheckpoint ==
  /\ root.phase \in {"checkpoint", "continuationIntent"} /\ ~preparationRetired
  /\ run = Nothing /\ prover = Nothing /\ ~stopped
  /\ \E g \in 0..drawn :
       /\ \A i \in 1..Checkpoints : store[Name("checkpoint", i)] =
            [generation |-> g, continuation |-> Nothing]
       /\ prover' = g
  /\ UNCHANGED <<durable, run, offer, stopped, history>>

----
(* The offer *)

BodyLength == Polynomials + Proofs
BodyName(n) ==
  IF n <= Polynomials THEN Name("polynomial", n) ELSE Name("proof", n - Polynomials)

\* The retained body is hashed record by record, in order, in this instance.
PushBody ==
  /\ root.phase \in {"body", "signingIntent"} /\ ~preparationRetired /\ run = Nothing
  /\ offer.pushed < BodyLength
  /\ LET content == store[BodyName(offer.pushed + 1)] IN
       offer' = [offer EXCEPT !.pushed = @ + 1, !.content = @ \cup {content}]
  /\ UNCHANGED <<durable, run, prover, stopped, history>>

FinishBody ==
  /\ offer.pushed = BodyLength /\ offer.envelope = Nothing
  /\ offer' = [offer EXCEPT !.envelope = offer.content]
  /\ UNCHANGED <<durable, run, prover, stopped, history>>

\* The envelope is retained before it is signed.
CommitSigningIntent ==
  /\ root.phase = "body" /\ ~preparationRetired /\ offer.envelope # Nothing
  /\ root' = [root EXCEPT !.phase = "signingIntent", !.envelope = offer.envelope]
  /\ UNCHANGED <<store, preparationRetired, instance, history>>

\* The recomputed envelope is the locked one, and no other was signed here.
Signable ==
  /\ root.phase = "signingIntent" /\ offer.envelope = root.envelope
  /\ offer.envelope # Nothing /\ ~offer.signature /\ ~preparationRetired

SignOffer ==
  /\ Signable
  /\ offer' = [offer EXCEPT !.signature = TRUE]
  /\ signedEnvelopes' = signedEnvelopes \cup {offer.envelope}
  /\ UNCHANGED <<durable, run, prover, stopped, visits, drawn, produced>>

CommitSigned ==
  /\ root.phase = "signingIntent" /\ offer.signature
  /\ root' = [root EXCEPT !.phase = "signed"]
  /\ UNCHANGED <<store, preparationRetired, instance, history>>

----
\* A verified setup retires the preparation, its records, the work and the streams,
\* between two operations at any time.
RetirePreparation ==
  /\ ~preparationRetired /\ root.phase # "none" /\ run = Nothing
  /\ preparationRetired' = TRUE /\ store' = [n \in Names |-> Nothing]
  /\ prover' = Nothing /\ stopped' = TRUE
  /\ UNCHANGED <<root, run, offer, history>>

\* The worker ends, at any point, and another visit begins.
Visit ==
  /\ visits < MaxVisits /\ visits' = visits + 1
  /\ run' = Nothing /\ prover' = Nothing /\ offer' = NoOffer /\ stopped' = FALSE
  /\ UNCHANGED <<durable, drawn, produced, signedEnvelopes>>

Work ==
  \/ BeginContribution \/ Generate \/ RestoreCheckpoint \/ BeginContinuation \/ Continue
  \/ StoreRecord \/ CommitRun
  \/ PushBody \/ FinishBody \/ CommitSigningIntent \/ SignOffer \/ CommitSigned

ContributionNext == Work \/ Fail \/ RetirePreparation \/ Visit

ContributionSpec == ContributionInit /\ [][ContributionNext]_contributionVars

----
Seeds == Nat \cup {Nothing}
Contents == [generation : Seeds, continuation : Seeds]
Envelopes == {Nothing} \cup SUBSET (Contents \cup {Nothing})
ContributionRoots ==
  [phase : {"none", "generationIntent", "checkpoint", "continuationIntent", "body",
            "signingIntent", "signed"},
   seed : Seeds, generation : Seeds, continuation : Seeds, envelope : Envelopes]

ContributionTypeOK ==
  /\ root \in ContributionRoots
  /\ store \in [Names -> Contents \cup {Nothing}]
  /\ preparationRetired \in BOOLEAN /\ stopped \in BOOLEAN
  /\ run \in {Nothing} \cup [kind : {"generation", "continuation"}, seed : Nat, next : Nat \ {0}]
  /\ prover \in Seeds
  /\ offer \in [pushed : 0..BodyLength, content : SUBSET (Contents \cup {Nothing}),
                envelope : Envelopes, signature : BOOLEAN]
  /\ visits \in Nat /\ drawn \in Nat
  /\ produced \subseteq [name : Names, content : Contents]
  /\ signedEnvelopes \subseteq Envelopes

\* Every run reproduces its records exactly: however often a generation or a
\* continuation is interrupted and repeated, a record has one content.
Reproduced ==
  \A a, b \in produced : a.name = b.name => a.content = b.content

\* The records that the root lists are stored, and they are of the root's own
\* derivation: nothing of an interrupted run is left among them.
ListedStored ==
  ~preparationRetired => \A n \in Listed(root.phase) :
    store[n] = [generation |-> root.generation,
                continuation |-> IF n.kind = "proof" THEN root.continuation ELSE Nothing]

\* One envelope is signed, that of the retained body, and only once it is retained.
OneOffer ==
  \A e \in signedEnvelopes :
    /\ e = root.envelope
    /\ e = {[generation |-> root.generation, continuation |-> Nothing],
            [generation |-> root.generation, continuation |-> root.continuation]}

\* The staged records of an interrupted run never block the next one.
StoreFree ==
  run # Nothing =>
    \A i \in run.next..RunLength(run.kind) : store[RunName(run.kind, i)] = Nothing

\* An interrupted contribution reproduces the records it had made, signs one offer
\* over exactly those it stored, and is never blocked by what an earlier run staged.
OfferReproduced ==
  ContributionTypeOK /\ Reproduced /\ ListedStored /\ OneOffer /\ StoreFree

\* No offer is signed and no record made once the preparation is retired, in this
\* visit or a later one, however far the offer had come.
RetiredSilent ==
  [][preparationRetired => signedEnvelopes' = signedEnvelopes /\ produced' = produced]_contributionVars

\* What the fairness of a run and its liveness are stated with: a visit after the
\* instance has stopped, and the end of the contribution.
Reopen == stopped /\ Visit
OfferMade == root.phase = "signed" \/ preparationRetired

----
(* The inductive invariant behind the properties. *)

\* What the root of each phase holds: a seed only between an intent and the root
\* that lists its run, and the envelope of the whole body once it is to be signed.
RootInv ==
  /\ root.seed # Nothing <=> root.phase \in {"generationIntent", "continuationIntent"}
  /\ root.generation # Nothing <=> root.phase \notin {"none", "generationIntent"}
  /\ root.continuation # Nothing <=> root.phase \in {"body", "signingIntent", "signed"}
  /\ root.seed # Nothing => root.seed < drawn
  /\ root.phase \in {"signingIntent", "signed"} =>
       root.envelope = {[generation |-> root.generation, continuation |-> Nothing],
                        [generation |-> root.generation, continuation |-> root.continuation]}

\* A run draws from the retained seed of its intent, and what it stored is of it.
RunInv ==
  run # Nothing =>
    /\ root.phase = IF run.kind = "generation" THEN "generationIntent" ELSE "continuationIntent"
    /\ run.seed = root.seed /\ run.next <= RunLength(run.kind) + 1
    /\ ~preparationRetired /\ offer = NoOffer
    /\ run.kind = "continuation" => prover # Nothing
    /\ \A i \in 1..(run.next - 1) : store[RunName(run.kind, i)] = Derived(run)

\* The checkpointed prover is of the root's generation.
ProverInv ==
  prover # Nothing =>
    prover = root.generation /\ root.phase \in {"checkpoint", "continuationIntent"}

\* Every record any run produced is of the seeds that the root retains or retained.
ProducedInv ==
  \A r \in produced :
    IF r.name.kind = "proof"
    THEN /\ root.phase \notin {"none", "generationIntent", "checkpoint"}
         /\ r.content = [generation |-> root.generation,
                         continuation |-> IF root.phase = "continuationIntent"
                                          THEN root.seed ELSE root.continuation]
    ELSE /\ root.phase # "none"
         /\ r.content = [generation |-> IF root.phase = "generationIntent"
                                        THEN root.seed ELSE root.generation,
                         continuation |-> Nothing]

\* The content of a record of the retained body.
BodyContent(n) ==
  [generation |-> root.generation,
   continuation |-> IF n <= Polynomials THEN Nothing ELSE root.continuation]

BodyPrefix(m) == {BodyContent(n) : n \in 1..m}

\* The offer's signer has read a prefix of the retained body, and signs what is locked.
OfferInv ==
  /\ offer.pushed > 0 => root.phase \in {"body", "signingIntent", "signed"}
  /\ offer.content = BodyPrefix(offer.pushed)
  /\ offer.envelope # Nothing => offer.pushed = BodyLength /\ offer.envelope = offer.content
  /\ \A e \in signedEnvelopes : root.phase \in {"signingIntent", "signed"} /\ e = root.envelope

ContributionIInv ==
  /\ ContributionTypeOK /\ RootInv /\ RunInv /\ ProverInv /\ ProducedInv /\ OfferInv
  /\ ListedStored /\ StoreFree
====
