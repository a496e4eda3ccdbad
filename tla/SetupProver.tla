---- MODULE SetupProver ----
(* A contribution's generation, its proof and its checkpoints in one module  *)
(* instance (participant-module contribution-session.rs; word-proof          *)
(* setup-prover.rs, first-oracle-checkpoint.rs).  A host sends the commands  *)
(* in any order and restarts the instance at any time; it keeps the sealed   *)
(* checkpoint records, and may open another record than the expected one.    *)
(* A polynomial is one chunk that is the generated one or another.           *)
EXTENDS Naturals, FiniteSets

CONSTANTS
  GeneratorSeeds,    \* the seeds that a generation can be given
  Gadgets,           \* the gadget steps of a generation
  Recipients,        \* the number of recipients
  Columns,           \* the first oracle's columns are 0 .. Columns + 1
  Lookups,           \* the second oracle's columns are 0 .. Lookups + 1
  StatementLength,   \* the number of polynomials in the statement
  Predecessors,      \* those that the module supplies: recipient keys and common ones
  Committed,         \* the number of polynomials that the public root commits; the last ones
  CheckpointRecords, \* the records of a checkpoint
  Layers,            \* the folding layers
  Rows,              \* the rows that a tree opens
  NoWork             \* no work, no export, no import, no open polynomial; a refusal

ASSUME ProverAssumption ==
  /\ {Gadgets, Recipients, StatementLength, CheckpointRecords, Rows} \subseteq Nat \ {0}
  /\ {Columns, Lookups, Layers} \subseteq Nat
  /\ Committed \in 1..StatementLength /\ Predecessors \subseteq 0..(StatementLength - Committed - 1)

VARIABLES
  work,          \* the generator or the prover, or NoWork
  export,        \* the open export, or NoWork
  import,        \* the open import, or NoWork
  keys,          \* the recipient keys given to the import
  proverStopped, \* the session has stopped
  fresh,         \* the receiver of the public objects is not yet taken
  sealed         \* host: the checkpoint records sealed so far

proverVars == <<work, export, import, keys, proverStopped, fresh, sealed>>

Header(column, seed) == [column |-> column, seed |-> seed]
Record(h, i) == [header |-> h, index |-> i]
IsProver(w) == w # NoWork /\ "phase" \in DOMAIN w

Generator(seed) == [seed |-> seed, gadget |-> 0, shares |-> FALSE, recipient |-> 0]

Prover(seed) ==
  [seed |-> seed, phase |-> "firstInitialize", index |-> 0, held |-> {"witness"},
   next |-> 0, open |-> NoWork, sound |-> TRUE, public |-> 0, publicSound |-> TRUE,
   stage |-> 0, started |-> FALSE, rows |-> 0, parts |-> {}]

ProverInit ==
  /\ work = NoWork /\ export = NoWork /\ import = NoWork /\ keys = {}
  /\ proverStopped = FALSE /\ fresh = TRUE /\ sealed = {}

----
(* What a command makes of the work; NoWork is a refusal *)

\* The gadgets, the shares' start, the recipients, and the finished statement.
Generated(w) ==
  IF IsProver(w) THEN NoWork
  ELSE IF w.gadget < Gadgets THEN [w EXCEPT !.gadget = @ + 1]
  ELSE IF ~w.shares THEN [w EXCEPT !.shares = TRUE]
  ELSE IF w.recipient < Recipients THEN [w EXCEPT !.recipient = @ + 1]
  ELSE Prover(w.seed)

At(w, phase) == [w EXCEPT !.phase = phase, !.index = 0]

\* One unit of the proof's own work.  The witness is needed throughout.
Stepped(w) ==
  IF ~IsProver(w) \/ "witness" \notin w.held THEN NoWork
  ELSE CASE w.phase = "firstInitialize" ->
              [At(w, "firstColumn") EXCEPT !.held = @ \cup {"first"}]
         [] w.phase = "firstColumn" ->
              IF w.index < Columns + 1 THEN [w EXCEPT !.index = @ + 1]
              ELSE At(w, "secondInitialize")
         [] w.phase = "secondInitialize" ->
              [At(w, "secondColumn") EXCEPT !.held = @ \cup {"second"}]
         [] w.phase = "secondColumn" ->
              IF w.index < Lookups + 1 THEN [w EXCEPT !.index = @ + 1]
              ELSE At(w, "polynomials")
         [] w.phase = "linear" ->
              [At(w, "combination") EXCEPT !.held = @ \cup {"linear"}]
         [] w.phase = "combination" -> [At(w, "publicCombination") EXCEPT !.public = 0]
         [] OTHER -> NoWork

PublicPhase(w) == w.phase \in {"publicCombination", "publicOpenings"}

\* Polynomials come in order, each pass in its own.
Begun(w, i) ==
  IF ~IsProver(w) \/ w.open # NoWork THEN NoWork
  ELSE IF \/ PublicPhase(w) /\ i = StatementLength - Committed + w.public
          \/ w.phase = "polynomials" /\ i = w.next
       THEN [w EXCEPT !.open = [index |-> i, chunks |-> 0, sound |-> TRUE]]
       ELSE NoWork

\* The parser takes no more than the polynomial's length.
Pushed(w, sound) ==
  IF ~IsProver(w) \/ w.open = NoWork THEN NoWork
  ELSE IF w.open.chunks = 1 THEN NoWork
  ELSE [w EXCEPT !.open.chunks = 1, !.open.sound = sound]

\* A public pass: the combination rebuilds the committed root, the openings do not.
FinishedPublic(w) ==
  LET done == w.public + 1 = Committed
      sound == w.publicSound /\ (w.open.sound \/ w.phase = "publicOpenings")
      closed == [w EXCEPT !.open = NoWork, !.publicSound = sound,
                          !.public = IF done THEN 0 ELSE @ + 1]
  IN IF ~done THEN closed
     ELSE IF w.phase = "publicOpenings" THEN At(closed, "output")
     ELSE IF ~sound THEN NoWork
     ELSE [At(closed, "publicOpenings") EXCEPT !.held = @ \cup {"public"}]

\* The statement's second pass hashes the polynomials that are not committed, and
\* its digest is the generated one.
FinishedStatement(w) ==
  LET sound == w.sound /\ (w.open.sound \/ w.open.index >= StatementLength - Committed)
      closed == [w EXCEPT !.open = NoWork, !.sound = sound, !.next = @ + 1]
  IN IF closed.next < StatementLength THEN closed
     ELSE IF sound THEN At(closed, "linear") ELSE NoWork

Finished(w) ==
  IF ~IsProver(w) \/ w.open = NoWork THEN NoWork
  ELSE IF w.open.chunks # 1 THEN NoWork
  ELSE IF PublicPhase(w) THEN FinishedPublic(w) ELSE FinishedStatement(w)

\* A polynomial that the module itself supplies.
Consumed(w, i) ==
  IF i \notin Predecessors \/ Begun(w, i) = NoWork THEN NoWork
  ELSE Finished(Pushed(Begun(w, i), TRUE))

\* The stages of the output: the trees of the three oracles, the public tree, and
\* the folding layers.
Tree(stage) ==
  CASE stage = 0 -> "first" [] stage = 1 -> "second" [] stage = 2 -> "linear"
    [] stage = 3 -> "public" [] OTHER -> "layer"

\* What the rows of a stage are opened from.
Needed(stage) ==
  CASE stage \in {0, 1} -> {"witness", Tree(stage)}
    [] stage \in {2, 3} -> {Tree(stage)}
    [] OTHER -> {}

\* What a stage's last row frees.
Dropped(stage) ==
  CASE stage = 0 -> {"first"} [] stage = 1 -> {"second", "witness"}
    [] stage \in {2, 3} -> {Tree(stage)} [] OTHER -> {}

\* The header, then for every stage its number of rows and its rows.
Output(w) ==
  IF ~IsProver(w) THEN NoWork
  ELSE IF w.phase # "output" THEN NoWork
  ELSE IF ~w.started THEN [w EXCEPT !.started = TRUE]
  ELSE IF w.stage = 4 + Layers THEN At(w, "done")
  ELSE IF w.rows = 0 THEN [w EXCEPT !.rows = Rows]
  ELSE IF w.rows = 1
  THEN [w EXCEPT !.rows = 0, !.stage = @ + 1, !.held = @ \ Dropped(w.stage)]
  ELSE [w EXCEPT !.rows = @ - 1]

----
(* The session's commands *)

Begin(seed) ==
  /\ ~proverStopped /\ work = NoWork /\ fresh /\ import = NoWork /\ export = NoWork
  /\ work' = Generator(seed) /\ fresh' = FALSE
  /\ UNCHANGED <<export, import, keys, proverStopped, sealed>>

\* No command runs while a checkpoint is exported or imported; a command that
\* fails drops the work and stops the session.
Advance(result) ==
  /\ export = NoWork /\ import = NoWork
  /\ work' = IF proverStopped THEN NoWork ELSE result
  /\ proverStopped' = (proverStopped \/ result = NoWork)
  /\ UNCHANGED <<export, import, keys, fresh, sealed>>

Results ==
  IF work = NoWork THEN {NoWork}
  ELSE {Generated(work), Stepped(work), Finished(work), Output(work)}
       \cup {Pushed(work, b) : b \in BOOLEAN}
       \cup UNION {{Begun(work, i), Consumed(work, i)} : i \in 0..(StatementLength - 1)}

ExportHeader ==
  /\ ~proverStopped /\ export = NoWork /\ import = NoWork
  /\ IsProver(work) /\ work.phase = "firstColumn"
  /\ export' = [header |-> Header(work.index, work.seed), next |-> 0]
  /\ UNCHANGED <<work, import, keys, proverStopped, fresh, sealed>>

\* Each record is sealed from the prover that the header describes.
Seal ==
  /\ ~proverStopped /\ export # NoWork /\ export.next < CheckpointRecords
  /\ IsProver(work) /\ work.phase = "firstColumn"
  /\ export.header = Header(work.index, work.seed)
  /\ sealed' = sealed \cup {Record(export.header, export.next)}
  /\ export' = [export EXCEPT !.next = @ + 1]
  /\ UNCHANGED <<work, import, keys, proverStopped, fresh>>

CompleteExport ==
  /\ ~proverStopped /\ export # NoWork /\ export.next = CheckpointRecords
  /\ export' = NoWork
  /\ UNCHANGED <<work, import, keys, proverStopped, fresh, sealed>>

Import(h) ==
  /\ ~proverStopped /\ work = NoWork /\ export = NoWork /\ import = NoWork
  /\ import' = [header |-> h, next |-> 0, parts |-> {}] /\ keys' = {}
  /\ UNCHANGED <<work, export, proverStopped, fresh, sealed>>

\* A record opens under the header's digest and the next index.
CheckpointOpens(r) == import # NoWork /\ r = Record(import.header, import.next)

\* A record that does not open ends the import and stops the session.
OpenCheckpoint(r) ==
  /\ ~proverStopped
  /\ IF CheckpointOpens(r)
     THEN /\ import' = [import EXCEPT !.next = @ + 1, !.parts = @ \cup {r.header}]
          /\ UNCHANGED <<keys, proverStopped>>
     ELSE import' = NoWork /\ keys' = {} /\ proverStopped' = TRUE
  /\ UNCHANGED <<work, export, fresh, sealed>>

\* A recipient key has the hash that the header names.
CheckpointKey(p) ==
  /\ ~proverStopped /\ work = NoWork /\ import # NoWork /\ p \notin keys
  /\ keys' = keys \cup {p}
  /\ UNCHANGED <<work, export, import, proverStopped, fresh, sealed>>

\* Mutant: the prover resumes before every record is opened.
EarlyFinishImport ==
  /\ ~proverStopped
  /\ \/ /\ import # NoWork /\ keys = 1..Recipients
        /\ work' = [Prover(import.header.seed) EXCEPT
                      !.phase = "firstColumn", !.index = import.header.column,
                      !.held = {"witness", "first"}, !.parts = import.parts]
        /\ import' = NoWork /\ keys' = {} /\ UNCHANGED proverStopped
     \/ /\ import = NoWork /\ work = NoWork
        /\ proverStopped' = TRUE /\ keys' = {} /\ UNCHANGED <<work, import>>
  /\ UNCHANGED <<export, fresh, sealed>>

\* The prover resumes once every record is opened and every key is given.
FinishImport ==
  /\ ~proverStopped
  /\ \/ /\ import # NoWork /\ import.next = CheckpointRecords /\ keys = 1..Recipients
        /\ work' = [Prover(import.header.seed) EXCEPT
                      !.phase = "firstColumn", !.index = import.header.column,
                      !.held = {"witness", "first"}, !.parts = import.parts]
        /\ import' = NoWork /\ keys' = {} /\ UNCHANGED proverStopped
     \/ /\ import = NoWork /\ work = NoWork
        /\ proverStopped' = TRUE /\ keys' = {} /\ UNCHANGED <<work, import>>
  /\ UNCHANGED <<export, fresh, sealed>>

RetireWork ==
  /\ work' = NoWork /\ export' = NoWork /\ import' = NoWork /\ keys' = {} /\ proverStopped' = TRUE
  /\ UNCHANGED <<fresh, sealed>>

\* A new instance.
Restart ==
  /\ work' = NoWork /\ export' = NoWork /\ import' = NoWork /\ keys' = {}
  /\ proverStopped' = FALSE /\ fresh' = TRUE
  /\ UNCHANGED sealed

ProverNext ==
  \/ \E seed \in GeneratorSeeds : Begin(seed)
  \/ \E r \in Results : Advance(r)
  \/ ExportHeader \/ Seal \/ CompleteExport
  \/ \E r \in sealed : Import(r.header) \/ OpenCheckpoint(r)
  \/ \E p \in 1..Recipients : CheckpointKey(p)
  \/ FinishImport \/ RetireWork \/ Restart

ProverSpec == ProverInit /\ [][ProverNext]_proverVars

----
Phases == {"firstInitialize", "firstColumn", "secondInitialize", "secondColumn",
           "polynomials", "linear", "combination", "publicCombination",
           "publicOpenings", "output", "done"}

Oracles == {"witness", "first", "second", "linear", "public"}
Headers == [column : Nat, seed : GeneratorSeeds]
Generators == [seed : GeneratorSeeds, gadget : Nat, shares : BOOLEAN, recipient : Nat]
OpenPolynomials == [index : Nat, chunks : {0, 1}, sound : BOOLEAN]
Provers ==
  [seed : GeneratorSeeds, phase : Phases, index : Nat, held : SUBSET Oracles,
   next : Nat, open : OpenPolynomials \cup {NoWork}, sound : BOOLEAN, public : Nat,
   publicSound : BOOLEAN, stage : Nat, started : BOOLEAN, rows : Nat, parts : SUBSET Headers]

ProverTypeOK ==
  /\ work \in Generators \cup Provers \cup {NoWork}
  /\ export \in [header : Headers, next : Nat] \cup {NoWork}
  /\ import \in [header : Headers, next : Nat, parts : SUBSET Headers] \cup {NoWork}
  /\ keys \subseteq 1..Recipients
  /\ proverStopped \in BOOLEAN /\ fresh \in BOOLEAN
  /\ sealed \subseteq [header : Headers, index : Nat]

\* The oracles, the witness and the public tree that a phase unwraps are there: none
\* is freed before its last use, and a resumed prover has what a generated one has.
OraclesHeld ==
  IsProver(work) =>
    /\ work.phase \in Phases \ {"output", "done"} => "witness" \in work.held
    /\ work.phase \notin {"firstInitialize", "output", "done"} => "first" \in work.held
    /\ work.phase \in {"secondColumn", "polynomials", "linear"} => "second" \in work.held
    /\ work.phase \in {"combination", "publicCombination"} =>
         {"first", "second", "linear"} \subseteq work.held
    /\ work.phase = "output" =>
         \A stage \in work.stage..(3 + Layers) : Needed(stage) \subseteq work.held

\* No proof is continued past the second pass over another statement than the
\* generated one, and none is folded over other committed polynomials.
StatementConsumed ==
  IsProver(work) =>
    /\ work.phase \in {"linear", "combination", "publicCombination", "publicOpenings",
                       "output", "done"} => work.sound /\ work.next = StatementLength
    /\ work.phase \in {"publicOpenings", "output", "done"} => work.publicSound

\* A resumed prover has the records of one export only, complete, and is at the
\* column and the seed that they were sealed at.
ResumedExported ==
  IsProver(work) /\ work.parts # {} =>
    \E h \in work.parts :
      /\ work.parts = {h} /\ h.seed = work.seed
      /\ work.phase = "firstColumn" => work.index >= h.column
      /\ \A i \in 0..(CheckpointRecords - 1) : Record(h, i) \in sealed

\* A generation runs once in an instance, and no work goes on once the session has
\* stopped, so that no second run draws from a seed whose first run failed.
StoppedFinal ==
  [][~Restart =>
       /\ proverStopped => proverStopped' /\ work' \in {NoWork, work}
       /\ work # NoWork /\ work' = NoWork => proverStopped']_proverVars

\* The proof of an offer is made over the generated statement by one prover, through
\* its checkpoints, with every oracle it needs.
OfferProofs == OraclesHeld /\ StatementConsumed /\ ResumedExported

----
(* The inductive invariant behind OfferProofs. *)

BeforeLinear == {"firstInitialize", "firstColumn", "secondInitialize", "secondColumn", "polynomials"}

\* What each phase has built and not yet freed.
OraclesInv(w) ==
  /\ w.phase \notin {"output", "done"} => "witness" \in w.held
  /\ w.phase \notin {"firstInitialize", "output", "done"} => "first" \in w.held
  /\ w.phase \in {"secondColumn", "polynomials", "linear", "combination", "publicCombination",
                  "publicOpenings"} => "second" \in w.held
  /\ w.phase \in {"combination", "publicCombination", "publicOpenings"} => "linear" \in w.held
  /\ w.phase = "publicOpenings" => "public" \in w.held
  /\ w.phase = "output" => \A stage \in w.stage..(3 + Layers) : Needed(stage) \subseteq w.held

\* How far the two passes are, and when a polynomial can be open.
StatementInv(w) ==
  /\ w.phase \in BeforeLinear => w.next < StatementLength
  /\ w.phase \notin BeforeLinear => w.sound /\ w.next = StatementLength
  /\ w.phase \in {"publicOpenings", "output", "done"} => w.publicSound
  /\ w.open # NoWork => w.phase \in {"polynomials", "publicCombination", "publicOpenings"}

\* What a prover was resumed from.
PartsInv(w) ==
  /\ w.phase = "firstInitialize" => w.parts = {}
  /\ w.parts # {} =>
       \E h \in w.parts :
         /\ w.parts = {h} /\ h.seed = w.seed
         /\ w.phase = "firstColumn" => w.index >= h.column
         /\ \A i \in 0..(CheckpointRecords - 1) : Record(h, i) \in sealed

ImportInv ==
  import # NoWork =>
    /\ work = NoWork
    /\ \A i \in 0..(import.next - 1) : Record(import.header, i) \in sealed
    /\ import.parts = IF import.next = 0 THEN {} ELSE {import.header}

WorkInv(w) == IsProver(w) => OraclesInv(w) /\ StatementInv(w) /\ PartsInv(w)

ProverIInv == ProverTypeOK /\ WorkInv(work) /\ ImportInv
====
