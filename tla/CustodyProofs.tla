---------------------------- MODULE CustodyProofs ----------------------------
(* Proofs about Custody for any number of workers, choices and seeds: a      *)
(* one-time key signs one frame, and a stored stop marker ends everything;   *)
(* and about Credential for any ballots, intents, targets and body sizes:    *)
(* one message per purpose, in whatever order and visits the host calls.     *)
EXTENDS Custody, Credential, TLAPS

\* The signing generations are those of the table, and roots hold them.
LEMMA SigningGenerations ==
  /\ SigningGeneration["ballot"] = 15
  /\ SigningGeneration["intent"] = 18
  /\ SigningGeneration["response"] = 20
  /\ SigningGeneration["proposal"] = 21
  /\ SigningGeneration["target"] = 23
  /\ SigningGeneration["release"] = 27
BY DEF SigningGeneration, Purposes, ballotBody, intentRetained, responding,
       responded, targetLocked, releaseBody

\* A root that takes a choice for a purpose not yet permitted follows its
\* predecessor.
LEMMA ChosenFollows ==
  ASSUME NEW r \in Roots, NEW g \in RootGenerations, NEW p \in Purposes,
         g >= r.generation, r.generation < SigningGeneration[p],
         NEW s \in Chosen(r, g, p)
  PROVE  s \in Roots /\ Follows(r, s) /\ s.signed = r.signed
<1>1. PICK c \in Decisions : s = [r EXCEPT !.generation = g, !.choice[p] = c]
  BY DEF Chosen
<1>2. s \in Roots
  BY <1>1 DEF Roots
<1>3. s.signed = r.signed /\ s.generation = g
  BY <1>1 DEF Roots
<1>4. ASSUME NEW x \in Purposes, x # p PROVE Frame(s, x) = Frame(r, x)
  BY <1>1, <1>4 DEF Roots, Frame
<1>5. SigningGeneration[p] \in Int /\ r.generation \in Int
  BY SigningGenerations DEF Purposes, Roots, RootGenerations, Generations, setupRetained
<1>6. \A x \in Purposes : r.generation >= SigningGeneration[x] => Frame(s, x) = Frame(r, x)
  BY <1>4, <1>5
<1>7. QED
  BY <1>2, <1>3, <1>6 DEF Follows

\* So does a root that takes a seed.
LEMMA SeededFollows ==
  ASSUME NEW r \in Roots, NEW g \in RootGenerations, NEW p \in Purposes,
         g >= r.generation, r.generation < SigningGeneration[p],
         NEW s \in Seeded(r, g, p)
  PROVE  s \in Roots /\ Follows(r, s) /\ s.signed = r.signed
<1>1. PICK c \in Seeds : s = [r EXCEPT !.generation = g, !.seed[p] = c]
  BY DEF Seeded
<1>2. s \in Roots
  BY <1>1 DEF Roots
<1>3. s.signed = r.signed /\ s.generation = g
  BY <1>1 DEF Roots
<1>4. ASSUME NEW x \in Purposes, x # p PROVE Frame(s, x) = Frame(r, x)
  BY <1>1, <1>4 DEF Roots, Frame
<1>5. SigningGeneration[p] \in Int /\ r.generation \in Int
  BY SigningGenerations DEF Purposes, Roots, RootGenerations, Generations, setupRetained
<1>6. \A x \in Purposes : r.generation >= SigningGeneration[x] => Frame(s, x) = Frame(r, x)
  BY <1>4, <1>5
<1>7. QED
  BY <1>2, <1>3, <1>6 DEF Follows

\* So does a root that only advances its generation.
LEMMA AdvancedFollows ==
  ASSUME NEW r \in Roots, NEW g \in RootGenerations, g >= r.generation
  PROVE  LET s == Advanced(r, g) IN s \in Roots /\ Follows(r, s) /\ s.signed = r.signed
<1> DEFINE s == Advanced(r, g)
<1>1. s \in Roots /\ s.signed = r.signed /\ s.generation = g
  BY DEF Advanced, Roots
<1>2. \A x \in Purposes : Frame(s, x) = Frame(r, x)
  BY DEF Advanced, Roots, Frame
<1>3. QED
  BY <1>1, <1>2 DEF Follows, Roots, RootGenerations, Generations, setupRetained

\* Every successor that signs nothing is a root that follows its predecessor.
LEMMA SuccessorsFollow ==
  ASSUME NEW r \in Roots, NEW s \in Successors(r)
  PROVE  s \in Roots /\ Follows(r, s) /\ s.signed = r.signed
<1> USE SigningGenerations
<1>1. {13, 14, 15, 18, 19, 20, 23, 25, 26, 27} \subseteq RootGenerations
  BY DEF RootGenerations, Generations, setupRetained
<1>2. {"ballot", "intent", "response", "target", "release"} \subseteq Purposes
  BY DEF Purposes
<1>3. CASE s \in BallotSuccessors(r)
  <2>1. CASE r.generation = 12 /\ s \in Chosen(r, 13, "ballot")
    BY <2>1, <1>1, <1>2, ChosenFollows
  <2>2. CASE r.generation = 13 /\ s \in Seeded(r, 14, "ballot")
    BY <2>2, <1>1, <1>2, SeededFollows
  <2>3. CASE r.generation = 14 /\ s = Advanced(r, 15)
    BY <2>3, <1>1, AdvancedFollows
  <2>4. QED
    BY <1>3, <2>1, <2>2, <2>3
    DEF BallotSuccessors, setupRetained, ballotLocked, ballotReady, ballotBody
<1>4. CASE s \in CloseSuccessors(r)
  <2>1. CASE r.generation \in {12, 17} /\ s \in Chosen(r, 18, "intent")
    BY <2>1, <1>1, <1>2, ChosenFollows
  <2>2. CASE r.generation \in {12, 17} /\ s = Advanced(r, 19)
    BY <2>2, <1>1, AdvancedFollows
  <2>3. CASE r.generation = 19 /\ s \in Chosen(r, 20, "response")
    BY <2>3, <1>1, <1>2, ChosenFollows
  <2>4. QED
    BY <1>4, <2>1, <2>2, <2>3
    DEF CloseSuccessors, setupRetained, ballotSigned, intentRetained, intentLocked, responding
<1>5. CASE s \in EventSuccessors(r)
  <2>1. s = [r EXCEPT !.events = @ + 1]
    BY <1>5 DEF EventSuccessors
  <2>2. s \in Roots /\ s.signed = r.signed /\ s.generation = r.generation
    BY <2>1 DEF Roots
  <2>3. \A x \in Purposes : Frame(s, x) = Frame(r, x)
    BY <2>1 DEF Roots, Frame
  <2>4. QED
    BY <2>2, <2>3 DEF Follows, Roots, RootGenerations, Generations, setupRetained
<1>6. CASE s \in TargetSuccessors(r)
  <2>1. r.generation \in {21, 22} /\ s \in Chosen(r, 23, "target")
    BY <1>6 DEF TargetSuccessors, CompletedClose, proposed, responded, targetLocked
  <2>2. QED
    BY <2>1, <1>1, <1>2, ChosenFollows
<1>7. CASE s \in ReleaseSuccessors(r)
  <2>1. CASE r.generation \in {21, 22, 24} /\ s \in Chosen(r, 25, "release")
    BY <2>1, <1>1, <1>2, ChosenFollows
  <2>2. CASE r.generation = 25 /\ s \in Seeded(r, 26, "release")
    BY <2>2, <1>1, <1>2, SeededFollows
  <2>3. CASE r.generation = 26 /\ s = Advanced(r, 27)
    BY <2>3, <1>1, AdvancedFollows
  <2>4. QED
    BY <1>7, <2>1, <2>2, <2>3
    DEF ReleaseSuccessors, CompletedClose, proposed, responded, targetSigned,
        releaseLocked, releaseReady, releaseBody
<1>8. QED
  BY <1>3, <1>4, <1>5, <1>6, <1>7 DEF Successors

\* So is the root that retains a signature, whose purpose it permits.
LEMMA SignedSuccessorsFollow ==
  ASSUME NEW r \in Roots, NEW p \in DuePurposes(r), NEW s \in SignedSuccessors(r, p)
  PROVE  s \in Roots /\ Follows(r, s)
<1> USE SigningGenerations
<1> DEFINE t == [r EXCEPT !.generation = SignedGeneration[p], !.signed = @ \cup {p}]
<1>1. p \in Purposes /\ r.generation = SigningGeneration[p]
  BY DEF DuePurposes
<1>2. /\ SignedGeneration[p] \in RootGenerations
      /\ SignedGeneration[p] >= SigningGeneration[p]
      /\ SigningGeneration[p] \in Int
  BY <1>1 DEF SignedGeneration, Purposes, RootGenerations, Generations, setupRetained,
              ballotSigned, intentLocked, responded, proposed, targetSigned, releaseSigned
<1>3. t \in Roots /\ t.generation = SignedGeneration[p] /\ t.signed = r.signed \cup {p}
  BY <1>1, <1>2 DEF Roots
<1>4. \A x \in Purposes : Frame(t, x) = Frame(r, x)
  BY DEF Roots, Frame
<1>5. Follows(r, t)
  BY <1>1, <1>2, <1>3, <1>4 DEF Follows, Roots
<1>6. CASE s = t
  BY <1>6, <1>3, <1>5
<1>7. CASE p = "response" /\ s \in Chosen(t, responded, "proposal")
  <2>1. PICK c \in Decisions : s = [t EXCEPT !.generation = responded, !.choice["proposal"] = c]
    BY <1>7 DEF Chosen
  <2>2. responded \in RootGenerations /\ responded = 21 /\ "proposal" \in Purposes
    BY DEF responded, RootGenerations, Generations, setupRetained, Purposes
  <2>3. s \in Roots /\ s.generation = 21 /\ s.signed = r.signed \cup {p}
    BY <2>1, <2>2, <1>3 DEF Roots
  <2>4. ASSUME NEW x \in Purposes, x # "proposal" PROVE Frame(s, x) = Frame(r, x)
    BY <2>1, <2>4, <1>3 DEF Roots, Frame
  <2>5. r.generation = 20
    BY <1>1, <1>7
  <2>6. QED
    BY <2>3, <2>4, <2>5, <1>7 DEF Follows, Roots
<1>8. QED
  BY <1>6, <1>7 DEF SignedSuccessors

\* The invariant holds of the retained setup.
LEMMA CustodyInitInv == CustodyInit => CustodyIInv
<1> SUFFICES ASSUME CustodyInit PROVE CustodyIInv
  OBVIOUS
<1>1. SetupRoot \in Roots
  BY DEF SetupRoot, Roots, RootGenerations, Generations, setupRetained
<1>2. CustodyTypeOK
  BY <1>1 DEF CustodyInit, CustodyTypeOK, PCs
<1>3. root.signed = {}
  BY DEF CustodyInit, SetupRoot
<1>4. QED
  BY <1>2, <1>3 DEF CustodyInit, CustodyIInv, ExclusiveInv, MemoryInv, SignaturesInv,
                     PublishedIsRetained

\* What a step that changes no root and no worker's work leaves in place: a
\* worker may end, open or fail, and a history may grow by retained frames.
LEMMA QuietStep ==
  ASSUME CustodyIInv, NEW w \in Workers, NEW state \in PCs,
         pc' = [pc EXCEPT ![w] = state],
         \A v \in Workers : v # w => pc[v] = "idle",
         UNCHANGED <<root, signatures, published>>,
         stopped' \in BOOLEAN, memory' \in [Workers -> Roots], next' \in [Workers -> Roots],
         state \in {"ready", "committing"} => memory'[w] = root /\ ~stopped',
         state = "committing" => Follows(memory'[w], next'[w]),
         state = "reading" => next'[w] = root /\ ~stopped'
  PROVE  CustodyIInv'
<1>1. pc \in [Workers -> PCs]
  BY DEF CustodyIInv, CustodyTypeOK
<1>2. \A v \in Workers : pc'[v] = IF v = w THEN state ELSE "idle"
  BY <1>1
<1>3. CustodyTypeOK'
  BY <1>1 DEF CustodyIInv, CustodyTypeOK
<1>4. ExclusiveInv'
  BY <1>2 DEF ExclusiveInv
<1>5. MemoryInv'
  BY <1>2 DEF MemoryInv
<1>6. SignaturesInv' /\ PublishedIsRetained'
  BY DEF CustodyIInv, SignaturesInv, PublishedIsRetained
<1>7. QED
  BY <1>3, <1>4, <1>5, <1>6 DEF CustodyIInv

\* The lock: whoever works works alone.
LEMMA OthersIdle ==
  ASSUME CustodyIInv, NEW w \in Workers, pc[w] # "idle"
  PROVE  \A v \in Workers : v # w => pc[v] = "idle"
BY DEF CustodyIInv, ExclusiveInv

\* Every step keeps the invariant.
LEMMA CustodyStepInv ==
  ASSUME CustodyIInv, NEW w \in Workers, WorkerStep(w)
  PROVE  CustodyIInv'
<1>0. CustodyTypeOK /\ SetupRoot \in Roots
  BY DEF CustodyIInv, SetupRoot, Roots, RootGenerations, Generations, setupRetained
<1> USE DEF PCs
<1>1. CASE Acquire(w)
  BY <1>0, <1>1, QuietStep DEF Acquire, CustodyTypeOK
<1>2. CASE Open(w)
  BY <1>0, <1>2, QuietStep, OthersIdle DEF Open, CustodyTypeOK
<1>3. CASE Prepare(w)
  <2>1. memory[w] = root /\ ~stopped /\ root \in Roots
    BY <1>0, <1>3 DEF Prepare, CustodyIInv, MemoryInv, CustodyTypeOK
  <2>2. PICK s \in Successors(memory[w]) : next' = [next EXCEPT ![w] = s]
    BY <1>3 DEF Prepare
  <2>3. s \in Roots /\ Follows(root, s)
    BY <2>1, <2>2, SuccessorsFollow
  <2>4. next' \in [Workers -> Roots] /\ next'[w] = s
    BY <1>0, <2>2, <2>3 DEF CustodyTypeOK
  <2>5. QED
    BY <1>0, <1>3, <2>1, <2>3, <2>4, QuietStep, OthersIdle DEF Prepare, CustodyTypeOK
<1>4. ASSUME NEW p \in Purposes, Sign(w, p) PROVE CustodyIInv'
  <2>1. memory[w] = root /\ ~stopped /\ root \in Roots
    BY <1>0, <1>4 DEF Sign, CustodyIInv, MemoryInv, CustodyTypeOK
  <2>2. PICK s \in SignedSuccessors(memory[w], p) : next' = [next EXCEPT ![w] = s]
    BY <1>4 DEF Sign
  <2>3. p \in DuePurposes(root)
    BY <1>4, <2>1 DEF Sign
  <2>4. s \in Roots /\ Follows(root, s)
    BY <2>1, <2>2, <2>3, SignedSuccessorsFollow
  <2>5. next' \in [Workers -> Roots] /\ next'[w] = s
    BY <1>0, <2>2, <2>4 DEF CustodyTypeOK
  <2>6. pc' = [pc EXCEPT ![w] = "committing"] /\ UNCHANGED <<root, stopped, memory, published>>
    BY <1>4 DEF Sign
  <2>7. CustodyTypeOK'
    BY <1>0, <2>5, <2>6 DEF CustodyTypeOK
  <2>8. \A v \in Workers : pc'[v] = IF v = w THEN "committing" ELSE "idle"
    BY <1>0, <1>4, <2>6, OthersIdle DEF CustodyTypeOK, Sign
  <2>9. ExclusiveInv'
    BY <2>8 DEF ExclusiveInv
  <2>10. MemoryInv'
    BY <2>1, <2>4, <2>5, <2>6, <2>8 DEF MemoryInv
  <2>11. signatures' = signatures \cup {Frame(root, p)}
    BY <1>4, <2>1 DEF Sign
  <2>12. root.generation >= SigningGeneration[p]
    BY <2>1, <2>3 DEF DuePurposes, Roots, RootGenerations, Generations, setupRetained
  <2>13. Frame(root, p).purpose = p
    BY DEF Frame
  <2>14. SignaturesInv'
    BY <2>6, <2>11, <2>12, <2>13 DEF CustodyIInv, SignaturesInv
  <2>15. PublishedIsRetained'
    BY <2>6 DEF CustodyIInv, PublishedIsRetained
  <2>16. QED
    BY <2>7, <2>9, <2>10, <2>14, <2>15 DEF CustodyIInv
<1>5. CASE Commit(w)
  <2>1. PICK state \in {"reading", "rejected"} : pc' = [pc EXCEPT ![w] = state]
    BY <1>5 DEF Commit
  <2>2. /\ memory[w] = root /\ ~stopped /\ Follows(root, next[w])
        /\ root \in Roots /\ next[w] \in Roots
    BY <1>0, <1>5 DEF Commit, CustodyIInv, MemoryInv, CustodyTypeOK
  <2>3. root' = next[w] /\ UNCHANGED <<stopped, memory, next, signatures, published>>
    BY <1>5 DEF Commit
  <2>4. CustodyTypeOK'
    BY <1>0, <2>1, <2>2, <2>3 DEF CustodyTypeOK
  <2>5. \A v \in Workers : pc'[v] = IF v = w THEN state ELSE "idle"
    BY <1>0, <1>5, <2>1, OthersIdle DEF CustodyTypeOK, Commit
  <2>6. ExclusiveInv'
    BY <2>5 DEF ExclusiveInv
  <2>7. MemoryInv'
    BY <2>2, <2>3, <2>5 DEF MemoryInv
  <2>8. \A p \in Purposes : SigningGeneration[p] \in Int
    BY SigningGenerations DEF Purposes
  <2>9. root.generation \in Int /\ root'.generation \in Int /\ root'.signed \subseteq Purposes
    BY <2>2, <2>3 DEF Roots, RootGenerations, Generations, setupRetained
  <2>10. /\ root'.generation >= root.generation
         /\ root.signed \subseteq root'.signed
         /\ \A p \in Purposes :
              root.generation >= SigningGeneration[p] => Frame(root', p) = Frame(root, p)
         /\ \A p \in root'.signed \ root.signed : root'.generation >= SigningGeneration[p]
    BY <2>2, <2>3 DEF Follows
  <2>11. \A p \in root.signed : root.generation >= SigningGeneration[p]
    BY DEF CustodyIInv, SignaturesInv
  <2>12. \A p \in root'.signed : root'.generation >= SigningGeneration[p]
    BY <2>8, <2>9, <2>10, <2>11
  <2>13. ASSUME NEW f \in signatures'
         PROVE  /\ f.purpose \in Purposes
                /\ root'.generation >= SigningGeneration[f.purpose]
                /\ f = Frame(root', f.purpose)
    <3>1. /\ f.purpose \in Purposes
          /\ root.generation >= SigningGeneration[f.purpose]
          /\ f = Frame(root, f.purpose)
      BY <2>3, <2>13 DEF CustodyIInv, SignaturesInv
    <3>2. QED
      BY <3>1, <2>8, <2>9, <2>10
  <2>14. SignaturesInv'
    BY <2>12, <2>13 DEF SignaturesInv
  <2>15. ASSUME NEW f \in published'
         PROVE  f.purpose \in root'.signed /\ f = Frame(root', f.purpose)
    <3>1. f.purpose \in root.signed /\ f = Frame(root, f.purpose)
      BY <2>3, <2>15 DEF CustodyIInv, PublishedIsRetained
    <3>2. QED
      BY <3>1, <2>9, <2>10, <2>11
  <2>16. PublishedIsRetained'
    BY <2>15 DEF PublishedIsRetained
  <2>17. QED
    BY <2>4, <2>6, <2>7, <2>14, <2>16 DEF CustodyIInv
<1>6. CASE Abort(w)
  BY <1>0, <1>6, QuietStep, OthersIdle DEF Abort, CustodyTypeOK
<1>7. CASE CheckRollback(w)
  BY <1>0, <1>7, QuietStep, OthersIdle DEF CheckRollback, Ended, CustodyTypeOK
<1>8. CASE ReadBack(w)
  BY <1>0, <1>8, QuietStep, OthersIdle DEF ReadBack, CustodyTypeOK, CustodyIInv, MemoryInv
<1>9. ASSUME NEW p \in Purposes, Publish(w, p) PROVE CustodyIInv'
  <2>1. /\ memory[w] = root
        /\ published' = published \cup {Frame(root, p)}
        /\ p \in root.signed
        /\ UNCHANGED <<root, stopped, pc, memory, next, signatures>>
    BY <1>0, <1>9 DEF Publish, Validated
  <2>2. Frame(root, p).purpose = p
    BY DEF Frame
  <2>3. PublishedIsRetained'
    BY <2>1, <2>2 DEF CustodyIInv, PublishedIsRetained
  <2>4. CustodyTypeOK' /\ ExclusiveInv' /\ MemoryInv' /\ SignaturesInv'
    BY <2>1 DEF CustodyIInv, CustodyTypeOK, ExclusiveInv, MemoryInv, SignaturesInv
  <2>5. QED
    BY <2>3, <2>4 DEF CustodyIInv
<1>10. CASE Stop(w)
  BY <1>0, <1>10, QuietStep, OthersIdle DEF Stop, Ended, CustodyTypeOK
<1>11. CASE End(w)
  BY <1>0, <1>11, QuietStep, OthersIdle DEF End, Ended, CustodyTypeOK
<1>12. QED
  BY <1>1, <1>2, <1>3, <1>4, <1>5, <1>6, <1>7, <1>8, <1>9, <1>10, <1>11 DEF WorkerStep

\* A step that changes nothing keeps the invariant.
LEMMA CustodyStutter == CustodyIInv /\ UNCHANGED custodyVars => CustodyIInv'
BY DEF custodyVars, CustodyIInv, CustodyTypeOK, ExclusiveInv, MemoryInv, SignaturesInv,
       PublishedIsRetained

\* The inductive invariant of custody: one worker at a time, working from the
\* stored root, and a root that retains every frame it let anyone sign.
THEOREM CustodyInvariant == CustodySpec => []CustodyIInv
<1>1. CustodyIInv /\ [CustodyNext]_custodyVars => CustodyIInv'
  BY CustodyStepInv, CustodyStutter DEF CustodyNext
<1>2. QED
  BY CustodyInitInv, <1>1, PTL DEF CustodySpec

\* Every variable keeps its type.
THEOREM CustodyTypeCorrect == CustodySpec => []CustodyTypeOK
<1>1. CustodyIInv => CustodyTypeOK
  BY DEF CustodyIInv
<1>2. QED
  BY <1>1, CustodyInvariant, PTL

\* No one-time key signs two frames, for any number of workers and whatever
\* they choose, draw and are told of their commits: commitRoot retains a frame
\* before the module signs it, and no later root replaces it.
THEOREM OneFrameIsSigned == CustodySpec => []OneFramePerPurpose
<1>1. CustodyIInv => OneFramePerPurpose
  BY DEF CustodyIInv, SignaturesInv, OneFramePerPurpose
<1>2. QED
  BY <1>1, CustodyInvariant, PTL

\* Whatever was delivered to the relay the root still retains as signed, so
\* every later delivery is the same record.
THEOREM PublishedStaysRetained == CustodySpec => []PublishedIsRetained
<1>1. CustodyIInv => PublishedIsRetained
  BY DEF CustodyIInv
<1>2. QED
  BY <1>1, CustodyInvariant, PTL

\* Once stopParticipant stored its marker, no operation commits, signs or
\* delivers anything.
THEOREM StoppedIsFinal == CustodySpec => StopIsFinal
<1>1. ASSUME CustodyIInv, CustodyNext, stopped
      PROVE  UNCHANGED <<root, signatures, published>>
  <2>1. PICK w \in Workers : WorkerStep(w)
    BY <1>1 DEF CustodyNext
  <2>2. pc[w] \notin {"ready", "committing"}
    BY <1>1 DEF CustodyIInv, MemoryInv
  <2>3. QED
    BY <2>1, <2>2 DEF WorkerStep, Acquire, Open, Prepare, Sign, Commit, Abort,
                      CheckRollback, ReadBack, Publish, Stop, End, Ended
<1>2. CustodyIInv /\ [CustodyNext]_custodyVars
        => [stopped => UNCHANGED <<root, signatures, published>>]_custodyVars
  BY <1>1
<1>3. QED
  BY CustodyInvariant, <1>2, PTL DEF CustodySpec, StopIsFinal

\* A root is only ever replaced by one that follows it: later, with every
\* signature and every permitted frame it had.
THEOREM RootOnlyAdvances == CustodySpec => RootAdvances
<1> DEFINE Advances ==
      /\ root'.generation >= root.generation
      /\ root.signed \subseteq root'.signed
      /\ \A p \in Purposes :
           root.generation >= SigningGeneration[p] => Frame(root', p) = Frame(root, p)
<1>1. ASSUME CustodyIInv, CustodyNext PROVE Advances
  <2>1. PICK w \in Workers : WorkerStep(w)
    BY <1>1 DEF CustodyNext
  <2>2. CASE Commit(w)
    <3>1. Follows(root, next[w]) /\ root' = next[w]
      BY <1>1, <2>2 DEF Commit, CustodyIInv, MemoryInv
    <3>2. QED
      BY <3>1 DEF Follows
  <2>3. CASE root' = root
    <3>1. root.generation \in Int
      BY <1>1 DEF CustodyIInv, CustodyTypeOK, Roots, RootGenerations, Generations, setupRetained
    <3>2. QED
      BY <2>3, <3>1
  <2>4. Commit(w) \/ root' = root
    BY <2>1 DEF WorkerStep, Acquire, Open, Prepare, Sign, Abort,
                CheckRollback, ReadBack, Publish, Stop, End, Ended
  <2>5. QED
    BY <2>2, <2>3, <2>4
<1>2. CustodyIInv /\ [CustodyNext]_custodyVars => [Advances]_custodyVars
  BY <1>1
<1>3. QED
  BY CustodyInvariant, <1>2, PTL DEF CustodySpec, RootAdvances

\* For any workers, decisions and seeds, and wherever a visit ends, a purpose's
\* frame is drawn and signed once, and the stored root retains what is published.
THEOREM FramesAreKept == CustodySpec => []FramesKept
BY CustodyTypeCorrect, OneFrameIsSigned, PublishedStaysRetained, PTL DEF FramesKept

\* For any workers, the stored root moves forward only, and never once one stopped.
THEOREM CustodyMovesForward == CustodySpec => CustodyForward
BY RootOnlyAdvances, StoppedIsFinal DEF CustodyForward

----
(* The credential: one message per purpose, through any order of calls. *)

\* A purpose that the root shows unsigned is signed once more.
LEMMA OneMoreSigned ==
  ASSUME CredentialIInv, NEW p \in KeyPurposes, NEW v \in Messages,
         kept.signed[p] = NoMessage,
         kept'.signed = [kept.signed EXCEPT ![p] = v],
         frames' = frames \cup {[purpose |-> p, value |-> v, verified |-> TRUE]}
  PROVE  /\ RootRetains' /\ SignedBodiesVerified' /\ frames' \subseteq SignedMessages
         /\ kept'.signed \in [KeyPurposes -> Optional(Messages)]
<1>1. kept.signed \in [KeyPurposes -> Optional(Messages)] /\ frames \subseteq SignedMessages
  BY DEF CredentialIInv, CredentialTypeOK, KeptRoots
<1>2. kept'.signed \in [KeyPurposes -> Optional(Messages)]
  BY <1>1 DEF Optional
<1>3. frames' \subseteq SignedMessages
  <2>1. [purpose |-> p, value |-> v, verified |-> TRUE] \in SignedMessages
    BY DEF SignedMessages
  <2>2. QED BY <1>1, <2>1
<1>4. SignedBodiesVerified'
  BY DEF CredentialIInv, SignedBodiesVerified
<1>5. ASSUME NEW f \in frames' PROVE kept'.signed[f.purpose] = f.value
  <2>1. CASE f \in frames
    <3>1. f.purpose \in KeyPurposes /\ f.value # NoMessage /\ kept.signed[f.purpose] = f.value
      BY <2>1, <1>1, CredentialAssumption DEF CredentialIInv, RootRetains, SignedMessages
    <3>2. QED BY <3>1
  <2>2. CASE f = [purpose |-> p, value |-> v, verified |-> TRUE]
    BY <2>2, <1>1
  <2>3. QED BY <2>1, <2>2
<1>6. ASSUME NEW q \in {"intent", "response"}, kept'.signed[q] # NoMessage
      PROVE  [purpose |-> q, value |-> kept'.signed[q], verified |-> TRUE] \in frames'
  <2>1. q \in KeyPurposes
    BY DEF KeyPurposes
  <2>2. CASE q = p
    BY <2>2, <1>1
  <2>3. CASE q # p
    BY <2>1, <1>1, <1>6 DEF CredentialIInv, RootRetains
  <2>4. QED BY <2>2, <2>3
<1>7. RootRetains'
  BY <1>5, <1>6 DEF RootRetains
<1>8. QED BY <1>2, <1>3, <1>4, <1>7

\* A visit opens.
LEMMA OpenVisitInvariant ==
  ASSUME CredentialIInv, OpenVisit
  PROVE  CredentialIInv'
<1>1. CredentialTypeOK'
  <2>1. /\ organizer' \in BOOLEAN /\ closing' \in BOOLEAN
        /\ UNCHANGED kept /\ frames' \subseteq SignedMessages
    BY DEF CredentialIInv, CredentialTypeOK, OpenVisit
  <2>2. cred' \in Credentials
    BY DEF Credentials, Optional, OpenVisit, Opened
  <2>3. ballot' \in BallotWorks
    BY CredentialAssumption DEF BallotWorks, Optional, OpenVisit, NoBallotWork
  <2>4. release' \in ReleaseBodies
    BY CredentialAssumption DEF ReleaseBodies, Optional, OpenVisit, NoRelease
  <2>5. QED BY <2>1, <2>2, <2>3, <2>4 DEF CredentialIInv, CredentialTypeOK
<1>2. RootRetains' /\ ResponseLists' /\ LockAgrees' /\ ProposalFollows' /\ SignedBodiesVerified'
    BY DEF CredentialIInv, RootRetains, ResponseLists, LockAgrees, ProposalFollows,
     SignedBodiesVerified, OpenVisit
<1>3. OpenIsUnsigned'
  BY DEF OpenIsUnsigned, Unlocked, OpenVisit, Opened, Unused, Rank, KeyPurposes
<1>4. CloseRestored'
  BY DEF CloseRestored, OpenVisit
<1>5. NoBallotAfterResponse'
  BY DEF NoBallotAfterResponse, Unlocked, OpenVisit, Opened, Unused, Rank, KeyPurposes
<1>6. TargetAgrees'
  BY DEF CredentialIInv, TargetAgrees, Unlocked, OpenVisit, Opened, Unused, KeyPurposes
<1>7. ReadyIsVerified'
  BY DEF ReadyIsVerified, OpenVisit, NoBallotWork, NoRelease
<1>8. QED BY <1>1, <1>2, <1>3, <1>4, <1>5, <1>6, <1>7 DEF CredentialIInv

\* Close work begins.
LEMMA BeginCloseInvariant ==
  ASSUME CredentialIInv, BeginClose
  PROVE  CredentialIInv'
<1>1. CredentialTypeOK'
  <2>1. /\ organizer' \in BOOLEAN /\ closing' \in BOOLEAN
        /\ UNCHANGED kept /\ ballot' \in BallotWorks /\ release' \in ReleaseBodies
        /\ frames' \subseteq SignedMessages
    BY DEF CredentialIInv, CredentialTypeOK, BeginClose
  <2>2. cred' \in Credentials
    <3>1. /\ (kept.signed["intent"] # NoMessage) \in BOOLEAN
          /\ (kept.signed["proposal"] # NoMessage) \in BOOLEAN
          /\ (kept.signed["target"] # NoMessage) \in BOOLEAN
      OBVIOUS
    <3>2. kept.lock \in Optional(Intents)
      BY DEF CredentialIInv, CredentialTypeOK, KeptRoots
    <3>3. QED BY <3>1, <3>2, Zenon DEF CredentialIInv, CredentialTypeOK, Credentials, BeginClose
  <2>3. QED BY <2>1, <2>2 DEF CredentialIInv, CredentialTypeOK
<1>2. RootRetains' /\ ResponseLists' /\ LockAgrees' /\ ProposalFollows' /\ SignedBodiesVerified'
    BY DEF CredentialIInv, RootRetains, ResponseLists, LockAgrees, ProposalFollows,
     SignedBodiesVerified, BeginClose
<1>3. OpenIsUnsigned'
  BY DEF CredentialIInv, OpenIsUnsigned, CredentialTypeOK, Credentials, Unlocked, BeginClose
<1>4. CloseRestored'
  BY DEF CredentialIInv, CloseRestored, CredentialTypeOK, BeginClose
<1>5. NoBallotAfterResponse'
  BY DEF CredentialIInv, NoBallotAfterResponse, Unlocked, BeginClose
<1>6. TargetAgrees'
  BY DEF CredentialIInv, TargetAgrees, Unlocked, BeginClose
<1>7. ReadyIsVerified'
  BY DEF CredentialIInv, ReadyIsVerified, BeginClose
<1>8. QED BY <1>1, <1>2, <1>3, <1>4, <1>5, <1>6, <1>7 DEF CredentialIInv

\* Work on a body concerns neither the root nor the credential.
LEMMA BodyWorkInvariant ==
  ASSUME CredentialIInv, UNCHANGED <<organizer, kept, cred, closing, frames>>,
         ballot' \in BallotWorks, release' \in ReleaseBodies, ReadyIsVerified'
  PROVE  CredentialIInv'
<1>1. CredentialTypeOK'
  BY DEF CredentialIInv, CredentialTypeOK
<1>2. RootRetains' /\ ResponseLists' /\ LockAgrees' /\ ProposalFollows' /\ SignedBodiesVerified'
    BY DEF CredentialIInv, RootRetains, ResponseLists, LockAgrees, ProposalFollows,
     SignedBodiesVerified
<1>3. OpenIsUnsigned' /\ CloseRestored' /\ NoBallotAfterResponse' /\ TargetAgrees'
    BY DEF CredentialIInv, OpenIsUnsigned, CloseRestored, NoBallotAfterResponse, TargetAgrees,
     Unlocked
<1>4. QED BY <1>1, <1>2, <1>3 DEF CredentialIInv

\* The ballot's work before it is signed, and the import of a release.
LEMMA BallotImportInvariant ==
  ASSUME CredentialIInv,
         \/ DeliverKey \/ FinishBallotImport
         \/ \E b \in Ballots : BeginBallotImport(b)
         \/ \E n \in 0..BodyChunks, sound \in BOOLEAN : PushBallotImport(n, sound)
  PROVE  CredentialIInv'
<1>1. ballot \in BallotWorks /\ release \in ReleaseBodies /\ ReadyIsVerified
  BY DEF CredentialIInv, CredentialTypeOK
<1>2. CASE DeliverKey
  <2>1. ballot' \in BallotWorks /\ ReadyIsVerified'
    BY <1>1, <1>2 DEF DeliverKey, BallotWorks, ReadyIsVerified
  <2>2. QED BY <1>1, <1>2, <2>1, BodyWorkInvariant DEF DeliverKey
<1>3. CASE FinishBallotImport
  <2>1. ballot' \in BallotWorks /\ ReadyIsVerified'
    BY <1>1, <1>3 DEF FinishBallotImport, BallotWorks, ReadyIsVerified, Complete
  <2>2. QED BY <1>1, <1>3, <2>1, BodyWorkInvariant DEF FinishBallotImport
<1>4. ASSUME NEW b \in Ballots, BeginBallotImport(b) PROVE CredentialIInv'
  <2>1. b \in Optional(Ballots) /\ b # NoMessage
    BY CredentialAssumption DEF Optional, Messages
  <2>2. ballot' \in BallotWorks /\ ReadyIsVerified'
    BY <1>1, <1>4, <2>1 DEF BeginBallotImport, BallotWorks, ReadyIsVerified
  <2>3. QED BY <1>1, <1>4, <2>2, BodyWorkInvariant DEF BeginBallotImport
<1>5. ASSUME NEW n \in 0..BodyChunks, NEW sound \in BOOLEAN, PushBallotImport(n, sound) PROVE CredentialIInv'
  <2>1. ballot' \in BallotWorks /\ ReadyIsVerified'
    <3>1. CASE n = 0 \/ n > BodyChunks - ballot.chunks
      BY <1>1, <1>5, <3>1 DEF PushBallotImport, BallotWorks, ReadyIsVerified
    <3>2. CASE ~(n = 0 \/ n > BodyChunks - ballot.chunks)
      <4>1. /\ ballot' = [ballot EXCEPT !.chunks = @ + n, !.sound = @ /\ sound]
            /\ ballot.phase = "importing"
        BY <1>5, <3>2 DEF PushBallotImport
      <4>2. ballot.chunks + n \in 0..BodyChunks
        BY <1>1, <3>2, CredentialAssumption DEF BallotWorks
      <4>3. ballot' \in BallotWorks
        BY <1>1, <4>1, <4>2 DEF BallotWorks
      <4>4. /\ ballot'.phase = "importing" /\ ballot'.envelope = ballot.envelope
            /\ release' = release
        BY <1>1, <1>5, <4>1 DEF BallotWorks, PushBallotImport
      <4>5. QED BY <1>1, <4>1, <4>3, <4>4 DEF ReadyIsVerified
    <3>3. QED BY <3>1, <3>2
  <2>2. QED BY <1>1, <1>5, <2>1, BodyWorkInvariant DEF PushBallotImport
<1>6. QED BY <1>2, <1>3, <1>4, <1>5

LEMMA ReleaseImportInvariant ==
  ASSUME CredentialIInv,
         \/ FinishReleaseImport
         \/ \E n \in 0..BodyChunks, sound \in BOOLEAN : PushReleaseImport(n, sound)
  PROVE  CredentialIInv'
<1>1. ballot \in BallotWorks /\ release \in ReleaseBodies /\ ReadyIsVerified
  BY DEF CredentialIInv, CredentialTypeOK
<1>2. CASE FinishReleaseImport
  <2>1. release' \in ReleaseBodies /\ ReadyIsVerified'
    BY <1>1, <1>2 DEF FinishReleaseImport, ReleaseBodies, ReadyIsVerified, Complete
  <2>2. QED BY <1>1, <1>2, <2>1, BodyWorkInvariant DEF FinishReleaseImport
<1>3. ASSUME NEW n \in 0..BodyChunks, NEW sound \in BOOLEAN, PushReleaseImport(n, sound) PROVE CredentialIInv'
  <2>1. release' \in ReleaseBodies /\ ReadyIsVerified'
    <3>1. CASE n = 0 \/ n > BodyChunks - release.chunks
      BY <1>1, <1>3, <3>1 DEF PushReleaseImport, ReleaseBodies, ReadyIsVerified
    <3>2. CASE ~(n = 0 \/ n > BodyChunks - release.chunks)
      <4>1. /\ release' = [release EXCEPT !.chunks = @ + n, !.sound = @ /\ sound]
            /\ release.phase = "importing"
        BY <1>3, <3>2 DEF PushReleaseImport
      <4>2. release.chunks + n \in 0..BodyChunks
        BY <1>1, <3>2, CredentialAssumption DEF ReleaseBodies
      <4>3. release' \in ReleaseBodies
        BY <1>1, <4>1, <4>2 DEF ReleaseBodies
      <4>4. /\ release'.phase = "importing" /\ release'.target = release.target
            /\ ballot' = ballot /\ cred' = cred
        BY <1>1, <1>3, <4>1 DEF ReleaseBodies, PushReleaseImport
      <4>5. QED BY <1>1, <4>1, <4>3, <4>4 DEF ReadyIsVerified
    <3>3. QED BY <3>1, <3>2
  <2>2. QED BY <1>1, <1>3, <2>1, BodyWorkInvariant DEF PushReleaseImport
<1>4. QED BY <1>2, <1>3

\* A ballot is created.
LEMMA CreateBallotInvariant ==
  ASSUME CredentialIInv, NEW b \in Ballots, CreateBallot(b)
  PROVE  CredentialIInv'
<1>1. CredentialTypeOK'
  <2>1. /\ organizer' \in BOOLEAN /\ closing' \in BOOLEAN
        /\ UNCHANGED kept /\ release' \in ReleaseBodies /\ frames' \subseteq SignedMessages
    BY DEF CredentialIInv, CredentialTypeOK, CreateBallot
  <2>2. cred' \in Credentials
    BY DEF CredentialIInv, CredentialTypeOK, Credentials, CreateBallot, Reserve
  <2>3. ballot' \in BallotWorks
    BY DEF CredentialIInv, CredentialTypeOK, BallotWorks, Optional, CreateBallot
  <2>4. QED BY <2>1, <2>2, <2>3 DEF CredentialIInv, CredentialTypeOK
<1>2. RootRetains' /\ ResponseLists' /\ LockAgrees' /\ ProposalFollows' /\ SignedBodiesVerified'
    BY DEF CredentialIInv, RootRetains, ResponseLists, LockAgrees, ProposalFollows,
     SignedBodiesVerified, CreateBallot
<1>3. OpenIsUnsigned'
  BY DEF CredentialIInv, OpenIsUnsigned, Unlocked, CreateBallot, Reserve
<1>4. CloseRestored'
  BY DEF CredentialIInv, CloseRestored, CreateBallot, Reserve
<1>5. NoBallotAfterResponse'
  BY DEF CredentialIInv, NoBallotAfterResponse, CreateBallot, Reserve
<1>6. TargetAgrees'
  BY DEF CredentialIInv, TargetAgrees, Unlocked, CreateBallot, Reserve
<1>7. ReadyIsVerified'
  BY CredentialAssumption DEF CredentialIInv, ReadyIsVerified, CreateBallot, Reserve, Messages
<1>8. QED BY <1>1, <1>2, <1>3, <1>4, <1>5, <1>6, <1>7 DEF CredentialIInv

\* The ballot is signed.
LEMMA SignBallotInvariant ==
  ASSUME CredentialIInv, SignBallot
  PROVE  CredentialIInv'
<1>1. "ballot" \in KeyPurposes /\ ballot.envelope \in Messages /\ ballot.envelope \in Ballots
    BY DEF KeyPurposes, Messages, SignBallot, CredentialIInv, CredentialTypeOK, BallotWorks,
     Optional, ReadyIsVerified
<1>2. /\ kept.signed["ballot"] = NoMessage
      /\ kept'.signed = [kept.signed EXCEPT !["ballot"] = ballot.envelope]
      /\ frames' = frames \cup {[purpose |-> "ballot", value |-> ballot.envelope, verified |-> TRUE]}
    BY DEF SignBallot, Signed, CredentialIInv, OpenIsUnsigned, ReadyIsVerified,
      CredentialTypeOK,
     KeptRoots
<1>3. /\ RootRetains' /\ SignedBodiesVerified' /\ frames' \subseteq SignedMessages
      /\ kept'.signed \in [KeyPurposes -> Optional(Messages)]
  BY <1>1, <1>2, OneMoreSigned
<1>4. CredentialTypeOK'
  <2>1. /\ organizer' \in BOOLEAN /\ closing' \in BOOLEAN
        /\ release' \in ReleaseBodies
    BY DEF CredentialIInv, CredentialTypeOK, SignBallot
  <2>2. kept' \in KeptRoots
    BY <1>3 DEF CredentialIInv, CredentialTypeOK, KeptRoots, SignBallot, Signed
  <2>3. /\ kept.signed["ballot"]' \in Optional(Ballots)
        /\ kept.signed["response"]' \in Optional(Responses)
        /\ kept.signed["target"]' \in Optional(Targets)
    BY <1>1 DEF CredentialIInv, CredentialTypeOK, Optional, SignBallot, Signed
  <2>4. cred' \in Credentials
    BY <1>1 DEF CredentialIInv, CredentialTypeOK, Credentials, Optional, SignBallot
  <2>5. ballot' \in BallotWorks
    BY DEF CredentialIInv, CredentialTypeOK, BallotWorks, SignBallot
  <2>6. frames' \subseteq SignedMessages
    BY <1>3
  <2>7. QED BY <2>1, <2>2, <2>3, <2>4, <2>5, <2>6 DEF CredentialTypeOK
<1>5. OpenIsUnsigned'
  BY DEF CredentialIInv, OpenIsUnsigned, Unlocked, SignBallot, Signed
<1>6. CloseRestored'
  BY DEF CredentialIInv, CloseRestored, CredentialTypeOK, KeptRoots, SignBallot, Signed,
    KeyPurposes
<1>7. NoBallotAfterResponse'
  BY DEF CredentialIInv, NoBallotAfterResponse, SignBallot, Signed
<1>8. ResponseLists'
  BY DEF CredentialIInv, ResponseLists, SignBallot, Signed, NoBallotAfterResponse
<1>9. LockAgrees'
  BY DEF CredentialIInv, LockAgrees, SignBallot, Signed
<1>10. ProposalFollows'
  BY DEF CredentialIInv, ProposalFollows, SignBallot, Signed
<1>11. TargetAgrees'
  BY DEF CredentialIInv, TargetAgrees, Unlocked, SignBallot, Signed
<1>12. ReadyIsVerified'
  BY DEF CredentialIInv, ReadyIsVerified, SignBallot
<1>13. QED BY <1>3, <1>4, <1>5, <1>6, <1>7, <1>8, <1>9, <1>10, <1>11, <1>12 DEF CredentialIInv

\* The organizer signs its intent.
LEMMA SignIntentInvariant ==
  ASSUME CredentialIInv, NEW i \in Intents, SignIntent(i)
  PROVE  CredentialIInv'
<1>1. "intent" \in KeyPurposes /\ i \in Messages
  BY DEF KeyPurposes, Messages
<1>2. /\ kept.signed["intent"] = NoMessage /\ kept'.signed = [kept.signed EXCEPT !["intent"] = i]
      /\ frames' = frames \cup {[purpose |-> "intent", value |-> i, verified |-> TRUE]}
  BY DEF SignIntent, CredentialIInv, OpenIsUnsigned
<1>3. /\ RootRetains' /\ SignedBodiesVerified' /\ frames' \subseteq SignedMessages
      /\ kept'.signed \in [KeyPurposes -> Optional(Messages)]
  BY <1>1, <1>2, OneMoreSigned
<1>4. CredentialTypeOK'
  <2>1. /\ organizer' \in BOOLEAN /\ closing' \in BOOLEAN
        /\ ballot' \in BallotWorks /\ release' \in ReleaseBodies
    BY DEF CredentialIInv, CredentialTypeOK, SignIntent, work
  <2>2. kept' \in KeptRoots
    BY <1>3 DEF CredentialIInv, CredentialTypeOK, KeptRoots, Optional, SignIntent
  <2>3. /\ kept.signed["ballot"]' \in Optional(Ballots)
        /\ kept.signed["response"]' \in Optional(Responses)
        /\ kept.signed["target"]' \in Optional(Targets)
    BY DEF CredentialIInv, CredentialTypeOK, SignIntent
  <2>4. cred' \in Credentials
    BY DEF CredentialIInv, CredentialTypeOK, Credentials, Optional, SignIntent
  <2>5. frames' \subseteq SignedMessages
    BY <1>3
  <2>6. QED BY <2>1, <2>2, <2>3, <2>4, <2>5 DEF CredentialTypeOK
<1>5. OpenIsUnsigned'
  BY DEF CredentialIInv, OpenIsUnsigned, Unlocked, SignIntent
<1>6. CloseRestored'
    BY CredentialAssumption, <1>1 DEF CredentialIInv, CloseRestored, CredentialTypeOK,
      KeptRoots,
     SignIntent
<1>7. NoBallotAfterResponse'
  BY DEF CredentialIInv, NoBallotAfterResponse, Unlocked, SignIntent, work
<1>8. ResponseLists'
  BY DEF CredentialIInv, ResponseLists, SignIntent
<1>9. LockAgrees'
    BY CredentialAssumption DEF CredentialIInv, LockAgrees, CredentialTypeOK, Optional,
      SignIntent,
     CloseRestored, Messages, Responses
<1>10. ProposalFollows'
  BY <1>2 DEF CredentialIInv, ProposalFollows
<1>11. TargetAgrees'
  BY DEF CredentialIInv, TargetAgrees, Unlocked, SignIntent, work
<1>12. ReadyIsVerified'
  BY DEF CredentialIInv, ReadyIsVerified, SignIntent, work
<1>13. QED BY <1>3, <1>4, <1>5, <1>6, <1>7, <1>8, <1>9, <1>10, <1>11, <1>12 DEF CredentialIInv

\* The response is signed.
LEMMA SignResponseInvariant ==
  ASSUME CredentialIInv, NEW r \in Responses, SignResponse(r)
  PROVE  CredentialIInv'
<1>1. "response" \in KeyPurposes /\ r \in Messages
  BY DEF KeyPurposes, Messages
<1>2. /\ kept.signed["response"] = NoMessage
      /\ kept'.signed = [kept.signed EXCEPT !["response"] = r]
      /\ frames' = frames \cup {[purpose |-> "response", value |-> r, verified |-> TRUE]}
  BY DEF SignResponse, Signed, CredentialIInv, OpenIsUnsigned
<1>3. /\ RootRetains' /\ SignedBodiesVerified' /\ frames' \subseteq SignedMessages
      /\ kept'.signed \in [KeyPurposes -> Optional(Messages)]
  BY <1>1, <1>2, OneMoreSigned
<1>4. CredentialTypeOK'
  <2>1. /\ organizer' \in BOOLEAN /\ closing' \in BOOLEAN
        /\ ballot' \in BallotWorks /\ release' \in ReleaseBodies
    BY DEF CredentialIInv, CredentialTypeOK, SignResponse, work
  <2>2. kept' \in KeptRoots
    BY <1>3 DEF CredentialIInv, CredentialTypeOK, KeptRoots, SignResponse, Signed
  <2>3. /\ kept.signed["ballot"]' \in Optional(Ballots)
        /\ kept.signed["response"]' \in Optional(Responses)
        /\ kept.signed["target"]' \in Optional(Targets)
    BY DEF CredentialIInv, CredentialTypeOK, Optional, SignResponse, Signed
  <2>4. cred' \in Credentials
    BY DEF CredentialIInv, CredentialTypeOK, Credentials, Optional, SignResponse
  <2>5. frames' \subseteq SignedMessages
    BY <1>3
  <2>6. QED BY <2>1, <2>2, <2>3, <2>4, <2>5 DEF CredentialTypeOK
<1>5. OpenIsUnsigned'
  BY DEF CredentialIInv, OpenIsUnsigned, Unlocked, SignResponse, Signed
<1>6. CloseRestored'
  BY DEF CredentialIInv, CloseRestored, CredentialTypeOK, KeptRoots, SignResponse, Signed,
    KeyPurposes
<1>7. NoBallotAfterResponse'
    BY CredentialAssumption DEF NoBallotAfterResponse, SignResponse, Respondable, work,
      Messages,
     Responses
<1>8. ResponseLists'
  BY DEF CredentialIInv, ResponseLists, SignResponse, Respondable, Signed, CloseRestored
<1>9. LockAgrees'
  BY DEF CredentialIInv, LockAgrees, SignResponse, Respondable, Signed, CloseRestored
<1>10. ProposalFollows'
  BY <1>2 DEF CredentialIInv, ProposalFollows
<1>11. TargetAgrees'
  BY DEF CredentialIInv, TargetAgrees, Unlocked, SignResponse, Signed, work
<1>12. ReadyIsVerified'
  BY DEF CredentialIInv, ReadyIsVerified, SignResponse, work
<1>13. QED BY <1>3, <1>4, <1>5, <1>6, <1>7, <1>8, <1>9, <1>10, <1>11, <1>12 DEF CredentialIInv

\* The organizer signs its proposal.
LEMMA SignProposalInvariant ==
  ASSUME CredentialIInv, NEW i \in Intents, NEW r \in Responses, SignProposal(i, r)
  PROVE  CredentialIInv'
<1>1. "proposal" \in KeyPurposes /\ [intent |-> i, response |-> r] \in Messages
  BY DEF KeyPurposes, Messages, Proposals
<1>2. /\ kept.signed["proposal"] = NoMessage
      /\ kept'.signed = [kept.signed EXCEPT !["proposal"] = [intent |-> i, response |-> r]]
      /\ frames' = frames \cup {[purpose |-> "proposal", value |-> [intent |-> i, response |-> r], verified |-> TRUE]}
  BY DEF SignProposal, Signed, CredentialIInv, OpenIsUnsigned
<1>3. /\ RootRetains' /\ SignedBodiesVerified' /\ frames' \subseteq SignedMessages
      /\ kept'.signed \in [KeyPurposes -> Optional(Messages)]
  BY <1>1, <1>2, OneMoreSigned
<1>4. CredentialTypeOK'
  <2>1. /\ organizer' \in BOOLEAN /\ closing' \in BOOLEAN
        /\ ballot' \in BallotWorks /\ release' \in ReleaseBodies
    BY DEF CredentialIInv, CredentialTypeOK, SignProposal, work
  <2>2. kept' \in KeptRoots
    BY <1>3 DEF CredentialIInv, CredentialTypeOK, KeptRoots, SignProposal, Signed
  <2>3. /\ kept.signed["ballot"]' \in Optional(Ballots)
        /\ kept.signed["response"]' \in Optional(Responses)
        /\ kept.signed["target"]' \in Optional(Targets)
    BY DEF CredentialIInv, CredentialTypeOK, SignProposal, Signed
  <2>4. cred' \in Credentials
    BY DEF CredentialIInv, CredentialTypeOK, Credentials, SignProposal
  <2>5. frames' \subseteq SignedMessages
    BY <1>3
  <2>6. QED BY <2>1, <2>2, <2>3, <2>4, <2>5 DEF CredentialTypeOK
<1>5. OpenIsUnsigned'
  BY DEF CredentialIInv, OpenIsUnsigned, Unlocked, SignProposal, Signed
<1>6. CloseRestored'
  BY DEF CredentialIInv, CloseRestored, SignProposal, Signed
<1>7. NoBallotAfterResponse'
  BY DEF CredentialIInv, NoBallotAfterResponse, Unlocked, SignProposal, Signed, work
<1>8. ResponseLists'
  BY DEF CredentialIInv, ResponseLists, SignProposal, Signed
<1>9. LockAgrees'
  BY DEF CredentialIInv, LockAgrees, SignProposal, Signed
<1>10. ProposalFollows'
    BY CredentialAssumption DEF CredentialIInv, ProposalFollows, SignProposal, Signed,
     CloseRestored, LockAgrees, Messages
<1>11. TargetAgrees'
  BY DEF CredentialIInv, TargetAgrees, Unlocked, SignProposal, Signed, work
<1>12. ReadyIsVerified'
  BY DEF CredentialIInv, ReadyIsVerified, SignProposal, work
<1>13. QED BY <1>3, <1>4, <1>5, <1>6, <1>7, <1>8, <1>9, <1>10, <1>11, <1>12 DEF CredentialIInv

\* The vote is signed.
LEMMA SignTargetInvariant ==
  ASSUME CredentialIInv, NEW t \in Targets, SignTarget(t)
  PROVE  CredentialIInv'
<1>1. "target" \in KeyPurposes /\ t \in Messages
  BY DEF KeyPurposes, Messages
<1>2. /\ kept.signed["target"] = NoMessage /\ kept'.signed = [kept.signed EXCEPT !["target"] = t]
      /\ frames' = frames \cup {[purpose |-> "target", value |-> t, verified |-> TRUE]}
  BY DEF SignTarget, Signed, CredentialIInv, OpenIsUnsigned
<1>3. /\ RootRetains' /\ SignedBodiesVerified' /\ frames' \subseteq SignedMessages
      /\ kept'.signed \in [KeyPurposes -> Optional(Messages)]
  BY <1>1, <1>2, OneMoreSigned
<1>4. CredentialTypeOK'
  <2>1. /\ organizer' \in BOOLEAN /\ closing' \in BOOLEAN
        /\ ballot' \in BallotWorks /\ release' \in ReleaseBodies
    BY DEF CredentialIInv, CredentialTypeOK, SignTarget, work
  <2>2. kept' \in KeptRoots
    BY <1>3 DEF CredentialIInv, CredentialTypeOK, KeptRoots, SignTarget, Signed
  <2>3. /\ kept.signed["ballot"]' \in Optional(Ballots)
        /\ kept.signed["response"]' \in Optional(Responses)
        /\ kept.signed["target"]' \in Optional(Targets)
    BY DEF CredentialIInv, CredentialTypeOK, Optional, SignTarget, Signed
  <2>4. cred' \in Credentials
    BY DEF CredentialIInv, CredentialTypeOK, Credentials, Optional, SignTarget
  <2>5. frames' \subseteq SignedMessages
    BY <1>3
  <2>6. QED BY <2>1, <2>2, <2>3, <2>4, <2>5 DEF CredentialTypeOK
<1>5. OpenIsUnsigned'
  BY DEF CredentialIInv, OpenIsUnsigned, Unlocked, SignTarget, Signed
<1>6. CloseRestored'
  BY DEF CredentialIInv, CloseRestored, SignTarget, Signed
<1>7. NoBallotAfterResponse'
  BY DEF CredentialIInv, NoBallotAfterResponse, Unlocked, SignTarget, Signed, work
<1>8. ResponseLists'
  BY DEF CredentialIInv, ResponseLists, SignTarget, Signed
<1>9. LockAgrees'
  BY DEF CredentialIInv, LockAgrees, SignTarget, Signed
<1>10. ProposalFollows'
  BY DEF CredentialIInv, ProposalFollows, SignTarget, Signed
<1>11. TargetAgrees'
  BY DEF CredentialIInv, TargetAgrees, Unlocked, SignTarget, Signed, work
<1>12. ReadyIsVerified'
  BY DEF CredentialIInv, ReadyIsVerified, SignTarget, work
<1>13. QED BY <1>3, <1>4, <1>5, <1>6, <1>7, <1>8, <1>9, <1>10, <1>11, <1>12 DEF CredentialIInv

\* The release is signed.
LEMMA SignReleaseInvariant ==
  ASSUME CredentialIInv, SignRelease
  PROVE  CredentialIInv'
<1>1. "release" \in KeyPurposes /\ release.target \in Messages
    BY DEF KeyPurposes, Messages, SignRelease, CredentialIInv, CredentialTypeOK, ReleaseBodies,
     Optional, ReadyIsVerified
<1>2. /\ kept.signed["release"] = NoMessage
      /\ kept'.signed = [kept.signed EXCEPT !["release"] = release.target]
      /\ frames' = frames \cup {[purpose |-> "release", value |-> release.target, verified |-> TRUE]}
    BY DEF SignRelease, Signed, CredentialIInv, OpenIsUnsigned, ReadyIsVerified, TargetAgrees,
     CredentialTypeOK, KeptRoots
<1>3. /\ RootRetains' /\ SignedBodiesVerified' /\ frames' \subseteq SignedMessages
      /\ kept'.signed \in [KeyPurposes -> Optional(Messages)]
  BY <1>1, <1>2, OneMoreSigned
<1>4. CredentialTypeOK'
  <2>1. /\ organizer' \in BOOLEAN /\ closing' \in BOOLEAN
        /\ ballot' \in BallotWorks /\ release' \in ReleaseBodies
    BY DEF CredentialIInv, CredentialTypeOK, SignRelease, work
  <2>2. kept' \in KeptRoots
    BY <1>3 DEF CredentialIInv, CredentialTypeOK, KeptRoots, SignRelease, Signed
  <2>3. /\ kept.signed["ballot"]' \in Optional(Ballots)
        /\ kept.signed["response"]' \in Optional(Responses)
        /\ kept.signed["target"]' \in Optional(Targets)
    BY DEF CredentialIInv, CredentialTypeOK, SignRelease, Signed
  <2>4. cred' \in Credentials
    BY DEF CredentialIInv, CredentialTypeOK, Credentials, SignRelease
  <2>5. frames' \subseteq SignedMessages
    BY <1>3
  <2>6. QED BY <2>1, <2>2, <2>3, <2>4, <2>5 DEF CredentialTypeOK
<1>5. OpenIsUnsigned'
  BY DEF CredentialIInv, OpenIsUnsigned, Unlocked, SignRelease, Signed
<1>6. CloseRestored'
  BY DEF CredentialIInv, CloseRestored, SignRelease, Signed, work
<1>7. NoBallotAfterResponse'
  BY DEF CredentialIInv, NoBallotAfterResponse, Unlocked, SignRelease, Signed, work
<1>8. ResponseLists'
  BY DEF CredentialIInv, ResponseLists, SignRelease, Signed
<1>9. LockAgrees'
  BY DEF CredentialIInv, LockAgrees, SignRelease, Signed
<1>10. ProposalFollows'
  BY DEF CredentialIInv, ProposalFollows, SignRelease, Signed
<1>11. TargetAgrees'
  BY DEF CredentialIInv, TargetAgrees, Unlocked, SignRelease, Signed, work
<1>12. ReadyIsVerified'
  BY DEF CredentialIInv, ReadyIsVerified, SignRelease, work
<1>13. QED BY <1>3, <1>4, <1>5, <1>6, <1>7, <1>8, <1>9, <1>10, <1>11, <1>12 DEF CredentialIInv

\* An intent is locked.
LEMMA LockIntentInvariant ==
  ASSUME CredentialIInv, NEW i \in Intents, LockIntent(i)
  PROVE  CredentialIInv'
<1>1. CredentialTypeOK'
  <2>1. /\ organizer' \in BOOLEAN /\ closing' \in BOOLEAN
        /\ ballot' \in BallotWorks /\ release' \in ReleaseBodies
        /\ frames' \subseteq SignedMessages
    BY DEF CredentialIInv, CredentialTypeOK, LockIntent, work
  <2>2. kept' \in KeptRoots
    BY DEF CredentialIInv, CredentialTypeOK, KeptRoots, Optional, LockIntent
  <2>3. /\ kept.signed["ballot"]' \in Optional(Ballots)
        /\ kept.signed["response"]' \in Optional(Responses)
        /\ kept.signed["target"]' \in Optional(Targets)
    BY DEF CredentialIInv, CredentialTypeOK, LockIntent
  <2>4. cred' \in Credentials
    BY DEF CredentialIInv, CredentialTypeOK, Credentials, Optional, LockIntent
  <2>5. QED BY <2>1, <2>2, <2>3, <2>4 DEF CredentialTypeOK
<1>2. RootRetains'
  BY DEF CredentialIInv, RootRetains, LockIntent
<1>3. OpenIsUnsigned'
  BY DEF CredentialIInv, OpenIsUnsigned, Unlocked, LockIntent
<1>4. CloseRestored'
  BY DEF CredentialIInv, CloseRestored, LockIntent
<1>5. NoBallotAfterResponse'
  BY DEF CredentialIInv, NoBallotAfterResponse, Unlocked, LockIntent, work
<1>6. ResponseLists'
  BY DEF CredentialIInv, ResponseLists, LockIntent
<1>7. LockAgrees'
    BY CredentialAssumption DEF CredentialIInv, LockAgrees, CredentialTypeOK, Optional,
      LockIntent,
     CloseRestored, Messages, Responses
<1>8. ProposalFollows'
  BY DEF CredentialIInv, ProposalFollows, LockIntent
<1>9. TargetAgrees'
  BY DEF CredentialIInv, TargetAgrees, Unlocked, LockIntent, work
<1>10. ReadyIsVerified'
  BY DEF CredentialIInv, ReadyIsVerified, LockIntent, work
<1>11. SignedBodiesVerified'
  BY DEF CredentialIInv, SignedBodiesVerified, LockIntent
<1>12. QED BY <1>1, <1>2, <1>3, <1>4, <1>5, <1>6, <1>7, <1>8, <1>9, <1>10, <1>11
    DEF CredentialIInv

\* A release begins, by proof or by import.
LEMMA CreateReleaseInvariant ==
  ASSUME CredentialIInv, NEW t \in Targets, CreateRelease(t)
  PROVE  CredentialIInv'
<1>1. CredentialTypeOK'
  <2>1. /\ organizer' \in BOOLEAN /\ closing' \in BOOLEAN
        /\ ballot' \in BallotWorks /\ frames' \subseteq SignedMessages
    BY DEF CredentialIInv, CredentialTypeOK, CreateRelease
  <2>2. kept' \in KeptRoots
    BY DEF CredentialIInv, CredentialTypeOK, KeptRoots, Optional, CreateRelease, BeginRelease
  <2>3. /\ kept.signed["ballot"]' \in Optional(Ballots)
        /\ kept.signed["response"]' \in Optional(Responses)
        /\ kept.signed["target"]' \in Optional(Targets)
    BY DEF CredentialIInv, CredentialTypeOK, CreateRelease, BeginRelease
  <2>4. cred' \in Credentials
    BY DEF CredentialIInv, CredentialTypeOK, Credentials, Optional, CreateRelease, BeginRelease
  <2>5. release' \in ReleaseBodies
    <3>1. BodyChunks \in 0..BodyChunks /\ t \in Optional(Targets) /\ release \in ReleaseBodies
      BY CredentialAssumption DEF CredentialIInv, CredentialTypeOK, Optional
    <3>2. [phase |-> "ready", target |-> t, chunks |-> BodyChunks, sound |-> TRUE] \in ReleaseBodies
      BY <3>1 DEF ReleaseBodies
    <3>3. QED BY <3>1, <3>2 DEF CreateRelease
  <2>6. QED BY <2>1, <2>2, <2>3, <2>4, <2>5 DEF CredentialTypeOK
<1>2. RootRetains'
  BY DEF CredentialIInv, RootRetains, CreateRelease, BeginRelease
<1>3. OpenIsUnsigned'
  BY DEF CredentialIInv, OpenIsUnsigned, Unlocked, CreateRelease, BeginRelease
<1>4. CloseRestored'
  BY DEF CredentialIInv, CloseRestored, CreateRelease, BeginRelease
<1>5. NoBallotAfterResponse'
  BY DEF CredentialIInv, NoBallotAfterResponse, Unlocked, CreateRelease, BeginRelease
<1>6. ResponseLists'
  BY DEF CredentialIInv, ResponseLists, CreateRelease, BeginRelease
<1>7. LockAgrees'
  BY DEF CredentialIInv, LockAgrees, CreateRelease, BeginRelease
<1>8. ProposalFollows'
  BY DEF CredentialIInv, ProposalFollows, CreateRelease, BeginRelease
<1>9. TargetAgrees'
    BY CredentialAssumption DEF CredentialIInv, TargetAgrees, Unlocked, CreateRelease,
      BeginRelease,
     Messages, CloseRestored
<1>10. ReadyIsVerified'
    BY CredentialAssumption DEF CredentialIInv, ReadyIsVerified, Complete, CreateRelease,
     BeginRelease, Messages
<1>11. SignedBodiesVerified'
  BY DEF CredentialIInv, SignedBodiesVerified, CreateRelease
<1>12. QED BY <1>1, <1>2, <1>3, <1>4, <1>5, <1>6, <1>7, <1>8, <1>9, <1>10, <1>11
    DEF CredentialIInv

\* A release import begins.
LEMMA BeginReleaseImportInvariant ==
  ASSUME CredentialIInv, NEW t \in Targets, BeginReleaseImport(t)
  PROVE  CredentialIInv'
<1>1. CredentialTypeOK'
  <2>1. /\ organizer' \in BOOLEAN /\ closing' \in BOOLEAN
        /\ ballot' \in BallotWorks /\ frames' \subseteq SignedMessages
    BY DEF CredentialIInv, CredentialTypeOK, BeginReleaseImport
  <2>2. kept' \in KeptRoots
    BY DEF CredentialIInv, CredentialTypeOK, KeptRoots, Optional, BeginReleaseImport,
      BeginRelease
  <2>3. /\ kept.signed["ballot"]' \in Optional(Ballots)
        /\ kept.signed["response"]' \in Optional(Responses)
        /\ kept.signed["target"]' \in Optional(Targets)
    BY DEF CredentialIInv, CredentialTypeOK, BeginReleaseImport, BeginRelease
  <2>4. cred' \in Credentials
    BY DEF CredentialIInv, CredentialTypeOK, Credentials, Optional, BeginReleaseImport,
      BeginRelease
  <2>5. release' \in ReleaseBodies
    <3>1. BodyChunks \in 0..BodyChunks /\ 0 \in 0..BodyChunks /\ t \in Optional(Targets)
      BY CredentialAssumption DEF Optional
    <3>2. QED BY <3>1 DEF ReleaseBodies, BeginReleaseImport, NoRelease
  <2>6. QED BY <2>1, <2>2, <2>3, <2>4, <2>5 DEF CredentialTypeOK
<1>2. RootRetains'
  BY DEF CredentialIInv, RootRetains, BeginReleaseImport, BeginRelease
<1>3. OpenIsUnsigned'
  BY DEF CredentialIInv, OpenIsUnsigned, Unlocked, BeginReleaseImport, BeginRelease
<1>4. CloseRestored'
  BY DEF CredentialIInv, CloseRestored, BeginReleaseImport, BeginRelease
<1>5. NoBallotAfterResponse'
  BY DEF CredentialIInv, NoBallotAfterResponse, Unlocked, BeginReleaseImport, BeginRelease
<1>6. ResponseLists'
  BY DEF CredentialIInv, ResponseLists, BeginReleaseImport, BeginRelease
<1>7. LockAgrees'
  BY DEF CredentialIInv, LockAgrees, BeginReleaseImport, BeginRelease
<1>8. ProposalFollows'
  BY DEF CredentialIInv, ProposalFollows, BeginReleaseImport, BeginRelease
<1>9. TargetAgrees'
    BY CredentialAssumption DEF CredentialIInv, TargetAgrees, Unlocked, BeginReleaseImport,
     BeginRelease, Messages, CloseRestored
<1>10. ReadyIsVerified'
    BY CredentialAssumption DEF CredentialIInv, ReadyIsVerified, BeginReleaseImport,
      BeginRelease,
     Messages
<1>11. SignedBodiesVerified'
  BY DEF CredentialIInv, SignedBodiesVerified, BeginReleaseImport
<1>12. QED BY <1>1, <1>2, <1>3, <1>4, <1>5, <1>6, <1>7, <1>8, <1>9, <1>10, <1>11
    DEF CredentialIInv

\* The credential's invariant is inductive.
LEMMA CredentialInvariant == CredentialSpec => []CredentialIInv
<1>1. CredentialInit => CredentialIInv
  <2> SUFFICES ASSUME CredentialInit PROVE CredentialIInv
    OBVIOUS
  <2>1. CredentialTypeOK
    <3>1. kept \in KeptRoots /\ kept.signed = [p \in KeyPurposes |-> NoMessage]
      BY DEF CredentialInit, KeptRoots, Optional
    <3>2. \A p \in {"ballot", "response", "target"} : kept.signed[p] = NoMessage
      BY <3>1 DEF KeyPurposes
    <3>3. cred \in Credentials
      BY DEF CredentialInit, Opened, Credentials, Optional
    <3>4. ballot \in BallotWorks
      BY CredentialAssumption DEF CredentialInit, NoBallotWork, BallotWorks, Optional
    <3>5. release \in ReleaseBodies
      BY CredentialAssumption DEF CredentialInit, NoRelease, ReleaseBodies, Optional
    <3>6. QED BY <3>1, <3>2, <3>3, <3>4, <3>5 DEF CredentialInit, CredentialTypeOK, Optional
  <2>2. RootRetains /\ OpenIsUnsigned /\ CloseRestored /\ NoBallotAfterResponse
        BY DEF CredentialInit, KeyPurposes, RootRetains, OpenIsUnsigned, CloseRestored,
       NoBallotAfterResponse
  <2>3. ResponseLists /\ LockAgrees /\ ProposalFollows /\ TargetAgrees
        BY DEF CredentialInit, Opened, KeyPurposes, ResponseLists, LockAgrees, ProposalFollows,
       TargetAgrees
  <2>4. ReadyIsVerified /\ SignedBodiesVerified
    BY DEF CredentialInit, NoBallotWork, NoRelease, ReadyIsVerified, SignedBodiesVerified
  <2>5. QED BY <2>1, <2>2, <2>3, <2>4 DEF CredentialIInv
<1>2. CredentialIInv /\ [CredentialNext]_credentialVars => CredentialIInv'
  <2> SUFFICES ASSUME CredentialIInv, [CredentialNext]_credentialVars PROVE CredentialIInv'
    OBVIOUS
  <2>1. CASE UNCHANGED credentialVars
    <3>1. /\ ballot \in BallotWorks /\ release \in ReleaseBodies /\ ReadyIsVerified
          /\ UNCHANGED <<ballot, release, cred>>
      BY <2>1 DEF CredentialIInv, CredentialTypeOK, credentialVars
    <3>2. ReadyIsVerified'
      BY <3>1 DEF ReadyIsVerified
    <3>3. QED BY <2>1, <3>1, <3>2, BodyWorkInvariant DEF credentialVars
  <2>2. CASE CredentialNext
    <3>1. CASE OpenVisit \/ BeginClose
      BY <3>1, OpenVisitInvariant, BeginCloseInvariant
    <3>2. CASE \/ DeliverKey \/ FinishBallotImport \/ FinishReleaseImport
               \/ \E b \in Ballots : BeginBallotImport(b)
               \/ \E n \in 0..BodyChunks, sound \in BOOLEAN :
                    PushBallotImport(n, sound) \/ PushReleaseImport(n, sound)
      BY <3>2, BallotImportInvariant, ReleaseImportInvariant
    <3>3. CASE SignBallot \/ \E b \in Ballots : CreateBallot(b)
      BY <3>3, SignBallotInvariant, CreateBallotInvariant
    <3>4. CASE \E i \in Intents : SignIntent(i) \/ LockIntent(i)
      BY <3>4, SignIntentInvariant, LockIntentInvariant
    <3>5. CASE \/ \E r \in Responses : SignResponse(r)
               \/ \E i \in Intents, r \in Responses : SignProposal(i, r)
      BY <3>5, SignResponseInvariant, SignProposalInvariant
    <3>6. CASE SignRelease \/ \E t \in Targets : SignTarget(t) \/ CreateRelease(t) \/ BeginReleaseImport(t)
            BY <3>6, SignReleaseInvariant, SignTargetInvariant, CreateReleaseInvariant,
         BeginReleaseImportInvariant
    <3>7. QED BY <2>2, <3>1, <3>2, <3>3, <3>4, <3>5, <3>6 DEF CredentialNext
  <2>3. QED BY <2>1, <2>2
<1>3. QED BY <1>1, <1>2, PTL DEF CredentialSpec

\* For any ballots, intents, targets and body sizes, a participant's key signs
\* one message of each purpose over all its visits (close-signing.rs,
\* target-signing.rs and release-signing.rs behind custody.rs).
THEOREM OneMessageIsSignedPerKey == CredentialSpec => []OneMessagePerKey
<1>1. CredentialIInv => OneMessagePerKey
  BY DEF CredentialIInv, RootRetains, OneMessagePerKey, Frames
<1>2. QED BY <1>1, CredentialInvariant, PTL

\* For any ballot and close times, a participant's response lists the ballot
\* it signs on time, also when the ballot is signed after the response.
THEOREM OwnBallotIsListed == CredentialSpec => []OwnBallotListed
<1>1. CredentialIInv => OwnBallotListed
  <2> SUFFICES ASSUME CredentialIInv, NEW f \in Frames("ballot"), NEW g \in Frames("response")
               PROVE  BallotTime[f.value] <= CloseTime[g.value.intent] => f.value \in g.value.listed
    BY DEF OwnBallotListed
  <2>1. f.value # NoMessage /\ g.value # NoMessage
    BY CredentialAssumption DEF Frames, CredentialIInv, CredentialTypeOK, SignedMessages
  <2>2. kept.signed["ballot"] = f.value /\ kept.signed["response"] = g.value
    BY DEF Frames, CredentialIInv, RootRetains
  <2>3. QED BY <2>1, <2>2 DEF CredentialIInv, ResponseLists
<1>2. QED BY <1>1, CredentialInvariant, PTL

\* A response answers the one locked intent, and a proposal is of the intent
\* and the response that the organizer itself signed, over all visits.
THEOREM MessagesAreChained == CredentialSpec => []MessagesChain
<1>1. CredentialIInv => MessagesChain
  <2> SUFFICES ASSUME CredentialIInv PROVE MessagesChain
    OBVIOUS
  <2>1. ASSUME NEW f \in frames
        PROVE  f.value # NoMessage /\ kept.signed[f.purpose] = f.value
    BY CredentialAssumption DEF CredentialIInv, CredentialTypeOK, SignedMessages, RootRetains
  <2>2. \A g \in Frames("response") : kept.lock = g.value.intent
    BY <2>1 DEF Frames, CredentialIInv, LockAgrees
  <2>3. \A f \in Frames("intent"), g \in Frames("response") : g.value.intent = f.value
    BY <2>1 DEF Frames, CredentialIInv, LockAgrees
  <2>4. ASSUME NEW h \in Frames("proposal")
        PROVE  /\ [purpose |-> "intent", value |-> h.value.intent, verified |-> TRUE] \in frames
               /\ [purpose |-> "response", value |-> h.value.response, verified |-> TRUE] \in frames
    <3>1. /\ h.value = [intent |-> kept.signed["intent"], response |-> kept.signed["response"]]
          /\ kept.signed["intent"] # NoMessage /\ kept.signed["response"] # NoMessage
      BY <2>1 DEF Frames, CredentialIInv, ProposalFollows
    <3>2. QED BY <3>1 DEF CredentialIInv, RootRetains
  <2>5. QED BY <2>2, <2>3, <2>4 DEF MessagesChain
<1>2. QED BY <1>1, CredentialInvariant, PTL

\* A participant that votes for a target releases no other one, whichever it
\* signs first and in whichever visits.
THEOREM OneTargetIsReleased == CredentialSpec => []OneTarget
<1>1. CredentialIInv => OneTarget
  <2> SUFFICES ASSUME CredentialIInv, NEW f \in Frames("target"), NEW g \in Frames("release")
               PROVE  f.value = g.value
    BY DEF OneTarget
  <2>1. f.value # NoMessage /\ g.value # NoMessage
    BY CredentialAssumption DEF Frames, CredentialIInv, CredentialTypeOK, SignedMessages
  <2>2. kept.signed["target"] = f.value /\ kept.signed["release"] = g.value
    BY DEF Frames, CredentialIInv, RootRetains
  <2>3. QED BY <2>1, <2>2 DEF CredentialIInv, TargetAgrees
<1>2. QED BY <1>1, CredentialInvariant, PTL

\* For any body size, what is signed was created in this visit or verified
\* complete and unaltered: no other body reaches a signature.
THEOREM BodiesAreVerified == CredentialSpec => []SignedBodiesVerified
<1>1. CredentialIInv => SignedBodiesVerified
  BY DEF CredentialIInv
<1>2. QED BY <1>1, CredentialInvariant, PTL

\* For any ballots, intents, targets and bodies, all that a credential signs in
\* whatever visits agrees.
THEOREM SignedMessagesAgree == CredentialSpec => []SignedAgree
<1>1. CredentialIInv => CredentialTypeOK
  BY DEF CredentialIInv
<1>2. QED
  BY <1>1, CredentialInvariant, OneMessageIsSignedPerKey, MessagesAreChained,
     OneTargetIsReleased, BodiesAreVerified, PTL DEF SignedAgree

====
