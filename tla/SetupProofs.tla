---- MODULE SetupProofs ----
(* Proofs about the setup stage, in six parts: the session that verifies a    *)
(* selection, for every set of offers; the agreement on one selection, for    *)
(* every roster; the offer that a participant prepares in private, for any    *)
(* number of records and visits; the enrollment that comes before them, for   *)
(* every set of purposes and of foreign enrollments; the roster, for any      *)
(* number of registrations and helpers; and the proof of an offer, for any    *)
(* size of its statement, its oracles and its checkpoints.                    *)
EXTENDS SetupSession, Setup, Contribution, Enrollment, Roster, SetupProver,
        FiniteSetTheorems, TLAPS

----
(* The session: the current selection, the work done for it, the offers that *)
(* were verified.                                                            *)

\* What makes the properties inductive: held offers are verified ones, and so are
\* the offers an aggregation knows or accepted and those a collection holds.
HeldValid ==
  /\ offers \subseteq Valid /\ committed \subseteq Valid /\ collection \subseteq Valid
  /\ aggregator.known \subseteq Valid /\ aggregator.accepted \subseteq Valid
  /\ aggregate \subseteq Valid
  /\ kept.collection \subseteq Valid

\* The inductive invariant.
SessionIInv == TypeOK /\ WorkBelongs /\ InputsVerified /\ VerifiedCertified /\ HeldValid

\* No selection is empty, so that None is none of them.
LEMMA SelectionNotNone == None \notin Selections
BY FS_EmptySet, SessionAssumption DEF Selections, None

\* Nothing is verified, selected or kept at first.
LEMMA SessionInit == Init => SessionIInv
<1> SUFFICES ASSUME Init PROVE SessionIInv
  OBVIOUS
<1>1. TypeOK
  BY DEF Init, TypeOK, NoAggregator, None
<1>2. WorkBelongs /\ InputsVerified /\ VerifiedCertified /\ HeldValid
  BY DEF Init, WorkBelongs, InputsVerified, VerifiedCertified, HeldValid, NoAggregator, None
<1> QED BY <1>1, <1>2 DEF SessionIInv

\* Every step preserves the invariant.
LEMMA SessionStep == SessionIInv /\ [Next]_vars => SessionIInv'
<1> SUFFICES ASSUME SessionIInv, [Next]_vars PROVE SessionIInv'
  OBVIOUS
<1> USE SelectionNotNone DEF None
<1>1. CASE BeginRoster
  <2>1. TypeOK'
    BY <1>1 DEF SessionIInv, BeginRoster, NoAggregator, TypeOK
  <2>2. WorkBelongs'
    BY <1>1 DEF SessionIInv, BeginRoster, NoAggregator, TypeOK, WorkBelongs
  <2>3. InputsVerified'
    BY <1>1 DEF SessionIInv, BeginRoster, NoAggregator, TypeOK, InputsVerified, HeldValid,
      WorkBelongs
  <2>4. VerifiedCertified'
    BY <1>1 DEF SessionIInv, BeginRoster, NoAggregator, TypeOK, VerifiedCertified, WorkBelongs
  <2>5. HeldValid'
    BY <1>1 DEF SessionIInv, BeginRoster, NoAggregator, TypeOK, HeldValid, InputsVerified,
      WorkBelongs
  <2> QED BY <2>1, <2>2, <2>3, <2>4, <2>5 DEF SessionIInv
<1>2. CASE FinishRoster
  <2>1. TypeOK'
    BY <1>2 DEF SessionIInv, FinishRoster, TypeOK
  <2>2. WorkBelongs'
    BY <1>2 DEF SessionIInv, FinishRoster, TypeOK, WorkBelongs
  <2>3. InputsVerified'
    BY <1>2 DEF SessionIInv, FinishRoster, TypeOK, InputsVerified, HeldValid, WorkBelongs
  <2>4. VerifiedCertified'
    BY <1>2 DEF SessionIInv, FinishRoster, TypeOK, VerifiedCertified, WorkBelongs
  <2>5. HeldValid'
    BY <1>2 DEF SessionIInv, FinishRoster, TypeOK, HeldValid, InputsVerified, WorkBelongs
  <2> QED BY <2>1, <2>2, <2>3, <2>4, <2>5 DEF SessionIInv
<1>3. ASSUME NEW o \in Offers, FinishOffer(o) PROVE SessionIInv'
  <2>1. TypeOK'
    BY <1>3, SessionAssumption DEF SessionIInv, FinishOffer, KeepOffer, TypeOK
  <2>2. WorkBelongs'
    BY <1>3, SessionAssumption DEF SessionIInv, FinishOffer, KeepOffer, TypeOK, WorkBelongs
  <2>3. InputsVerified'
    BY <1>3, SessionAssumption DEF SessionIInv, FinishOffer, KeepOffer, TypeOK,
      InputsVerified, HeldValid, WorkBelongs
  <2>4. VerifiedCertified'
    BY <1>3, SessionAssumption DEF SessionIInv, FinishOffer, KeepOffer, TypeOK,
      VerifiedCertified, WorkBelongs
  <2>5. HeldValid'
    BY <1>3, SessionAssumption DEF SessionIInv, FinishOffer, KeepOffer, TypeOK, HeldValid,
      InputsVerified, WorkBelongs
  <2> QED BY <2>1, <2>2, <2>3, <2>4, <2>5 DEF SessionIInv
<1>4. ASSUME NEW o \in Offers, FinishSelectedOffer(o) PROVE SessionIInv'
  <2>1. TypeOK'
    BY <1>4, SessionAssumption DEF SessionIInv, FinishSelectedOffer, KeepOffer, TypeOK
  <2>2. WorkBelongs'
    BY <1>4, SessionAssumption DEF SessionIInv, FinishSelectedOffer, KeepOffer, TypeOK,
      WorkBelongs
  <2>3. InputsVerified'
    BY <1>4, SessionAssumption DEF SessionIInv, FinishSelectedOffer, KeepOffer, TypeOK,
      InputsVerified, HeldValid, WorkBelongs
  <2>4. VerifiedCertified'
    BY <1>4, SessionAssumption DEF SessionIInv, FinishSelectedOffer, KeepOffer, TypeOK,
      VerifiedCertified, WorkBelongs
  <2>5. HeldValid'
    BY <1>4, SessionAssumption DEF SessionIInv, FinishSelectedOffer, KeepOffer, TypeOK,
      HeldValid, InputsVerified, WorkBelongs
  <2> QED BY <2>1, <2>2, <2>3, <2>4, <2>5 DEF SessionIInv
<1>5. ASSUME NEW o \in Offers, CollectOffer(o) PROVE SessionIInv'
  <2>1. TypeOK'
    BY <1>5, SessionAssumption DEF SessionIInv, CollectOffer, Session, TypeOK
  <2>2. WorkBelongs'
    BY <1>5, SessionAssumption DEF SessionIInv, CollectOffer, Session, TypeOK, WorkBelongs
  <2>3. InputsVerified'
    BY <1>5, SessionAssumption DEF SessionIInv, CollectOffer, Session, TypeOK, InputsVerified,
      HeldValid, WorkBelongs
  <2>4. VerifiedCertified'
    BY <1>5, SessionAssumption DEF SessionIInv, CollectOffer, Session, TypeOK,
      VerifiedCertified, WorkBelongs
  <2>5. HeldValid'
    BY <1>5, SessionAssumption DEF SessionIInv, CollectOffer, Session, TypeOK, HeldValid,
      InputsVerified, WorkBelongs
  <2> QED BY <2>1, <2>2, <2>3, <2>4, <2>5 DEF SessionIInv
<1>6. ASSUME NEW s \in Selections, ProposeSelection(s) PROVE SessionIInv'
  <2>1. TypeOK'
    BY <1>6 DEF SessionIInv, ProposeSelection, TypeOK
  <2>2. WorkBelongs'
    BY <1>6 DEF SessionIInv, ProposeSelection, TypeOK, WorkBelongs
  <2>3. InputsVerified'
    BY <1>6 DEF SessionIInv, ProposeSelection, TypeOK, InputsVerified, HeldValid, WorkBelongs
  <2>4. VerifiedCertified'
    BY <1>6 DEF SessionIInv, ProposeSelection, TypeOK, VerifiedCertified, WorkBelongs
  <2>5. HeldValid'
    BY <1>6 DEF SessionIInv, ProposeSelection, TypeOK, HeldValid, InputsVerified, WorkBelongs
  <2> QED BY <2>1, <2>2, <2>3, <2>4, <2>5 DEF SessionIInv
<1>7. ASSUME NEW s \in Selections, BeginSelection(s) PROVE SessionIInv'
  <2>1. TypeOK'
    BY <1>7 DEF SessionIInv, BeginSelection, InstallSelection, NoAggregator, TypeOK
  <2>2. WorkBelongs'
    BY <1>7 DEF SessionIInv, BeginSelection, InstallSelection, NoAggregator, TypeOK, WorkBelongs
  <2>3. InputsVerified'
    BY <1>7 DEF SessionIInv, BeginSelection, InstallSelection, NoAggregator, TypeOK,
      InputsVerified, HeldValid, WorkBelongs
  <2>4. VerifiedCertified'
    BY <1>7 DEF SessionIInv, BeginSelection, InstallSelection, NoAggregator, TypeOK,
      VerifiedCertified, WorkBelongs
  <2>5. HeldValid'
    BY <1>7 DEF SessionIInv, BeginSelection, InstallSelection, NoAggregator, TypeOK,
      HeldValid, InputsVerified, WorkBelongs
  <2> QED BY <2>1, <2>2, <2>3, <2>4, <2>5 DEF SessionIInv
<1>8. ASSUME NEW s \in Selections, BeginCertificate(s) PROVE SessionIInv'
  <2>1. TypeOK'
    BY <1>8 DEF SessionIInv, BeginCertificate, InstallSelection, NoAggregator, TypeOK
  <2>2. WorkBelongs'
    BY <1>8 DEF SessionIInv, BeginCertificate, InstallSelection, NoAggregator, TypeOK,
      WorkBelongs
  <2>3. InputsVerified'
    BY <1>8 DEF SessionIInv, BeginCertificate, InstallSelection, NoAggregator, TypeOK,
      InputsVerified, HeldValid, WorkBelongs
  <2>4. VerifiedCertified'
    BY <1>8 DEF SessionIInv, BeginCertificate, InstallSelection, NoAggregator, TypeOK,
      VerifiedCertified, WorkBelongs
  <2>5. HeldValid'
    BY <1>8 DEF SessionIInv, BeginCertificate, InstallSelection, NoAggregator, TypeOK,
      HeldValid, InputsVerified, WorkBelongs
  <2> QED BY <2>1, <2>2, <2>3, <2>4, <2>5 DEF SessionIInv
<1>9. CASE AggregateSelection
  <2>1. TypeOK'
    BY <1>9 DEF SessionIInv, AggregateSelection, Known, TypeOK
  <2>2. WorkBelongs'
    BY <1>9 DEF SessionIInv, AggregateSelection, Known, TypeOK, WorkBelongs
  <2>3. InputsVerified'
    BY <1>9 DEF SessionIInv, AggregateSelection, Known, TypeOK, InputsVerified, HeldValid,
      WorkBelongs
  <2>4. VerifiedCertified'
    BY <1>9 DEF SessionIInv, AggregateSelection, Known, TypeOK, VerifiedCertified, WorkBelongs
  <2>5. HeldValid'
    BY <1>9 DEF SessionIInv, AggregateSelection, Known, TypeOK, HeldValid, InputsVerified,
      WorkBelongs
  <2> QED BY <2>1, <2>2, <2>3, <2>4, <2>5 DEF SessionIInv
<1>10. CASE DiscardAggregation
  <2>1. TypeOK'
    BY <1>10 DEF SessionIInv, DiscardAggregation, NoAggregator, TypeOK
  <2>2. WorkBelongs'
    BY <1>10 DEF SessionIInv, DiscardAggregation, NoAggregator, TypeOK, WorkBelongs
  <2>3. InputsVerified'
    BY <1>10 DEF SessionIInv, DiscardAggregation, NoAggregator, TypeOK, InputsVerified,
      HeldValid, WorkBelongs
  <2>4. VerifiedCertified'
    BY <1>10 DEF SessionIInv, DiscardAggregation, NoAggregator, TypeOK, VerifiedCertified,
      WorkBelongs
  <2>5. HeldValid'
    BY <1>10 DEF SessionIInv, DiscardAggregation, NoAggregator, TypeOK, HeldValid,
      InputsVerified, WorkBelongs
  <2> QED BY <2>1, <2>2, <2>3, <2>4, <2>5 DEF SessionIInv
<1>11. CASE FinishSelection
  <2>1. TypeOK'
    BY <1>11 DEF SessionIInv, FinishSelection, NoAggregator, TypeOK
  <2>2. WorkBelongs'
    BY <1>11 DEF SessionIInv, FinishSelection, NoAggregator, TypeOK, WorkBelongs
  <2>3. InputsVerified'
    BY <1>11 DEF SessionIInv, FinishSelection, NoAggregator, TypeOK, InputsVerified,
      HeldValid, WorkBelongs
  <2>4. VerifiedCertified'
    BY <1>11 DEF SessionIInv, FinishSelection, NoAggregator, TypeOK, VerifiedCertified,
      WorkBelongs
  <2>5. HeldValid'
    BY <1>11 DEF SessionIInv, FinishSelection, NoAggregator, TypeOK, HeldValid,
      InputsVerified, WorkBelongs
  <2> QED BY <2>1, <2>2, <2>3, <2>4, <2>5 DEF SessionIInv
<1>12. CASE BeginCollection
  <2>1. TypeOK'
    BY <1>12 DEF SessionIInv, BeginCollection, Session, TypeOK
  <2>2. WorkBelongs'
    BY <1>12 DEF SessionIInv, BeginCollection, Session, TypeOK, WorkBelongs
  <2>3. InputsVerified'
    BY <1>12 DEF SessionIInv, BeginCollection, Session, TypeOK, InputsVerified, HeldValid,
      WorkBelongs
  <2>4. VerifiedCertified'
    BY <1>12 DEF SessionIInv, BeginCollection, Session, TypeOK, VerifiedCertified, WorkBelongs
  <2>5. HeldValid'
    BY <1>12 DEF SessionIInv, BeginCollection, Session, TypeOK, HeldValid, InputsVerified,
      WorkBelongs
  <2> QED BY <2>1, <2>2, <2>3, <2>4, <2>5 DEF SessionIInv
<1>13. CASE RetainCollection
  <2>1. TypeOK'
    BY <1>13 DEF SessionIInv, RetainCollection, Session, TypeOK
  <2>2. WorkBelongs'
    BY <1>13 DEF SessionIInv, RetainCollection, Session, TypeOK, WorkBelongs
  <2>3. InputsVerified'
    BY <1>13 DEF SessionIInv, RetainCollection, Session, TypeOK, InputsVerified, HeldValid,
      WorkBelongs
  <2>4. VerifiedCertified'
    BY <1>13 DEF SessionIInv, RetainCollection, Session, TypeOK, VerifiedCertified, WorkBelongs
  <2>5. HeldValid'
    BY <1>13 DEF SessionIInv, RetainCollection, Session, TypeOK, HeldValid, InputsVerified,
      WorkBelongs
  <2> QED BY <2>1, <2>2, <2>3, <2>4, <2>5 DEF SessionIInv
<1>14. CASE RestoreCollection
  <2>1. TypeOK'
    BY <1>14, SessionAssumption DEF SessionIInv, RestoreCollection, Session, TypeOK
  <2>2. WorkBelongs'
    BY <1>14, SessionAssumption DEF SessionIInv, RestoreCollection, Session, TypeOK, WorkBelongs
  <2>3. InputsVerified'
    BY <1>14, SessionAssumption DEF SessionIInv, RestoreCollection, Session, TypeOK,
      InputsVerified, HeldValid, WorkBelongs
  <2>4. VerifiedCertified'
    BY <1>14, SessionAssumption DEF SessionIInv, RestoreCollection, Session, TypeOK,
      VerifiedCertified, WorkBelongs
  <2>5. HeldValid'
    BY <1>14, SessionAssumption DEF SessionIInv, RestoreCollection, Session, TypeOK,
      HeldValid, InputsVerified, WorkBelongs
  <2> QED BY <2>1, <2>2, <2>3, <2>4, <2>5 DEF SessionIInv
<1>15. CASE SealCollection
  <2>1. TypeOK'
    BY <1>15 DEF SessionIInv, SealCollection, Session, TypeOK
  <2>2. WorkBelongs'
    BY <1>15 DEF SessionIInv, SealCollection, Session, TypeOK, WorkBelongs
  <2>3. InputsVerified'
    BY <1>15 DEF SessionIInv, SealCollection, Session, TypeOK, InputsVerified, HeldValid,
      WorkBelongs
  <2>4. VerifiedCertified'
    BY <1>15 DEF SessionIInv, SealCollection, Session, TypeOK, VerifiedCertified, WorkBelongs
  <2>5. HeldValid'
    BY <1>15 DEF SessionIInv, SealCollection, Session, TypeOK, HeldValid, InputsVerified,
      WorkBelongs
  <2> QED BY <2>1, <2>2, <2>3, <2>4, <2>5 DEF SessionIInv
<1>16. CASE BeginAggregate
  <2>1. TypeOK'
    BY <1>16 DEF SessionIInv, BeginAggregate, TypeOK
  <2>2. WorkBelongs'
    BY <1>16 DEF SessionIInv, BeginAggregate, TypeOK, WorkBelongs
  <2>3. InputsVerified'
    BY <1>16 DEF SessionIInv, BeginAggregate, TypeOK, InputsVerified, HeldValid, WorkBelongs
  <2>4. VerifiedCertified'
    BY <1>16 DEF SessionIInv, BeginAggregate, TypeOK, VerifiedCertified, WorkBelongs
  <2>5. HeldValid'
    BY <1>16 DEF SessionIInv, BeginAggregate, TypeOK, HeldValid, InputsVerified, WorkBelongs
  <2> QED BY <2>1, <2>2, <2>3, <2>4, <2>5 DEF SessionIInv
<1>17. CASE FinishAggregate
  <2>1. TypeOK'
    BY <1>17 DEF SessionIInv, FinishAggregate, TypeOK
  <2>2. WorkBelongs'
    BY <1>17 DEF SessionIInv, FinishAggregate, TypeOK, WorkBelongs
  <2>3. InputsVerified'
    BY <1>17 DEF SessionIInv, FinishAggregate, TypeOK, InputsVerified, HeldValid, WorkBelongs
  <2>4. VerifiedCertified'
    BY <1>17 DEF SessionIInv, FinishAggregate, TypeOK, VerifiedCertified, WorkBelongs
  <2>5. HeldValid'
    BY <1>17 DEF SessionIInv, FinishAggregate, TypeOK, HeldValid, InputsVerified, WorkBelongs
  <2> QED BY <2>1, <2>2, <2>3, <2>4, <2>5 DEF SessionIInv
<1>18. CASE FinishAggregateCache
  <2>1. TypeOK'
    BY <1>18 DEF SessionIInv, FinishAggregateCache, TypeOK
  <2>2. WorkBelongs'
    BY <1>18 DEF SessionIInv, FinishAggregateCache, TypeOK, WorkBelongs
  <2>3. InputsVerified'
    BY <1>18 DEF SessionIInv, FinishAggregateCache, TypeOK, InputsVerified, HeldValid,
      WorkBelongs
  <2>4. VerifiedCertified'
    BY <1>18 DEF SessionIInv, FinishAggregateCache, TypeOK, VerifiedCertified, WorkBelongs
  <2>5. HeldValid'
    BY <1>18 DEF SessionIInv, FinishAggregateCache, TypeOK, HeldValid, InputsVerified,
      WorkBelongs
  <2> QED BY <2>1, <2>2, <2>3, <2>4, <2>5 DEF SessionIInv
<1>19. CASE BeginEvaluationJob
  <2>1. TypeOK'
    BY <1>19 DEF SessionIInv, BeginEvaluationJob, TypeOK
  <2>2. WorkBelongs'
    BY <1>19 DEF SessionIInv, BeginEvaluationJob, TypeOK, WorkBelongs
  <2>3. InputsVerified'
    BY <1>19 DEF SessionIInv, BeginEvaluationJob, TypeOK, InputsVerified, HeldValid, WorkBelongs
  <2>4. VerifiedCertified'
    BY <1>19 DEF SessionIInv, BeginEvaluationJob, TypeOK, VerifiedCertified, WorkBelongs
  <2>5. HeldValid'
    BY <1>19 DEF SessionIInv, BeginEvaluationJob, TypeOK, HeldValid, InputsVerified, WorkBelongs
  <2> QED BY <2>1, <2>2, <2>3, <2>4, <2>5 DEF SessionIInv
<1>20. CASE NextJobOutput
  <2>1. TypeOK'
    BY <1>20 DEF SessionIInv, NextJobOutput, TypeOK
  <2>2. WorkBelongs'
    BY <1>20 DEF SessionIInv, NextJobOutput, TypeOK, WorkBelongs
  <2>3. InputsVerified'
    BY <1>20 DEF SessionIInv, NextJobOutput, TypeOK, InputsVerified, HeldValid, WorkBelongs
  <2>4. VerifiedCertified'
    BY <1>20 DEF SessionIInv, NextJobOutput, TypeOK, VerifiedCertified, WorkBelongs
  <2>5. HeldValid'
    BY <1>20 DEF SessionIInv, NextJobOutput, TypeOK, HeldValid, InputsVerified, WorkBelongs
  <2> QED BY <2>1, <2>2, <2>3, <2>4, <2>5 DEF SessionIInv
<1>21. ASSUME NEW p \in Members, AddEndorsement(p) PROVE SessionIInv'
  <2>1. TypeOK'
    BY <1>21 DEF SessionIInv, AddEndorsement, TypeOK
  <2>2. WorkBelongs'
    BY <1>21 DEF SessionIInv, AddEndorsement, TypeOK, WorkBelongs
  <2>3. InputsVerified'
    BY <1>21 DEF SessionIInv, AddEndorsement, TypeOK, InputsVerified, HeldValid, WorkBelongs
  <2>4. VerifiedCertified'
    BY <1>21 DEF SessionIInv, AddEndorsement, TypeOK, VerifiedCertified, WorkBelongs
  <2>5. HeldValid'
    BY <1>21 DEF SessionIInv, AddEndorsement, TypeOK, HeldValid, InputsVerified, WorkBelongs
  <2> QED BY <2>1, <2>2, <2>3, <2>4, <2>5 DEF SessionIInv
<1>22. CASE FinishCertificate
  <2>1. TypeOK'
    BY <1>22 DEF SessionIInv, FinishCertificate, TypeOK
  <2>2. WorkBelongs'
    BY <1>22 DEF SessionIInv, FinishCertificate, TypeOK, WorkBelongs
  <2>3. InputsVerified'
    BY <1>22 DEF SessionIInv, FinishCertificate, TypeOK, InputsVerified, HeldValid, WorkBelongs
  <2>4. VerifiedCertified'
    BY <1>22 DEF SessionIInv, FinishCertificate, TypeOK, VerifiedCertified, WorkBelongs
  <2>5. HeldValid'
    BY <1>22 DEF SessionIInv, FinishCertificate, TypeOK, HeldValid, InputsVerified, WorkBelongs
  <2> QED BY <2>1, <2>2, <2>3, <2>4, <2>5 DEF SessionIInv
<1>23. CASE RetainInputs
  <2>1. TypeOK'
    BY <1>23 DEF SessionIInv, RetainInputs, TypeOK
  <2>2. WorkBelongs'
    BY <1>23 DEF SessionIInv, RetainInputs, TypeOK, WorkBelongs
  <2>3. InputsVerified'
    BY <1>23 DEF SessionIInv, RetainInputs, TypeOK, InputsVerified, HeldValid, WorkBelongs
  <2>4. VerifiedCertified'
    BY <1>23 DEF SessionIInv, RetainInputs, TypeOK, VerifiedCertified, WorkBelongs
  <2>5. HeldValid'
    BY <1>23 DEF SessionIInv, RetainInputs, TypeOK, HeldValid, InputsVerified, WorkBelongs
  <2> QED BY <2>1, <2>2, <2>3, <2>4, <2>5 DEF SessionIInv
<1>24. CASE RestoreInputs
  <2>1. TypeOK'
    BY <1>24 DEF SessionIInv, RestoreInputs, NoAggregator, TypeOK
  <2>2. WorkBelongs'
    BY <1>24 DEF SessionIInv, RestoreInputs, NoAggregator, TypeOK, WorkBelongs
  <2>3. InputsVerified'
    BY <1>24 DEF SessionIInv, RestoreInputs, NoAggregator, TypeOK, InputsVerified, HeldValid,
      WorkBelongs
  <2>4. VerifiedCertified'
    BY <1>24 DEF SessionIInv, RestoreInputs, NoAggregator, TypeOK, VerifiedCertified,
      WorkBelongs
  <2>5. HeldValid'
    BY <1>24 DEF SessionIInv, RestoreInputs, NoAggregator, TypeOK, HeldValid, InputsVerified,
      WorkBelongs
  <2> QED BY <2>1, <2>2, <2>3, <2>4, <2>5 DEF SessionIInv
<1>25. CASE RetainSetup
  <2>1. TypeOK'
    BY <1>25 DEF SessionIInv, RetainSetup, TypeOK
  <2>2. WorkBelongs'
    BY <1>25 DEF SessionIInv, RetainSetup, TypeOK, WorkBelongs
  <2>3. InputsVerified'
    BY <1>25 DEF SessionIInv, RetainSetup, TypeOK, InputsVerified, HeldValid, WorkBelongs
  <2>4. VerifiedCertified'
    BY <1>25 DEF SessionIInv, RetainSetup, TypeOK, VerifiedCertified, WorkBelongs
  <2>5. HeldValid'
    BY <1>25 DEF SessionIInv, RetainSetup, TypeOK, HeldValid, InputsVerified, WorkBelongs
  <2> QED BY <2>1, <2>2, <2>3, <2>4, <2>5 DEF SessionIInv
<1>26. CASE RestoreSetup
  <2>1. TypeOK'
    BY <1>26 DEF SessionIInv, RestoreSetup, TypeOK
  <2>2. WorkBelongs'
    BY <1>26 DEF SessionIInv, RestoreSetup, TypeOK, WorkBelongs
  <2>3. InputsVerified'
    BY <1>26 DEF SessionIInv, RestoreSetup, TypeOK, InputsVerified, HeldValid, WorkBelongs
  <2>4. VerifiedCertified'
    BY <1>26 DEF SessionIInv, RestoreSetup, TypeOK, VerifiedCertified, WorkBelongs
  <2>5. HeldValid'
    BY <1>26 DEF SessionIInv, RestoreSetup, TypeOK, HeldValid, InputsVerified, WorkBelongs
  <2> QED BY <2>1, <2>2, <2>3, <2>4, <2>5 DEF SessionIInv
<1>27. CASE UNCHANGED vars
  BY <1>27 DEF vars, SessionIInv, TypeOK, WorkBelongs, InputsVerified, VerifiedCertified,
    HeldValid
<1> QED
  BY <1>1, <1>2, <1>3, <1>4, <1>5, <1>6, <1>7, <1>8, <1>9, <1>10, <1>11, <1>12, <1>13, <1>14,
    <1>15, <1>16, <1>17, <1>18, <1>19, <1>20, <1>21, <1>22, <1>23, <1>24, <1>25, <1>26, <1>27
    DEF Next

\* For every set of offers, selection size and order of calls: the work at hand
\* belongs to the current selection, every selection the participant accepts
\* consists of offers it verified, and the verified setup is the certified one.
THEOREM SessionSafe == Spec => [](WorkBelongs /\ InputsVerified /\ VerifiedCertified)
<1>1. SessionIInv => WorkBelongs /\ InputsVerified /\ VerifiedCertified
  BY DEF SessionIInv
<1> QED BY <1>1, SessionInit, SessionStep, PTL DEF Spec

\* The session's variables keep their types.
THEOREM SessionTypes == Spec => []TypeOK
<1>1. SessionIInv => TypeOK
  BY DEF SessionIInv
<1> QED BY <1>1, SessionInit, SessionStep, PTL DEF Spec

\* For every set of offers and every order of calls a session is sound: typed, of
\* one selection at a time, of verified offers, and done with the certified setup.
THEOREM SessionIsSound == Spec => []SessionSound
BY SessionSafe, SessionTypes, PTL DEF SessionSound

\* A verified setup is fixed until another roster is begun: the steps that could
\* set it find the certificate of the setup it already is.
LEMMA StepFixesSetup ==
  ASSUME SessionIInv, [Next]_vars PROVE verified # None /\ roster' => verified' = verified
<1> SUFFICES ASSUME verified # None, roster' PROVE verified' = verified
  OBVIOUS
<1>1. CASE FinishCertificate
  BY <1>1 DEF FinishCertificate, SessionIInv, VerifiedCertified
<1>2. CASE RestoreSetup
  BY <1>2 DEF RestoreSetup, SessionIInv, VerifiedCertified
<1>3. CASE BeginRoster
  BY <1>3 DEF BeginRoster
<1>4. CASE ~(FinishCertificate \/ RestoreSetup \/ BeginRoster)
  BY <1>4 DEF Next, vars, Session, FinishRoster, FinishOffer, FinishSelectedOffer, CollectOffer,
       ProposeSelection, BeginSelection, BeginCertificate, AggregateSelection,
       DiscardAggregation, FinishSelection, BeginCollection, RetainCollection,
       RestoreCollection, SealCollection, BeginAggregate, FinishAggregate,
       FinishAggregateCache, BeginEvaluationJob, NextJobOutput, AddEndorsement,
       RetainInputs, RestoreInputs, RetainSetup
<1> QED BY <1>1, <1>2, <1>3, <1>4

\* Whatever selections and certificates a visit meets, its verified setup never
\* changes.
THEOREM SetupNeverChanges == Spec => SetupFixed
<1>1. SessionIInv /\ [Next]_vars => [verified # None /\ roster' => verified' = verified]_vars
  BY StepFixesSetup
<1> QED BY <1>1, SessionInit, SessionStep, PTL DEF Spec, SetupFixed

----
(* The agreement: one certified selection, of offers that verify. *)

\* The thresholds of the roster.
LEMMA SetupThresholds ==
  /\ N \in Nat /\ F \in Nat /\ Q \in Nat
  /\ 3 * F < N
  /\ Q = N - F
  /\ IsFiniteSet(Honest) /\ IsFiniteSet(Corrupt)
  /\ Cardinality(Corrupt) \in Nat /\ Cardinality(Corrupt) <= F
  /\ Cardinality(Honest) = N - Cardinality(Corrupt)
<1>1. N \in Nat /\ N >= 3
  BY SetupAssumption, FS_CardinalityType DEF N
<1>2. F = (N - 1) \div 3
  BY <1>1 DEF F, MaximumCorruptParticipants
<1>3. F \in Nat /\ 3 * F < N
  BY <1>1, <1>2
<1>4. Q = N - F
  BY DEF Q, InventoryThreshold, F
<1>5. IsFiniteSet(Corrupt) /\ IsFiniteSet(Honest)
  BY SetupAssumption, FS_Subset, FS_Difference DEF Honest
<1>6. Cardinality(Corrupt) \in Nat /\ Cardinality(Corrupt) <= F
  BY <1>5, SetupAssumption, FS_CardinalityType
<1>7. Cardinality(Honest) = Cardinality(Participants) - Cardinality(Participants \cap Corrupt)
  BY SetupAssumption, FS_Difference DEF Honest
<1>8. Participants \cap Corrupt = Corrupt
  BY SetupAssumption
<1>9. Cardinality(Honest) = N - Cardinality(Corrupt)
  BY <1>7, <1>8 DEF N
<1>10. QED
  BY <1>1, <1>3, <1>4, <1>5, <1>6, <1>9

\* Two certified selections have an honest endorser in common.
LEMMA EndorsersMeet ==
  ASSUME NEW s, NEW t, Certified(s), Certified(t)
  PROVE  Endorsers(s) \cap Endorsers(t) # {}
<1>1. Endorsers(s) \subseteq Honest /\ Endorsers(t) \subseteq Honest
  BY DEF Endorsers
<1>2. Cardinality(Endorsers(s)) \in Nat /\ Cardinality(Endorsers(t)) \in Nat
  BY <1>1, SetupThresholds, FS_Subset, FS_CardinalityType
<1>3. /\ Cardinality(Endorsers(s)) >= Q - Cardinality(Corrupt)
      /\ Cardinality(Endorsers(t)) >= Q - Cardinality(Corrupt)
  BY <1>2, SetupThresholds DEF Certified
<1>4. Cardinality(Endorsers(s)) + Cardinality(Endorsers(t)) > Cardinality(Honest)
  BY <1>2, <1>3, SetupThresholds
<1>5. QED
  BY <1>1, <1>4, SetupThresholds, FS_MajoritiesIntersect

\* A published message stays published, so a certificate stays one.
LEMMA CertificateStays ==
  ASSUME published \subseteq published', NEW s, Certified(s)
  PROVE  Certified(s)'
<1>1. Endorsers(s) \subseteq Endorsers(s)' /\ Endorsers(s)' \subseteq Honest
  BY DEF Endorsers
<1>2. IsFiniteSet(Endorsers(s)')
  BY <1>1, SetupThresholds, FS_Subset
<1>3. /\ Cardinality(Endorsers(s)) \in Nat /\ Cardinality(Endorsers(s)') \in Nat
      /\ Cardinality(Endorsers(s)) <= Cardinality(Endorsers(s)')
  BY <1>1, <1>2, FS_Subset, FS_CardinalityType
<1>4. Authentic(s)'
  BY DEF Authentic, Certified
<1>5. Cardinality(Endorsers(s)') + Cardinality(Corrupt) >= Q
  BY <1>3, SetupThresholds DEF Certified
<1>6. QED
  BY <1>4, <1>5 DEF Certified

\* Nothing is signed, retained or published at first.
LEMMA SetupStarts == SetupInit => SetupIInv
<1> SUFFICES ASSUME SetupInit PROVE SetupIInv
  OBVIOUS
<1>1. SetupTypeOK
  BY DEF SetupInit, NoMessages, SetupTypeOK
<1>2. IntentsSingle /\ SignedProduced
  BY DEF SetupInit, NoMessages, IntentsSingle, SignedProduced
<1>3. SignaturesIntended /\ OneMessagePerPurpose /\ RetainedCertified
  BY DEF SetupInit, SignaturesIntended, OneMessagePerPurpose, RetainedCertified
<1>4. QED
  BY <1>1, <1>2, <1>3 DEF SetupIInv

\* What only moves the credential between its visits keeps everything.
LEMMA CredentialKeeps ==
  ASSUME SetupIInv, NEW p \in Honest,
         Open(p) \/ Retire(p) \/ \E u \in Purposes : Restore(p, u)
  PROVE  SetupIInv'
<1> USE DEF SetupIInv
<1>1. UNCHANGED <<intent, signed, retained, signatures, published>>
  BY DEF Open, Retire, Restore, journal
<1>2. /\ locked' \in [Honest -> SUBSET Purposes]
      /\ retired' \in [Honest -> BOOLEAN]
  <2>1. CASE Open(p)
    BY <2>1 DEF Open, SetupTypeOK, Unused
  <2>2. CASE Retire(p)
    BY <2>2 DEF Retire, SetupTypeOK
  <2>3. ASSUME NEW u \in Purposes, Restore(p, u)
        PROVE  locked' \in [Honest -> SUBSET Purposes] /\ retired' \in [Honest -> BOOLEAN]
    BY <2>3 DEF Restore, SetupTypeOK
  <2>4. QED
    BY <2>1, <2>2, <2>3
<1>3. /\ done' \in [Honest -> [Purposes -> SUBSET Proposable]]
      /\ \A q \in Honest, u \in Purposes : done'[q][u] \subseteq done[q][u] \cup signed[q][u]
  <2>1. CASE Open(p)
    BY <2>1 DEF Open, SetupTypeOK
  <2>2. CASE Retire(p)
    BY <2>2 DEF Retire, SetupTypeOK
  <2>3. ASSUME NEW u \in Purposes, Restore(p, u)
        PROVE  /\ done' \in [Honest -> [Purposes -> SUBSET Proposable]]
               /\ \A q \in Honest, v \in Purposes :
                    done'[q][v] \subseteq done[q][v] \cup signed[q][v]
    BY <2>3 DEF Restore, SetupTypeOK
  <2>4. QED
    BY <2>1, <2>2, <2>3
<1>4. SetupTypeOK'
  BY <1>1, <1>2, <1>3 DEF SetupTypeOK
<1>5. IntentsSingle' /\ SignaturesIntended' /\ OneMessagePerPurpose'
  BY <1>1 DEF IntentsSingle, SignaturesIntended, OneMessagePerPurpose
<1>6. SignedProduced'
  BY <1>1, <1>3 DEF SignedProduced, Message
<1>7. RetainedCertified'
  BY <1>1 DEF RetainedCertified, Certified, Authentic, Endorsers
<1>8. QED
  BY <1>4, <1>5, <1>6, <1>7

\* A message is retained only where none was, so that none was signed.
LEMMA IntendKeeps ==
  ASSUME SetupIInv, NEW p \in Honest, NEW u \in Purposes, NEW s \in Proposable,
         Intend(p, u, s)
  PROVE  SetupIInv'
<1> USE DEF SetupIInv
<1>1. /\ UNCHANGED <<signed, retained, locked, done, retired, signatures, published>>
      /\ intent' = [intent EXCEPT ![p][u] = {s}] /\ intent[p][u] = {}
      /\ s \in Sound
  BY DEF Intend, credential
<1>2. SetupTypeOK'
  BY <1>1 DEF SetupTypeOK
<1>3. IntentsSingle'
  BY <1>1 DEF IntentsSingle, SetupTypeOK
<1>4. SignaturesIntended'
  BY <1>1 DEF SignaturesIntended, SetupTypeOK
<1>5. OneMessagePerPurpose' /\ SignedProduced'
  BY <1>1 DEF OneMessagePerPurpose, SignedProduced, Message
<1>6. RetainedCertified'
  BY <1>1 DEF RetainedCertified, Certified, Authentic, Endorsers
<1>7. QED
  BY <1>2, <1>3, <1>4, <1>5, <1>6

\* A signature, also a repeated one, is of the retained message.
LEMMA SignKeeps ==
  ASSUME SetupIInv, NEW p \in Honest, NEW u \in Purposes, Sign(p, u)
  PROVE  SetupIInv'
<1> USE DEF SetupIInv
<1>1. PICK s \in intent[p][u] :
        /\ done' = [done EXCEPT ![p][u] = {s}]
        /\ signatures' = signatures \cup {Message(p, u, s)}
  BY DEF Sign
<1>2. /\ UNCHANGED <<intent, signed, retained, locked, retired, published>>
      /\ retained[p] = {}
  BY DEF Sign, journal
<1>3. s \in Proposable /\ s \in Sound
  BY DEF SetupTypeOK, IntentsSingle
<1>4. /\ Message(p, u, s) \in [member : Honest, purpose : Purposes, selection : Proposable]
      /\ Message(p, u, s).member = p /\ Message(p, u, s).purpose = u
      /\ Message(p, u, s).selection = s
  BY <1>3 DEF Message
<1>5. SetupTypeOK'
  BY <1>1, <1>2, <1>3, <1>4 DEF SetupTypeOK
<1>6. IntentsSingle'
  BY <1>2 DEF IntentsSingle
<1>7. SignaturesIntended'
  BY <1>1, <1>2, <1>3, <1>4 DEF SignaturesIntended
<1>8. SignedProduced'
  BY <1>1, <1>2 DEF SignedProduced, SetupTypeOK
<1>9. OneMessagePerPurpose'
  <2>1. ASSUME NEW m \in signatures, m.member = p, m.purpose = u
        PROVE  m.selection = s
    BY <1>2, <2>1 DEF SignaturesIntended, IntentsSingle
  <2>2. QED
    BY <1>1, <1>4, <2>1 DEF OneMessagePerPurpose
<1>10. RetainedCertified'
  BY <1>2 DEF RetainedCertified, Certified, Authentic, Endorsers
<1>11. QED
  BY <1>5, <1>6, <1>7, <1>8, <1>9, <1>10

\* The journal and the relay take only what was signed.
LEMMA CommitPublishKeeps ==
  ASSUME SetupIInv, NEW p \in Honest, NEW u \in Purposes, Commit(p, u) \/ Publish(p, u)
  PROVE  SetupIInv'
<1> USE DEF SetupIInv
<1>1. /\ UNCHANGED <<intent, retained, locked, done, retired, signatures>>
      /\ \/ signed' = [signed EXCEPT ![p][u] = done[p][u]]
         \/ UNCHANGED signed
  BY DEF Commit, Publish, journal, credential
<1>2. published \subseteq published' /\ published' \subseteq signatures
  BY DEF Commit, Publish, SignedProduced, SetupTypeOK
<1>3. /\ signed' \in [Honest -> [Purposes -> SUBSET Proposable]]
      /\ \A q \in Honest, v \in Purposes : signed'[q][v] \subseteq done[q][v] \cup signed[q][v]
  <2>1. CASE UNCHANGED signed
    BY <2>1 DEF SetupTypeOK
  <2>2. CASE signed' = [signed EXCEPT ![p][u] = done[p][u]]
    <3>1. /\ signed \in [Honest -> [Purposes -> SUBSET Proposable]]
          /\ done[p][u] \in SUBSET Proposable
      BY DEF SetupTypeOK
    <3>2. signed' \in [Honest -> [Purposes -> SUBSET Proposable]]
      BY <2>2, <3>1
    <3>3. ASSUME NEW q \in Honest, NEW v \in Purposes
          PROVE  signed'[q][v] \in {done[q][v], signed[q][v]}
      BY <2>2, <3>1
    <3>4. QED
      BY <3>2, <3>3
  <2>3. QED
    BY <1>1, <2>1, <2>2
<1>4. SetupTypeOK'
  BY <1>1, <1>2, <1>3 DEF SetupTypeOK
<1>5. IntentsSingle' /\ SignaturesIntended' /\ OneMessagePerPurpose'
  BY <1>1 DEF IntentsSingle, SignaturesIntended, OneMessagePerPurpose
<1>6. SignedProduced'
  BY <1>1, <1>3 DEF SignedProduced, Message
<1>7. RetainedCertified'
  BY <1>1, <1>2, CertificateStays DEF RetainedCertified
<1>8. QED
  BY <1>4, <1>5, <1>6, <1>7

\* A retained setup is certified; its member's journal is cleared, and its key
\* signs nothing more.
LEMMA RetainKeeps ==
  ASSUME SetupIInv, NEW p \in Honest, NEW s \in Proposable, RetainCertified(p, s)
  PROVE  SetupIInv'
<1> USE DEF SetupIInv
<1>1. /\ UNCHANGED <<locked, done, retired, signatures, published>>
      /\ Certified(s)
      /\ retained' = [retained EXCEPT ![p] = {s}]
      /\ intent' = [intent EXCEPT ![p] = [u \in Purposes |-> {}]]
      /\ signed' = [signed EXCEPT ![p] = [u \in Purposes |-> {}]]
  BY DEF RetainCertified, credential
<1>2. SetupTypeOK'
  BY <1>1 DEF SetupTypeOK
<1>3. IntentsSingle'
  BY <1>1 DEF IntentsSingle, SetupTypeOK
<1>4. SignaturesIntended'
  BY <1>1 DEF SignaturesIntended, SetupTypeOK
<1>5. SignedProduced' /\ OneMessagePerPurpose'
  BY <1>1 DEF SignedProduced, OneMessagePerPurpose, SetupTypeOK, Message
<1>6. RetainedCertified'
  <2>1. \A t : Certified(t) => Certified(t)'
    BY <1>1, CertificateStays
  <2>2. QED
    BY <1>1, <2>1 DEF RetainedCertified, SetupTypeOK
<1>7. QED
  BY <1>2, <1>3, <1>4, <1>5, <1>6

\* Every step of every honest member keeps the invariant.
LEMMA SetupSteps == SetupIInv /\ [SetupNext]_setupVars => SetupIInv'
<1> SUFFICES ASSUME SetupIInv, [SetupNext]_setupVars PROVE SetupIInv'
  OBVIOUS
<1>1. CASE SetupNext
  BY <1>1, CredentialKeeps, IntendKeeps, SignKeeps, CommitPublishKeeps, RetainKeeps
    DEF SetupNext
<1>2. CASE UNCHANGED setupVars
  <2>1. UNCHANGED <<intent, signed, retained, locked, done, retired, signatures, published>>
    BY <1>2 DEF setupVars, journal, credential
  <2>2. SetupTypeOK' /\ IntentsSingle' /\ SignaturesIntended' /\ OneMessagePerPurpose'
    BY <2>1 DEF SetupIInv, SetupTypeOK, IntentsSingle, SignaturesIntended, OneMessagePerPurpose
  <2>3. SignedProduced' /\ RetainedCertified'
    BY <2>1 DEF SetupIInv, SignedProduced, RetainedCertified, Certified, Authentic, Endorsers,
                Message
  <2>4. QED
    BY <2>2, <2>3 DEF SetupIInv
<1>3. QED
  BY <1>1, <1>2

\* The inductive invariant holds throughout, for every roster.
THEOREM SetupInvariant == SetupSpec => []SetupIInv
BY SetupStarts, SetupSteps, PTL DEF SetupSpec

\* No one-time key of an honest member signs two selections of a purpose,
\* however many visits end between its intent, its signature and its commit.
THEOREM OneMessageIsSigned == SetupSpec => []OneMessagePerPurpose
<1>1. SetupIInv => OneMessagePerPurpose
  BY DEF SetupIInv
<1>2. QED
  BY <1>1, SetupInvariant, PTL

\* For every roster with at most f corrupt participants one selection is
\* certified at most, whoever organizes.
THEOREM OneSetupIsCertified == SetupSpec => []OneSetup
<1>1. ASSUME SetupIInv, NEW s \in Proposable, NEW t \in Proposable, Certified(s), Certified(t)
      PROVE  s = t
  <2>1. PICK p \in Honest : p \in Endorsers(s) /\ p \in Endorsers(t)
    BY <1>1, EndorsersMeet DEF Endorsers
  <2>2. /\ Message(p, "endorsement", s) \in signatures
        /\ Message(p, "endorsement", t) \in signatures
    BY <1>1, <2>1 DEF Endorsers, SetupIInv, SetupTypeOK
  <2>3. QED
    BY <1>1, <2>2 DEF SetupIInv, OneMessagePerPurpose, Message
<1>2. SetupIInv => OneSetup
  BY <1>1 DEF OneSetup
<1>3. QED
  BY <1>2, SetupInvariant, PTL

\* For every roster a certified selection consists of offers that an honest
\* member verified.
THEOREM CertifiedIsVerified == SetupSpec => []CertifiedVerified
<1>1. ASSUME SetupIInv, NEW s \in Proposable, Certified(s)
      PROVE  s \in Sound
  <2>1. PICK p \in Honest : p \in Endorsers(s)
    BY <1>1, EndorsersMeet DEF Endorsers
  <2>2. Message(p, "endorsement", s) \in signatures
    BY <1>1, <2>1 DEF Endorsers, SetupIInv, SetupTypeOK
  <2>3. QED
    BY <1>1, <2>2 DEF SetupIInv, SignaturesIntended, Message
<1>2. SetupIInv => CertifiedVerified
  BY <1>1 DEF CertifiedVerified
<1>3. QED
  BY <1>2, SetupInvariant, PTL

\* For every roster all members that retain a setup retain the same one.
THEOREM MembersAgree == SetupSpec => []RetainedAgree
<1>1. SetupIInv /\ OneSetup => RetainedAgree
  BY DEF SetupIInv, RetainedCertified, OneSetup, RetainedAgree, SetupTypeOK
<1>2. QED
  BY <1>1, SetupInvariant, OneSetupIsCertified, PTL

\* For every roster each honest member stays with one proposal and one endorsement,
\* and with the setup that the others retain.
THEOREM MembersAreBound == SetupSpec => []MembersBound
<1>1. SetupIInv => SetupTypeOK
  BY DEF SetupIInv
<1>2. QED
  BY <1>1, SetupInvariant, OneMessageIsSigned, CertifiedIsVerified, MembersAgree, PTL
     DEF MembersBound

----
(* The private offer: what is stored is reproduced, and one offer is signed. *)

\* The lengths of the body and of the runs are positive.
LEMMA Lengths ==
  /\ BodyLength \in Nat \ {0}
  /\ \A kind : RunLength(kind) \in Nat \ {0}
BY ContributionAssumption DEF BodyLength, RunLength

\* A run stores each of its records once, and only those of its kind.
LEMMA RunNames ==
  ASSUME NEW kind \in {"generation", "continuation"}, NEW i \in 1..RunLength(kind)
  PROVE  /\ RunName(kind, i) \in Names
         /\ RunName(kind, i).kind = "proof" <=> kind = "continuation"
         /\ \A j \in 1..RunLength(kind) : RunName(kind, i) = RunName(kind, j) => i = j
<1> USE ContributionAssumption
<1>1. CASE kind = "continuation"
  BY <1>1 DEF RunLength, RunName, Name, Names
<1>2. CASE kind = "generation" /\ i <= Polynomials
  BY <1>2 DEF RunLength, RunName, Name, Names
<1>3. CASE kind = "generation" /\ ~(i <= Polynomials)
  BY <1>3 DEF RunLength, RunName, Name, Names
<1> QED
  BY <1>1, <1>2, <1>3

\* Every name is that of a record of one of the two runs.
LEMMA NamesOfRuns ==
  ASSUME NEW n \in Names
  PROVE  IF n.kind = "proof"
         THEN \E i \in 1..RunLength("continuation") : n = RunName("continuation", i)
         ELSE \E i \in 1..RunLength("generation") : n = RunName("generation", i)
<1> USE ContributionAssumption
<1>1. CASE n \in [kind : {"polynomial"}, index : 1..Polynomials]
  <2>1. n.index \in 1..RunLength("generation") /\ n = RunName("generation", n.index)
    BY <1>1 DEF RunLength, RunName, Name
  <2> QED
    BY <1>1, <2>1
<1>2. CASE n \in [kind : {"checkpoint"}, index : 1..Checkpoints]
  <2>1. /\ n.index + Polynomials \in 1..RunLength("generation")
        /\ n = RunName("generation", n.index + Polynomials)
    BY <1>2 DEF RunLength, RunName, Name
  <2> QED
    BY <1>2, <2>1
<1>3. CASE n \in [kind : {"proof"}, index : 1..Proofs]
  <2>1. n.index \in 1..RunLength("continuation") /\ n = RunName("continuation", n.index)
    BY <1>3 DEF RunLength, RunName, Name
  <2> QED
    BY <1>3, <2>1
<1> QED
  BY <1>1, <1>2, <1>3 DEF Names

\* A record of the retained body is listed, and holds the body's content.
LEMMA BodyStored ==
  ASSUME ContributionTypeOK, ListedStored, ~preparationRetired,
         root.phase \in {"body", "signingIntent"}, NEW n \in 1..BodyLength
  PROVE  store[BodyName(n)] = BodyContent(n)
<1> USE ContributionAssumption
<1>1. CASE n <= Polynomials
  <2>1. BodyName(n) \in Listed(root.phase) /\ BodyName(n).kind = "polynomial"
    BY <1>1 DEF BodyName, Name, Listed, Names
  <2> QED
    BY <1>1, <2>1 DEF ListedStored, BodyContent
<1>2. CASE ~(n <= Polynomials)
  <2>1. BodyName(n) \in Listed(root.phase) /\ BodyName(n).kind = "proof"
    BY <1>2 DEF BodyName, BodyLength, Name, Listed, Names
  <2> QED
    BY <1>2, <2>1 DEF ListedStored, BodyContent
<1> QED
  BY <1>1, <1>2

\* The whole body has two contents: the polynomials' and the proof's.
LEMMA WholeBody ==
  BodyPrefix(BodyLength) = {[generation |-> root.generation, continuation |-> Nothing],
                            [generation |-> root.generation, continuation |-> root.continuation]}
<1> USE ContributionAssumption
<1>1. /\ 1 \in 1..BodyLength /\ BodyLength \in 1..BodyLength
      /\ ~(BodyLength <= Polynomials) /\ 1 <= Polynomials
  BY DEF BodyLength
<1>2. BodyContent(1) = [generation |-> root.generation, continuation |-> Nothing]
  BY <1>1 DEF BodyContent
<1>3. BodyContent(BodyLength) = [generation |-> root.generation, continuation |-> root.continuation]
  BY <1>1 DEF BodyContent
<1>4. \A n \in 1..BodyLength : BodyContent(n) \in {BodyContent(1), BodyContent(BodyLength)}
  BY <1>2, <1>3 DEF BodyContent
<1>5. BodyPrefix(BodyLength) = {BodyContent(1), BodyContent(BodyLength)}
  BY <1>1, <1>4 DEF BodyPrefix
<1> QED
  BY <1>2, <1>3, <1>5

\* Nothing of the body has been read before it is complete.
LEMMA OfferEmpty ==
  ASSUME ContributionTypeOK, OfferInv, root.phase \notin {"body", "signingIntent", "signed"}
  PROVE  offer.pushed = 0 /\ offer.content = {} /\ offer.envelope = Nothing /\ signedEnvelopes = {}
<1>1. offer.pushed = 0
  BY Lengths DEF ContributionTypeOK, OfferInv
<1>2. BodyPrefix(0) = {}
  BY DEF BodyPrefix
<1> QED
  BY <1>1, <1>2, Lengths DEF OfferInv

\* A step that leaves the signer and the body's derivation alone preserves its part.
LEMMA OfferUntouched ==
  ASSUME ContributionTypeOK, OfferInv, offer' = offer, signedEnvelopes' = signedEnvelopes,
         \/ root.phase \notin {"body", "signingIntent", "signed"}
         \/ /\ root'.generation = root.generation /\ root'.continuation = root.continuation
            /\ root'.phase \in {"body", "signingIntent", "signed"}
            /\ root.phase \in {"signingIntent", "signed"} =>
                 root'.phase \in {"signingIntent", "signed"} /\ root'.envelope = root.envelope
  PROVE  OfferInv'
<1>1. CASE root.phase \notin {"body", "signingIntent", "signed"}
  <2>1. offer.pushed = 0 /\ offer.content = {} /\ offer.envelope = Nothing /\ signedEnvelopes = {}
    BY <1>1, OfferEmpty
  <2>2. BodyPrefix(0)' = {}
    BY DEF BodyPrefix
  <2> QED
    BY <2>1, <2>2 DEF OfferInv
<1>2. CASE root.phase \in {"body", "signingIntent", "signed"}
  <2>1. ASSUME NEW m PROVE BodyPrefix(m)' = BodyPrefix(m)
    BY <1>2 DEF BodyPrefix, BodyContent
  <2>2. BodyPrefix(offer.pushed)' = BodyPrefix(offer.pushed)
    BY <2>1
  <2> QED
    BY <1>2, <2>2 DEF OfferInv
<1> QED
  BY <1>1, <1>2

LEMMA ContributionInitInv == ContributionInit => ContributionIInv
<1> SUFFICES ASSUME ContributionInit PROVE ContributionIInv
  OBVIOUS
<1>1. ContributionTypeOK
  <2>1. 0 \in 0..BodyLength
    BY Lengths
  <2>2. offer \in [pushed : 0..BodyLength, content : SUBSET (Contents \cup {Nothing}),
                   envelope : Envelopes, signature : BOOLEAN]
    BY <2>1 DEF ContributionInit, NoOffer, Envelopes
  <2> QED
    BY <2>2 DEF ContributionInit, ContributionTypeOK, ContributionRoots, Seeds, Envelopes
<1>2. RootInv /\ RunInv /\ ProverInv /\ ProducedInv /\ ListedStored /\ StoreFree
  BY DEF ContributionInit, RootInv, RunInv, ProverInv, ProducedInv, ListedStored, Listed,
    StoreFree
<1>3. OfferInv
  BY DEF ContributionInit, OfferInv, NoOffer, BodyPrefix
<1> QED
  BY <1>1, <1>2, <1>3 DEF ContributionIInv

\* Committing the generation's intent preserves the invariant.
LEMMA BeginContributionInv ==
  ASSUME ContributionIInv, BeginContribution
  PROVE  ContributionIInv'
<1> USE DEF ContributionIInv, BeginContribution, instance
<1>1. ContributionTypeOK'
  <2>1. root' \in ContributionRoots
    BY DEF ContributionTypeOK, ContributionRoots, Seeds
  <2> QED
    BY <2>1 DEF ContributionTypeOK
<1>2. RootInv'
  BY ContributionAssumption DEF ContributionTypeOK, ContributionRoots, RootInv
<1>3. run = Nothing
  BY DEF ContributionTypeOK, ContributionRoots, RunInv
<1>4. RunInv' /\ StoreFree'
  BY <1>3 DEF RunInv, StoreFree
<1>5. ProverInv' /\ ProducedInv' /\ ListedStored'
  BY DEF ContributionTypeOK, ContributionRoots, ProverInv, ProducedInv, ListedStored, Listed
<1>6. OfferInv'
  BY OfferUntouched
<1> QED
  BY <1>1, <1>2, <1>4, <1>5, <1>6

\* Starting the generation from an emptied store preserves the invariant.
LEMMA GenerateInv ==
  ASSUME ContributionIInv, Generate
  PROVE  ContributionIInv'
<1> USE DEF ContributionIInv, Generate
<1>1. /\ root.seed \in Nat /\ root.seed # drawn
  BY ContributionAssumption DEF ContributionTypeOK, ContributionRoots, Seeds, RootInv
<1>2. /\ run' = [kind |-> "generation", seed |-> root.seed, next |-> 1]
      /\ offer = NoOffer /\ ~preparationRetired
      /\ drawn' = drawn + 0
      /\ UNCHANGED <<root, preparationRetired, prover, offer, stopped, visits, produced, signedEnvelopes>>
  BY <1>1 DEF StartRun, InstalledSeed
<1>3. store' = [n \in Names |-> Nothing]
  BY DEF StartRun, Discarded, Listed
<1>4. ContributionTypeOK'
  BY <1>1, <1>2, <1>3 DEF ContributionTypeOK
<1>5. RootInv' /\ ProverInv' /\ ProducedInv'
  BY <1>2 DEF ContributionTypeOK, RootInv, ProverInv, ProducedInv
<1>6. RunInv'
  BY <1>2, Lengths DEF RunInv
<1>7. OfferInv'
  BY <1>2, OfferUntouched
<1>8. ListedStored'
  BY <1>2 DEF ListedStored, Listed
<1>9. StoreFree'
  BY <1>2, <1>3, RunNames DEF StoreFree
<1> QED
  BY <1>4, <1>5, <1>6, <1>7, <1>8, <1>9

\* Committing the continuation's intent preserves the invariant.
LEMMA BeginContinuationInv ==
  ASSUME ContributionIInv, BeginContinuation
  PROVE  ContributionIInv'
<1> USE DEF ContributionIInv, BeginContinuation, instance
<1>1. ContributionTypeOK'
  <2>1. root' \in ContributionRoots
    BY DEF ContributionTypeOK, ContributionRoots, Seeds
  <2> QED
    BY <2>1 DEF ContributionTypeOK
<1>2. RootInv'
  BY ContributionAssumption DEF ContributionTypeOK, ContributionRoots, RootInv
<1>3. run = Nothing
  BY DEF ContributionTypeOK, ContributionRoots, RunInv
<1>4. RunInv' /\ StoreFree'
  BY <1>3 DEF RunInv, StoreFree
<1>5. ProverInv' /\ ProducedInv' /\ ListedStored'
  BY DEF ContributionTypeOK, ContributionRoots, ProverInv, ProducedInv, ListedStored, Listed
<1>6. OfferInv'
  BY OfferUntouched
<1> QED
  BY <1>1, <1>2, <1>4, <1>5, <1>6

\* Starting the continuation, with no proof stored, preserves the invariant.
LEMMA ContinueInv ==
  ASSUME ContributionIInv, Continue
  PROVE  ContributionIInv'
<1> USE DEF ContributionIInv, Continue
<1>1. /\ root.seed \in Nat /\ root.seed # drawn
  BY ContributionAssumption DEF ContributionTypeOK, ContributionRoots, Seeds, RootInv
<1>2. /\ run' = [kind |-> "continuation", seed |-> root.seed, next |-> 1]
      /\ offer = NoOffer /\ ~preparationRetired
      /\ drawn' = drawn + 0
      /\ UNCHANGED <<root, preparationRetired, prover, offer, stopped, visits, produced, signedEnvelopes>>
  BY <1>1 DEF StartRun, InstalledSeed
<1>3. store' = [n \in Names |-> IF n.kind # "proof" THEN store[n] ELSE Nothing]
  BY DEF StartRun, Discarded, Listed
<1>4. ContributionTypeOK'
  BY <1>1, <1>2, <1>3 DEF ContributionTypeOK
<1>5. RootInv' /\ ProverInv' /\ ProducedInv'
  BY <1>2 DEF ContributionTypeOK, RootInv, ProverInv, ProducedInv
<1>6. RunInv'
  BY <1>2, Lengths DEF RunInv
<1>7. OfferInv'
  BY <1>2, OfferUntouched
<1>8. ListedStored'
  BY <1>2, <1>3 DEF ListedStored, Listed
<1>9. StoreFree'
  BY <1>2, <1>3, RunNames DEF StoreFree
<1> QED
  BY <1>4, <1>5, <1>6, <1>7, <1>8, <1>9

\* Storing a record of a run preserves the invariant: no root lists it yet.
LEMMA StoreRecordInv ==
  ASSUME ContributionIInv, StoreRecord
  PROVE  ContributionIInv'
<1> DEFINE k == run.kind
           n == RunName(k, run.next)
           content == Derived(run)
<1> USE DEF ContributionIInv
<1>1. /\ run # Nothing /\ k \in {"generation", "continuation"} /\ run.seed \in Nat
      /\ run.next \in 1..RunLength(k)
      /\ run \in [kind : {"generation", "continuation"}, seed : Nat, next : Nat \ {0}]
  BY Lengths DEF StoreRecord, ContributionTypeOK
<1>2. /\ store' = [store EXCEPT ![n] = content]
      /\ produced' = produced \cup {[name |-> n, content |-> content]}
      /\ run' = [run EXCEPT !.next = @ + 1]
      /\ UNCHANGED <<root, preparationRetired, prover, offer, stopped, visits, drawn, signedEnvelopes>>
  BY DEF StoreRecord
<1>3. /\ root.phase = IF k = "generation" THEN "generationIntent" ELSE "continuationIntent"
      /\ run.seed = root.seed /\ ~preparationRetired /\ offer = NoOffer
      /\ k = "continuation" => prover # Nothing
  BY <1>1 DEF RunInv
<1>4. /\ n \in Names /\ (n.kind = "proof" <=> k = "continuation")
      /\ \A j \in 1..RunLength(k) : n = RunName(k, j) => run.next = j
  BY <1>1, RunNames
<1>5. content = [generation |-> IF k = "generation" THEN root.seed ELSE root.generation,
                 continuation |-> IF k = "generation" THEN Nothing ELSE root.seed]
  BY <1>1, <1>3 DEF Derived, ProverInv
<1>6. content \in Contents
  BY <1>5 DEF Contents, ContributionTypeOK, ContributionRoots, Seeds
<1> HIDE DEF n, content
<1>7. ContributionTypeOK'
  <2>1. run' \in [kind : {"generation", "continuation"}, seed : Nat, next : Nat \ {0}]
    BY <1>1, <1>2
  <2>2. produced' \subseteq [name : Names, content : Contents]
    BY <1>2, <1>4, <1>6 DEF ContributionTypeOK
  <2>3. store' \in [Names -> Contents \cup {Nothing}]
    BY <1>2, <1>6 DEF ContributionTypeOK
  <2> QED
    BY <1>2, <2>1, <2>2, <2>3 DEF ContributionTypeOK
<1>8. RootInv' /\ ProverInv'
  BY <1>2 DEF RootInv, ProverInv
<1>9. run'.kind = k /\ run'.seed = run.seed /\ run'.next = run.next + 1 /\ Derived(run)' = content
  BY <1>1, <1>2 DEF Derived, content
<1>10. RunInv'
  <2>1. ASSUME NEW i \in 1..(run'.next - 1) PROVE store'[RunName(k, i)] = content
    <3>1. i \in 1..RunLength(k) /\ RunName(k, i) \in Names
      BY <1>1, <1>9, Lengths, RunNames
    <3>2. CASE i = run.next
      BY <1>2, <1>4, <3>2 DEF n, ContributionTypeOK
    <3>3. CASE i # run.next
      <4>1. i \in 1..(run.next - 1) /\ n # RunName(k, i)
        BY <1>1, <1>4, <1>9, <3>1, <3>3
      <4>2. store[RunName(k, i)] = content
        BY <1>1, <4>1 DEF RunInv, content
      <4> QED
        BY <1>2, <3>1, <4>1, <4>2 DEF ContributionTypeOK
    <3> QED
      BY <3>2, <3>3
  <2>2. run'.next <= RunLength(k) + 1
    BY <1>1, <1>9, Lengths
  <2> QED
    BY <1>2, <1>3, <1>9, <2>1, <2>2 DEF RunInv
<1>11. ProducedInv'
  <2>1. \A r \in produced' : r \in produced \/ (r.name = n /\ r.content = content)
    BY <1>2
  <2>2. IF n.kind = "proof"
        THEN /\ root.phase = "continuationIntent"
             /\ content = [generation |-> root.generation, continuation |-> root.seed]
        ELSE /\ root.phase = "generationIntent"
             /\ content = [generation |-> root.seed, continuation |-> Nothing]
    BY <1>1, <1>3, <1>4, <1>5
  <2> QED
    BY <1>2, <2>1, <2>2 DEF ProducedInv
<1>12. OfferInv'
  BY <1>2, <1>3, OfferUntouched
<1>13. ListedStored'
  <2>1. n \notin Listed(root.phase)
    <3>1. CASE k = "generation"
      BY <1>3, <1>4, <3>1 DEF Listed
    <3>2. CASE k = "continuation"
      BY <1>3, <1>4, <3>2 DEF Listed
    <3> QED
      BY <1>1, <3>1, <3>2
  <2>2. \A m \in Listed(root.phase) : m \in Names /\ store'[m] = store[m]
    BY <1>2, <2>1 DEF Listed, ContributionTypeOK
  <2> QED
    BY <1>2, <2>2 DEF ListedStored
<1>14. StoreFree'
  <2>1. ASSUME NEW i \in run'.next..RunLength(k) PROVE store'[RunName(k, i)] = Nothing
    <3>1. i \in 1..RunLength(k) /\ i \in run.next..RunLength(k) /\ i # run.next
      BY <1>1, <1>9, Lengths
    <3>2. RunName(k, i) \in Names /\ n # RunName(k, i)
      BY <1>1, <1>4, <3>1, RunNames
    <3> QED
      BY <1>1, <1>2, <3>1, <3>2 DEF StoreFree, ContributionTypeOK
  <2> QED
    BY <1>9, <2>1 DEF StoreFree
<1> QED
  BY <1>7, <1>8, <1>10, <1>11, <1>12, <1>13, <1>14

\* Committing a complete run preserves the invariant: all it made is stored.
LEMMA CommitRunInv ==
  ASSUME ContributionIInv, CommitRun
  PROVE  ContributionIInv'
<1> USE DEF ContributionIInv
<1>1. /\ run # Nothing /\ run.kind \in {"generation", "continuation"} /\ run.seed \in Nat
      /\ run.next \in Nat /\ run.next > RunLength(run.kind)
      /\ run.seed # Nothing
  BY ContributionAssumption DEF CommitRun, Complete, ContributionTypeOK
<1>2. /\ root.phase = IF run.kind = "generation" THEN "generationIntent" ELSE "continuationIntent"
      /\ run.seed = root.seed /\ ~preparationRetired /\ offer = NoOffer
      /\ run.kind = "continuation" => prover # Nothing /\ prover = root.generation
  BY <1>1 DEF RunInv, ProverInv
<1>3. \A i \in 1..RunLength(run.kind) : store[RunName(run.kind, i)] = Derived(run)
  BY <1>1, Lengths DEF RunInv
<1>4. /\ run' = Nothing
      /\ UNCHANGED <<preparationRetired, offer, stopped, visits, drawn, produced, signedEnvelopes>>
  BY DEF CommitRun, history
<1>5. RunInv' /\ StoreFree' /\ OfferInv'
  BY <1>2, <1>4, OfferUntouched DEF RunInv, StoreFree
<1>6. CASE run.kind = "generation"
  <2>1. /\ root' = [root EXCEPT !.phase = "checkpoint", !.seed = Nothing, !.generation = run.seed]
        /\ prover' = run.seed /\ store' = store
    BY <1>6 DEF CommitRun
  <2>2. root' \in ContributionRoots
    BY <1>1, <2>1 DEF ContributionTypeOK, ContributionRoots, Seeds
  <2>3. ContributionTypeOK'
    BY <1>1, <1>4, <2>1, <2>2 DEF ContributionTypeOK, Seeds
  <2>4. RootInv' /\ ProverInv'
    BY <1>1, <1>2, <1>6, <2>1 DEF ContributionTypeOK, ContributionRoots, RootInv, ProverInv
  <2>5. ProducedInv'
    BY <1>1, <1>2, <1>4, <1>6, <2>1 DEF ContributionTypeOK, ContributionRoots, ProducedInv
  <2>6. ListedStored'
    <3>1. ASSUME NEW n \in Names, n.kind # "proof"
          PROVE  store[n] = [generation |-> run.seed, continuation |-> Nothing]
      BY <1>3, <1>6, <3>1, NamesOfRuns DEF Derived
    <3>2. root'.phase = "checkpoint" /\ root'.generation = run.seed
      BY <2>1 DEF ContributionTypeOK, ContributionRoots
    <3> QED
      BY <2>1, <3>1, <3>2 DEF ListedStored, Listed
  <2> QED
    BY <1>5, <2>3, <2>4, <2>5, <2>6
<1>7. CASE run.kind = "continuation"
  <2>1. /\ root' = [root EXCEPT !.phase = "body", !.seed = Nothing, !.continuation = run.seed]
        /\ prover' = Nothing
        /\ store' = [n \in Names |-> IF n.kind = "checkpoint" THEN Nothing ELSE store[n]]
    BY <1>7 DEF CommitRun
  <2>2. root' \in ContributionRoots
    BY <1>1, <2>1 DEF ContributionTypeOK, ContributionRoots, Seeds
  <2>3. ContributionTypeOK'
    BY <1>4, <2>1, <2>2 DEF ContributionTypeOK, Seeds
  <2>4. RootInv' /\ ProverInv'
    BY <1>1, <1>2, <1>7, <2>1 DEF ContributionTypeOK, ContributionRoots, RootInv, ProverInv
  <2>5. ProducedInv'
    BY <1>1, <1>2, <1>4, <1>7, <2>1 DEF ContributionTypeOK, ContributionRoots, ProducedInv
  <2>6. ListedStored'
    <3>1. ASSUME NEW n \in Names, n.kind = "proof"
          PROVE  store[n] = [generation |-> root.generation, continuation |-> run.seed]
      BY <1>2, <1>3, <1>7, <3>1, NamesOfRuns DEF Derived
    <3>2. ASSUME NEW n \in Names, n.kind = "polynomial"
          PROVE  store[n] = [generation |-> root.generation, continuation |-> Nothing]
      BY <1>2, <1>7, <3>2 DEF ListedStored, Listed
    <3>3. /\ root'.phase = "body" /\ root'.generation = root.generation
          /\ root'.continuation = run.seed
      BY <2>1 DEF ContributionTypeOK, ContributionRoots
    <3> QED
      BY <2>1, <3>1, <3>2, <3>3 DEF ListedStored, Listed
  <2> QED
    BY <1>5, <2>3, <2>4, <2>5, <2>6
<1> QED
  BY <1>1, <1>6, <1>7

\* A failed run, which leaves its records in the store, preserves the invariant.
LEMMA FailInv ==
  ASSUME ContributionIInv, Fail
  PROVE  ContributionIInv'
<1> USE DEF ContributionIInv, Fail, durable, history
<1>1. ContributionTypeOK'
  BY DEF ContributionTypeOK, Seeds
<1>2. root.phase \notin {"body", "signingIntent", "signed"}
  BY DEF ContributionTypeOK, RunInv
<1>3. OfferInv'
  BY <1>2, OfferUntouched
<1>4. RootInv' /\ RunInv' /\ ProverInv' /\ ProducedInv' /\ ListedStored' /\ StoreFree'
  BY DEF RootInv, RunInv, ProverInv, ProducedInv, ListedStored, StoreFree
<1> QED
  BY <1>1, <1>3, <1>4

\* The listed checkpoint resumes the prover of the root's own generation.
LEMMA RestoreCheckpointInv ==
  ASSUME ContributionIInv, RestoreCheckpoint
  PROVE  ContributionIInv'
<1> USE DEF ContributionIInv
<1>1. /\ root.phase \in {"checkpoint", "continuationIntent"} /\ ~preparationRetired
      /\ run = Nothing
      /\ UNCHANGED <<root, store, preparationRetired, run, offer, stopped, visits, drawn, produced,
                     signedEnvelopes>>
  BY DEF RestoreCheckpoint, durable, history
<1>2. PICK g \in 0..drawn :
        /\ \A i \in 1..Checkpoints : store[Name("checkpoint", i)] =
             [generation |-> g, continuation |-> Nothing]
        /\ prover' = g
  BY DEF RestoreCheckpoint
<1>3. Name("checkpoint", 1) \in Listed(root.phase) /\ 1 \in 1..Checkpoints
  BY <1>1, ContributionAssumption DEF Name, Listed, Names
<1>4. g = root.generation
  <2>1. store[Name("checkpoint", 1)] = [generation |-> g, continuation |-> Nothing]
    BY <1>2, <1>3
  <2>2. store[Name("checkpoint", 1)] = [generation |-> root.generation, continuation |-> Nothing]
    BY <1>1, <1>3 DEF ListedStored, Name
  <2>3. [generation |-> g, continuation |-> Nothing].generation =
          [generation |-> root.generation, continuation |-> Nothing].generation
    BY <2>1, <2>2
  <2> QED
    BY <2>3
<1>5. ContributionTypeOK'
  BY <1>1, <1>2 DEF ContributionTypeOK, Seeds
<1>6. ProverInv'
  BY <1>1, <1>2, <1>4 DEF ProverInv
<1>7. OfferInv'
  BY <1>1, OfferUntouched
<1>8. RootInv' /\ RunInv' /\ ProducedInv' /\ ListedStored' /\ StoreFree'
  BY <1>1 DEF RootInv, RunInv, ProducedInv, ListedStored, StoreFree
<1> QED
  BY <1>5, <1>6, <1>7, <1>8

\* Reading a record of the retained body preserves the invariant.
LEMMA PushBodyInv ==
  ASSUME ContributionIInv, PushBody
  PROVE  ContributionIInv'
<1> USE DEF ContributionIInv
<1> DEFINE m == offer.pushed
<1>1. /\ root.phase \in {"body", "signingIntent"} /\ ~preparationRetired /\ run = Nothing
      /\ m \in Nat /\ m < BodyLength
      /\ UNCHANGED <<root, store, preparationRetired, run, prover, stopped, visits, drawn, produced,
                     signedEnvelopes>>
  BY Lengths DEF PushBody, durable, history, ContributionTypeOK
<1>2. store[BodyName(m + 1)] = BodyContent(m + 1)
  BY <1>1, Lengths, BodyStored
<1>3. offer' = [offer EXCEPT !.pushed = m + 1, !.content = @ \cup {BodyContent(m + 1)}]
  BY <1>2 DEF PushBody
<1>4. /\ offer'.pushed = m + 1 /\ offer'.content = offer.content \cup {BodyContent(m + 1)}
      /\ offer'.envelope = offer.envelope
  BY <1>3 DEF ContributionTypeOK
<1>5. BodyPrefix(offer.pushed)' = BodyPrefix(m) \cup {BodyContent(m + 1)}
  <2>1. 1..(m + 1) = (1..m) \cup {m + 1}
    BY <1>1
  <2>2. BodyPrefix(m + 1) = BodyPrefix(m) \cup {BodyContent(m + 1)}
    BY <2>1 DEF BodyPrefix
  <2>3. ASSUME NEW i PROVE BodyPrefix(i)' = BodyPrefix(i)
    BY <1>1 DEF BodyPrefix, BodyContent
  <2>4. BodyPrefix(offer.pushed)' = BodyPrefix(m + 1)
    BY <1>4, <2>3
  <2> QED
    BY <2>2, <2>4
<1>6. offer.envelope = Nothing
  BY <1>1, Lengths DEF OfferInv
<1>7. OfferInv'
  <2>1. offer'.content = BodyPrefix(offer.pushed)'
    BY <1>4, <1>5 DEF OfferInv
  <2> QED
    BY <1>1, <1>4, <1>6, <2>1 DEF OfferInv
<1>8. ContributionTypeOK'
  <2>1. BodyContent(m + 1) \in Contents
    BY DEF BodyContent, Contents, Seeds, ContributionTypeOK, ContributionRoots
  <2>2. offer' \in [pushed : 0..BodyLength, content : SUBSET (Contents \cup {Nothing}),
                    envelope : Envelopes, signature : BOOLEAN]
    <3>1. m + 1 \in 0..BodyLength
      BY <1>1, Lengths
    <3> QED
      BY <1>3, <2>1, <3>1 DEF ContributionTypeOK
  <2> QED
    BY <1>1, <2>2 DEF ContributionTypeOK
<1>9. RootInv' /\ RunInv' /\ ProverInv' /\ ProducedInv' /\ ListedStored' /\ StoreFree'
  BY <1>1 DEF RootInv, RunInv, ProverInv, ProducedInv, ListedStored, StoreFree
<1> QED
  BY <1>7, <1>8, <1>9

\* Finishing the body preserves the invariant.
LEMMA FinishBodyInv ==
  ASSUME ContributionIInv, FinishBody
  PROVE  ContributionIInv'
<1> USE DEF ContributionIInv
<1>1. /\ offer.pushed = BodyLength /\ offer' = [offer EXCEPT !.envelope = offer.content]
      /\ UNCHANGED <<root, store, preparationRetired, run, prover, stopped, visits, drawn, produced,
                     signedEnvelopes>>
  BY DEF FinishBody, durable, history
<1>2. ContributionTypeOK'
  BY <1>1 DEF ContributionTypeOK, Envelopes
<1>3. BodyPrefix(BodyLength)' = BodyPrefix(BodyLength)
  BY <1>1 DEF BodyPrefix, BodyContent
<1>4. OfferInv'
  BY <1>1, <1>3 DEF OfferInv, ContributionTypeOK
<1>5. run = Nothing
  BY <1>1, Lengths DEF RunInv, NoOffer
<1>6. RootInv' /\ RunInv' /\ ProverInv' /\ ProducedInv' /\ ListedStored' /\ StoreFree'
  BY <1>1, <1>5 DEF RootInv, RunInv, ProverInv, ProducedInv, ListedStored, StoreFree
<1> QED
  BY <1>2, <1>4, <1>6

\* Retaining the envelope of the whole body preserves the invariant.
LEMMA CommitSigningIntentInv ==
  ASSUME ContributionIInv, CommitSigningIntent
  PROVE  ContributionIInv'
<1> USE DEF ContributionIInv
<1>1. /\ root.phase = "body" /\ offer.envelope # Nothing
      /\ root' = [root EXCEPT !.phase = "signingIntent", !.envelope = offer.envelope]
      /\ UNCHANGED <<store, preparationRetired, run, prover, offer, stopped, visits, drawn, produced,
                     signedEnvelopes>>
  BY DEF CommitSigningIntent, instance, history
<1>2. offer.envelope = {[generation |-> root.generation, continuation |-> Nothing],
                        [generation |-> root.generation, continuation |-> root.continuation]}
  BY <1>1, WholeBody DEF OfferInv
<1>3. /\ root'.phase = "signingIntent" /\ root'.envelope = offer.envelope
      /\ root'.seed = root.seed /\ root'.generation = root.generation
      /\ root'.continuation = root.continuation
  BY <1>1 DEF ContributionTypeOK, ContributionRoots
<1>4. ContributionTypeOK'
  <2>1. root' \in ContributionRoots
    BY <1>1 DEF ContributionTypeOK, ContributionRoots
  <2> QED
    BY <1>1, <2>1 DEF ContributionTypeOK
<1>5. RootInv'
  BY <1>1, <1>2, <1>3 DEF RootInv
<1>6. OfferInv'
  BY <1>1, <1>3, OfferUntouched
<1>7. run = Nothing
  BY <1>1 DEF RunInv
<1>8. RunInv' /\ ProverInv' /\ ProducedInv' /\ ListedStored' /\ StoreFree'
  BY <1>1, <1>3, <1>7 DEF RunInv, ProverInv, ProducedInv, ListedStored, Listed, StoreFree
<1> QED
  BY <1>4, <1>5, <1>6, <1>8

\* Signing the retained envelope preserves the invariant.
LEMMA SignOfferInv ==
  ASSUME ContributionIInv, SignOffer
  PROVE  ContributionIInv'
<1> USE DEF ContributionIInv
<1>1. /\ root.phase = "signingIntent" /\ offer.envelope = root.envelope
      /\ offer' = [offer EXCEPT !.signature = TRUE]
      /\ signedEnvelopes' = signedEnvelopes \cup {root.envelope}
      /\ UNCHANGED <<root, store, preparationRetired, run, prover, stopped, visits, drawn, produced>>
  BY DEF SignOffer, Signable, durable
<1>2. ContributionTypeOK'
  BY <1>1 DEF ContributionTypeOK, ContributionRoots
<1>3. ASSUME NEW m PROVE BodyPrefix(m)' = BodyPrefix(m)
  BY <1>1 DEF BodyPrefix, BodyContent
<1>4. OfferInv'
  BY <1>1, <1>3 DEF OfferInv, ContributionTypeOK
<1>5. run = Nothing
  BY <1>1 DEF RunInv
<1>6. RootInv' /\ RunInv' /\ ProverInv' /\ ProducedInv' /\ ListedStored' /\ StoreFree'
  BY <1>1, <1>5 DEF RootInv, RunInv, ProverInv, ProducedInv, ListedStored, StoreFree
<1> QED
  BY <1>2, <1>4, <1>6

\* Committing the signed offer preserves the invariant.
LEMMA CommitSignedInv ==
  ASSUME ContributionIInv, CommitSigned
  PROVE  ContributionIInv'
<1> USE DEF ContributionIInv
<1>1. /\ root.phase = "signingIntent" /\ root' = [root EXCEPT !.phase = "signed"]
      /\ UNCHANGED <<store, preparationRetired, run, prover, offer, stopped, visits, drawn, produced,
                     signedEnvelopes>>
  BY DEF CommitSigned, instance, history
<1>2. /\ root'.phase = "signed" /\ root'.envelope = root.envelope
      /\ root'.seed = root.seed /\ root'.generation = root.generation
      /\ root'.continuation = root.continuation
  BY <1>1 DEF ContributionTypeOK, ContributionRoots
<1>3. ContributionTypeOK'
  <2>1. root' \in ContributionRoots
    BY <1>1 DEF ContributionTypeOK, ContributionRoots
  <2> QED
    BY <1>1, <2>1 DEF ContributionTypeOK
<1>4. RootInv'
  BY <1>1, <1>2 DEF RootInv
<1>5. OfferInv'
  BY <1>1, <1>2, OfferUntouched
<1>6. run = Nothing
  BY <1>1 DEF RunInv
<1>7. RunInv' /\ ProverInv' /\ ProducedInv' /\ ListedStored' /\ StoreFree'
  BY <1>1, <1>2, <1>6 DEF RunInv, ProverInv, ProducedInv, ListedStored, Listed, StoreFree
<1> QED
  BY <1>3, <1>4, <1>5, <1>7

\* Retiring the preparation preserves the invariant.
LEMMA RetirePreparationInv ==
  ASSUME ContributionIInv, RetirePreparation
  PROVE  ContributionIInv'
<1> USE DEF ContributionIInv, RetirePreparation, history
<1>1. ContributionTypeOK'
  BY DEF ContributionTypeOK, Seeds
<1>2. OfferInv'
  BY OfferUntouched
<1>3. RootInv' /\ RunInv' /\ ProverInv' /\ ProducedInv' /\ ListedStored' /\ StoreFree'
  BY DEF RootInv, RunInv, ProverInv, ProducedInv, ListedStored, StoreFree
<1> QED
  BY <1>1, <1>2, <1>3

\* Another visit preserves the invariant.
LEMMA VisitInv ==
  ASSUME ContributionIInv, Visit
  PROVE  ContributionIInv'
<1> USE DEF ContributionIInv, Visit, durable
<1>1. ContributionTypeOK'
  <2>1. offer' \in [pushed : 0..BodyLength, content : SUBSET (Contents \cup {Nothing}),
                    envelope : Envelopes, signature : BOOLEAN]
    BY Lengths DEF NoOffer, Envelopes
  <2> QED
    <3>1. visits' \in Nat
      BY DEF ContributionTypeOK
    <3>2. /\ run' = Nothing /\ prover' = Nothing /\ stopped' = FALSE
          /\ UNCHANGED <<root, store, preparationRetired, drawn, produced, signedEnvelopes>>
      OBVIOUS
    <3> HIDE DEF Visit
    <3> QED
      BY <2>1, <3>1, <3>2 DEF ContributionTypeOK, Seeds
<1>2. BodyPrefix(0)' = {}
  BY DEF BodyPrefix
<1>3. OfferInv'
  BY <1>2 DEF OfferInv, NoOffer
<1>4. RootInv' /\ RunInv' /\ ProverInv' /\ ProducedInv' /\ ListedStored' /\ StoreFree'
  BY DEF RootInv, RunInv, ProverInv, ProducedInv, ListedStored, StoreFree
<1> QED
  BY <1>1, <1>3, <1>4

\* Every step preserves the invariant.
LEMMA ContributionNextInv ==
  ASSUME ContributionIInv, [ContributionNext]_contributionVars
  PROVE  ContributionIInv'
<1>1. CASE UNCHANGED contributionVars
  <2>1. UNCHANGED <<root, store, preparationRetired, run, prover, offer, stopped, visits, drawn, produced,
                    signedEnvelopes>>
    BY <1>1 DEF contributionVars, durable, instance, history
  <2>2. BodyPrefix(offer.pushed)' = BodyPrefix(offer.pushed)
    BY <2>1 DEF BodyPrefix, BodyContent
  <2>3. OfferInv'
    BY <2>1, <2>2 DEF ContributionIInv, OfferInv
  <2>4. ContributionTypeOK' /\ RootInv' /\ RunInv' /\ ProverInv'
    BY <2>1 DEF ContributionIInv, ContributionTypeOK, RootInv, RunInv, ProverInv, Derived
  <2>5. ProducedInv' /\ ListedStored' /\ StoreFree'
    BY <2>1 DEF ContributionIInv, ProducedInv, ListedStored, StoreFree
  <2> QED
    BY <2>3, <2>4, <2>5 DEF ContributionIInv
<1> QED
  BY <1>1, BeginContributionInv, GenerateInv, RestoreCheckpointInv, BeginContinuationInv,
    ContinueInv,
     StoreRecordInv, CommitRunInv, PushBodyInv, FinishBodyInv, CommitSigningIntentInv, SignOfferInv,
     CommitSignedInv, FailInv, RetirePreparationInv, VisitInv DEF ContributionNext, Work

\* The inductive invariant holds throughout, for any numbers of records and visits.
THEOREM ContributionInvariant == ContributionSpec => []ContributionIInv
BY ContributionInitInv, ContributionNextInv, PTL DEF ContributionSpec

\* For any numbers of records and interruptions, every run reproduces its records
\* exactly: the seed is in the root before anything is drawn from it.
THEOREM RecordsAreReproduced == ContributionSpec => []Reproduced
<1>1. ContributionIInv => Reproduced
  BY DEF ContributionIInv, ProducedInv, Reproduced
<1> QED
  BY <1>1, ContributionInvariant, PTL

\* The records that the root lists are stored, and of the root's own derivation.
THEOREM ListedIsStored == ContributionSpec => []ListedStored
<1>1. ContributionIInv => ListedStored
  BY DEF ContributionIInv
<1> QED
  BY <1>1, ContributionInvariant, PTL

\* At most one envelope is signed over all visits, that of the whole retained body.
THEOREM OneOfferIsSigned == ContributionSpec => []OneOffer
<1>1. ContributionIInv => OneOffer
  BY DEF ContributionIInv, RootInv, OfferInv, OneOffer
<1> QED
  BY <1>1, ContributionInvariant, PTL

\* A record of an interrupted run never stands in the way of the next one.
THEOREM StoreIsFree == ContributionSpec => []StoreFree
<1>1. ContributionIInv => StoreFree
  BY DEF ContributionIInv
<1> QED
  BY <1>1, ContributionInvariant, PTL

\* For any lengths of the runs and any number of visits, an offer is made of
\* reproduced, stored records and signed once.
THEOREM OfferIsReproduced == ContributionSpec => []OfferReproduced
<1>1. ContributionIInv => ContributionTypeOK
  BY DEF ContributionIInv
<1> QED
  BY <1>1, ContributionInvariant, RecordsAreReproduced, ListedIsStored, OneOfferIsSigned,
     StoreIsFree, PTL DEF OfferReproduced

\* Once the preparation is retired nothing is signed and no record made again.
THEOREM RetiredIsSilent == ContributionSpec => RetiredSilent
<1>1. ContributionIInv /\ [ContributionNext]_contributionVars =>
        [preparationRetired =>
           signedEnvelopes' = signedEnvelopes /\ produced' = produced]_contributionVars
  <2> SUFFICES ASSUME ContributionIInv, ContributionNext, preparationRetired
               PROVE  signedEnvelopes' = signedEnvelopes /\ produced' = produced
    BY DEF contributionVars, durable, instance, history
  <2>1. run = Nothing
    BY DEF ContributionIInv, RunInv
  <2> QED
    BY <2>1 DEF ContributionNext, Work, BeginContribution, Generate, Continue, StartRun,
      BeginContinuation,
       StoreRecord, CommitRun, RestoreCheckpoint, PushBody, FinishBody, CommitSigningIntent, SignOffer,
       Signable, CommitSigned, Fail, RetirePreparation, Visit, history
<1> QED
  BY <1>1, ContributionInvariant, PTL DEF ContributionSpec, RetiredSilent

----
(* The enrollment: the credential that is drawn, retained and reopened. *)

\* An empty namespace and a fresh instance satisfy the enrollment's invariant.
LEMMA EnrollmentInitial == EnrollmentInit => EnrollmentIInv
<1> SUFFICES ASSUME EnrollmentInit PROVE EnrollmentIInv
  OBVIOUS
<1> USE DEF EnrollmentInit, NoSession, NoVerifier, NothingStaged
<1>1. EnrollmentTypeOK
  <2>1. {} \in SUBSET Kinds /\ [k \in {} |-> Absent] \in [{} -> {Absent, Own}]
    OBVIOUS
  <2> QED
    BY <2>1 DEF EnrollmentTypeOK
<1>2. DrawnInv /\ SealedInv /\ HeldInv /\ InstanceInv
  BY DEF DrawnInv, SealedInv, CommittedRestores, HeldInv, InstanceInv
<1> QED
  BY <1>1, <1>2 DEF EnrollmentIInv

\* A lost or abandoned instance leaves the store.
LEMMA LostInv ==
  ASSUME EnrollmentIInv, Reload \/ Retry PROVE EnrollmentIInv'
<1>1. /\ creating' = FALSE /\ creation' = Absent /\ staged' = NothingStaged
      /\ session' = NoSession /\ own' = NoVerifier
      /\ UNCHANGED <<enrollmentRoot, retainedRecords, used, created>>
      /\ faults' \in Nat
  BY DEF Reload, Retry, Fault, enrollmentStore, EnrollmentIInv, EnrollmentTypeOK
<1>2. EnrollmentTypeOK'
  <2>1. {} \in SUBSET Kinds /\ NothingStaged \in [{} -> {Absent, Own}]
    BY DEF NothingStaged
  <2> QED
    BY <1>1, <2>1 DEF EnrollmentIInv, EnrollmentTypeOK, NoSession, NoVerifier
<1>3. DrawnInv' /\ HeldInv' /\ InstanceInv'
  BY <1>1 DEF EnrollmentIInv, DrawnInv, HeldInv, InstanceInv, NoSession, NoVerifier
<1>4. SealedInv'
  BY <1>1 DEF EnrollmentIInv, SealedInv, CommittedRestores, NothingStaged
<1> QED
  BY <1>2, <1>3, <1>4 DEF EnrollmentIInv

\* Committing the intent and beginning or failing a creation: the credential is
\* drawn only after an intent committed to an empty root.
LEMMA BeginInv ==
  ASSUME EnrollmentIInv, CommitIntent \/ RefusedPrepare \/ Prepare \/ FailPrepare
  PROVE  EnrollmentIInv'
<1>1. CASE CommitIntent
  <2>1. EnrollmentTypeOK'
    BY <1>1 DEF CommitIntent, EnrollmentIInv, EnrollmentTypeOK, enrollmentModule
  <2>2. DrawnInv' /\ SealedInv' /\ HeldInv' /\ InstanceInv'
    BY <1>1 DEF CommitIntent, EnrollmentIInv, enrollmentModule, DrawnInv, SealedInv,
         CommittedRestores, HeldInv, InstanceInv
  <2> QED
    BY <2>1, <2>2 DEF EnrollmentIInv
<1>2. CASE RefusedPrepare
  <2>1. /\ UNCHANGED <<enrollmentRoot, retainedRecords, used, creating, creation, staged,
                       session, own, created>>
        /\ faults' \in Nat
    BY <1>2 DEF RefusedPrepare, Fault, enrollmentStore, enrollmentModule, EnrollmentIInv,
         EnrollmentTypeOK
  <2> QED
    BY <2>1 DEF EnrollmentIInv, EnrollmentTypeOK, DrawnInv, SealedInv, CommittedRestores,
         HeldInv, InstanceInv
<1>3. CASE Prepare
  <2>1. /\ session' = [session EXCEPT !.started = TRUE]
        /\ session'.enrollment = session.enrollment /\ session'.restored = session.restored
        /\ session'.started = TRUE
    BY <1>3 DEF Prepare, EnrollmentIInv, EnrollmentTypeOK
  <2>2. EnrollmentTypeOK'
    <3>1. {} \in SUBSET Kinds /\ staged' \in [{} -> {Absent, Own}]
      BY <1>3 DEF Prepare, NothingStaged
    <3>2. creation' \in Creations /\ created' \in Nat
      BY <1>3 DEF Prepare, Creations, EnrollmentIInv, EnrollmentTypeOK
    <3>3. session' \in [started : BOOLEAN, restored : BOOLEAN, enrollment : Enrollments \cup {Absent}]
      BY <2>1 DEF EnrollmentIInv, EnrollmentTypeOK
    <3> QED
      BY <1>3, <3>1, <3>2, <3>3 DEF Prepare, enrollmentStore, EnrollmentIInv, EnrollmentTypeOK
  <2>3. DrawnInv'
    BY <1>3, <2>1 DEF Prepare, enrollmentStore, EnrollmentIInv, EnrollmentTypeOK, DrawnInv
  <2>4. SealedInv'
    BY <1>3 DEF Prepare, enrollmentStore, EnrollmentIInv, SealedInv, CommittedRestores, NothingStaged
  <2>5. HeldInv' /\ InstanceInv'
    BY <1>3, <2>1 DEF Prepare, enrollmentStore, EnrollmentIInv, HeldInv, InstanceInv
  <2> QED
    BY <2>2, <2>3, <2>4, <2>5 DEF EnrollmentIInv
<1>4. CASE FailPrepare
  <2>1. /\ UNCHANGED <<enrollmentRoot, retainedRecords, used, creating, staged, session, own, created>>
        /\ creation' = Absent /\ faults' \in Nat
    BY <1>4 DEF FailPrepare, Fault, enrollmentStore, EnrollmentIInv, EnrollmentTypeOK
  <2> QED
    BY <2>1 DEF EnrollmentIInv, EnrollmentTypeOK, DrawnInv, SealedInv, CommittedRestores,
         HeldInv, InstanceInv
<1> QED
  BY <1>1, <1>2, <1>3, <1>4

\* Each step of the one creating call: a capsule is sealed only for the signed
\* registration, and the finished enrollment is the instance's own.
LEMMA CreateInv ==
  ASSUME EnrollmentIInv, Create PROVE EnrollmentIInv'
<1>1. creation # Absent /\ creation \in Creations
  BY DEF Create, CreateSources, CreateRecipientKey, SignRegistration, SealSources, FinishPrepare,
       EnrollmentIInv, EnrollmentTypeOK
<1>2. UNCHANGED <<enrollmentRoot, retainedRecords, used, creating, own, created, faults>>
  BY DEF Create, CreateSources, CreateRecipientKey, SignRegistration, SealSources, FinishPrepare,
       enrollmentStore
<1>3. session.started /\ creating /\ session.enrollment = Absent /\ enrollmentRoot = "intent"
  BY <1>1 DEF EnrollmentIInv, EnrollmentTypeOK, InstanceInv
<1>4. ASSUME NEW ks \in SUBSET Kinds, NEW body \in {Absent, Own},
             {"recipient", "signing", "source"} \cap ks = {} \/ body = Own,
             staged' = Stage(ks, body)
      PROVE  /\ \E kinds \in SUBSET Kinds : staged' \in [kinds -> {Absent, Own}]
             /\ \A k \in {"recipient", "signing", "source"} :
                  k \in DOMAIN staged' => staged'[k] = Own
  <2>0. PICK kinds \in SUBSET Kinds : staged \in [kinds -> {Absent, Own}]
    BY DEF EnrollmentIInv, EnrollmentTypeOK
  <2>1. /\ kinds \cup ks \in SUBSET Kinds /\ staged' \in [kinds \cup ks -> {Absent, Own}]
        /\ \A k \in ks : staged'[k] = body
        /\ \A k \in kinds \ ks : staged'[k] = staged[k]
    BY <1>4, <2>0 DEF Stage
  <2>2. ASSUME NEW k \in {"recipient", "signing", "source"}, k \in DOMAIN staged'
        PROVE  staged'[k] = Own
    <3>1. CASE k \in ks
      BY <1>4, <2>1, <2>2, <3>1
    <3>2. CASE k \notin ks
      BY <2>0, <2>1, <2>2, <3>2 DEF EnrollmentIInv, SealedInv
    <3> QED
      BY <3>1, <3>2
  <2> QED
    BY <1>4, <2>1, <2>2
<1>5. ASSUME \E kinds \in SUBSET Kinds : staged' \in [kinds -> {Absent, Own}],
             \A k \in {"recipient", "signing", "source"} :
               k \in DOMAIN staged' => staged'[k] = Own,
             creation' \in Creations, session' = session
      PROVE  EnrollmentIInv'
  <2>1. EnrollmentTypeOK'
    BY <1>2, <1>5 DEF EnrollmentIInv, EnrollmentTypeOK
  <2>2. SealedInv'
    BY <1>2, <1>5 DEF EnrollmentIInv, SealedInv, CommittedRestores
  <2>3. DrawnInv' /\ HeldInv' /\ InstanceInv'
    BY <1>2, <1>3, <1>5 DEF EnrollmentIInv, DrawnInv, HeldInv, InstanceInv
  <2> QED
    BY <2>1, <2>2, <2>3 DEF EnrollmentIInv
<1>6. CASE CreateSources \/ CreateRecipientKey
  <2>1. creation' \in Creations /\ session' = session
    BY <1>1, <1>6 DEF CreateSources, CreateRecipientKey, Creations
  <2>2. CASE CreateSources
    <3>1. {"ciphertexts"} \in SUBSET Kinds /\ staged' = Stage({"ciphertexts"}, Absent)
      BY <2>2 DEF CreateSources, Kinds
    <3> QED
      BY <1>4, <1>5, <2>1, <3>1
  <2>3. CASE CreateRecipientKey
    <3>1. {"key"} \in SUBSET Kinds /\ staged' = Stage({"key"}, Absent)
      BY <2>3 DEF CreateRecipientKey, Kinds
    <3> QED
      BY <1>4, <1>5, <2>1, <3>1
  <2> QED
    BY <1>6, <2>2, <2>3
<1>7. CASE SignRegistration
  <2>1. creation' \in Creations /\ session' = session /\ staged' = staged
    BY <1>1, <1>7 DEF SignRegistration, Creations
  <2> QED
    BY <1>5, <2>1 DEF EnrollmentIInv, EnrollmentTypeOK, SealedInv
<1>8. CASE SealSources
  <2>1. creation' \in Creations /\ session' = session
    BY <1>1, <1>8 DEF SealSources, Creations
  <2>2. {"source"} \in SUBSET Kinds /\ staged' = Stage({"source"}, Own)
    BY <1>8 DEF SealSources, Kinds
  <2> QED
    BY <1>4, <1>5, <2>1, <2>2
<1>9. CASE FinishPrepare
  <2> DEFINE e == [signing |-> Own, recipient |-> Own, sources |-> Own, locked |-> {},
                   retired |-> FALSE, signed |-> {}]
  <2>1. Kinds \ {"ciphertexts", "key", "source"} \in SUBSET Kinds /\ creation.completed = Own
    BY <1>1, <1>9 DEF FinishPrepare, Creations
  <2>2. staged' = Stage(Kinds \ {"ciphertexts", "key", "source"}, Own) /\ creation' = Absent
    BY <1>9, <2>1 DEF FinishPrepare
  <2>3. /\ \E kinds \in SUBSET Kinds : staged' \in [kinds -> {Absent, Own}]
        /\ \A k \in {"recipient", "signing", "source"} : k \in DOMAIN staged' => staged'[k] = Own
    BY <1>4, <2>1, <2>2
  <2>4. e \in Enrollments
    BY DEF Enrollments, Ids
  <2>5. session' = [session EXCEPT !.enrollment = e]
    BY <1>9 DEF FinishPrepare
  <2> HIDE DEF e
  <2>6. /\ session' \in [started : BOOLEAN, restored : BOOLEAN, enrollment : Enrollments \cup {Absent}]
        /\ session'.enrollment = e /\ session'.started = session.started
        /\ session'.restored = session.restored
    BY <2>4, <2>5 DEF EnrollmentIInv, EnrollmentTypeOK
  <2>7. EnrollmentTypeOK'
    BY <1>2, <2>2, <2>3, <2>6 DEF EnrollmentIInv, EnrollmentTypeOK
  <2>8. SealedInv'
    BY <1>2, <2>3 DEF EnrollmentIInv, SealedInv, CommittedRestores
  <2>9. used = {}
    BY <1>3 DEF EnrollmentIInv, InstanceInv
  <2>10. HeldInv'
    BY <1>2, <1>3, <2>6, <2>9, EnrollmentAssumption DEF HeldInv, Ids, e
  <2>11. DrawnInv' /\ InstanceInv'
    BY <1>2, <1>3, <2>2, <2>6, <2>9 DEF EnrollmentIInv, DrawnInv, InstanceInv
  <2> QED
    BY <2>7, <2>8, <2>10, <2>11 DEF EnrollmentIInv
<1> QED
  BY <1>6, <1>7, <1>8, <1>9 DEF Create

\* The commit of the completed root takes the staged capsules, and the commit of
\* the prepared root drops the source capsule alone.
LEMMA CommitInv ==
  ASSUME EnrollmentIInv, CommitRegistered \/ CommitPrepared PROVE EnrollmentIInv'
<1>1. UNCHANGED <<used, creating, creation, staged, session, own, created, faults>>
  BY DEF CommitRegistered, CommitPrepared, enrollmentModule
<1>2. session.enrollment # Absent
  BY DEF CommitRegistered, CommitPrepared
<1>3. CASE CommitRegistered
  <2>1. /\ enrollmentRoot = "intent" /\ enrollmentRoot' = "registered" /\ retainedRecords' = staged
        /\ DOMAIN staged = Kinds
    BY <1>3 DEF CommitRegistered
  <2>2. EnrollmentTypeOK'
    BY <1>1, <2>1 DEF EnrollmentIInv, EnrollmentTypeOK
  <2>3. SealedInv'
    BY <1>1, <2>1 DEF EnrollmentIInv, SealedInv, CommittedRestores, Kinds
  <2>4. DrawnInv' /\ HeldInv' /\ InstanceInv'
    BY <1>1, <1>2, <2>1 DEF EnrollmentIInv, DrawnInv, HeldInv, InstanceInv
  <2> QED
    BY <2>2, <2>3, <2>4 DEF EnrollmentIInv
<1>4. CASE CommitPrepared
  <2>1. /\ enrollmentRoot = "registered" /\ enrollmentRoot' = "prepared"
        /\ retainedRecords' = [k \in DOMAIN retainedRecords \ {"source"} |-> retainedRecords[k]]
    BY <1>4 DEF CommitPrepared
  <2>2. EnrollmentTypeOK'
    <3>1. PICK kinds \in SUBSET Kinds : retainedRecords \in [kinds -> {Absent, Own}]
      BY DEF EnrollmentIInv, EnrollmentTypeOK
    <3>2. kinds \ {"source"} \in SUBSET Kinds
          /\ retainedRecords' \in [kinds \ {"source"} -> {Absent, Own}]
      BY <2>1, <3>1
    <3> QED
      BY <1>1, <2>1, <3>2 DEF EnrollmentIInv, EnrollmentTypeOK
  <2>3. DrawnInv' /\ SealedInv' /\ HeldInv' /\ InstanceInv'
    BY <1>1, <1>2, <2>1 DEF EnrollmentIInv, DrawnInv, SealedInv, CommittedRestores, HeldInv,
         InstanceInv
  <2> QED
    BY <2>2, <2>3 DEF EnrollmentIInv
<1> QED
  BY <1>3, <1>4

\* Verifying the own registration changes no more than the verification, and a
\* finished one no more.
LEMMA VerifyInv ==
  ASSUME EnrollmentIInv, Verify PROVE EnrollmentIInv'
<1> DEFINE Own_ == [begun : BOOLEAN, pending : Verifiers \cup {Absent}, verified : Ids \cup {Absent}]
<1>1. ASSUME NEW right, Costs(right) PROVE faults' \in Nat
  BY <1>1 DEF Costs, Fault, EnrollmentIInv, EnrollmentTypeOK
<1>2. ASSUME NEW v \in Verifiers, Verifier(v)
      PROVE  own' \in Own_ /\ own'.verified = own.verified
  BY <1>2 DEF Verifier, EnrollmentIInv, EnrollmentTypeOK
<1>3. /\ own' \in Own_ /\ faults' \in Nat
      /\ own.verified # Absent => own'.verified = own.verified
      /\ UNCHANGED <<enrollmentRoot, retainedRecords, used, creating, creation, staged, session, created>>
  <2>1. CASE \E id \in Ids, authentic \in BOOLEAN : BeginOwn(id, authentic)
    <3>1. PICK id \in Ids, authentic \in BOOLEAN : BeginOwn(id, authentic)
      BY <2>1
    <3> DEFINE v == [of |-> id, authentic |-> authentic, key |-> 0, sound |-> TRUE,
                     keyed |-> FALSE, sources |-> 0, failed |-> FALSE]
    <3>2. v \in Verifiers
      BY DEF Verifiers
    <3>3. /\ own' = [own EXCEPT !.begun = TRUE, !.pending = v]
          /\ UNCHANGED <<enrollmentStore, creating, creation, staged, session, created>>
          /\ Costs(authentic /\ id = Own)
      BY <3>1 DEF BeginOwn
    <3> HIDE DEF v
    <3>4. own' \in Own_ /\ own'.verified = own.verified
      BY <3>2, <3>3 DEF EnrollmentIInv, EnrollmentTypeOK
    <3> QED
      BY <1>1, <3>3, <3>4 DEF enrollmentStore
  <2>2. ASSUME NEW sound \in BOOLEAN, PushKey(sound)
        PROVE  /\ own' \in Own_ /\ own'.verified = own.verified /\ faults' \in Nat
               /\ \E v : Verifier(v)
    <3> DEFINE v == own.pending
               fits == ~v.failed /\ ~v.keyed /\ v.key < KeyChunks
               w == IF fits THEN [v EXCEPT !.key = @ + 1, !.sound = @ /\ sound]
                    ELSE [v EXCEPT !.failed = TRUE]
    <3>1. v \in Verifiers
      BY <2>2 DEF PushKey, Verifying, EnrollmentIInv, EnrollmentTypeOK
    <3>2. w \in Verifiers
      <4>1. PICK b \in BOOLEAN : b = (v.sound /\ sound)
        OBVIOUS
      <4>2. CASE fits
        <5>1. w = [v EXCEPT !.key = @ + 1, !.sound = b]
          BY <4>1, <4>2
        <5> HIDE DEF w, fits, v
        <5>2. v.key + 1 \in Nat
          BY <3>1 DEF Verifiers
        <5> QED
          BY <3>1, <5>1, <5>2 DEF Verifiers
      <4>3. CASE ~fits
        BY <3>1, <4>3 DEF Verifiers
      <4> QED
        BY <4>2, <4>3
    <3>3. Verifier(w) /\ Costs(sound /\ fits)
      BY <2>2 DEF PushKey
    <3> HIDE DEF w, fits, v
    <3> QED
      BY <1>1, <1>2, <3>2, <3>3
  <2>3. ASSUME FinishKey
        PROVE  /\ own' \in Own_ /\ own'.verified = own.verified /\ faults' \in Nat
               /\ \E v : Verifier(v)
    <3> DEFINE v == own.pending
               right == ~v.failed /\ ~v.keyed /\ v.key = KeyChunks /\ v.sound
               w == IF right THEN [v EXCEPT !.keyed = TRUE] ELSE [v EXCEPT !.failed = TRUE]
    <3>1. v \in Verifiers
      BY <2>3 DEF FinishKey, Verifying, EnrollmentIInv, EnrollmentTypeOK
    <3>2. w \in Verifiers
      BY <3>1 DEF Verifiers
    <3>3. Verifier(w) /\ Costs(right)
      BY <2>3 DEF FinishKey
    <3> HIDE DEF w, right, v
    <3> QED
      BY <1>1, <1>2, <3>2, <3>3
  <2>4. ASSUME NEW sound \in BOOLEAN, PushSources(sound)
        PROVE  /\ own' \in Own_ /\ own'.verified = own.verified /\ faults' \in Nat
               /\ \E v : Verifier(v)
    <3> DEFINE v == own.pending
               right == ~v.failed /\ v.keyed /\ v.sources < Families /\ sound
               w == IF right THEN [v EXCEPT !.sources = @ + 1] ELSE [v EXCEPT !.failed = TRUE]
    <3>1. v \in Verifiers
      BY <2>4 DEF PushSources, Verifying, EnrollmentIInv, EnrollmentTypeOK
    <3>2. w \in Verifiers
      <4>1. CASE right
        BY <3>1, <4>1 DEF Verifiers
      <4>2. CASE ~right
        BY <3>1, <4>2 DEF Verifiers
      <4> QED
        BY <4>1, <4>2
    <3>3. Verifier(w) /\ Costs(right)
      BY <2>4 DEF PushSources
    <3> HIDE DEF w, right, v
    <3> QED
      BY <1>1, <1>2, <3>2, <3>3
  <2>5. CASE FinishOwn
    BY <1>1, <2>5 DEF FinishOwn, Verifying, Verifiers, enrollmentStore, EnrollmentIInv, EnrollmentTypeOK
  <2>6. ASSUME NEW v, Verifier(v)
        PROVE  UNCHANGED <<enrollmentRoot, retainedRecords, used, creating, creation, staged, session, created>>
    BY <2>6 DEF Verifier, enrollmentStore
  <2> QED
    BY <2>1, <2>2, <2>3, <2>4, <2>5, <2>6 DEF Verify
<1>4. EnrollmentTypeOK'
  BY <1>3 DEF EnrollmentIInv, EnrollmentTypeOK
<1>5. DrawnInv' /\ SealedInv' /\ HeldInv' /\ InstanceInv'
  BY <1>3 DEF EnrollmentIInv, DrawnInv, SealedInv, CommittedRestores, HeldInv, InstanceInv
<1> QED
  BY <1>4, <1>5 DEF EnrollmentIInv

\* A reopened enrollment is the verified one, whole, and withholds what was used.
LEMMA ReopenedWhole ==
  ASSUME EnrollmentIInv, NEW in \in Inputs, NEW mask \in SUBSET unusedSigningPurposes, Reopens(in)
  PROVE  /\ Reopened(in, mask) \in Enrollments
         /\ Reopened(in, mask).signing = own.verified /\ own.verified # Absent
         /\ Reopened(in, mask).recipient = own.verified
         /\ Reopened(in, mask).sources \in {own.verified, Absent}
         /\ used \subseteq Reopened(in, mask).locked
         /\ Reopened(in, mask).sources = Absent => Reopened(in, mask).retired
<1>1. /\ own.verified # Absent /\ own.verified \in Ids
      /\ in["signing"] = own.verified /\ in["recipient"] = own.verified
      /\ enrollmentRoot # "prepared" => in["last"] = own.verified
  BY DEF Reopens, Opens, EnrollmentIInv, EnrollmentTypeOK
<1>2. SigningPurposes \ mask \in SUBSET SigningPurposes /\ used \subseteq SigningPurposes \ mask
  BY DEF unusedSigningPurposes, EnrollmentIInv, EnrollmentTypeOK
<1>3. CASE enrollmentRoot = "prepared"
  <2>1. Reopened(in, mask) =
          [signing |-> in["signing"], recipient |-> in["recipient"], sources |-> Absent,
           locked |-> SigningPurposes \ mask, retired |-> TRUE, signed |-> {}]
    BY <1>3 DEF Reopened
  <2> QED
    BY <1>1, <1>2, <2>1 DEF Enrollments
<1>4. CASE enrollmentRoot # "prepared"
  <2>1. Reopened(in, mask) =
          [signing |-> in["signing"], recipient |-> in["recipient"], sources |-> in["last"],
           locked |-> SigningPurposes \ mask, retired |-> FALSE, signed |-> {}]
    BY <1>4 DEF Reopened
  <2> QED
    BY <1>1, <1>2, <1>4, <2>1, EnrollmentAssumption DEF Enrollments, Ids
<1> QED
  BY <1>3, <1>4

\* A restore takes the reopened enrollment or keeps the created one.
LEMMA RestoreEnrollmentInv ==
  ASSUME EnrollmentIInv, NEW in \in Inputs, RestoreEnrollment(in) PROVE EnrollmentIInv'
<1> DEFINE mask == IF creating THEN {} ELSE unusedSigningPurposes
           e == session'.enrollment
<1>1. /\ UNCHANGED <<enrollmentRoot, retainedRecords, used, creating, creation, staged, own, created>>
      /\ faults' \in Nat
  BY DEF RestoreEnrollment, Costs, Fault, enrollmentStore, EnrollmentIInv, EnrollmentTypeOK
<1>2. /\ session'.started = TRUE /\ session'.restored = TRUE
      /\ \/ e = session.enrollment
         \/ session.enrollment = Absent /\ Reopens(in) /\ e = Reopened(in, mask)
      /\ session' = [started |-> TRUE, restored |-> TRUE, enrollment |-> e]
      /\ creation = Absent /\ enrollmentRoot \in {"registered", "prepared"}
  <2> DEFINE accepted == Reopens(in) /\ Agrees(in, mask)
             taken == IF accepted THEN Taken(in, mask) ELSE session.enrollment
  <2>1. /\ session' = [started |-> TRUE, restored |-> TRUE, enrollment |-> taken]
        /\ creation = Absent /\ enrollmentRoot \in {"registered", "prepared"}
    BY DEF RestoreEnrollment
  <2>2. \/ taken = session.enrollment
        \/ session.enrollment = Absent /\ Reopens(in) /\ taken = Reopened(in, mask)
    BY DEF Taken
  <2> HIDE DEF taken, mask
  <2>3. session'.started = TRUE /\ session'.restored = TRUE /\ e = taken
    BY <2>1
  <2> HIDE DEF e
  <2> QED
    BY <2>1, <2>2, <2>3
<1>3. mask \in SUBSET unusedSigningPurposes
  OBVIOUS
<1>4. CASE e = session.enrollment
  <2>1. EnrollmentTypeOK'
    BY <1>1, <1>2, <1>4 DEF EnrollmentIInv, EnrollmentTypeOK
  <2>2. DrawnInv' /\ SealedInv' /\ HeldInv' /\ InstanceInv'
    BY <1>1, <1>2, <1>4 DEF EnrollmentIInv, DrawnInv, SealedInv, CommittedRestores, HeldInv, InstanceInv
  <2> QED
    BY <2>1, <2>2 DEF EnrollmentIInv
<1>5. CASE session.enrollment = Absent /\ Reopens(in) /\ e = Reopened(in, mask)
  <2> HIDE DEF mask
  <2>1. /\ e \in Enrollments
        /\ e.signing = own.verified /\ own.verified # Absent /\ e.recipient = own.verified
        /\ e.sources \in {own.verified, Absent} /\ used \subseteq e.locked
        /\ e.sources = Absent => e.retired
    BY <1>3, <1>5, ReopenedWhole
  <2>2. ~creating
    BY <1>5 DEF RestoreEnrollment, EnrollmentIInv, EnrollmentTypeOK, InstanceInv
  <2> HIDE DEF e
  <2>3. EnrollmentTypeOK'
    BY <1>1, <1>2, <2>1 DEF EnrollmentIInv, EnrollmentTypeOK
  <2>4. HeldInv'
    BY <1>1, <2>1 DEF HeldInv, e
  <2>5. DrawnInv' /\ SealedInv' /\ InstanceInv'
    BY <1>1, <1>2, <2>2 DEF EnrollmentIInv, DrawnInv, SealedInv, CommittedRestores, InstanceInv
  <2> QED
    BY <2>3, <2>4, <2>5 DEF EnrollmentIInv
<1> QED
  BY <1>2, <1>4, <1>5

\* Retiring the sources and signing only take authority away, and a retained
\* signature is one the instance counts as used.
LEMMA AuthorityInv ==
  ASSUME EnrollmentIInv,
         RetireContributionSources \/ \E p \in SigningPurposes : SignPurpose(p)
  PROVE  EnrollmentIInv'
<1> DEFINE e == session.enrollment
<1>1. e # Absent /\ e \in Enrollments
  BY DEF RetireContributionSources, SignPurpose, CanSign, EnrollmentIInv, EnrollmentTypeOK
<1>2. ASSUME NEW f \in Enrollments, session' = [session EXCEPT !.enrollment = f],
             f.signing = e.signing, f.recipient = e.recipient,
             f.sources \in {e.sources, Absent},
             f.sources = Absent => f.retired,
             used' \subseteq SigningPurposes, used' # {} => enrollmentRoot \in {"registered", "prepared"},
             e.signing = Own => used' \subseteq f.locked \cup f.signed,
             UNCHANGED <<enrollmentRoot, retainedRecords, creating, creation, staged, own, created, faults>>
      PROVE  EnrollmentIInv'
  <2>1. /\ session' \in [started : BOOLEAN, restored : BOOLEAN, enrollment : Enrollments \cup {Absent}]
        /\ session'.enrollment = f /\ session'.started = session.started
        /\ session'.restored = session.restored
    BY <1>2 DEF EnrollmentIInv, EnrollmentTypeOK
  <2>2. EnrollmentTypeOK'
    BY <1>2, <2>1 DEF EnrollmentIInv, EnrollmentTypeOK
  <2>3. HeldInv'
    BY <1>1, <1>2, <2>1 DEF EnrollmentIInv, HeldInv
  <2>4. DrawnInv' /\ SealedInv'
    BY <1>2, <2>1 DEF EnrollmentIInv, DrawnInv, SealedInv, CommittedRestores
  <2>5. InstanceInv'
    BY <1>1, <1>2, <2>1, EnrollmentAssumption DEF EnrollmentIInv, InstanceInv
  <2> QED
    BY <2>2, <2>3, <2>4, <2>5 DEF EnrollmentIInv
<1>3. CASE RetireContributionSources
  <2> DEFINE f == retire_sources(e)
  <2>1. /\ session' = [session EXCEPT !.enrollment = f]
        /\ UNCHANGED <<enrollmentRoot, retainedRecords, used, creating, creation, staged, own, created, faults>>
    BY <1>3 DEF RetireContributionSources, enrollmentStore
  <2>2. /\ f \in Enrollments
        /\ f.signing = e.signing /\ f.recipient = e.recipient
        /\ f.sources = Absent /\ f.retired
        /\ e.locked \subseteq f.locked /\ f.signed = e.signed
    BY <1>1, EnrollmentAssumption DEF retire_sources, Enrollments
  <2>3. /\ used \subseteq SigningPurposes
        /\ used # {} => enrollmentRoot \in {"registered", "prepared"}
        /\ e.signing = Own => used \subseteq e.locked \cup e.signed
    BY <1>1 DEF EnrollmentIInv, EnrollmentTypeOK, InstanceInv, HeldInv
  <2> HIDE DEF e, f
  <2>4. e.signing = Own => used' \subseteq f.locked \cup f.signed
    BY <2>1, <2>2, <2>3
  <2>5. /\ used' \subseteq SigningPurposes
        /\ used' # {} => enrollmentRoot \in {"registered", "prepared"}
    BY <2>1, <2>3
  <2> QED
    BY <1>2, <2>1, <2>2, <2>4, <2>5
<1>4. ASSUME NEW p \in SigningPurposes, SignPurpose(p) PROVE EnrollmentIInv'
  <2> DEFINE f == [e EXCEPT !.signed = @ \cup {p}]
  <2>1. /\ session' = [session EXCEPT !.enrollment = f] /\ used' = used \cup {p}
        /\ UNCHANGED <<enrollmentRoot, retainedRecords, creating, creation, staged, own, created, faults>>
    BY <1>4 DEF SignPurpose, EnrollmentIInv, EnrollmentTypeOK
  <2>2. /\ f \in Enrollments /\ f.signing = e.signing /\ f.recipient = e.recipient
        /\ f.sources = e.sources /\ f.retired = e.retired
        /\ f.locked = e.locked /\ f.signed = e.signed \cup {p}
    BY <1>1 DEF Enrollments
  <2>3. /\ used \subseteq SigningPurposes
        /\ e.signing = Own => used \subseteq e.locked \cup e.signed
        /\ e.sources = Absent => e.retired
    BY <1>1 DEF EnrollmentIInv, EnrollmentTypeOK, HeldInv
  <2>4. enrollmentRoot \in {"registered", "prepared"}
    BY <1>4 DEF SignPurpose, EnrollmentIInv, InstanceInv
  <2> HIDE DEF e, f
  <2> QED
    BY <1>2, <2>1, <2>2, <2>3, <2>4
<1> QED
  BY <1>3, <1>4

\* Every step of an enrollment keeps its invariant.
LEMMA EnrollmentStep ==
  ASSUME EnrollmentIInv, [EnrollmentNext]_enrollmentVars PROVE EnrollmentIInv'
<1>1. CASE EnrollmentNext
  BY <1>1, LostInv, BeginInv, CreateInv, CommitInv, VerifyInv, RestoreEnrollmentInv, AuthorityInv
     DEF EnrollmentNext
<1>2. CASE UNCHANGED enrollmentVars
  BY <1>2 DEF enrollmentVars, enrollmentStore, enrollmentModule, EnrollmentIInv, EnrollmentTypeOK,
       DrawnInv, SealedInv, CommittedRestores, HeldInv, InstanceInv
<1> QED
  BY <1>1, <1>2

\* One credential is drawn on the visit that committed the intent, its capsules
\* are sealed for the registration that was signed, and an instance holds the
\* enrollment that it created or verified, with what was used withheld.
THEOREM EnrollmentInvariant == EnrollmentSpec => []EnrollmentIInv
<1>1. EnrollmentInit => EnrollmentIInv
  BY EnrollmentInitial
<1>2. EnrollmentIInv /\ [EnrollmentNext]_enrollmentVars => EnrollmentIInv'
  BY EnrollmentStep
<1> QED
  BY <1>1, <1>2, PTL DEF EnrollmentSpec

\* Wherever a visit ends and whichever foreign records the store is read with, a
\* credential is drawn once, what was committed can be reopened, a restored
\* enrollment is of one piece, and no instance signs a purpose that was used or
\* holds authority that was retired.
THEOREM EnrollmentIsWhole == EnrollmentSpec => []EnrollmentWhole
<1>1. EnrollmentIInv => EnrollmentWhole
  <2> SUFFICES ASSUME EnrollmentIInv PROVE EnrollmentWhole
    OBVIOUS
  <2>1. CommittedRestores /\ NeverRerolled
    BY DEF EnrollmentIInv, SealedInv, DrawnInv, NeverRerolled
  <2>2. RestoredWhole
    BY DEF EnrollmentIInv, HeldInv, RestoredWhole
  <2>3. UsedStaysUsed
    BY DEF EnrollmentIInv, HeldInv, UsedStaysUsed, HoldsOriginal, CanSign
  <2>4. RetirementHolds
    BY DEF EnrollmentIInv, HeldInv, RetirementHolds, CanSign
  <2> QED
    BY <2>1, <2>2, <2>3, <2>4 DEF EnrollmentWhole
<1> QED
  BY <1>1, EnrollmentInvariant, PTL

----
(* The roster: the records that the worker streams, the helpers behind it. *)

LEMMA RecordTyped ==
  ASSUME RosterTypeOK, NEW p \in Positions
  PROVE  /\ RecordOpen(p) => records[p] \in OpenRecords
         /\ records[p].state = "verified" =>
              records[p].candidate \in Candidates /\ records[p] = VerifiedRecord(records[p].candidate)
BY DEF RosterTypeOK, RecordOpen, OpenRecords, Unread, Refused, VerifiedRecord

LEMMA HelperTyped ==
  ASSUME RosterTypeOK, NEW s \in Shards
  PROVE  /\ queue[s] \in Seq(Jobs) /\ DOMAIN queue[s] = 1 .. Len(queue[s])
         /\ \A i \in DOMAIN queue[s] : queue[s][i] \in Jobs
         /\ \A v \in sessions[s] : v \in HelperSessions
<1>1. queue[s] \in Seq(Jobs) /\ sessions[s] \in SUBSET HelperSessions
  BY DEF RosterTypeOK
<1> QED
  BY <1>1

\* A record and a shard that a step leaves alone.
LEMMA RecordKept ==
  ASSUME NEW q \in Positions, RecordInv(q), records'[q] = records[q],
         queue'[records[q].shard] = queue[records[q].shard],
         sessions'[records[q].shard] = sessions[records[q].shard]
  PROVE  RecordInv(q)'
BY DEF RecordInv

LEMMA ShardKept ==
  ASSUME NEW s \in Shards, RosterTypeOK, RosterTypeOK', ShardInv(s), queue'[s] = queue[s],
         sessions'[s] = sessions[s], opened <= opened'
  PROVE  ShardInv(s)'
<1>1. /\ \A i \in DOMAIN queue[s] : queue[s][i].session \in Nat
      /\ \A v \in sessions[s] : v.session \in Nat
      /\ opened \in Nat /\ opened' \in Nat
  BY HelperTyped DEF RosterTypeOK, Jobs, HelperSessions
<1>2. \A i \in DOMAIN queue'[s] : queue'[s][i].session < opened'
  BY <1>1 DEF ShardInv
<1>3. \A v \in sessions'[s] : v.session < opened'
  BY <1>1 DEF ShardInv
<1> QED
  BY <1>2, <1>3, Zenon DEF ShardInv

\* A job that is sent comes last at its shard.
LEMMA Appended ==
  ASSUME RosterTypeOK, NEW s \in Shards, NEW sent \in Jobs, queue'[s] = Append(queue[s], sent)
  PROVE  /\ queue'[s] \in Seq(Jobs)
         /\ DOMAIN queue'[s] = DOMAIN queue[s] \cup {Len(queue[s]) + 1}
         /\ Len(queue[s]) + 1 \notin DOMAIN queue[s]
         /\ queue'[s][Len(queue[s]) + 1] = sent
         /\ \A i \in DOMAIN queue[s] : queue'[s][i] = queue[s][i]
<1>1. queue[s] \in Seq(Jobs)
  BY HelperTyped
<1>2. /\ DOMAIN queue[s] = 1 .. Len(queue[s]) /\ Len(queue[s]) \in Nat
      /\ DOMAIN queue'[s] = 1 .. Len(queue[s]) + 1
  BY <1>1
<1> QED
  BY <1>1, <1>2

LEMMA Sent ==
  ASSUME RosterTypeOK, NEW s \in Shards, NEW sent \in Jobs, Send(s, sent)
  PROVE  /\ queue' \in [Shards -> Seq(Jobs)]
         /\ \A z \in Shards : z # s => queue'[z] = queue[z]
         /\ queue'[s] = Append(queue[s], sent)
<1>1. queue[s] \in Seq(Jobs) /\ queue'[s] = Append(queue[s], sent)
  BY DEF RosterTypeOK, Send
<1> QED
  BY <1>1 DEF RosterTypeOK, Send

\* A job other than an opening one leaves a shard's numbers as they were.
LEMMA AppendedShard ==
  ASSUME RosterIInv, NEW s \in Shards, NEW sent \in Jobs, queue'[s] = Append(queue[s], sent),
         sent.session < opened, sent.operation # "open", sessions'[s] = sessions[s],
         opened' = opened
  PROVE  ShardInv(s)'
<1>1. RosterTypeOK /\ ShardInv(s)
  BY DEF RosterIInv
<1>2. /\ DOMAIN queue'[s] = DOMAIN queue[s] \cup {Len(queue[s]) + 1}
      /\ queue'[s][Len(queue[s]) + 1] = sent
      /\ \A i \in DOMAIN queue[s] : queue'[s][i] = queue[s][i]
  BY <1>1, Appended
<1> QED
  BY <1>1, <1>2 DEF ShardInv

\* A step that changes what an open record has received only by its key.
LEMMA StreamedRecord ==
  ASSUME RosterIInv, NEW p \in Positions, RecordOpen(p), NEW r \in OpenRecords,
         records' = [records EXCEPT ![p] = r],
         r.candidate = records[p].candidate, r.session = records[p].session,
         r.shard = records[p].shard,
         UNCHANGED <<identities, free, signedBody, confirmed, opened, begun>>
  PROVE  /\ RosterSound' /\ SignedSound'
         /\ \A q \in Positions : q # p => records'[q] = records[q]
         /\ \A q \in Positions : RecordOpen(q)' <=> RecordOpen(q)
         /\ records'[p] = r
         /\ records' \in [Positions -> OpenRecords \cup {Unread, Refused} \cup
                                        {VerifiedRecord(c) : c \in Candidates}]
<1>1. RosterTypeOK /\ RosterSound /\ SignedSound
  BY DEF RosterIInv
<1>2. /\ \A q \in Positions : records'[q] = IF q = p THEN r ELSE records[q]
      /\ records' \in [Positions -> OpenRecords \cup {Unread, Refused} \cup
                                     {VerifiedRecord(c) : c \in Candidates}]
  BY <1>1 DEF RosterTypeOK
<1>3. r.state = "open" /\ records[p].state = "open"
  BY DEF OpenRecords, RecordOpen
<1>4. \A q \in Positions : /\ records'[q].state = records[q].state
                           /\ RecordOpen(q) => records'[q].shard = records[q].shard
                           /\ records[q].state = "verified" => records'[q] = records[q]
  BY <1>2, <1>3
<1>5. \A q \in Positions : RecordOpen(q)' <=> RecordOpen(q)
  BY <1>4 DEF RecordOpen
<1>6. AcceptedSound'
  BY <1>1, <1>4 DEF RosterSound, AcceptedSound
<1>7. ShardsHeld'
  <2>1. \A q \in Positions : RecordOpen(q)' => records'[q].shard = records[q].shard
    BY <1>4, <1>5
  <2>2. {records'[q].shard : q \in {z \in Positions : RecordOpen(z)'}} =
        {records[q].shard : q \in {z \in Positions : RecordOpen(z)}}
    BY <1>5, <2>1
  <2> QED
    BY <1>1, <1>5, <2>1, <2>2 DEF RosterSound, ShardsHeld
<1>8. ConfirmedSound' /\ SignedSound'
  BY <1>1 DEF RosterSound, ConfirmedSound, SignedSound, IsRoster
<1> QED
  BY <1>2, <1>5, <1>6, <1>7, <1>8 DEF RosterSound

\* Two open records are at two shards, and neither is free.
LEMMA ShardsApart ==
  ASSUME RosterIInv, NEW p \in Positions, NEW q \in Positions, RecordOpen(p), RecordOpen(q), p # q
  PROVE  records[p].shard # records[q].shard
BY DEF RosterIInv, RosterSound, ShardsHeld

\* A step at the shard of one open record, which stays open there.
LEMMA StreamStep ==
  ASSUME RosterIInv, NEW p \in Positions, RecordOpen(p), NEW r \in OpenRecords,
         records' = [records EXCEPT ![p] = r],
         r.candidate = records[p].candidate, r.session = records[p].session,
         r.shard = records[p].shard,
         UNCHANGED <<identities, free, signedBody, confirmed, opened, begun>>,
         queue' \in [Shards -> Seq(Jobs)], sessions' \in [Shards -> SUBSET HelperSessions],
         \A s \in Shards : s # r.shard => queue'[s] = queue[s] /\ sessions'[s] = sessions[s],
         ShardInv(r.shard)', RecordInv(p)'
  PROVE  RosterIInv'
<1>1. RosterTypeOK /\ (\A s \in Shards : ShardInv(s)) /\ (\A q \in Positions : RecordOpen(q) => RecordInv(q))
  BY DEF RosterIInv
<1>2. /\ RosterSound' /\ SignedSound'
      /\ \A q \in Positions : q # p => records'[q] = records[q]
      /\ \A q \in Positions : RecordOpen(q)' <=> RecordOpen(q)
      /\ records' \in [Positions -> OpenRecords \cup {Unread, Refused} \cup
                                     {VerifiedRecord(c) : c \in Candidates}]
  BY StreamedRecord
<1>3. RosterTypeOK'
  BY <1>1, <1>2 DEF RosterTypeOK
<1>4. ASSUME NEW s \in Shards PROVE ShardInv(s)'
  <2>1. CASE s # r.shard
    <3>1. opened \in Nat /\ opened' = opened
      BY <1>1 DEF RosterTypeOK
    <3> QED
      BY <1>1, <1>3, <2>1, <3>1, ShardKept
  <2> QED
    BY <2>1
<1>5. ASSUME NEW q \in Positions, RecordOpen(q)' PROVE RecordInv(q)'
  <2>1. CASE q # p
    <3>1. RecordOpen(q) /\ records'[q] = records[q] /\ RecordInv(q)
      BY <1>1, <1>2, <1>5, <2>1
    <3>2. records[q].shard # r.shard /\ records[q].shard \in Shards
      BY <1>1, <2>1, <3>1, ShardsApart, RecordTyped DEF OpenRecords
    <3> QED
      BY <3>1, <3>2, RecordKept
  <2> QED
    BY <2>1
<1> QED
  BY <1>2, <1>3, <1>4, <1>5 DEF RosterIInv

\* A step of an open record that sends its helper nothing.
LEMMA UnsentStep ==
  ASSUME RosterIInv, NEW p \in Positions, RecordOpen(p), NEW r \in OpenRecords,
         records' = [records EXCEPT ![p] = r],
         r.candidate = records[p].candidate, r.session = records[p].session,
         r.shard = records[p].shard, r.sources = records[p].sources,
         UNCHANGED <<identities, free, signedBody, confirmed, opened, begun, queue, sessions>>
  PROVE  RosterIInv'
<1>1. /\ RosterTypeOK /\ RecordInv(p) /\ r.shard \in Shards /\ (\A s \in Shards : ShardInv(s))
      /\ records'[p] = r
  BY StreamedRecord DEF RosterIInv, OpenRecords
<1>2. queue' \in [Shards -> Seq(Jobs)] /\ sessions' \in [Shards -> SUBSET HelperSessions]
  BY <1>1 DEF RosterTypeOK
<1>3. ShardInv(r.shard)'
  BY <1>1 DEF ShardInv
<1>4. RecordInv(p)'
  BY <1>1 DEF RecordInv
<1> QED
  BY <1>2, <1>3, <1>4, StreamStep

\* An open record that is failed.
LEMMA FailedStep ==
  ASSUME RosterIInv, NEW p \in Positions, RecordOpen(p),
         records' = [records EXCEPT ![p].failed = TRUE],
         UNCHANGED <<identities, free, signedBody, confirmed, opened, begun, queue, sessions>>
  PROVE  RosterIInv'
<1> DEFINE r == [records[p] EXCEPT !.failed = TRUE]
<1>1. records[p] \in OpenRecords
  BY RecordTyped DEF RosterIInv
<1>2. /\ r \in OpenRecords /\ records' = [records EXCEPT ![p] = r]
      /\ r.candidate = records[p].candidate /\ r.session = records[p].session
      /\ r.shard = records[p].shard /\ r.sources = records[p].sources
  BY <1>1 DEF OpenRecords
<1> HIDE DEF r
<1> QED
  BY <1>2, UnsentStep

LEMMA PushRecordKeyInv ==
  ASSUME RosterIInv, NEW p \in Positions, NEW n \in 1 .. RegistrationKeyChunks, PushRecordKey(p, n)
  PROVE  RosterIInv'
<1>0. /\ RecordOpen(p)
      /\ UNCHANGED <<identities, free, signedBody, confirmed, opened, begun, queue, sessions>>
      /\ \/ records' = [records EXCEPT ![p].failed = TRUE]
         \/ records' = [records EXCEPT ![p].key = @ + n]
  BY DEF PushRecordKey, helpers
<1>1. CASE records' = [records EXCEPT ![p].failed = TRUE]
  BY <1>0, <1>1, FailedStep
<1>2. CASE records' = [records EXCEPT ![p].key = @ + n]
  <2> DEFINE r == [records[p] EXCEPT !.key = @ + n]
  <2>1. records[p] \in OpenRecords /\ records[p].key + n \in Nat
    BY <1>0, RecordTyped, RosterAssumption DEF RosterIInv, OpenRecords
  <2>2. /\ r \in OpenRecords /\ records' = [records EXCEPT ![p] = r]
        /\ r.candidate = records[p].candidate /\ r.session = records[p].session
        /\ r.shard = records[p].shard /\ r.sources = records[p].sources
    BY <1>2, <2>1 DEF OpenRecords
  <2> HIDE DEF r
  <2> QED
    BY <1>0, <2>2, UnsentStep
<1> QED
  BY <1>0, <1>1, <1>2

\* An open record's number is of a session that was opened.
LEMMA OpenedBefore ==
  ASSUME RosterIInv, NEW p \in Positions, RecordOpen(p)
  PROVE  /\ records[p] \in OpenRecords /\ records[p].shard \in Shards
         /\ records[p].session < opened /\ ShardInv(records[p].shard) /\ RecordInv(p)
<1>1. records[p] \in OpenRecords /\ records[p].shard \in Shards
  BY RecordTyped DEF RosterIInv, OpenRecords
<1>2. ShardInv(records[p].shard) /\ RecordInv(p)
  BY <1>1 DEF RosterIInv
<1>3. records[p].session < opened
  BY <1>2 DEF ShardInv, RecordInv
<1> QED
  BY <1>1, <1>2, <1>3

LEMMA FinishRecordKeyInv ==
  ASSUME RosterIInv, NEW p \in Positions, FinishRecordKey(p)
  PROVE  RosterIInv'
<1>0. /\ RecordOpen(p)
      /\ UNCHANGED <<identities, free, signedBody, confirmed, opened, begun, sessions>>
  BY DEF FinishRecordKey
<1>1. CASE records[p].keySent \/ records[p].key # RegistrationKeyChunks
  BY <1>0, <1>1, FailedStep DEF FinishRecordKey
<1>2. CASE ~(records[p].keySent \/ records[p].key # RegistrationKeyChunks)
  <2> DEFINE sent == Job("key", records[p].session, records[p].candidate)
  <2>0. /\ records[p] \in OpenRecords /\ records[p].shard \in Shards
        /\ records[p].session < opened /\ ShardInv(records[p].shard) /\ RecordInv(p) /\ RosterTypeOK
    BY <1>0, OpenedBefore DEF RosterIInv
  <2> PICK s \in Shards : s = records[p].shard
    BY <2>0
  <2> PICK r \in OpenRecords : r = [records[p] EXCEPT !.keySent = TRUE]
    BY <2>0 DEF OpenRecords
  <2>1. /\ records[p] \in OpenRecords /\ records[p].session < opened
        /\ ShardInv(s) /\ RecordInv(p) /\ RosterTypeOK
    BY <2>0
  <2>2. /\ records' = [records EXCEPT ![p] = r]
        /\ r.candidate = records[p].candidate /\ r.session = records[p].session
        /\ r.shard = records[p].shard /\ r.sources = records[p].sources
    BY <1>2, <2>1 DEF OpenRecords, FinishRecordKey
  <2>3. /\ sent \in Jobs /\ sent.session = records[p].session /\ sent.operation = "key"
        /\ sent.candidate = records[p].candidate
    BY <2>1 DEF Job, Jobs, OpenRecords
  <2>4. Send(s, sent) /\ sessions'[s] = sessions[s] /\ opened' = opened /\ sent.session < opened
    BY <1>0, <1>2, <2>1, <2>3 DEF FinishRecordKey
  <2> HIDE DEF sent
  <2>5. /\ queue' \in [Shards -> Seq(Jobs)]
        /\ \A z \in Shards : z # s => queue'[z] = queue[z]
        /\ queue'[s] = Append(queue[s], sent)
        /\ DOMAIN queue'[s] = DOMAIN queue[s] \cup {Len(queue[s]) + 1}
        /\ queue'[s][Len(queue[s]) + 1] = sent
        /\ \A i \in DOMAIN queue[s] : queue'[s][i] = queue[s][i]
    BY <2>1, <2>3, <2>4, Sent, Appended
  <2>6. ShardInv(s)'
    BY <2>1, <2>3, <2>4, <2>5, AppendedShard
  <2>7. records'[p] = r
    BY <1>0, <2>2, StreamedRecord
  <2>8. RecordInv(p)'
    <3>1. /\ r.shard = s /\ sessions'[s] = sessions[s] /\ sent.operation # "discard"
          /\ sent.operation # "open"
      BY <2>2, <2>3, <2>4
    <3>2. \A i \in DOMAIN queue'[s] : queue'[s][i].session = r.session =>
            /\ queue'[s][i].operation # "discard" /\ queue'[s][i].candidate = r.candidate
            /\ queue'[s][i].operation = "open" => r.sources = 0
      <4>1. \A i \in DOMAIN queue[s] : queue[s][i].session = r.session =>
              /\ queue[s][i].operation # "discard" /\ queue[s][i].candidate = r.candidate
              /\ queue[s][i].operation = "open" => r.sources = 0
        BY <2>1, <2>2 DEF RecordInv
      <4> QED
        BY <2>2, <2>3, <2>5, <3>1, <4>1
    <3>3. \/ \E v \in sessions'[s] : v.session = r.session
          \/ \E i \in DOMAIN queue'[s] : queue'[s][i].session = r.session /\ queue'[s][i].operation = "open"
      <4>1. \/ \E v \in sessions[s] : v.session = r.session
            \/ \E i \in DOMAIN queue[s] : queue[s][i].session = r.session /\ queue[s][i].operation = "open"
        BY <2>1, <2>2 DEF RecordInv
      <4>2. DOMAIN queue[s] \subseteq DOMAIN queue'[s] /\ \A i \in DOMAIN queue[s] : queue'[s][i] = queue[s][i]
        BY <2>5
      <4> QED
        BY <3>1, <4>1, <4>2
    <3>4. /\ "header" \in Parts[r.candidate]
          /\ \A v \in sessions'[s] : v.session = r.session =>
               /\ v.key => v.refused \/ "key" \in Parts[r.candidate]
               /\ r.sources = SourceChunks => v.refused \/ "sources" \in Parts[r.candidate]
      BY <2>1, <2>2, <3>1 DEF RecordInv
    <3> QED
      BY <2>7, <3>1, <3>2, <3>3, <3>4 DEF RecordInv
  <2>9. /\ sessions' \in [Shards -> SUBSET HelperSessions] /\ r.shard = s
        /\ \A z \in Shards : z # s => queue'[z] = queue[z] /\ sessions'[z] = sessions[z]
    BY <1>0, <2>1, <2>2, <2>5 DEF RosterTypeOK
  <2> QED
    BY <1>0, <2>2, <2>5, <2>6, <2>8, <2>9, StreamStep
<1> QED
  BY <1>1, <1>2

\* A helper that has run its jobs has the session of the record it is waited for.
LEMMA SessionFound ==
  ASSUME RosterIInv, NEW p \in Positions, RecordOpen(p), Waited(p)
  PROVE  /\ SessionOf(p) \in sessions[records[p].shard]
         /\ SessionOf(p).session = records[p].session
         /\ SessionOf(p) \in HelperSessions
         /\ \A v \in sessions[records[p].shard] : v.session = records[p].session => v = SessionOf(p)
<1> DEFINE s == records[p].shard
<1>1. s \in Shards /\ ShardInv(s) /\ RecordInv(p) /\ RosterTypeOK
  BY OpenedBefore DEF RosterIInv
<1>2. DOMAIN queue[s] = {}
  BY <1>1, HelperTyped DEF Waited
<1>3. \E v \in sessions[s] : v.session = records[p].session
  BY <1>1, <1>2 DEF RecordInv
<1>4. SessionOf(p) \in sessions[s] /\ SessionOf(p).session = records[p].session
  BY <1>3 DEF SessionOf
<1> QED
  BY <1>1, <1>4, HelperTyped DEF ShardInv

LEMMA PushRecordSourcesInv ==
  ASSUME RosterIInv, NEW p \in Positions, NEW n \in 1 .. SourceChunks, PushRecordSources(p, n)
  PROVE  RosterIInv'
<1>0. /\ RecordOpen(p)
      /\ UNCHANGED <<identities, free, signedBody, confirmed, opened, begun, queue>>
  BY DEF PushRecordSources
<1>1. CASE ~records[p].keySent \/ n > SourceChunks - records[p].sources
  BY <1>0, <1>1, FailedStep DEF PushRecordSources
<1>2. CASE ~(~records[p].keySent \/ n > SourceChunks - records[p].sources)
  <2> DEFINE total == records[p].sources + n
             v == SessionOf(p)
             w == [v EXCEPT !.refused =
                     @ \/ (total = SourceChunks /\ "sources" \notin Parts[records[p].candidate])]
  <2>0. /\ records[p] \in OpenRecords /\ records[p].shard \in Shards /\ total \in Nat
        /\ ShardInv(records[p].shard) /\ RecordInv(p) /\ RosterTypeOK
    BY <1>0, OpenedBefore, RosterAssumption DEF RosterIInv, OpenRecords
  <2> PICK s \in Shards : s = records[p].shard
    BY <2>0
  <2> PICK r \in OpenRecords : r = [records[p] EXCEPT !.sources = total]
    BY <2>0 DEF OpenRecords
  <2>1. records[p] \in OpenRecords /\ total \in Nat /\ ShardInv(s) /\ RecordInv(p) /\ RosterTypeOK
    BY <2>0
  <2>2. /\ records' = [records EXCEPT ![p] = r]
        /\ r.candidate = records[p].candidate /\ r.session = records[p].session
        /\ r.shard = records[p].shard /\ r.sources = total
    BY <1>2, <2>1 DEF OpenRecords, PushRecordSources
  <2>3. /\ v \in sessions[s] /\ v.session = records[p].session /\ v \in HelperSessions
        /\ \A u \in sessions[s] : u.session = records[p].session => u = v
    BY <1>0, <1>2, SessionFound DEF PushRecordSources
  <2>4. /\ w \in HelperSessions /\ w.session = v.session /\ w.key = v.key
        /\ v.refused => w.refused
        /\ total = SourceChunks => w.refused \/ "sources" \in Parts[r.candidate]
    BY <2>2, <2>3 DEF HelperSessions
  <2>5. sessions' = [sessions EXCEPT ![s] = (@ \ {v}) \cup {w}] /\ queue[s] = <<>>
    BY <1>2 DEF PushRecordSources, Waited
  <2> HIDE DEF v, w, total
  <2>6. /\ sessions'[s] = (sessions[s] \ {v}) \cup {w}
        /\ \A z \in Shards : z # s => sessions'[z] = sessions[z]
        /\ sessions' \in [Shards -> SUBSET HelperSessions] /\ queue' \in [Shards -> Seq(Jobs)]
    BY <1>0, <2>1, <2>4, <2>5 DEF RosterTypeOK
  <2>7. DOMAIN queue'[s] = {}
    BY <1>0, <2>1, <2>5, HelperTyped
  <2>8. ShardInv(s)'
    <3>1. \A u \in sessions'[s] : u.session < opened'
      BY <1>0, <2>1, <2>3, <2>4, <2>6 DEF ShardInv
    <3>2. \A u, z \in sessions'[s] : u.session = z.session => u = z
      BY <2>1, <2>3, <2>4, <2>6 DEF ShardInv
    <3> QED
      BY <2>7, <3>1, <3>2 DEF ShardInv
  <2>9. records'[p] = r
    BY <1>0, <2>2, StreamedRecord
  <2>10. RecordInv(p)'
    <3>1. r.shard = s
      BY <2>2
    <3>2. "header" \in Parts[r.candidate] /\ w \in sessions'[s] /\ w.session = r.session
      BY <2>1, <2>2, <2>3, <2>4, <2>6 DEF RecordInv
    <3>3. ASSUME NEW u \in sessions'[s], u.session = r.session PROVE u = w
      BY <2>2, <2>3, <2>6, <3>3
    <3>4. w.key => w.refused \/ "key" \in Parts[r.candidate]
      BY <2>1, <2>2, <2>3, <2>4 DEF RecordInv
    <3> QED
      BY <2>2, <2>4, <2>7, <2>9, <3>1, <3>2, <3>3, <3>4 DEF RecordInv
  <2> QED
    <3>1. r.shard = s /\ \A z \in Shards : z # s => queue'[z] = queue[z] /\ sessions'[z] = sessions[z]
      BY <1>0, <2>2, <2>6
    <3> QED
      BY <1>0, <2>2, <2>6, <2>8, <2>10, <3>1, StreamStep
<1> QED
  BY <1>1, <1>2

\* What the records and the shards keep through a step of one position.
LEMMA OthersKept ==
  ASSUME RosterIInv, RosterTypeOK', NEW p \in Positions, NEW s \in Shards,
         \A q \in Positions : q # p => records'[q] = records[q],
         \A q \in Positions : q # p /\ RecordOpen(q) => records[q].shard # s,
         \A z \in Shards : z # s => queue'[z] = queue[z] /\ sessions'[z] = sessions[z],
         opened <= opened', ShardInv(s)', RecordOpen(p)' => RecordInv(p)'
  PROVE  /\ \A z \in Shards : ShardInv(z)'
         /\ \A q \in Positions : RecordOpen(q)' => RecordInv(q)'
<1>1. RosterTypeOK /\ (\A z \in Shards : ShardInv(z)) /\ (\A q \in Positions : RecordOpen(q) => RecordInv(q))
  BY DEF RosterIInv
<1>2. ASSUME NEW z \in Shards PROVE ShardInv(z)'
  BY <1>1, ShardKept
<1>3. ASSUME NEW q \in Positions, RecordOpen(q)', q # p PROVE RecordInv(q)'
  <2>1. records'[q] = records[q] /\ RecordOpen(q)
    BY <1>3 DEF RecordOpen
  <2>2. records[q].shard \in Shards /\ records[q].shard # s
    BY <1>1, <1>3, <2>1, RecordTyped DEF OpenRecords
  <2> QED
    BY <1>1, <2>1, <2>2, RecordKept
<1> QED
  BY <1>2, <1>3

\* What is confirmed or signed stays sound with them.
LEMMA ConfirmedKept ==
  ASSUME RosterIInv, UNCHANGED <<signedBody, confirmed>>
  PROVE  ConfirmedSound' /\ SignedSound'
BY DEF RosterIInv, RosterSound, ConfirmedSound, SignedSound, IsRoster

\* An open record is closed: its shard is free, and its helper keeps or ends the session.
LEMMA ClosedStep ==
  ASSUME RosterIInv, NEW p \in Positions, RecordOpen(p), NEW s \in Shards, s = records[p].shard,
         NEW r \in {Unread, Refused} \cup {VerifiedRecord(c) : c \in Candidates},
         r.state = "verified" =>
           SoundRegistration(r.candidate) /\ Identity[r.candidate] = identities[p],
         records' = [records EXCEPT ![p] = r], free' = free \cup {s},
         UNCHANGED <<identities, signedBody, confirmed, opened, begun>>,
         queue' \in [Shards -> Seq(Jobs)], sessions' \in [Shards -> SUBSET HelperSessions],
         \A z \in Shards : z # s => queue'[z] = queue[z] /\ sessions'[z] = sessions[z],
         ShardInv(s)'
  PROVE  RosterIInv'
<1>1. RosterTypeOK /\ RosterSound
  BY DEF RosterIInv
<1>2. /\ \A q \in Positions : records'[q] = IF q = p THEN r ELSE records[q]
      /\ records' \in [Positions -> OpenRecords \cup {Unread, Refused} \cup
                                     {VerifiedRecord(c) : c \in Candidates}]
  BY <1>1 DEF RosterTypeOK
<1>3. RosterTypeOK'
  BY <1>1, <1>2 DEF RosterTypeOK
<1>4. r.state # "open"
  BY DEF Unread, Refused, VerifiedRecord
<1>5. ~RecordOpen(p)' /\ \A q \in Positions : q # p => (RecordOpen(q)' <=> RecordOpen(q))
  BY <1>2, <1>4 DEF RecordOpen
<1>6. AcceptedSound'
  BY <1>1, <1>2 DEF RosterSound, AcceptedSound
<1>7. ShardsHeld'
  <2> DEFINE Held == {records[q].shard : q \in {z \in Positions : RecordOpen(z)}}
             Kept == {records'[q].shard : q \in {z \in Positions : RecordOpen(z)'}}
  <2>1. \A q \in Positions : RecordOpen(q)' => RecordOpen(q) /\ q # p /\ records'[q] = records[q]
    BY <1>2, <1>5
  <2>2. \A q \in Positions : RecordOpen(q) /\ q # p => records[q].shard # s
    BY ShardsApart
  <2>3. Kept = Held \ {s}
    BY <1>2, <1>5, <2>1, <2>2
  <2>4. free = Shards \ Held
    BY <1>1 DEF RosterSound, ShardsHeld
  <2>5. free' = Shards \ Kept
    BY <2>3, <2>4
  <2>6. \A q, z \in Positions : RecordOpen(q)' /\ RecordOpen(z)' /\ records'[q].shard = records'[z].shard => q = z
    BY <1>1, <2>1 DEF RosterSound, ShardsHeld
  <2> QED
    BY <2>5, <2>6 DEF ShardsHeld
<1>8. ConfirmedSound' /\ SignedSound'
  BY ConfirmedKept
<1>9. opened <= opened'
  BY <1>1 DEF RosterTypeOK
<1>10. /\ \A z \in Shards : ShardInv(z)'
       /\ \A q \in Positions : RecordOpen(q)' => RecordInv(q)'
  <2>1. \A q \in Positions : q # p => records'[q] = records[q]
    BY <1>2
  <2>2. \A q \in Positions : q # p /\ RecordOpen(q) => records[q].shard # s
    BY ShardsApart
  <2> QED
    BY <1>3, <1>5, <1>9, <2>1, <2>2, OthersKept
<1> QED
  BY <1>3, <1>6, <1>7, <1>8, <1>10 DEF RosterIInv, RosterSound

\* An open record is given up: its session is discarded at its helper.
LEMMA DroppedStep ==
  ASSUME RosterIInv, NEW p \in Positions, RecordOpen(p), NEW r \in {Unread, Refused},
         records' = [records EXCEPT ![p] = r], free' = free \cup {records[p].shard},
         Send(records[p].shard, Job("discard", records[p].session, records[p].candidate)),
         UNCHANGED <<identities, signedBody, confirmed, opened, begun, sessions>>
  PROVE  RosterIInv'
<1> DEFINE sent == Job("discard", records[p].session, records[p].candidate)
<1>1. /\ records[p] \in OpenRecords /\ records[p].shard \in Shards
      /\ records[p].session < opened /\ RosterTypeOK
  BY OpenedBefore DEF RosterIInv
<1> PICK s \in Shards : s = records[p].shard
  BY <1>1
<1>2. sent \in Jobs /\ sent.session = records[p].session /\ sent.operation = "discard" /\ Send(s, sent)
  BY <1>1 DEF Job, Jobs, OpenRecords
<1>3. sent.session < opened /\ sent.operation # "open"
  BY <1>1, <1>2
<1> HIDE DEF sent
<1>4. /\ queue' \in [Shards -> Seq(Jobs)] /\ queue'[s] = Append(queue[s], sent)
      /\ \A z \in Shards : z # s => queue'[z] = queue[z]
  BY <1>1, <1>2, Sent
<1>5. ShardInv(s)'
  BY <1>2, <1>3, <1>4, AppendedShard
<1>6. /\ sessions' \in [Shards -> SUBSET HelperSessions]
      /\ \A z \in Shards : z # s => queue'[z] = queue[z] /\ sessions'[z] = sessions[z]
  BY <1>1, <1>4 DEF RosterTypeOK
<1>7. r.state # "verified" /\ r \in {Unread, Refused} \cup {VerifiedRecord(c) : c \in Candidates}
  BY DEF Unread, Refused
<1> QED
  BY <1>4, <1>5, <1>6, <1>7, ClosedStep

LEMMA FinishRecordInv ==
  ASSUME RosterIInv, NEW p \in Positions, FinishRecord(p)
  PROVE  RosterIInv'
<1> DEFINE incomplete == records[p].failed \/ ~records[p].keySent \/ records[p].sources # SourceChunks
<1>0. /\ RecordOpen(p) /\ free' = free \cup {records[p].shard}
      /\ UNCHANGED <<identities, signedBody, confirmed, opened, begun>>
  BY DEF FinishRecord
<1>1. CASE incomplete
  <2>1. /\ records' = [records EXCEPT ![p] = Refused] /\ UNCHANGED sessions
        /\ Send(records[p].shard, Job("discard", records[p].session, records[p].candidate))
    BY <1>1 DEF FinishRecord
  <2> QED
    BY <1>0, <2>1, DroppedStep
<1>2. CASE ~incomplete
  <2>0. /\ records[p] \in OpenRecords /\ records[p].shard \in Shards
        /\ ShardInv(records[p].shard) /\ RecordInv(p) /\ RosterTypeOK
    BY <1>0, OpenedBefore DEF RosterIInv
  <2> PICK s \in Shards : s = records[p].shard
    BY <2>0
  <2> DEFINE accepted == Verdict(p) /\ Identity[records[p].candidate] = identities[p]
             v == SessionOf(p)
  <2> PICK r : r = IF accepted THEN VerifiedRecord(records[p].candidate) ELSE Refused
    OBVIOUS
  <2>1. /\ Waited(p) /\ records' = [records EXCEPT ![p] = r] /\ UNCHANGED queue
        /\ sessions' = [sessions EXCEPT ![s] = @ \ {v}]
    BY <1>2 DEF FinishRecord
  <2>2. v \in sessions[s] /\ v.session = records[p].session
    BY <1>0, <2>1, SessionFound
  <2>3. records[p].candidate \in Candidates /\ records[p].sources = SourceChunks
    BY <1>2, <2>0 DEF OpenRecords
  <2>4. accepted => /\ r = VerifiedRecord(records[p].candidate)
                    /\ SoundRegistration(records[p].candidate)
                    /\ Identity[records[p].candidate] = identities[p]
    <3>1. Parts[records[p].candidate] \in SUBSET {"header", "key", "sources", "signature"}
      BY <2>3, RosterAssumption
    <3>2. accepted => /\ v.key /\ ~v.refused /\ "signature" \in Parts[records[p].candidate]
      BY DEF Verdict
    <3>3. accepted => {"header", "key", "sources"} \subseteq Parts[records[p].candidate]
      BY <2>0, <2>2, <2>3, <3>2 DEF RecordInv
    <3>4. accepted => SoundRegistration(records[p].candidate)
      BY <3>1, <3>2, <3>3 DEF SoundRegistration
    <3> QED
      BY <3>4
  <2>5. /\ r \in {Unread, Refused} \cup {VerifiedRecord(c) : c \in Candidates}
        /\ r.state = "verified" =>
             SoundRegistration(r.candidate) /\ Identity[r.candidate] = identities[p]
    <3>1. CASE accepted
      BY <2>3, <2>4, <3>1 DEF VerifiedRecord
    <3>2. CASE ~accepted
      BY <3>2 DEF Refused
    <3> QED
      BY <3>1, <3>2
  <2>6. /\ sessions'[s] = sessions[s] \ {v}
        /\ \A z \in Shards : z # s => queue'[z] = queue[z] /\ sessions'[z] = sessions[z]
        /\ sessions' \in [Shards -> SUBSET HelperSessions] /\ queue' \in [Shards -> Seq(Jobs)]
    BY <2>0, <2>1 DEF RosterTypeOK
  <2>7. ShardInv(s)'
    BY <1>0, <2>0, <2>1, <2>6 DEF ShardInv
  <2> QED
    BY <1>0, <2>1, <2>5, <2>6, <2>7, ClosedStep
<1> QED
  BY <1>1, <1>2

\* A record that is neither open nor accepted changes, and the identity asked for with it.
LEMMA IdleStep ==
  ASSUME RosterIInv, NEW p \in Positions, records[p] \in {Unread, Refused},
         NEW r \in {Unread, Refused}, NEW i \in {Identity[c] : c \in Candidates} \cup {NoRoster},
         records' = [records EXCEPT ![p] = r], identities' = [identities EXCEPT ![p] = i],
         UNCHANGED <<free, signedBody, confirmed, opened, begun, queue, sessions>>
  PROVE  RosterIInv'
<1>1. RosterTypeOK /\ RosterSound
  BY DEF RosterIInv
<1>2. /\ \A q \in Positions : records'[q] = IF q = p THEN r ELSE records[q]
      /\ \A q \in Positions : identities'[q] = IF q = p THEN i ELSE identities[q]
      /\ RosterTypeOK'
  BY <1>1 DEF RosterTypeOK
<1>3. /\ records[p].state \notin {"open", "verified"} /\ records'[p].state \notin {"open", "verified"}
  BY <1>2 DEF Unread, Refused
<1>4. \A q \in Positions : /\ RecordOpen(q)' <=> RecordOpen(q)
                           /\ RecordOpen(q) => q # p /\ records'[q] = records[q]
  BY <1>2, <1>3 DEF RecordOpen
<1>5. AcceptedSound'
  BY <1>1, <1>2, <1>3 DEF RosterSound, AcceptedSound
<1>6. ShardsHeld'
  <2>1. {records'[q].shard : q \in {z \in Positions : RecordOpen(z)'}} =
        {records[q].shard : q \in {z \in Positions : RecordOpen(z)}}
    BY <1>4
  <2> QED
    BY <1>1, <1>4, <2>1 DEF RosterSound, ShardsHeld
<1>7. ConfirmedSound' /\ SignedSound'
  BY ConfirmedKept
<1>8. \A s \in Shards : ShardInv(s)'
  BY DEF RosterIInv, ShardInv
<1>9. ASSUME NEW q \in Positions, RecordOpen(q)' PROVE RecordInv(q)'
  <2>1. RecordInv(q) /\ records'[q] = records[q]
    BY <1>4, <1>9 DEF RosterIInv
  <2> QED
    BY <2>1, RecordKept
<1> QED
  BY <1>2, <1>5, <1>6, <1>7, <1>8, <1>9 DEF RosterIInv, RosterSound

LEMMA DiscardRecordInv ==
  ASSUME RosterIInv, NEW p \in Positions, DiscardRecord(p)
  PROVE  RosterIInv'
<1>0. /\ records[p].state # "verified" /\ records' = [records EXCEPT ![p] = Unread]
      /\ UNCHANGED <<identities, begun, signedBody, confirmed, sessions, opened>>
  BY DEF DiscardRecord, Discardable
<1>1. CASE RecordOpen(p)
  BY <1>0, <1>1, DroppedStep DEF DiscardRecord
<1>2. CASE ~RecordOpen(p)
  <2>1. /\ records[p] \in {Unread, Refused}
        /\ identities[p] \in {Identity[c] : c \in Candidates} \cup {NoRoster}
        /\ identities' = [identities EXCEPT ![p] = identities[p]]
    BY <1>0, <1>2 DEF RosterIInv, RosterTypeOK, RecordOpen, VerifiedRecord, OpenRecords
  <2>2. UNCHANGED <<free, queue>>
    BY <1>2 DEF DiscardRecord
  <2> QED
    BY <1>0, <2>1, <2>2, IdleStep
<1> QED
  BY <1>1, <1>2

LEMMA BeginRecordInv ==
  ASSUME RosterIInv, NEW p \in Positions, NEW c \in Candidates,
         NEW i \in {Identity[d] : d \in Candidates}, BeginRecord(p, c, i)
  PROVE  RosterIInv'
<1>0. /\ records[p] = Unread /\ free # {} /\ identities' = [identities EXCEPT ![p] = i]
      /\ UNCHANGED <<begun, signedBody, confirmed, sessions>>
  BY DEF BeginRecord
<1>1. RosterTypeOK /\ RosterSound /\ \A s \in Shards : ShardInv(s)
  BY DEF RosterIInv
<1>2. CASE "header" \notin Parts[c]
  <2>1. records' = [records EXCEPT ![p] = Refused] /\ UNCHANGED <<free, opened, queue>>
    BY <1>2 DEF BeginRecord
  <2> QED
    BY <1>0, <2>1, IdleStep
<1>3. CASE "header" \in Parts[c]
  <2>0. PICK s \in free : s = CHOOSE z \in free : TRUE
    BY <1>0
  <2>1. s \in Shards
    BY <1>1 DEF RosterTypeOK
  <2> PICK n \in Nat : n = opened
    BY <1>1 DEF RosterTypeOK
  <2> PICK r : r = OpenRecord(c, n, s)
    OBVIOUS
  <2> PICK sent : sent = Job("open", n, c)
    OBVIOUS
  <2>2. /\ records' = [records EXCEPT ![p] = r] /\ free' = free \ {s}
        /\ opened' = n + 1 /\ Send(s, sent)
    BY <1>3, <2>0 DEF BeginRecord
  <2>3. /\ r \in OpenRecords /\ r.state = "open" /\ r.candidate = c /\ r.session = n
        /\ r.shard = s /\ r.sources = 0
    BY <2>1 DEF OpenRecord, OpenRecords
  <2>4. sent \in Jobs /\ sent.operation = "open" /\ sent.session = n /\ sent.candidate = c
    BY DEF Job, Jobs
  <2>5. /\ queue' \in [Shards -> Seq(Jobs)]
        /\ \A z \in Shards : z # s => queue'[z] = queue[z]
        /\ queue'[s] = Append(queue[s], sent)
    BY <1>1, <2>1, <2>2, <2>4, Sent
  <2>6. /\ DOMAIN queue'[s] = DOMAIN queue[s] \cup {Len(queue[s]) + 1}
        /\ Len(queue[s]) + 1 \notin DOMAIN queue[s]
        /\ queue'[s][Len(queue[s]) + 1] = sent
        /\ \A k \in DOMAIN queue[s] : queue'[s][k] = queue[s][k]
    BY <1>1, <2>1, <2>4, <2>5, Appended
  <2>7. /\ \A q \in Positions : records'[q] = IF q = p THEN r ELSE records[q]
        /\ \A q \in Positions : identities'[q] = IF q = p THEN i ELSE identities[q]
        /\ records' \in [Positions -> OpenRecords \cup {Unread, Refused} \cup
                                       {VerifiedRecord(d) : d \in Candidates}]
    BY <1>0, <1>1, <2>2, <2>3 DEF RosterTypeOK
  <2>8. RosterTypeOK'
    BY <1>0, <1>1, <2>2, <2>5, <2>7 DEF RosterTypeOK
  <2>9. ~RecordOpen(p) /\ RecordOpen(p)' /\ \A q \in Positions : q # p => (RecordOpen(q)' <=> RecordOpen(q))
    BY <1>0, <2>3, <2>7 DEF RecordOpen, Unread
  <2>10. AcceptedSound'
    BY <1>1, <2>3, <2>7 DEF RosterSound, AcceptedSound
  <2>11. \A q \in Positions : RecordOpen(q) => records[q].shard # s
    <3>1. s \notin {records[q].shard : q \in {z \in Positions : RecordOpen(z)}}
      <4>1. free = Shards \ {records[q].shard : q \in {z \in Positions : RecordOpen(z)}}
        BY <1>1 DEF RosterSound, ShardsHeld
      <4>2. s \in free
        OBVIOUS
      <4> HIDE <2>0
      <4> QED
        BY <4>1, <4>2
    <3> QED
      BY <3>1
  <2>12. ShardsHeld'
    <3> DEFINE Held == {records[q].shard : q \in {z \in Positions : RecordOpen(z)}}
               Kept == {records'[q].shard : q \in {z \in Positions : RecordOpen(z)'}}
    <3>1. Kept = Held \cup {s}
      BY <2>3, <2>7, <2>9
    <3>2. free' = Shards \ Kept
      BY <1>1, <2>2, <3>1 DEF RosterSound, ShardsHeld
    <3>3. \A q, z \in Positions : RecordOpen(q)' /\ RecordOpen(z)' /\ records'[q].shard = records'[z].shard => q = z
      BY <1>1, <2>3, <2>7, <2>9, <2>11 DEF RosterSound, ShardsHeld
    <3> QED
      BY <3>2, <3>3 DEF ShardsHeld
  <2>13. /\ \A k \in DOMAIN queue[s] : queue[s][k].session < n /\ queue[s][k].session # n
                                       /\ queue[s][k].session < n + 1
         /\ \A v \in sessions[s] : v.session < n /\ v.session # n /\ v.session < n + 1
    <3>1. /\ \A k \in DOMAIN queue[s] : queue[s][k].session \in Nat
          /\ \A v \in sessions[s] : v.session \in Nat
      BY <1>1, <2>1, HelperTyped DEF Jobs, HelperSessions
    <3>2. /\ \A k \in DOMAIN queue[s] : queue[s][k].session < n
          /\ \A v \in sessions[s] : v.session < n
      BY <1>1, <2>1 DEF ShardInv
    <3> QED
      BY <3>1, <3>2
  <2>14. ShardInv(s)'
    <3>1. \A k \in DOMAIN queue'[s] : queue'[s][k].session < opened'
      BY <2>2, <2>4, <2>6, <2>13
    <3>2. \A v \in sessions'[s] : v.session < opened'
      BY <1>0, <2>2, <2>13
    <3>3. \A v, w \in sessions'[s] : v.session = w.session => v = w
      BY <1>0, <1>1, <2>1 DEF ShardInv
    <3>4. ASSUME NEW k \in DOMAIN queue'[s], queue'[s][k].operation = "open"
          PROVE  /\ \A v \in sessions'[s] : v.session # queue'[s][k].session
                 /\ \A j \in DOMAIN queue'[s] :
                      queue'[s][j].operation = "open" /\ queue'[s][j].session = queue'[s][k].session => j = k
      BY <1>0, <1>1, <2>1, <2>4, <2>6, <2>13, <3>4 DEF ShardInv
    <3> QED
      BY <3>1, <3>2, <3>3, <3>4 DEF ShardInv
  <2>15. RecordInv(p)'
    <3>1. \A k \in DOMAIN queue'[s] : queue'[s][k].session = n =>
            queue'[s][k].operation # "discard" /\ queue'[s][k].candidate = c
      BY <2>4, <2>6, <2>13
    <3>2. \E k \in DOMAIN queue'[s] : queue'[s][k].session = n /\ queue'[s][k].operation = "open"
      BY <2>4, <2>6
    <3>3. \A v \in sessions'[s] : v.session # n
      BY <1>0, <2>13
    <3>4. records'[p] = r
      BY <2>7
    <3> QED
      BY <1>3, <2>3, <3>1, <3>2, <3>3, <3>4 DEF RecordInv
  <2>16. /\ \A z \in Shards : ShardInv(z)'
         /\ \A q \in Positions : RecordOpen(q)' => RecordInv(q)'
    <3>1. \A q \in Positions : q # p => records'[q] = records[q]
      BY <2>7
    <3>2. \A z \in Shards : z # s => queue'[z] = queue[z] /\ sessions'[z] = sessions[z]
      BY <1>0, <2>5
    <3>3. opened <= opened'
      BY <2>2
    <3> QED
      BY <2>1, <2>8, <2>11, <2>14, <2>15, <3>1, <3>2, <3>3, OthersKept
  <2>17. ConfirmedSound' /\ SignedSound'
    BY <1>0, ConfirmedKept
  <2> QED
    BY <2>8, <2>10, <2>12, <2>16, <2>17 DEF RosterIInv, RosterSound
<1> QED
  BY <1>2, <1>3

LEMMA VerifySignatureInv ==
  ASSUME RosterIInv, VerifySignature
  PROVE  RosterIInv'
<1>1. /\ signedBody' = Proposal /\ IsRoster(Proposal)
      /\ \A p \in Positions : records[p].state = "verified" /\ SoundRegistration(records[p].candidate)
      /\ UNCHANGED <<records, identities, free, begun, confirmed, queue, sessions, opened>>
  BY DEF VerifySignature, helpers, RosterIInv, RosterSound, AcceptedSound
<1>2. \A p \in Positions : signedBody'[p] = records[p].candidate
  BY <1>1 DEF Proposal
<1>3. SignedSound'
  BY <1>1, <1>2 DEF SignedSound, IsRoster
<1>4. RosterTypeOK' /\ RosterSound'
  BY <1>1 DEF RosterIInv, RosterTypeOK, RosterSound, AcceptedSound, ShardsHeld, ConfirmedSound, RecordOpen
<1>5. (\A s \in Shards : ShardInv(s)') /\ \A p \in Positions : RecordOpen(p)' => RecordInv(p)'
  BY <1>1 DEF RosterIInv, ShardInv, RecordInv, RecordOpen
<1> QED
  BY <1>3, <1>4, <1>5 DEF RosterIInv

LEMMA ConfirmRosterInv ==
  ASSUME RosterIInv, ConfirmRoster
  PROVE  RosterIInv'
<1>1. /\ signedBody # NoRoster /\ (\E p \in Positions : Identity[signedBody[p]] = OwnIdentity)
      /\ confirmed' = signedBody
      /\ UNCHANGED <<records, identities, free, begun, signedBody, queue, sessions, opened>>
  BY DEF ConfirmRoster, helpers
<1>2. IsRoster(signedBody) /\ \A p \in Positions : SoundRegistration(signedBody[p])
  BY <1>1 DEF RosterIInv, SignedSound
<1>3. ConfirmedSound'
  BY <1>1, <1>2 DEF ConfirmedSound, IsRoster
<1>4. SignedSound'
  BY <1>1, <1>2 DEF SignedSound, IsRoster
<1>5. RosterTypeOK' /\ AcceptedSound' /\ ShardsHeld'
  BY <1>1 DEF RosterIInv, RosterTypeOK, RosterSound, AcceptedSound, ShardsHeld, RecordOpen
<1>6. (\A s \in Shards : ShardInv(s)') /\ \A p \in Positions : RecordOpen(p)' => RecordInv(p)'
  BY <1>1 DEF RosterIInv, ShardInv, RecordInv, RecordOpen
<1> QED
  BY <1>3, <1>4, <1>5, <1>6 DEF RosterIInv, RosterSound

LEMMA StartRosterInv ==
  ASSUME RosterIInv, StartRoster
  PROVE  RosterIInv'
<1> DEFINE Holders(s) == {p \in Positions : RecordOpen(p) /\ records[p].shard = s}
           Holder(s) == CHOOSE p \in Holders(s) : TRUE
           Drop(p) == Job("discard", records[p].session, records[p].candidate)
<1>1. /\ begun' = begun + 1 /\ records' = Fresh /\ identities' = [p \in Positions |-> NoRoster]
      /\ free' = Shards /\ signedBody' = NoRoster
      /\ UNCHANGED <<confirmed, sessions, opened>>
  BY DEF StartRoster
<1>2. queue' = [s \in Shards |-> IF Holders(s) = {} THEN queue[s]
                                 ELSE Append(queue[s], Drop(Holder(s)))]
  BY DEF StartRoster
<1>3. RosterTypeOK /\ opened \in Nat
  BY DEF RosterIInv, RosterTypeOK
<1>4. ASSUME NEW s \in Shards PROVE queue'[s] \in Seq(Jobs) /\ (RosterTypeOK' => ShardInv(s)')
  <2>1. CASE Holders(s) = {}
    <3>1. queue'[s] = queue[s] /\ queue[s] \in Seq(Jobs)
      BY <1>2, <1>3, <2>1, HelperTyped
    <3>2. ShardInv(s) /\ sessions'[s] = sessions[s] /\ opened <= opened'
      BY <1>1, <1>3 DEF RosterIInv
    <3> QED
      BY <1>3, <3>1, <3>2, ShardKept
  <2>2. CASE Holders(s) # {}
    <3>1. PICK p \in Positions : p = Holder(s) /\ RecordOpen(p) /\ records[p].shard = s
      BY <2>2
    <3>2. PICK sent : sent = Drop(p)
      OBVIOUS
    <3>3. queue'[s] = Append(queue[s], sent)
      BY <1>2, <2>2, <3>1, <3>2
    <3>4. records[p] \in OpenRecords /\ records[p].session < opened
      BY <3>1, OpenedBefore
    <3>5. sent \in Jobs /\ sent.session < opened /\ sent.operation # "open"
      BY <3>2, <3>4 DEF Job, Jobs, OpenRecords
    <3>6. queue'[s] \in Seq(Jobs)
      BY <1>3, <3>3, <3>5, Appended
    <3>7. ShardInv(s)'
      BY <1>1, <3>3, <3>5, AppendedShard
    <3> QED
      BY <3>6, <3>7
  <2> QED
    BY <2>1, <2>2
<1>5. \A p \in Positions : records'[p] = Unread /\ ~RecordOpen(p)'
  BY <1>1 DEF Fresh, RecordOpen, Unread
<1>6. queue' \in [Shards -> Seq(Jobs)]
  BY <1>2, <1>4
<1>7. RosterTypeOK'
  BY <1>1, <1>3, <1>6 DEF RosterTypeOK, Fresh
<1>8. AcceptedSound' /\ ShardsHeld'
  BY <1>1, <1>5 DEF AcceptedSound, ShardsHeld, Unread
<1>9. ConfirmedSound' /\ SignedSound'
  BY <1>1 DEF RosterIInv, RosterSound, ConfirmedSound, SignedSound
<1> QED
  BY <1>4, <1>5, <1>7, <1>8, <1>9 DEF RosterIInv, RosterSound

\* A helper runs the next job of its shard.
LEMMA RunJobInv ==
  ASSUME RosterIInv, NEW s \in Shards, RunJob(s)
  PROVE  RosterIInv'
<1>0. /\ queue[s] # <<>> /\ queue' = [queue EXCEPT ![s] = Tail(@)]
      /\ sessions' = [sessions EXCEPT ![s] = Ran(s, Head(queue[s]))]
      /\ UNCHANGED <<records, identities, free, begun, signedBody, confirmed, opened>>
  BY DEF RunJob, worker
<1>1. RosterTypeOK /\ ShardInv(s) /\ (\A q \in Positions : RecordOpen(q) => RecordInv(q))
  BY DEF RosterIInv
<1>2. queue[s] \in Seq(Jobs) /\ DOMAIN queue[s] = 1 .. Len(queue[s]) /\ sessions[s] \subseteq HelperSessions
  BY <1>1, HelperTyped
<1>3. PICK sent \in Jobs : sent = Head(queue[s]) /\ sent = queue[s][1]
  BY <1>0, <1>2
<1>4. /\ queue'[s] = Tail(queue[s]) /\ sessions'[s] = Ran(s, sent)
      /\ \A z \in Shards : z # s => queue'[z] = queue[z] /\ sessions'[z] = sessions[z]
  BY <1>0, <1>1, <1>3 DEF RosterTypeOK
<1>5. /\ 1 \in DOMAIN queue[s] /\ queue'[s] \in Seq(Jobs)
      /\ \A k \in DOMAIN queue'[s] :
           k + 1 \in DOMAIN queue[s] /\ queue'[s][k] = queue[s][k + 1] /\ k + 1 # 1 /\ k \in Nat
      /\ \A k \in DOMAIN queue[s] : k # 1 =>
           k - 1 \in DOMAIN queue'[s] /\ queue'[s][k - 1] = queue[s][k]
  <2> PICK jobs \in Seq(Jobs) : jobs = queue[s]
    BY <1>2
  <2>1. jobs # <<>> /\ Len(jobs) \in Nat /\ Len(jobs) # 0 /\ DOMAIN jobs = 1 .. Len(jobs)
    BY <1>0
  <2>2. /\ Tail(jobs) \in Seq(Jobs) /\ DOMAIN Tail(jobs) = 1 .. Len(jobs) - 1
        /\ \A k \in 1 .. Len(jobs) - 1 : Tail(jobs)[k] = jobs[k + 1]
    BY <2>1
  <2>3. \A k \in DOMAIN Tail(jobs) : k + 1 \in DOMAIN jobs /\ Tail(jobs)[k] = jobs[k + 1] /\ k + 1 # 1 /\ k \in Nat
    BY <2>1, <2>2
  <2>4. \A k \in DOMAIN jobs : k # 1 => k - 1 \in DOMAIN Tail(jobs) /\ Tail(jobs)[k - 1] = jobs[k]
    <3> TAKE k \in DOMAIN jobs
    <3>1. k # 1 => k - 1 \in 1 .. Len(jobs) - 1 /\ (k - 1) + 1 = k
      BY <2>1
    <3> QED
      BY <2>2, <3>1
  <2>5. 1 \in DOMAIN jobs /\ queue'[s] = Tail(jobs)
    BY <1>4, <2>1
  <2> QED
    BY <2>2, <2>3, <2>4, <2>5
<1> DEFINE Opened == [session |-> sent.session, candidate |-> sent.candidate,
                      key |-> FALSE, refused |-> FALSE]
           Keyed(v) == [v EXCEPT !.key = TRUE, !.refused = @ \/ "key" \notin Parts[sent.candidate]]
           Others == {v \in sessions[s] : v.session # sent.session}
<1>6. /\ sent.operation = "open" => sessions'[s] = sessions[s] \cup {Opened}
      /\ sent.operation = "key" => sessions'[s] = Others \cup {Keyed(v) : v \in sessions[s] \ Others}
      /\ sent.operation = "discard" => sessions'[s] = Others
      /\ sent.operation \in {"open", "key", "discard"}
  BY <1>4 DEF Ran, Jobs
<1>7. /\ Opened \in HelperSessions /\ Opened.session = sent.session /\ ~Opened.key
      /\ \A v \in sessions[s] :
           /\ Keyed(v) \in HelperSessions /\ Keyed(v).session = v.session
           /\ Keyed(v).refused \/ "key" \in Parts[sent.candidate]
           /\ v.refused => Keyed(v).refused
  BY <1>2 DEF HelperSessions, Jobs
<1> HIDE DEF Opened, Keyed
\* Each session of the shard is one of before, or the one just opened.
<1>8. \A u \in sessions'[s] :
        /\ u \in HelperSessions
        /\ \/ sent.operation = "open" /\ u = Opened
           \/ u \in sessions[s] /\ (sent.operation # "open" => u.session # sent.session)
           \/ \E v \in sessions[s] : /\ sent.operation = "key" /\ u = Keyed(v)
                                     /\ u.session = v.session /\ v.session = sent.session
  BY <1>2, <1>6, <1>7
<1>9. RosterTypeOK'
  <2>1. queue' \in [Shards -> Seq(Jobs)]
    BY <1>0, <1>1, <1>4, <1>5 DEF RosterTypeOK
  <2>2. sessions' \in [Shards -> SUBSET HelperSessions]
    BY <1>0, <1>1, <1>4, <1>8 DEF RosterTypeOK
  <2> QED
    BY <1>0, <1>1, <2>1, <2>2 DEF RosterTypeOK
<1>10. ShardInv(s)'
  <2>1. \A k \in DOMAIN queue'[s] : queue'[s][k].session < opened'
    BY <1>0, <1>1, <1>5 DEF ShardInv
  <2>2. sent.session < opened
    BY <1>1, <1>3, <1>5 DEF ShardInv
  <2>3. ASSUME NEW u \in sessions'[s] PROVE u.session < opened'
    BY <1>0, <1>1, <1>7, <1>8, <2>2 DEF ShardInv
  <2>4. sent.operation = "open" => \A v \in sessions[s] : v.session # sent.session
    BY <1>1, <1>3, <1>5 DEF ShardInv
  <2>5. ASSUME NEW u \in sessions'[s], NEW w \in sessions'[s], u.session = w.session PROVE u = w
    BY <1>1, <1>7, <1>8, <2>4, <2>5 DEF ShardInv
  <2>6. ASSUME NEW k \in DOMAIN queue'[s], queue'[s][k].operation = "open"
        PROVE  /\ \A v \in sessions'[s] : v.session # queue'[s][k].session
               /\ \A j \in DOMAIN queue'[s] :
                    queue'[s][j].operation = "open" /\ queue'[s][j].session = queue'[s][k].session => j = k
    <3>1. /\ k + 1 \in DOMAIN queue[s] /\ queue[s][k + 1].operation = "open"
          /\ queue'[s][k] = queue[s][k + 1] /\ k + 1 # 1
      BY <1>5, <2>6
    <3>2. \A v \in sessions[s] : v.session # queue[s][k + 1].session
      BY <1>1, <3>1 DEF ShardInv
    <3>3. sent.operation = "open" => sent.session # queue[s][k + 1].session
      BY <1>1, <1>3, <1>5, <3>1 DEF ShardInv
    <3>4. \A v \in sessions'[s] : v.session # queue'[s][k].session
      BY <1>7, <1>8, <3>1, <3>2, <3>3
    <3>5. ASSUME NEW j \in DOMAIN queue'[s], queue'[s][j].operation = "open",
                 queue'[s][j].session = queue'[s][k].session
          PROVE  j = k
      <4>1. j + 1 = k + 1 /\ j \in Nat /\ k \in Nat
        BY <1>1, <1>5, <3>1, <3>5 DEF ShardInv
      <4> QED
        BY <4>1
    <3> QED
      BY <3>4, <3>5
  <2> QED
    BY <2>1, <2>3, <2>5, <2>6 DEF ShardInv
<1>11. ASSUME NEW q \in Positions, RecordOpen(q)' PROVE RecordInv(q)'
  <2>1. records'[q] = records[q] /\ RecordOpen(q) /\ RecordInv(q)
    BY <1>0, <1>1, <1>11 DEF RecordOpen
  <2>2. records[q].shard \in Shards
    BY <1>1, <2>1, RecordTyped DEF OpenRecords
  <2>3. CASE records[q].shard # s
    BY <1>4, <2>1, <2>2, <2>3, RecordKept
  <2>4. CASE records[q].shard = s
    <3> PICK r : r = records[q]
      OBVIOUS
    <3>1. /\ "header" \in Parts[r.candidate] /\ r.shard = s
          /\ \A i \in DOMAIN queue[s] : queue[s][i].session = r.session =>
               /\ queue[s][i].operation # "discard" /\ queue[s][i].candidate = r.candidate
               /\ queue[s][i].operation = "open" => r.sources = 0
          /\ \/ \E v \in sessions[s] : v.session = r.session
             \/ \E i \in DOMAIN queue[s] : queue[s][i].session = r.session /\ queue[s][i].operation = "open"
          /\ \A v \in sessions[s] : v.session = r.session =>
               /\ v.key => v.refused \/ "key" \in Parts[r.candidate]
               /\ r.sources = SourceChunks => v.refused \/ "sources" \in Parts[r.candidate]
      BY <2>1, <2>4 DEF RecordInv
    <3>2. \A i \in DOMAIN queue'[s] : queue'[s][i].session = r.session =>
            /\ queue'[s][i].operation # "discard" /\ queue'[s][i].candidate = r.candidate
            /\ queue'[s][i].operation = "open" => r.sources = 0
      BY <1>5, <3>1
    <3>3. sent.session = r.session => /\ sent.operation # "discard" /\ sent.candidate = r.candidate
                                      /\ sent.operation = "open" => r.sources = 0
      BY <1>3, <1>5, <3>1
    <3>4. \/ \E v \in sessions'[s] : v.session = r.session
          \/ \E i \in DOMAIN queue'[s] : queue'[s][i].session = r.session /\ queue'[s][i].operation = "open"
      <4>1. ASSUME NEW v \in sessions[s], v.session = r.session
            PROVE  \E u \in sessions'[s] : u.session = r.session
        <5>1. CASE v.session # sent.session
          BY <1>6, <4>1, <5>1
        <5>2. CASE v.session = sent.session
          BY <1>6, <1>7, <3>3, <4>1, <5>2
        <5> QED
          BY <5>1, <5>2
      <4>2. ASSUME NEW i \in DOMAIN queue[s], queue[s][i].session = r.session, queue[s][i].operation = "open"
            PROVE  \/ \E v \in sessions'[s] : v.session = r.session
                   \/ \E k \in DOMAIN queue'[s] : queue'[s][k].session = r.session /\ queue'[s][k].operation = "open"
        <5>1. CASE i = 1
          BY <1>3, <1>6, <1>7, <4>2, <5>1
        <5>2. CASE i # 1
          BY <1>5, <4>2, <5>2
        <5> QED
          BY <5>1, <5>2
      <4> QED
        BY <3>1, <4>1, <4>2
    <3>5. ASSUME NEW u \in sessions'[s], u.session = r.session
          PROVE  /\ u.key => u.refused \/ "key" \in Parts[r.candidate]
                 /\ r.sources = SourceChunks => u.refused \/ "sources" \in Parts[r.candidate]
      <4>1. CASE sent.operation = "open" /\ u = Opened
        BY <1>7, <3>3, <3>5, <4>1, RosterAssumption
      <4>2. CASE u \in sessions[s]
        BY <3>1, <3>5, <4>2
      <4>3. ASSUME NEW v \in sessions[s], u = Keyed(v), u.session = v.session, v.session = sent.session
            PROVE  /\ u.key => u.refused \/ "key" \in Parts[r.candidate]
                   /\ r.sources = SourceChunks => u.refused \/ "sources" \in Parts[r.candidate]
        BY <1>7, <3>1, <3>3, <3>5, <4>3
      <4> QED
        BY <1>8, <4>1, <4>2, <4>3
    <3>6. records'[q] = r
      BY <2>1
    <3> QED
      BY <3>1, <3>2, <3>4, <3>5, <3>6 DEF RecordInv
  <2> QED
    BY <2>3, <2>4
<1>12. ASSUME NEW z \in Shards PROVE ShardInv(z)'
  <2>1. opened <= opened' /\ ShardInv(z)
    BY <1>0, <1>1 DEF RosterIInv, RosterTypeOK
  <2> QED
    BY <1>1, <1>4, <1>9, <1>10, <2>1, ShardKept
<1>13. AcceptedSound' /\ ShardsHeld'
  BY <1>0 DEF RosterIInv, RosterSound, AcceptedSound, ShardsHeld, RecordOpen
<1>14. ConfirmedSound' /\ SignedSound'
  BY <1>0, ConfirmedKept
<1> QED
  BY <1>9, <1>11, <1>12, <1>13, <1>14 DEF RosterIInv, RosterSound

LEMMA RosterInvInit == RosterInit => RosterIInv
<1> SUFFICES ASSUME RosterInit PROVE RosterIInv
  OBVIOUS
<1>1. \A p \in Positions : records[p] = Unread /\ ~RecordOpen(p) /\ records[p].state # "verified"
  BY DEF RosterInit, Fresh, RecordOpen, Unread
<1>2. RosterTypeOK
  BY DEF RosterInit, RosterTypeOK, Fresh
<1>3. AcceptedSound /\ ConfirmedSound /\ SignedSound
  BY <1>1 DEF RosterInit, AcceptedSound, ConfirmedSound, SignedSound
<1>4. ShardsHeld
  BY <1>1 DEF RosterInit, ShardsHeld
<1>5. \A s \in Shards : ShardInv(s)
  BY DEF RosterInit, ShardInv
<1> QED
  BY <1>1, <1>2, <1>3, <1>4, <1>5 DEF RosterIInv, RosterSound

LEMMA RosterInductive ==
  ASSUME RosterIInv, [RosterNext]_rosterVars
  PROVE  RosterIInv'
<1>1. CASE UNCHANGED rosterVars
  <2>1. UNCHANGED <<records, identities, free, begun, signedBody, confirmed, queue, sessions, opened>>
    BY <1>1 DEF rosterVars, worker, helpers
  <2>2. RosterTypeOK' /\ SignedSound'
    BY <2>1 DEF RosterIInv, RosterTypeOK, SignedSound, IsRoster
  <2>3. RosterSound'
    BY <2>1 DEF RosterIInv, RosterSound, AcceptedSound, ShardsHeld, ConfirmedSound, RecordOpen
  <2>4. (\A s \in Shards : ShardInv(s)') /\ \A p \in Positions : RecordOpen(p)' => RecordInv(p)'
    BY <2>1 DEF RosterIInv, ShardInv, RecordInv, RecordOpen
  <2> QED
    BY <2>2, <2>3, <2>4 DEF RosterIInv
<1>2. ASSUME NEW s \in Shards, RunJob(s) PROVE RosterIInv'
  BY <1>2, RunJobInv
<1>3. CASE VerifySignature \/ ConfirmRoster \/ StartRoster
  BY <1>3, VerifySignatureInv, ConfirmRosterInv, StartRosterInv
<1>4. ASSUME NEW p \in Positions, FinishRecordKey(p) \/ FinishRecord(p) \/ DiscardRecord(p)
      PROVE  RosterIInv'
  BY <1>4, FinishRecordKeyInv, FinishRecordInv, DiscardRecordInv
<1>5. ASSUME NEW p \in Positions, NEW n \in 1 .. RegistrationKeyChunks, PushRecordKey(p, n)
      PROVE  RosterIInv'
  BY <1>5, PushRecordKeyInv
<1>6. ASSUME NEW p \in Positions, NEW n \in 1 .. SourceChunks, PushRecordSources(p, n)
      PROVE  RosterIInv'
  BY <1>6, PushRecordSourcesInv
<1>7. ASSUME NEW p \in Positions, NEW c \in Candidates, NEW i \in {Identity[d] : d \in Candidates},
             BeginRecord(p, c, i)
      PROVE  RosterIInv'
  BY <1>7, BeginRecordInv
<1> QED
  BY <1>1, <1>2, <1>3, <1>4, <1>5, <1>6, <1>7 DEF RosterNext, WorkerStep

LEMMA RosterInvariant == RosterSpec => []RosterIInv
BY RosterInvInit, RosterInductive, PTL DEF RosterSpec

\* For any number of positions, candidates and shards, and however far the helpers are
\* behind: every accepted record is a sound registration of the identity asked for, no
\* two records share a helper and none is lost, and a confirmed roster holds distinct
\* sound registrations with the organizer's and the own one: roster-input.rs and
\* registration-session.rs.
THEOREM RosterIsSound == RosterSpec => []RosterSound
<1>1. RosterIInv => RosterSound
  BY DEF RosterIInv
<1> QED
  BY <1>1, RosterInvariant, PTL

\* No step replaces a confirmed roster, nor an accepted record while its roster is the
\* one begun last: discard_record refuses it, and confirm_roster a second roster.
THEOREM AcceptedStays == RosterSpec => AcceptedFixed
<1> DEFINE Fixed == /\ confirmed # NoRoster => confirmed' = confirmed
                    /\ begun' = begun =>
                         \A p \in Positions : records[p].state = "verified" => records'[p] = records[p]
<1>1. ASSUME RosterIInv, [RosterNext]_rosterVars PROVE Fixed
  <2>1. begun \in Nat /\ RosterTypeOK
    BY <1>1 DEF RosterIInv, RosterTypeOK
  <2>2. CASE UNCHANGED rosterVars
    BY <2>2 DEF rosterVars, worker
  <2>3. CASE \E s \in Shards : RunJob(s)
    BY <2>3 DEF RunJob, worker
  <2>4. CASE VerifySignature \/ ConfirmRoster
    BY <2>4 DEF VerifySignature, ConfirmRoster
  <2>5. CASE StartRoster
    BY <2>1, <2>5 DEF StartRoster
  <2>6. ASSUME NEW p \in Positions, NEW r, records[p].state # "verified",
               records' = [records EXCEPT ![p] = r], confirmed' = confirmed
        PROVE  Fixed
    BY <2>1, <2>6 DEF RosterTypeOK
  <2>7. ASSUME NEW p \in Positions, RecordOpen(p), confirmed' = confirmed,
               \/ records' = [records EXCEPT ![p].failed = TRUE]
               \/ records' = [records EXCEPT ![p].keySent = TRUE]
               \/ \E n : records' = [records EXCEPT ![p].key = n]
               \/ \E n : records' = [records EXCEPT ![p].sources = n]
               \/ \E r : records' = [records EXCEPT ![p] = r]
        PROVE  Fixed
    <3>1. records[p].state # "verified"
      BY <2>7 DEF RecordOpen
    <3>2. \E r : records' = [records EXCEPT ![p] = r]
      BY <2>7
    <3> QED
      BY <2>6, <2>7, <3>1, <3>2
  <2>8. ASSUME NEW p \in Positions, FinishRecordKey(p) \/ FinishRecord(p) PROVE Fixed
    BY <2>7, <2>8 DEF FinishRecordKey, FinishRecord
  <2>9. ASSUME NEW p \in Positions, DiscardRecord(p) PROVE Fixed
    BY <2>6, <2>9 DEF DiscardRecord, Discardable
  <2>10. ASSUME NEW p \in Positions, NEW n \in 1 .. RegistrationKeyChunks, PushRecordKey(p, n) PROVE Fixed
    BY <2>7, <2>10 DEF PushRecordKey
  <2>11. ASSUME NEW p \in Positions, NEW n \in 1 .. SourceChunks, PushRecordSources(p, n) PROVE Fixed
    BY <2>7, <2>11 DEF PushRecordSources
  <2>12. ASSUME NEW p \in Positions, NEW c \in Candidates, NEW i \in {Identity[d] : d \in Candidates},
                BeginRecord(p, c, i)
         PROVE  Fixed
    <3>1. records[p].state # "verified" /\ confirmed' = confirmed
      BY <2>12 DEF BeginRecord, Unread
    <3>2. \E r : records' = [records EXCEPT ![p] = r]
      BY <2>12 DEF BeginRecord
    <3> QED
      BY <2>6, <3>1, <3>2
  <2> QED
    BY <1>1, <2>2, <2>3, <2>4, <2>5, <2>8, <2>9, <2>10, <2>11, <2>12 DEF RosterNext, WorkerStep
<1> QED
  BY <1>1, RosterInvariant, PTL DEF RosterSpec, AcceptedFixed

----
(* The proof of an offer *)

\* A work other than the refusal is a prover exactly when it has a prover's fields.
LEMMA WorkKinds ==
  /\ \A w \in Provers : w # NoWork => IsProver(w)
  /\ \A w \in Generators : ~IsProver(w)
  /\ \A w \in Generators \cup Provers \cup {NoWork} : IsProver(w) => w \in Provers /\ w # NoWork
BY DEF Provers, Generators, IsProver

\* The passes and the phases keep a prover well typed.
LEMMA AtType == ASSUME NEW w \in Provers, NEW p \in Phases PROVE At(w, p) \in Provers
BY DEF At, Provers

LEMMA ClosedType ==
  ASSUME NEW w \in Provers, NEW b \in BOOLEAN, NEW n \in Nat
  PROVE  /\ [w EXCEPT !.open = NoWork, !.publicSound = b, !.public = n] \in Provers
         /\ [w EXCEPT !.open = NoWork, !.sound = b, !.next = n] \in Provers
<1>1. [w EXCEPT !.open = NoWork, !.publicSound = b, !.public = n] \in Provers
  BY DEF Provers
<1>2. [w EXCEPT !.open = NoWork, !.sound = b, !.next = n] \in Provers
  BY DEF Provers
<1> QED BY <1>1, <1>2

LEMMA RowType ==
  ASSUME NEW w \in Provers, NEW k \in Nat, NEW n \in Nat, NEW h \in SUBSET Oracles
  PROVE  [w EXCEPT !.rows = k, !.stage = n, !.held = h] \in Provers
BY DEF Provers

\* A change of a prover that keeps its seed and its records, and does not go back
\* before the first column.
Onward(w, v) ==
  /\ v.parts = w.parts /\ v.seed = w.seed
  /\ v.phase # "firstInitialize"
  /\ v.phase = "firstColumn" => \/ w.phase = "firstInitialize"
                                \/ w.phase = "firstColumn" /\ v.index >= w.index

\* Such a change keeps what the prover was resumed from.
LEMMA OnwardParts ==
  ASSUME NEW w \in Provers, NEW v \in Provers, PartsInv(w), Onward(w, v)
  PROVE  PartsInv(v)
<1>1. SUFFICES ASSUME v.parts # {}
               PROVE  \E h \in v.parts :
                         /\ v.parts = {h} /\ h.seed = v.seed
                         /\ v.phase = "firstColumn" => v.index >= h.column
                         /\ \A i \in 0..(CheckpointRecords - 1) : Record(h, i) \in sealed
  BY DEF PartsInv, Onward
<1>2. w.parts # {} /\ w.phase # "firstInitialize"
  BY <1>1 DEF PartsInv, Onward
<1>3. PICK h \in w.parts :
        /\ w.parts = {h} /\ h.seed = w.seed
        /\ w.phase = "firstColumn" => w.index >= h.column
        /\ \A i \in 0..(CheckpointRecords - 1) : Record(h, i) \in sealed
  BY <1>2 DEF PartsInv
<1>4. w.index \in Nat /\ v.index \in Nat /\ h.column \in Nat
  BY <1>3 DEF Provers, Headers
<1>5. v.phase = "firstColumn" => v.index >= h.column
  BY <1>2, <1>3, <1>4 DEF Onward
<1> QED
  BY <1>3, <1>5 DEF Onward

\* The prover that a finished generation starts satisfies the invariant.
LEMMA ProverStarts ==
  ASSUME NEW seed \in GeneratorSeeds
  PROVE  Prover(seed) \in Provers /\ WorkInv(Prover(seed))
<1>1. Prover(seed) \in Provers
  BY DEF Prover, Provers, Phases, Oracles, Headers
<1>2. OraclesInv(Prover(seed))
  BY DEF Prover, OraclesInv
<1>3. StatementInv(Prover(seed)) /\ PartsInv(Prover(seed))
  BY ProverAssumption DEF Prover, StatementInv, PartsInv, BeforeLinear
<1> QED
  BY <1>1, <1>2, <1>3 DEF WorkInv

\* What a command makes of a work: nothing, or a work that keeps the invariant.
Kept(v) == v = NoWork \/ (v \in Generators \cup Provers /\ WorkInv(v))

\* A change onward that keeps the oracles and the passes in order is kept.
LEMMA KeptByParts ==
  ASSUME NEW w \in Provers, PartsInv(w), NEW v \in Provers,
         Onward(w, v), OraclesInv(v), StatementInv(v)
  PROVE  Kept(v)
BY OnwardParts DEF Kept, WorkInv

\* A generation hands over to a new prover once it is complete.
LEMMA GeneratedKept ==
  ASSUME NEW w \in Generators \cup Provers, w # NoWork
  PROVE  Kept(Generated(w))
<1>1. CASE IsProver(w)
  BY <1>1 DEF Generated, Kept
<1>2. CASE ~IsProver(w)
  <2>1. w \in Generators
    BY <1>2, WorkKinds
  <2>2. [w EXCEPT !.gadget = @ + 1] \in Generators
    BY <2>1 DEF Generators
  <2>4. [w EXCEPT !.shares = TRUE] \in Generators
    BY <2>1 DEF Generators
  <2>5. [w EXCEPT !.recipient = @ + 1] \in Generators /\ w.seed \in GeneratorSeeds
    BY <2>1 DEF Generators
  <2>3. \A v \in Generators : WorkInv(v)
    BY WorkKinds DEF WorkInv
  <2> QED
    BY <1>2, <2>2, <2>3, <2>4, <2>5, ProverStarts DEF Generated, Kept
<1> QED
  BY <1>1, <1>2

\* One unit of the proof's own work, phase by phase.
LEMMA SteppedKept ==
  ASSUME NEW w \in Provers, w # NoWork, WorkInv(w)
  PROVE  Kept(Stepped(w))
<1> USE ProverAssumption
<1>1. IsProver(w) /\ OraclesInv(w) /\ StatementInv(w) /\ PartsInv(w)
  BY WorkKinds DEF WorkInv
<1> DEFINE v == Stepped(w)
<1>2. CASE "witness" \notin w.held
  BY <1>2 DEF Stepped, Kept
<1>3. CASE "witness" \in w.held /\ w.phase = "firstInitialize"
  <2>1. v = [At(w, "firstColumn") EXCEPT !.held = @ \cup {"first"}]
    BY <1>1, <1>3 DEF Stepped
  <2>2. v \in Provers /\ Onward(w, v)
    <3>1. v \in Provers
      BY <1>3, <2>1, AtType DEF Provers, Phases, Oracles
    <3>2. Onward(w, v)
      BY <1>3, <2>1 DEF Provers, Onward, At
    <3> QED BY <3>1, <3>2
  <2>3. OraclesInv(v) /\ StatementInv(v)
    BY <1>1, <1>3, <2>1 DEF Provers, At, OraclesInv, StatementInv, BeforeLinear
  <2> QED
    BY <1>1, <2>2, <2>3, KeptByParts
<1>4. CASE "witness" \in w.held /\ w.phase = "firstColumn"
  <2>1. v = IF w.index < Columns + 1 THEN [w EXCEPT !.index = @ + 1] ELSE At(w, "secondInitialize")
    BY <1>1, <1>4 DEF Stepped
  <2>2. v \in Provers /\ Onward(w, v)
    <3>1. v \in Provers
      BY <1>4, <2>1, AtType DEF Provers, Phases, Oracles
    <3>2. Onward(w, v)
      BY <1>4, <2>1 DEF Provers, Onward, At
    <3> QED BY <3>1, <3>2
  <2>3. OraclesInv(v) /\ StatementInv(v)
    BY <1>1, <1>4, <2>1 DEF Provers, At, OraclesInv, StatementInv, BeforeLinear
  <2> QED
    BY <1>1, <2>2, <2>3, KeptByParts
<1>5. CASE "witness" \in w.held /\ w.phase = "secondInitialize"
  <2>1. v = [At(w, "secondColumn") EXCEPT !.held = @ \cup {"second"}]
    BY <1>1, <1>5 DEF Stepped
  <2>2. v \in Provers /\ Onward(w, v)
    <3>1. v \in Provers
      BY <1>5, <2>1, AtType DEF Provers, Phases, Oracles
    <3>2. Onward(w, v)
      BY <1>5, <2>1 DEF Provers, Onward, At
    <3> QED BY <3>1, <3>2
  <2>3. OraclesInv(v) /\ StatementInv(v)
    BY <1>1, <1>5, <2>1 DEF Provers, At, OraclesInv, StatementInv, BeforeLinear
  <2> QED
    BY <1>1, <2>2, <2>3, KeptByParts
<1>6. CASE "witness" \in w.held /\ w.phase = "secondColumn"
  <2>1. v = IF w.index < Lookups + 1 THEN [w EXCEPT !.index = @ + 1] ELSE At(w, "polynomials")
    BY <1>1, <1>6 DEF Stepped
  <2>2. v \in Provers /\ Onward(w, v)
    <3>1. v \in Provers
      BY <1>6, <2>1, AtType DEF Provers, Phases, Oracles
    <3>2. Onward(w, v)
      BY <1>6, <2>1 DEF Provers, Onward, At
    <3> QED BY <3>1, <3>2
  <2>3. OraclesInv(v) /\ StatementInv(v)
    BY <1>1, <1>6, <2>1 DEF Provers, At, OraclesInv, StatementInv, BeforeLinear
  <2> QED
    BY <1>1, <2>2, <2>3, KeptByParts
<1>7. CASE "witness" \in w.held /\ w.phase = "linear"
  <2>1. v = [At(w, "combination") EXCEPT !.held = @ \cup {"linear"}]
    BY <1>1, <1>7 DEF Stepped
  <2>2. v \in Provers /\ Onward(w, v)
    <3>1. v \in Provers
      BY <1>7, <2>1, AtType DEF Provers, Phases, Oracles
    <3>2. Onward(w, v)
      BY <1>7, <2>1 DEF Provers, Onward, At
    <3> QED BY <3>1, <3>2
  <2>3. OraclesInv(v) /\ StatementInv(v)
    BY <1>1, <1>7, <2>1 DEF Provers, At, OraclesInv, StatementInv, BeforeLinear
  <2> QED
    BY <1>1, <2>2, <2>3, KeptByParts
<1>8. CASE "witness" \in w.held /\ w.phase = "combination"
  <2>1. v = [At(w, "publicCombination") EXCEPT !.public = 0]
    BY <1>1, <1>8 DEF Stepped
  <2>2. v \in Provers /\ Onward(w, v)
    <3>1. v \in Provers
      BY <1>8, <2>1, AtType DEF Provers, Phases, Oracles
    <3>2. Onward(w, v)
      BY <1>8, <2>1 DEF Provers, Onward, At
    <3> QED BY <3>1, <3>2
  <2>3. OraclesInv(v) /\ StatementInv(v)
    BY <1>1, <1>8, <2>1 DEF Provers, At, OraclesInv, StatementInv, BeforeLinear
  <2> QED
    BY <1>1, <2>2, <2>3, KeptByParts
<1>9. CASE w.phase \notin {"firstInitialize", "firstColumn", "secondInitialize", "secondColumn",
                           "linear", "combination"}
  BY <1>9 DEF Stepped, Kept
<1> QED
  BY <1>2, <1>3, <1>4, <1>5, <1>6, <1>7, <1>8, <1>9

\* A polynomial that is begun is open in one of the passes.
LEMMA BegunKept ==
  ASSUME NEW w \in Provers, w # NoWork, WorkInv(w), NEW i \in Nat
  PROVE  /\ Kept(Begun(w, i))
         /\ Begun(w, i) # NoWork => Begun(w, i) \in Provers
<1>1. IsProver(w) /\ OraclesInv(w) /\ StatementInv(w) /\ PartsInv(w)
  BY WorkKinds DEF WorkInv
<1> DEFINE v == [w EXCEPT !.open = [index |-> i, chunks |-> 0, sound |-> TRUE]]
<1>2. CASE Begun(w, i) = NoWork
  BY <1>2 DEF Kept
<1>3. CASE Begun(w, i) # NoWork
  <2>1. /\ Begun(w, i) = v
        /\ w.phase \in {"polynomials", "publicCombination", "publicOpenings"}
    BY <1>1, <1>3 DEF Begun, PublicPhase
  <2>2. v \in Provers /\ Onward(w, v)
    <3>1. v \in Provers
      BY <2>1 DEF Provers, OpenPolynomials
    <3>2. Onward(w, v)
      BY <2>1 DEF Provers, Onward
    <3> QED BY <3>1, <3>2
  <2>3. OraclesInv(v) /\ StatementInv(v)
    BY <1>1, <2>1 DEF Provers, OraclesInv, StatementInv, BeforeLinear
  <2> HIDE DEF v
  <2> QED
    BY <1>1, <2>1, <2>2, <2>3, KeptByParts
<1> QED
  BY <1>2, <1>3

\* A chunk goes to the polynomial that is open.
LEMMA PushedKept ==
  ASSUME NEW w \in Provers, w # NoWork, WorkInv(w), NEW b \in BOOLEAN
  PROVE  /\ Kept(Pushed(w, b))
         /\ Pushed(w, b) # NoWork => Pushed(w, b) \in Provers
<1>1. IsProver(w) /\ OraclesInv(w) /\ StatementInv(w) /\ PartsInv(w)
  BY WorkKinds DEF WorkInv
<1> DEFINE v == [w EXCEPT !.open.chunks = 1, !.open.sound = b]
<1>2. CASE Pushed(w, b) = NoWork
  BY <1>2 DEF Kept
<1>3. CASE Pushed(w, b) # NoWork
  <2>1. Pushed(w, b) = v /\ w.open # NoWork
    BY <1>1, <1>3 DEF Pushed
  <2>2. /\ w.open \in OpenPolynomials
        /\ w.phase \in {"polynomials", "publicCombination", "publicOpenings"}
    BY <1>1, <2>1 DEF Provers, StatementInv
  <2>3. v \in Provers /\ Onward(w, v)
    <3>1. v \in Provers
      BY <2>2 DEF Provers, OpenPolynomials
    <3>2. Onward(w, v)
      BY <2>2 DEF Provers, Onward
    <3> QED BY <3>1, <3>2
  <2>4. OraclesInv(v) /\ StatementInv(v)
    BY <1>1, <2>2 DEF Provers, OraclesInv, StatementInv, BeforeLinear
  <2> HIDE DEF v
  <2> QED
    BY <1>1, <2>1, <2>3, <2>4, KeptByParts
<1> QED
  BY <1>2, <1>3

\* The end of a committed polynomial: the combination leaves its pass only when the
\* committed root is rebuilt.
LEMMA FinishedPublicKept ==
  ASSUME NEW w \in Provers, w # NoWork, WorkInv(w), PublicPhase(w), w.open # NoWork
  PROVE  Kept(FinishedPublic(w))
<1> USE ProverAssumption
<1>1. IsProver(w) /\ OraclesInv(w) /\ StatementInv(w) /\ PartsInv(w)
  BY WorkKinds DEF WorkInv
<1>2. w.open \in OpenPolynomials /\ w.phase \in {"publicCombination", "publicOpenings"}
  BY DEF Provers, PublicPhase
<1> DEFINE last == w.public + 1 = Committed
           sound == w.publicSound /\ (w.open.sound \/ w.phase = "publicOpenings")
           closed == [w EXCEPT !.open = NoWork, !.publicSound = sound,
                               !.public = IF last THEN 0 ELSE @ + 1]
           v == FinishedPublic(w)
<1>3. sound \in BOOLEAN /\ (w.phase = "publicOpenings" => sound)
  BY <1>1, <1>2 DEF Provers, OpenPolynomials, StatementInv
<1>8. closed \in Provers
  <2>1. w.public \in Nat
    BY DEF Provers
  <2>2. (IF last THEN 0 ELSE w.public + 1) \in Nat
    BY <2>1
  <2> HIDE DEF last, sound
  <2> QED BY <1>3, <2>2, ClosedType
<1>4. CASE ~last
  <2>1. v = closed
    BY <1>4 DEF FinishedPublic
  <2>2. v \in Provers /\ Onward(w, v)
    <3>1. v \in Provers
      BY <1>8, <2>1
    <3>2. Onward(w, v)
      BY <1>2, <1>3, <2>1 DEF Provers, Onward
    <3> QED BY <3>1, <3>2
  <2>3. OraclesInv(v) /\ StatementInv(v)
    BY <1>1, <1>2, <1>3, <2>1 DEF Provers, OraclesInv, StatementInv, BeforeLinear
  <2> QED
    BY <1>1, <2>2, <2>3, KeptByParts
<1>5. CASE last /\ w.phase = "publicOpenings"
  <2>1. v = At(closed, "output")
    BY <1>5 DEF FinishedPublic
  <2>2. v \in Provers /\ Onward(w, v)
    <3>1. v \in Provers
      <4> HIDE DEF closed
      <4> QED BY <1>8, <2>1, AtType DEF Phases
    <3>2. Onward(w, v)
      BY <1>3, <2>1 DEF Provers, Onward, At
    <3> QED BY <3>1, <3>2
  <2>3. v.phase = "output" /\ v.held = w.held /\ v.stage = w.stage /\ v.open = NoWork
    BY <2>1 DEF Provers, At
  <2>4. {"witness", "first", "second", "linear", "public"} \subseteq w.held
    BY <1>1, <1>5 DEF OraclesInv
  <2>5. \A stage : Needed(stage) \subseteq {"witness", "first", "second", "linear", "public"}
    BY DEF Needed, Tree
  <2>6. OraclesInv(v)
    BY <2>3, <2>4, <2>5 DEF OraclesInv
  <2>7. StatementInv(v)
    BY <1>1, <1>3, <1>5, <2>1 DEF Provers, At, StatementInv, BeforeLinear
  <2> QED
    BY <1>1, <2>2, <2>6, <2>7, KeptByParts
<1>6. CASE last /\ w.phase = "publicCombination" /\ ~sound
  BY <1>6 DEF FinishedPublic, Kept
<1>7. CASE last /\ w.phase = "publicCombination" /\ sound
  <2>1. v = [At(closed, "publicOpenings") EXCEPT !.held = @ \cup {"public"}]
    BY <1>7 DEF FinishedPublic
  <2>2. v \in Provers /\ Onward(w, v)
    <3>1. v \in Provers
      <4> HIDE DEF closed
      <4>1. At(closed, "publicOpenings") \in Provers
        BY <1>8, AtType DEF Phases
      <4> QED BY <2>1, <4>1 DEF Provers, Oracles
    <3>2. Onward(w, v)
      BY <1>3, <2>1 DEF Provers, Onward, At
    <3> QED BY <3>1, <3>2
  <2>3. OraclesInv(v) /\ StatementInv(v)
    BY <1>1, <1>7, <2>1 DEF Provers, At, OraclesInv, StatementInv, BeforeLinear
  <2> QED
    BY <1>1, <2>2, <2>3, KeptByParts
<1> QED
  BY <1>2, <1>4, <1>5, <1>6, <1>7

\* The end of a polynomial of the second pass: the last one is followed by the linear
\* phase only when the digest is the generated one.
LEMMA FinishedStatementKept ==
  ASSUME NEW w \in Provers, w # NoWork, WorkInv(w), ~PublicPhase(w), w.open # NoWork
  PROVE  Kept(FinishedStatement(w))
<1> USE ProverAssumption
<1>1. IsProver(w) /\ OraclesInv(w) /\ StatementInv(w) /\ PartsInv(w)
  BY WorkKinds DEF WorkInv
<1>2. w.open \in OpenPolynomials /\ w.phase = "polynomials"
  BY <1>1 DEF Provers, PublicPhase, StatementInv
<1> DEFINE sound == w.sound /\ (w.open.sound \/ w.open.index >= StatementLength - Committed)
           closed == [w EXCEPT !.open = NoWork, !.sound = sound, !.next = @ + 1]
           v == FinishedStatement(w)
<1>3. sound \in BOOLEAN /\ w.next < StatementLength /\ w.next \in Nat
  BY <1>1, <1>2 DEF Provers, OpenPolynomials, StatementInv, BeforeLinear
<1>4. closed \in Provers /\ closed.next = w.next + 1 /\ closed.phase = "polynomials"
  <2>1. w.next + 1 \in Nat
    BY <1>3
  <2>2. closed \in Provers
    <3> HIDE DEF sound
    <3> QED BY <1>3, <2>1, ClosedType
  <2>3. closed.next = w.next + 1 /\ closed.phase = "polynomials"
    BY <1>2 DEF Provers
  <2> QED BY <2>2, <2>3
<1>5. CASE closed.next < StatementLength
  <2>1. v = closed
    BY <1>5 DEF FinishedStatement
  <2>2. Onward(w, v)
    BY <1>2, <2>1 DEF Provers, Onward
  <2>3. OraclesInv(v) /\ StatementInv(v)
    BY <1>1, <1>2, <1>3, <1>5, <2>1 DEF Provers, OraclesInv, StatementInv, BeforeLinear
  <2> QED
    BY <1>1, <1>4, <2>1, <2>2, <2>3, KeptByParts
<1>6. CASE ~(closed.next < StatementLength) /\ ~sound
  BY <1>6 DEF FinishedStatement, Kept
<1>7. CASE ~(closed.next < StatementLength) /\ sound
  <2>1. v = At(closed, "linear")
    BY <1>7 DEF FinishedStatement
  <2>2. v \in Provers /\ Onward(w, v)
    <3>1. v \in Provers
      <4> HIDE DEF closed
      <4> QED BY <1>4, <2>1, AtType DEF Phases
    <3>2. Onward(w, v)
      BY <1>3, <2>1 DEF Provers, Onward, At
    <3> QED BY <3>1, <3>2
  <2>3. OraclesInv(v)
    BY <1>1, <1>2, <2>1 DEF Provers, At, OraclesInv
  <2>4. v.next = StatementLength
    BY <1>3, <1>4, <1>7, <2>1 DEF Provers, At
  <2>5. StatementInv(v)
    BY <1>7, <2>1, <2>4 DEF Provers, At, StatementInv, BeforeLinear
  <2> QED
    BY <1>1, <2>2, <2>3, <2>5, KeptByParts
<1> QED
  BY <1>5, <1>6, <1>7

\* Either pass's end of a polynomial.
LEMMA FinishedKept ==
  ASSUME NEW w \in Provers, w # NoWork, WorkInv(w)
  PROVE  Kept(Finished(w))
<1>1. CASE Finished(w) = NoWork
  BY <1>1 DEF Kept
<1>2. CASE Finished(w) # NoWork
  <2>1. w.open # NoWork
    BY <1>2 DEF Finished
  <2>2. Finished(w) = IF PublicPhase(w) THEN FinishedPublic(w) ELSE FinishedStatement(w)
    BY <1>2 DEF Finished
  <2> QED
    BY <2>1, <2>2, FinishedPublicKept, FinishedStatementKept
<1> QED
  BY <1>1, <1>2

\* A supplied polynomial is begun, pushed and finished at once.
LEMMA ConsumedKept ==
  ASSUME NEW w \in Provers, w # NoWork, WorkInv(w), NEW i \in Nat
  PROVE  Kept(Consumed(w, i))
<1>1. CASE Consumed(w, i) = NoWork
  BY <1>1 DEF Kept
<1>2. CASE Consumed(w, i) # NoWork
  <2> DEFINE v == Begun(w, i)
             u == Pushed(v, TRUE)
  <2>1. v # NoWork /\ Consumed(w, i) = Finished(u)
    BY <1>2 DEF Consumed
  <2>2. v \in Provers /\ WorkInv(v)
    BY <2>1, BegunKept DEF Kept
  <2>3. u # NoWork
    BY <1>2, <2>1 DEF Finished, IsProver
  <2>4. u \in Provers /\ WorkInv(u)
    <3> HIDE DEF v
    <3> QED BY <2>1, <2>2, <2>3, PushedKept DEF Kept
  <2> HIDE DEF v, u
  <2> QED
    BY <2>1, <2>3, <2>4, FinishedKept
<1> QED
  BY <1>1, <1>2

\* A stage of the output frees no oracle that a later stage opens.
LEMMA OutputKept ==
  ASSUME NEW w \in Provers, w # NoWork, WorkInv(w)
  PROVE  Kept(Output(w))
<1> USE ProverAssumption
<1>1. IsProver(w) /\ OraclesInv(w) /\ StatementInv(w) /\ PartsInv(w)
  BY WorkKinds DEF WorkInv
<1> DEFINE v == Output(w)
<1>2. CASE w.phase # "output"
  BY <1>2 DEF Output, Kept
<1>3. CASE w.phase = "output" /\ ~w.started
  <2>1. v = [w EXCEPT !.started = TRUE]
    BY <1>1, <1>3 DEF Output
  <2>2. v \in Provers /\ Onward(w, v)
    <3>1. v \in Provers
      BY <1>3, <2>1 DEF Provers
    <3>2. Onward(w, v)
      BY <1>3, <2>1 DEF Provers, Onward
    <3> QED BY <3>1, <3>2
  <2>3. OraclesInv(v) /\ StatementInv(v)
    BY <1>1, <1>3, <2>1 DEF Provers, OraclesInv, StatementInv, BeforeLinear
  <2> QED
    BY <1>1, <2>2, <2>3, KeptByParts
<1>4. CASE w.phase = "output" /\ w.started /\ w.stage = 4 + Layers
  <2>1. v = At(w, "done")
    BY <1>1, <1>4 DEF Output
  <2>2. v \in Provers /\ Onward(w, v)
    <3>1. v \in Provers
      BY <1>4, <2>1, AtType DEF Provers, Phases, Oracles
    <3>2. Onward(w, v)
      BY <1>4, <2>1 DEF Provers, Onward, At
    <3> QED BY <3>1, <3>2
  <2>3. OraclesInv(v) /\ StatementInv(v)
    BY <1>1, <1>4, <2>1 DEF Provers, At, OraclesInv, StatementInv, BeforeLinear
  <2> QED
    BY <1>1, <2>2, <2>3, KeptByParts
<1>5. CASE w.phase = "output" /\ w.started /\ w.stage # 4 + Layers /\ w.rows # 1
  <2>1. v = [w EXCEPT !.rows = IF w.rows = 0 THEN Rows ELSE w.rows - 1]
    BY <1>1, <1>5 DEF Output, Provers
  <2>2. (IF w.rows = 0 THEN Rows ELSE w.rows - 1) \in Nat
    BY DEF Provers
  <2>3. v \in Provers /\ Onward(w, v)
    <3>1. v \in Provers
      BY <1>5, <2>1, <2>2 DEF Provers
    <3>2. Onward(w, v)
      BY <1>5, <2>1, <2>2 DEF Provers, Onward
    <3> QED BY <3>1, <3>2
  <2>4. OraclesInv(v) /\ StatementInv(v)
    BY <1>1, <1>5, <2>1 DEF Provers, OraclesInv, StatementInv, BeforeLinear
  <2> QED
    BY <1>1, <2>3, <2>4, KeptByParts
<1>6. CASE w.phase = "output" /\ w.started /\ w.stage # 4 + Layers /\ w.rows = 1
  <2>1. v = [w EXCEPT !.rows = 0, !.stage = @ + 1, !.held = @ \ Dropped(w.stage)]
    BY <1>1, <1>6 DEF Output
  <2>2. v \in Provers /\ Onward(w, v)
    <3>1. v \in Provers
      <4>1. w.stage + 1 \in Nat /\ w.held \ Dropped(w.stage) \in SUBSET Oracles
        BY DEF Provers
      <4>2. \A n \in Nat, h \in SUBSET Oracles : [w EXCEPT !.rows = 0, !.stage = n, !.held = h] \in Provers
        BY RowType
      <4>3. [w EXCEPT !.rows = 0, !.stage = w.stage + 1, !.held = w.held \ Dropped(w.stage)] \in Provers
        BY <4>1, <4>2
      <4> QED BY <2>1, <4>3
    <3>2. Onward(w, v)
      BY <1>6, <2>1 DEF Provers, Onward
    <3> QED BY <3>1, <3>2
  <2>3. w.stage \in Nat
    BY DEF Provers
  <2>4. \A stage \in Nat : stage > w.stage => Needed(stage) \cap Dropped(w.stage) = {}
    <3>1. ASSUME NEW stage \in Nat, stage > w.stage PROVE Needed(stage) \cap Dropped(w.stage) = {}
      <4>1. CASE w.stage = 0
        BY <2>3, <3>1, <4>1 DEF Needed, Dropped, Tree
      <4>2. CASE w.stage = 1
        <5>1. stage \notin {0, 1}
          BY <3>1, <4>2
        <5> QED BY <4>2, <5>1 DEF Needed, Dropped, Tree
      <4>3. CASE w.stage = 2
        <5>1. stage \notin {0, 1, 2}
          BY <3>1, <4>3
        <5> QED BY <4>3, <5>1 DEF Needed, Dropped, Tree
      <4>4. CASE w.stage = 3
        <5>1. stage \notin {0, 1, 2, 3}
          BY <3>1, <4>4
        <5> QED BY <5>1 DEF Needed
      <4>5. CASE w.stage \notin {0, 1, 2, 3}
        BY <4>5 DEF Dropped
      <4> QED BY <4>1, <4>2, <4>3, <4>4, <4>5
    <3> QED BY <3>1
  <2>5. \A stage \in w.stage..(3 + Layers) : Needed(stage) \subseteq w.held
    BY <1>1, <1>6 DEF OraclesInv
  <2>6. v.phase = "output" /\ v.stage = w.stage + 1 /\ v.held = w.held \ Dropped(w.stage)
    BY <1>6, <2>1 DEF Provers
  <2>7. \A stage \in v.stage..(3 + Layers) : Needed(stage) \subseteq v.held
    <3>1. ASSUME NEW stage \in v.stage..(3 + Layers) PROVE Needed(stage) \subseteq v.held
      <4>1. stage \in Nat /\ stage > w.stage /\ stage \in w.stage..(3 + Layers)
        BY <2>3, <2>6, <3>1
      <4>2. Needed(stage) \subseteq w.held /\ Needed(stage) \cap Dropped(w.stage) = {}
        BY <2>4, <2>5, <4>1
      <4> QED BY <2>6, <4>2
    <3> QED BY <3>1
  <2>8. OraclesInv(v)
    BY <2>6, <2>7 DEF OraclesInv
  <2>9. StatementInv(v)
    BY <1>1, <1>6, <2>1 DEF Provers, StatementInv, BeforeLinear
  <2> QED
    BY <1>1, <2>2, <2>8, <2>9, KeptByParts
<1> QED
  BY <1>2, <1>3, <1>4, <1>5, <1>6

\* Whatever command comes, its result keeps the invariant.
LEMMA ResultsKept ==
  ASSUME ProverTypeOK, WorkInv(work), NEW r \in Results
  PROVE  Kept(r)
<1>1. CASE work = NoWork
  BY <1>1 DEF Results, Kept
<1>2. CASE work # NoWork /\ ~IsProver(work)
  <2>1. work \in Generators \cup Provers
    BY <1>2 DEF ProverTypeOK
  <2>2. r \in {NoWork, Generated(work)}
    <3>1. Stepped(work) = NoWork /\ Finished(work) = NoWork /\ Output(work) = NoWork
      BY <1>2 DEF Stepped, Finished, Output
    <3>2. \A b \in BOOLEAN : Pushed(work, b) = NoWork
      BY <1>2 DEF Pushed
    <3>3. \A i \in 0..(StatementLength - 1) : Begun(work, i) = NoWork /\ Consumed(work, i) = NoWork
      BY <1>2 DEF Begun, Consumed
    <3> QED
      BY <1>2, <3>1, <3>2, <3>3 DEF Results
  <2> QED
    BY <1>2, <2>1, <2>2, GeneratedKept DEF Kept
<1>3. CASE IsProver(work)
  <2>1. work \in Provers /\ work # NoWork
    BY <1>3, WorkKinds DEF ProverTypeOK
  <2>2. Kept(Generated(work)) /\ Kept(Stepped(work)) /\ Kept(Finished(work)) /\ Kept(Output(work))
    BY <2>1, GeneratedKept, SteppedKept, FinishedKept, OutputKept
  <2>3. \A b \in BOOLEAN : Kept(Pushed(work, b))
    BY <2>1, PushedKept
  <2>4. \A i \in 0..(StatementLength - 1) : Kept(Begun(work, i)) /\ Kept(Consumed(work, i))
    <3>1. \A i \in 0..(StatementLength - 1) : i \in Nat
      BY ProverAssumption
    <3> QED
      BY <2>1, <3>1, BegunKept, ConsumedKept
  <2>5. \/ r \in {Generated(work), Stepped(work), Finished(work), Output(work)}
        \/ \E b \in BOOLEAN : r = Pushed(work, b)
        \/ \E i \in 0..(StatementLength - 1) : r = Begun(work, i) \/ r = Consumed(work, i)
    BY <2>1 DEF Results
  <2> QED
    BY <2>2, <2>3, <2>4, <2>5
<1> QED
  BY <1>1, <1>2, <1>3

\* The invariant of a work stays when the work does and no sealed record is lost.
LEMMA WorkStays ==
  ASSUME WorkInv(work), work' = work, sealed \subseteq sealed'
  PROVE  WorkInv(work)'
<1>1. PartsInv(work) => PartsInv(work)'
  BY DEF PartsInv
<1>2. OraclesInv(work) => OraclesInv(work)'
  BY DEF OraclesInv
<1>3. StatementInv(work) => StatementInv(work)'
  BY DEF StatementInv
<1> QED
  BY <1>1, <1>2, <1>3 DEF WorkInv, IsProver

\* The same for an import.
LEMMA ImportStays ==
  ASSUME ImportInv, import' = import, sealed \subseteq sealed',
         import # NoWork => work' = work
  PROVE  ImportInv'
BY DEF ImportInv

\* The commands of the proof's own work.
LEMMA AdvanceStep ==
  ASSUME ProverIInv, NEW r \in Results, Advance(r)
  PROVE  ProverIInv'
<1>1. ProverTypeOK /\ WorkInv(work) /\ ImportInv /\ Kept(r)
  BY ResultsKept DEF ProverIInv
<1>2. work' \in {NoWork, r} /\ sealed' = sealed /\ import' = import /\ import = NoWork
  BY DEF Advance
<1>3. ProverTypeOK'
  BY <1>1 DEF ProverTypeOK, Advance, Kept
<1>4. WorkInv(work)'
  <2>1. CASE work' = NoWork
    BY <2>1 DEF WorkInv, IsProver
  <2>2. CASE work' # NoWork
    <3>1. work' = r /\ WorkInv(r)
      BY <1>1, <1>2, <2>2 DEF Kept
    <3>2. PartsInv(r) => PartsInv(work)'
      BY <1>2, <3>1 DEF PartsInv
    <3>3. OraclesInv(r) => OraclesInv(work)'
      BY <3>1 DEF OraclesInv
    <3>4. StatementInv(r) => StatementInv(work)'
      BY <3>1 DEF StatementInv
    <3> QED
      BY <3>1, <3>2, <3>3, <3>4 DEF WorkInv, IsProver
  <2> QED BY <2>1, <2>2
<1> QED
  BY <1>1, <1>2, <1>3, <1>4, ImportStays DEF ProverIInv

\* A generation begins without a prover.
LEMMA BeginStep ==
  ASSUME ProverIInv, NEW seed \in GeneratorSeeds, Begin(seed)
  PROVE  ProverIInv'
<1>1. work' = Generator(seed) /\ sealed' = sealed /\ import' = import /\ import = NoWork
  BY DEF Begin
<1>2. Generator(seed) \in Generators
  BY DEF Generator, Generators
<1>3. ProverTypeOK'
  BY <1>1, <1>2 DEF ProverIInv, ProverTypeOK, Begin
<1>4. WorkInv(work)'
  BY <1>1, <1>2, WorkKinds DEF WorkInv
<1> QED
  BY <1>1, <1>3, <1>4, ImportStays DEF ProverIInv

\* The export of a checkpoint leaves the work alone.
LEMMA ExportStep ==
  ASSUME ProverIInv, ExportHeader \/ Seal \/ CompleteExport
  PROVE  ProverIInv'
<1>1. work' = work /\ import' = import /\ sealed \subseteq sealed'
  BY DEF ExportHeader, Seal, CompleteExport
<1>2. ProverTypeOK
  BY DEF ProverIInv
<1>3. CASE ExportHeader
  <2>1. work \in Provers
    BY <1>2, <1>3, WorkKinds DEF ExportHeader, ProverTypeOK
  <2>2. Header(work.index, work.seed) \in Headers
    BY <2>1 DEF Provers, Header, Headers
  <2>3. ProverTypeOK'
    BY <1>2, <1>3, <2>2 DEF ExportHeader, ProverTypeOK
  <2> QED
    BY <1>1, <2>3, WorkStays, ImportStays DEF ProverIInv
<1>4. CASE Seal
  <2>1. export \in [header : Headers, next : Nat]
    BY <1>2, <1>4 DEF Seal, ProverTypeOK
  <2>2. Record(export.header, export.next) \in [header : Headers, index : Nat]
    BY <2>1 DEF Record
  <2>3. [export EXCEPT !.next = @ + 1] \in [header : Headers, next : Nat]
    BY <2>1
  <2>4. ProverTypeOK'
    BY <1>2, <1>4, <2>2, <2>3 DEF Seal, ProverTypeOK
  <2> QED
    BY <1>1, <2>4, WorkStays, ImportStays DEF ProverIInv
<1>5. CASE CompleteExport
  <2>1. ProverTypeOK'
    BY <1>2, <1>5 DEF CompleteExport, ProverTypeOK
  <2> QED
    BY <1>1, <2>1, WorkStays, ImportStays DEF ProverIInv
<1> QED
  BY <1>3, <1>4, <1>5

\* An import starts with no record opened.
LEMMA ImportStep ==
  ASSUME ProverIInv, NEW r \in sealed, Import(r.header)
  PROVE  ProverIInv'
<1>1. ProverTypeOK /\ work' = work /\ sealed' = sealed
  BY DEF ProverIInv, Import
<1>2. r.header \in Headers
  BY <1>1 DEF ProverTypeOK
<1>3. import' = [header |-> r.header, next |-> 0, parts |-> {}] /\ work = NoWork
  BY DEF Import
<1>4. ProverTypeOK'
  BY <1>1, <1>2 DEF Import, ProverTypeOK
<1>5. ImportInv'
  BY <1>1, <1>3 DEF ImportInv
<1> QED
  BY <1>1, <1>4, <1>5, WorkStays DEF ProverIInv

\* A record that opens is the next one of the header, and it was sealed.
LEMMA OpenStep ==
  ASSUME ProverIInv, NEW r \in sealed, OpenCheckpoint(r)
  PROVE  ProverIInv'
<1>1. ProverTypeOK /\ work' = work /\ sealed' = sealed /\ ImportInv
  BY DEF ProverIInv, OpenCheckpoint
<1>2. CASE ~CheckpointOpens(r)
  <2>1. ProverTypeOK'
    BY <1>1, <1>2 DEF OpenCheckpoint, ProverTypeOK
  <2>2. ImportInv'
    BY <1>2 DEF ImportInv, OpenCheckpoint
  <2> QED
    BY <1>1, <2>1, <2>2, WorkStays DEF ProverIInv
<1>3. CASE CheckpointOpens(r)
  <2>1. import # NoWork /\ r = Record(import.header, import.next)
    BY <1>3 DEF CheckpointOpens
  <2>2. import \in [header : Headers, next : Nat, parts : SUBSET Headers]
    BY <1>1, <2>1 DEF ProverTypeOK
  <2>3. r.header = import.header
    BY <2>1 DEF Record
  <2>4. import' = [header |-> import.header, next |-> import.next + 1, parts |-> {import.header}]
    <3>1. import.parts \cup {r.header} = {import.header}
      BY <1>1, <2>1, <2>3 DEF ImportInv
    <3>2. import' = [import EXCEPT !.next = @ + 1, !.parts = @ \cup {r.header}]
      BY <1>3 DEF OpenCheckpoint
    <3> QED BY <2>2, <3>1, <3>2
  <2>5. import' \in [header : Headers, next : Nat, parts : SUBSET Headers]
    BY <2>2, <2>4
  <2>6. ProverTypeOK'
    BY <1>1, <1>3, <2>5 DEF OpenCheckpoint, ProverTypeOK
  <2>7. \A i \in 0..import.next : Record(import.header, i) \in sealed
    <3>1. \A i \in 0..import.next : i = import.next \/ i \in 0..(import.next - 1)
      BY <2>2
    <3> QED BY <1>1, <2>1, <3>1 DEF ImportInv
  <2>8. ImportInv'
    <3>1. /\ import'.next = import.next + 1 /\ import'.header = import.header
          /\ import'.parts = {import.header} /\ import.next \in Nat
      BY <2>2, <2>4
    <3>2. import'.next # 0 /\ import'.next - 1 = import.next
      BY <3>1
    <3>3. work' = NoWork
      BY <1>1, <2>1 DEF ImportInv
    <3>4. \A i \in 0..(import'.next - 1) : Record(import'.header, i) \in sealed'
      BY <1>1, <2>7, <3>1, <3>2
    <3> QED BY <3>1, <3>2, <3>3, <3>4 DEF ImportInv, Record
  <2> QED
    BY <1>1, <2>6, <2>8, WorkStays DEF ProverIInv
<1> QED
  BY <1>2, <1>3

\* A recipient key leaves work and import alone.
LEMMA KeyStep ==
  ASSUME ProverIInv, NEW p \in 1..Recipients, CheckpointKey(p)
  PROVE  ProverIInv'
<1>1. ProverTypeOK'
  BY DEF ProverIInv, ProverTypeOK, CheckpointKey
<1>2. work' = work /\ import' = import /\ sealed' = sealed
  BY DEF CheckpointKey
<1> QED
  BY <1>1, <1>2, WorkStays, ImportStays DEF ProverIInv

\* The resumed prover is at the header's column and seed, and its records are all of
\* that one header's.
LEMMA FinishImportStep ==
  ASSUME ProverIInv, FinishImport
  PROVE  ProverIInv'
<1>1. ProverTypeOK /\ WorkInv(work) /\ ImportInv /\ sealed' = sealed
  BY DEF ProverIInv, FinishImport
<1>2. CASE import = NoWork /\ proverStopped' = TRUE /\ keys' = {} /\ UNCHANGED <<work, import>>
  <2>1. ProverTypeOK'
    BY <1>1, <1>2 DEF ProverTypeOK, FinishImport
  <2> QED
    BY <1>1, <1>2, <2>1, WorkStays, ImportStays DEF ProverIInv
<1>3. CASE /\ import # NoWork /\ import.next = CheckpointRecords
           /\ work' = [Prover(import.header.seed) EXCEPT
                         !.phase = "firstColumn", !.index = import.header.column,
                         !.held = {"witness", "first"}, !.parts = import.parts]
           /\ import' = NoWork /\ keys' = {} /\ UNCHANGED proverStopped
  <2> DEFINE h == import.header
  <2>1. import \in [header : Headers, next : Nat, parts : SUBSET Headers]
    BY <1>1, <1>3 DEF ProverTypeOK
  <2>2. h \in Headers /\ h.seed \in GeneratorSeeds /\ h.column \in Nat
    BY <2>1 DEF Headers
  <2>3. import.parts = {h} /\ \A i \in 0..(CheckpointRecords - 1) : Record(h, i) \in sealed
    BY <1>1, <1>3, ProverAssumption DEF ImportInv
  <2>4. work' = [Prover(h.seed) EXCEPT !.phase = "firstColumn", !.index = h.column,
                                       !.held = {"witness", "first"}, !.parts = {h}]
    BY <1>3, <2>3
  <2> HIDE DEF h
  <2>5. work' \in Provers
    <3>1. Prover(h.seed) \in Provers
      BY <2>2, ProverStarts
    <3>2. {"witness", "first"} \in SUBSET Oracles /\ {h} \in SUBSET Headers /\ "firstColumn" \in Phases
      BY <2>2 DEF Oracles, Phases
    <3> QED BY <2>2, <2>4, <3>1, <3>2 DEF Provers
  <2>6. ProverTypeOK'
    BY <1>1, <1>3, <2>5 DEF ProverTypeOK, FinishImport
  <2>7. /\ work'.phase = "firstColumn" /\ work'.index = h.column
        /\ work'.held = {"witness", "first"} /\ work'.parts = {h}
        /\ work'.seed = h.seed /\ work'.next = 0 /\ work'.open = NoWork
    BY <2>4 DEF Prover
  <2>8. OraclesInv(work)'
    BY <2>7 DEF OraclesInv
  <2>9. StatementInv(work)'
    BY <2>7, ProverAssumption DEF StatementInv, BeforeLinear
  <2>10. PartsInv(work)'
    BY <1>1, <2>2, <2>3, <2>7 DEF PartsInv, Record
  <2>11. ImportInv'
    BY <1>3 DEF ImportInv
  <2> QED
    BY <2>6, <2>8, <2>9, <2>10, <2>11 DEF ProverIInv, WorkInv
<1> QED
  BY <1>2, <1>3 DEF FinishImport

\* Retirement and restart leave nothing but the sealed records.
LEMMA ClearStep ==
  ASSUME ProverIInv, RetireWork \/ Restart
  PROVE  ProverIInv'
<1>1. work' = NoWork /\ import' = NoWork
  BY DEF RetireWork, Restart
<1>2. ProverTypeOK'
  BY DEF ProverIInv, ProverTypeOK, RetireWork, Restart
<1> QED
  BY <1>1, <1>2 DEF ProverIInv, WorkInv, IsProver, ImportInv

\* ProverIInv is inductive.
LEMMA ProverInvariant == ProverSpec => []ProverIInv
<1>1. ProverInit => ProverIInv
  BY DEF ProverInit, ProverIInv, ProverTypeOK, WorkInv, IsProver, ImportInv
<1>2. ASSUME ProverIInv, [ProverNext]_proverVars PROVE ProverIInv'
  <2>1. CASE UNCHANGED proverVars
    <3>1. work' = work /\ import' = import /\ sealed' = sealed
      BY <2>1 DEF proverVars
    <3>2. ProverTypeOK'
      BY <1>2, <2>1 DEF ProverIInv, ProverTypeOK, proverVars
    <3> QED
      BY <1>2, <3>1, <3>2, WorkStays, ImportStays DEF ProverIInv
  <2> QED
    BY <1>2, <2>1, BeginStep, AdvanceStep, ExportStep, ImportStep, OpenStep, KeyStep,
       FinishImportStep, ClearStep DEF ProverNext
<1> QED
  BY <1>1, <1>2, PTL DEF ProverSpec

\* Every proof of an offer is made over the generated statement by one prover, through
\* its checkpoints, with every oracle it needs: step_proof, finish_polynomial, the output
\* and the resumption of setup-prover.rs, in whatever order the commands come.
THEOREM OfferProofsHold == ProverSpec => []OfferProofs
<1>1. ASSUME ProverIInv PROVE OfferProofs
  <2>1. CASE ~IsProver(work)
    BY <2>1 DEF OfferProofs, OraclesHeld, StatementConsumed, ResumedExported
  <2>2. CASE IsProver(work)
    <3>1. OraclesInv(work) /\ StatementInv(work) /\ PartsInv(work)
      BY <1>1, <2>2 DEF ProverIInv, WorkInv
    <3>2. OraclesHeld
      BY <3>1 DEF OraclesHeld, OraclesInv, Phases
    <3>3. StatementConsumed
      BY <3>1 DEF StatementConsumed, StatementInv, BeforeLinear
    <3>4. ResumedExported
      BY <3>1 DEF ResumedExported, PartsInv
    <3> QED BY <3>2, <3>3, <3>4 DEF OfferProofs
  <2> QED BY <2>1, <2>2
<1> QED
  BY <1>1, ProverInvariant, PTL

\* A session that has stopped takes up no work again in its instance, and one that
\* loses its work stops: no second run draws from a seed whose first run failed.
THEOREM StoppedStays == ProverSpec => StoppedFinal
<1> DEFINE Final == ~Restart =>
       /\ proverStopped => proverStopped' /\ work' \in {NoWork, work}
       /\ work # NoWork /\ work' = NoWork => proverStopped'
<1>1. ASSUME ProverIInv, [ProverNext]_proverVars PROVE Final
  <2>1. proverStopped \in BOOLEAN
    BY <1>1 DEF ProverIInv, ProverTypeOK
  <2>2. CASE UNCHANGED proverVars
    BY <2>2 DEF proverVars
  <2>3. CASE \E r \in Results : Advance(r)
    BY <2>1, <2>3 DEF Advance
  <2>4. CASE \E seed \in GeneratorSeeds : Begin(seed)
    BY <2>4 DEF Begin
  <2>5. CASE FinishImport
    <3>1. ~proverStopped
      BY <2>5 DEF FinishImport
    <3>2. work = NoWork
      BY <1>1, <2>5 DEF FinishImport, ProverIInv, ImportInv
    <3> QED
      BY <3>1, <3>2
  <2>6. CASE RetireWork
    BY <2>6 DEF RetireWork
  <2>7. CASE ExportHeader \/ Seal \/ CompleteExport
    BY <2>7 DEF ExportHeader, Seal, CompleteExport
  <2>8. CASE \E r \in sealed : Import(r.header) \/ OpenCheckpoint(r)
    BY <2>1, <2>8 DEF Import, OpenCheckpoint
  <2>9. CASE \E p \in 1..Recipients : CheckpointKey(p)
    BY <2>9 DEF CheckpointKey
  <2> QED
    BY <1>1, <2>2, <2>3, <2>4, <2>5, <2>6, <2>7, <2>8, <2>9 DEF ProverNext
<1> QED
  BY <1>1, ProverInvariant, PTL DEF ProverSpec, StoppedFinal
====
