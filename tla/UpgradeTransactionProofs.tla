---------------------- MODULE UpgradeTransactionProofs ----------------------
(***************************************************************************)
(* Safety of the upgrade transaction for every number of files, every set  *)
(* of contents, every option record and any number of edits by others; and *)
(* of what a transitive fix makes of its end (FixResult).                  *)
(***************************************************************************)
EXTENDS FixResult, TLAPS

(* The inductive invariant: what is recorded at each step.                 *)

\* The snapshot: nothing recorded before it, everything once it is complete.
SnapshotRecorded ==
  /\ pc = "begin" => cursor = 1 /\ \A p \in Paths : before[p] = NoEntry
  /\ pc = "snapshot" => \A p \in Paths : before[p] # NoEntry <=> p < cursor
  /\ pc \notin {"begin", "snapshot", "done"} => \A p \in Paths : before[p] # NoEntry

\* The expectations: only staged files while staging, the captured prefix
\* while capturing, all files from then on until the rollback.
ExpectationsRecorded ==
  /\ pc \in {"begin", "snapshot"} => \A p \in Paths : expected[p] = NoEntry
  /\ pc = "staging" /\ cursor = 1 => \A p \in Paths : expected[p] = NoEntry
  /\ pc \in {"staging", "installing"} => \A p \in Paths : expected[p] # CaptureError
  /\ pc = "capturing" => \A p \in Paths : expected[p] # NoEntry <=> p < cursor
  /\ pc \in {"verifying", "deciding", "decided"} =>
       \A p \in Paths : expected[p] # NoEntry

\* Nothing is restored, answered or blamed before the rollback.
ProgressRecorded ==
  /\ pc \notin {"rollback", "done"} =>
       /\ \A p \in Paths : restored[p] = "none"
       /\ cause = "none"
  /\ pc # "done" <=> completion = "running"
  /\ pc = "decided" => decision # "none"

\* A file without an expectation holds nothing of ours: before anything is
\* staged, next to the staged files, and during either kind of rollback.
UntouchedIsClean ==
  pc \in {"begin", "snapshot", "staging", "rollback"} =>
    \A p \in Paths :
      /\ expected[p] = NoEntry /\ before[p] # NoEntry => owned[p] = before[p]
      /\ restored[p] = "restored" => owned[p] = before[p]

\* An expectation is what we last wrote, or an edit absorbed by the capture.
ExpectationIsOurs ==
  pc \notin {"installing", "done"} =>
    \A p \in Paths :
      expected[p] \in FileState /\ restored[p] = "none" =>
        expected[p] = owned[p] \/ p \in absorbed

IInv ==
  /\ TypeOK /\ SnapshotRecorded /\ ExpectationsRecorded /\ ProgressRecorded
  /\ UntouchedIsClean /\ ExpectationIsOurs
  /\ CleanOutcome /\ LeftoversReported /\ LostOnlyIfAbsorbed

-----------------------------------------------------------------------------
\* A stage the cursor points at is a member of the caller's stage list.
LEMMA StageType ==
  ASSUME TypeOK, MoreStages
  PROVE  /\ Stage \in StageOf
         /\ cursor \in 1 .. Len(opt.stages)
         /\ Stage.kind = "manifest" => cursor = 1
<1>1. opt \in OptionOf /\ opt.stages \in Seq(StageOf)
  BY OptionsAssumption DEF TypeOK, OptionOf
<1>2. cursor \in 1 .. Len(opt.stages)
  BY <1>1 DEF TypeOK, MoreStages
<1>3. Stage \in StageOf
  BY <1>1, <1>2 DEF Stage
<1>4. ASSUME cursor # 1 PROVE Stage.kind = "file"
  <2>1. 1 \in 1 .. Len(opt.stages) /\ 1 < cursor
    BY <1>1, <1>2, <1>4
  <2>. QED
    BY <1>2, <2>1, StageOrderAssumption DEF TypeOK, Stage
<1>. QED
  BY <1>2, <1>3, <1>4

\* A transaction that has done nothing satisfies the inductive invariant.
LEMMA InitIInv == Init => IInv
<1>. SUFFICES ASSUME Init PROVE IInv
  OBVIOUS
<1>. USE NPathsAssumption, SentinelAssumption DEF Init, Every
<1>1. TypeOK
  <2>1. opt \in Options /\ opt.signal \in BOOLEAN
    BY OptionsAssumption DEF OptionOf
  <2>2. aborted \in BOOLEAN /\ (aborted => opt.signal)
    BY <2>1
  <2>3. edits \in 0 .. MaxEdits
    BY MaxEditsAssumption
  <2>4. /\ disk \in [Paths -> FileState] /\ owned \in [Paths -> FileState]
        /\ before \in [Paths -> FileState \cup {NoEntry}]
        /\ expected \in [Paths -> FileState \cup {NoEntry, CaptureError}]
    BY StatesAssumption
  <2>. QED
    BY <2>1, <2>2, <2>3, <2>4 DEF TypeOK, Steps
<1>2. SnapshotRecorded /\ ExpectationsRecorded /\ ProgressRecorded
  BY DEF SnapshotRecorded, ExpectationsRecorded, ProgressRecorded
<1>3. UntouchedIsClean /\ ExpectationIsOurs
  BY DEF UntouchedIsClean, ExpectationIsOurs
<1>4. CleanOutcome /\ LeftoversReported /\ LostOnlyIfAbsorbed
  BY DEF CleanOutcome, LeftoversReported, LostOnlyIfAbsorbed
<1>. QED
  BY <1>1, <1>2, <1>3, <1>4 DEF IInv

\* No step of the transaction, its package manager or others breaks a type.
LEMMA TypeStep == IInv /\ [Next]_vars => TypeOK'
<1>. SUFFICES ASSUME IInv, [Next]_vars PROVE TypeOK'
  OBVIOUS
<1>. USE NPathsAssumption, SentinelAssumption, StatesAssumption, MaxEditsAssumption
<1>. USE DEF TypeOK, Steps, FileState, IInv, SnapshotRecorded, ProgressRecorded
<1>1. TypeOK'
  <2>1. CASE BeginCancelled
    BY <2>1 DEF BeginCancelled, Finish, progress, history
  <2>2. CASE Begin
    BY <2>2 DEF Begin, progress, answer, history
  <2>3. CASE ReadSnapshot
    BY <2>3 DEF ReadSnapshot, answer
  <2>4. CASE SnapshotFails
    BY <2>4 DEF SnapshotFails, Finish, progress, history
  <2>5. CASE SnapshotCancelled
    BY <2>5 DEF SnapshotCancelled, Finish, progress, history
  <2>6. CASE SnapshotTaken
    BY <2>6 DEF SnapshotTaken, progress, answer, history
  <2>7. CASE StagingCancelled
    BY <2>7 DEF StagingCancelled, Finish, StartRollback, NothingStaged, history
  <2>8. CASE StageFile
    BY <2>8, StageType DEF StageFile, Write, MoreStages, StageMatchesSnapshot, answer, StageOf
  <2>9. CASE StageRefused
    BY <2>9 DEF StageRefused, Finish, StartRollback, NothingStaged, MoreStages, history, Stage
  <2>10. CASE StartInstall
    BY <2>10 DEF StartInstall, MoreStages, progress, answer, history
  <2>11. CASE CaptureState
    BY <2>11 DEF CaptureState, answer
  <2>12. CASE CaptureFails
    BY <2>12 DEF CaptureFails, answer, history
  <2>13. CASE InstallFailed
    BY <2>13 DEF InstallFailed, StartRollback, history
  <2>14. CASE InstallCancelled
    BY <2>14 DEF InstallCancelled, StartRollback, history
  <2>15. CASE KeepUnverified
    BY <2>15 DEF KeepUnverified, Finish, progress, history
  <2>16. CASE StartVerification
    BY <2>16 DEF StartVerification, progress, answer, history
  <2>17. CASE KeepUnverifiable
    BY <2>17 DEF KeepUnverifiable, Finish, progress, history
  <2>18. CASE UndoUnverifiable
    BY <2>18 DEF UndoUnverifiable, StartRollback, history
  <2>19. CASE RollbackEnds
    BY <2>19 DEF RollbackEnds, Finish, Todo, progress, history
  <2>20. CASE VerificationPassed
    BY <2>20 DEF VerificationPassed, Finish, progress, history
  <2>21. CASE VerificationCancelled
    BY <2>21 DEF VerificationCancelled, StartRollback, history
  <2>22. CASE VerificationFailed
    BY <2>22 DEF VerificationFailed, StartRollback, answer, history
  <2>23. CASE Abort
    BY <2>23 DEF Abort, answer, history
  <2>24. ASSUME NEW p \in Paths, RestoreFile(p) PROVE TypeOK'
    BY <2>24 DEF RestoreFile, Write, IsNext, answer, Todo
  <2>25. ASSUME NEW p \in Paths, RestoreConflicts(p) PROVE TypeOK'
    BY <2>25 DEF RestoreConflicts, IsNext, answer, history, Todo
  <2>26. ASSUME NEW p \in Paths, RestoreFails(p) PROVE TypeOK'
    BY <2>26 DEF RestoreFails, IsNext, answer, history, Todo
  <2>27. ASSUME NEW s \in {"succeeded", "failed", "cancelled"}, InstallEnds(s) PROVE TypeOK'
    BY <2>27 DEF InstallEnds, Every, answer, history
  <2>28. ASSUME NEW p \in Paths, NEW s \in InstallStates, InstallWrites(p, s) PROVE TypeOK'
    BY <2>28 DEF InstallWrites, Write, progress, answer
  <2>29. ASSUME NEW d \in {"keep", "rollback", "failed"}, Decide(d) PROVE TypeOK'
    BY <2>29 DEF Decide, answer, history
  <2>30. ASSUME NEW p \in Paths, NEW s \in UserStates, UserEdit(p, s) PROVE TypeOK'
    BY <2>30 DEF UserEdit, progress, answer, history
  <2>31. CASE UNCHANGED vars
    BY <2>31 DEF vars, progress, answer, history
  <2>. QED
    BY <2>1, <2>2, <2>3, <2>4, <2>5, <2>6, <2>7, <2>8, <2>9, <2>10, <2>11, <2>12, <2>13, <2>14, <2>15, <2>16, <2>17, <2>18, <2>19, <2>20, <2>21, <2>22, <2>23, <2>24, <2>25, <2>26, <2>27, <2>28, <2>29, <2>30, <2>31 DEF Next, Own, Outside, InstallEnd, VerificationEnd, RestoreStep, Done
<1>. QED BY <1>1

\* Every step keeps snapshot, expectations and progress records consistent
\* with the await the transaction is at.
LEMMA RecordsStep == IInv /\ [Next]_vars => (SnapshotRecorded /\ ExpectationsRecorded /\ ProgressRecorded)'
<1>. SUFFICES ASSUME IInv, [Next]_vars PROVE (SnapshotRecorded /\ ExpectationsRecorded /\ ProgressRecorded)'
  OBVIOUS
<1>. USE NPathsAssumption, SentinelAssumption
<1>. USE DEF IInv, TypeOK, FileState, Paths, SnapshotRecorded, ExpectationsRecorded, ProgressRecorded
<1>1. CASE BeginCancelled
  BY <1>1 DEF BeginCancelled, Finish, progress, history
<1>2. CASE Begin
  BY <1>2 DEF Begin, progress, answer, history
<1>3. CASE ReadSnapshot
  BY <1>3 DEF ReadSnapshot, answer
<1>4. CASE SnapshotFails
  BY <1>4 DEF SnapshotFails, Finish, progress, history
<1>5. CASE SnapshotCancelled
  BY <1>5 DEF SnapshotCancelled, Finish, progress, history
<1>6. CASE SnapshotTaken
  BY <1>6 DEF SnapshotTaken, progress, answer, history
<1>7. CASE StagingCancelled
  BY <1>7 DEF StagingCancelled, Finish, StartRollback, NothingStaged, history
<1>8. CASE StageFile
  BY <1>8, StageType DEF StageFile, Write, StageMatchesSnapshot, answer, StageOf
<1>9. CASE StageRefused
  BY <1>9, StageType DEF StageRefused, Finish, StartRollback, NothingStaged, history
<1>10. CASE StartInstall
  BY <1>10 DEF StartInstall, MoreStages, progress, answer, history
<1>11. CASE CaptureState
  BY <1>11 DEF CaptureState, answer
<1>12. CASE CaptureFails
  BY <1>12 DEF CaptureFails, answer, history
<1>13. CASE InstallFailed
  BY <1>13 DEF InstallFailed, StartRollback, history
<1>14. CASE InstallCancelled
  BY <1>14 DEF InstallCancelled, StartRollback, history
<1>15. CASE KeepUnverified
  BY <1>15 DEF KeepUnverified, Finish, progress, history
<1>16. CASE StartVerification
  BY <1>16 DEF StartVerification, progress, answer, history
<1>17. CASE KeepUnverifiable
  BY <1>17 DEF KeepUnverifiable, Finish, progress, history
<1>18. CASE UndoUnverifiable
  BY <1>18 DEF UndoUnverifiable, StartRollback, history
<1>19. CASE RollbackEnds
  BY <1>19 DEF RollbackEnds, Finish, Todo, progress, history
<1>20. CASE VerificationPassed
  BY <1>20 DEF VerificationPassed, Finish, progress, history
<1>21. CASE VerificationCancelled
  BY <1>21 DEF VerificationCancelled, StartRollback, history
<1>22. CASE VerificationFailed
  BY <1>22 DEF VerificationFailed, StartRollback, answer, history
<1>23. CASE Abort
  BY <1>23 DEF Abort, answer, history
<1>24. ASSUME NEW p \in Paths, RestoreFile(p) PROVE (SnapshotRecorded /\ ExpectationsRecorded /\ ProgressRecorded)'
  BY <1>24 DEF RestoreFile, Write, IsNext, answer, Todo
<1>25. ASSUME NEW p \in Paths, RestoreConflicts(p) PROVE (SnapshotRecorded /\ ExpectationsRecorded /\ ProgressRecorded)'
  BY <1>25 DEF RestoreConflicts, IsNext, answer, history, Todo
<1>26. ASSUME NEW p \in Paths, RestoreFails(p) PROVE (SnapshotRecorded /\ ExpectationsRecorded /\ ProgressRecorded)'
  BY <1>26 DEF RestoreFails, IsNext, answer, history, Todo
<1>27. ASSUME NEW s \in {"succeeded", "failed", "cancelled"}, InstallEnds(s) PROVE (SnapshotRecorded /\ ExpectationsRecorded /\ ProgressRecorded)'
  BY <1>27 DEF InstallEnds, Every, answer, history
<1>28. ASSUME NEW p \in Paths, NEW s \in InstallStates, InstallWrites(p, s) PROVE (SnapshotRecorded /\ ExpectationsRecorded /\ ProgressRecorded)'
  BY <1>28 DEF InstallWrites, Write, progress, answer
<1>29. ASSUME NEW d \in {"keep", "rollback", "failed"}, Decide(d) PROVE (SnapshotRecorded /\ ExpectationsRecorded /\ ProgressRecorded)'
  BY <1>29 DEF Decide, answer, history
<1>30. ASSUME NEW p \in Paths, NEW s \in UserStates, UserEdit(p, s) PROVE (SnapshotRecorded /\ ExpectationsRecorded /\ ProgressRecorded)'
  BY <1>30 DEF UserEdit, progress, answer, history
<1>31. CASE UNCHANGED vars
  BY <1>31 DEF vars, progress, answer, history
<1>. QED
  BY <1>1, <1>2, <1>3, <1>4, <1>5, <1>6, <1>7, <1>8, <1>9, <1>10, <1>11, <1>12, <1>13, <1>14, <1>15, <1>16, <1>17, <1>18, <1>19, <1>20, <1>21, <1>22, <1>23, <1>24, <1>25, <1>26, <1>27, <1>28, <1>29, <1>30, <1>31 DEF Next, Own, Outside, InstallEnd, VerificationEnd, RestoreStep, Done

\* Every step keeps what rollback relies on: a file without an expectation is
\* as it was found, and an expectation is ours unless it was absorbed.
LEMMA OwnershipStep == IInv /\ [Next]_vars => (UntouchedIsClean /\ ExpectationIsOurs)'
<1>. SUFFICES ASSUME IInv, [Next]_vars PROVE (UntouchedIsClean /\ ExpectationIsOurs)'
  OBVIOUS
<1>. USE NPathsAssumption, SentinelAssumption
<1>. USE DEF IInv, TypeOK, FileState, Paths, SnapshotRecorded, ExpectationsRecorded, ProgressRecorded, UntouchedIsClean, ExpectationIsOurs
<1>1. CASE BeginCancelled
  BY <1>1 DEF BeginCancelled, Finish, progress, history
<1>2. CASE Begin
  BY <1>2 DEF Begin, progress, answer, history
<1>3. CASE ReadSnapshot
  BY <1>3 DEF ReadSnapshot, answer
<1>4. CASE SnapshotFails
  BY <1>4 DEF SnapshotFails, Finish, progress, history
<1>5. CASE SnapshotCancelled
  BY <1>5 DEF SnapshotCancelled, Finish, progress, history
<1>6. CASE SnapshotTaken
  BY <1>6 DEF SnapshotTaken, progress, answer, history
<1>7. CASE StagingCancelled
  BY <1>7 DEF StagingCancelled, Finish, StartRollback, NothingStaged, history
<1>8. CASE StageFile
  BY <1>8, StageType DEF StageFile, Write, StageMatchesSnapshot, answer, StageOf
<1>9. CASE StageRefused
  BY <1>9, StageType DEF StageRefused, Finish, StartRollback, NothingStaged, history
<1>10. CASE StartInstall
  BY <1>10 DEF StartInstall, MoreStages, progress, answer, history
<1>11. CASE CaptureState
  BY <1>11 DEF CaptureState, answer
<1>12. CASE CaptureFails
  BY <1>12 DEF CaptureFails, answer, history
<1>13. CASE InstallFailed
  BY <1>13 DEF InstallFailed, StartRollback, history
<1>14. CASE InstallCancelled
  BY <1>14 DEF InstallCancelled, StartRollback, history
<1>15. CASE KeepUnverified
  BY <1>15 DEF KeepUnverified, Finish, progress, history
<1>16. CASE StartVerification
  BY <1>16 DEF StartVerification, progress, answer, history
<1>17. CASE KeepUnverifiable
  BY <1>17 DEF KeepUnverifiable, Finish, progress, history
<1>18. CASE UndoUnverifiable
  BY <1>18 DEF UndoUnverifiable, StartRollback, history
<1>19. CASE RollbackEnds
  BY <1>19 DEF RollbackEnds, Finish, Todo, progress, history
<1>20. CASE VerificationPassed
  BY <1>20 DEF VerificationPassed, Finish, progress, history
<1>21. CASE VerificationCancelled
  BY <1>21 DEF VerificationCancelled, StartRollback, history
<1>22. CASE VerificationFailed
  BY <1>22 DEF VerificationFailed, StartRollback, answer, history
<1>23. CASE Abort
  BY <1>23 DEF Abort, answer, history
<1>24. ASSUME NEW p \in Paths, RestoreFile(p) PROVE (UntouchedIsClean /\ ExpectationIsOurs)'
  BY <1>24 DEF RestoreFile, Write, IsNext, answer, Todo
<1>25. ASSUME NEW p \in Paths, RestoreConflicts(p) PROVE (UntouchedIsClean /\ ExpectationIsOurs)'
  BY <1>25 DEF RestoreConflicts, IsNext, answer, history, Todo
<1>26. ASSUME NEW p \in Paths, RestoreFails(p) PROVE (UntouchedIsClean /\ ExpectationIsOurs)'
  BY <1>26 DEF RestoreFails, IsNext, answer, history, Todo
<1>27. ASSUME NEW s \in {"succeeded", "failed", "cancelled"}, InstallEnds(s) PROVE (UntouchedIsClean /\ ExpectationIsOurs)'
  BY <1>27 DEF InstallEnds, Every, answer, history
<1>28. ASSUME NEW p \in Paths, NEW s \in InstallStates, InstallWrites(p, s) PROVE (UntouchedIsClean /\ ExpectationIsOurs)'
  BY <1>28 DEF InstallWrites, Write, progress, answer
<1>29. ASSUME NEW d \in {"keep", "rollback", "failed"}, Decide(d) PROVE (UntouchedIsClean /\ ExpectationIsOurs)'
  BY <1>29 DEF Decide, answer, history
<1>30. ASSUME NEW p \in Paths, NEW s \in UserStates, UserEdit(p, s) PROVE (UntouchedIsClean /\ ExpectationIsOurs)'
  BY <1>30 DEF UserEdit, progress, answer, history
<1>31. CASE UNCHANGED vars
  BY <1>31 DEF vars, progress, answer, history
<1>. QED
  BY <1>1, <1>2, <1>3, <1>4, <1>5, <1>6, <1>7, <1>8, <1>9, <1>10, <1>11, <1>12, <1>13, <1>14, <1>15, <1>16, <1>17, <1>18, <1>19, <1>20, <1>21, <1>22, <1>23, <1>24, <1>25, <1>26, <1>27, <1>28, <1>29, <1>30, <1>31 DEF Next, Own, Outside, InstallEnd, VerificationEnd, RestoreStep, Done

\* Every step keeps the answer and the rollback report true to the files.
LEMMA ReportStep == IInv /\ [Next]_vars => (CleanOutcome /\ LeftoversReported /\ LostOnlyIfAbsorbed)'
<1>. SUFFICES ASSUME IInv, [Next]_vars PROVE (CleanOutcome /\ LeftoversReported /\ LostOnlyIfAbsorbed)'
  OBVIOUS
<1>. USE NPathsAssumption, SentinelAssumption
<1>. USE DEF IInv, TypeOK, FileState, Paths, SnapshotRecorded, ExpectationsRecorded, ProgressRecorded, UntouchedIsClean, ExpectationIsOurs, CleanOutcome, LeftoversReported, LostOnlyIfAbsorbed, Mine
<1>1. CASE BeginCancelled
  BY <1>1 DEF BeginCancelled, Finish, progress, history
<1>2. CASE Begin
  BY <1>2 DEF Begin, progress, answer, history
<1>3. CASE ReadSnapshot
  BY <1>3 DEF ReadSnapshot, answer
<1>4. CASE SnapshotFails
  BY <1>4 DEF SnapshotFails, Finish, progress, history
<1>5. CASE SnapshotCancelled
  BY <1>5 DEF SnapshotCancelled, Finish, progress, history
<1>6. CASE SnapshotTaken
  BY <1>6 DEF SnapshotTaken, progress, answer, history
<1>7. CASE StagingCancelled
  BY <1>7 DEF StagingCancelled, Finish, StartRollback, NothingStaged, history
<1>8. CASE StageFile
  BY <1>8, StageType DEF StageFile, Write, StageMatchesSnapshot, answer, StageOf
<1>9. CASE StageRefused
  BY <1>9, StageType DEF StageRefused, Finish, StartRollback, NothingStaged, history
<1>10. CASE StartInstall
  BY <1>10 DEF StartInstall, MoreStages, progress, answer, history
<1>11. CASE CaptureState
  BY <1>11 DEF CaptureState, answer
<1>12. CASE CaptureFails
  BY <1>12 DEF CaptureFails, answer, history
<1>13. CASE InstallFailed
  BY <1>13 DEF InstallFailed, StartRollback, history
<1>14. CASE InstallCancelled
  BY <1>14 DEF InstallCancelled, StartRollback, history
<1>15. CASE KeepUnverified
  BY <1>15 DEF KeepUnverified, Finish, progress, history
<1>16. CASE StartVerification
  BY <1>16 DEF StartVerification, progress, answer, history
<1>17. CASE KeepUnverifiable
  BY <1>17 DEF KeepUnverifiable, Finish, progress, history
<1>18. CASE UndoUnverifiable
  BY <1>18 DEF UndoUnverifiable, StartRollback, history
<1>19. CASE RollbackEnds
  BY <1>19 DEF RollbackEnds, Finish, Todo, progress, history
<1>20. CASE VerificationPassed
  BY <1>20 DEF VerificationPassed, Finish, progress, history
<1>21. CASE VerificationCancelled
  BY <1>21 DEF VerificationCancelled, StartRollback, history
<1>22. CASE VerificationFailed
  BY <1>22 DEF VerificationFailed, StartRollback, answer, history
<1>23. CASE Abort
  BY <1>23 DEF Abort, answer, history
<1>24. ASSUME NEW p \in Paths, RestoreFile(p) PROVE (CleanOutcome /\ LeftoversReported /\ LostOnlyIfAbsorbed)'
  BY <1>24 DEF RestoreFile, Write, IsNext, answer, Todo
<1>25. ASSUME NEW p \in Paths, RestoreConflicts(p) PROVE (CleanOutcome /\ LeftoversReported /\ LostOnlyIfAbsorbed)'
  BY <1>25 DEF RestoreConflicts, IsNext, answer, history, Todo
<1>26. ASSUME NEW p \in Paths, RestoreFails(p) PROVE (CleanOutcome /\ LeftoversReported /\ LostOnlyIfAbsorbed)'
  BY <1>26 DEF RestoreFails, IsNext, answer, history, Todo
<1>27. ASSUME NEW s \in {"succeeded", "failed", "cancelled"}, InstallEnds(s) PROVE (CleanOutcome /\ LeftoversReported /\ LostOnlyIfAbsorbed)'
  BY <1>27 DEF InstallEnds, Every, answer, history
<1>28. ASSUME NEW p \in Paths, NEW s \in InstallStates, InstallWrites(p, s) PROVE (CleanOutcome /\ LeftoversReported /\ LostOnlyIfAbsorbed)'
  BY <1>28 DEF InstallWrites, Write, progress, answer
<1>29. ASSUME NEW d \in {"keep", "rollback", "failed"}, Decide(d) PROVE (CleanOutcome /\ LeftoversReported /\ LostOnlyIfAbsorbed)'
  BY <1>29 DEF Decide, answer, history
<1>30. ASSUME NEW p \in Paths, NEW s \in UserStates, UserEdit(p, s) PROVE (CleanOutcome /\ LeftoversReported /\ LostOnlyIfAbsorbed)'
  BY <1>30 DEF UserEdit, progress, answer, history
<1>31. CASE UNCHANGED vars
  BY <1>31 DEF vars, progress, answer, history
<1>. QED
  BY <1>1, <1>2, <1>3, <1>4, <1>5, <1>6, <1>7, <1>8, <1>9, <1>10, <1>11, <1>12, <1>13, <1>14, <1>15, <1>16, <1>17, <1>18, <1>19, <1>20, <1>21, <1>22, <1>23, <1>24, <1>25, <1>26, <1>27, <1>28, <1>29, <1>30, <1>31 DEF Next, Own, Outside, InstallEnd, VerificationEnd, RestoreStep, Done

-----------------------------------------------------------------------------
\* Every reachable state satisfies the inductive invariant.
THEOREM Invariance == Spec => []IInv
<1>1. IInv /\ [Next]_vars => IInv'
  BY TypeStep, RecordsStep, OwnershipStep, ReportStep DEF IInv
<1>. QED
  BY InitIInv, <1>1, PTL DEF Spec

\* Type correctness of the transaction (src/src/host/upgradeTransaction.ts).
THEOREM TypeCorrect == Spec => []TypeOK
  BY Invariance, PTL DEF IInv

\* "not-started" and "rolled-back" leave nothing of the upgrade in any
\* allowlisted file.
THEOREM CleanOutcomeHolds == Spec => []CleanOutcome
  BY Invariance, PTL DEF IInv

\* A rollback names every file that still carries something of the upgrade.
THEOREM LeftoversAreReported == Spec => []LeftoversReported
  BY Invariance, PTL DEF IInv

\* The only edits a restore can overwrite were on disk at the capture.
THEOREM LostEditsWereAbsorbed == Spec => []LostOnlyIfAbsorbed
  BY Invariance, PTL DEF IInv

-----------------------------------------------------------------------------
\* No single step answers "kept" with the signal fired.
LEMMA KeepStep ==
  [Next]_vars => (aborted /\ completion = "running" => completion' # "kept")
<1>. SUFFICES ASSUME [Next]_vars, aborted, completion = "running"
              PROVE  completion' # "kept"
  OBVIOUS
<1>1. CASE BeginCancelled
  BY <1>1 DEF BeginCancelled, Finish, progress, history
<1>2. CASE Begin
  BY <1>2 DEF Begin, progress, answer, history
<1>3. CASE ReadSnapshot
  BY <1>3 DEF ReadSnapshot, answer
<1>4. CASE SnapshotFails
  BY <1>4 DEF SnapshotFails, Finish, progress, history
<1>5. CASE SnapshotCancelled
  BY <1>5 DEF SnapshotCancelled, Finish, progress, history
<1>6. CASE SnapshotTaken
  BY <1>6 DEF SnapshotTaken, progress, answer, history
<1>7. CASE StagingCancelled
  BY <1>7 DEF StagingCancelled, Finish, StartRollback, NothingStaged, history
<1>8. CASE StageFile
  BY <1>8 DEF StageFile, Write, MoreStages, StageMatchesSnapshot, answer, Stage
<1>9. CASE StageRefused
  BY <1>9 DEF StageRefused, Finish, StartRollback, NothingStaged, MoreStages, history, Stage
<1>10. CASE StartInstall
  BY <1>10 DEF StartInstall, MoreStages, progress, answer, history
<1>11. CASE CaptureState
  BY <1>11 DEF CaptureState, answer
<1>12. CASE CaptureFails
  BY <1>12 DEF CaptureFails, answer, history
<1>13. CASE InstallFailed
  BY <1>13 DEF InstallFailed, StartRollback, history
<1>14. CASE InstallCancelled
  BY <1>14 DEF InstallCancelled, StartRollback, history
<1>15. CASE KeepUnverified
  BY <1>15 DEF KeepUnverified, Finish, progress, history
<1>16. CASE StartVerification
  BY <1>16 DEF StartVerification, progress, answer, history
<1>17. CASE KeepUnverifiable
  BY <1>17 DEF KeepUnverifiable, Finish, progress, history
<1>18. CASE UndoUnverifiable
  BY <1>18 DEF UndoUnverifiable, StartRollback, history
<1>19. CASE RollbackEnds
  BY <1>19 DEF RollbackEnds, Finish, Todo, progress, history
<1>20. CASE VerificationPassed
  BY <1>20 DEF VerificationPassed, Finish, progress, history
<1>21. CASE VerificationCancelled
  BY <1>21 DEF VerificationCancelled, StartRollback, history
<1>22. CASE VerificationFailed
  BY <1>22 DEF VerificationFailed, StartRollback, answer, history
<1>23. CASE Abort
  BY <1>23 DEF Abort, answer, history
<1>24. ASSUME NEW p \in Paths, RestoreFile(p) PROVE completion' # "kept"
  BY <1>24 DEF RestoreFile, Write, IsNext, answer, Todo
<1>25. ASSUME NEW p \in Paths, RestoreConflicts(p) PROVE completion' # "kept"
  BY <1>25 DEF RestoreConflicts, IsNext, answer, history, Todo
<1>26. ASSUME NEW p \in Paths, RestoreFails(p) PROVE completion' # "kept"
  BY <1>26 DEF RestoreFails, IsNext, answer, history, Todo
<1>27. ASSUME NEW s \in {"succeeded", "failed", "cancelled"}, InstallEnds(s) PROVE completion' # "kept"
  BY <1>27 DEF InstallEnds, answer, history
<1>28. ASSUME NEW p \in Paths, NEW s \in InstallStates, InstallWrites(p, s) PROVE completion' # "kept"
  BY <1>28 DEF InstallWrites, Write, progress, answer
<1>29. ASSUME NEW d \in {"keep", "rollback", "failed"}, Decide(d) PROVE completion' # "kept"
  BY <1>29 DEF Decide, answer, history
<1>30. ASSUME NEW p \in Paths, NEW s \in UserStates, UserEdit(p, s) PROVE completion' # "kept"
  BY <1>30 DEF UserEdit, progress, answer, history
<1>31. CASE UNCHANGED vars
  BY <1>31 DEF vars, progress, answer, history
<1>. QED
  BY <1>1, <1>2, <1>3, <1>4, <1>5, <1>6, <1>7, <1>8, <1>9, <1>10, <1>11, <1>12, <1>13, <1>14, <1>15, <1>16, <1>17, <1>18, <1>19, <1>20, <1>21, <1>22, <1>23, <1>24, <1>25, <1>26, <1>27, <1>28, <1>29, <1>30, <1>31 DEF Next, Own, Outside, InstallEnd, VerificationEnd, RestoreStep, Done

\* Once the signal has fired no step answers "kept".
THEOREM AbortIsNeverIgnored == Spec => AbortedNeverKept
<1>1. [Next]_vars => [aborted /\ completion = "running" => completion' # "kept"]_vars
  BY KeepStep
<1>. QED
  BY <1>1, PTL DEF Spec, AbortedNeverKept

-----------------------------------------------------------------------------
(* The transaction implements the abstract upgrade.                        *)

\* An initial state of the transaction is one of the abstract upgrade.
LEMMA OutcomeInitHolds == Init => Outcome!OutcomeInit
  BY OptionsAssumption DEF Init, Outcome!OutcomeInit, Phase, Mine, Every, OptionOf

\* Every step of the transaction is a step of the abstract upgrade or none.
LEMMA OutcomeStep ==
  IInv /\ IInv' /\ [Next]_vars => [Outcome!OutcomeNext]_(Outcome!outcomeVars)
<1>. SUFFICES ASSUME IInv, IInv', [Next]_vars
              PROVE  [Outcome!OutcomeNext]_(Outcome!outcomeVars)
  OBVIOUS
<1>. USE NPathsAssumption, SentinelAssumption
<1>. USE DEF IInv, TypeOK, Paths, FileState, SnapshotRecorded, ExpectationsRecorded,
             ProgressRecorded, UntouchedIsClean, CleanOutcome, Mine, Phase,
             Outcome!outcomeVars, Outcome!OutcomeNext
<1>1. CASE BeginCancelled
  <2>1. Phase = "untouched" /\ Phase' = "not-started"
    BY <1>1 DEF BeginCancelled, Finish, progress, history
  <2>2. Mine = {} /\ Mine' = {}
    BY <1>1 DEF BeginCancelled, Finish, progress, history
  <2>. QED
    BY <1>1, <2>1, <2>2 DEF BeginCancelled, Finish, progress, history, Outcome!Settle
<1>2. CASE Begin
  BY <1>2 DEF Begin, progress, answer, history
<1>3. CASE ReadSnapshot
  BY <1>3 DEF ReadSnapshot, answer
<1>4. CASE SnapshotFails
  <2>1. Phase = "untouched" /\ Phase' = "not-started"
    BY <1>4 DEF SnapshotFails, Finish, progress, history
  <2>2. Mine = {} /\ Mine' = {}
    BY <1>4 DEF SnapshotFails, Finish, progress, history
  <2>. QED
    BY <1>4, <2>1, <2>2 DEF SnapshotFails, Finish, progress, history, Outcome!Settle
<1>5. CASE SnapshotCancelled
  <2>1. Phase = "untouched" /\ Phase' = "not-started"
    BY <1>5 DEF SnapshotCancelled, Finish, progress, history
  <2>2. Mine = {} /\ Mine' = {}
    BY <1>5 DEF SnapshotCancelled, Finish, progress, history
  <2>. QED
    BY <1>5, <2>1, <2>2 DEF SnapshotCancelled, Finish, progress, history, Outcome!Settle
<1>6. CASE SnapshotTaken
  BY <1>6 DEF SnapshotTaken, progress, answer, history
<1>7. CASE StagingCancelled
  <2>1. CASE NothingStaged /\ pc' = "done"
    <3>1. Phase = "changing" /\ Phase' = "not-started"
      BY <1>7, <2>1 DEF StagingCancelled, Finish, StartRollback, NothingStaged, history
    <3>2. Mine = {} /\ Mine' = {}
      BY <1>7, <2>1 DEF StagingCancelled, Finish, StartRollback, NothingStaged, history
    <3>. QED
      BY <1>7, <3>1, <3>2 DEF StagingCancelled, Finish, StartRollback, NothingStaged, history, Outcome!Settle
  <2>2. CASE pc' = "rollback"
    <3>1. Phase = "changing" /\ Phase' = "undoing" /\ Mine' = Mine
      BY <1>7, <2>2 DEF StagingCancelled, Finish, StartRollback, NothingStaged, history
    <3>. QED
      BY <1>7, <3>1 DEF StagingCancelled, Finish, StartRollback, NothingStaged, history, Outcome!Undo
  <2>. QED
    BY <1>7, <2>1, <2>2 DEF StagingCancelled, Finish, StartRollback, NothingStaged, history
<1>8. CASE StageFile
  <2>1. Phase = "changing" /\ Phase' = "changing"
    BY <1>8 DEF StageFile, Write, MoreStages, StageMatchesSnapshot, answer, Stage
  <2>2. Mine' \in SUBSET Paths
    BY DEF Mine
  <2>. QED
    BY <1>8, <2>1, <2>2 DEF StageFile, Write, MoreStages, StageMatchesSnapshot, answer, Stage, Outcome!Change
<1>9. CASE StageRefused
  <2>1. CASE NothingStaged /\ pc' = "done"
    <3>1. Phase = "changing" /\ Phase' = "not-started"
      BY <1>9, <2>1 DEF StageRefused, Finish, StartRollback, NothingStaged, MoreStages, history, Stage
    <3>2. Mine = {} /\ Mine' = {}
      BY <1>9, <2>1 DEF StageRefused, Finish, StartRollback, NothingStaged, MoreStages, history, Stage
    <3>. QED
      BY <1>9, <3>1, <3>2 DEF StageRefused, Finish, StartRollback, NothingStaged, MoreStages, history, Stage, Outcome!Settle
  <2>2. CASE pc' = "rollback"
    <3>1. Phase = "changing" /\ Phase' = "undoing" /\ Mine' = Mine
      BY <1>9, <2>2 DEF StageRefused, Finish, StartRollback, NothingStaged, MoreStages, history, Stage
    <3>. QED
      BY <1>9, <3>1 DEF StageRefused, Finish, StartRollback, NothingStaged, MoreStages, history, Stage, Outcome!Undo
  <2>. QED
    BY <1>9, <2>1, <2>2, StageType DEF StageRefused, Finish, StartRollback, NothingStaged, MoreStages, history, Stage
<1>10. CASE StartInstall
  BY <1>10 DEF StartInstall, MoreStages, progress, answer, history
<1>11. CASE CaptureState
  BY <1>11 DEF CaptureState, answer
<1>12. CASE CaptureFails
  BY <1>12 DEF CaptureFails, answer, history
<1>13. CASE InstallFailed
  BY <1>13 DEF InstallFailed, StartRollback, history
<1>14. CASE InstallCancelled
  BY <1>14 DEF InstallCancelled, StartRollback, history
<1>15. CASE KeepUnverified
  <2>1. Phase = "changing" /\ Phase' = "kept" /\ ~aborted
    BY <1>15 DEF KeepUnverified, Finish, progress, history
  <2>. QED
    BY <1>15, <2>1 DEF KeepUnverified, Finish, progress, history, Outcome!Settle
<1>16. CASE StartVerification
  BY <1>16 DEF StartVerification, progress, answer, history
<1>17. CASE KeepUnverifiable
  <2>1. Phase = "changing" /\ Phase' = "kept" /\ ~aborted
    BY <1>17 DEF KeepUnverifiable, Finish, progress, history
  <2>. QED
    BY <1>17, <2>1 DEF KeepUnverifiable, Finish, progress, history, Outcome!Settle
<1>18. CASE UndoUnverifiable
  BY <1>18 DEF UndoUnverifiable, StartRollback, history
<1>19. CASE RollbackEnds
  <2>1. Phase = "undoing" /\ Phase' = completion'
    BY <1>19 DEF RollbackEnds, Finish, Todo, progress, history
  <2>2. completion' \in {"rolled-back", "incomplete"}
    BY <1>19 DEF RollbackEnds, Finish, Todo, progress, history
  <2>3. completion' = "rolled-back" => Mine = {} /\ Mine' = {}
    BY <1>19 DEF RollbackEnds, Finish, Todo, progress, history
  <2>4. Mine' = Mine /\ UNCHANGED aborted
    BY <1>19 DEF RollbackEnds, Finish, Todo, progress, history
  <2>. QED
    BY <2>1, <2>2, <2>3, <2>4 DEF Outcome!Settle
<1>20. CASE VerificationPassed
  <2>1. Phase = "changing" /\ Phase' = "kept" /\ ~aborted
    BY <1>20 DEF VerificationPassed, Finish, progress, history
  <2>. QED
    BY <1>20, <2>1 DEF VerificationPassed, Finish, progress, history, Outcome!Settle
<1>21. CASE VerificationCancelled
  BY <1>21 DEF VerificationCancelled, StartRollback, history
<1>22. CASE VerificationFailed
  <2>1. CASE opt.decider
    BY <1>22, <2>1 DEF VerificationFailed, StartRollback, answer, history
  <2>2. CASE ~opt.decider
    <3>1. Phase = "changing" /\ Phase' = "undoing" /\ Mine' = Mine
      BY <1>22, <2>2 DEF VerificationFailed, StartRollback, answer, history
    <3>. QED
      BY <1>22, <3>1 DEF VerificationFailed, StartRollback, answer, history, Outcome!Undo
  <2>. QED
    BY <2>1, <2>2
<1>23. CASE Abort
  <2>1. Mine' = Mine /\ ~aborted /\ aborted'
    BY <1>23 DEF Abort, answer, history
  <2>2. CASE pc = "deciding" \/ (pc = "decided" /\ decision = "keep")
    <3>1. Phase = "changing" /\ Phase' = "undoing"
      BY <1>23, <2>2 DEF Abort, answer, history
    <3>. QED
      BY <2>1, <3>1 DEF Outcome!CancelAndUndo
  <2>3. CASE ~(pc = "deciding" \/ (pc = "decided" /\ decision = "keep"))
    <3>1. Phase \in {"untouched", "changing", "undoing"} /\ Phase' = Phase
      BY <1>23, <2>3 DEF Abort, answer, history, Steps
    <3>. QED
      BY <2>1, <3>1 DEF Outcome!Cancel
  <2>. QED
    BY <2>2, <2>3
<1>24. ASSUME NEW p \in Paths, RestoreFile(p) PROVE [Outcome!OutcomeNext]_(Outcome!outcomeVars)
  <2>1. Phase = "undoing" /\ Phase' = "undoing"
    BY <1>24 DEF RestoreFile, Write, IsNext, answer, Todo
  <2>2. Mine' \in SUBSET Mine
    BY <1>24 DEF RestoreFile, Write, IsNext, answer, Todo
  <2>. QED
    BY <1>24, <2>1, <2>2 DEF RestoreFile, Write, IsNext, answer, Todo, Outcome!Restore
<1>25. ASSUME NEW p \in Paths, RestoreConflicts(p) PROVE [Outcome!OutcomeNext]_(Outcome!outcomeVars)
  BY <1>25 DEF RestoreConflicts, IsNext, answer, history, Todo
<1>26. ASSUME NEW p \in Paths, RestoreFails(p) PROVE [Outcome!OutcomeNext]_(Outcome!outcomeVars)
  BY <1>26 DEF RestoreFails, IsNext, answer, history, Todo
<1>27. ASSUME NEW s \in {"succeeded", "failed", "cancelled"}, InstallEnds(s) PROVE [Outcome!OutcomeNext]_(Outcome!outcomeVars)
  BY <1>27 DEF InstallEnds, answer, history
<1>28. ASSUME NEW p \in Paths, NEW s \in InstallStates, InstallWrites(p, s) PROVE [Outcome!OutcomeNext]_(Outcome!outcomeVars)
  <2>1. Phase = "changing" /\ Phase' = "changing"
    BY <1>28 DEF InstallWrites, Write, progress, answer
  <2>2. Mine' \in SUBSET Paths
    BY DEF Mine
  <2>. QED
    BY <1>28, <2>1, <2>2 DEF InstallWrites, Write, progress, answer, Outcome!Change
<1>29. ASSUME NEW d \in {"keep", "rollback", "failed"}, Decide(d) PROVE [Outcome!OutcomeNext]_(Outcome!outcomeVars)
  BY <1>29 DEF Decide, answer, history
<1>30. ASSUME NEW p \in Paths, NEW s \in UserStates, UserEdit(p, s) PROVE [Outcome!OutcomeNext]_(Outcome!outcomeVars)
  BY <1>30 DEF UserEdit, progress, answer, history
<1>31. CASE UNCHANGED vars
  BY <1>31 DEF vars, progress, answer, history
<1>. QED
  BY <1>1, <1>2, <1>3, <1>4, <1>5, <1>6, <1>7, <1>8, <1>9, <1>10, <1>11, <1>12, <1>13, <1>14, <1>15, <1>16, <1>17, <1>18, <1>19, <1>20, <1>21, <1>22, <1>23, <1>24, <1>25, <1>26, <1>27, <1>28, <1>29, <1>30, <1>31 DEF Next, Own, Outside, InstallEnd, VerificationEnd, RestoreStep, Done

\* Every behaviour of the transaction is a behaviour of the abstract upgrade.
THEOREM TransactionImplementsOutcome == Spec => ImplementsOutcome
<1>1. Init => Outcome!OutcomeInit
  BY OutcomeInitHolds
<1>2. IInv /\ IInv' /\ [Next]_vars => [Outcome!OutcomeNext]_(Outcome!outcomeVars)
  BY OutcomeStep
<1>. QED
  BY <1>1, <1>2, Invariance, PTL DEF Spec, ImplementsOutcome, Outcome!OutcomeSpec

-----------------------------------------------------------------------------
(* What the end of the transaction that writes a fix is told as.           *)

RestoreLacks == \E p \in Paths : restored[p] \in {"failed", "conflict"}

\* How the answer, the cause of a rollback and what was restored fit together.
EndIsConsistent ==
  /\ pc = "rollback" => cause # "none"
  /\ pc \in {"verifying", "deciding", "decided"} => install = "succeeded"
  /\ pc = "done" =>
       \/ completion = "not-started" /\ cause = "none"
       \/ /\ completion = "kept" /\ cause = "none" /\ install = "succeeded"
          /\ (reason = "verified" /\ ~aborted) \/ reason \in {"verification-not-configured", "verification-failed"}
       \/ completion = "rolled-back" /\ cause # "none" /\ ~RestoreLacks /\ reason \in {cause, "cancelled"}
       \/ completion = "incomplete" /\ cause # "none" /\ RestoreLacks

\* Every step keeps them fitting.
LEMMA EndStep == IInv /\ EndIsConsistent /\ [Next]_vars => EndIsConsistent'
<1>. SUFFICES ASSUME IInv, EndIsConsistent, [Next]_vars PROVE EndIsConsistent'
  OBVIOUS
<1>. USE DEF EndIsConsistent, RestoreLacks
<1>0. pc \notin {"rollback", "done"} => cause = "none"
  BY DEF IInv, ProgressRecorded
<1>1. CASE Begin \/ ReadSnapshot \/ SnapshotTaken \/ StageFile \/ StartInstall
  BY <1>1, <1>0 DEF Begin, ReadSnapshot, SnapshotTaken, StageFile, StartInstall, progress, answer
<1>2. CASE BeginCancelled \/ SnapshotFails \/ SnapshotCancelled
  BY <1>2, <1>0 DEF BeginCancelled, SnapshotFails, SnapshotCancelled, Finish, progress
<1>3. CASE StagingCancelled
  BY <1>3, <1>0 DEF StagingCancelled, Finish, StartRollback
<1>4. CASE StageRefused
  BY <1>4, <1>0 DEF StageRefused, Finish, StartRollback
<1>5. CASE CaptureState \/ CaptureFails \/ StartVerification
  BY <1>5, <1>0 DEF CaptureState, CaptureFails, StartVerification, progress, answer
<1>6. CASE InstallFailed \/ InstallCancelled
  BY <1>6 DEF InstallFailed, InstallCancelled, StartRollback
<1>7. CASE KeepUnverified \/ KeepUnverifiable
  BY <1>7, <1>0 DEF KeepUnverified, KeepUnverifiable, Finish, progress
<1>8. CASE UndoUnverifiable \/ VerificationCancelled
  BY <1>8 DEF UndoUnverifiable, VerificationCancelled, StartRollback
<1>9. CASE VerificationPassed
  BY <1>9, <1>0 DEF VerificationPassed, Finish, progress
<1>10. CASE VerificationFailed
  BY <1>10, <1>0 DEF VerificationFailed, StartRollback, answer
<1>11. CASE RollbackEnds
  BY <1>11 DEF RollbackEnds, Finish, progress
<1>12. ASSUME NEW p \in Paths, RestoreFile(p) \/ RestoreConflicts(p) \/ RestoreFails(p) PROVE EndIsConsistent'
  BY <1>12 DEF RestoreFile, RestoreConflicts, RestoreFails, answer
<1>13. ASSUME NEW s \in {"succeeded", "failed", "cancelled"}, InstallEnds(s) PROVE EndIsConsistent'
  BY <1>13 DEF InstallEnds, answer
<1>14. ASSUME NEW d \in {"keep", "rollback", "failed"}, Decide(d) PROVE EndIsConsistent'
  BY <1>14 DEF Decide, answer
<1>15. ASSUME NEW p \in Paths, NEW s, InstallWrites(p, s) \/ UserEdit(p, s) PROVE EndIsConsistent'
  BY <1>15 DEF InstallWrites, UserEdit, progress, answer
<1>16. CASE Abort
  BY <1>16 DEF Abort, answer
<1>17. CASE UNCHANGED vars
  BY <1>17 DEF vars, progress, answer
<1>. QED
  BY <1>1, <1>2, <1>3, <1>4, <1>5, <1>6, <1>7, <1>8, <1>9, <1>10, <1>11, <1>12, <1>13, <1>14, <1>15, <1>16, <1>17
     DEF Next, Own, Outside, InstallEnd, VerificationEnd, RestoreStep, Done

\* A consistent end is told as it is, whatever the package manager and the comparison of the graphs say.
LEMMA EndIsTold == IInv /\ EndIsConsistent => ResultsAreTold
<1>. SUFFICES ASSUME IInv, EndIsConsistent, PostsResult,
                     NEW reconciled \in (IF Reconciles THEN BOOLEAN ELSE {TRUE}), NEW class \in {"full", "partial"}
              PROVE  LET r == ApplyResult(reconciled, class)
                     IN /\ ResultAccepted(r)
                        /\ r.outcome \in {"rolled-back", "cancelled"} => Mine = {} /\ reconciled
                        /\ Mine # {} => r.outcome \in {"verified", "partial", "unverified", "recovery-required"}
                        /\ r.outcome \in {"verified", "partial"} => install = "succeeded" /\ ~aborted
                        /\ r.outcome = "recovery-required" =>
                             ~reconciled \/ \E p \in Paths : restored[p] \in {"conflict", "failed"}
  BY DEF ResultsAreTold
<1>. DEFINE r == ApplyResult(reconciled, class)
<1>1. /\ r.outcome = ApplyOutcome(reconciled, class)
      /\ r.verification = CASE reason = "verified" -> "passed"
           [] cause = "verification-failed" \/ (completion = "kept" /\ reason = "verification-failed") -> "failed"
           [] OTHER -> "not-run"
      /\ r.rollback = IF reconciled THEN TransactionRollback ELSE "failed"
      /\ r.findings = CASE r.outcome = "recovery-required" -> NoFindings
           [] r.outcome # "recovery-required" /\ completion = "kept" -> FindingsOfPlan(class)
           [] OTHER -> Findings(FALSE, TRUE, FALSE)
  BY DEF ApplyResult
<1>2. /\ ~Findings(FALSE, TRUE, FALSE).resolved /\ ~Findings(FALSE, TRUE, FALSE).introduced
      /\ FindingsOfPlan("full") = Findings(TRUE, FALSE, FALSE) /\ FindingsOfPlan("partial") = Findings(TRUE, TRUE, FALSE)
  BY DEF Findings, FindingsOfPlan
<1>3. /\ completion \in {"not-started", "rolled-back"} => Mine = {}
      /\ cause \in {"none", "cancelled", "install-failed", "file-stage-failed", "manifest-stage-failed", "verification-failed"}
      /\ pc = "done" /\ (completion = "not-started" => reason = "cancelled")
  BY DEF IInv, CleanOutcome, TypeOK, PostsResult
<1>. HIDE DEF r
<1>4. CASE completion = "not-started" /\ cause = "none"
  <2>1. reconciled = TRUE /\ TransactionRollback = "not-needed" /\ r.outcome = "cancelled"
    BY <1>1, <1>3, <1>4 DEF Reconciles, TransactionRollback, ApplyOutcome
  <2>2. r.findings = Findings(FALSE, TRUE, FALSE) /\ r.rollback = "not-needed"
    BY <1>1, <1>4, <2>1
  <2>. QED
    BY <1>2, <1>3, <1>4, <2>1, <2>2 DEF ResultAccepted, r
<1>5. CASE completion = "kept" /\ cause = "none" /\ install = "succeeded" /\ reason = "verified" /\ ~aborted
  <2>1. reconciled = TRUE /\ TransactionRollback = "not-needed" /\ r.outcome = IF class = "full" THEN "verified" ELSE "partial"
    BY <1>1, <1>5 DEF Reconciles, TransactionRollback, ApplyOutcome
  <2>2. r.findings = FindingsOfPlan(class) /\ r.rollback = "not-needed" /\ r.verification = "passed"
    BY <1>1, <1>5, <2>1
  <2>. QED
    BY <1>2, <1>5, <2>1, <2>2 DEF ResultAccepted, r
<1>6. CASE completion = "kept" /\ cause = "none" /\ reason \in {"verification-not-configured", "verification-failed"}
  <2>1. reconciled = TRUE /\ TransactionRollback = "not-needed" /\ r.outcome = "unverified"
    BY <1>1, <1>6 DEF Reconciles, TransactionRollback, ApplyOutcome
  <2>2. r.rollback = "not-needed"
    BY <1>1, <2>1
  <2>. QED
    BY <2>1, <2>2 DEF ResultAccepted, r
<1>7. CASE completion = "rolled-back" /\ cause # "none" /\ ~RestoreLacks /\ reason \in {cause, "cancelled"}
  <2>1. TransactionRollback = "succeeded"
    BY <1>7 DEF TransactionRollback, RestoreLacks
  <2>2. CASE reconciled
    <3>1. r.outcome \in {"cancelled", "rolled-back"} /\ r.rollback = "succeeded"
      BY <1>1, <1>7, <2>1, <2>2 DEF ApplyOutcome
    <3>2. r.findings = Findings(FALSE, TRUE, FALSE)
      BY <1>1, <1>7, <3>1
    <3>. QED
      BY <1>2, <1>3, <1>7, <2>2, <3>1, <3>2 DEF ResultAccepted, r
  <2>3. CASE ~reconciled
    <3>1. r.outcome = "recovery-required"
      BY <1>1, <1>7, <2>3 DEF ApplyOutcome
    <3>2. r.rollback = "failed" /\ r.findings = NoFindings
      BY <1>1, <2>3, <3>1
    <3>. QED
      BY <1>3, <1>7, <2>3, <3>1, <3>2 DEF ResultAccepted, r
  <2>. QED
    BY <2>2, <2>3
<1>8. CASE completion = "incomplete" /\ cause # "none" /\ RestoreLacks
  <2>1. reconciled = TRUE /\ TransactionRollback \in {"failed", "conflict"} /\ r.outcome = "recovery-required"
    BY <1>1, <1>8 DEF Reconciles, TransactionRollback, ApplyOutcome, RestoreLacks
  <2>2. r.rollback \in {"failed", "conflict"} /\ r.findings = NoFindings
    BY <1>1, <2>1
  <2>. QED
    BY <1>8, <2>1, <2>2 DEF ResultAccepted, RestoreLacks, r
<1>. QED
  BY <1>3, <1>4, <1>5, <1>6, <1>7, <1>8 DEF EndIsConsistent, r

\* However the transaction that writes a fix ended, the webview accepts its result, and the result is
\* true of the files: for any files, stages, edits and failures.
THEOREM FixResultsAreTold == Spec => []ResultsAreTold
<1>1. Init => EndIsConsistent
  BY DEF Init, EndIsConsistent
<1>2. Spec => [](IInv /\ EndIsConsistent)
  BY <1>1, Invariance, EndStep, PTL DEF Spec
<1>. QED
  BY <1>2, EndIsTold, PTL
=============================================================================
