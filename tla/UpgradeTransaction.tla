------------------------- MODULE UpgradeTransaction -------------------------
(***************************************************************************)
(* One dependency upgrade as runUpgradeTransaction                         *)
(* (src/src/host/upgradeTransaction.ts) drives it: snapshot the            *)
(* allowlisted files, stage host-generated bytes through compare-and-swap, *)
(* run the package manager, capture what it left, verify, then keep the    *)
(* result or roll it back through compare-and-swap.                        *)
(*                                                                         *)
(* Three actors share the files: the transaction itself, the package       *)
(* manager it awaits, and everybody else who can write the project (the    *)
(* user's editor, a verification script).  Each step of the transaction    *)
(* below is the code between two of its awaits; what one await does to one *)
(* file is atomic here (module NodeFileAdapter opens compareAndSwap up).   *)
(***************************************************************************)
EXTENDS Naturals, Sequences

CONSTANTS
  NPaths,         \* number of distinct allowlisted paths (stableAllowlist)
  Present,        \* possible contents of a file that exists
  Absent,         \* the file does not exist
  NoEntry,        \* no snapshot or expectation recorded for a path
  CaptureError,   \* the post-install read of a path failed
  InitialStates,  \* what a file may hold when the transaction is called
  InstallStates,  \* what the package manager may leave in a file
  UserStates,     \* what anybody else may leave in a file
  Options,        \* the UpgradeTransactionOptions callers pass
  MaxEdits        \* bound: edits by others during one transaction

Paths == 1 .. NPaths
FileState == Present \cup {Absent}

StageOf == [kind : {"manifest", "file"}, path : Nat, from : Present, to : Present]
OptionOf == [stages : Seq(StageOf), verifier : BOOLEAN,
             decider : BOOLEAN, signal : BOOLEAN]

ASSUME NPathsAssumption == NPaths \in Nat
ASSUME SentinelAssumption ==
  /\ Absent \notin Present
  /\ {NoEntry, CaptureError} \cap FileState = {}
  /\ NoEntry # CaptureError
ASSUME StatesAssumption ==
  InitialStates \cup InstallStates \cup UserStates \subseteq FileState
ASSUME OptionsAssumption == Options \subseteq OptionOf
\* Callers stage files in allowlist order (the manifest, then the lockfile),
\* each at most once, and at most one manifest.
ASSUME StageOrderAssumption ==
  \A o \in Options : \A i, j \in 1 .. Len(o.stages) :
    i < j => /\ o.stages[i].path < o.stages[j].path
             /\ o.stages[j].kind = "file"
ASSUME MaxEditsAssumption == MaxEdits \in Nat

VARIABLES
  disk,          \* what each allowlisted file holds now
  opt,           \* the options of this transaction
  aborted,       \* options.signal.aborted
  pc,            \* the await the transaction is at
  cursor,        \* loop position in the allowlist or in the stages
  before,        \* SnapshotEntry.before
  expected,      \* ExpectedEntry: expectedAfterStage, then the captured states
  install,       \* install result
  decision,      \* how decideAfterFailure settled
  cause,         \* why the rollback was started
  restored,      \* RollbackFileResult.status of each path
  completion,    \* TransactionCompletion
  reason,        \* TransactionReason
  retention,     \* retentionDecision
  owned,         \* history: last content read by the snapshot or written by
                 \* the transaction or its package manager
  absorbed,      \* history: paths whose captured state is somebody's edit
  lost,          \* history: paths where a restore overwrote an edit
  edits          \* history: number of edits made by others

progress == <<opt, before, expected, install, decision, cause, restored>>
answer == <<completion, reason, retention>>
history == <<owned, absorbed, lost>>
vars == <<disk, aborted, pc, cursor, edits, progress, answer, history>>

Steps == {"begin", "snapshot", "staging", "installing", "capturing",
          "verifying", "deciding", "decided", "rollback", "done"}

\* Each path starts with the same "nothing recorded" value.
Every(value) == [p \in Paths |-> value]

Init ==
  /\ disk \in [Paths -> InitialStates]
  /\ opt \in Options
  /\ aborted \in {FALSE, opt.signal}
  /\ pc = "begin" /\ cursor = 1
  /\ before = Every(NoEntry) /\ expected = Every(NoEntry)
  /\ install = "not-run" /\ decision = "none" /\ cause = "none"
  /\ restored = Every("none")
  /\ completion = "running" /\ reason = "none" /\ retention = "not-needed"
  /\ owned = disk /\ absorbed = {} /\ lost = {} /\ edits = 0

-----------------------------------------------------------------------------
(* What the steps have in common. *)

\* Settle the returned promise.
Finish(c, r, keep) ==
  /\ pc' = "done" /\ completion' = c /\ reason' = r /\ retention' = keep

\* Start rolling back because of `why`.
StartRollback(why, keep) ==
  /\ pc' = "rollback" /\ cause' = why /\ retention' = keep
  /\ UNCHANGED <<completion, reason>>

NothingStaged == \A p \in Paths : expected[p] = NoEntry

\* A write by the transaction or its package manager.
Write(p, state) ==
  /\ disk' = [disk EXCEPT ![p] = state]
  /\ owned' = [owned EXCEPT ![p] = state]

-----------------------------------------------------------------------------
(* Snapshot *)

\* Already cancelled when called: nothing is even read.
BeginCancelled ==
  /\ pc = "begin" /\ aborted
  /\ Finish("not-started", "cancelled", "not-needed")
  /\ UNCHANGED <<disk, aborted, cursor, edits, progress, history>>

Begin ==
  /\ pc = "begin" /\ ~aborted
  /\ pc' = "snapshot"
  /\ UNCHANGED <<disk, aborted, cursor, edits, progress, answer, history>>

\* takeSnapshot reads one path after the other.
ReadSnapshot ==
  /\ pc = "snapshot" /\ cursor \in Paths
  /\ before' = [before EXCEPT ![cursor] = disk[cursor]]
  /\ owned' = [owned EXCEPT ![cursor] = disk[cursor]]
  /\ cursor' = cursor + 1
  /\ UNCHANGED <<disk, aborted, pc, edits, opt, expected, install, decision,
                 cause, restored, answer, absorbed, lost>>

SnapshotFails ==
  /\ pc = "snapshot" /\ cursor \in Paths
  /\ Finish("not-started", "snapshot-failed", "not-needed")
  /\ UNCHANGED <<disk, aborted, cursor, edits, progress, history>>

\* Nothing has been changed yet, so cancelling is a clean stop.
SnapshotCancelled ==
  /\ pc = "snapshot" /\ cursor \notin Paths /\ aborted
  /\ Finish("not-started", "cancelled", "not-needed")
  /\ UNCHANGED <<disk, aborted, cursor, edits, progress, history>>

SnapshotTaken ==
  /\ pc = "snapshot" /\ cursor \notin Paths /\ ~aborted
  /\ pc' = "staging" /\ cursor' = 1
  /\ UNCHANGED <<disk, aborted, edits, progress, answer, history>>

-----------------------------------------------------------------------------
(* Staging *)

MoreStages == cursor <= Len(opt.stages)
Stage == opt.stages[cursor]

\* The snapshot holds exactly the bytes the staged ones were prepared from.
StageMatchesSnapshot ==
  /\ Stage.path \in Paths
  /\ before[Stage.path] # NoEntry
  /\ before[Stage.path] = Stage.from

\* The cancellation checks around staging: a clean stop while nothing is
\* staged, otherwise the staged files are restored.
StagingCancelled ==
  /\ pc = "staging" /\ aborted
  /\ \/ /\ NothingStaged
        /\ Finish("not-started", "cancelled", "not-needed")
        /\ UNCHANGED cause
     \/ ~NothingStaged /\ StartRollback("cancelled", "rollback")
  /\ UNCHANGED <<disk, aborted, cursor, edits, opt, before, expected, install,
                 decision, restored, history>>

StageFile ==
  /\ pc = "staging" /\ ~aborted /\ MoreStages
  /\ StageMatchesSnapshot
  /\ disk[Stage.path] = Stage.from
  /\ Write(Stage.path, Stage.to)
  /\ expected' = [expected EXCEPT ![Stage.path] = Stage.to]
  /\ cursor' = cursor + 1
  /\ UNCHANGED <<aborted, pc, edits, opt, before, install, decision, cause,
                 restored, answer, absorbed, lost>>

\* Slip: any refused stage counts as a clean stop.
StageRefusedForgetsStaged ==
  /\ pc = "staging" /\ ~aborted /\ MoreStages
  /\ Finish("not-started", "file-stage-failed", "not-needed")
  /\ UNCHANGED <<disk, aborted, cursor, edits, progress, history>>

\* Path not allowlisted, file missing, snapshot or compare-and-swap conflict,
\* or a write that throws (which can happen whatever the file holds).  A
\* refused manifest is the first stage, so nothing needs restoring.
StageRefused ==
  /\ pc = "staging" /\ ~aborted /\ MoreStages
  /\ LET why == IF Stage.kind = "manifest" THEN "manifest-stage-failed"
                                           ELSE "file-stage-failed"
     IN \/ /\ Stage.kind = "manifest" \/ NothingStaged
           /\ Finish("not-started", why, "not-needed")
           /\ UNCHANGED cause
        \/ /\ Stage.kind = "file" /\ ~NothingStaged
           /\ StartRollback(why, "rollback")
  /\ UNCHANGED <<disk, aborted, cursor, edits, opt, before, expected, install,
                 decision, restored, history>>

StartInstall ==
  /\ pc = "staging" /\ ~aborted /\ ~MoreStages
  /\ pc' = "installing"
  /\ UNCHANGED <<disk, aborted, cursor, edits, progress, answer, history>>

-----------------------------------------------------------------------------
(* Install: the package manager runs; cancellation is not forwarded to it. *)

InstallWrites(p, state) ==
  /\ pc = "installing" /\ disk[p] # state
  /\ Write(p, state)
  /\ UNCHANGED <<aborted, pc, cursor, edits, progress, answer, absorbed, lost>>

\* executeInstall turns a throwing executor into a failed install.
InstallEnds(status) ==
  /\ pc = "installing"
  /\ install' = status
  /\ expected' = Every(NoEntry)
  /\ pc' = "capturing" /\ cursor' = 1
  /\ UNCHANGED <<disk, aborted, edits, opt, before, decision, cause, restored,
                 answer, history>>

\* captureExpectedStates: what rollback will compare against.
CaptureState ==
  /\ pc = "capturing" /\ cursor \in Paths
  /\ expected' = [expected EXCEPT ![cursor] = disk[cursor]]
  /\ absorbed' = IF disk[cursor] = owned[cursor] THEN absorbed
                                                 ELSE absorbed \cup {cursor}
  /\ cursor' = cursor + 1
  /\ UNCHANGED <<disk, aborted, pc, edits, opt, before, install, decision,
                 cause, restored, answer, owned, lost>>

CaptureFails ==
  /\ pc = "capturing" /\ cursor \in Paths
  /\ expected' = [expected EXCEPT ![cursor] = CaptureError]
  /\ cursor' = cursor + 1
  /\ UNCHANGED <<disk, aborted, pc, edits, opt, before, install, decision,
                 cause, restored, answer, history>>

InstallFailed ==
  /\ pc = "capturing" /\ cursor \notin Paths /\ install # "succeeded"
  /\ StartRollback(IF install = "cancelled" THEN "cancelled"
                                            ELSE "install-failed", "rollback")
  /\ UNCHANGED <<disk, aborted, cursor, edits, opt, before, expected, install,
                 decision, restored, history>>

InstallCancelled ==
  /\ pc = "capturing" /\ cursor \notin Paths /\ install = "succeeded"
  /\ aborted
  /\ StartRollback("cancelled", "rollback")
  /\ UNCHANGED <<disk, aborted, cursor, edits, opt, before, expected, install,
                 decision, restored, history>>

KeepUnverified ==
  /\ pc = "capturing" /\ cursor \notin Paths /\ install = "succeeded"
  /\ ~aborted /\ ~opt.verifier
  /\ Finish("kept", "verification-not-configured", "not-needed")
  /\ UNCHANGED <<disk, aborted, cursor, edits, progress, history>>

StartVerification ==
  /\ pc = "capturing" /\ cursor \notin Paths /\ install = "succeeded"
  /\ ~aborted /\ opt.verifier
  /\ pc' = "verifying"
  /\ UNCHANGED <<disk, aborted, cursor, edits, progress, answer, history>>

-----------------------------------------------------------------------------
(* Verification and the user's decision about a failed one *)

\* Slip: a passed verification is not checked against the signal.
PassedIgnoresAbort ==
  /\ pc = "verifying"
  /\ Finish("kept", "verified", "not-needed")
  /\ UNCHANGED <<disk, aborted, cursor, edits, progress, history>>

VerificationPassed ==
  /\ pc = "verifying" /\ ~aborted
  /\ Finish("kept", "verified", "not-needed")
  /\ UNCHANGED <<disk, aborted, cursor, edits, progress, history>>

\* Whatever the checks say, an abort seen here rolls back; so does a
\* verification that reports itself cancelled.
VerificationCancelled ==
  /\ pc = "verifying"
  /\ StartRollback("cancelled", "rollback")
  /\ UNCHANGED <<disk, aborted, cursor, edits, opt, before, expected, install,
                 decision, restored, history>>

VerificationFailed ==
  /\ pc = "verifying" /\ ~aborted
  /\ \/ /\ opt.decider
        /\ pc' = "deciding" /\ UNCHANGED <<answer, cause>>
     \/ ~opt.decider /\ StartRollback("verification-failed", "rollback")
  /\ UNCHANGED <<disk, aborted, cursor, edits, opt, before, expected, install,
                 decision, restored, history>>

\* The decider resolves with an answer, or rejects ("failed").
Decide(answered) ==
  /\ pc = "deciding"
  /\ decision' = answered
  /\ pc' = "decided"
  /\ UNCHANGED <<disk, aborted, cursor, edits, opt, before, expected, install,
                 cause, restored, answer, history>>

\* Slip: "keep" is not checked against the signal.
KeepIgnoresAbort ==
  /\ pc = "decided" /\ decision = "keep"
  /\ Finish("kept", "verification-failed", "keep")
  /\ UNCHANGED <<disk, aborted, cursor, edits, progress, history>>

KeepUnverifiable ==
  /\ pc = "decided" /\ decision = "keep" /\ ~aborted
  /\ Finish("kept", "verification-failed", "keep")
  /\ UNCHANGED <<disk, aborted, cursor, edits, progress, history>>

UndoUnverifiable ==
  /\ pc = "decided" /\ (decision # "keep" \/ aborted)
  /\ StartRollback("verification-failed",
                   IF decision # "failed" /\ aborted THEN "cancelled" ELSE decision)
  /\ UNCHANGED <<disk, aborted, cursor, edits, opt, before, expected, install,
                 decision, restored, history>>

-----------------------------------------------------------------------------
(* Rollback *)

Todo == {p \in Paths : expected[p] # NoEntry /\ restored[p] = "none"}
IsNext(p) == p \in Todo /\ \A q \in Todo : p <= q

\* Slip: restore without comparing.
RestoreBlindly(p) ==
  /\ pc = "rollback" /\ IsNext(p)
  /\ Write(p, before[p])
  /\ lost' = IF disk[p] \in {owned[p], before[p]} THEN lost ELSE lost \cup {p}
  /\ restored' = [restored EXCEPT ![p] = "restored"]
  /\ UNCHANGED <<aborted, pc, cursor, edits, opt, before, expected, install,
                 decision, cause, answer, absorbed>>

\* Slip: the two states are passed to compareAndSwap in the wrong order.
RestoreSwapped(p) ==
  /\ pc = "rollback" /\ IsNext(p)
  /\ disk[p] = before[p]
  /\ disk' = [disk EXCEPT ![p] = expected[p]]
  /\ restored' = [restored EXCEPT ![p] = "restored"]
  /\ UNCHANGED <<aborted, pc, cursor, edits, opt, before, expected, install,
                 decision, cause, answer, history>>

\* compareAndSwap answers 'restored': the captured bytes are still there.
RestoreFile(p) ==
  /\ pc = "rollback" /\ IsNext(p)
  /\ disk[p] = expected[p]
  /\ Write(p, before[p])
  /\ lost' = IF disk[p] \in {owned[p], before[p]} THEN lost ELSE lost \cup {p}
  /\ restored' = [restored EXCEPT ![p] = "restored"]
  /\ UNCHANGED <<aborted, pc, cursor, edits, opt, before, expected, install,
                 decision, cause, answer, absorbed>>

\* compareAndSwap answers 'conflict': somebody changed the file since.
RestoreConflicts(p) ==
  /\ pc = "rollback" /\ IsNext(p)
  /\ expected[p] # CaptureError /\ disk[p] # expected[p]
  /\ restored' = [restored EXCEPT ![p] = "conflict"]
  /\ UNCHANGED <<disk, aborted, pc, cursor, edits, opt, before, expected,
                 install, decision, cause, answer, history>>

\* The state was never captured, or compareAndSwap throws.
RestoreFails(p) ==
  /\ pc = "rollback" /\ IsNext(p)
  /\ restored' = [restored EXCEPT ![p] = "failed"]
  /\ UNCHANGED <<disk, aborted, pc, cursor, edits, opt, before, expected,
                 install, decision, cause, answer, history>>

\* completionAfterRollback; the reason is read from the signal only now.
RollbackEnds ==
  /\ pc = "rollback" /\ Todo = {}
  /\ Finish(IF \E p \in Paths : restored[p] \in {"failed", "conflict"}
              THEN "incomplete" ELSE "rolled-back",
            IF cause \in {"install-failed", "verification-failed"} /\ aborted
              THEN "cancelled" ELSE cause,
            retention)
  /\ UNCHANGED <<disk, aborted, cursor, edits, progress, history>>

-----------------------------------------------------------------------------
(* The rest of the world *)

\* Slip: the pending decision does not listen to the signal.
AbortWithoutListener ==
  /\ opt.signal /\ ~aborted /\ pc # "done"
  /\ aborted' = TRUE
  /\ UNCHANGED <<disk, pc, cursor, edits, progress, answer, history>>

\* Slip: a transaction without a signal can be aborted too.
AbortWithoutSignal ==
  /\ ~aborted /\ pc # "done"
  /\ aborted' = TRUE
  /\ UNCHANGED <<disk, pc, cursor, edits, progress, answer, history>>

\* options.signal fires; a pending decision resolves to 'rollback' at once.
Abort ==
  /\ opt.signal /\ ~aborted /\ pc # "done"
  /\ aborted' = TRUE
  /\ \/ /\ pc = "deciding"
        /\ pc' = "decided" /\ decision' = "rollback"
     \/ pc # "deciding" /\ UNCHANGED <<pc, decision>>
  /\ UNCHANGED <<disk, cursor, edits, opt, before, expected, install, cause,
                 restored, answer, history>>

\* Somebody else saves a file while the transaction runs.
UserEdit(p, state) ==
  /\ pc # "done" /\ edits < MaxEdits /\ disk[p] # state
  /\ disk' = [disk EXCEPT ![p] = state]
  /\ edits' = edits + 1
  /\ UNCHANGED <<aborted, pc, cursor, progress, answer, history>>

-----------------------------------------------------------------------------
InstallEnd == \E s \in {"succeeded", "failed", "cancelled"} : InstallEnds(s)
VerificationEnd == VerificationPassed \/ VerificationCancelled \/ VerificationFailed
RestoreStep == \E p \in Paths :
                 RestoreFile(p) \/ RestoreConflicts(p) \/ RestoreFails(p)

\* The steps the transaction takes by itself.
Own ==
  \/ BeginCancelled \/ Begin
  \/ ReadSnapshot \/ SnapshotFails \/ SnapshotCancelled \/ SnapshotTaken
  \/ StagingCancelled \/ StageFile \/ StageRefused \/ StartInstall
  \/ CaptureState \/ CaptureFails
  \/ InstallFailed \/ InstallCancelled \/ KeepUnverified \/ StartVerification
  \/ KeepUnverifiable \/ UndoUnverifiable
  \/ RestoreStep \/ RollbackEnds

\* What others do to it.
Outside ==
  \/ \E p \in Paths, s \in InstallStates : InstallWrites(p, s)
  \/ \E d \in {"keep", "rollback", "failed"} : Decide(d)
  \/ Abort
  \/ \E p \in Paths, s \in UserStates : UserEdit(p, s)

\* The caller has its answer.
Done == pc = "done" /\ UNCHANGED vars

Next == Own \/ InstallEnd \/ VerificationEnd \/ Outside \/ Done

Spec == Init /\ [][Next]_vars

\* The transaction takes its next step, and the package manager and the
\* verification it awaits end; the user may never answer the prompt.
FairSpec == Spec /\ WF_vars(Own) /\ WF_vars(InstallEnd) /\ WF_vars(VerificationEnd)

-----------------------------------------------------------------------------
(* What a transaction promises *)

\* Files that hold something the transaction or its package manager left there
\* in place of what the snapshot found.
Mine == {p \in Paths : before[p] # NoEntry /\ owned[p] # before[p]}

\* Every variable keeps its type, and only a transaction that was given a signal
\* can be aborted.
TypeOK ==
  /\ disk \in [Paths -> FileState] /\ owned \in [Paths -> FileState]
  /\ opt \in Options /\ aborted \in BOOLEAN /\ (aborted => opt.signal)
  /\ pc \in Steps /\ cursor \in Nat \ {0} /\ edits \in 0 .. MaxEdits
  /\ before \in [Paths -> FileState \cup {NoEntry}]
  /\ expected \in [Paths -> FileState \cup {NoEntry, CaptureError}]
  /\ install \in {"not-run", "succeeded", "failed", "cancelled"}
  /\ decision \in {"none", "keep", "rollback", "failed"}
  /\ cause \in {"none", "cancelled", "install-failed", "file-stage-failed",
                "manifest-stage-failed", "verification-failed"}
  /\ restored \in [Paths -> {"none", "restored", "conflict", "failed"}]
  /\ completion \in {"running", "kept", "rolled-back", "not-started", "incomplete"}
  /\ reason \in {"none", "verified", "verification-not-configured",
                 "verification-failed", "install-failed", "cancelled",
                 "snapshot-failed", "manifest-stage-failed", "file-stage-failed"}
  /\ retention \in {"not-needed", "keep", "rollback", "cancelled", "failed"}
  /\ absorbed \subseteq Paths /\ lost \subseteq Paths

\* A transaction that reports "not-started" or "rolled-back" has left nothing of
\* its own in any allowlisted file, whichever stage, install, capture, restore
\* or cancellation ended it and whatever others saved meanwhile.
CleanOutcome ==
  completion \in {"not-started", "rolled-back"} => Mine = {}

\* After an attempted rollback every file that still carries something of ours
\* is named in the rollback report as a conflict or a failure.
LeftoversReported ==
  pc = "done" /\ cause # "none" =>
    \A p \in Mine : restored[p] \in {"conflict", "failed"}

\* The only edits by others that a restore can overwrite are those already on
\* disk when the post-install state was captured: before that staged bytes are
\* restored by exact comparison, after it a changed file is a conflict.
LostOnlyIfAbsorbed == lost \subseteq absorbed

\* README.md:67 "Rollback refuses to overwrite concurrent edits."
NoConcurrentEditLost == lost = {}

\* No step keeps the upgrade once the signal has fired: every await is followed
\* by a cancellation check before "kept" can be answered.
AbortedNeverKept ==
  [][aborted /\ completion = "running" => completion' # "kept"]_vars

\* Cancelling always ends the transaction, even if the user never answers the
\* keep-or-roll-back prompt.
AbortEnds == aborted ~> (pc = "done")

\* The transaction implements what an upgrade promises.
Phase ==
  CASE pc = "done" -> completion
    [] pc \in {"begin", "snapshot"} -> "untouched"
    [] pc = "rollback" \/ (pc = "decided" /\ (decision # "keep" \/ aborted)) -> "undoing"
    [] OTHER -> "changing"

Outcome == INSTANCE UpgradeOutcome WITH phase <- Phase, mine <- Mine

ImplementsOutcome == Outcome!OutcomeSpec
=============================================================================
