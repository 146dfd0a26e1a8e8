------------------------ MODULE DependencyOperations ------------------------
(***************************************************************************)
(* The panel's dependency operations: upgrade reviews, removal reviews and *)
(* transitive fixes as UpgradeAssistantCoordinator                         *)
(* (src/src/host/upgradeAssistantCoordinator.ts) runs them over the one    *)
(* OperationReservation (src/src/host/operationReservation.ts).            *)
(*                                                                         *)
(* A flow is one review: an analysis that ends in a stored review, and the *)
(* execution its confirmation starts.  Each action is the code one message *)
(* or one resumed await runs.  The reservation, the cancellation flags and *)
(* the stored reviews are shared, and the reservation and two of the flags *)
(* are keyed by a package name, which several flows may have in common.    *)
(* A transaction that writes is one stage, "mutating": UpgradeTransaction  *)
(* models what happens inside it.                                          *)
(***************************************************************************)
EXTENDS Naturals

CONSTANTS
  NFlows,     \* bound: reviews requested while the panel is open
  Pkgs,       \* package names reviews are keyed by
  NoPkg,      \* no package
  MaxEdits,   \* bound: changes of the dependency files
  MaxEvents   \* bound: watcher notifications

Flows == 1 .. NFlows
NoFlow == 0

ASSUME NFlowsAssumption == NFlows \in Nat
ASSUME NoPkgAssumption == NoPkg \notin Pkgs
ASSUME BoundsAssumption == MaxEdits \in Nat /\ MaxEvents \in Nat

VARIABLES
  held,            \* OperationReservation.heldPackage (UpgradeLock.heldBy)
  mutating,        \* OperationReservation.mutating
  draining,        \* a release is awaiting flushDeferredChanges
  kind, pkg,       \* what each flow reviews
  ana,             \* the await its analysis is at
  exe,             \* the await its execution is at
  gen,             \* source generation it captured
  snap,            \* version of the dependency files it reviewed
  aborted,         \* flows whose AbortController or cancelled flag is set
  freed,           \* removal analyses with releaseStarted set by a canceller
  analysis,        \* stored upgrade review
  removal,         \* stored removal review
  plans,           \* stored remediation plans
  stale,           \* plans marked stale
  expired,         \* stored reviews past their expiresAt
  pendingAnalyze,  \* pendingAnalyzePackage
  cancelFor,       \* cancelRequestedFor
  activeAbort,     \* whose signal activeUpgradeAnalysisAbort is
  pendingRemoval,  \* pendingRemovalAnalysis
  fixAbort,        \* whose signal activeRemediationAbort is
  sourceGen,       \* SourceGenerationGuard.generation
  disk,            \* version of the dependency files
  noticed,         \* the version the last watcher event was about
  disposed,        \* the panel is closed
  sessionDisposed, \* UpgradeExecutionSession.dispose has run
  dismissed        \* history: analyses in flight at a cancel or a remount

lock == <<held, mutating, draining>>
flow == <<kind, pkg, ana, exe, gen, snap>>
reviews == <<analysis, removal, plans, stale, expired>>
upgradeFlags == <<pendingAnalyze, cancelFor, activeAbort>>
flags == <<aborted, freed, upgradeFlags, pendingRemoval, fixAbort>>
source == <<sourceGen, disk, noticed>>
panel == <<disposed, sessionDisposed>>
vars == <<lock, flow, reviews, flags, source, panel, dismissed>>

Init ==
  /\ held = NoPkg /\ mutating = FALSE /\ draining = FALSE
  /\ kind = [f \in Flows |-> "none"] /\ pkg = [f \in Flows |-> NoPkg]
  /\ ana = [f \in Flows |-> "idle"] /\ exe = [f \in Flows |-> "none"]
  /\ gen = [f \in Flows |-> 0] /\ snap = [f \in Flows |-> 0]
  /\ aborted = {} /\ freed = {}
  /\ analysis = NoFlow /\ removal = NoFlow
  /\ plans = {} /\ stale = {} /\ expired = {}
  /\ pendingAnalyze = NoPkg /\ cancelFor = NoPkg /\ activeAbort = NoFlow
  /\ pendingRemoval = NoFlow /\ fixAbort = NoFlow
  /\ sourceGen = 0 /\ disk = 0 /\ noticed = 0
  /\ disposed = FALSE /\ sessionDisposed = FALSE /\ dismissed = {}

-----------------------------------------------------------------------------
(* The reservation *)

Reserve(p) ==
  /\ held = NoPkg
  /\ held' = p
  /\ UNCHANGED <<mutating, draining>>

\* release(name) for the given names: a no-op for every name that is not held,
\* whoever reserved it; otherwise cleared at once, then the deferred changes
\* are flushed.
Release(names) ==
  IF held \in names
    THEN held' = NoPkg /\ mutating' = FALSE /\ draining' = TRUE
    ELSE UNCHANGED lock

\* Slip: a session whose panel closed during a mutation is never torn down.
DrainedKeepsSession ==
  /\ draining /\ draining' = FALSE
  /\ UNCHANGED <<held, mutating, flow, reviews, flags, source, panel, dismissed>>

\* The flush is over; a closed panel's session goes with its last release.
Drained ==
  /\ draining /\ draining' = FALSE
  /\ sessionDisposed' = (sessionDisposed \/ disposed)
  /\ UNCHANGED <<held, mutating, flow, reviews, flags, source, disposed, dismissed>>

\* reclaimExpiredAnalysis and reclaimExpiredRemoval
Reclaim ==
  /\ analysis' = IF analysis \in expired THEN NoFlow ELSE analysis
  /\ removal' = IF removal \in expired THEN NoFlow ELSE removal
  /\ Release({pkg[f] : f \in {analysis, removal} \cap expired})
  /\ UNCHANGED <<plans, stale, expired>>

\* A message for a flow that has not started; flows are numbered in the order
\* they are requested.
Requested(f, k, p) ==
  /\ ~disposed /\ kind[f] = "none" /\ \A g \in 1 .. f - 1 : kind[g] # "none"
  /\ kind' = [kind EXCEPT ![f] = k]
  /\ pkg' = [pkg EXCEPT ![f] = p]
  /\ UNCHANGED <<exe, gen, snap, source, panel, dismissed>>

AnaTo(f, stage) == ana' = [ana EXCEPT ![f] = stage]
ExeTo(f, stage) == exe' = [exe EXCEPT ![f] = stage]

-----------------------------------------------------------------------------
(* Upgrade analysis *)

\* upgrade, bulk-upgrade: refused while a transitive fix is active; otherwise
\* the controller and the eligibility are awaited.
AnalyzeUpgrade(f, p) ==
  /\ Requested(f, "upgrade", p)
  /\ Reclaim
  /\ AnaTo(f, IF fixAbort = NoFlow THEN "validating" ELSE "done")
  /\ UNCHANGED flags

ReserveUpgrade(f) ==
  /\ kind[f] = "upgrade" /\ ana[f] = "validating"
  /\ Reserve(pkg[f])
  /\ pendingAnalyze' = pkg[f] /\ activeAbort' = f
  /\ AnaTo(f, "analyzing")
  /\ UNCHANGED <<kind, pkg, exe, gen, snap, reviews, aborted, freed, cancelFor,
                 pendingRemoval, fixAbort, source, panel, dismissed>>

\* Not eligible, or somebody else holds the reservation.
UpgradeRejected(f) ==
  /\ kind[f] = "upgrade" /\ ana[f] = "validating"
  /\ AnaTo(f, "done")
  /\ UNCHANGED <<lock, kind, pkg, exe, gen, snap, reviews, flags, source, panel,
                 dismissed>>

\* Slip: the result is stored whatever was cancelled meanwhile.
UpgradeAlwaysStored(f) ==
  /\ kind[f] = "upgrade" /\ ana[f] = "analyzing" /\ ~disposed
  /\ analysis' = f
  /\ snap' = [snap EXCEPT ![f] = disk]
  /\ AnaTo(f, "settling")
  /\ UNCHANGED <<lock, kind, pkg, exe, gen, removal, plans, stale, expired, flags,
                 source, panel, dismissed>>

\* The final read still matches and nobody cancelled: the review is stored.
UpgradeStored(f) ==
  /\ kind[f] = "upgrade" /\ ana[f] = "analyzing"
  /\ f \notin aborted /\ cancelFor # pkg[f] /\ ~disposed
  /\ analysis' = f
  /\ snap' = [snap EXCEPT ![f] = disk]
  /\ AnaTo(f, "settling")
  /\ UNCHANGED <<lock, kind, pkg, exe, gen, removal, plans, stale, expired, flags,
                 source, panel, dismissed>>

\* Cancelled, stale or failed at any of its awaits; droppedByCancellation
\* consumes the request it saw, but most checks look at the signal first.
UpgradeDropped(f) ==
  /\ kind[f] = "upgrade" /\ ana[f] = "analyzing"
  /\ aborted' = aborted \cup {f}
  /\ cancelFor' \in {cancelFor, IF cancelFor = pkg[f] THEN NoPkg ELSE cancelFor}
  /\ AnaTo(f, "settling")
  /\ UNCHANGED <<lock, kind, pkg, exe, gen, snap, reviews, freed, pendingAnalyze,
                 activeAbort, pendingRemoval, fixAbort, source, panel, dismissed>>

\* Slip: the reservation is not released by the finally block.
UpgradeKeepsLock(f) ==
  /\ kind[f] = "upgrade" /\ ana[f] = "settling"
  /\ AnaTo(f, "flushing")
  /\ UNCHANGED <<lock, kind, pkg, exe, gen, snap, reviews, flags, source, panel,
                 dismissed>>

\* Every launched stage has settled: the finally block releases the name.
UpgradeSettled(f) ==
  /\ kind[f] = "upgrade" /\ ana[f] = "settling"
  /\ Release({pkg[f]})
  /\ AnaTo(f, "flushing")
  /\ UNCHANGED <<kind, pkg, exe, gen, snap, reviews, flags, source, panel, dismissed>>

\* After the release has flushed, the flags are cleared by name.
UpgradeFinished(f) ==
  /\ kind[f] = "upgrade" /\ ana[f] = "flushing"
  /\ AnaTo(f, "done")
  /\ pendingAnalyze' = IF pendingAnalyze = pkg[f] THEN NoPkg ELSE pendingAnalyze
  /\ cancelFor' = IF cancelFor = pkg[f] THEN NoPkg ELSE cancelFor
  /\ activeAbort' = IF activeAbort = f THEN NoFlow ELSE activeAbort
  /\ UNCHANGED <<lock, kind, pkg, exe, gen, snap, reviews, aborted, freed,
                 pendingRemoval, fixAbort, source, panel, dismissed>>

-----------------------------------------------------------------------------
(* Removal analysis *)

\* bulk-remove, smart-cleanup-remove: one pending request at a time,
\* registered before its first await.
AnalyzeRemoval(f, p) ==
  /\ Requested(f, "removal", p)
  /\ Reclaim
  /\ \/ /\ fixAbort = NoFlow /\ pendingRemoval = NoFlow
        /\ pendingRemoval' = f
        /\ AnaTo(f, "validating")
     \/ /\ fixAbort # NoFlow \/ pendingRemoval # NoFlow
        /\ UNCHANGED pendingRemoval
        /\ AnaTo(f, "done")
  /\ UNCHANGED <<aborted, freed, upgradeFlags, fixAbort>>

\* The slot is given back only by the request that still owns it.
LeaveSlot(f) ==
  pendingRemoval' = IF pendingRemoval = f THEN NoFlow ELSE pendingRemoval

ReserveRemoval(f) ==
  /\ kind[f] = "removal" /\ ana[f] = "validating"
  /\ f \notin aborted /\ pendingRemoval = f
  /\ Reserve(pkg[f])
  /\ gen' = [gen EXCEPT ![f] = sourceGen]
  /\ AnaTo(f, "reserved")
  /\ UNCHANGED <<kind, pkg, exe, snap, reviews, flags, source, panel, dismissed>>

\* Cancelled, not eligible, or somebody else holds the reservation.
RemovalRejected(f) ==
  /\ kind[f] = "removal" /\ ana[f] = "validating"
  /\ LeaveSlot(f)
  /\ AnaTo(f, "done")
  /\ UNCHANGED <<lock, kind, pkg, exe, gen, snap, reviews, aborted, freed,
                 upgradeFlags, fixAbort, source, panel, dismissed>>

RemovalRead(f) ==
  /\ kind[f] = "removal" /\ ana[f] = "reserved"
  /\ f \notin aborted /\ pendingRemoval = f /\ ~disposed
  /\ snap' = [snap EXCEPT ![f] = disk]
  /\ AnaTo(f, "analyzing")
  /\ UNCHANGED <<lock, kind, pkg, exe, gen, reviews, flags, source, panel, dismissed>>

\* The finally block: the slot, then the reservation unless a canceller has
\* released it already.
RemovalEnds(f) ==
  /\ LeaveSlot(f)
  /\ Release(IF f \in freed THEN {} ELSE {pkg[f]})
  /\ AnaTo(f, "done")
  /\ UNCHANGED <<kind, pkg, exe, gen, snap, plans, stale, expired, analysis,
                 aborted, freed, upgradeFlags, fixAbort, source, panel, dismissed>>

\* Slip: the review is committed whatever happened to the source meanwhile.
RemovalStoredAnyway(f) ==
  /\ kind[f] = "removal" /\ ana[f] = "analyzing"
  /\ f \notin aborted /\ pendingRemoval = f /\ ~disposed
  /\ removal' = f
  /\ RemovalEnds(f)

\* commitIfCurrent: not cancelled and no source event since the reservation.
RemovalStored(f) ==
  /\ kind[f] = "removal" /\ ana[f] = "analyzing"
  /\ f \notin aborted /\ pendingRemoval = f /\ ~disposed
  /\ sourceGen = gen[f]
  /\ removal' = f
  /\ RemovalEnds(f)

RemovalDropped(f) ==
  /\ kind[f] = "removal" /\ ana[f] \in {"reserved", "analyzing"}
  /\ RemovalEnds(f)
  /\ UNCHANGED removal

-----------------------------------------------------------------------------
(* Transitive fix analysis: no reservation, one at a time *)

\* analyze-remediation; the panel refuses it while files are being written.
AnalyzeFix(f, p) ==
  /\ Requested(f, "fix", p)
  /\ fixAbort = NoFlow /\ ~mutating
  /\ fixAbort' = f
  /\ AnaTo(f, "validating")
  /\ UNCHANGED <<lock, reviews, aborted, freed, upgradeFlags, pendingRemoval>>

\* retry-remediation: drop the plan, analyze its package again.
RetryFix(f, q) ==
  /\ q \in plans /\ fixAbort = NoFlow
  /\ Requested(f, "fix", pkg[q])
  /\ fixAbort' = f
  /\ plans' = plans \ {q}
  /\ AnaTo(f, "validating")
  /\ UNCHANGED <<lock, analysis, removal, stale, expired, aborted, freed,
                 upgradeFlags, pendingRemoval>>

FixRead(f) ==
  /\ kind[f] = "fix" /\ ana[f] = "validating"
  /\ snap' = [snap EXCEPT ![f] = disk]
  /\ AnaTo(f, "analyzing")
  /\ UNCHANGED <<lock, kind, pkg, exe, gen, reviews, flags, source, panel, dismissed>>

LeaveFix(f) == fixAbort' = IF fixAbort = f THEN NoFlow ELSE fixAbort

\* One current plan per package.
FixStored(f) ==
  /\ kind[f] = "fix" /\ ana[f] = "analyzing"
  /\ f \notin aborted /\ ~disposed
  /\ plans' = {q \in plans : pkg[q] # pkg[f]} \cup {f}
  /\ LeaveFix(f)
  /\ AnaTo(f, "done")
  /\ UNCHANGED <<lock, kind, pkg, exe, gen, snap, analysis, removal, stale, expired,
                 aborted, freed, upgradeFlags, pendingRemoval, source, panel,
                 dismissed>>

FixDropped(f) ==
  /\ kind[f] = "fix" /\ ana[f] \in {"validating", "analyzing"}
  /\ LeaveFix(f)
  /\ AnaTo(f, "done")
  /\ UNCHANGED <<lock, kind, pkg, exe, gen, snap, reviews, aborted, freed,
                 upgradeFlags, pendingRemoval, source, panel, dismissed>>

-----------------------------------------------------------------------------
(* Execution of a stored review *)

\* confirm-upgrade, use-smart-plan, confirm-remove: single use.
ConfirmReview(f) ==
  /\ ~disposed /\ f \in {analysis, removal} \cap Flows /\ f \notin expired
  /\ Reserve(pkg[f])
  /\ gen' = [gen EXCEPT ![f] = sourceGen]
  /\ analysis' = IF analysis = f THEN NoFlow ELSE analysis
  /\ removal' = IF removal = f THEN NoFlow ELSE removal
  /\ ExeTo(f, "starting")
  /\ UNCHANGED <<kind, pkg, ana, snap, plans, stale, expired, flags, source, panel,
                 dismissed>>

\* Confirming an expired review drops it and releases its name.
ConfirmExpired(f) ==
  /\ ~disposed /\ f \in {analysis, removal} \cap expired
  /\ analysis' = IF analysis = f THEN NoFlow ELSE analysis
  /\ removal' = IF removal = f THEN NoFlow ELSE removal
  /\ Release({pkg[f]})
  /\ UNCHANGED <<flow, plans, stale, expired, flags, source, panel, dismissed>>

\* confirm-remediation
ConfirmFix(f) ==
  /\ ~disposed /\ f \in plans /\ f \notin stale \cup expired
  /\ fixAbort = NoFlow
  /\ Reserve(pkg[f])
  /\ fixAbort' = f
  /\ ExeTo(f, "starting")
  /\ UNCHANGED <<kind, pkg, ana, gen, snap, reviews, aborted, freed, upgradeFlags,
                 pendingRemoval, source, panel, dismissed>>

\* The files read again are the reviewed ones.
Recheck(f) ==
  /\ exe[f] = "starting" /\ disk = snap[f] /\ f \notin stale
  /\ ExeTo(f, "checked")
  /\ UNCHANGED <<lock, kind, pkg, ana, gen, snap, reviews, flags, source, panel,
                 dismissed>>

\* Slip: no source generation check before the mutation.
BeginUnguarded(f) ==
  /\ exe[f] = "checked"
  /\ held = pkg[f]
  /\ mutating' = TRUE
  /\ ExeTo(f, "mutating")
  /\ UNCHANGED <<held, draining, kind, pkg, ana, gen, snap, reviews, flags, source,
                 panel, dismissed>>

\* Slip: beginMutation does not compare the name.
BeginUnowned(f) ==
  /\ exe[f] = "checked"
  /\ \/ kind[f] # "fix" /\ sourceGen = gen[f]
     \/ kind[f] = "fix" /\ f \notin stale \cup aborted
  /\ mutating' = TRUE
  /\ ExeTo(f, "mutating")
  /\ UNCHANGED <<held, draining, kind, pkg, ana, gen, snap, reviews, flags, source,
                 panel, dismissed>>

\* The last checks and beginMutation(name), with no await between them.
Begin(f) ==
  /\ exe[f] = "checked"
  /\ \/ kind[f] # "fix" /\ sourceGen = gen[f]
     \/ kind[f] = "fix" /\ f \notin stale \cup aborted
  /\ held = pkg[f]
  /\ mutating' = TRUE
  /\ ExeTo(f, "mutating")
  /\ UNCHANGED <<held, draining, kind, pkg, ana, gen, snap, reviews, flags, source,
                 panel, dismissed>>

\* Slip: the end of a mutation gives back the lock but not the busy flag.
ExecutionLeavesBusy(f) ==
  /\ exe[f] # "none" /\ exe[f] # "done"
  /\ held' = IF held = pkg[f] THEN NoPkg ELSE held
  /\ UNCHANGED <<mutating, draining>>
  /\ ExeTo(f, "done")
  /\ LeaveFix(f)
  /\ plans' = plans \ {f}
  /\ UNCHANGED <<kind, pkg, ana, gen, snap, analysis, removal, stale, expired,
                 aborted, freed, upgradeFlags, pendingRemoval, source, panel,
                 dismissed>>

\* The finally block of an execution; a fix gives up its slot and its plan.
EndExecution(f) ==
  /\ Release({pkg[f]})
  /\ ExeTo(f, "done")
  /\ LeaveFix(f)
  /\ plans' = plans \ {f}
  /\ UNCHANGED <<kind, pkg, ana, gen, snap, analysis, removal, stale, expired,
                 aborted, freed, upgradeFlags, pendingRemoval, source, panel,
                 dismissed>>

\* Stale, ineligible, unavailable, cancelled, lock lost, or an error.
ExecutionFails(f) ==
  /\ exe[f] \in {"starting", "checked"}
  /\ EndExecution(f)

\* The transaction, its reload and its prompts are over.
MutationEnds(f) ==
  /\ exe[f] = "mutating"
  /\ EndExecution(f)

-----------------------------------------------------------------------------
(* Cancellation, remount, watchers, expiry, disposal *)

UpgradeInFlight(f) == kind[f] = "upgrade" /\ ana[f] = "analyzing"
RemovalInFlight(f) ==
  kind[f] = "removal" /\ ana[f] \in {"validating", "reserved", "analyzing"}
FixInFlight(f) == kind[f] = "fix" /\ ana[f] \in {"validating", "analyzing"}

\* cancelRequestedFor and the active signal, by whoever is pending.
CancelPendingUpgrade ==
  /\ cancelFor' = IF pendingAnalyze # NoPkg THEN pendingAnalyze ELSE cancelFor
  /\ UNCHANGED <<pendingAnalyze, activeAbort>>

PendingSignal == IF pendingAnalyze # NoPkg THEN {activeAbort} \cap Flows ELSE {}

\* cancel-upgrade without an analysis id.
CancelUpgrade ==
  /\ ~disposed
  /\ CancelPendingUpgrade
  /\ aborted' = aborted \cup PendingSignal
  /\ dismissed' = dismissed \cup {f \in Flows : UpgradeInFlight(f)}
  /\ UNCHANGED <<lock, flow, reviews, freed, pendingRemoval, fixAbort, source, panel>>

\* cancel-upgrade of a stored review.
CancelReview ==
  /\ ~disposed /\ analysis # NoFlow
  /\ analysis' = NoFlow
  /\ Release({pkg[analysis]})
  /\ UNCHANGED <<flow, removal, plans, stale, expired, flags, source, panel, dismissed>>

Holds(f) == f \in Flows /\ kind[f] = "removal" /\ ana[f] \in {"reserved", "analyzing"}

\* cancel-remove without an analysis id: the slot is free at once, the
\* reservation is released unless that has been started.
CancelRemoval ==
  /\ ~disposed /\ pendingRemoval # NoFlow
  /\ aborted' = aborted \cup {pendingRemoval}
  /\ pendingRemoval' = NoFlow
  /\ freed' = IF Holds(pendingRemoval) THEN freed \cup {pendingRemoval} ELSE freed
  /\ Release(IF Holds(pendingRemoval) THEN {pkg[pendingRemoval]} ELSE {})
  /\ dismissed' = dismissed \cup {pendingRemoval}
  /\ UNCHANGED <<flow, reviews, upgradeFlags, fixAbort, source, panel>>

\* cancel-remove of a stored review.
CancelRemovalReview ==
  /\ ~disposed /\ removal # NoFlow
  /\ removal' = NoFlow
  /\ Release({pkg[removal]})
  /\ UNCHANGED <<flow, analysis, plans, stale, expired, flags, source, panel, dismissed>>

\* Slip: the signal is aborted without looking whether a fix is active.
CancelFixUnchecked ==
  /\ ~disposed
  /\ aborted' = aborted \cup {fixAbort}
  /\ UNCHANGED <<lock, flow, reviews, freed, upgradeFlags, pendingRemoval, fixAbort,
                 source, panel, dismissed>>

\* cancel-remediation-analysis, and cancel-remediation of the running fix.
CancelFix ==
  /\ ~disposed /\ fixAbort # NoFlow /\ fixAbort \notin aborted
  /\ aborted' = aborted \cup {fixAbort}
  /\ UNCHANGED <<lock, flow, reviews, freed, upgradeFlags, pendingRemoval, fixAbort,
                 source, panel, dismissed>>

\* cancel-remediation of a stored plan.
CancelPlan(f) ==
  /\ ~disposed /\ f \in plans /\ exe[f] = "none"
  /\ plans' = plans \ {f}
  /\ UNCHANGED <<lock, flow, analysis, removal, stale, expired, flags, source, panel,
                 dismissed>>

\* handleWebviewReady: a remounted webview has lost its ids, so read-only work
\* is dropped and the read-only reservation released, whoever holds it.
WebviewReady ==
  /\ ~disposed /\ ~mutating
  /\ CancelPendingUpgrade
  /\ aborted' = aborted \cup PendingSignal \cup ({pendingRemoval, fixAbort} \cap Flows)
  /\ freed' = IF Holds(pendingRemoval) THEN freed \cup {pendingRemoval} ELSE freed
  /\ pendingRemoval' = NoFlow
  /\ analysis' = NoFlow /\ removal' = NoFlow /\ plans' = {}
  /\ Release(Pkgs)
  /\ dismissed' = dismissed \cup {f \in Flows : UpgradeInFlight(f) \/ RemovalInFlight(f)}
  /\ UNCHANGED <<flow, stale, expired, fixAbort, source, panel>>

\* The dependency files change, by the running package manager or others.
Edit ==
  /\ disk < MaxEdits
  /\ disk' = disk + 1
  /\ UNCHANGED <<lock, flow, reviews, flags, sourceGen, noticed, panel, dismissed>>

\* handleProjectSourceChanged, and with `dependency` handleDependencySourceChanged,
\* from a watcher.  The generation advances even while files are written.
SourceChanged(dependency) ==
  /\ ~disposed /\ sourceGen < MaxEvents
  /\ dependency => noticed < disk
  /\ sourceGen' = sourceGen + 1
  /\ noticed' = IF dependency THEN disk ELSE noticed
  /\ \/ /\ mutating
        /\ UNCHANGED <<lock, removal, stale, aborted, upgradeFlags>>
     \/ /\ ~mutating
        /\ CancelPendingUpgrade
        /\ aborted' = aborted \cup PendingSignal \cup
             (IF dependency THEN {f \in {fixAbort} \cap Flows : FixInFlight(f)} ELSE {})
        /\ removal' = NoFlow
        /\ Release(IF removal # NoFlow THEN {pkg[removal]} ELSE {})
        /\ stale' = IF dependency THEN stale \cup plans ELSE stale
  /\ UNCHANGED <<flow, analysis, plans, expired, freed, pendingRemoval, fixAbort,
                 disk, panel, dismissed>>

\* checkOpenAnalysisFreshness: its stored review is still the current one after
\* its reads, and the files differ.
ReviewFoundStale ==
  /\ ~disposed /\ analysis # NoFlow
  /\ disk # snap[analysis]
  /\ analysis' = NoFlow
  /\ Release({pkg[analysis]})
  /\ UNCHANGED <<flow, removal, plans, stale, expired, flags, source, panel, dismissed>>

\* Time passes expiresAt.
Expire(f) ==
  /\ f \in {analysis, removal} \cup plans /\ f \in Flows /\ f \notin expired
  /\ expired' = expired \cup {f}
  /\ UNCHANGED <<lock, flow, analysis, removal, plans, stale, flags, source, panel,
                 dismissed>>

\* disposeWhenIdle: never under a running mutation.
Dispose ==
  /\ ~disposed /\ disposed' = TRUE
  /\ aborted' = aborted \cup ({fixAbort, activeAbort} \cap Flows)
  /\ \/ mutating /\ UNCHANGED <<lock, analysis, removal, plans, sessionDisposed>>
     \/ /\ ~mutating
        /\ analysis' = NoFlow /\ removal' = NoFlow /\ plans' = {}
        /\ Release(Pkgs)
        /\ sessionDisposed' = (held = NoPkg)
  /\ UNCHANGED <<flow, stale, expired, freed, upgradeFlags, pendingRemoval, fixAbort,
                 source, dismissed>>

-----------------------------------------------------------------------------
\* What a flow's own awaits resume; a mutation may wait for the user.
Advance(f) ==
  \/ ReserveUpgrade(f) \/ UpgradeRejected(f) \/ UpgradeStored(f) \/ UpgradeDropped(f)
  \/ UpgradeSettled(f) \/ UpgradeFinished(f)
  \/ ReserveRemoval(f) \/ RemovalRejected(f) \/ RemovalRead(f) \/ RemovalStored(f)
  \/ RemovalDropped(f)
  \/ FixRead(f) \/ FixStored(f) \/ FixDropped(f)
  \/ Recheck(f) \/ Begin(f) \/ ExecutionFails(f)

Request(f) ==
  \/ \E p \in Pkgs : AnalyzeUpgrade(f, p) \/ AnalyzeRemoval(f, p) \/ AnalyzeFix(f, p)
  \/ \E q \in Flows : RetryFix(f, q)
  \/ ConfirmReview(f) \/ ConfirmExpired(f) \/ ConfirmFix(f) \/ CancelPlan(f)

Cancel ==
  CancelUpgrade \/ CancelReview \/ CancelRemoval \/ CancelRemovalReview \/ CancelFix

Next ==
  \/ \E f \in Flows : Request(f) \/ Advance(f) \/ MutationEnds(f) \/ Expire(f)
  \/ Cancel \/ WebviewReady \/ Dispose \/ Drained
  \/ Edit \/ (\E d \in BOOLEAN : SourceChanged(d)) \/ ReviewFoundStale

Spec == Init /\ [][Next]_vars

\* Every await of an analysis or of a check before a mutation ends (requests
\* and child processes have timeouts), and so does the flush of a release.  A
\* mutation may wait for its user for ever.
FairSpec == Spec /\ WF_vars(Drained) /\ \A f \in Flows : WF_vars(Advance(f))

-----------------------------------------------------------------------------
(* What the operations promise *)

\* Every variable keeps its type.
TypeOK ==
  /\ held \in Pkgs \cup {NoPkg} /\ mutating \in BOOLEAN /\ draining \in BOOLEAN
  /\ kind \in [Flows -> {"none", "upgrade", "removal", "fix"}]
  /\ pkg \in [Flows -> Pkgs \cup {NoPkg}]
  /\ ana \in [Flows -> {"idle", "validating", "reserved", "analyzing", "settling",
                        "flushing", "done"}]
  /\ exe \in [Flows -> {"none", "starting", "checked", "mutating", "done"}]
  /\ gen \in [Flows -> 0 .. MaxEvents] /\ snap \in [Flows -> 0 .. MaxEdits]
  /\ aborted \subseteq Flows /\ freed \subseteq Flows
  /\ analysis \in Flows \cup {NoFlow} /\ removal \in Flows \cup {NoFlow}
  /\ plans \subseteq Flows /\ stale \subseteq Flows /\ expired \subseteq Flows
  /\ pendingAnalyze \in Pkgs \cup {NoPkg} /\ cancelFor \in Pkgs \cup {NoPkg}
  /\ activeAbort \in Flows \cup {NoFlow} /\ pendingRemoval \in Flows \cup {NoFlow}
  /\ fixAbort \in Flows \cup {NoFlow}
  /\ sourceGen \in 0 .. MaxEvents /\ disk \in 0 .. MaxEdits /\ noticed \in 0 .. MaxEdits
  /\ disposed \in BOOLEAN /\ sessionDisposed \in BOOLEAN /\ dismissed \subseteq Flows

Writers == {f \in Flows : exe[f] = "mutating"}

\* Flows that will still call release with their own name.
WillRelease(f) ==
  \/ kind[f] = "upgrade" /\ ana[f] \in {"analyzing", "settling"}
  \/ Holds(f) /\ f \notin freed
  \/ exe[f] \in {"starting", "checked", "mutating"}

\* The one reservation is never leaked: whatever is cancelled, expired, remounted
\* or closed in whatever order, the held name belongs to a flow that is still
\* going to release it.
LockHasOwner ==
  held # NoPkg => \E f \in Flows : pkg[f] = held /\ WillRelease(f)

\* The busy flag, which makes the panel defer reloads and refuse work, is never
\* left set without a transaction that is writing under the held name.
BusyFlagHasWriter == mutating => \E f \in Writers : pkg[f] = held

\* No two reviews requested so far are for the same package.
DistinctPackages ==
  \A f, g \in Flows : kind[f] # "none" /\ kind[g] # "none" /\ pkg[f] = pkg[g] => f = g

\* As long as no two reviews share a package name, the reservation excludes:
\* a writer holds it with the busy flag set, so there is one writer, nothing is
\* reviewed beside it and its file events are deferred.
ExclusiveByPackage ==
  DistinctPackages => \A f \in Writers : held = pkg[f] /\ mutating

\* upgradeTracker.ts:13 "running two `npm install`s concurrently against the same
\* package.json/lockfile is a write race": at most one transaction is writing.
OneWriter == \A f, g \in Writers : f = g

\* Reviews that are stored and can be confirmed.
Reviewed == {analysis, removal} \cap Flows

\* upgradeAssistantCoordinator.ts:591 "handleAnalyzeUpgrade checks this right
\* before storing/posting its result and drops it instead": an analysis that was
\* in flight when its user cancelled or remounted never becomes a review.
DismissedNeverReviewed == Reviewed \cap dismissed = {}

\* The same, as long as no two reviews share a package name.
DismissedByPackage == DistinctPackages => DismissedNeverReviewed

\* No transaction starts from a review that a watcher event already contradicts:
\* the files it was made from are at least as new as the last change noticed.
StartsReviewed ==
  DistinctPackages => \A f \in Writers' \ Writers : noticed <= snap[f]

StartsFromReviewed == [][StartsReviewed]_vars

\* A reservation that protects no mutation is given back, whatever happens to the
\* review that took it.
ReservationFreed == (held # NoPkg /\ ~mutating) ~> (held = NoPkg \/ mutating)

\* A closed panel tears its session down once nothing is being written.
SessionEnds == disposed ~> (sessionDisposed \/ Writers # {})
=============================================================================
