------------------------------ MODULE FixReview ------------------------------
(***************************************************************************)
(* The review of a transitive fix of one package, between the webview      *)
(* (App.tsx, TransitiveFixReview.tsx) and the coordinator                  *)
(* (executeStoredRemediation and the other remediation handlers of         *)
(* upgradeAssistantCoordinator.ts).  What a plan says is module            *)
(* RemediationPlan's, what its transaction does UpgradeTransaction's.      *)
(*                                                                         *)
(* The host does not answer in three cases, which fixUnanswered records:   *)
(* the webview drops the plan (RemediationPlan!PlanIsShown), a plan is     *)
(* confirmed or checked again that the host has let go of, or the project  *)
(* cannot be read again after the user cancelled.                          *)
(***************************************************************************)
EXTENDS Naturals, Sequences

CONSTANTS
  MaxFixes,       \* bound: plans that are made
  MaxFixEdits,    \* bound: changes of the dependency files
  MaxFixMessages  \* bound: messages on their way in each direction

ASSUME FixAssumption == {MaxFixes, MaxFixEdits, MaxFixMessages} \subseteq Nat

VARIABLES
  fixView,        \* remediationByPackage of the package
  fixStored,      \* the plan the host keeps, or 0
  fixStale,       \* StoredRemediationPlan.stale
  fixKind,        \* what each plan is: actionable, blocked, or one the webview does not accept
  fixJob,         \* the handler that is under way, activeRemediationAbort and its signal
  fixToHost, fixToView,
  fixEdits,       \* how often the dependency files were edited
  fixSeen,        \* the edits the file watcher has reported
  fixBasis,       \* the edits that were in the files each plan was made from
  fixWritten,     \* history: plans for which files were written
  fixUnanswered   \* history: the host will not answer what the view waits for

fixHost == <<fixStored, fixStale, fixKind, fixBasis, fixJob>>
fixWorld == <<fixEdits, fixSeen, fixWritten>>
fixVars == <<fixView, fixHost, fixToHost, fixToView, fixWorld, fixUnanswered>>

Fixes == 1..MaxFixes
NoFix == 0
Unread == MaxFixEdits + 1
IdleFix == [kind |-> "none", id |-> NoFix, aborted |-> FALSE, named |-> FALSE, basis |-> Unread]
NoFixView == [phase |-> "none", id |-> NoFix, reviewed |-> FALSE, cancelRequested |-> FALSE, outcome |-> "none"]
FixPhase(phase) == [NoFixView EXCEPT !.phase = phase]
WithPlan(phase, id) == [NoFixView EXCEPT !.phase = phase, !.id = id]

\* remediationPlanFromState
ShownFix == IF fixView.phase \in {"plan", "applying", "stale", "result"} THEN fixView.id ELSE NoFix

FixReviewInit ==
  /\ fixView = NoFixView /\ fixStored = NoFix /\ fixStale = FALSE
  /\ fixKind = [f \in Fixes |-> "none"] /\ fixJob = IdleFix
  /\ fixToHost = <<>> /\ fixToView = <<>>
  /\ fixEdits = 0 /\ fixSeen = 0 /\ fixBasis = [f \in Fixes |-> Unread] /\ fixWritten = <<>> /\ fixUnanswered = FALSE

-----------------------------------------------------------------------------
(* The user and the webview.                                               *)

SendFix(type, id) ==
  /\ Len(fixToHost) < MaxFixMessages
  /\ fixToHost' = Append(fixToHost, [type |-> type, id |-> id])

\* requestAnalyzeRemediation: offered before a check, after a failed one and after a result.
AskForFix ==
  /\ fixView.phase \in {"none", "error", "result"}
  /\ fixView.outcome # "recovery-required"
  /\ SendFix("analyze", NoFix)
  /\ fixView' = FixPhase("analyzing")
  /\ fixUnanswered' = FALSE
  /\ UNCHANGED <<fixHost, fixToView, fixWorld>>

ReviewTheFix ==
  /\ fixView.phase = "plan" /\ fixKind[fixView.id] = "actionable" /\ ~fixView.reviewed
  /\ fixView' = [fixView EXCEPT !.reviewed = TRUE]
  /\ UNCHANGED <<fixHost, fixToHost, fixToView, fixWorld, fixUnanswered>>

\* requestApplyRemediation
ApplyFix ==
  /\ fixView.phase = "plan" /\ fixView.reviewed
  /\ SendFix("confirm", fixView.id)
  /\ fixView' = WithPlan("applying", fixView.id)
  /\ fixUnanswered' = FALSE
  /\ UNCHANGED <<fixHost, fixToView, fixWorld>>

\* requestCancelRemediation
CancelTheFix ==
  /\ fixView.phase = "applying" /\ ~fixView.cancelRequested
  /\ SendFix("cancel", fixView.id)
  /\ fixView' = [fixView EXCEPT !.cancelRequested = TRUE]
  /\ UNCHANGED <<fixHost, fixToView, fixWorld, fixUnanswered>>

\* requestRetryRemediation: a plan that cannot be applied, a reviewed one, or a stale one.
CheckFixAgain ==
  /\ \/ fixView.phase = "plan" /\ (fixKind[fixView.id] = "blocked" \/ fixView.reviewed)
     \/ fixView.phase = "stale"
  /\ SendFix("retry", fixView.id)
  /\ fixView' = FixPhase("analyzing")
  /\ fixUnanswered' = FALSE
  /\ UNCHANGED <<fixHost, fixToView, fixWorld>>

\* A dashboard message keeps what is applied or has a result, and nothing else.
DashboardRefreshes ==
  /\ fixView.phase \notin {"none", "applying", "result"}
  /\ fixView' = NoFixView /\ fixUnanswered' = FALSE
  /\ UNCHANGED <<fixHost, fixToHost, fixToView, fixWorld>>

\* The webview is mounted anew, which takes longer than a message of the old one takes to be
\* handled: what was sent to the old one is lost.
RemountView ==
  /\ fixView # NoFixView /\ fixToHost = <<>>
  /\ SendFix("ready", NoFix)
  /\ fixView' = NoFixView /\ fixToView' = <<>> /\ fixUnanswered' = FALSE
  /\ UNCHANGED <<fixHost, fixWorld>>

\* The remediation messages of App's onMessage.
ReceiveFix ==
  /\ fixToView # <<>>
  /\ LET m == Head(fixToView)
         forShown == ShownFix # NoFix /\ ShownFix = m.id
         dropped == m.type = "plan" /\ fixKind[m.id] = "unshown"
     IN /\ fixView' = CASE m.type = "analyzing" -> FixPhase("analyzing")
                        [] m.type = "error" -> FixPhase("error")
                        [] m.type = "dashboard" /\ fixView.phase \notin {"applying", "result"} -> NoFixView
                        [] m.type = "plan" /\ ~dropped -> WithPlan("plan", m.id)
                        [] m.type = "applying" /\ forShown -> WithPlan("applying", m.id)
                        [] m.type = "stale" /\ forShown -> WithPlan("stale", m.id)
                        [] m.type = "result" /\ forShown -> [WithPlan("result", m.id) EXCEPT !.outcome = m.outcome]
                        [] OTHER -> fixView
        /\ fixUnanswered' = (dropped \/ (fixUnanswered /\ fixView' = fixView))
  /\ fixToView' = Tail(fixToView)
  /\ UNCHANGED <<fixHost, fixToHost, fixWorld>>

-----------------------------------------------------------------------------
(* The host.                                                               *)

FixSays(type, id) == [type |-> type, id |-> id, outcome |-> "none"]
FixTells(messages) ==
  /\ Len(fixToView) + Len(messages) <= MaxFixMessages
  /\ fixToView' = fixToView \o messages

FixArrives(type) == fixToHost # <<>> /\ Head(fixToHost).type = type /\ fixToHost' = Tail(fixToHost)

\* handleAnalyzeRemediation and the start of analyzeRemediation.  What is not of this package, a
\* mutation, another package's check or a row without such a finding, refuses it at any time.
StartFixCheck ==
  \/ FixTells(<<FixSays("error", NoFix)>>) /\ UNCHANGED fixJob
  \/ /\ fixJob = IdleFix
     /\ fixJob' = [IdleFix EXCEPT !.kind = "analysis", !.named = TRUE]
     /\ FixTells(<<FixSays("analyzing", NoFix)>>)

HandleFixAnalyze ==
  /\ FixArrives("analyze") /\ StartFixCheck
  /\ UNCHANGED <<fixView, fixStored, fixStale, fixKind, fixBasis, fixWorld, fixUnanswered>>

\* handleRetryRemediation: the stored plan is cancelled, then its package is checked.
HandleFixRetry ==
  /\ FixArrives("retry")
  /\ LET id == Head(fixToHost).id
         executing == fixJob.kind \in {"rereading", "preparing", "writing"} /\ fixJob.id = id
     IN \/ fixStored # id /\ fixUnanswered' = TRUE /\ UNCHANGED <<fixHost, fixToView>>
        \/ /\ fixStored = id /\ executing
           /\ fixJob' = [fixJob EXCEPT !.aborted = TRUE]
           /\ FixTells(<<FixSays("error", NoFix)>>)
           /\ UNCHANGED <<fixStored, fixStale, fixKind, fixBasis, fixUnanswered>>
        \/ /\ fixStored = id /\ ~executing
           /\ fixStored' = NoFix /\ StartFixCheck
           /\ UNCHANGED <<fixStale, fixKind, fixBasis, fixUnanswered>>
  /\ UNCHANGED <<fixView, fixWorld>>

\* prepareRemediationWork reads the project.
FixReads ==
  /\ fixJob.kind = "analysis" /\ fixJob.basis = Unread
  /\ fixJob' = [fixJob EXCEPT !.basis = fixEdits]
  /\ UNCHANGED <<fixView, fixStored, fixStale, fixKind, fixBasis, fixToHost, fixToView, fixWorld, fixUnanswered>>

\* The check ends with a plan that takes the place of the last one.
FixPublished(kind) ==
  /\ fixJob.kind = "analysis" /\ fixJob.basis # Unread
  /\ \E f \in Fixes :
       /\ fixKind[f] = "none" /\ \A g \in Fixes : g < f => fixKind[g] # "none"
       /\ fixKind' = [fixKind EXCEPT ![f] = kind]
       /\ fixBasis' = [fixBasis EXCEPT ![f] = fixJob.basis]
       /\ fixStored' = f /\ fixStale' = FALSE
       /\ FixTells(<<FixSays("plan", f)>>)
  /\ fixJob' = IdleFix
  /\ UNCHANGED <<fixView, fixToHost, fixWorld, fixUnanswered>>

\* Slip: what was aborted while it ran is published as well.
FixCheckEndsAnyway(kind) == FixPublished(kind)
FixCheckEnds(kind) == ~fixJob.aborted /\ FixPublished(kind)

FixCheckFails ==
  /\ fixJob.kind = "analysis" /\ ~fixJob.aborted
  /\ FixTells(<<FixSays("error", NoFix)>>)
  /\ fixJob' = IdleFix
  /\ UNCHANGED <<fixView, fixStored, fixStale, fixKind, fixBasis, fixToHost, fixWorld, fixUnanswered>>

\* Whoever aborted it has answered, or the webview that asked is gone.
FixCheckDropped ==
  /\ fixJob.kind = "analysis" /\ fixJob.aborted
  /\ fixJob' = IdleFix
  /\ UNCHANGED <<fixView, fixStored, fixStale, fixKind, fixBasis, fixToHost, fixToView, fixWorld, fixUnanswered>>

\* executeStoredRemediation up to its first await.
HandleFixConfirm ==
  /\ FixArrives("confirm")
  /\ LET id == Head(fixToHost).id
     IN \/ fixStored # id /\ fixUnanswered' = TRUE /\ UNCHANGED <<fixHost, fixToView>>
        \/ \* Stale, or past its time.
           /\ fixStored = id
           /\ fixStale' = TRUE /\ FixTells(<<FixSays("stale", id)>>)
           /\ UNCHANGED <<fixStored, fixKind, fixBasis, fixJob, fixUnanswered>>
        \/ \* Something else is under way, here or on another package.
           /\ fixStored = id /\ ~fixStale
           /\ FixTells(<<FixSays("error", NoFix)>>)
           /\ UNCHANGED <<fixHost, fixUnanswered>>
        \/ /\ fixStored = id /\ ~fixStale /\ fixJob = IdleFix
           /\ fixJob' = [IdleFix EXCEPT !.kind = "rereading", !.id = id]
           /\ UNCHANGED <<fixStored, fixStale, fixKind, fixBasis, fixToView, fixUnanswered>>
  /\ UNCHANGED <<fixView, fixWorld>>

\* The finally of executeStoredRemediation: the plan goes with the execution.
EndFix ==
  /\ fixJob' = IdleFix
  /\ fixStored' = IF fixStored = fixJob.id THEN NoFix ELSE fixStored
  /\ UNCHANGED <<fixView, fixKind, fixBasis, fixToHost, fixEdits, fixSeen>>

\* The project is read again and is the one the plan was made from.
FixRereads ==
  /\ fixJob.kind = "rereading" /\ ~fixStale /\ fixBasis[fixJob.id] = fixEdits
  /\ fixJob' = [fixJob EXCEPT !.kind = "preparing"]
  /\ UNCHANGED <<fixView, fixStored, fixStale, fixKind, fixBasis, fixToHost, fixToView, fixWorld, fixUnanswered>>

\* It is not, or nothing can be prepared, or it was reported to change before anything was written.
FixRefused(type) ==
  /\ fixJob.kind \in {"rereading", "preparing"}
  /\ type = "stale" => fixStale \/ fixJob.kind = "preparing" \/ fixBasis[fixJob.id] # fixEdits
  /\ fixStale' = (fixStale \/ type = "stale")
  /\ FixTells(<<FixSays(type, fixJob.id)>>)
  /\ EndFix
  /\ UNCHANGED <<fixWritten, fixUnanswered>>

\* Reading fails after the user cancelled: nothing is said.
FixForgotten ==
  /\ fixJob.kind \in {"rereading", "preparing"} /\ fixJob.aborted
  /\ EndFix
  /\ fixUnanswered' = TRUE
  /\ UNCHANGED <<fixStale, fixToView, fixWritten>>

FixCancelled ==
  /\ fixJob.kind = "preparing" /\ fixJob.aborted /\ ~fixStale
  /\ FixTells(<<[FixSays("result", fixJob.id) EXCEPT !.outcome = "cancelled"]>>)
  /\ EndFix
  /\ UNCHANGED <<fixStale, fixWritten, fixUnanswered>>

FixBegins ==
  /\ fixJob.kind = "preparing" /\ ~fixJob.aborted /\ ~fixStale
  /\ fixJob' = [fixJob EXCEPT !.kind = "writing", !.basis = fixEdits]
  /\ fixWritten' = Append(fixWritten, fixJob.id)
  /\ FixTells(<<FixSays("applying", fixJob.id)>>)
  /\ UNCHANGED <<fixView, fixStored, fixStale, fixKind, fixBasis, fixToHost, fixEdits, fixSeen, fixUnanswered>>

\* The transaction has come to its end: kept, undone, cancelled, or in need of recovery; one that
\* never started says so as an error, or as stale when the lockfile was in the way.
FixEnds(type, outcome) ==
  /\ fixJob.kind = "writing"
  /\ \/ type = "result" /\ outcome \in {"kept", "undone", "cancelled", "recovery-required"}
     \/ type \in {"error", "stale"} /\ outcome = "none"
  /\ fixBasis[fixJob.id] # fixJob.basis => type = "stale"
  /\ outcome = "kept" => ~fixJob.aborted
  /\ FixTells(<<[FixSays(type, fixJob.id) EXCEPT !.outcome = outcome]>>)
  /\ EndFix
  /\ UNCHANGED <<fixStale, fixWritten, fixUnanswered>>

\* handleCancelRemediationPlan
HandleFixCancel ==
  /\ FixArrives("cancel")
  /\ LET id == Head(fixToHost).id
     IN IF fixJob.kind \in {"rereading", "preparing", "writing"} /\ fixJob.id = id
        THEN fixJob' = [fixJob EXCEPT !.aborted = TRUE] /\ UNCHANGED fixStored
        ELSE fixStored' = (IF fixStored = id THEN NoFix ELSE fixStored) /\ UNCHANGED fixJob
  /\ UNCHANGED <<fixView, fixStale, fixKind, fixBasis, fixToView, fixWorld, fixUnanswered>>

\* handleWebviewReady: what the new webview cannot know of is given up, unless files are written;
\* then the dashboard is shown.
HandleFixReady ==
  /\ FixArrives("ready") /\ FixTells(<<FixSays("dashboard", NoFix)>>)
  /\ IF fixJob.kind = "writing" THEN UNCHANGED <<fixJob, fixStored>>
     ELSE /\ fixJob' = [fixJob EXCEPT !.aborted = (fixJob # IdleFix)]
          /\ fixStored' = NoFix
  /\ UNCHANGED <<fixView, fixStale, fixKind, fixBasis, fixWorld, fixUnanswered>>

EditDependencyFiles ==
  /\ fixEdits < MaxFixEdits
  /\ fixEdits' = fixEdits + 1
  /\ UNCHANGED <<fixView, fixHost, fixToHost, fixToView, fixSeen, fixWritten, fixUnanswered>>

\* handleDependencySourceChanged; while files are written it changes nothing.
DependencyFilesChange ==
  /\ fixSeen < fixEdits
  /\ fixSeen' = fixEdits
  /\ LET writing == fixJob.kind = "writing"
         checking == fixJob.kind = "analysis" /\ fixJob.named
         stales == ~writing /\ fixStored # NoFix /\ ~fixStale
     IN /\ fixJob' = IF checking THEN [fixJob EXCEPT !.aborted = TRUE, !.named = FALSE] ELSE fixJob
        /\ fixStale' = (fixStale \/ stales)
        /\ FixTells((IF checking THEN <<FixSays("error", NoFix)>> ELSE <<>>)
                    \o (IF stales THEN <<FixSays("stale", fixStored)>> ELSE <<>>))
  /\ UNCHANGED <<fixView, fixStored, fixKind, fixBasis, fixToHost, fixEdits, fixWritten, fixUnanswered>>

-----------------------------------------------------------------------------
FixHandles == HandleFixAnalyze \/ HandleFixRetry \/ HandleFixConfirm \/ HandleFixCancel \/ HandleFixReady
FixWork ==
  \/ FixReads \/ FixRereads \/ DependencyFilesChange
  \/ \E k \in {"actionable", "blocked", "unshown"} : FixCheckEnds(k)
  \/ FixCheckFails \/ FixCheckDropped
  \/ FixRefused("stale") \/ FixRefused("error") \/ FixForgotten \/ FixCancelled \/ FixBegins
  \/ \E o \in {"kept", "undone", "cancelled", "recovery-required"} : FixEnds("result", o)
  \/ FixEnds("error", "none") \/ FixEnds("stale", "none")

FixReviewNext ==
  \/ AskForFix \/ ReviewTheFix \/ ApplyFix \/ CancelTheFix \/ CheckFixAgain
  \/ DashboardRefreshes \/ RemountView \/ EditDependencyFiles
  \/ ReceiveFix \/ FixHandles \/ FixWork

FixReviewSpec == FixReviewInit /\ [][FixReviewNext]_fixVars

\* Messages arrive and what is under way ends; the user need not do anything.
FixReviewFairness == WF_fixVars(ReceiveFix) /\ WF_fixVars(FixHandles) /\ WF_fixVars(FixWork)

-----------------------------------------------------------------------------
(* What is promised.                                                       *)

FixQuiet == fixToHost = <<>> /\ fixToView = <<>> /\ fixJob = IdleFix

\* When nothing is on its way: a plan the user can apply is the one the host would carry out, a
\* stale one is not carried out, and nobody waits who will not be answered.  A plan is written once.
FixReviewsAgree ==
  /\ FixQuiet =>
       /\ fixView.phase = "plan" /\ fixKind[fixView.id] = "actionable" => 
            fixStored = fixView.id /\ ~fixStale /\ (fixSeen = fixEdits => fixBasis[fixView.id] = fixEdits)
       /\ fixView.phase = "stale" => fixStored = NoFix \/ (fixStored = fixView.id /\ fixStale)
       /\ fixView.phase \in {"analyzing", "applying"} => fixUnanswered
  /\ \A i, j \in 1..Len(fixWritten) : fixWritten[i] = fixWritten[j] => i = j
  /\ \A i \in 1..Len(fixWritten) : fixKind[fixWritten[i]] = "actionable"

\* Whoever waits for the host gets an answer.
FixesSettle == fixView.phase \in {"analyzing", "applying"} ~> (fixView.phase \notin {"analyzing", "applying"} \/ fixUnanswered)
=============================================================================
