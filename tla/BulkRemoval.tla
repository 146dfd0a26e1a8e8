------------------------------ MODULE BulkRemoval ------------------------------
(***************************************************************************)
(* The review before direct dependencies are removed: the bulk review of   *)
(* webview/src/components/ManageDependenciesModal.tsx with                 *)
(* core/upgrade/bulkReviewSelection.ts, the removal of one package from    *)
(* its Manage workspace (host/manageRemovalFlow.ts), the removal impact    *)
(* both share in webview/src/App.tsx, and the host's check of what is      *)
(* finally submitted (core/upgrade/validate.ts).  How the host computes an *)
(* impact is UsageCoordinator's and CleanupEvidence's; what follows a      *)
(* submission is DependencyOperations'.                                    *)
(***************************************************************************)
EXTENDS Integers, Sequences, FiniteSets

CONSTANTS
  ReviewRows,      \* the direct dependencies, numbered in table order
  UnsafeRows,      \* those whose name is not a safe npm name
  CriteriaMatches,         \* what the criteria may select
  LaterRows,       \* what the project may declare later
  BatchLimit,      \* MAX_BULK_REMOVE_CHANGES
  ImpactsOf,        \* what the impact of removing each may be
  MaxBulkEvents    \* bound: requests for a removal impact and changes of the project, together

\* RemovalImpactStatus
Verdicts == {"low-risk", "review", "blocked", "unknown"}

ASSUME BulkAssumption ==
  /\ BatchLimit \in Nat \ {0} /\ ReviewRows \subseteq Nat /\ IsFiniteSet(ReviewRows)
  /\ CriteriaMatches \subseteq SUBSET ReviewRows /\ LaterRows \subseteq SUBSET ReviewRows
  /\ \A r \in ReviewRows : ImpactsOf[r] \subseteq Verdicts

VARIABLES
  reviewView,       \* the webview's part
  scannedRows,   \* the host's: [rows, declared, eligible, engine, rescans]
  toReview,   \* messages to the webview
  bulkSent    \* the last removal submitted, and its answer

bulkVars == <<reviewView, scannedRows, toReview, bulkSent>>

NoRow == 0
NothingJudged == [r \in {} |-> "low-risk"]
IdleImpact == [phase |-> "idle", request |-> 0, packages |-> <<>>, verdicts |-> NothingJudged]
NoAsk == [request |-> 0, packages |-> <<>>]
NoEngine == [request |-> 0, packages |-> <<>>, cancelled |-> FALSE]
NotSent == [by |-> "nobody"]
\* The rows of S in table order.
Sorted(S) == CHOOSE s \in [1 .. Cardinality(S) -> S] : \A i, j \in 1 .. Cardinality(S) : i < j => s[i] < s[j]

-----------------------------------------------------------------------------
(* bulkReviewSelection                                                     *)

\* canonicalBulkReviewBatch
ReviewBatch(matched) == {r \in matched : Cardinality({s \in matched : s < r}) < BatchLimit}

\* completedAssessments and bulkReviewStatus
StatusOf(b, r) == IF b.impact.phase = "done" /\ r \in DOMAIN b.impact.verdicts THEN b.impact.verdicts[r] ELSE "unanalyzed"
CanSelectOne(status) == status \notin {"blocked", "unknown"}
CanSelectInBulk(status) == status \in {"unanalyzed", "low-risk"}
NonLowRisk(b, rows) == {r \in rows : StatusOf(b, r) \notin {"unanalyzed", "low-risk"}}

Selection(b) == {r \in ReviewBatch(b.matched) \ b.deselected : CanSelectOne(StatusOf(b, r))}

ToggleSelectable(b) ==
  LET rows == {r \in ReviewBatch(b.matched) : CanSelectInBulk(StatusOf(b, r))} IN
  IF rows \cap b.deselected = {} THEN b.deselected \cup rows ELSE b.deselected \ rows

\* removalImpactCoversReview
CoversReview(b) == b.impact.phase = "done" /\ Selection(b) # {} /\ Sorted(Selection(b)) = b.impact.packages

-----------------------------------------------------------------------------
(* The host                                                                *)

\* validateBulkRemoveRequest and validateRemoveRequest
ValidateBulkRemove(h, requests) ==
  LET names == {requests[i] : i \in DOMAIN requests} IN
  IF ~h.eligible THEN "revalidating"
  ELSE IF requests = <<>> THEN "empty-batch"
  ELSE IF Len(requests) > BatchLimit THEN "too-many-changes"
  ELSE IF Cardinality(names) < Len(requests) THEN "duplicate-package"
  ELSE IF ~(names \subseteq h.rows) THEN "unknown-package"
  ELSE IF ~(names \subseteq h.declared) THEN "not-declared"
  ELSE IF names \cap UnsafeRows # {} THEN "unsafe-identifier"
  ELSE "ok"

ImpactSays(kind, request, packages, verdicts) ==
  [kind |-> kind, request |-> request, packages |-> packages, verdicts |-> verdicts]
DashboardSays(kind) == ImpactSays(kind, 0, <<>>, NothingJudged)

\* requestAnalyzeRemovalImpact, and handleAnalyzeRemovalImpact up to its scan, whose progress says
\* nothing the webview does not show already.
AskImpact(b, packages) ==
  LET request == b.asks + 1
      known == {packages[i] : i \in DOMAIN packages} \subseteq scannedRows.rows IN
  /\ b.asks + scannedRows.rescans < MaxBulkEvents
  /\ reviewView' = [b EXCEPT !.asks = request, !.active = [request |-> request, packages |-> packages],
                       !.impact = [IdleImpact EXCEPT !.phase = "analyzing", !.request = request, !.packages = packages]]
  /\ IF scannedRows.engine.request # 0 \/ ~known
     THEN toReview' = Append(toReview, ImpactSays("error", request, packages, NothingJudged)) /\ UNCHANGED scannedRows
     ELSE /\ scannedRows' = [scannedRows EXCEPT !.engine = [NoEngine EXCEPT !.request = request, !.packages = packages]]
          /\ UNCHANGED toReview

\* requestCancelRemovalImpact and handleCancelRemovalImpact
CancelledView(b) == [b EXCEPT !.active = NoAsk, !.pending = NoRow, !.impact = IdleImpact]
CancelledHost(request) ==
  IF request # 0 /\ scannedRows.engine.request = request THEN [scannedRows EXCEPT !.engine.cancelled = TRUE] ELSE scannedRows

\* The scan of an impact ends: with a verdict on every package, with an error, or silently.
AnswerImpact ==
  LET engine == scannedRows.engine
      packages == {engine.packages[i] : i \in DOMAIN engine.packages} IN
  /\ engine.request # 0
  /\ scannedRows' = [scannedRows EXCEPT !.engine = NoEngine]
  /\ IF engine.cancelled THEN UNCHANGED toReview
     ELSE \/ toReview' = Append(toReview, ImpactSays("error", engine.request, engine.packages, NothingJudged))
          \/ \E verdicts \in [packages -> UNION {ImpactsOf[r] : r \in packages}] :
               (\A r \in packages : verdicts[r] \in ImpactsOf[r]) /\ toReview' = Append(toReview, ImpactSays("result", engine.request, engine.packages, verdicts))
  /\ UNCHANGED <<reviewView, bulkSent>>

\* The project changes and is scanned again: what is running is no longer current.
ProjectChanges(declared) ==
  /\ scannedRows.eligible /\ reviewView.asks + scannedRows.rescans < MaxBulkEvents
  /\ scannedRows' = [scannedRows EXCEPT !.eligible = FALSE, !.declared = declared, !.engine.cancelled = TRUE, !.rescans = @ + 1]
  /\ toReview' = Append(toReview, DashboardSays("stale"))
  /\ UNCHANGED <<reviewView, bulkSent>>
RescanEnds ==
  /\ ~scannedRows.eligible
  /\ scannedRows' = [scannedRows EXCEPT !.eligible = TRUE, !.rows = scannedRows.declared]
  /\ toReview' = Append(toReview, DashboardSays("ready"))
  /\ UNCHANGED <<reviewView, bulkSent>>

-----------------------------------------------------------------------------
(* The webview                                                             *)

\* requestBulkRemove and handleAnalyzeBulkRemove's check of it, when these messages are not heard yet.
Submission(b, by, packages, unheard) ==
  [by |-> by, packages |-> packages, verdicts |-> b.impact.verdicts, analysed |-> b.impact.packages, chosen |-> b.chosen,
   current |-> scannedRows.eligible /\ unheard = <<>>, answer |-> ValidateBulkRemove(scannedRows, packages)]

\* The effects of a render: a new result deselects what is not low-risk, once, and starts the
\* removal a Manage workspace waits for.
AfterRender(b) ==
  IF b.open /\ b.impact.phase = "done" /\ b.ruled # b.impact.request
  THEN [b EXCEPT !.ruled = b.impact.request, !.deselected = @ \cup NonLowRisk(b, ReviewBatch(b.matched)),
                 !.chosen = NonLowRisk(b, ReviewRows \ ReviewBatch(b.matched))]
  ELSE b
\* manageRemovalReadyPackage
RemovalReady(b) ==
  /\ b.pending # NoRow /\ b.impact.phase = "done"
  /\ b.impact.packages = <<b.pending>> /\ b.pending \in DOMAIN b.impact.verdicts
Renders(b, unheard) ==
  IF RemovalReady(b)
  THEN reviewView' = [AfterRender(b) EXCEPT !.pending = NoRow] /\ bulkSent' = Submission(b, "manage", <<b.pending>>, unheard)
  ELSE reviewView' = AfterRender(b) /\ UNCHANGED bulkSent

\* The Manage dependencies modal is opened on the dashboard's filters.
OpenReview(matched) ==
  /\ ~reviewView.open /\ reviewView.manage = NoRow /\ bulkSent = NotSent /\ reviewView.fresh
  /\ Renders([reviewView EXCEPT !.open = TRUE, !.step = "select", !.matched = matched, !.deselected = {}, !.ruled = 0, !.chosen = {}], toReview)
  /\ UNCHANGED <<scannedRows, toReview>>

\* Criteria are toggled, or new findings of a health check change what they match.
Rematch(matched) ==
  /\ reviewView.open /\ matched # reviewView.matched
  /\ Renders([reviewView EXCEPT !.matched = matched], toReview)
  /\ UNCHANGED <<scannedRows, toReview>>

ContinueToReview ==
  /\ reviewView.open /\ reviewView.step = "select" /\ ReviewBatch(reviewView.matched) # {}
  /\ Renders([reviewView EXCEPT !.step = "review"], toReview)
  /\ UNCHANGED <<scannedRows, toReview>>
BackToCriteria ==
  /\ reviewView.open /\ reviewView.step = "review"
  /\ Renders([reviewView EXCEPT !.step = "select"], toReview)
  /\ UNCHANGED <<scannedRows, toReview>>

InReview == reviewView.open /\ reviewView.step = "review"

\* toggleRow
ToggleRow(r) ==
  /\ InReview /\ r \in ReviewBatch(reviewView.matched) /\ CanSelectOne(StatusOf(reviewView, r))
  /\ Renders(IF r \in reviewView.deselected THEN [reviewView EXCEPT !.deselected = @ \ {r}, !.chosen = @ \cup NonLowRisk(reviewView, {r})]
           ELSE [reviewView EXCEPT !.deselected = @ \cup {r}], toReview)
  /\ UNCHANGED <<scannedRows, toReview>>
\* toggleBulkSelection
ToggleAll ==
  /\ InReview /\ Renders([reviewView EXCEPT !.deselected = ToggleSelectable(reviewView)], toReview)
  /\ UNCHANGED <<scannedRows, toReview>>

\* The modal is unmounted and forgets what was chosen in it.
Unmounted(b) ==
  [b EXCEPT !.open = FALSE, !.step = "select", !.matched = {}, !.deselected = {}, !.ruled = 0, !.chosen = {}]

\* onClose: an analysis under way is cancelled.
CloseReview(b) ==
  IF b.impact.phase = "analyzing"
  THEN reviewView' = CancelledView(Unmounted(b)) /\ scannedRows' = CancelledHost(b.active.request)
  ELSE reviewView' = Unmounted(b) /\ UNCHANGED scannedRows
CloseModal == reviewView.open /\ CloseReview(reviewView) /\ UNCHANGED <<toReview, bulkSent>>

\* handleRemoveClick: the first click analyzes, the second submits.
RemoveClick ==
  /\ InReview /\ Selection(reviewView) # {} /\ reviewView.impact.phase # "analyzing"
  /\ IF CoversReview(reviewView)
     THEN CloseReview(reviewView) /\ bulkSent' = Submission(reviewView, "review", Sorted(Selection(reviewView)), toReview) /\ UNCHANGED toReview
     ELSE AskImpact(reviewView, Sorted(Selection(reviewView))) /\ UNCHANGED bulkSent
\* Try again after an error, and Re-analyze after a result.
AskAgain ==
  /\ InReview /\ Selection(reviewView) # {} /\ reviewView.impact.phase \in {"done", "error"}
  /\ AskImpact(reviewView, Sorted(Selection(reviewView)))
  /\ UNCHANGED bulkSent
CancelAnalysis ==
  /\ InReview /\ reviewView.impact.phase = "analyzing"
  /\ reviewView' = CancelledView(reviewView) /\ scannedRows' = CancelledHost(reviewView.active.request)
  /\ UNCHANGED <<toReview, bulkSent>>

\* A package's Manage workspace, which cannot be closed while an impact is analyzed.
OpenManageOf(r) ==
  /\ ~reviewView.open /\ reviewView.manage = NoRow /\ bulkSent = NotSent
  /\ reviewView' = [reviewView EXCEPT !.manage = r]
  /\ UNCHANGED <<scannedRows, toReview, bulkSent>>
LeaveManage ==
  /\ reviewView.manage # NoRow /\ reviewView.impact.phase # "analyzing"
  /\ reviewView' = [reviewView EXCEPT !.manage = NoRow, !.pending = NoRow]
  /\ UNCHANGED <<scannedRows, toReview, bulkSent>>
\* requestRemoveFromManage
RemoveFromManage ==
  /\ reviewView.manage # NoRow /\ bulkSent = NotSent
  /\ AskImpact([reviewView EXCEPT !.pending = reviewView.manage], <<reviewView.manage>>)
  /\ UNCHANGED bulkSent

\* The removal review that was opened is over.
RemovalOver == bulkSent # NotSent /\ bulkSent' = NotSent /\ UNCHANGED <<reviewView, scannedRows, toReview>>

\* A message arrives: a dashboard message ends every review; the messages of a request that is not
\* the last one are ignored.
ReviewReceives ==
  /\ toReview # <<>> /\ toReview' = Tail(toReview)
  /\ LET m == Head(toReview)
         asked == reviewView.active.request = m.request /\ reviewView.active.packages = m.packages
         impact == [IdleImpact EXCEPT !.request = m.request, !.packages = m.packages] IN
     IF m.kind \in {"stale", "ready"}
     THEN /\ reviewView' = [Unmounted(CancelledView(reviewView)) EXCEPT !.fresh = (m.kind = "ready")]
          /\ bulkSent' = NotSent
     ELSE IF ~asked THEN UNCHANGED <<reviewView, bulkSent>>
     ELSE Renders(IF m.kind = "result" THEN [reviewView EXCEPT !.impact = [impact EXCEPT !.phase = "done", !.verdicts = m.verdicts]]
                ELSE [reviewView EXCEPT !.impact = [impact EXCEPT !.phase = "error"], !.pending = NoRow],
                 Tail(toReview))
  /\ UNCHANGED scannedRows

-----------------------------------------------------------------------------
BulkInit ==
  /\ reviewView = [open |-> FALSE, step |-> "select", matched |-> {}, deselected |-> {}, ruled |-> 0, chosen |-> {},
             impact |-> IdleImpact, active |-> NoAsk, manage |-> NoRow, pending |-> NoRow, fresh |-> TRUE,
             asks |-> 0]
  /\ scannedRows = [rows |-> ReviewRows, declared |-> ReviewRows, eligible |-> TRUE, engine |-> NoEngine, rescans |-> 0]
  /\ toReview = <<>> /\ bulkSent = NotSent

BulkNext ==
  \/ \E matched \in CriteriaMatches : OpenReview(matched) \/ Rematch(matched)
  \/ \E r \in ReviewRows : ToggleRow(r) \/ OpenManageOf(r)
  \/ \E declared \in LaterRows : ProjectChanges(declared)
  \/ ContinueToReview \/ BackToCriteria \/ ToggleAll \/ CloseModal \/ RemoveClick \/ AskAgain \/ CancelAnalysis
  \/ LeaveManage \/ RemoveFromManage \/ RemovalOver \/ ReviewReceives \/ AnswerImpact \/ RescanEnds

BulkSpec == BulkInit /\ [][BulkNext]_bulkVars

BulkFairness == WF_bulkVars(ReviewReceives) /\ WF_bulkVars(AnswerImpact) /\ WF_bulkVars(RescanEnds)

-----------------------------------------------------------------------------
(* Properties                                                              *)

\* What is submitted was analyzed, together and as it is; nothing blocked is among it, and what needs
\* a review was selected by the user after the result, or had left the review when the result came.
SubmittedIsReviewed ==
  bulkSent # NotSent =>
    LET packages == {bulkSent.packages[i] : i \in DOMAIN bulkSent.packages} IN
    /\ packages # {} /\ bulkSent.packages = bulkSent.analysed /\ DOMAIN bulkSent.verdicts = packages
    /\ bulkSent.by = "review" => \A r \in packages :
         /\ bulkSent.verdicts[r] \in {"low-risk", "review"}
         /\ bulkSent.verdicts[r] = "review" => r \in bulkSent.chosen
\* A host whose last word the webview has seen accepts it, unless it holds an unsafe name; and it never
\* accepts what is not in the project.
SubmittedIsAccepted ==
  bulkSent # NotSent =>
    LET packages == {bulkSent.packages[i] : i \in DOMAIN bulkSent.packages} IN
    /\ bulkSent.current => bulkSent.answer = IF packages \cap UnsafeRows = {} THEN "ok" ELSE "unsafe-identifier"
    /\ bulkSent.answer \notin {"empty-batch", "too-many-changes", "duplicate-package"}
\* A removal that is submitted was reviewed, and the host takes it.
ReviewedRemovals == SubmittedIsReviewed /\ SubmittedIsAccepted

\* An impact that is being analyzed ends.
ImpactEnds == (reviewView.impact.phase = "analyzing") ~> (reviewView.impact.phase # "analyzing")
================================================================================
