--------------------------- MODULE UpgradeReview ---------------------------
(***************************************************************************)
(* The upgrade review of the webview (webview/src/App.tsx) and the host    *)
(* behind it, over two message queues.  The webview tracks one request,    *)
(* the analysis that answered it and the refresh of derived data that      *)
(* follows an applied upgrade; the host reserves the project for one       *)
(* analysis or one change, keeps one finished analysis and names a refresh *)
(* by an id.  Either side acts on what it last heard.                      *)
(*                                                                         *)
(* An analysis is named by its request.  Rows are the version of their     *)
(* declarations and the number of the scan that derived the rest; the      *)
(* sections of a review that arrive one by one are not modelled, they      *)
(* obey the same guard as the analysis.                                    *)
(***************************************************************************)
EXTENDS Naturals, Sequences

CONSTANTS
  ReviewPackages,   \* packages of the dashboard
  MaxReviews,       \* bound: requests of the user
  MaxRows           \* bound: scans and notices that post rows

ASSUME ReviewAssumption ==
  ReviewPackages # {} /\ "none" \notin ReviewPackages /\ MaxReviews \in Nat /\ MaxRows \in Nat

VARIABLES
  review,      \* activeUpgrade, activeRequestIdRef, analysis, hardStaleAnalysisId, confirmBusy
  refresh,     \* upgradeResult with upgradeEnrichment, and the rows held back
  display,     \* message: the rows on screen
  heard,       \* dashboardDataRef: declarations of the last rows received
  toHost, toView,
  analyzing,   \* the attempt that holds the reservation
  keptReview,        \* the analysis the host would execute
  changing,    \* the package of the change that is executed
  lifecycle,   \* mutationEnrichment
  derived,     \* refresh ids of targeted scans that run, each with the lifecycle it began
  hostRows,    \* what the last scan found
  requested,   \* the package of each request so far
  nRows

reviewVars == <<review, refresh, display, heard, toHost, toView, analyzing, keptReview, changing,
                lifecycle, derived, hostRows, requested, nRows>>
webview == <<review, refresh, display, heard>>
hostAnalysis == <<analyzing, keptReview, changing>>
hostRefresh == <<lifecycle, derived>>

NoPackage == "none"
NoReview == [package |-> NoPackage, request |-> 0, analysis |-> 0, stale |-> 0, busy |-> FALSE]
NoRows == [status |-> "loading", declared |-> 0, scan |-> 0]
NoRefresh == [phase |-> "none", id |-> 0, package |-> NoPackage, card |-> FALSE, held |-> NoRows]
NoAttempt == [request |-> 0, cancelled |-> FALSE, settling |-> FALSE]

ReviewInit ==
  /\ review = NoReview /\ refresh = NoRefresh
  /\ hostRows = [status |-> "ready", declared |-> 1, scan |-> 1]
  /\ display = hostRows /\ heard = hostRows
  /\ toHost = <<>> /\ toView = <<>>
  /\ analyzing = NoAttempt /\ keptReview = 0 /\ changing = 0
  /\ lifecycle = [id |-> 0, state |-> "none"] /\ derived = {}
  /\ requested = <<>> /\ nRows = 0

PostToView(messages) == toView' = toView \o messages
Send(messages) == toHost' = toHost \o messages
Message(type, id) == [type |-> type, id |-> id]

-----------------------------------------------------------------------------
(* The user *)

CancelMessage == Message("cancel", review.analysis)   \* 0 is null: no analysis has arrived

\* requestUpgrade, or the bulk request, when no review is tracked.
RequestUpgrade(p) ==
  /\ review.package = NoPackage /\ Len(requested) < MaxReviews
  /\ requested' = Append(requested, p)
  /\ review' = [NoReview EXCEPT !.package = p, !.request = Len(requested) + 1]
  /\ refresh' = NoRefresh
  /\ Send(<<Message("upgrade", Len(requested) + 1)>>)
  /\ UNCHANGED <<display, heard, toView, hostAnalysis, hostRefresh, hostRows, nRows>>

\* requestCancelUpgrade: the review closes at once.
CancelUpgrade ==
  /\ review.package # NoPackage /\ ~review.busy
  /\ review' = NoReview
  /\ Send(<<CancelMessage>>)
  /\ UNCHANGED <<refresh, display, heard, toView, hostAnalysis, hostRefresh, hostRows, requested, nRows>>

\* requestRefreshUpgradeAnalysis.
RefreshAnalysis ==
  /\ review.analysis # 0 /\ ~review.busy /\ Len(requested) < MaxReviews
  /\ requested' = Append(requested, review.package)
  /\ review' = [NoReview EXCEPT !.package = review.package, !.request = Len(requested) + 1]
  /\ refresh' = NoRefresh
  /\ Send(<<CancelMessage, Message("upgrade", Len(requested) + 1)>>)
  /\ UNCHANGED <<display, heard, toView, hostAnalysis, hostRefresh, hostRows, nRows>>

ConfirmUpgrade ==
  /\ review.analysis # 0 /\ ~review.busy /\ review.stale # review.analysis
  /\ review' = [review EXCEPT !.busy = TRUE]
  /\ Send(<<Message("confirm", review.analysis)>>)
  /\ UNCHANGED <<refresh, display, heard, toView, hostAnalysis, hostRefresh, hostRows, requested, nRows>>

\* openManage of a package.
OpenManage(p) ==
  /\ refresh.card /\ refresh.package # p
  /\ refresh' = NoRefresh
  /\ UNCHANGED <<review, display, heard, toHost, toView, hostAnalysis, hostRefresh, hostRows, requested, nRows>>

RetryEnrichment ==
  /\ refresh.phase = "failed"
  /\ refresh' = [refresh EXCEPT !.phase = "refreshing", !.held = NoRows]
  /\ Send(<<Message("retry", refresh.id)>>)
  /\ UNCHANGED <<review, display, heard, toView, hostAnalysis, hostRefresh, hostRows, requested, nRows>>

-----------------------------------------------------------------------------
(* The webview hears of the host *)

ViewReceives(type) == toView # <<>> /\ Head(toView).type = type /\ toView' = Tail(toView)

\* upgrade-analysis, for the tracked request only.
ShowAnalysis ==
  /\ ViewReceives("analysis")
  /\ review' = IF review.request = Head(toView).id THEN [review EXCEPT !.analysis = review.request] ELSE review
  /\ UNCHANGED <<refresh, display, heard, toHost, hostAnalysis, hostRefresh, hostRows, requested, nRows>>

\* upgrade-error carries no request: all but UPGRADE_IN_PROGRESS end the tracked one.
ShowError ==
  /\ ViewReceives("error") \/ ViewReceives("busy")
  /\ review' = IF Head(toView).type = "busy" THEN [review EXCEPT !.busy = FALSE] ELSE NoReview
  /\ UNCHANGED <<refresh, display, heard, toHost, hostAnalysis, hostRefresh, hostRows, requested, nRows>>

\* upgrade-analysis-stale.
ShowStale ==
  /\ ViewReceives("stale")
  /\ review' = [review EXCEPT !.stale = IF Head(toView).id = review.analysis THEN review.analysis ELSE @]
  /\ UNCHANGED <<refresh, display, heard, toHost, hostAnalysis, hostRefresh, hostRows, requested, nRows>>

\* upgrade-result: the local facts are laid over the rows on screen.
ShowResult ==
  /\ ViewReceives("result")
  /\ LET m == Head(toView)
     IN  /\ refresh' = [phase |-> IF m.refreshing THEN "refreshing" ELSE "none", id |-> m.id,
                        package |-> m.package, card |-> TRUE, held |-> NoRows]
         /\ review' = NoReview
         /\ display' = IF display.scan = 0 THEN display
                       ELSE [status |-> "stale", declared |-> m.declared, scan |-> display.scan]
  /\ UNCHANGED <<heard, toHost, hostAnalysis, hostRefresh, hostRows, requested, nRows>>

\* upgrade-enrichment-result: only the exact refresh may end it, and its success
\* publishes the rows held back.
ShowEnrichment ==
  /\ ViewReceives("enriched")
  /\ LET m == Head(toView)
         mine == refresh.phase = "refreshing" /\ refresh.id = m.id
     IN  /\ refresh' = IF ~mine THEN refresh
                       ELSE IF m.outcome = "succeeded" THEN [refresh EXCEPT !.phase = "none", !.held = NoRows]
                       ELSE [refresh EXCEPT !.phase = IF m.outcome = "superseded" THEN "superseded" ELSE "failed"]
         /\ display' = IF mine /\ m.outcome = "succeeded" /\ refresh.held.scan # 0 THEN refresh.held ELSE display
  /\ UNCHANGED <<review, heard, toHost, hostAnalysis, hostRefresh, hostRows, requested, nRows>>

\* upgradeReviewDashboardEffect.
ReviewAfter(rows) ==
  IF review.package = NoPackage \/ heard.scan = 0 \/ rows.scan = 0 THEN NoReview
  ELSE IF rows.declared # heard.declared THEN [review EXCEPT !.stale = review.analysis]
  ELSE review

\* Mutant: rows are shown whatever refresh runs.
ShowRowsAtOnce ==
  /\ ViewReceives("rows")
  /\ LET rows == Head(toView).rows
     IN  /\ heard' = IF rows.scan = 0 THEN heard ELSE rows
         /\ review' = ReviewAfter(rows)
         /\ display' = rows
         /\ UNCHANGED refresh
  /\ UNCHANGED <<toHost, hostAnalysis, hostRefresh, hostRows, requested, nRows>>

\* Any other message is rows, or their loading.  While a refresh of derived data runs
\* or has failed, what the rows derive is held back.
ShowRows ==
  /\ ViewReceives("rows")
  /\ LET rows == Head(toView).rows
         abandons == refresh.phase \in {"failed", "superseded"} /\ rows.status = "ready"
         withheld == refresh.phase # "none" /\ ~abandons
     IN  /\ heard' = IF rows.scan = 0 THEN heard ELSE rows
         /\ review' = ReviewAfter(rows)
         /\ IF rows.scan = 0 \/ ~refresh.card THEN display' = rows /\ UNCHANGED refresh
            ELSE IF withheld
            THEN /\ display' = [rows EXCEPT !.status = "stale"]
                 /\ refresh' = [refresh EXCEPT !.held = rows]
            ELSE /\ display' = rows
                 /\ refresh' = IF abandons \/ rows.status = "stale" THEN NoRefresh ELSE refresh
  /\ UNCHANGED <<toHost, hostAnalysis, hostRefresh, hostRows, requested, nRows>>

-----------------------------------------------------------------------------
(* The host hears of the user *)

HostReceives(type) == toHost # <<>> /\ Head(toHost).type = type /\ toHost' = Tail(toHost)
Reserved == analyzing # NoAttempt \/ changing # 0

\* handleAnalyzeUpgradeRequests up to its reservation.
HandleUpgrade ==
  /\ HostReceives("upgrade")
  /\ LET id == Head(toHost).id
     IN  IF Reserved THEN PostToView(<<Message("busy", id)>>) /\ UNCHANGED analyzing
         ELSE \/ analyzing' = [NoAttempt EXCEPT !.request = id] /\ UNCHANGED toView
              \/ PostToView(<<Message("error", id)>>) /\ UNCHANGED analyzing
  /\ UNCHANGED <<webview, keptReview, changing, hostRefresh, hostRows, requested, nRows>>

\* handleCancelUpgrade: without an id it is about whatever attempt runs.
HandleCancelUpgrade ==
  /\ HostReceives("cancel")
  /\ LET id == Head(toHost).id
     IN  IF id = 0
         THEN /\ analyzing' = IF analyzing = NoAttempt THEN analyzing ELSE [analyzing EXCEPT !.cancelled = TRUE]
              /\ UNCHANGED keptReview
         ELSE keptReview' = (IF keptReview = id THEN 0 ELSE keptReview) /\ UNCHANGED analyzing
  /\ UNCHANGED <<webview, toView, changing, hostRefresh, hostRows, requested, nRows>>

\* executeStoredAnalysis up to the change: an analysis is used once.
HandleConfirm ==
  /\ HostReceives("confirm")
  /\ LET id == Head(toHost).id
     IN  IF keptReview # id THEN PostToView(<<Message("error", id)>>) /\ UNCHANGED <<keptReview, changing>>
         ELSE IF Reserved THEN PostToView(<<Message("busy", id)>>) /\ UNCHANGED <<keptReview, changing>>
         ELSE keptReview' = 0 /\ changing' = id /\ UNCHANGED toView
  /\ UNCHANGED <<webview, analyzing, hostRefresh, hostRows, requested, nRows>>

\* retryMutationEnrichment.
HandleRetry ==
  /\ HostReceives("retry")
  /\ IF lifecycle.id = Head(toHost).id /\ lifecycle.state = "failed"
     THEN lifecycle' = [lifecycle EXCEPT !.state = "running"] /\ derived' = derived \cup {lifecycle.id}
     ELSE UNCHANGED hostRefresh
  /\ UNCHANGED <<webview, toView, hostAnalysis, hostRows, requested, nRows>>

-----------------------------------------------------------------------------
(* The host's own steps *)

\* An attempt ends: a cancelled one says nothing.  The reservation stays until
\* everything the attempt launched has settled.
AttemptEnds ==
  /\ analyzing # NoAttempt /\ ~analyzing.settling
  /\ analyzing' = [analyzing EXCEPT !.settling = TRUE]
  /\ IF analyzing.cancelled THEN UNCHANGED <<keptReview, toView>>
     ELSE \/ keptReview' = analyzing.request /\ PostToView(<<Message("analysis", analyzing.request)>>)
          \/ PostToView(<<Message("error", analyzing.request)>>) /\ UNCHANGED keptReview
  /\ UNCHANGED <<webview, toHost, changing, hostRefresh, hostRows, requested, nRows>>

AttemptSettles ==
  /\ analyzing.settling
  /\ analyzing' = NoAttempt
  /\ UNCHANGED <<webview, toHost, toView, keptReview, changing, hostRefresh, hostRows, requested, nRows>>

\* handleProjectSourceChanged during an attempt, and checkOpenAnalysisFreshness after it.
SourceChanges ==
  /\ changing = 0
  /\ \/ /\ analyzing # NoAttempt /\ ~analyzing.cancelled /\ ~analyzing.settling
        /\ analyzing' = [analyzing EXCEPT !.cancelled = TRUE]
        /\ PostToView(<<Message("error", analyzing.request)>>)
        /\ UNCHANGED keptReview
     \/ keptReview # 0 /\ keptReview' = 0 /\ PostToView(<<Message("stale", keptReview)>>) /\ UNCHANGED analyzing
  /\ UNCHANGED <<webview, toHost, changing, hostRefresh, hostRows, requested, nRows>>

\* The change ends: the local facts go out before the derived data is refreshed.  A
\* refresh that cannot be targeted is superseded by the reload that follows.
ChangeEnds ==
  /\ changing # 0
  /\ changing' = 0
  /\ \/ /\ PostToView(<<Message("error", changing)>>)
        /\ UNCHANGED <<hostRefresh, hostRows>>
     \/ \E targeted, current \in BOOLEAN :
          /\ hostRows' = [hostRows EXCEPT !.declared = @ + 1]
          /\ PostToView(<<[type |-> "result", id |-> changing, package |-> requested[changing], refreshing |-> targeted,
                     declared |-> hostRows.declared + 1]>>
                  \o IF targeted /\ ~current
                     THEN <<[type |-> "enriched", id |-> changing, outcome |-> "superseded"]>> ELSE <<>>)
          /\ lifecycle' = IF ~targeted THEN lifecycle
                          ELSE [id |-> changing, state |-> IF current THEN "running" ELSE "superseded"]
          /\ derived' = IF targeted /\ current THEN derived \cup {changing} ELSE derived
  /\ UNCHANGED <<webview, toHost, analyzing, keptReview, requested, nRows>>

\* A targeted scan ends: its rows, then its outcome.  One whose lifecycle is not the
\* current one any more reports that it was superseded.
DerivedEnds(id) ==
  /\ id \in derived
  /\ derived' = derived \ {id}
  /\ \E outcome \in {"succeeded", "failed", "superseded"} :
       LET reported == IF lifecycle.id = id THEN outcome ELSE "superseded"
           scanned == outcome = "succeeded" /\ nRows < MaxRows
       IN  /\ lifecycle' = IF lifecycle.id = id THEN [lifecycle EXCEPT !.state = outcome] ELSE lifecycle
           /\ outcome = "succeeded" => scanned
           /\ hostRows' = IF scanned THEN [hostRows EXCEPT !.scan = @ + 1] ELSE hostRows
           /\ nRows' = IF scanned THEN nRows + 1 ELSE nRows
           /\ PostToView((IF scanned THEN <<[type |-> "rows", rows |-> hostRows']>> ELSE <<>>)
                   \o <<[type |-> "enriched", id |-> id, outcome |-> reported]>>)
  /\ UNCHANGED <<webview, toHost, hostAnalysis, requested>>

\* Rows for other reasons: a notice that they are being revalidated, a scan, or the
\* loading of another project, which revokes the analysis.
RowsPosted ==
  /\ changing = 0 /\ nRows < MaxRows
  /\ nRows' = nRows + 1
  /\ \/ /\ PostToView(<<[type |-> "rows", rows |-> [hostRows EXCEPT !.status = "stale"]]>>)
        /\ UNCHANGED <<hostRows, keptReview>>
     \/ /\ \E edited \in {0, 1} :
             hostRows' = [hostRows EXCEPT !.scan = @ + 1, !.declared = @ + edited]
        /\ PostToView(<<[type |-> "rows", rows |-> hostRows']>>)
        /\ UNCHANGED keptReview
     \/ /\ analyzing = NoAttempt
        /\ hostRows' = [hostRows EXCEPT !.scan = @ + 1]
        /\ PostToView(<<[type |-> "rows", rows |-> NoRows], [type |-> "rows", rows |-> hostRows']>>)
        /\ keptReview' = 0
  /\ UNCHANGED <<webview, toHost, analyzing, changing, hostRefresh, requested>>

-----------------------------------------------------------------------------
Hears == ShowAnalysis \/ ShowError \/ ShowStale \/ ShowResult \/ ShowEnrichment \/ ShowRows
Handles == HandleUpgrade \/ HandleCancelUpgrade \/ HandleConfirm \/ HandleRetry

ReviewNext ==
  \/ (\E p \in ReviewPackages : RequestUpgrade(p) \/ OpenManage(p))
  \/ CancelUpgrade \/ RefreshAnalysis \/ ConfirmUpgrade \/ RetryEnrichment
  \/ Hears \/ Handles
  \/ AttemptEnds \/ AttemptSettles \/ SourceChanges \/ ChangeEnds \/ RowsPosted
  \/ \E id \in 1..MaxReviews : DerivedEnds(id)

ReviewSpec == ReviewInit /\ [][ReviewNext]_reviewVars

\* Messages arrive, and what the host began ends: its requests have timeouts.
ReviewFairness ==
  /\ WF_reviewVars(Hears) /\ WF_reviewVars(Handles)
  /\ WF_reviewVars(AttemptEnds) /\ WF_reviewVars(AttemptSettles) /\ WF_reviewVars(ChangeEnds)
  /\ \A id \in 1..MaxReviews : WF_reviewVars(DerivedEnds(id))

-----------------------------------------------------------------------------
(* What the review promises *)

\* With nothing under way between the two, an analysis that can be confirmed on screen
\* is the one the host would execute: no reply that crossed a cancellation, no rows and
\* no revocation leave the two sides at different analyses.
ConfirmableIsKept ==
  toHost = <<>> /\ toView = <<>> /\ ~review.busy /\ review.analysis # 0 /\ review.stale # review.analysis =>
    keptReview = review.analysis /\ review.analysis = review.request

\* "Keep every derived-data snapshot quarantined until the exact targeted lifecycle
\* reports success" (App.tsx): rows shown as current while a refresh runs or has failed
\* are none of those that came since, and rows held back are not behind newer ones.
RowsStayQuarantined ==
  /\ refresh.phase # "none" => display.status # "ready"
  /\ refresh.held.scan # 0 => refresh.phase # "none" /\ refresh.held.scan = heard.scan

\* Two sides of one review.
ReviewsAgree == ConfirmableIsKept /\ RowsStayQuarantined

\* A confirmation gets its answer, and a refresh its end.
ReviewSettles ==
  /\ review.busy ~> ~review.busy
  /\ refresh.phase = "refreshing" ~> refresh.phase # "refreshing"

\* "UPGRADE_IN_PROGRESS means a different request than the one this webview is currently
\* tracking was rejected" (host/upgradeUiState.ts).
RejectionIsOfAnother ==
  toView # <<>> /\ Head(toView).type = "busy" /\ ~review.busy => Head(toView).id # review.request
=============================================================================
