---------------------------- MODULE SmartCleanup ----------------------------
(***************************************************************************)
(* Smart Cleanup from the first analysis to the result card.  The webview  *)
(* (App.tsx and smartCleanupState.ts) asks the host four questions about   *)
(* one request (usage, removal impact, metadata, duplicates), builds a     *)
(* plan of the answers and lets the user select and confirm.  The host     *)
(* accepts a selection only on evidence it still holds for the project's   *)
(* current source generation: when the selection is reviewed, when the     *)
(* review is stored and once more right before the files are changed.      *)
(*                                                                         *)
(* `host.out' is the FIFO channel to the webview.  A message of the webview*)
(* is handled by the host when it is posted: the host's answers depend on  *)
(* nothing else of the webview, so a message that travels is one the user  *)
(* sent later.  What the host awaits are steps of their own.               *)
(*                                                                         *)
(* An advisory or deprecation finding is evidence the user reads, it       *)
(* authorizes nothing and is left out; so are progress counts and the      *)
(* one-hour limits.  The host's transaction is UpgradeTransaction.         *)
(***************************************************************************)
EXTENDS Integers, Sequences, TLC

CONSTANTS
  CleanupPackages,   \* the direct dependencies
  Convention,        \* those a framework may load by convention
  OptionalPeers,     \* those an installed package names as an optional peer
  PeerNeeds,         \* <<owner, peer>>: a required peer of an owner
  MaxCleanups,       \* analyses the user starts
  MaxImpacts,        \* removal impact requests, but for those a review is refreshed with
  MaxSelections,     \* selections the user sends to the host, but for those that keep a package
  MaxCleanupEdits,   \* edits of the project from outside
  MaxInFlight        \* messages on their way when the host takes a step of its own

ASSUME CleanupAssumption ==
  /\ Convention \cup OptionalPeers \subseteq CleanupPackages /\ PeerNeeds \subseteq CleanupPackages \X CleanupPackages
  /\ {MaxCleanups, MaxImpacts, MaxSelections, MaxCleanupEdits, MaxInFlight} \subseteq Nat

VARIABLES project, host, view, userConfirmed

cleanupVars == <<project, host, view, userConfirmed>>

Checks == {"metadata", "duplicates"}
Dedupe == "dedupe"

-----------------------------------------------------------------------------
(* What a removal of some packages together means for each of them.        *)

Verdict(p, removing, used) ==
  IF \E owner \in CleanupPackages \ removing : <<owner, p>> \in PeerNeeds THEN "blocked"
  ELSE IF p \in used \cup OptionalPeers THEN "review"
  ELSE IF p \in Convention THEN "unknown"
  ELSE "low-risk"

RemovalVerdicts(removing, used) == [p \in removing |-> Verdict(p, removing, used)]
Selectable(verdicts) == {p \in DOMAIN verdicts : verdicts[p] \in {"low-risk", "review"}}

-----------------------------------------------------------------------------
(* The host.                                                               *)

Posted(h, m) == [h EXCEPT !.out = Append(@, m)]
PostIf(h, condition, m) == IF condition THEN Posted(h, m) ELSE h

\* A transaction owns the project's files.
Mutating(h) == h.executing.stage \in {"changing", "reloading", "rereading"}

IdleScan == [kind |-> "idle", gen |-> 0, used |-> {}, live |-> FALSE]
NoImpact == [request |-> 0, packages |-> {}, live |-> FALSE]
NoEvidence == [request |-> 0, gen |-> 0, selectable |-> {}, ready |-> FALSE]
NoKnowledge == [gen |-> 0, packages |-> {}, used |-> {}]
NoCheck == [request |-> 0, gen |-> 0]
NoRemoval == [stage |-> "none"]

ImpactError(h, request, code) == Posted(h, [kind |-> "impact", request |-> request, code |-> code])
RemoveError(h, code) == Posted(h, [kind |-> "remove-error", code |-> code])

\* analyze-cleanup (usageCoordinator.handleAnalyzeCleanup in the foreground).
AnalyzeUsage(h, used) ==
  IF Mutating(h) \/ h.scan.kind # "idle" THEN Posted(h, [kind |-> "usage", phase |-> "error"])
  ELSE [Posted(h, [kind |-> "usage", phase |-> "analyzing"])
          EXCEPT !.usageVisible = TRUE,
                 !.scan = [kind |-> "usage", gen |-> h.gen, used |-> used, live |-> TRUE]]

\* analyze-smart-cleanup-*: a second request finds the coordinator active and is dropped.
AnalyzeCheck(h, c, request) ==
  IF Mutating(h) THEN Posted(h, [kind |-> "check", check |-> c, request |-> request, result |-> "error"])
  ELSE IF h.checking[c] # NoCheck THEN h
  ELSE [h EXCEPT !.checking[c] = [request |-> request, gen |-> h.gen],
                 !.deduped = IF c = "duplicates" THEN NoCheck ELSE @]

CancelCheck(h, c, request) ==
  [h EXCEPT !.checking[c] = IF @.request = request THEN NoCheck ELSE @,
            !.deduped = IF c = "duplicates" /\ h.checking[c].request = request THEN NoCheck ELSE @]

\* handleCancel: whoever waits in the foreground; a background scan goes on.
CancelUsage(h) ==
  [h EXCEPT !.scan.live = @ /\ h.scan.kind = "background",
            !.impact.live = FALSE]

CancelImpact(h, request) ==
  IF request = 0 \/ h.impact.request # request \/ ~h.impact.live THEN h
  ELSE [h EXCEPT !.impact.live = FALSE,
                 !.visible = IF @.request = request THEN NoEvidence ELSE @,
                 !.scan.live = @ /\ h.scan.kind # "impact"]

\* The removal impact of packages, from the usage known for the current generation.
Assess(h, request, packages) ==
  LET verdicts == RemovalVerdicts(packages, h.known.used) IN
  [Posted(h, [kind |-> "impact", request |-> request, code |-> "done", verdicts |-> verdicts])
     EXCEPT !.visible = [request |-> request, gen |-> h.gen, selectable |-> Selectable(verdicts), ready |-> TRUE]]

AnalyzeImpact(h, request, packages, used) ==
  IF Mutating(h) \/ h.impact.request # 0 THEN ImpactError(h, request, "BUSY")
  ELSE IF ~(packages \subseteq h.rows) THEN ImpactError([h EXCEPT !.visible = NoEvidence], request, "STALE_SOURCE")
  ELSE IF h.known.gen = h.gen /\ packages \subseteq h.known.packages THEN Assess(h, request, packages)
  ELSE LET joins == h.scan.kind = "background" /\ h.scan.live /\ h.scan.gen = h.gen
           asked == [h EXCEPT !.impact = [request |-> request, packages |-> packages, live |-> TRUE],
                              !.visible = [request |-> request, gen |-> h.gen, selectable |-> {}, ready |-> FALSE]] IN
       IF joins THEN asked
       ELSE IF h.scan.kind # "idle" THEN ImpactError([h EXCEPT !.visible = NoEvidence], request, "BUSY")
       ELSE [asked EXCEPT !.scan = [kind |-> "impact", gen |-> h.gen, used |-> used, live |-> TRUE]]

\* What a selection rests on is still what the host holds (the isCurrent of both kinds of evidence).
\* A removal asked for in the details of a package rests on none.
StillCurrent(h, r) ==
  /\ r.impact # 0 => h.visible.ready /\ h.visible.request = r.impact /\ h.visible.gen = h.gen
  /\ r.dedupe # 0 => h.deduped = [request |-> r.dedupe, gen |-> h.gen]

\* bulk-remove (the start of handleAnalyzeBulkRemove): one review is prepared at a time.
ReceiveRemoval(h, r) ==
  IF h.pending # NoRemoval THEN RemoveError(h, "UPGRADE_IN_PROGRESS")
  ELSE [h EXCEPT !.pending = [stage |-> "received"] @@ r]

\* smart-cleanup-remove (handleAnalyzeSmartCleanupRemove).
ReceiveSelection(h, r) ==
  IF ~StillCurrent(h, r) \/ ~(r.packages \subseteq h.visible.selectable) THEN RemoveError(h, "STALE_ANALYSIS")
  ELSE ReceiveRemoval(h, r)

\* cancel-remove, with the id of the review or, before there is one, with the request; the details of
\* a package name no request (0) and cancel whatever is prepared.
CancelRemoval(h, analysis, request) ==
  IF analysis # 0 THEN [h EXCEPT !.stored = IF @ # NoRemoval /\ @.analysis = analysis THEN NoRemoval ELSE @]
  ELSE IF h.pending # NoRemoval /\ request \in {0, h.pending.request} THEN [h EXCEPT !.pending = NoRemoval]
  ELSE IF request = 0 THEN h
  ELSE [h EXCEPT !.stored = IF @ # NoRemoval /\ @.request = request THEN NoRemoval ELSE @]

\* confirm-remove: the stored review is single-use.
ConfirmRemoval(h, analysis) ==
  IF h.stored = NoRemoval \/ h.stored.analysis # analysis THEN RemoveError(h, "STALE_ANALYSIS")
  ELSE IF h.executing # NoRemoval \/ h.pending.stage = "begun" THEN RemoveError(h, "UPGRADE_IN_PROGRESS")
  ELSE [h EXCEPT !.stored = NoRemoval, !.executing = [h.stored EXCEPT !.stage = "checking", !.gen = h.gen]]

\* invalidateProjectSource: every scan is outdated and what the webview shows of it is withdrawn.
Supersede(h) ==
  LET usage == PostIf(h, h.usageVisible, [kind |-> "usage", phase |-> "expired"])
      impact == IF h.visible = NoEvidence THEN usage ELSE ImpactError(usage, h.visible.request, "STALE_SOURCE") IN
  [impact EXCEPT !.gen = @ + 1, !.scan.live = FALSE, !.usageVisible = FALSE, !.visible = NoEvidence]

\* handleProjectSourceChanged: a stored review is dropped at once.
DropReview(h) ==
  IF Mutating(h) \/ h.stored = NoRemoval THEN h
  ELSE RemoveError([h EXCEPT !.stored = NoRemoval], "STALE_SOURCE")

Dashboard(h) == Posted(h, [kind |-> "dashboard", id |-> h.snapshot, rows |-> h.rows])

-----------------------------------------------------------------------------
(* The webview.                                                            *)

NoPlan == [confidence |-> [p \in {} |-> "safe"], dedupe |-> 0, snapshot |-> 0]
FreshCleanup(request) ==
  [phase |-> "analyzing", request |-> request, plan |-> NoPlan, selected |-> {}, reviewed |-> {}, back |-> "ready"]
NoExecution == [packages |-> {}, dedupe |-> 0, request |-> 0, impact |-> 0, analysis |-> 0]
NoPreflight == [analysis |-> 0, packages |-> {}, dedupe |-> 0]
NoVerdicts == [p \in {} |-> "low-risk"]
NoImpactView == [phase |-> "idle", request |-> 0, verdicts |-> NoVerdicts]
NoDrilldown == [snapshot |-> 0, request |-> 0, impact |-> NoImpactView]

Reviewing(c) == c.phase \in {"ready", "partial"}
OfConfidence(plan, confidence) == {p \in DOMAIN plan.confidence : plan.confidence[p] = confidence}
DedupeOf(plan) == IF plan.dedupe = 0 THEN {} ELSE {Dedupe}
DefaultSelection(plan) == OfConfidence(plan, "safe") \cup DedupeOf(plan)
SelectedPackages(c) == c.selected \cap DOMAIN c.plan.confidence
SelectedDedupe(c) == IF Dedupe \in c.selected THEN c.plan.dedupe ELSE 0

\* smartCleanupReducer, the actions that messages bring about.
SourceStale(v) == [v EXCEPT !.cleanup.phase = "stale", !.cleanup.selected = {}]
AnalysisEnds(v, phase) == IF v.cleanup.phase = "analyzing" THEN [v EXCEPT !.cleanup.phase = phase] ELSE v
Rejected(v) == IF v.cleanup.plan = NoPlan THEN v ELSE [v EXCEPT !.cleanup.phase = v.cleanup.back]

\* The refs of a removal, as a finished, failed or abandoned one leaves them.
Forget(v) == [v EXCEPT !.execution = NoExecution, !.removing = FALSE, !.fromCleanup = FALSE,
                       !.preflight = NoPreflight, !.busy = FALSE]

OnDashboard(v, m) ==
  LET stale == v.opened /\ v.tracked # 0 /\ v.execution = NoExecution
      told == IF stale THEN SourceStale(v) ELSE v IN
  [told EXCEPT !.shown = [id |-> m.id, rows |-> m.rows],
               !.cache = IF @ = m.id THEN @ ELSE 0,
               !.removing = FALSE, !.preflight = NoPreflight, !.busy = FALSE,
               !.fromCleanup = @ /\ v.execution # NoExecution,
               !.unused = {}, !.impactAsked = 0, !.impact = NoImpactView, !.awaiting = {},
               !.usage = IF @ = "analyzing" THEN @ ELSE "idle"]

OnUsage(v, m) ==
  CASE m.phase = "analyzing" -> IF v.progressing THEN [v EXCEPT !.usage = "analyzing"] ELSE v
    [] m.phase = "done" -> [v EXCEPT !.progressing = FALSE, !.usage = "done", !.unused = m.unused]
    [] m.phase = "expired" ->
         LET told == IF v.tracked # 0 THEN SourceStale(v) ELSE v IN
         [told EXCEPT !.progressing = FALSE, !.usage = "expired", !.unused = {}, !.cache = 0]
    [] m.phase = "error" ->
         LET ended == IF v.opened /\ v.cleanup.request = v.requests THEN AnalysisEnds(v, "failed") ELSE v IN
         [ended EXCEPT !.progressing = FALSE, !.usage = "idle"]

OnCheck(v, m) ==
  IF m.request # v.tracked THEN v
  ELSE LET seen == [v EXCEPT !.checks[m.check] = IF m.result = "done" THEN "done" ELSE "error"] IN
       IF m.check = "metadata" THEN IF m.result = "stale" THEN SourceStale(seen) ELSE seen
       ELSE IF m.result = "done" THEN [seen EXCEPT !.dedupe = IF m.action THEN m.request ELSE 0]
       ELSE LET none == [seen EXCEPT !.dedupe = 0, !.cache = 0] IN
            IF m.result = "stale" THEN SourceStale(none) ELSE none

\* The effect that starts the removal a package's details wait for (manageRemovalReadyPackage); it takes
\* the removal the webview is in away from Smart Cleanup.
RemovalIsReady(v, m) == m.kind = "impact" /\ m.code = "done" /\ m.request = v.impactAsked /\ v.awaiting # {}
StartRemoval(v) ==
  [v EXCEPT !.awaiting = {}, !.active = v.awaiting, !.removing = TRUE, !.fromCleanup = FALSE,
            !.preflight = NoPreflight, !.busy = FALSE, !.selections = @ + 1]

OnImpact(v, m) ==
  IF m.request # v.impactAsked THEN v
  ELSE CASE m.code = "done" ->
              LET answered == [v EXCEPT !.impact = [phase |-> "done", request |-> m.request, verdicts |-> m.verdicts]] IN
              IF RemovalIsReady(v, m) THEN StartRemoval(answered) ELSE answered
         [] m.code = "STALE_SOURCE" ->
              SourceStale([v EXCEPT !.impact = [NoImpactView EXCEPT !.phase = "error"], !.cache = 0, !.awaiting = {}])
         [] OTHER ->
              LET failed == [v EXCEPT !.impact = [NoImpactView EXCEPT !.phase = "error"], !.awaiting = {}] IN
              IF v.opened /\ v.cleanup.request = v.requests THEN AnalysisEnds(failed, "failed") ELSE failed

\* An error names no review, only who started the removal the webview is in.
OnRemoveError(v, m) ==
  LET heard == [v EXCEPT !.awaiting = {}] IN
  IF ~v.fromCleanup
  THEN IF m.code = "UPGRADE_IN_PROGRESS" THEN [heard EXCEPT !.busy = FALSE]
       ELSE [heard EXCEPT !.removing = FALSE, !.preflight = NoPreflight, !.busy = FALSE]
  ELSE LET told == CASE m.code \in {"STALE_SOURCE", "STALE_ANALYSIS"} -> SourceStale(heard)
                     [] m.code = "REMOVE_TRANSACTION_FAILED" -> [heard EXCEPT !.cleanup.phase = "incomplete"]
                     [] OTHER -> Rejected(heard) IN
       [Forget(told) EXCEPT !.tracked = 0]

\* A review is of Smart Cleanup when it names what was selected, and of a package's details otherwise.
OnAnalysis(v, m) ==
  LET shown == [v EXCEPT !.preflight = [analysis |-> m.analysis, packages |-> m.packages, dedupe |-> m.dedupe]] IN
  IF ~v.removing THEN v
  ELSE IF ~v.fromCleanup THEN IF v.active = m.packages THEN shown ELSE v
  ELSE IF m.packages = v.execution.packages /\ m.dedupe = v.execution.dedupe
  THEN [shown EXCEPT !.execution.analysis = m.analysis, !.busy = FALSE]
  ELSE v

OnResult(v, m) ==
  IF \/ ~v.fromCleanup
     \/ v.execution = NoExecution \/ m.analysis # v.execution.analysis \/ m.packages # v.execution.packages
  THEN v
  ELSE LET phase == IF m.outcome = "rolled-back" THEN "cancelled-rolled-back"
                    ELSE IF m.outcome = "verified" /\ m.report = "verified" THEN "complete"
                    ELSE "incomplete" IN
       [Forget([v EXCEPT !.cleanup.phase = phase]) EXCEPT !.tracked = 0]

Received(v, m) ==
  CASE m.kind = "dashboard" -> OnDashboard(v, m)
    [] m.kind = "usage" -> OnUsage(v, m)
    [] m.kind = "check" -> OnCheck(v, m)
    [] m.kind = "impact" -> OnImpact(v, m)
    [] m.kind = "remove-error" -> OnRemoveError(v, m)
    [] m.kind = "remove-analysis" -> OnAnalysis(v, m)
    [] m.kind = "remove-result" -> OnResult(v, m)

-----------------------------------------------------------------------------
(* The user.                                                               *)

Reusable(v) == v.cache # 0 /\ v.cache = v.shown.id /\ v.cleanup.phase \in {"ready", "partial", "empty"}
UsageIsKnown(v) == v.usage = "done"

\* startSmartCleanup: a review of the shown snapshot is shown again, otherwise everything is asked.
Reopen ==
  /\ ~view.opened /\ view.drilldown = NoDrilldown /\ Reusable(view)
  /\ view' = [view EXCEPT !.opened = TRUE, !.tracked = view.cleanup.request]
  /\ UNCHANGED <<project, host, userConfirmed>>

Start ==
  /\ view.requests < MaxCleanups
  /\ \/ ~view.opened /\ view.drilldown = NoDrilldown
     \/ view.opened /\ view.cleanup.phase \in {"stale", "failed", "complete", "incomplete", "cancelled-rolled-back"}
  /\ ~Reusable(view)
  /\ LET request == view.requests + 1
         usage == IF UsageIsKnown(view) THEN host ELSE AnalyzeUsage(host, project.used) IN
     /\ view' = [view EXCEPT !.requests = request, !.opened = TRUE, !.tracked = request, !.cache = 0,
                             !.checks = [c \in Checks |-> "analyzing"], !.dedupe = 0,
                             !.impact = NoImpactView, !.cleanup = FreshCleanup(request),
                             !.progressing = @ \/ ~UsageIsKnown(view)]
     /\ host' = AnalyzeCheck(AnalyzeCheck(usage, "metadata", request), "duplicates", request)
  /\ UNCHANGED <<project, userConfirmed>>

Close ==
  /\ view.opened /\ view.cleanup.phase \notin {"executing", "rolling-back"}
  /\ LET cancelled == CancelCheck(CancelCheck(CancelUsage(host), "metadata", view.tracked), "duplicates", view.tracked)
         back == [Forget(view) EXCEPT !.cleanup.phase = view.cleanup.back] IN
     CASE view.cleanup.phase = "analyzing" ->
            /\ host' = CancelImpact(cancelled, view.impactAsked)
            /\ view' = [view EXCEPT !.opened = FALSE, !.tracked = 0, !.cache = 0, !.progressing = FALSE,
                                    !.impactAsked = 0, !.impact = NoImpactView]
       [] view.cleanup.phase = "confirming" /\ view.execution # NoExecution ->
            /\ host' = CancelRemoval(host, view.execution.analysis, view.execution.request)
            /\ view' = [back EXCEPT !.opened = FALSE, !.tracked = 0]
       [] OTHER -> view' = [view EXCEPT !.opened = FALSE, !.tracked = 0] /\ UNCHANGED host
  /\ UNCHANGED <<project, userConfirmed>>

Asks(v, packages) ==
  /\ v.impacts < MaxImpacts
  /\ view' = [v EXCEPT !.impacts = @ + 1, !.impactAsked = v.impacts + 1,
                       !.impact = [phase |-> "analyzing", request |-> v.impacts + 1, verdicts |-> NoVerdicts]]
  /\ host' = AnalyzeImpact(host, v.impacts + 1, packages, project.used)

\* The effect that asks for the removal impact of what seems unused.
RequestImpact ==
  /\ view.opened /\ view.cleanup.phase = "analyzing" /\ view.usage \in {"done", "expired"}
  /\ view.unused # {} /\ view.impact.phase = "idle"
  /\ Asks(view, view.unused)
  /\ UNCHANGED <<project, userConfirmed>>

Confidence(v, p) ==
  IF v.checks["metadata"] = "error" THEN "blocked"
  ELSE IF p \notin DOMAIN v.impact.verdicts THEN "unknown"
  ELSE IF v.impact.verdicts[p] = "low-risk" THEN "safe" ELSE v.impact.verdicts[p]

\* The effect that builds the plan once everything has been answered (buildSmartCleanupPlan).
BuildPlan ==
  /\ view.opened /\ view.cleanup.phase = "analyzing" /\ view.usage \in {"done", "expired"}
  /\ view.unused = {} \/ view.impact.phase = "done"
  /\ \A c \in Checks : view.checks[c] \in {"done", "error"}
  /\ LET plan == [confidence |-> [p \in view.unused \cap view.shown.rows |-> Confidence(view, p)],
                  dedupe |-> view.dedupe, snapshot |-> view.shown.id]
         phase == IF \E c \in Checks : view.checks[c] = "error" THEN "partial" ELSE "ready" IN
     view' = [view EXCEPT !.cache = view.shown.id,
                          !.cleanup = IF DOMAIN plan.confidence = {} /\ plan.dedupe = 0
                                      THEN [@ EXCEPT !.phase = "empty"]
                                      ELSE [@ EXCEPT !.phase = phase, !.back = phase, !.plan = plan,
                                                     !.selected = DefaultSelection(plan), !.reviewed = {}]]
  /\ UNCHANGED <<project, host, userConfirmed>>

\* toggle-safe-action, review-action and toggle-reviewed-action.
Toggles(c, action) == [c EXCEPT !.selected = IF action \in @ THEN @ \ {action} ELSE @ \cup {action}]
ToggleSafe(c, action) ==
  IF action \in OfConfidence(c.plan, "safe") \cup DedupeOf(c.plan) THEN Toggles(c, action) ELSE c
ReviewAction(c, action) ==
  IF action \in OfConfidence(c.plan, "review") THEN [c EXCEPT !.reviewed = @ \cup {action}] ELSE c
ToggleReviewed(c, action) ==
  IF action \in OfConfidence(c.plan, "review") \cap c.reviewed THEN Toggles(c, action) ELSE c

Choose ==
  /\ view.opened /\ Reviewing(view.cleanup)
  /\ \E action \in CleanupPackages \cup {Dedupe} :
       \E choice_ \in {ToggleSafe(view.cleanup, action), ReviewAction(view.cleanup, action),
                      ToggleReviewed(view.cleanup, action)} :
         choice_ # view.cleanup /\ view' = [view EXCEPT !.cleanup = choice_]
  /\ UNCHANGED <<project, host, userConfirmed>>

\* prepareSmartCleanup sends the selection, once.
Prepare(v, h, actions) ==
  LET packages == actions \cap DOMAIN v.cleanup.plan.confidence
      r == [packages |-> packages, dedupe |-> IF Dedupe \in actions THEN v.cleanup.plan.dedupe ELSE 0,
            request |-> v.cleanup.request, impact |-> IF packages = {} THEN 0 ELSE v.impact.request,
            analysis |-> 0, gen |-> 0, disk |-> 0] IN
  IF v.execution # NoExecution \/ actions = {} THEN view' = v /\ host' = h
  ELSE IF packages # {} /\ ~(v.impact.phase = "done" /\ packages \subseteq DOMAIN v.impact.verdicts)
  THEN view' = SourceStale(v) /\ host' = h
  ELSE /\ view' = [v EXCEPT !.execution = [packages |-> r.packages, dedupe |-> r.dedupe, request |-> r.request,
                                           impact |-> r.impact, analysis |-> 0],
                            !.removing = TRUE, !.fromCleanup = TRUE, !.preflight = NoPreflight, !.busy = TRUE,
                            !.selections = @ + 1]
       /\ host' = ReceiveSelection(h, r)

ReviewSelected ==
  /\ view.opened /\ Reviewing(view.cleanup) /\ view.cleanup.selected # {} /\ view.impact.phase # "analyzing"
  /\ view.selections < MaxSelections
  /\ Prepare([view EXCEPT !.cleanup.phase = "confirming", !.cleanup.back = view.cleanup.phase],
             host, view.cleanup.selected)
  /\ UNCHANGED <<project, userConfirmed>>

\* Back drops the review; Keep goes on with what remains selected.
Withdrawn == IF view.execution = NoExecution THEN host
             ELSE CancelRemoval(host, view.execution.analysis, view.execution.request)

Back ==
  /\ view.opened /\ view.cleanup.phase = "confirming"
  /\ host' = Withdrawn
  /\ view' = [Forget(view) EXCEPT !.cleanup.phase = view.cleanup.back]
  /\ UNCHANGED <<project, userConfirmed>>

Matches(v) == v.preflight # NoPreflight /\ v.preflight.packages = SelectedPackages(v.cleanup)
              /\ v.preflight.dedupe = SelectedDedupe(v.cleanup)

Keep ==
  /\ view.opened /\ view.cleanup.phase = "confirming" /\ view.preflight # NoPreflight
  /\ \E p \in SelectedPackages(view.cleanup) :
       LET rest == view.cleanup.selected \ {p} IN
       Prepare([Forget(view) EXCEPT !.cleanup.selected = rest,
                                    !.cleanup.phase = IF rest = {} THEN view.cleanup.back ELSE @],
               Withdrawn, rest)
  /\ UNCHANGED <<project, userConfirmed>>

Confirm ==
  /\ view.opened /\ view.cleanup.phase = "confirming" /\ Matches(view) /\ ~view.busy
  /\ view.execution.analysis = view.preflight.analysis
  /\ view' = [view EXCEPT !.cleanup.phase = "executing", !.busy = TRUE]
  /\ host' = ConfirmRemoval(host, view.execution.analysis)
  /\ userConfirmed' = [packages |-> SelectedPackages(view.cleanup), dedupe |-> SelectedDedupe(view.cleanup),
                   reviewed |-> view.cleanup.reviewed]
  /\ UNCHANGED project

\* The details of a package replace the workspace; its removal may be asked for there
\* (requestRemoveFromManage), which asks for the impact first.  A removal confirmed there is BulkRemoval's.
DrillDown ==
  /\ view.opened /\ Reviewing(view.cleanup)
  /\ view' = [view EXCEPT !.opened = FALSE,
                          !.drilldown = [snapshot |-> view.shown.id, request |-> view.cleanup.request,
                                         impact |-> view.impact]]
  /\ UNCHANGED <<project, host, userConfirmed>>

AskInDetails ==
  /\ view.drilldown # NoDrilldown /\ view.selections < MaxSelections
  /\ \E p \in view.shown.rows : Asks([view EXCEPT !.awaiting = {p}], {p})
  /\ UNCHANGED <<project, userConfirmed>>

\* closeManage, which is blocked while an impact is analyzed or a review prepared: the review goes on if
\* it is of the shown snapshot, with its own removal impact.
CloseDetails ==
  /\ view.drilldown # NoDrilldown /\ view.impact.phase # "analyzing" /\ ~view.busy
  /\ LET saved == view.drilldown.impact
         asked == view.removing /\ ~view.fromCleanup
         left == IF asked THEN CancelRemoval(host, view.preflight.analysis, 0) ELSE host
         closed == IF asked THEN [view EXCEPT !.removing = FALSE, !.preflight = NoPreflight] ELSE view
         v == [closed EXCEPT !.opened = TRUE, !.drilldown = NoDrilldown, !.awaiting = {}]
         reused == [v EXCEPT !.tracked = view.drilldown.request] IN
     IF ~(view.drilldown.snapshot = view.shown.id /\ Reusable(view))
     THEN host' = left /\ view' = SourceStale([v EXCEPT !.cache = 0])
     ELSE IF saved.phase = "done" /\ (view.impact.phase # "done" \/ view.impact.request # saved.request)
     THEN /\ view' = [reused EXCEPT !.impacts = @ + 1, !.impactAsked = view.impacts + 1,
                                    !.impact = [phase |-> "analyzing", request |-> view.impacts + 1, verdicts |-> NoVerdicts]]
          /\ host' = AnalyzeImpact(left, view.impacts + 1, DOMAIN saved.verdicts, project.used)
     ELSE host' = left /\ view' = [reused EXCEPT !.impact = saved]
  /\ UNCHANGED <<project, userConfirmed>>

\* The message that makes a removal ready has the webview ask the host for it.
Deliver ==
  /\ host.out # <<>>
  /\ view' = Received(view, Head(host.out))
  /\ LET rest == [host EXCEPT !.out = Tail(@)] IN
     host' = IF RemovalIsReady(view, Head(host.out))
             THEN ReceiveRemoval(rest, [packages |-> view.awaiting, dedupe |-> 0, request |-> -1, impact |-> 0,
                                        analysis |-> 0, gen |-> 0, disk |-> 0])
             ELSE rest
  /\ UNCHANGED <<project, userConfirmed>>

-----------------------------------------------------------------------------
(* The project and the steps the host takes on its own.                    *)

EditCode ==
  /\ project.edits < MaxCleanupEdits
  /\ \E p \in host.rows \ project.used :
       project' = [project EXCEPT !.edits = @ + 1, !.used = @ \cup {p}, !.unnoticed = @ \cup {"code"}]
  /\ UNCHANGED <<host, view, userConfirmed>>

EditManifest ==
  /\ project.edits < MaxCleanupEdits
  /\ project' = [project EXCEPT !.edits = @ + 1, !.disk = @ + 1, !.unnoticed = @ \cup {"manifest"}]
  /\ UNCHANGED <<host, view, userConfirmed>>

\* onWatchedFileEvent announces the shown rows as stale first, a source event does not.
Notice(kind) ==
  /\ kind \in project.unnoticed
  /\ project' = [project EXCEPT !.unnoticed = @ \ {kind}]
  /\ LET announced == IF kind = "manifest" THEN [Dashboard(host) EXCEPT !.reloadDue = TRUE] ELSE host IN
     host' = [DropReview(Supersede(announced)) EXCEPT !.refreshDue = TRUE]
  /\ UNCHANGED <<view, userConfirmed>>

Reloaded(h) == Dashboard([h EXCEPT !.loaded = project.disk, !.rows = project.rows, !.snapshot = @ + 1,
                                   !.reloadDue = FALSE, !.refreshDue = TRUE])

\* A reload waits for the end of a transaction.
Reload ==
  /\ host.reloadDue /\ ~Mutating(host)
  /\ host' = Reloaded(host)
  /\ UNCHANGED <<project, view, userConfirmed>>

StartBackgroundScan ==
  /\ host.refreshDue /\ host.scan.kind = "idle" /\ ~Mutating(host)
  /\ host' = [host EXCEPT !.refreshDue = FALSE,
                          !.scan = [kind |-> "background", gen |-> host.gen, used |-> project.used, live |-> TRUE]]
  /\ UNCHANGED <<project, view, userConfirmed>>

\* A scan that was cancelled or outdated answers nobody, a failed one those who wait in the foreground.
CleanupScanFails ==
  /\ host.scan.kind # "idle"
  /\ LET idle == [host EXCEPT !.scan = IdleScan, !.impact = NoImpact]
         waiting == host.impact.request # 0 /\ host.impact.live IN
     host' = IF host.scan.gen # host.gen \/ ~host.scan.live THEN idle
             ELSE IF host.scan.kind = "usage" THEN Posted(idle, [kind |-> "usage", phase |-> "error"])
             ELSE IF waiting THEN ImpactError([idle EXCEPT !.visible = NoEvidence], host.impact.request, "UNKNOWN")
             ELSE idle
  /\ UNCHANGED <<project, view, userConfirmed>>

\* What a scan finds is from before or after an edit made meanwhile.
CleanupScanSucceeds ==
  /\ host.scan.kind # "idle" /\ host.scan.live /\ host.scan.gen = host.gen
  /\ \E found \in {host.scan.used, project.used} :
       LET all == IF host.scan.kind = "impact" THEN host.impact.packages ELSE host.rows
           known == [host EXCEPT !.scan = IdleScan, !.impact = NoImpact,
                                 !.known = [gen |-> host.gen, packages |-> all, used |-> found]]
           told == IF host.scan.kind = "impact" THEN known
                   ELSE [Posted(known, [kind |-> "usage", phase |-> "done", unused |-> host.rows \ found])
                           EXCEPT !.usageVisible = TRUE] IN
       host' = IF host.impact.request # 0 /\ host.impact.live
               THEN Assess(told, host.impact.request, host.impact.packages) ELSE told
  /\ UNCHANGED <<project, view, userConfirmed>>

\* A check that finds the generation changed says so; a found dedupe action is kept as evidence.
CheckEnds(c) ==
  /\ host.checking[c] # NoCheck
  /\ LET job == host.checking[c]
         idle == [host EXCEPT !.checking[c] = NoCheck]
         answer(result, action) == [kind |-> "check", check |-> c, request |-> job.request,
                                    result |-> result, action |-> action] IN
     \/ job.gen # host.gen /\ host' = Posted(idle, answer("stale", FALSE))
     \/ host' = Posted(idle, answer("error", FALSE))
     \/ /\ job.gen = host.gen
        /\ \E found \in IF c = "duplicates" THEN BOOLEAN ELSE {FALSE} :
             host' = [Posted(idle, answer("done", found)) EXCEPT !.deduped = IF found THEN job ELSE @]
  /\ UNCHANGED <<project, view, userConfirmed>>

\* handleAnalyzeBulkRemove once the controller is there: the reservation and the generation.
BeginReview ==
  /\ host.pending.stage = "received"
  /\ host' = IF ~StillCurrent(host, host.pending)
             THEN RemoveError([host EXCEPT !.pending = NoRemoval], "STALE_ANALYSIS")
             ELSE IF host.pending.packages # {} /\ (host.reloadDue \/ ~(host.pending.packages \subseteq host.rows))
             THEN RemoveError([host EXCEPT !.pending = NoRemoval], "NOT_ELIGIBLE")
             ELSE IF host.executing # NoRemoval
             THEN RemoveError([host EXCEPT !.pending = NoRemoval], "UPGRADE_IN_PROGRESS")
             ELSE [host EXCEPT !.pending.stage = "begun", !.pending.gen = host.gen]
  /\ UNCHANGED <<project, view, userConfirmed>>

\* Mutant: the project as it is after the removal of everything is consulted.
RequiredPeerOfAnalyzed(packages) == \E p \in packages : Verdict(p, CleanupPackages, {}) = "blocked"

\* A required peer of a package that stays blocks the selection as a whole.
RequiredPeerBlock(packages) == \E p \in packages : Verdict(p, packages, {}) = "blocked"

StoreReview ==
  /\ host.pending.stage = "begun"
  /\ LET r == host.pending
         done == [host EXCEPT !.pending = NoRemoval]
         stored == [r EXCEPT !.stage = "stored", !.analysis = view.selections, !.disk = project.disk] IN
     host' = IF project.disk # host.loaded THEN RemoveError(done, "STALE_SOURCE")
             ELSE IF RequiredPeerBlock(r.packages) THEN RemoveError(done, "REQUIRED_PEER_DEPENDENCY")
             ELSE IF ~StillCurrent(host, r) THEN RemoveError(done, "STALE_ANALYSIS")
             ELSE IF r.gen # host.gen THEN RemoveError(done, "STALE_SOURCE")
             ELSE Posted([done EXCEPT !.stored = stored],
                       [kind |-> "remove-analysis", analysis |-> stored.analysis,
                        packages |-> r.packages, dedupe |-> r.dedupe])
  /\ UNCHANGED <<project, view, userConfirmed>>

\* executeStoredRemoval rereads the project ...
RecheckRemoval ==
  /\ host.executing.stage = "checking"
  /\ LET stopped == [host EXCEPT !.executing = NoRemoval] IN
     host' = IF project.disk # host.executing.disk THEN RemoveError(stopped, "STALE_SOURCE")
             ELSE IF ~StillCurrent(host, host.executing) THEN RemoveError(stopped, "STALE_ANALYSIS")
             ELSE [host EXCEPT !.executing.stage = "prepared"]
  /\ UNCHANGED <<project, view, userConfirmed>>

\* ... and checks generation and evidence a last time in the step that begins the transaction.
MayBegin(h, r) == r.gen = h.gen /\ StillCurrent(h, r)

BeginRemoval ==
  /\ host.executing.stage = "prepared"
  /\ LET stopped == [host EXCEPT !.executing = NoRemoval] IN
     host' = IF MayBegin(host, host.executing) THEN [host EXCEPT !.executing.stage = "changing"]
             ELSE RemoveError(stopped, IF host.executing.gen # host.gen THEN "STALE_SOURCE" ELSE "STALE_ANALYSIS")
  /\ UNCHANGED <<project, view, userConfirmed>>

\* The transaction keeps or restores the files; either way they were written.
EndRemoval ==
  /\ host.executing.stage = "changing"
  /\ \E outcome \in {"verified", "unverified", "rolled-back", "failed"} :
       /\ project' = [project EXCEPT !.rows = IF outcome \in {"verified", "unverified"} THEN @ \ host.executing.packages ELSE @,
                                     !.disk = IF outcome \in {"verified", "unverified"} THEN @ + 1 ELSE @,
                                     !.unnoticed = @ \cup {"manifest"}]
       /\ host' = [host EXCEPT !.executing = [stage |-> "reloading", outcome |-> outcome] @@ @]
  /\ UNCHANGED <<view, userConfirmed>>

\* reloadAndCaptureFinalState: a reload, a reread, and the generations around it.
FinalReload ==
  /\ host.executing.stage = "reloading"
  /\ host' = [Reloaded(host) EXCEPT !.executing.stage = "rereading", !.executing.gen = host.gen]
  /\ UNCHANGED <<project, view, userConfirmed>>

\* The report is of a stable source, or it is stale or partial.
Report ==
  /\ host.executing.stage = "rereading"
  /\ LET r == host.executing
         ended == [host EXCEPT !.executing = NoRemoval] IN
     \E report \in IF r.gen # host.gen THEN {"stale", "partial"}
                   ELSE IF project.disk # host.loaded THEN {"partial"} ELSE {"verified", "partial"} :
       host' = IF r.outcome = "failed" THEN RemoveError(ended, "REMOVE_TRANSACTION_FAILED")
               ELSE Posted(ended, [kind |-> "remove-result", analysis |-> r.analysis, packages |-> r.packages,
                                 outcome |-> r.outcome, report |-> report])
  /\ UNCHANGED <<project, view, userConfirmed>>

CleanupInit ==
  /\ project = [used |-> {}, rows |-> CleanupPackages, disk |-> 0, unnoticed |-> {}, edits |-> 0]
  /\ host = [gen |-> 0, loaded |-> 0, snapshot |-> 1, rows |-> CleanupPackages, reloadDue |-> FALSE, refreshDue |-> FALSE,
             scan |-> IdleScan, impact |-> NoImpact, visible |-> NoEvidence, usageVisible |-> FALSE,
             known |-> NoKnowledge, checking |-> [c \in Checks |-> NoCheck], deduped |-> NoCheck,
             pending |-> NoRemoval, stored |-> NoRemoval, executing |-> NoRemoval, out |-> <<>>]
  /\ view = [opened |-> FALSE, cleanup |-> FreshCleanup(0), tracked |-> 0, usage |-> "idle", progressing |-> FALSE,
             unused |-> {}, impact |-> NoImpactView, impactAsked |-> 0, checks |-> [c \in Checks |-> "idle"],
             dedupe |-> 0, execution |-> NoExecution, preflight |-> NoPreflight, busy |-> FALSE,
             removing |-> FALSE, fromCleanup |-> FALSE, cache |-> 0,
             shown |-> [id |-> 1, rows |-> CleanupPackages], drilldown |-> NoDrilldown, awaiting |-> {}, active |-> {},
             requests |-> 0, impacts |-> 0, selections |-> 0]
  /\ userConfirmed = [packages |-> {}, dedupe |-> 0, reviewed |-> {}]

UserStep ==
  \/ Reopen \/ Start \/ Close \/ RequestImpact \/ BuildPlan \/ Choose \/ ReviewSelected \/ Back \/ Keep \/ Confirm
  \/ DrillDown \/ AskInDetails \/ CloseDetails

HostStep ==
  \/ \E kind \in {"code", "manifest"} : Notice(kind)
  \/ Reload \/ StartBackgroundScan \/ CleanupScanFails \/ CleanupScanSucceeds \/ (\E c \in Checks : CheckEnds(c))
  \/ BeginReview \/ StoreReview \/ RecheckRemoval \/ BeginRemoval \/ EndRemoval \/ FinalReload \/ Report

\* The last review has its end, nothing is left to confirm.
Over ==
  /\ view.requests = MaxCleanups /\ host.executing = NoRemoval
  /\ view.cleanup.phase \in {"stale", "failed", "empty", "complete", "incomplete", "cancelled-rolled-back"}

CleanupMoves == UserStep \/ Deliver \/ EditCode \/ EditManifest \/ (Len(host.out) <= MaxInFlight /\ HostStep)

CleanupNext == ~Over /\ CleanupMoves

CleanupSpec == CleanupInit /\ [][CleanupNext]_cleanupVars

-----------------------------------------------------------------------------
(* Properties.                                                             *)

Begins == host'.executing.stage = "changing" /\ host.executing.stage # "changing"

\* The files are changed for exactly what the user confirmed.
ChangesWhatWasConfirmed ==
  Begins => host'.executing.packages = userConfirmed.packages /\ host'.executing.dedupe = userConfirmed.dedupe

\* What the code uses is not removed, unless no watcher has told the host of it or the user reviewed
\* the evidence; an optional peer or a package of a convention is removed on review only.
RemovesOnlyUnused ==
  Begins =>
    /\ "code" \in project.unnoticed \/ host'.executing.packages \cap project.used \subseteq userConfirmed.reviewed
    /\ host'.executing.packages \cap (OptionalPeers \cup Convention) \subseteq userConfirmed.reviewed

\* No package that stays loses a peer it requires.
KeepsRequiredPeers ==
  Begins => \A need \in PeerNeeds : need[2] \in host'.executing.packages => need[1] \in host'.executing.packages

\* The review stands on the files that are changed, unless no watcher has told the host of an edit.
ChangesWhatWasRead == Begins => "manifest" \in project.unnoticed \/ host'.executing.disk = project.disk

\* A result card is of what was confirmed, and comes after the rows it speaks of.
ShowsItsOwnResult ==
  view'.cleanup.phase = "complete" /\ view.cleanup.phase # "complete" =>
    /\ view.shown.rows \cap userConfirmed.packages = {}
    /\ view.execution.packages = userConfirmed.packages

\* A review that is opened again, or built, is of the snapshot the dashboard shows.
ReviewsShownSnapshot ==
  view'.opened /\ view'.cleanup.phase \in {"ready", "partial"} /\ (~view.opened \/ view.cleanup.phase = "analyzing") =>
    view'.cleanup.plan.snapshot = view'.shown.id

\* Smart Cleanup changes the files for what the user confirmed, on evidence that is still true, and
\* shows a review or a result only of the rows it is about.
CleanupIsReviewed ==
  [][/\ ChangesWhatWasConfirmed /\ RemovesOnlyUnused /\ KeepsRequiredPeers /\ ChangesWhatWasRead
     /\ ShowsItsOwnResult /\ ReviewsShownSnapshot]_cleanupVars
=============================================================================
