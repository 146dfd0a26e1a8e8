-------------------------- MODULE UsageCoordinator --------------------------
(***************************************************************************)
(* host/usage/usageCoordinator.ts with host/usage/usageAnalysisState.ts:   *)
(* the searches for uses of the selected project's dependencies.  A        *)
(* "usage" request asks for one package, a "cleanup" for all of them, a    *)
(* "removal" for the packages of a removal review; a background pass is a  *)
(* cleanup nobody asked for.  One scan of the workspace runs at a time;    *)
(* usage and removal requests may join that of a background pass.          *)
(* Switching projects invalidates both, and is one invalidation here.      *)
(***************************************************************************)
EXTENDS Integers, FiniteSets

CONSTANTS
  MaxDisturbances, \* bound: invalidations, new sources, expiries and upgrades around the coordinator
  MaxUsageAsks,    \* bound: requests of the user
  MaxPasses        \* bound: requests for a background pass

ASSUME UsageAssumption == {MaxDisturbances, MaxUsageAsks, MaxPasses} \subseteq Nat

VARIABLES
  generation,    \* UsageAnalysisState.generations
  fingerprint,   \* that of the controller's source
  cache,         \* packages with a current result: {}, {"one"} or {"one", "all"}
  usageScan,          \* activeScan
  claim,         \* the active operation of the ForegroundUsageOperationRegistry
  op,            \* the request of each kind, and the background pass
  removalActive, \* activeRemovalImpactRequest
  visible,       \* what the coordinator holds for shown, by kind: a generation, or NotShown
  usageShown,         \* the last message of each kind: "none", "analyzing", "result", "error"
  waiting,       \* pendingBackgroundRequest: "no", "plain", "force"
  servicing,     \* the request runPendingBackgroundRefresh has claimed
  scheduling,    \* schedulingBackgroundRefresh
  lastAnalysis,  \* lastProjectAnalysis: an identity, or NoIdentity
  upgradeBusy,   \* isUpgradeBusy
  usageDisposed, \* the panel is closed
  nAsks, nPasses, nDisturbances

usageVars == <<generation, fingerprint, cache, usageScan, claim, op, removalActive, visible, usageShown,
               waiting, servicing, scheduling, lastAnalysis, upgradeBusy, usageDisposed, nAsks, nPasses,
               nDisturbances>>

Asked == {"usage", "cleanup", "removal"}   \* the requests of the user
Ops == Asked \cup {"background"}
NotShown == -1
NoIdentity == <<-1, -1>>
Identity == <<generation, fingerprint>>
NoUsageScan == [owner |-> "none", identity |-> NoIdentity, cancelled |-> FALSE]
Idle == [phase |-> "idle", identity |-> NoIdentity, joined |-> FALSE, cancelled |-> FALSE, outcome |-> "none"]

UsageInit ==
  /\ generation = 0 /\ fingerprint = 0 /\ cache = {}
  /\ usageScan = NoUsageScan /\ claim = "none" /\ removalActive = FALSE
  /\ op = [o \in Ops |-> Idle]
  /\ visible = [k \in Asked |-> NotShown]
  /\ usageShown = [k \in Asked |-> "none"]
  /\ waiting = "no" /\ servicing = "no" /\ scheduling = FALSE
  /\ lastAnalysis = NoIdentity
  /\ upgradeBusy = FALSE /\ usageDisposed = FALSE
  /\ nAsks = 0 /\ nPasses = 0 /\ nDisturbances = 0

-----------------------------------------------------------------------------
IsBusy == usageScan # NoUsageScan

\* canJoinBackgroundUsageScan
Joinable == usageScan.owner = "background" /\ usageScan.identity = Identity

Post(k, message) == usageShown' = [usageShown EXCEPT ![k] = message]
Ends(o) == op' = [op EXCEPT ![o] = Idle]

\* runPendingBackgroundRefresh up to its await, on the state the caller leaves.
RunPending(w, busy, upgrading, scheduled) ==
  IF w # "no" /\ ~busy /\ ~upgrading /\ ~scheduled
  THEN waiting' = "no" /\ servicing' = w /\ scheduling' = TRUE
  ELSE waiting' = w /\ scheduling' = scheduled /\ UNCHANGED servicing

NoPending == UNCHANGED <<waiting, servicing, scheduling>>

-----------------------------------------------------------------------------
(* Requests of the user *)

\* The message arrives; the handler waits for the controller.  A second removal
\* request is turned away at once, a cleanup while a scan runs too.
Ask(k) ==
  /\ op[k].phase = "idle" /\ nAsks < MaxUsageAsks /\ ~upgradeBusy /\ ~usageDisposed
  /\ nAsks' = nAsks + 1
  /\ IF k = "cleanup" /\ IsBusy
     THEN Post(k, "error") /\ UNCHANGED <<op, removalActive>>
     ELSE /\ op' = [op EXCEPT ![k] = [Idle EXCEPT !.phase = "controller"]]
          /\ removalActive' = IF k = "removal" THEN TRUE ELSE removalActive
          /\ UNCHANGED usageShown
  /\ UNCHANGED <<generation, fingerprint, cache, usageScan, claim, visible, waiting, servicing, scheduling,
                 lastAnalysis, upgradeBusy, usageDisposed, nPasses, nDisturbances>>

\* What a request needs in the cache to be answered from it.
Needed(k) == CASE k = "usage" -> "one" [] k = "removal" -> "all" [] OTHER -> "never"

\* startScan, or joining, with the foreground operation claimed for it.
Analyze(k, joins) ==
  /\ usageScan' = IF joins THEN usageScan ELSE [owner |-> k, identity |-> Identity, cancelled |-> FALSE]
  /\ claim' = k
  /\ op' = [op EXCEPT ![k] = [Idle EXCEPT !.phase = "scan", !.identity = Identity, !.joined = joins]]
  /\ visible' = [visible EXCEPT ![k] = generation]
  /\ Post(k, "analyzing")

\* handleWhereUsed and handleAnalyzeRemovalImpact after the controller is there:
\* unknown packages, the cache, another foreground operation, a scan to join, a
\* scan that cannot be joined, or a scan of its own.
LookUp(k, known, fresh) ==
  /\ k # "cleanup" /\ op[k].phase = "controller"
  /\ LET refuse == /\ Ends(k) /\ Post(k, "error")
                   /\ visible' = [visible EXCEPT ![k] = NotShown]
                   /\ UNCHANGED <<usageScan, claim>> IN
     IF op[k].cancelled \/ usageDisposed
     THEN Ends(k) /\ UNCHANGED <<usageShown, visible, usageScan, claim>>
     ELSE IF ~known THEN refuse
     ELSE IF fresh /\ Needed(k) \in cache
     THEN /\ Ends(k) /\ Post(k, "result")
          /\ visible' = [visible EXCEPT ![k] = generation]
          /\ UNCHANGED <<usageScan, claim>>
     ELSE IF claim # "none" \/ (IsBusy /\ ~Joinable) THEN refuse
     ELSE Analyze(k, IsBusy)
  /\ removalActive' = IF k = "removal" /\ op'[k].phase = "idle" THEN FALSE ELSE removalActive
  /\ UNCHANGED <<generation, fingerprint, cache, waiting, servicing, scheduling, lastAnalysis,
                 upgradeBusy, usageDisposed, nAsks, nPasses, nDisturbances>>

\* handleAnalyzeCleanup of the user after the controller is there.
StartCleanup ==
  /\ op["cleanup"].phase = "controller"
  /\ \/ IsBusy /\ Ends("cleanup") /\ Post("cleanup", "error") /\ UNCHANGED <<usageScan, claim, visible, lastAnalysis>>
     \/ \* a project without dependencies
        /\ ~IsBusy /\ Ends("cleanup") /\ Post("cleanup", "result")
        /\ visible' = [visible EXCEPT !["cleanup"] = generation]
        /\ lastAnalysis' = Identity
        /\ UNCHANGED <<usageScan, claim>>
     \/ ~IsBusy /\ claim = "none" /\ Analyze("cleanup", FALSE) /\ UNCHANGED lastAnalysis
     \/ \* the claim is held by a request whose scan has just settled: the scan is given up
        /\ ~IsBusy /\ claim # "none" /\ Ends("cleanup") /\ Post("cleanup", "error")
        /\ usageScan' = [owner |-> "nobody", identity |-> Identity, cancelled |-> TRUE]
        /\ visible' = [visible EXCEPT !["cleanup"] = generation]
        /\ UNCHANGED <<claim, lastAnalysis>>
  /\ UNCHANGED <<generation, fingerprint, cache, removalActive, waiting, servicing, scheduling,
                 upgradeBusy, usageDisposed, nAsks, nPasses, nDisturbances>>

\* Mutant: a request that has joined a scan cancels it.
HandleCancelOfScan ==
  /\ claim # "none" /\ ~op[claim].cancelled
  /\ op' = [op EXCEPT ![claim].cancelled = TRUE]
  /\ usageScan' = IF IsBusy THEN [usageScan EXCEPT !.cancelled = TRUE] ELSE usageScan
  /\ UNCHANGED <<generation, fingerprint, cache, claim, removalActive, visible, usageShown, waiting,
                 servicing, scheduling, lastAnalysis, upgradeBusy, usageDisposed, nAsks, nPasses, nDisturbances>>

\* cancel-usage-analysis: a cancelled owner stops its scan, one that joined does not.
HandleCancel ==
  /\ claim # "none" /\ ~op[claim].cancelled
  /\ op' = [op EXCEPT ![claim].cancelled = TRUE]
  /\ usageScan' = IF op[claim].joined \/ usageScan.owner # claim THEN usageScan ELSE [usageScan EXCEPT !.cancelled = TRUE]
  /\ UNCHANGED <<generation, fingerprint, cache, claim, removalActive, visible, usageShown, waiting,
                 servicing, scheduling, lastAnalysis, upgradeBusy, usageDisposed, nAsks, nPasses, nDisturbances>>

\* cancel-removal-impact, which may come before the controller is there.
HandleCancelRemovalImpact ==
  /\ removalActive /\ ~op["removal"].cancelled
  /\ op' = [op EXCEPT !["removal"].cancelled = TRUE]
  /\ visible' = IF claim = "removal" THEN [visible EXCEPT !["removal"] = NotShown] ELSE visible
  /\ usageScan' = IF claim = "removal" /\ usageScan.owner = "removal" THEN [usageScan EXCEPT !.cancelled = TRUE] ELSE usageScan
  /\ UNCHANGED <<generation, fingerprint, cache, claim, removalActive, usageShown, waiting, servicing,
                 scheduling, lastAnalysis, upgradeBusy, usageDisposed, nAsks, nPasses, nDisturbances>>

-----------------------------------------------------------------------------
(* Scans and their answers *)

\* The scan settles: whoever waits for it will be resumed, and a pending background
\* pass may begin.  A cancelled scan returns what it has.
ScanEnds(outcome) ==
  /\ IsBusy
  /\ usageScan' = NoUsageScan
  /\ op' = [o \in Ops |->
       IF op[o].phase = "scan"
       THEN [op[o] EXCEPT !.phase = "answer",
                          !.outcome = IF outcome = "results" /\ usageScan.cancelled THEN "partial" ELSE outcome]
       ELSE op[o]]
  /\ RunPending(waiting, FALSE, upgradeBusy, scheduling)
  /\ UNCHANGED <<generation, fingerprint, cache, claim, removalActive, visible, usageShown, lastAnalysis,
                 upgradeBusy, usageDisposed, nAsks, nPasses, nDisturbances>>

\* isCurrent looks at the generation alone.
Outdated(o) == usageDisposed \/ op[o].identity[1] # generation
Learnt(o) == IF o = "usage" THEN {"one"} ELSE {"one", "all"}

\* A request is resumed.  What was cancelled, disposed or superseded ends without a
\* word; a failure is reported to whoever asked.
Answer(k) ==
  /\ k \in Asked /\ op[k].phase = "answer"
  /\ IF op[k].cancelled \/ Outdated(k) \/ (op[k].outcome = "partial" /\ k # "cleanup")
     THEN UNCHANGED <<cache, visible, usageShown, lastAnalysis>>
     ELSE IF op[k].outcome = "failed"
     THEN /\ Post(k, "error")
          /\ visible' = IF k = "cleanup" THEN visible ELSE [visible EXCEPT ![k] = NotShown]
          /\ UNCHANGED <<cache, lastAnalysis>>
     ELSE /\ cache' = IF op[k].identity = Identity THEN cache \cup Learnt(k) ELSE cache
          /\ visible' = [visible EXCEPT ![k] = op[k].identity[1]]
          /\ Post(k, "result")
          /\ lastAnalysis' = IF k = "cleanup" THEN op[k].identity ELSE lastAnalysis
  /\ Ends(k)
  /\ claim' = IF claim = k THEN "none" ELSE claim
  /\ removalActive' = IF k = "removal" THEN FALSE ELSE removalActive
  /\ UNCHANGED <<generation, fingerprint, usageScan, waiting, servicing, scheduling, upgradeBusy,
                 usageDisposed, nAsks, nPasses, nDisturbances>>

-----------------------------------------------------------------------------
(* The background pass *)

RequestBackgroundUsageRefresh(force) ==
  /\ nPasses < MaxPasses /\ ~usageDisposed
  /\ nPasses' = nPasses + 1
  /\ RunPending(IF force \/ waiting = "force" THEN "force" ELSE "plain", IsBusy, upgradeBusy, scheduling)
  /\ UNCHANGED <<generation, fingerprint, cache, usageScan, claim, op, removalActive, visible, usageShown,
                 lastAnalysis, upgradeBusy, usageDisposed, nAsks, nDisturbances>>

\* The pass is over by an early return: scheduling is undone, and nothing else.
GivesUp(w) == waiting' = w /\ servicing' = "no" /\ scheduling' = FALSE

\* The claimed request after the controller is there: blocked again, put back; not
\* needed; or on to handleAnalyzeCleanup, which waits for the controller once more.
ServicePending ==
  /\ servicing # "no" /\ op["background"].phase = "idle"
  /\ IF usageDisposed \/ IsBusy \/ upgradeBusy
     THEN GivesUp(IF waiting = "no" THEN servicing ELSE waiting) /\ UNCHANGED op
     ELSE IF servicing = "plain" /\ lastAnalysis = Identity
     THEN GivesUp(waiting) /\ UNCHANGED op
     ELSE /\ op' = [op EXCEPT !["background"] = [Idle EXCEPT !.phase = "controller"]]
          /\ NoPending
  /\ UNCHANGED <<generation, fingerprint, cache, usageScan, claim, removalActive, visible, usageShown,
                 lastAnalysis, upgradeBusy, usageDisposed, nAsks, nPasses, nDisturbances>>

\* The rest of runPendingBackgroundRefresh when handleAnalyzeCleanup has returned:
\* scheduling is undone, and a request that came in the meantime has its turn.
PassReturns ==
  IF waiting # "no" /\ ~IsBusy /\ ~upgradeBusy
  THEN waiting' = "no" /\ servicing' = waiting /\ scheduling' = TRUE
  ELSE GivesUp(waiting)

\* handleAnalyzeCleanup of the pass after the controller is there.
BackgroundStarts ==
  /\ op["background"].phase = "controller"
  /\ \/ \* another scan has begun: the pass returns with nothing
        /\ IsBusy
        /\ Ends("background") /\ PassReturns
        /\ UNCHANGED <<usageScan, visible, usageShown, lastAnalysis>>
     \/ \* a project without dependencies
        /\ ~IsBusy
        /\ Ends("background") /\ Post("cleanup", "result")
        /\ visible' = [visible EXCEPT !["cleanup"] = generation]
        /\ lastAnalysis' = Identity
        /\ UNCHANGED usageScan
        /\ PassReturns
     \/ /\ ~IsBusy
        /\ usageScan' = [owner |-> "background", identity |-> Identity, cancelled |-> FALSE]
        /\ op' = [op EXCEPT !["background"] = [Idle EXCEPT !.phase = "scan", !.identity = Identity]]
        /\ NoPending /\ UNCHANGED <<visible, usageShown, lastAnalysis>>
  /\ UNCHANGED <<generation, fingerprint, cache, claim, removalActive, upgradeBusy, usageDisposed,
                 nAsks, nPasses, nDisturbances>>

\* The pass has its scan's answer; a failure is quiet.
BackgroundAnswer ==
  /\ op["background"].phase = "answer"
  /\ IF Outdated("background") \/ op["background"].outcome = "failed"
     THEN UNCHANGED <<cache, visible, usageShown, lastAnalysis>>
     ELSE /\ cache' = IF op["background"].identity = Identity THEN {"one", "all"} ELSE cache
          /\ visible' = [visible EXCEPT !["cleanup"] = op["background"].identity[1]]
          /\ Post("cleanup", "result")
          /\ lastAnalysis' = op["background"].identity
  /\ Ends("background")
  /\ UNCHANGED usageScan /\ PassReturns
  /\ UNCHANGED <<generation, fingerprint, claim, removalActive, upgradeBusy, usageDisposed,
                 nAsks, nPasses, nDisturbances>>

-----------------------------------------------------------------------------
(* What happens around the coordinator *)

Disturbed == nDisturbances < MaxDisturbances /\ nDisturbances' = nDisturbances + 1

\* invalidateProjectSource with supersedeVisibleAnalysis.
Invalidate ==
  /\ ~usageDisposed /\ Disturbed
  /\ generation' = generation + 1
  /\ cache' = {} /\ lastAnalysis' = NoIdentity
  /\ usageScan' = IF IsBusy THEN [usageScan EXCEPT !.cancelled = TRUE] ELSE usageScan
  /\ usageShown' = [k \in Asked |-> IF visible[k] = NotShown THEN usageShown[k]
                              ELSE IF k = "cleanup" THEN "superseded" ELSE "error"]
  /\ visible' = [k \in Asked |-> NotShown]
  /\ UNCHANGED <<fingerprint, claim, op, removalActive, waiting, servicing, scheduling,
                 upgradeBusy, usageDisposed, nAsks, nPasses>>

\* A reload gives the controller a source with another manifest or lockfile, which
\* a watcher need not have announced: entries of the old one no longer match.
FingerprintChanges ==
  /\ Disturbed
  /\ fingerprint' = fingerprint + 1
  /\ cache' = {}
  /\ UNCHANGED <<generation, usageScan, claim, op, removalActive, visible, usageShown, waiting, servicing,
                 scheduling, lastAnalysis, upgradeBusy, usageDisposed, nAsks, nPasses>>

\* The hour is over.
CacheExpires ==
  /\ cache # {} /\ Disturbed
  /\ cache' = {} /\ lastAnalysis' = NoIdentity
  /\ UNCHANGED <<generation, fingerprint, usageScan, claim, op, removalActive, visible, usageShown, waiting,
                 servicing, scheduling, upgradeBusy, usageDisposed, nAsks, nPasses>>

UpgradeBegins ==
  /\ ~upgradeBusy /\ ~usageDisposed /\ Disturbed
  /\ upgradeBusy' = TRUE
  /\ UNCHANGED <<generation, fingerprint, cache, usageScan, claim, op, removalActive, visible, usageShown,
                 waiting, servicing, scheduling, lastAnalysis, usageDisposed, nAsks, nPasses>>

\* The mutation lock is released; the panel's hook runs what was waiting.
UpgradeEnds ==
  /\ upgradeBusy
  /\ upgradeBusy' = FALSE
  /\ RunPending(waiting, IsBusy, FALSE, scheduling)
  /\ UNCHANGED <<generation, fingerprint, cache, usageScan, claim, op, removalActive, visible, usageShown,
                 lastAnalysis, usageDisposed, nAsks, nPasses, nDisturbances>>

DisposeUsage ==
  /\ ~usageDisposed
  /\ usageDisposed' = TRUE
  /\ op' = [o \in Ops |-> IF o = claim \/ (o = "removal" /\ removalActive)
                         THEN [op[o] EXCEPT !.cancelled = TRUE] ELSE op[o]]
  /\ usageScan' = IF IsBusy THEN [usageScan EXCEPT !.cancelled = TRUE] ELSE usageScan
  /\ waiting' = "no"
  /\ UNCHANGED <<generation, fingerprint, cache, claim, removalActive, visible, usageShown, servicing,
                 scheduling, lastAnalysis, upgradeBusy, nAsks, nPasses, nDisturbances>>

LooksUp(k) == \E known, fresh \in BOOLEAN : LookUp(k, known, fresh)

UsageNext ==
  \/ \E k \in Asked : Ask(k) \/ LooksUp(k) \/ Answer(k)
  \/ StartCleanup \/ HandleCancel \/ HandleCancelRemovalImpact
  \/ \E outcome \in {"results", "failed"} : ScanEnds(outcome)
  \/ \E force \in BOOLEAN : RequestBackgroundUsageRefresh(force)
  \/ ServicePending \/ BackgroundStarts \/ BackgroundAnswer
  \/ Invalidate \/ FingerprintChanges \/ CacheExpires
  \/ UpgradeBegins \/ UpgradeEnds \/ DisposeUsage

\* Promises settle: the controller's, the scan's, and those that wait for them.
UsageFairness ==
  /\ \A k \in Asked : WF_usageVars(LooksUp(k)) /\ WF_usageVars(Answer(k))
  /\ WF_usageVars(StartCleanup)
  /\ WF_usageVars(\E outcome \in {"results", "failed"} : ScanEnds(outcome))
  /\ WF_usageVars(ServicePending)
  /\ WF_usageVars(BackgroundStarts) /\ WF_usageVars(BackgroundAnswer)

UsageSpec == UsageInit /\ [][UsageNext]_usageVars

-----------------------------------------------------------------------------
(* Properties *)

\* A result on the screen is one the coordinator remembers as shown and of the
\* current generation: an invalidation, which only takes back what is remembered,
\* leaves no result of the old source behind.
ResultsCanBeTakenBack ==
  \A k \in Asked : usageShown[k] = "result" => visible[k] = generation

\* Only a request that is waiting for a scan holds the one foreground claim, and only
\* a removal request on its way the slot of removal requests: no early return, failure
\* or cancellation leaves either behind to turn every later request away as busy.
ClaimsAreHeld ==
  /\ claim # "none" => op[claim].phase \in {"scan", "answer"}
  /\ removalActive <=> op["removal"].phase # "idle"

\* A background scan is stopped by an invalidation or the end of the panel, never by
\* the cancellation of a request that has joined it.
BackgroundScanSurvives ==
  usageScan.owner = "background" /\ usageScan.cancelled => usageScan.identity[1] # generation \/ usageDisposed

\* A request shown as being analyzed gets its answer, unless it is cancelled.
AnalyzingEnds ==
  \A k \in Asked : (op[k].phase = "scan" /\ ~op[k].cancelled) ~>
                    (usageShown[k] # "analyzing" \/ op[k].cancelled \/ usageDisposed)

\* Requests, passes and invalidations leave one another's results and claims alone.
AnalysesKeepApart == ResultsCanBeTakenBack /\ ClaimsAreHeld /\ BackgroundScanSurvives
=============================================================================
