---------------------------- MODULE MCComponents ----------------------------
(***************************************************************************)
(* The components of the extension host that run on their own, each on a   *)
(* small instance: every behaviour is one of one component, the others     *)
(* stand still in an initial state.                                        *)
(***************************************************************************)
EXTENDS DashboardController, UpgradeFiles, WriteBackCache, UpgradeSession, PackageManagerProcess,
        WorkPool, SnapshotFreshness, EtagBounds, UsageCoordinator, UpgradeReview, SmartCleanup,
        FixReview, ScanPipeline, HttpRequest, BulkRemoval, DashboardTable

VARIABLE running   \* the component that runs
Parts ==
  {"controller", "files", "cache", "session", "process", "pool", "freshness", "etags", "usage", "review",
   "cleanup", "fixreview", "scan", "http", "bulk", "table"}

MCEtagEntries ==
  [key : {"k1"}, size : {2}, github : {FALSE}, secret : {FALSE, TRUE}]
  \cup [key : {"k2"}, size : {1, 4, 7}, github : {FALSE}, secret : {FALSE}]
  \cup [key : {"g1", "g2"}, size : {2}, github : {TRUE}, secret : {FALSE}]

MCPeerNeeds == {<<"a", "b">>}

\* npm audit proposes, for the direct dependency a and the package t below it.
Entry(name, direct, fix_) == [name |-> name, direct |-> direct, fix |-> fix_]
Bool(kind) == [kind |-> kind, name |-> "", version |-> 0]
Bump(name, to) == [kind |-> "version", name |-> name, version |-> to]
MCAuditReports ==
  {<<>>, <<Entry("a", TRUE, Bool("yes")), Entry("t", FALSE, Bump("t", 2))>>,
   <<Entry("a", TRUE, Bump("a", 3)), Entry("t", FALSE, Bump("a", 2)), Entry("a", TRUE, Bool("no"))>>}
StillReports == {<<>>}
MCBelow == [d \in {"a"} |-> {"a", "t"}]
MCNpmFindings == {[package |-> "a", ghsa |-> "g1"], [package |-> "t", ghsa |-> "g2"]}

\* Rows 1 and 2 in one batch, 2 in another, 3 only in its own workspace.
MCMatches == {{1, 2, 3}, {2}}
MCLaterRows == {{1, 3}}
MCImpacts == [r \in {1, 2, 3} |-> IF r = 1 THEN {"low-risk", "review"} ELSE IF r = 2 THEN {"review", "blocked"} ELSE {"low-risk"}]

\* Four dependencies: one that is behind by a major version and exposed through two packages, one of
\* which is installed twice, one that is behind within its range, one whose version is not installed,
\* and one whose versions cannot be read.  Terms: 1 and 2 are in packages' names, 3 and 4 in advisories.
Flaw(id, package, version, severity, words) ==
  [id |-> id, package |-> package, version |-> version, severity |-> severity, words |-> words]
TableRow(name, current, inRange, latest, dev, severity, deprecated, words, advisories) ==
  [name |-> name, current |-> current, wanted |-> inRange, latest |-> latest, dev |-> dev, severity |-> severity,
   deprecated |-> deprecated, words |-> words, advisories |-> advisories]
Exposed == TableRow(1, 123, 124, 210, FALSE, 4, FALSE, {1},
                    {Flaw(1, "t", 1, 3, {3}), Flaw(1, "t", 2, 3, {3}), Flaw(2, "u", 1, 4, {4})})
Behind == TableRow(2, 110, 124, 124, TRUE, 3, TRUE, {2}, {Flaw(1, "t", 1, 3, {3})})
NotInstalled == TableRow(3, 0, 124, 124, FALSE, -1, FALSE, {1, 2}, {})
NotReadable == TableRow(4, 1, 0, 123, TRUE, -1, TRUE, {}, {})
ScanOf(rows, duplicates, unavailable, noAdvisories, noAudit) ==
  [rows |-> rows, duplicates |-> duplicates, unavailable |-> unavailable,
   advisoriesError |-> noAdvisories, auditUnavailable |-> noAudit]
Twice == [kind |-> "duplicate-version", package |-> 9, roots |-> {1, 4}]
StillTable == ScanOf({}, {}, {}, FALSE, FALSE)
MCTables ==
  {StillTable, ScanOf({Exposed, Behind, NotInstalled, NotReadable}, {Twice}, {}, FALSE, FALSE),
   ScanOf({[Behind EXCEPT !.severity = -1, !.advisories = {}], NotInstalled}, {}, {3}, TRUE, FALSE),
   ScanOf({}, {}, {}, FALSE, TRUE)}
MCSearches == {{}, {1}, {3}, {1, 4}, {3, 4}}
MCUnused == {{2, 4}}
StillTables == {StillTable}

\* The initial state a component stands still in.
Still(p, standing) == running # p => standing

\* A batch that was cancelled before its first item, where PoolFairness asks for nothing.
PoolAtRest ==
  /\ sequential = TRUE /\ poolAborted = TRUE /\ next = 1 /\ completed = 0 /\ dispatched = {}
  /\ holds = [d \in Drains |-> NoItem]
  /\ results = [i \in Items |-> "none"] /\ nSettled = [i \in Items |-> 0]

\* A scan and a request whose caller aborted them before they began.
ScanAtRest ==
  /\ scanStage = "thrown" /\ scanAborted = TRUE /\ jobs = [d \in Deps |-> "latest"]
  /\ packuments = [p \in Packages |-> "none"] /\ listRequests = [p \in Packages |-> 0]
  /\ bulk = "asking" /\ reported = {} /\ advisoriesError = FALSE /\ freshCached = {}
  /\ identified = {} /\ chain = 0 /\ pagesLeft = 0 /\ report = <<>>
HttpAtRest ==
  /\ hop = 0 /\ wire = "closed" /\ reading = FALSE /\ compressed = FALSE /\ chunks = 0 /\ tooLarge = FALSE
  /\ listening = FALSE /\ callerAborted = TRUE /\ settledFor = {"CANCELLED"} /\ reply = "CANCELLED"

MCInit ==
  /\ running \in Parts
  /\ ControllerInit /\ Still("controller", source = OnDisk(CHOOSE q \in Projects : TRUE))
  /\ FilesInit
  /\ Still("files", file = Gone /\ expected = Gone /\ wanted = Gone /\ fileMode = CHOOSE m \in Modes : TRUE)
  /\ CacheInit /\ Still("cache", batching)
  /\ SessionInit
  /\ Still("session", workspaceTrusted /\ \A c \in Calls : callKind[c] = "run")
  /\ ProcessInit /\ Still("process", deadline /\ deaf /\ signal)
  /\ IF running = "pool" THEN PoolInit ELSE PoolAtRest
  /\ FreshnessInit /\ Still("freshness", ttl = 0 /\ age = 0)
  /\ EtagInit /\ Still("etags", storedEntries = <<>>)
  /\ UsageInit
  /\ ReviewInit
  /\ CleanupInit
  /\ FixReviewInit
  /\ IF running = "scan" THEN ScanInit ELSE ScanAtRest
  /\ IF running = "http" THEN HttpInit ELSE HttpAtRest
  /\ BulkInit
  /\ TableInit /\ Still("table", table.result = StillTable)

Others(p) ==
  /\ UNCHANGED running
  /\ p # "controller" => UNCHANGED controllerVars
  /\ p # "files" => UNCHANGED filesVars
  /\ p # "cache" => UNCHANGED cacheVars
  /\ p # "session" => UNCHANGED sessionVars
  /\ p # "process" => UNCHANGED processVars
  /\ p # "pool" => UNCHANGED poolVars
  /\ p # "freshness" => UNCHANGED freshnessVars
  /\ p # "etags" => UNCHANGED etagVars
  /\ p # "usage" => UNCHANGED usageVars
  /\ p # "review" => UNCHANGED reviewVars
  /\ p # "cleanup" => UNCHANGED cleanupVars
  /\ p # "fixreview" => UNCHANGED fixVars
  /\ p # "scan" => UNCHANGED scanVars
  /\ p # "http" => UNCHANGED httpVars
  /\ p # "bulk" => UNCHANGED bulkVars
  /\ p # "table" => UNCHANGED tableVars

Runs(p, step_) == running = p /\ step_ /\ Others(p)

MCNext ==
  \/ Runs("controller", ControllerNext)
  \/ Runs("files", FilesNext)
  \/ Runs("cache", CacheNext)
  \/ Runs("session", SessionNext)
  \/ Runs("process", ProcessNext)
  \/ Runs("pool", PoolNext)
  \/ Runs("freshness", FreshnessNext)
  \/ Runs("etags", EtagNext)
  \/ Runs("usage", UsageNext)
  \/ Runs("review", ReviewNext)
  \/ Runs("cleanup", CleanupNext)
  \/ Runs("fixreview", FixReviewNext)
  \/ Runs("scan", ScanNext)
  \/ Runs("http", HttpNext)
  \/ Runs("bulk", BulkNext)
  \/ Runs("table", TableNext)

MCVars == <<controllerVars, filesVars, cacheVars, sessionVars, processVars, poolVars, freshnessVars,
            etagVars, usageVars, reviewVars, cleanupVars, fixVars, scanVars, httpVars, bulkVars,
            tableVars, running>>

\* Each component's own fairness: nothing of a component that stands still is enabled.
MCSpec ==
  /\ MCInit /\ [][MCNext]_MCVars
  /\ ControllerFairness /\ CacheFairness /\ SessionFairness /\ ProcessFairness
  /\ PoolFairness /\ UsageFairness /\ ReviewFairness /\ FixReviewFairness
  /\ ScanFairness /\ HttpFairness /\ BulkFairness

\* Each of the next is asked of the states of the component that it is about: it says nothing of one
\* that stands still.

\* A store of validators keeps within its budgets, and what it keeps are its newest that fit.
StoresStayBounded == running = "etags" => StoreStaysBounded

\* What is carried out of the review of a fix, or of a bulk removal, is what was reviewed.
ReviewedIsCarriedOut == (running = "fixreview" => FixReviewsAgree) /\ (running = "bulk" => ReviewedRemovals)

\* A scan says what it knows, and so does the table that shows it; its requests settle once.
ScansAreHonest ==
  /\ running = "scan" => ScanIsHonest
  /\ running = "table" => TableIsHonest
  /\ running = "http" => RequestsAreSettledOnce

\* Whatever waits, in any of the components, is answered.
EverythingEnds ==
  /\ LoadingEnds /\ WritesReachStore /\ CallsSettle /\ StoppedRunEnds
  /\ (running = "pool" => PoolResolves) /\ AnalyzingEnds /\ ReviewSettles
  /\ FixesSettle /\ ScanFinishes /\ RequestAnswered /\ ImpactEnds
=============================================================================
