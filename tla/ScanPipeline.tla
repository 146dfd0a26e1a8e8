----------------------------- MODULE ScanPipeline -----------------------------
(***************************************************************************)
(* One scan: buildPackageRows (core/pipeline.ts).  npm's advisories, with  *)
(* the identifiers GitHub adds to them (core/advisories/                   *)
(* githubIdentifiers.ts), npm audit (core/audit/npmAudit.ts) and the       *)
(* versions of every direct dependency (core/registry/versions.ts) are     *)
(* asked for at once; then come the version lists of flagged packages,     *)
(* those a fix has to be computed from, and the rows.  Any request may     *)
(* fail on its own, and the scan may be aborted at any moment.             *)
(***************************************************************************)
EXTENDS Integers, Sequences, FiniteSets, SequencesExt

CONSTANTS
  Deps,           \* direct dependencies
  Below,          \* [Deps -> the packages a dependency brings in, itself included]
  NpmFindings,    \* advisories npm may know: [package, ghsa], ghsa = NoGhsa for another link
  NoGhsa,
  AuditReports,   \* what npm audit may print: sequences of [name, direct, fix]
  MaxPages,       \* MAX_GITHUB_IDENTIFIER_BATCH_PAGES
  Chains          \* how many addresses batchUrls makes of the package names

ASSUME ScanAssumption == \A d \in Deps : d \in Below[d]

VARIABLES
  scanStage,      \* what buildPackageRows awaits, "rows" or "thrown"
  scanAborted,
  jobs,           \* fetchVersionInfo of each dependency
  packuments,     \* the shared promises of version lists
  listRequests,   \* history: how often each list was asked for
  bulk,           \* the advisory requests: "asking", "enriching", "done"
  reported,          \* what npm answered
  advisoriesError,
  freshCached,    \* GHSAs whose CVE is in the store and younger than a day
  identified,     \* GHSAs whose identifiers are known
  chain, pagesLeft,
  report          \* <<>> while npm audit runs, <<"failed">>, or <<"ok", its entries>>

scanVars == <<scanStage, scanAborted, jobs, packuments, listRequests, bulk, reported, advisoriesError,
              freshCached, identified, chain, pagesLeft, report>>

Packages == UNION {Below[d] : d \in Deps}
GhsasOf(findings) == {f.ghsa : f \in findings} \ {NoGhsa}
ScanOver == scanStage \in {"rows", "thrown"}

ScanInit ==
  /\ scanStage = "versions" /\ scanAborted = FALSE
  /\ jobs = [d \in Deps |-> "latest"]
  /\ packuments = [p \in Packages |-> "none"] /\ listRequests = [p \in Packages |-> 0]
  /\ bulk = "asking" /\ reported = {} /\ advisoriesError = FALSE
  /\ freshCached \in {{}, {CHOOSE g \in GhsasOf(NpmFindings) : TRUE}}
  /\ identified = {} /\ chain = 0 /\ pagesLeft = MaxPages
  /\ report = <<>>

-----------------------------------------------------------------------------
(* Versions.                                                               *)

\* loadPackument: whoever comes first asks; a failed promise is shared as well.
Load(names) ==
  LET new == {p \in names : packuments[p] = "none"}
  IN /\ packuments' = [p \in Packages |-> IF p \in new THEN "pending" ELSE packuments[p]]
     /\ listRequests' = [p \in Packages |-> listRequests[p] + (IF p \in new THEN 1 ELSE 0)]

advisoryVars == <<bulk, reported, advisoriesError, freshCached, identified, chain, pagesLeft>>

\* fetchLatest and needsPackument: the small document answers, or the list is needed.
LatestEnds(d, outcome) ==
  /\ jobs[d] = "latest" /\ ~ScanOver
  /\ jobs' = [jobs EXCEPT ![d] = IF outcome = "list" THEN "packument" ELSE outcome]
  /\ IF outcome = "list" THEN Load({d}) ELSE UNCHANGED <<packuments, listRequests>>
  /\ UNCHANGED <<scanStage, scanAborted, advisoryVars, report>>

\* fetchPackument ends; a version job goes on with it, and asks for the tags when the list was too large.
PackumentEnds(p, outcome) ==
  /\ packuments[p] = "pending" /\ ~ScanOver
  /\ packuments' = [packuments EXCEPT ![p] = outcome]
  /\ jobs' = [d \in Deps |-> IF d = p /\ jobs[d] = "packument"
                             THEN (IF outcome = "too-large" THEN "tags" ELSE outcome) ELSE jobs[d]]
  /\ UNCHANGED <<scanStage, scanAborted, listRequests, advisoryVars, report>>

\* fetchDistTags
TagsEnd(d, outcome) ==
  /\ jobs[d] = "tags" /\ ~ScanOver
  /\ jobs' = [jobs EXCEPT ![d] = outcome]
  /\ UNCHANGED <<scanStage, scanAborted, packuments, listRequests, advisoryVars, report>>

-----------------------------------------------------------------------------
(* Advisories and their identifiers.                                       *)

Missing == GhsasOf(reported) \ freshCached

\* fetchBulkAdvisories answers; cached identifiers are used, the rest is asked from GitHub.
BulkAnswers(findings) ==
  /\ bulk = "asking" /\ ~ScanOver
  /\ reported' = findings
  /\ identified' = GhsasOf(findings) \cap freshCached
  /\ bulk' = IF GhsasOf(findings) \subseteq freshCached THEN "done" ELSE "enriching"
  /\ chain' = 1
  /\ UNCHANGED <<scanStage, scanAborted, jobs, packuments, listRequests, advisoriesError, freshCached, pagesLeft, report>>

BulkFails ==
  /\ bulk = "asking" /\ ~ScanOver
  /\ bulk' = "done" /\ advisoriesError' = TRUE
  /\ UNCHANGED <<scanStage, scanAborted, jobs, packuments, listRequests, reported, freshCached, identified, chain, pagesLeft, report>>

\* fetchBatchIdentifiers: after a page, with or without a next one; the pages are shared by all chains.
NextChain(last) ==
  IF Missing \subseteq identified' \/ pagesLeft' = 0 \/ (last /\ chain = Chains) THEN bulk' = "done" /\ UNCHANGED chain
  ELSE chain' = (IF last THEN chain + 1 ELSE chain) /\ UNCHANGED bulk

\* A page: only identifiers of advisories that npm reported count.
PageArrives(ghsas, last) ==
  /\ bulk = "enriching" /\ ~ScanOver
  /\ identified' = identified \cup (ghsas \cap Missing)
  /\ pagesLeft' = pagesLeft - 1
  /\ NextChain(last)
  /\ UNCHANGED <<scanStage, scanAborted, jobs, packuments, listRequests, reported, advisoriesError, freshCached, report>>

\* A page fails: what earlier pages gave stays; a cancelled one ends the enrichment with an error.
PageFails ==
  /\ bulk = "enriching" /\ ~ScanOver
  /\ pagesLeft' = pagesLeft - 1
  /\ UNCHANGED identified
  /\ NextChain(TRUE)
  /\ UNCHANGED <<scanStage, scanAborted, jobs, packuments, listRequests, reported, advisoriesError, freshCached, report>>
PageCancelled ==
  /\ bulk = "enriching" /\ scanAborted /\ ~ScanOver
  /\ bulk' = "done" /\ advisoriesError' = TRUE /\ reported' = {}
  /\ UNCHANGED <<scanStage, scanAborted, jobs, packuments, listRequests, freshCached, identified, chain, pagesLeft, report>>

-----------------------------------------------------------------------------
(* npm audit.                                                              *)

AuditEnds(entries) ==
  /\ report = <<>> /\ ~ScanOver
  /\ report' = <<"ok", entries>>
  /\ UNCHANGED <<scanStage, scanAborted, jobs, packuments, listRequests, advisoryVars>>
AuditFails ==
  /\ report = <<>> /\ ~ScanOver
  /\ report' = <<"failed">>
  /\ UNCHANGED <<scanStage, scanAborted, jobs, packuments, listRequests, advisoryVars>>

NoAuditFix == [kind |-> "absent", version |-> 0]

\* mapFixAvailableToDirectDependencies, entry by entry; version 0 is none that semver can read.
MapFixes(entries) ==
  LET higher(v, w) == v # 0 /\ (w = 0 \/ v > w)
      step(map, e) ==
        IF e.fix.kind \in {"yes", "no"}
        THEN IF e.direct /\ e.name \in Deps /\ map[e.name].kind # "version" THEN [map EXCEPT ![e.name] = e.fix] ELSE map
        ELSE IF e.fix.name \in Deps /\ (map[e.fix.name].kind = "version" => higher(e.fix.version, map[e.fix.name].version))
             THEN [map EXCEPT ![e.fix.name] = [kind |-> "version", version |-> e.fix.version]] ELSE map
  IN FoldLeft(step, [d \in Deps |-> NoAuditFix], entries)
AuditFixes == IF report # <<>> /\ report[1] = "ok" THEN MapFixes(report[2]) ELSE [d \in Deps |-> NoAuditFix]

-----------------------------------------------------------------------------
(* The stages of buildPackageRows.                                         *)

ListSettled(p) == packuments[p] \notin {"none", "pending"}
FindingsBelow(d) == {f \in reported : f.package \in Below[d]}
FlaggedPackages == {f.package : f \in UNION {FindingsBelow(d) : d \in Deps}}     \* distinctFlaggedPackages
OwnFix(d) == (\E f \in reported : f.package = d) /\ AuditFixes[d].kind \in {"absent", "yes"}
FallbackNodes == {d \in Deps : OwnFix(d)}

\* throwIfAborted, or the next stage.
Advance(stage) == scanStage' = IF scanAborted THEN "thrown" ELSE stage

VersionsSettle ==
  /\ scanStage = "versions" /\ \A d \in Deps : jobs[d] \in {"ok", "failed"}
  /\ Advance("advisories")
  /\ UNCHANGED <<scanAborted, jobs, packuments, listRequests, advisoryVars, report>>

AdvisoriesArrive ==
  /\ scanStage = "advisories" /\ bulk = "done"
  /\ Advance("patched")
  /\ IF scanAborted THEN UNCHANGED <<packuments, listRequests>> ELSE Load(FlaggedPackages)
  /\ UNCHANGED <<scanAborted, jobs, advisoryVars, report>>

PatchedSettle ==
  /\ scanStage = "patched" /\ \A p \in FlaggedPackages : ListSettled(p)
  /\ Advance("audit")
  /\ UNCHANGED <<scanAborted, jobs, packuments, listRequests, advisoryVars, report>>

AuditArrives ==
  /\ scanStage = "audit" /\ report # <<>>
  /\ Advance("fallback")
  /\ IF scanAborted THEN UNCHANGED <<packuments, listRequests>> ELSE Load(FallbackNodes)
  /\ UNCHANGED <<scanAborted, jobs, advisoryVars, report>>

\* Mutant: the rows are built although the scan was aborted while the last lists were loaded.
BuildRowsAnyway ==
  /\ scanStage = "fallback" /\ \A d \in FallbackNodes : ListSettled(d)
  /\ scanStage' = "rows"
  /\ UNCHANGED <<scanAborted, jobs, packuments, listRequests, advisoryVars, report>>

BuildRows ==
  /\ scanStage = "fallback" /\ \A d \in FallbackNodes : ListSettled(d)
  /\ Advance("rows")
  /\ UNCHANGED <<scanAborted, jobs, packuments, listRequests, advisoryVars, report>>

\* The caller's signal.
AbortScan ==
  /\ ~scanAborted /\ ~ScanOver
  /\ scanAborted' = TRUE
  /\ UNCHANGED <<scanStage, jobs, packuments, listRequests, advisoryVars, report>>

ScanNext ==
  \/ \E d \in Deps : \/ \E o \in {"ok", "failed", "list"} : LatestEnds(d, o)
                     \/ \E o \in {"ok", "failed"} : TagsEnd(d, o)
  \/ \E p \in Packages, o \in {"ok", "failed", "too-large"} : PackumentEnds(p, o)
  \/ (\E s \in SUBSET NpmFindings : BulkAnswers(s)) \/ BulkFails
  \/ (\E s \in SUBSET GhsasOf(NpmFindings), last \in BOOLEAN : PageArrives(s, last)) \/ PageFails \/ PageCancelled
  \/ (\E entries \in AuditReports : AuditEnds(entries)) \/ AuditFails
  \/ VersionsSettle \/ AdvisoriesArrive \/ PatchedSettle \/ AuditArrives \/ BuildRows
  \/ AbortScan

ScanSpec == ScanInit /\ [][ScanNext]_scanVars

\* Requests end (HttpRequest, the audit process), and awaited promises are continued.
ScanFairness == WF_scanVars(ScanNext /\ ~AbortScan)

-----------------------------------------------------------------------------
(* The result.                                                             *)

ScannedRow(d) ==
  [updates |-> jobs[d] = "ok", advisories |-> FindingsBelow(d),
   identified |-> {f \in FindingsBelow(d) : f.ghsa \in identified},
   patched |-> {f \in FindingsBelow(d) : packuments[f.package] = "ok"}, fix |-> AuditFixes[d]]
Availability ==
  [updates |-> IF \A d \in Deps : jobs[d] = "ok" THEN "complete" ELSE "partial",
   advisories |-> IF advisoriesError THEN "unavailable" ELSE "complete"]

\* A scan that was aborted gives no rows.  Rows say what they are built from: complete advisories
\* are all that npm reported, whatever GitHub did; unavailable ones are none.
RowsAreHonest ==
  scanStage = "rows" =>
    /\ ~scanAborted
    /\ Availability.advisories = "unavailable" => \A d \in Deps : ScannedRow(d).advisories = {}
    /\ \A d \in Deps : \A f \in ScannedRow(d).identified : f.ghsa # NoGhsa
    /\ identified \subseteq GhsasOf(reported) /\ GhsasOf(reported) \cap freshCached \subseteq identified

\* Each version list is asked for once, whoever needs it, and was asked for when a fix or a first
\* patched version depends on it.
ListsAreShared ==
  /\ \A p \in Packages : listRequests[p] <= 1 /\ (listRequests[p] = 0 <=> packuments[p] = "none")
  /\ scanStage = "rows" => \A p \in FlaggedPackages \cup FallbackNodes : ListSettled(p)

\* A fix that names a version was named by npm audit for that very dependency, and the highest one
\* wins in whatever order audit lists its entries.
FixesAreNamed ==
  /\ \A d \in Deps : AuditFixes[d].kind = "version" =>
       \E i \in 1..Len(report[2]) : report[2][i].fix.kind = "version" /\ report[2][i].fix.name = d /\ report[2][i].fix.version = AuditFixes[d].version
  /\ report # <<>> /\ report[1] = "ok" => MapFixes(Reverse(report[2])) = AuditFixes

\* A scan says what it learned and what it did not.
ScanIsHonest == RowsAreHonest /\ ListsAreShared /\ FixesAreNamed

\* A scan ends.
ScanFinishes == <>ScanOver
=============================================================================
