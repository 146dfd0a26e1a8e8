--------------------------- MODULE RemediationPlan ---------------------------
(***************************************************************************)
(* Whether a lockfile change fixes a transitive vulnerability:             *)
(* createTransitiveRemediationPlan (core/advisories/                       *)
(* transitiveRemediationPlan.ts) compares the graph of the active lockfile *)
(* with the one a targeted update produced, the host presents the outcome  *)
(* (transitiveRemediationPresentation.ts), the webview accepts or drops    *)
(* that message (webviewProtocol.ts), and after the install the comparison *)
(* is made again with the advisories of that moment.                       *)
(*                                                                         *)
(* A graph says which copies are installed: "top" and "nested" are copies  *)
(* of one package, and a dependent uses the copy nearest to it.  An        *)
(* advisory is a package, the versions it flags, a severity, the names it  *)
(* is known by, and whether its range can be read.                         *)
(***************************************************************************)
EXTENDS Integers, Sequences, FiniteSets, FiniteSetsExt

CONSTANT FixProblems     \* what is asked, see FixInit

\* An advisory is known by some name, and of one of the five severities.
IsAdvisory(a) == a.aliases \in SUBSET Nat /\ a.aliases # {} /\ a.severity \in 0..4 /\ a.readable \in BOOLEAN
ASSUME FixAssumption == \A x \in FixProblems : \A a \in x.known \cup x.now \cup x.later : IsAdvisory(a)

VARIABLE fix
FixInit == fix \in FixProblems

Copies == {"root", "other", "top", "nested", "deep"}
DirectCopies == {"root", "other"}
NoCopy == 0              \* the version of a copy that is not installed
PackageOf(copy) == IF copy \in {"top", "nested"} THEN "shared" ELSE copy

-----------------------------------------------------------------------------
(* Graphs: who installs whom, and along which chains.                      *)

InstalledIn(graph) == {c \in Copies : graph.version[c] # NoCopy}

\* forwardEdgeTargets: what a copy makes the package manager install; a peer edge does not.
Installs(graph, copy) ==
  LET nearest == IF copy = "root" /\ "nested" \in InstalledIn(graph) THEN "nested" ELSE "top"
  IN InstalledIn(graph) \cap
       CASE copy = "root" -> IF graph.shortcut THEN {nearest, "deep"} ELSE {nearest}
         [] copy = "other" -> IF graph.peerOnly THEN {} ELSE {"top"}
         [] copy \in {"top", "nested"} -> {"deep"}
         [] OTHER -> {}

\* buildInstallPathIndex: the copies at each shortest distance from a direct dependency.
AtDistance(graph) ==
  LET directs == DirectCopies \cap InstalledIn(graph)
      below == (UNION {Installs(graph, c) : c \in directs}) \ directs
      deepest == (UNION {Installs(graph, c) : c \in below}) \ (directs \cup below)
  IN [n \in 0..2 |-> IF n = 0 THEN directs ELSE IF n = 1 THEN below ELSE deepest]
Reachable(graph) == UNION {AtDistance(graph)[n] : n \in 0..2}

\* pathsToNodes: every shortest chain of names that ends at the copy.
ChainsTo(graph, copy) ==
  LET at == AtDistance(graph)
      Further(chains, n) ==
        [c \in at[n] |-> UNION {{Append(s, PackageOf(c)) : s \in chains[parent]} :
                                  parent \in {q \in at[n-1] : c \in Installs(graph, q)}}]
      shortest == [c \in at[0] |-> {<<PackageOf(c)>>}]
  IN IF copy \in at[0] THEN shortest[copy]
     ELSE IF copy \in at[1] THEN Further(shortest, 1)[copy]
     ELSE IF copy \in at[2] THEN Further(Further(shortest, 1), 2)[copy] ELSE {}

-----------------------------------------------------------------------------
(* Advisories of a graph.                                                  *)

Flags(a, graph, copy) == a.package = PackageOf(copy) /\ a.readable /\ graph.version[copy] \in a.vulnerable

\* attributeFromRoot: what the subtree of a direct dependency is flagged for.
Subtree(graph, copy) ==
  LET children == Installs(graph, copy)
  IN {copy} \cup children \cup UNION {Installs(graph, c) : c \in children}
Attributed(graph, advisories, copy) ==
  {a \in advisories : \E c \in Subtree(graph, copy) \cap InstalledIn(graph) : Flags(a, graph, c)}

\* advisoriesByNameFromRows: all that the last scan attributed to some direct dependency.
Scanned(problem) ==
  UNION {Attributed(problem.before, problem.known, c) : c \in DirectCopies \cap InstalledIn(problem.before)}

\* resolveRemediationRequest: the advisories of the root's row that are not its own.
Targets(problem) ==
  {a \in Attributed(problem.before, problem.known, "root") : a.package # "root"}

\* fetchBulkAdvisories of a whole graph: installed copies count whether or not anything reaches them.
Fetched(graph, advisories) ==
  {a \in advisories :
     \E c \in InstalledIn(graph) : a.package = PackageOf(c) /\ (~a.readable \/ graph.version[c] \in a.vulnerable)}

\* collectOccurrences
Occurrences(graph, advisories) ==
  {o \in advisories \X Reachable(graph) : Flags(o[1], graph, o[2])}
UnreadableRange(graph, advisories) ==
  \E a \in advisories, c \in Reachable(graph) : ~a.readable /\ a.package = PackageOf(c)

\* AliasSets and groupOccurrences: records that share a name, directly or through others, are one finding.
ShareAName(a, b) == a.package = b.package /\ a.aliases \cap b.aliases # {}
SameFinding(a, records) ==
  {b \in records :
     \A S \in SUBSET records : a \in S /\ (\A c \in S, d \in records : ShareAName(c, d) => d \in S) => b \in S}
FindingsOf(records) == {SameFinding(a, records) : a \in records}
AliasesOf(group) == UNION {a.aliases : a \in group}

-----------------------------------------------------------------------------
(* The plan.                                                               *)

\* highestSeverity, over the records of one state that flag something.
HighestSeverity(group, occurrences) ==
  LET severities == {o[1].severity : o \in {p \in occurrences : p[1] \in group}}
  IN IF severities = {} THEN 0 ELSE Max(severities)
CopiesOf(group, occurrences) == {o[2] : o \in {p \in occurrences : p[1] \in group}}

\* compareDirectDependencies
DirectsChanged(before, after) == {c \in DirectCopies : before.version[c] # after.version[c]}
\* comparePackageInstances
Changed(before, after) == {c \in Copies : before.version[c] # after.version[c]}

Blocking == {"ROOT_NOT_DIRECT_DEPENDENCY", "DIRECT_DEPENDENCY_CHANGED", "INVALID_ADVISORY_RANGE",
             "TARGET_ADVISORY_NOT_FOUND", "NEW_ADVISORY_INTRODUCED", "ADVISORY_WORSENED"}

\* The findings that went, came, stayed, and stayed but got worse.
Compared(groups, was, is) ==
  LET kept == {g \in groups : CopiesOf(g, was) # {} /\ CopiesOf(g, is) # {}}
  IN [gone |-> {g \in groups : CopiesOf(g, is) = {}}, new |-> {g \in groups : CopiesOf(g, was) = {}}, kept |-> kept,
      worse |-> {g \in kept : \/ HighestSeverity(g, is) > HighestSeverity(g, was)
                              \/ Cardinality(CopiesOf(g, is)) > Cardinality(CopiesOf(g, was))}]

\* targetMatches
Targeted(compared, requested) ==
  {g \in compared.gone \cup compared.kept : \E t \in requested : t \cap g # {}}

PlanFacts(problem, unreadable, compared, targeted, requested) ==
  {r \in Blocking :
     CASE r = "ROOT_NOT_DIRECT_DEPENDENCY" -> "root" \notin InstalledIn(problem.before) \cap InstalledIn(problem.after)
       [] r = "DIRECT_DEPENDENCY_CHANGED" -> DirectsChanged(problem.before, problem.after) # {}
       [] r = "INVALID_ADVISORY_RANGE" -> unreadable
       [] r = "TARGET_ADVISORY_NOT_FOUND" -> ~unreadable /\ Cardinality(targeted) # Cardinality(requested)
       [] r = "NEW_ADVISORY_INTRODUCED" -> compared.new # {}
       [] r = "ADVISORY_WORSENED" -> compared.worse # {}}

\* The classification of a change.
Classified(compared, targeted, facts) ==
  IF facts # {} THEN "unsafe"
  ELSE IF targeted \cap compared.gone = {} THEN "no-fix"
  ELSE IF targeted \cap compared.kept # {} THEN "partial" ELSE "full"

Planned(compared, targeted, facts, outcome) ==
  [outcome |-> outcome,
   reasons |-> facts \cup (CASE outcome = "no-fix" -> {"NO_TARGET_ADVISORY_RESOLVED"}
                             [] outcome = "partial" -> {"TARGET_ADVISORIES_REMAIN"}
                             [] OTHER -> {}),
   resolved |-> targeted \cap compared.gone, remaining |-> targeted \cap compared.kept, introduced |-> compared.new]

\* createTransitiveRemediationPlan, from the occurrences in the two states and the distinctTargets; the
\* host passes complete evidence and an unchanged manifest.
PlanFrom(problem, unreadable, was, is, requested) ==
  LET Judged(compared, targeted, facts) == Planned(compared, targeted, facts, Classified(compared, targeted, facts))
      Matched(compared, targeted) == Judged(compared, targeted, PlanFacts(problem, unreadable, compared, targeted, requested))
      Grouped(compared) == Matched(compared, Targeted(compared, requested))
  IN Grouped(Compared(IF unreadable THEN {} ELSE FindingsOf({o[1] : o \in was \cup is}), was, is))
RemediationPlan(problem, evidence) ==
  PlanFrom(problem, UnreadableRange(problem.after, evidence), Occurrences(problem.before, Scanned(problem)),
           Occurrences(problem.after, evidence), FindingsOf(Targets(problem)))

AutomaticApplyAllowed(plan) == plan.outcome \in {"full", "partial"}

-----------------------------------------------------------------------------
(* The plan as the webview sees it.                                        *)

\* changesFor: per package, which versions go and which come.
PresentedChanges(problem) ==
  LET changed == Changed(problem.before, problem.after)
      of(name) == {c \in changed : PackageOf(c) = name}
      versions(graph, name) == {graph.version[c] : c \in of(name)} \ {NoCopy}
  IN {[package |-> name, from |-> versions(problem.before, name), to |-> versions(problem.after, name),
       targeted |-> \E a \in Targets(problem) : a.package = name] : name \in {PackageOf(c) : c \in changed}}

\* advisorySummary: a finding and the chains that lead to it, before and after.
AdvisorySummary(problem, group) ==
  [finding |-> group,
   paths |-> UNION {ChainsTo(graph, c) : graph \in {problem.before, problem.after},
                      c \in {x \in Reachable(problem.before) \cup Reachable(problem.after) :
                               \E a \in group : a.package = PackageOf(x)}}]

\* buildTransitiveRemediationPresentation
Presentation(problem, plan) ==
  [outcome |-> plan.outcome, changes |-> PresentedChanges(problem),
   directRootUnchanged |-> DirectsChanged(problem.before, problem.after) = {},
   lockfileChanged |-> Changed(problem.before, problem.after) # {},
   resolved |-> {AdvisorySummary(problem, g) : g \in plan.resolved},
   remaining |-> {AdvisorySummary(problem, g) : g \in plan.remaining},
   introduced |-> {AdvisorySummary(problem, g) : g \in plan.introduced}]

\* isTransitiveRemediationPlanSummary
PlanAccepted(shown) ==
  /\ \A s \in shown.resolved \cup shown.remaining \cup shown.introduced : s.paths # {}
  /\ \A c \in shown.changes : c.from \cup c.to # {}
  /\ shown.outcome \in {"full", "partial"} =>
       /\ \E c \in shown.changes : c.targeted /\ c.to # {}
       /\ shown.resolved # {} /\ shown.introduced = {}
       /\ shown.directRootUnchanged /\ shown.lockfileChanged
       /\ (shown.outcome = "full") = (shown.remaining = {})

-----------------------------------------------------------------------------
(* The check after the install.                                            *)

\* The verifier of executeStoredRemediation: the same graphs, the advisories of now.  A finding is
\* recognised by its preferred name.
PreferredIdentity(group) == Min(AliasesOf(group))
SecurityVerified(stored, final) ==
  /\ AutomaticApplyAllowed(final)
  /\ {PreferredIdentity(g) : g \in stored.resolved} \subseteq {PreferredIdentity(g) : g \in final.resolved}

-----------------------------------------------------------------------------
(* What is promised.                                                       *)

\* Nothing that is still reachable and flagged goes by a name of the target.
FreeOf(problem, evidence, target) ==
  \A o \in Occurrences(problem.after, evidence) :
    o[1].package = target.package => o[1].aliases \cap target.aliases = {}

\* A plan that may be applied leaves the direct dependencies alone, rids the tree of a target (of
\* all of them, when it says so) and flags no copy for anything that was not flagged before.
PlanIsSafe(problem, evidence, plan, was, is) ==
  /\ AutomaticApplyAllowed(plan) =>
       /\ \A c \in DirectCopies : problem.before.version[c] = problem.after.version[c]
       /\ \E t \in Targets(problem) : FreeOf(problem, evidence, t)
       /\ \A o \in is : \E p \in was : /\ p[1].package = o[1].package /\ p[1] \in SameFinding(o[1], {x[1] : x \in was \cup is})
                                       /\ \E q \in was : q[1].package = o[1].package /\ q[1].severity >= o[1].severity
  /\ plan.outcome = "full" => \A t \in Targets(problem) : FreeOf(problem, evidence, t)

\* The webview drops a plan that may be applied only when it installs no other copy of a targeted
\* package: such a package is only deduplicated, or the advisory was withdrawn.
PlanIsShown(problem, plan) ==
  \/ PlanAccepted(Presentation(problem, plan))
  \/ /\ AutomaticApplyAllowed(plan)
     /\ \A c \in PresentedChanges(problem) : c.targeted => c.to = {}

\* An install that is verified with the advisories of then keeps what the reviewed plan promised,
\* unless two packages are flagged under one name: the names are compared without their package.
PromiseIsKept(problem, later, stored, final) ==
  /\ AutomaticApplyAllowed(stored) /\ SecurityVerified(stored, final)
  /\ \A a, b \in problem.known \cup problem.now \cup problem.later : a.aliases \cap b.aliases # {} => a.package = b.package
  => \A g \in stored.resolved : \A t \in g \cap Targets(problem) : FreeOf(problem, later, t)

\* What the host offers and reports as a fix is one.
FixIsSafe(problem, evidence, later, plan, final) ==
  /\ PlanIsSafe(problem, evidence, plan, Occurrences(problem.before, Scanned(problem)),
                 Occurrences(problem.after, evidence))
  /\ PlanIsShown(problem, plan)
  /\ PromiseIsKept(problem, later, plan, final)
FixedWith(problem, evidence, later) ==
  FixIsSafe(problem, evidence, later, RemediationPlan(problem, evidence), RemediationPlan(problem, later))
FixesAreSafe == FixedWith(fix, Fetched(fix.after, fix.now), Fetched(fix.after, fix.later))
=============================================================================
