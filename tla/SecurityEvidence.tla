--------------------------- MODULE SecurityEvidence ---------------------------
(***************************************************************************)
(* What is said about the vulnerabilities of the packages that an upgrade  *)
(* changes: their fate (core/advisories/securityOutcome.ts), the chains    *)
(* and direct dependencies that bring them in and whether the upgrade is   *)
(* proved to remove them (vulnerabilityContext.ts), the same facts as the  *)
(* dashboard shows them from its rows (host/vulnerabilityUiState.ts), the  *)
(* comparison of two whole graphs (host/proposedGraphSecurityImpact.ts)    *)
(* and the links to the advisories (core/advisories/resolve.ts).           *)
(*                                                                         *)
(* Graphs and advisories are those of RemediationPlan.                     *)
(***************************************************************************)
EXTENDS RemediationPlan

CONSTANTS SecurityQuestions,   \* what is asked, see SecurityInit
          MaxPaths             \* MAX_VULNERABILITY_PATHS

\* What is upgraded is a direct dependency, before and after.
IsSecurityQuestion(q) ==
  /\ \A a \in q.known : IsAdvisory(a)
  /\ DOMAIN q.targets \subseteq DirectCopies \cap InstalledIn(q.before) \cap InstalledIn(q.after)
ASSUME SecurityAssumption == MaxPaths \in Nat \ {0} /\ \A q \in SecurityQuestions : IsSecurityQuestion(q)

\* before, after: the graphs; evidence: whether the resolver materialised "after"; known: the
\* advisories of the last scan; targets: the version each upgraded direct dependency gets.
VARIABLE asked
SecurityInit == asked \in SecurityQuestions

Upgraded(q) == DOMAIN q.targets
Directs(graph) == DirectCopies \cap InstalledIn(graph)

-----------------------------------------------------------------------------
(* Rows of the last scan.                                                  *)

\* attributeFromRoot: an advisory and the copy it flags below a direct dependency.
Entries(graph, advisories, root) ==
  {e \in advisories \X (Subtree(graph, root) \cap InstalledIn(graph)) : Flags(e[1], graph, e[2])}

\* The first, shortest chain of names that attribution records.
ChainTo(graph, root, copy) ==
  IF copy = root THEN <<root>>
  ELSE IF copy \in Installs(graph, root) THEN <<root, PackageOf(copy)>>
  ELSE LET between == CHOOSE c \in Installs(graph, root) : copy \in Installs(graph, c)
       IN <<root, PackageOf(between), PackageOf(copy)>>

\* advisoriesByNameFromRows
KnownFromRows(q) == {e[1] : e \in UNION {Entries(q.before, q.known, c) : c \in Directs(q.before)}}

-----------------------------------------------------------------------------
(* The outcome of an upgrade.                                              *)

Left(advisory, status, chain) == [advisory |-> advisory, status |-> status, chain |-> chain]

\* evaluateSecurityOutcome for one row: what is left of its advisories.
Remaining(q, root) ==
  LET was == Entries(q.before, q.known, root)
      is == Entries(q.after, KnownFromRows(q), root)
  IN IF q.evidence THEN {Left(e[1], "remains", ChainTo(q.after, root, e[2])) : e \in {x \in is : \E y \in was : y[1] = x[1]}}
     ELSE {Left(e[1], "unknown", ChainTo(q.before, root, e[2])) : e \in {x \in was : x[2] # root}}
          \cup {Left(e[1], "remains", <<root>>) : e \in {x \in was : x[2] = root /\ q.targets[root] \in x[1].vulnerable}}

\* combineSecurityOutcomes: rows without advisories do not count.
SecurityOutcome(q) ==
  LET flagged == {c \in Upgraded(q) : Entries(q.before, q.known, c) # {}}
      left == {r.status : r \in UNION {Remaining(q, c) : c \in flagged}}
  IN IF flagged = {} THEN "none"
     ELSE IF "remains" \in left THEN "remains" ELSE IF "unknown" \in left THEN "unknown" ELSE "resolved"

-----------------------------------------------------------------------------
(* Contexts: a finding, the chains to it and its direct dependencies.      *)

\* A finding is an advisory and the version of its package that it flags.
FindingsIn(q, roots) ==
  {<<e[1], q.before.version[e[2]]>> : e \in UNION {Entries(q.before, q.known, c) : c \in roots}}
IsFinding(finding, graph, copy) ==
  PackageOf(copy) = finding[1].package /\ graph.version[copy] = finding[2]

\* findPaths, from one root: every simple chain of copies that ends at the finding.
Longer(graph, paths) ==
  UNION {{Append(p, c) : c \in {d \in Installs(graph, p[Len(p)]) : \A i \in 1..Len(p) : p[i] # d}} : p \in paths}
PathsFrom(graph, root, finding) ==
  LET second == Longer(graph, {<<root>>})
  IN {p \in {<<root>>} \cup second \cup Longer(graph, second) : IsFinding(finding, graph, p[Len(p)])}

\* findPaths: the roots in the order of their names, until there are MaxPaths chains.
RootOrder == <<"other", "root">>
PathsUpTo(graph, finding) ==
  LET of(i) == IF RootOrder[i] \in Directs(graph) THEN PathsFrom(graph, RootOrder[i], finding) ELSE {}
      first == of(1)
  IN IF Cardinality(first) >= MaxPaths THEN first ELSE first \cup of(2)
\* The search was cut, as far as it can tell: it does not look whether there was anything to find.
Truncated(graph, finding) ==
  "other" \in Directs(graph) /\ Cardinality(PathsFrom(graph, "other", finding)) >= MaxPaths
ContextRoots(graph, finding) == {p[1] : p \in PathsUpTo(graph, finding)}

\* Mutant: only the row that was asked about is attributed again.
ProvenForRow(q, finding) ==
  LET changes == {c \in Upgraded(q) \cap ContextRoots(q.before, finding) :
                    /\ c \in Directs(q.after) /\ q.after.version[c] = q.targets[c]
                    /\ q.before.version[c] # q.targets[c]}
  IN IF ~q.evidence \/ ~finding[1].readable \/ Entries(q.after, {finding[1]}, "root") # {} THEN {} ELSE changes

\* proveResolution: the direct dependencies whose change is said to remove the finding.
Proven(q, finding) ==
  LET changes == {c \in Upgraded(q) \cap ContextRoots(q.before, finding) :
                    /\ c \in Directs(q.after) /\ q.after.version[c] = q.targets[c]
                    /\ q.before.version[c] # q.targets[c]}
  IN IF ~q.evidence \/ ~finding[1].readable \/ (\E c \in Directs(q.after) : Entries(q.after, {finding[1]}, c) # {})
     THEN {} ELSE changes

\* buildVulnerabilityContexts: a finding no chain leads to is left out.
Explained(q) == {f \in FindingsIn(q, Upgraded(q)) : PathsUpTo(q.before, f) # {}}

\* buildManageVulnerabilityContexts: the rows that carry the same finding.
ManageRoots(q, finding) == {c \in Directs(q.before) : finding \in FindingsIn(q, {c})}

-----------------------------------------------------------------------------
(* compareProposedGraphSecurityImpact, with one set of advisories for both. *)

\* collectOccurrences, groupedOccurrences
Before(q) == Occurrences(q.before, q.known)
After(q) == Occurrences(q.after, q.known)
ImpactGroups(q) == FindingsOf({o[1] : o \in Before(q) \cup After(q)})

GraphImpact(q) ==
  LET fixed == {g \in ImpactGroups(q) : CopiesOf(g, After(q)) = {}}
      introduced == {g \in ImpactGroups(q) : CopiesOf(g, Before(q)) = {}}
  IN [complete |-> ~UnreadableRange(q.before, q.known) /\ ~UnreadableRange(q.after, q.known),
      fixed |-> fixed, introduced |-> introduced, remaining |-> ImpactGroups(q) \ (fixed \cup introduced)]

-----------------------------------------------------------------------------
(* Links: the webview names an advisory, the host looks it up in its rows. *)

AdvisoryLink(package, advisory, chain) == [package |-> package, advisory |-> advisory, chain |-> chain]
RowLinks(q, root) == {AdvisoryLink(root, e[1], ChainTo(q.before, root, e[2])) : e \in Entries(q.before, q.known, root)}

\* AdvisoryDetails and VulnerabilitiesPanel: a row's own chains.
DashboardLinks(q) == UNION {RowLinks(q, c) : c \in Directs(q.before)}
\* SecurityCard: the first of the shortest chains of a context, in the row it starts from.
ContextLinks(q) ==
  UNION {LET paths == PathsUpTo(q.before, f)
         IN {AdvisoryLink(p[1], f[1], [i \in 1..Len(p) |-> PackageOf(p[i])]) :
               p \in {x \in paths : \A y \in paths : Len(x) <= Len(y)}} : f \in Explained(q)}
\* SecurityCard: what remains, along the chain of the proposed graph, in the row under review.
RemainingLinks(q, reviewed) ==
  {AdvisoryLink(reviewed, r.advisory, r.chain) : r \in UNION {Remaining(q, c) : c \in Upgraded(q)}}

\* findAttributedAdvisory and resolveTrustedAdvisoryUrl.
Opens(q, link) == link \in DashboardLinks(q)
-----------------------------------------------------------------------------
(* What is promised.                                                       *)

\* An upgrade that is said to resolve the advisories of its rows leaves none of them below any of
\* them, when what is installed has the versions that were asked for; with a resolved graph at
\* hand nothing stays undetermined.
OutcomeIsTrue(q) ==
  /\ q.evidence => SecurityOutcome(q) # "unknown"
  /\ SecurityOutcome(q) = "resolved" /\ (\A c \in Upgraded(q) : q.after.version[c] = q.targets[c])
     => \A c \in Upgraded(q) : \A e \in Entries(q.before, q.known, c) :
          \A x \in Entries(q.after, KnownFromRows(q), c) : x[1] # e[1]

\* A proof names direct dependencies the upgrade does change, and whatever else happens nothing
\* that is installed is flagged by the advisory any more; the outcome of no row says otherwise.
ProofsHold(q) ==
  \A f \in Explained(q) : Proven(q, f) # {} =>
    /\ \A c \in Proven(q, f) : c \in ManageRoots(q, f) /\ q.after.version[c] # q.before.version[c]
    /\ \A c \in Reachable(q.after) : ~Flags(f[1], q.after, c)
    /\ \A c \in Upgraded(q) : \A r \in Remaining(q, c) : r.advisory # f[1]

\* Every finding of an upgraded row is explained, and by the direct dependencies that the
\* dashboard names, unless the search says that it was cut.
FindingsAreExplained(q) ==
  \A f \in FindingsIn(q, Upgraded(q)) :
    /\ f \in Explained(q)
    /\ ContextRoots(q.before, f) \subseteq ManageRoots(q, f)
    /\ ~Truncated(q.before, f) => ContextRoots(q.before, f) = ManageRoots(q, f)

\* A finding is fixed when nothing that is reached goes by any of its names, and new when nothing did.
ImpactIsTrue(q) ==
  LET impact == GraphImpact(q)
      names(graph, group) ==
        \E o \in Occurrences(graph, q.known) : \E a \in group : o[1].package = a.package /\ o[1].aliases \cap AliasesOf(group) # {}
  IN impact.complete =>
       /\ \A g \in impact.fixed : names(q.before, g) /\ ~names(q.after, g)
       /\ \A g \in impact.introduced : ~names(q.before, g) /\ names(q.after, g)
       /\ \A g \in impact.remaining : names(q.before, g) /\ names(q.after, g)

\* A link opens; what remains can only be opened in the row under review, along a chain that the
\* row already had.
LinksOpen(q) ==
  /\ \A link \in ContextLinks(q) : Opens(q, link)
  /\ \A reviewed \in Upgraded(q) : \A link \in RemainingLinks(q, reviewed) :
       \/ Opens(q, link)
       \/ \A known \in RowLinks(q, reviewed) : known.chain # link.chain

\* What an upgrade review says of vulnerabilities is what the graphs and the advisories say.
SecurityIsTrue ==
  /\ OutcomeIsTrue(asked) /\ ProofsHold(asked) /\ FindingsAreExplained(asked)
  /\ ImpactIsTrue(asked) /\ LinksOpen(asked)
=============================================================================
