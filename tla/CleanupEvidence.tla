--------------------------- MODULE CleanupEvidence ---------------------------
(***************************************************************************)
(* What a cleanup rests on, read from the resolved graph: why a package is *)
(* installed (core/graph/paths.ts, core/hygiene/whyInstalled.ts), whether  *)
(* direct dependencies can be removed together (core/upgrade/              *)
(* removalAssessment.ts, peerRequirement.ts, removeImpact.ts), and whether *)
(* a simulated deduplication may be offered and later carried out          *)
(* (core/cleanup/consolidation.ts, consolidationEvidence.ts,               *)
(* host/smartCleanupDuplicateCoordinator.ts).                              *)
(***************************************************************************)
EXTENDS Integers, Sequences, FiniteSets, SequencesExt

CONSTANTS CleanupQuestions, MaxInstallPaths   \* DEFAULT_MAX_PATHS

\* A graph: nodes [id, name, version, direct, accepts] (version 0 is not resolved; accepts is what a
\* direct declaration admits) and edges [from, name, to, kind, accepts, optional, readable].
VARIABLE evidenceAsked
EvidenceInit == evidenceAsked \in CleanupQuestions

Nowhere == "nowhere"
NodeOf(g, id) == CHOOSE n \in g.nodes : n.id = id
Named(g, name) == {n \in g.nodes : n.name = name}
DirectNodes(g) == {n \in g.nodes : n.direct}
VersionsOf(g, name) == {n.version : n \in Named(g, name)} \ {0}
ResolvedNames(g) == {n.name : n \in {m \in g.nodes : m.version # 0}}

\* forwardEdgeTargets
Children(g, id) == {e.to : e \in {x \in g.edges : x.from = id /\ x.kind # "peer" /\ x.to # Nowhere}}

-----------------------------------------------------------------------------
(* Why a package is installed.                                             *)

\* buildInstallPathIndex: the nodes at each distance from the nearest direct dependency.
Layers(g) ==
  LET layer[i \in 0..Cardinality(g.nodes)] ==
        IF i = 0 THEN {n.id : n \in DirectNodes(g)}
        ELSE (UNION {Children(g, id) : id \in layer[i-1]}) \ UNION {layer[j] : j \in 0..i-1}
  IN layer
DistanceOf(layers, id) == CHOOSE i \in DOMAIN layers : id \in layers[i]
Indexed(layers) == UNION {layers[i] : i \in DOMAIN layers}

\* pathsToNodes: the names along every shortest chain from a direct dependency, shortest first.
NameRank(g) == [name \in {n.name : n \in g.nodes} |-> CHOOSE i \in 1..Cardinality(g.nodes) : SetToSeq({n.name : n \in g.nodes})[i] = name]
ChainsOf(g, targets) ==
  LET layers == Layers(g)
      chains[i \in DOMAIN layers] ==
        [id \in layers[i] |->
           IF i = 0 THEN {<<NodeOf(g, id).name>>}
           ELSE {Append(c, NodeOf(g, id).name) :
                   c \in UNION {chains[i-1][p] : p \in {q \in layers[i-1] : id \in Children(g, q)}}}]
  IN UNION {chains[DistanceOf(layers, t)][t] : t \in targets \cap Indexed(layers)}
PathsToNodes(g, targets) ==
  LET rank == NameRank(g)
      before(c, d) == Len(c) < Len(d) \/ (Len(c) = Len(d) /\ \E i \in 1..Len(c) :
                        rank[c[i]] < rank[d[i]] /\ \A j \in 1..i-1 : c[j] = d[j])
      sorted == SetToSortSeq(ChainsOf(g, targets), before)
  IN SubSeq(sorted, 1, IF Len(sorted) < MaxInstallPaths THEN Len(sorted) ELSE MaxInstallPaths)

\* whyInstalled: the chains to each version, without the direct declaration's own node.
WhyInstalled(g, name) ==
  [v \in VersionsOf(g, name) |->
     PathsToNodes(g, {n.id : n \in {m \in Named(g, name) : m.version = v /\ ~m.direct}})]

\* detectDuplicateVersionFindings
DuplicateFindings(g) == {name \in ResolvedNames(g) : Cardinality(DOMAIN WhyInstalled(g, name)) > 1}

-----------------------------------------------------------------------------
(* Removing direct dependencies together.                                  *)

\* stillRequiredBy
StillRequiredBy(g, package, removing) ==
  {r \in {c[1] : c \in {d \in UNION {Range(WhyInstalled(g, package)[v]) : v \in VersionsOf(g, package)} : Len(d) > 1}} :
     r # package /\ r \notin removing}

\* Mutant: a removed package answers for its other copies as well.
PeersOfOthers(g, package, removing) ==
  {e \in g.edges : /\ e.kind = "peer" /\ e.name = package
                   /\ \E n \in DirectNodes(g) : n.id = e.to /\ n.name = package
                   /\ NodeOf(g, e.from).name \notin removing \cup {package}}

\* buildPeerRequirementIndex and peerRequirementsFor: peer edges to the direct node.
PeerRequirements(g, package, removing) ==
  {e \in g.edges : /\ e.kind = "peer" /\ e.name = package
                   /\ \E n \in DirectNodes(g) : n.id = e.to /\ n.name = package
                   /\ NodeOf(g, e.from).name # package
                   /\ ~(NodeOf(g, e.from).direct /\ NodeOf(g, e.from).name \in removing)}

\* assessRemoval, with what the workspace scan said of the package.
AssessRemoval(g, package, removing, usage) ==
  LET peers == PeerRequirements(g, package, removing)
  IN IF \E e \in peers : ~e.optional THEN "blocked"
     ELSE IF usage.scan = "none" THEN "unknown"
     ELSE IF usage.referenced \/ peers # {} THEN "review"
     ELSE IF usage.scan = "truncated" \/ usage.convention THEN "unknown"
     ELSE "low-risk"

-----------------------------------------------------------------------------
(* Deduplication.                                                          *)

\* collectDuplicateConstraintEvidence: what the project and every edge ask of the copies of a package.
Constraints(g, name) ==
  {[to |-> n.id, accepts |-> n.accepts, readable |-> TRUE] : n \in {m \in Named(g, name) : m.direct /\ m.version # 0}}
  \cup {[to |-> e.to, accepts |-> e.accepts, readable |-> e.readable] :
          e \in {x \in g.edges : x.name = name /\ \E n \in Named(g, name) : n.id = x.to /\ n.version # 0}}
ConstraintsComplete(g, name) ==
  /\ VersionsOf(g, name) # {} /\ ~g.legacy
  /\ \A e \in g.edges : e.name = name => e.to # Nowhere
  /\ \A n \in Named(g, name) : n.version # 0 => \E c \in Constraints(g, name) : c.to = n.id

AllConstraintsAdmit(g, name, version) == \A c \in Constraints(g, name) : version \in c.accepts

\* assessDuplicateConsolidation; the host's simulations change no direct parent.
Evident(g, name) ==
  /\ ConstraintsComplete(g, name) /\ Constraints(g, name) # {} /\ \A c \in Constraints(g, name) : c.readable
AssessDuplicate(before, after, name) ==
  IF Cardinality(VersionsOf(before, name)) < 2 \/ ~Evident(before, name) \/ ~Evident(after, name) THEN "unknown"
  ELSE IF Cardinality(VersionsOf(after, name)) = 1
       THEN IF \A v \in VersionsOf(after, name) : AllConstraintsAdmit(after, name, v) THEN "safe-convergence" ELSE "unknown"
  ELSE IF \E v \in VersionsOf(after, name) : AllConstraintsAdmit(after, name, v) THEN "unknown"
  ELSE "keep-both"

DirectVersions(g) == {<<n.name, n.version>> : n \in DirectNodes(g)}
ChangedSets(before, after) ==
  {name \in ResolvedNames(before) \cup ResolvedNames(after) : VersionsOf(before, name) # VersionsOf(after, name)}
TargetOf(g, name) == CHOOSE v \in VersionsOf(g, name) : TRUE
RemovedBy(before, names) ==
  FoldSet(LAMBDA name, sum : sum + Cardinality(VersionsOf(before, name)) - 1, 0, names)

\* analyze: the action that is offered when nothing else would change.
NoDedupe == [ok |-> FALSE]
Offer(before, after, names) ==
  [ok |-> TRUE, targets |-> [name \in names |-> TargetOf(after, name)], removed |-> RemovedBy(before, names)]
AnalyzeDuplicates(before, after) ==
  LET safe == {name \in ResolvedNames(before) : Cardinality(VersionsOf(before, name)) > 1
                                                /\ AssessDuplicate(before, after, name) = "safe-convergence"}
  IN IF DirectVersions(before) = DirectVersions(after) /\ ChangedSets(before, after) \subseteq safe /\ safe # {}
     THEN Offer(before, after, safe) ELSE NoDedupe

\* verifySelection, on the graphs of the manifest that is about to be written.
VerifySelection(before, after) ==
  LET safe == {name \in ResolvedNames(before) :
                 /\ Cardinality(VersionsOf(before, name)) > 1 /\ Cardinality(VersionsOf(after, name)) = 1
                 /\ AssessDuplicate(before, after, name) = "safe-convergence"}
  IN IF DirectVersions(before) # DirectVersions(after) \/ ~(ChangedSets(before, after) \subseteq safe) \/ safe = {}
     THEN NoDedupe ELSE Offer(before, after, safe)

-----------------------------------------------------------------------------
(* What the answers mean.                                                  *)

\* What is installed for some direct dependencies.
InstalledFor(g, roots) ==
  LET reach[i \in 0..Cardinality(g.nodes)] ==
        IF i = 0 THEN {n.id : n \in {m \in DirectNodes(g) : m.name \in roots}}
        ELSE reach[i-1] \cup UNION {Children(g, id) : id \in reach[i-1]}
  IN reach[Cardinality(g.nodes)]
DirectNames(g) == {n.name : n \in DirectNodes(g)}

\* A removal that is not blocked leaves nobody without a required peer, except a dependency that is
\* removed with it and stays installed for another; it is only called low-risk after a complete scan.
\* Removing fewer packages never unblocks one.
RemovalsAreJudged(q) ==
  \A p \in q.removing :
    LET g == q.graph
        verdict == AssessRemoval(g, p, q.removing, q.usage)
        stays == InstalledFor(g, DirectNames(g) \ q.removing)
    IN /\ verdict # "blocked" =>
            \A e \in g.edges :
              e.kind = "peer" /\ ~e.optional /\ e.name = p /\ NodeOf(g, e.from).name # p /\ e.from \in stays
                /\ (\E n \in DirectNodes(g) : n.id = e.to)
              => NodeOf(g, e.from).direct /\ NodeOf(g, e.from).name \in q.removing
       /\ verdict = "low-risk" => q.usage.scan = "complete" /\ ~q.usage.referenced /\ ~q.usage.convention
       /\ \A fewer \in SUBSET q.removing :
            p \in fewer /\ verdict = "blocked" => AssessRemoval(g, p, fewer, q.usage) = "blocked"

\* Whoever is named as still requiring a package really installs a copy of it and is kept.
ReasonsAreReal(q) ==
  \A p \in q.removing : \A r \in StillRequiredBy(q.graph, p, q.removing) :
    /\ r \in DirectNames(q.graph) \ q.removing
    /\ \E n \in Named(q.graph, p) : ~n.direct /\ n.id \in InstalledFor(q.graph, {r})

\* A deduplication that is offered leaves every package that changes with one version, which everyone
\* who asks for the package admits, drops no package, and is verified when the selection is unchanged.
DedupesAreVerified(q) ==
  LET offer == AnalyzeDuplicates(q.graph, q.after)
  IN /\ offer = VerifySelection(q.graph, q.after)
     /\ offer.ok =>
          /\ DirectVersions(q.graph) = DirectVersions(q.after)
          /\ \A name \in ResolvedNames(q.graph) \cup ResolvedNames(q.after) :
               IF name \in DOMAIN offer.targets
               THEN /\ VersionsOf(q.after, name) = {offer.targets[name]} /\ name \in DuplicateFindings(q.graph)
                    /\ \A e \in q.after.edges : e.name = name => e.to # Nowhere /\ offer.targets[name] \in e.accepts
               ELSE VersionsOf(q.after, name) = VersionsOf(q.graph, name)
          /\ offer.removed = Cardinality({n \in {<<m.name, m.version>> : m \in q.graph.nodes} : n[2] # 0})
                             - Cardinality({n \in {<<m.name, m.version>> : m \in q.after.nodes} : n[2] # 0})

\* Removals and deduplications rest on what the graph says.
EvidenceIsSound ==
  IF evidenceAsked.about = "removal" THEN RemovalsAreJudged(evidenceAsked) /\ ReasonsAreReal(evidenceAsked)
  ELSE DedupesAreVerified(evidenceAsked)
=============================================================================
