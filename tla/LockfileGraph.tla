---------------------------- MODULE LockfileGraph ----------------------------
(***************************************************************************)
(* The dependency graph read from a manifest and a lockfile:               *)
(* core/manifest/parse.ts, core/lockfile/parse.ts (npm's formats 1, 2 and  *)
(* 3), core/lockfile/pnpm.ts (pnpm's format 9) and core/lockfile/build.ts, *)
(* which promises one graph domain whatever wrote the lockfile.            *)
(***************************************************************************)
EXTENDS Integers, Sequences, FiniteSets

CONSTANT LockQuestions

\* A manifest, what each format of lockfile says of it, and whether all of them were written for one
\* installation.
VARIABLE lockAsked
LockInit == lockAsked \in LockQuestions

-----------------------------------------------------------------------------
(* The manifest.                                                           *)

\* classifySpecifier: only ranges are looked up in a registry.
ReasonOf(form) ==
  CASE form = "range" -> "none" [] form \in {"workspace", "link"} -> "workspace-link"
    [] form = "http" -> "tarball" [] OTHER -> form

\* readDepBlock: development first, then optional, then production, and only a development entry is replaced.
WinningBlock(blocks) == IF "optional" \in blocks THEN "optional" ELSE IF "prod" \in blocks THEN "prod" ELSE "dev"

\* parseManifest
Declarations(manifest) ==
  LET BlockOf(name) == WinningBlock({x \in DOMAIN manifest : name \in DOMAIN manifest[x]})
  IN {[name |-> n, accepts |-> manifest[BlockOf(n)][n].accepts, dev |-> BlockOf(n) = "dev",
       reason |-> ReasonOf(manifest[BlockOf(n)][n].form)] : n \in UNION {DOMAIN manifest[x] : x \in DOMAIN manifest}}
DeclarationOf(manifest, name) == {d \in Declarations(manifest) : d.name = name}
AnyRange == {}   \* what a node that no manifest entry names is declared with

-----------------------------------------------------------------------------
(* npm: a place is the directory it starts from and the names on the way   *)
(* down through node_modules.                                              *)

Unplaced == <<>>   \* targetNodeId null
NameAt(place) == place[Len(place)]
TopPlace(name) == <<"root", name>>

GraphEdge(from, name, kind, accepts, optional, to) ==
  [from |-> from, name |-> name, kind |-> kind, accepts |-> accepts, optional |-> optional, to |-> to]

\* resolveFrom: the copies that are looked at on the way up, as far as the directory the place starts from.
LookedAt(place, name) == {Append(SubSeq(place, 1, i), name) : i \in 1..Len(place)}

ResolveFrom(places, place, name) ==
  LET found == LookedAt(place, name) \cap places
  IN IF found = {} THEN Unplaced ELSE CHOOSE p \in found : \A q \in found : Len(p) >= Len(q)

\* dependencyEdges of a modern entry: what is optional is not a runtime edge as well.
ModernEdges(places, place, entry) ==
  {GraphEdge(place, n, "runtime", entry.runtime[n], FALSE, ResolveFrom(places, place, n)) :
     n \in DOMAIN entry.runtime \ DOMAIN entry.optional}
  \cup {GraphEdge(place, n, "optional", entry.optional[n], TRUE, ResolveFrom(places, place, n)) : n \in DOMAIN entry.optional}
  \cup {GraphEdge(place, n, "peer", entry.peers[n].accepts, entry.peers[n].optional, ResolveFrom(places, place, n)) :
          n \in DOMAIN entry.peers}

\* edgeNamesV1: the legacy format lists everything a package requires.
LegacyEdges(places, place, entry) ==
  {GraphEdge(place, n, "runtime", entry.requires[n], FALSE, ResolveFrom(places, place, n)) : n \in DOMAIN entry.requires}

\* The nodes that parsePackages or parseV1Dependencies reads; only a copy below the project's own
\* node_modules can be direct.
NpmNodes(manifest, entries) ==
  {LET d == DeclarationOf(manifest, NameAt(p)) IN
   [id |-> p, name |-> NameAt(p), version |-> IF entries[p].link THEN 0 ELSE entries[p].version,
    dev |-> entries[p].dev, direct |-> p = TopPlace(NameAt(p)) /\ d # {},
    accepts |-> IF d = {} THEN AnyRange ELSE (CHOOSE x \in d : TRUE).accepts,
    reason |-> IF entries[p].link THEN "workspace-link"
               ELSE IF p = TopPlace(NameAt(p)) /\ d # {} THEN (CHOOSE x \in d : TRUE).reason ELSE "none"] :
     p \in {q \in DOMAIN entries : Len(q) > 1}}

\* A declared dependency that the lockfile lacks has a row without a version.
RowOf(id, d, reason) ==
  [id |-> id, name |-> d.name, version |-> 0, dev |-> d.dev, direct |-> TRUE, accepts |-> d.accepts, reason |-> reason]
NotInLock(manifest, places) == {d \in Declarations(manifest) : TopPlace(d.name) \notin places}

\* buildGraph
BuildNpmGraph(manifest, format, lock) ==
  LET added == {RowOf(TopPlace(d.name), d, d.reason) : d \in NotInLock(manifest, DOMAIN lock)}
      places == {q \in DOMAIN lock : Len(q) > 1} \cup {n.id : n \in added}
  IN [nodes |-> NpmNodes(manifest, lock) \cup added,
      edges |-> UNION {IF format = "v1" THEN LegacyEdges(places, p, lock[p]) ELSE ModernEdges(places, p, lock[p]) :
                         p \in {q \in DOMAIN lock : Len(q) > 1}}]

-----------------------------------------------------------------------------
(* pnpm: a snapshot is a package's name, its version and the peers it was  *)
(* resolved with; a reference is the rest of such a key.                   *)

ImporterRow(name) == <<"importer", name>>

\* packageIdentity, and the packages that have no snapshot.
SnapshotIds(lock) ==
  DOMAIN lock.snapshots \cup
  {Append(p, {}) : p \in {q \in DOMAIN lock.packages : \A s \in DOMAIN lock.snapshots : SubSeq(s, 1, 2) # q}}

\* resolveReference
Referred(ids, name, reference) ==
  IF <<name>> \o reference \in ids THEN <<name>> \o reference ELSE Unplaced

\* What the lockfile's importer says of a declared range, if it is still declared.
Listed(manifest, lock) ==
  {d \in Declarations(manifest) : d.name \in DOMAIN lock.importer /\ d.reason = "none"}
DirectTargets(manifest, lock) ==
  LET target(d) == Referred(SnapshotIds(lock), d.name, lock.importer[d.name])
  IN [name \in {d.name : d \in {x \in Listed(manifest, lock) : target(x) # Unplaced}} |->
        Referred(SnapshotIds(lock), name, lock.importer[name])]

\* addEdges: the references of a snapshot, which repeat no optional dependency as a runtime one.
SnapshotEdges(ids, id, snapshot) ==
  {GraphEdge(id, n, "runtime", {snapshot.runtime[n][1]}, FALSE, Referred(ids, n, snapshot.runtime[n])) :
     n \in DOMAIN snapshot.runtime \ DOMAIN snapshot.optional}
  \cup {GraphEdge(id, n, "optional", {snapshot.optional[n][1]}, TRUE, Referred(ids, n, snapshot.optional[n])) :
          n \in DOMAIN snapshot.optional}

\* resolvePeerTarget: the project's own dependency where it fits, or else the only copy that fits among
\* those the key names.
PeerTarget(ids, direct, id, name, accepts) ==
  LET candidates == {c \in ids : c[1] = name /\ c[2] \in accepts /\ SubSeq(c, 1, 2) \in id[3] \cup {SubSeq(id, 1, 2)}}
  IN IF name \in DOMAIN direct /\ direct[name][2] \in accepts THEN direct[name]
     ELSE IF Cardinality(candidates) = 1 THEN CHOOSE c \in candidates : TRUE ELSE Unplaced
PeerEdgesOf(ids, direct, id, peers) ==
  {GraphEdge(id, n, "peer", peers[n].accepts, peers[n].optional, PeerTarget(ids, direct, id, n, peers[n].accepts)) :
     n \in DOMAIN peers}

\* Every declaration that leads to no snapshot has a row of its own (emptyDirectNode).
PnpmRows(manifest, lock) ==
  {RowOf(ImporterRow(d.name), d,
         IF d \in Listed(manifest, lock) /\ lock.importer[d.name] = <<"link">> THEN "workspace-link" ELSE d.reason) :
     d \in {x \in Declarations(manifest) : x.name \notin DOMAIN DirectTargets(manifest, lock)}}
PnpmNodes(manifest, lock) ==
  LET direct == DirectTargets(manifest, lock)
  IN {IF \E name \in DOMAIN direct : direct[name] = id
      THEN [RowOf(id, CHOOSE d \in DeclarationOf(manifest, id[1]) : TRUE, "none") EXCEPT !.version = id[2]]
      ELSE [id |-> id, name |-> id[1], version |-> id[2], dev |-> FALSE, direct |-> FALSE, accepts |-> AnyRange,
            reason |-> "none"] : id \in SnapshotIds(lock)}

\* buildPnpmGraph
BuildPnpmGraph(manifest, lock) ==
  LET ids == SnapshotIds(lock)
      direct == DirectTargets(manifest, lock)
      described == {id \in ids : SubSeq(id, 1, 2) \in DOMAIN lock.packages}
  IN [nodes |-> PnpmNodes(manifest, lock) \cup PnpmRows(manifest, lock),
      edges |-> UNION {SnapshotEdges(ids, id, lock.snapshots[id]) : id \in DOMAIN lock.snapshots}
                \cup UNION {PeerEdgesOf(ids, direct, id, lock.packages[SubSeq(id, 1, 2)]) : id \in described}]

-----------------------------------------------------------------------------
(* One domain for both.                                                    *)

\* Without a lockfile each declaration is a row whose versions are unknown.
BuildWithoutLockfile(manifest, format) ==
  [nodes |-> {RowOf(IF format = "none" THEN TopPlace(d.name) ELSE ImporterRow(d.name), d, IF d.reason = "none" THEN "no-lockfile" ELSE d.reason) :
               d \in Declarations(manifest)},
   edges |-> {}]

\* buildDependencyGraph; a lockfile in any other format fails the scan (UnsupportedLockfileError).
Unsupported == [nodes |-> {}, edges |-> {}]
BuildDependencyGraph(manifest, format, lock) ==
  CASE format \in {"none", "pnpm-none"} -> BuildWithoutLockfile(manifest, format)
    [] format \in {"v1", "v2", "v3"} -> BuildNpmGraph(manifest, format, lock)
    [] format = "pnpm" -> BuildPnpmGraph(manifest, lock)
    [] OTHER -> Unsupported

Supported == {"none", "pnpm-none", "v1", "v2", "v3", "pnpm"}

-----------------------------------------------------------------------------
(* What a graph promises, whatever it was read from.  Only packages of a   *)
(* registry and members of the workspace are read alike from npm's and     *)
(* pnpm's lockfiles: what git or a tarball provides has no version in the  *)
(* graph of pnpm's.                                                        *)

GraphRead(format) == BuildDependencyGraph(lockAsked.manifest, format, lockAsked.locks[format])
GraphNode(g, id) == CHOOSE n \in g.nodes : n.id = id

\* Every declared dependency, in whichever blocks the manifest names it and however far the lockfile has
\* drifted from it, is one direct row with the range that npm itself would use; nothing else is direct,
\* and a row without a reason is of a range that can be looked up.
DeclaredOnce(g) ==
  /\ \A b \in DOMAIN lockAsked.manifest : \A name \in DOMAIN lockAsked.manifest[b] :
       \E n \in g.nodes : n.direct /\ n.name = name /\ \A m \in g.nodes : m.direct /\ m.name = name => m = n
  /\ \A n \in {m \in g.nodes : m.direct} :
       \E b \in DOMAIN lockAsked.manifest :
         /\ n.name \in DOMAIN lockAsked.manifest[b] /\ n.accepts = lockAsked.manifest[b][n.name].accepts
         /\ \A x \in DOMAIN lockAsked.manifest \ {b} :
              n.name \in DOMAIN lockAsked.manifest[x] => x = "dev" \/ b = "optional"
         /\ n.reason = "none" => lockAsked.manifest[b][n.name].form = "range"

\* An edge leads to a copy of the package it names, and no package depends on another both always and
\* only when it can be installed.
EdgesLead(g) ==
  \A e \in g.edges :
    /\ \E n \in g.nodes : n.id = e.from
    /\ e.to # Unplaced => \E n \in g.nodes : n.id = e.to /\ n.name = e.name
    /\ e.kind = "optional" => \A f \in g.edges : f.from = e.from /\ f.name = e.name => f.kind # "runtime"

\* Where pnpm's lockfile settles a peer, the copy it leads to is one the peer's range admits.
PeersAdmitted(g) == \A e \in g.edges : e.kind = "peer" /\ e.to # Unplaced => GraphNode(g, e.to).version \in e.accepts

\* What the graph says of the packages themselves, whatever they are called in it.
Copy(n) == <<n.name, n.version, n.reason>>
\* What a package finds when it is loaded, without what it only expects of the one who installs it.
Found(g) ==
  {<<Copy(GraphNode(g, e.from)), Copy(GraphNode(g, e.to))>> :
     e \in {x \in g.edges : x.to # Unplaced /\ x.kind # "peer"
                            /\ \A f \in g.edges : f.from = x.from /\ f.name = x.name => f.kind # "peer"}}
Told(g) == [copies |-> {Copy(n) : n \in g.nodes}, rows |-> {<<Copy(n), n.accepts>> : n \in {m \in g.nodes : m.direct}},
            found |-> Found(g)]

\* The lockfiles that npm and pnpm write for one installation are read as one graph: the same copies, the
\* same rows and the same package behind every dependency.
OneDomain == lockAsked.same => \A f, h \in DOMAIN lockAsked.locks : Told(GraphRead(f)) = Told(GraphRead(h))

\* What the lockfiles are read as can be relied on.
LockfilesAreRead ==
  /\ \A f \in DOMAIN lockAsked.locks \cap Supported :
       DeclaredOnce(GraphRead(f)) /\ EdgesLead(GraphRead(f)) /\ (f = "pnpm" => PeersAdmitted(GraphRead(f)))
  /\ OneDomain
=============================================================================
