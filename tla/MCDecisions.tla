----------------------------- MODULE MCDecisions -----------------------------
(***************************************************************************)
(* The questions that the decisions of the core library are asked in       *)
(* MCUpgrade: small worlds, chosen so that every answer of each function   *)
(* is given.                                                               *)
(***************************************************************************)
EXTENDS SmartPlan, UpgradeChoice, RemediationPlan, SecurityEvidence, CleanupEvidence, LockfileGraph

-----------------------------------------------------------------------------
(* SmartPlan: up to three peer declarations, and what the registries and   *)
(* the package manager are like.                                           *)

Rule(owner, version, peer, accepts) ==
  [owner |-> owner, version |-> version, peer |-> peer, accepts |-> accepts, optional |-> FALSE]
Rules == {Rule(1, 2, 2, {2}), Rule(2, 2, 3, {2, 3}), Rule(3, 1, 1, {1}), Rule(4, 1, 1, {1, 2}), Rule(1, 2, 5, {1}),
          Rule(2, 3, 1, {}), Rule(3, 2, 2, {1}), Rule(3, 3, 2, {2, 3}), Rule(2, 3, 3, {3}), Rule(4, 1, 2, {1})}

Supply(all, complete, answers) == [versions |-> all, complete |-> complete, answers |-> answers]
Supplies(second, third) == 1 :> Supply({1, 2, 3}, TRUE, TRUE) @@ 2 :> second @@ 3 :> third
All == Supply({1, 2, 3}, TRUE, TRUE)

Profile(policy, partial, unserved, supplies, verifier, allowed) ==
  [policy |-> policy, partial |-> partial, unserved |-> unserved, supplies |-> supplies,
   verifier |-> verifier, allowed |-> allowed]
Profiles ==
  {Profile("default", FALSE, {}, Supplies(All, All), FALSE, {1, 2, 3}),
   Profile("strict", FALSE, {}, Supplies(All, Supply({3}, TRUE, TRUE)), TRUE, {1, 2, 3}),
   Profile("strict", FALSE, {}, Supplies(All, All), FALSE, {1, 2}),
   Profile("default", FALSE, {3}, Supplies(All, All), FALSE, {1, 2, 3}),
   Profile("legacy", TRUE, {}, Supplies(All, All), FALSE, {1, 2, 3}),
   Profile("default", FALSE, {}, Supplies(Supply({0, 2}, FALSE, TRUE), All), FALSE, {1, 2, 3}),
   Profile("default", FALSE, {}, Supplies(All, Supply({}, FALSE, FALSE)), FALSE, {1, 2, 3})}

Problem(rules, profile) == [peers |-> rules, start |-> 1 :> 2] @@ profile
MCPlanProblems == {Problem(rules, profile) : rules \in {r \in SUBSET Rules : Cardinality(r) <= 3}, profile \in Profiles}

\* What a search that is never made would be about.
StillProblem == Problem({}, Profile("default", FALSE, {}, Supplies(All, All), FALSE, {1, 2, 3}))

-----------------------------------------------------------------------------
(* UpgradeChoice: eight versions, two of them prereleases.                 *)

Fact(published, range, named, latest, installed, advisories, advised, loads, answers) ==
  [about |-> "row", published |-> published, range |-> range, named |-> named, latest |-> latest,
   installed |-> installed, advisories |-> advisories, fix |-> advised[1], fixVersion |-> advised[2], loads |-> loads, answers |-> answers,
   lts |-> 0, fallback |-> 0]

Advisory(vulnerable, depth) == [vulnerable |-> vulnerable, depth |-> depth]
RowFacts ==
  {Fact(p, r, n, l, i, a, f, loads, answers) :
     p \in {1..6, {2, 3, 5}}, r \in {1..4, {2, 3}}, n \in {{}, {3}}, l \in {0, 2, 5}, i \in 0..3,
     a \in {{}, {Advisory({1, 2}, 1)}, {Advisory(1..4, 2)}, {Advisory({2, 3, 4}, 1), Advisory({}, 2)}},
     f \in {<<"nothing", 0>>, <<"no", 0>>, <<"version", 1>>, <<"version", 4>>}, loads \in BOOLEAN, answers \in BOOLEAN}

\* The tags name published versions, and a row's own target is newer than what is installed.
MenuFacts ==
  {f \in {[Fact(p, {2}, {}, l, i, {}, <<"nothing", 0>>, TRUE, TRUE) EXCEPT !.about = "menu", !.lts = lts, !.fallback = to]
            @@ [tooLarge |-> big] :
            p \in {q \in SUBSET (1..8) : Cardinality(q) >= 7}, l \in {0, 6}, lts \in {0, 4}, to \in {0, 2, 7},
            i \in {0, 1, 3}, big \in BOOLEAN} :
     /\ {f.lts, f.latest, f.fallback} \ {0} \subseteq f.published
     /\ f.fallback # 0 => f.installed # 0 /\ f.fallback > f.installed}

Manifests == {m \in [Blocks -> {{0}, {1}, {1, 2}}] : Declared(m)}
LocksOf(depth) ==
  {[format |-> format, depth |-> depth, entries |-> e, versions |-> v, flag |-> "prod",
    importer |-> [x \in Blocks |-> IF x = listed THEN {2} ELSE {0}]] :
     format \in {"v1", "v3", "other"}, e \in [0..depth -> {"none", "link", "version"}],
     v \in [0..depth -> {1, 2}], listed \in {"prod", "dev"}}
Locks == LocksOf(0) \cup LocksOf(1)
ApplyFacts ==
  {[about |-> "apply", manifest |-> m, block |-> b, target |-> 2, lock |-> l] :
     m \in Manifests, b \in {"prod", "dev"}, l \in Locks}

MCChoiceFacts == RowFacts \cup MenuFacts \cup ApplyFacts
-----------------------------------------------------------------------------
(* RemediationPlan: two direct dependencies, a package with two copies     *)
(* below them and one below that; advisories that share names directly and *)
(* through others, and one whose range cannot be read.                     *)

AdvisoryRecord(aliases, package, vulnerable, severity) ==
  [aliases |-> aliases, package |-> package, vulnerable |-> vulnerable, severity |-> severity, readable |-> TRUE]
Flagged == AdvisoryRecord({1, 11}, "shared", {1}, 2)
Bridging == AdvisoryRecord({11, 12}, "shared", {1, 2}, 3)
Later == AdvisoryRecord({12}, "shared", {2}, 2)
Deeper == AdvisoryRecord({1}, "deep", {1}, 1)
Wider == AdvisoryRecord({11}, "shared", {1, 2}, 2)
Unreadable == [AdvisoryRecord({13}, "shared", {1}, 2) EXCEPT !.readable = FALSE]
OwnFault == AdvisoryRecord({14}, "root", {1}, 2)
Second == AdvisoryRecord({12}, "shared", {1, 2}, 1)

CopiesAre(root, top, nested, deep, peerOnly) ==
  [version |-> [c \in Copies |-> CASE c = "root" -> root [] c = "other" -> 1 [] c = "top" -> top
                                   [] c = "nested" -> nested [] c = "deep" -> deep],
   peerOnly |-> peerOnly, shortcut |-> FALSE]

MCFixProblems ==
  {[before |-> CopiesAre(1, 1, n, 1, p), after |-> CopiesAre(1, top, nested, deep, p),
    known |-> known, now |-> now, later |-> later] :
     n \in {0, 1}, p \in BOOLEAN, top \in 1..3, nested \in 0..2, deep \in {0, 1},
     known \in {{Flagged}, {Flagged, Bridging}, {Flagged, Deeper}, {Deeper, Second}, {Flagged, OwnFault}, {Flagged, Second}},
     now \in {{Flagged, Deeper}, {Bridging}, {Later}, {Wider}, {Unreadable}, {Flagged, Second}, {Second}},
     later \in {{}, {Bridging}, {Deeper}}}
  \cup
  {[before |-> CopiesAre(1, 1, 0, 1, FALSE), after |-> CopiesAre(root, top, 0, 0, FALSE),
    known |-> {Flagged, OwnFault}, now |-> {Flagged, OwnFault}, later |-> {}] : root \in {0, 2}, top \in {0, 2}}
-----------------------------------------------------------------------------
(* SecurityEvidence: one or both direct dependencies are upgraded; the     *)
(* resolver may pick other versions below them, or another chain.          *)

Both(root, other, top, nested, deep, shortcut) ==
  [CopiesAre(root, top, nested, deep, FALSE) EXCEPT !.version["other"] = other, !.shortcut = shortcut]
MCSecurityQuestions ==
  {[before |-> Both(1, 1, 1, n, 1, FALSE), after |-> Both(root, IF targets = {"root"} THEN 1 ELSE 2, top, nested, deep, short),
    evidence |-> evidence, known |-> known, targets |-> [c \in targets |-> 2]] :
     n \in 0..2, root \in {1, 2}, top \in 1..2, nested \in {0, 2}, deep \in {0, 1, 2}, short \in BOOLEAN, evidence \in BOOLEAN,
     known \in {{Flagged, OwnFault}, {OwnFault}, {Flagged, Bridging}, {Flagged, Later, Bridging}, {Deeper, Second}, {Flagged, Unreadable}, {}},
     targets \in {{"root"}, {"root", "other"}}}
-----------------------------------------------------------------------------
(* CleanupEvidence: three direct dependencies, copies of two of them, and  *)
(* a package below; then two copies of one package and what a package      *)
(* manager may make of them.                                               *)

Occurrence(id, name, version, direct) ==
  [id |-> id, name |-> name, version |-> version, direct |-> direct, accepts |-> {1, 2}]
CleanupNodes ==
  {Occurrence("a", "a", 1, TRUE), Occurrence("b", "b", 1, TRUE), Occurrence("p", "p", 1, TRUE),
   Occurrence("a2", "a", 2, FALSE), Occurrence("p2", "p", 2, FALSE), Occurrence("t", "t", 1, FALSE)}
Edge(from, name, to, kind, accepts, optional) ==
  [from |-> from, name |-> name, to |-> to, kind |-> kind, accepts |-> accepts, optional |-> optional, readable |-> TRUE]
Needs(from, name, to) == Edge(from, name, to, "runtime", {1, 2}, FALSE)
Expects(from, optional) == Edge(from, "p", "p", "peer", {1}, optional)

InstallEdges == {Needs("a", "t", "t"), Needs("b", "t", "t"), Needs("b", "a", "a"), Needs("b", "a", "a2"),
                 Needs("a", "p", "p2"), Needs("t", "p", "p2"), Needs("b", "p", "p")}
PeerEdges == {Expects("a", FALSE), Expects("b", TRUE), Expects("t", FALSE), Expects("t", TRUE), Expects("a2", FALSE)}
GraphOf(edges) ==
  [nodes |-> {n \in CleanupNodes : n.direct \/ \E e \in edges : e.to = n.id}, edges |-> edges, legacy |-> FALSE]
Installable(edges) ==
  /\ \A e \in edges : e.from \in {"a", "b"} \/ \E f \in edges : f.kind = "runtime" /\ f.to = e.from
  /\ \A e, f \in edges : e.from = f.from /\ e.name = f.name => e = f
UsageSaid(scan, referenced, convention) == [scan |-> scan, referenced |-> referenced, convention |-> convention]
RemovalOf(edges, removing, usage) ==
  [about |-> "removal", graph |-> GraphOf(edges), removing |-> removing, usage |-> usage]
RemovalQuestions ==
  {RemovalOf(r \cup e, removing, UsageSaid("complete", FALSE, FALSE)) :
     r \in {s \in SUBSET InstallEdges : Cardinality(s) <= 3}, e \in {s \in SUBSET PeerEdges : Cardinality(s) <= 2},
     removing \in {{"p"}, {"a", "p"}, {"b", "p"}, {"a", "b", "p"}}}
  \cup {RemovalOf(e, {"p"}, UsageSaid(scan, referenced, convention)) :
          e \in {{}} \cup {{Expects("a", o)} : o \in BOOLEAN}, scan \in {"complete", "truncated", "none"},
          referenced \in BOOLEAN, convention \in BOOLEAN}

\* a and b ask for d, in one copy or two; a asks for t as well.
TwoCopies(first, second, forA, forB, below, b) ==
  [nodes |-> {Occurrence("a", "a", 1, TRUE), Occurrence("b", "b", b, TRUE), Occurrence("t", "t", below, FALSE),
              Occurrence("d", "d", first, FALSE)}
             \cup (IF second \in {0, first} THEN {} ELSE {Occurrence("d2", "d", second, FALSE)}),
   edges |-> {Edge("a", "d", "d", "runtime", forA, FALSE), Needs("a", "t", "t"),
              Edge("b", "d", IF second = 0 THEN Nowhere ELSE IF second = first THEN "d" ELSE "d2", "peer", forB, FALSE)},
   legacy |-> FALSE]
Deduping(before, after) == [about |-> "dedupe", graph |-> before, after |-> after]
Muddled(edges) == {[e EXCEPT !.readable = e.from = "a"] : e \in edges}
DedupeQuestions ==
  {Deduping(TwoCopies(1, 2, forA, forB, 1, 1), TwoCopies(first, second, forA, forB, below, b)) :
     forA \in {{1}, {1, 2}, {1, 2, 3}}, forB \in {{2}, {1, 2}, {2, 3}}, first \in 1..3, second \in 0..3, below \in 1..2, b \in 1..2}
  \cup {Deduping([TwoCopies(1, 2, {1, 2}, {2}, 1, 1) EXCEPT !.legacy = legacy],
               [TwoCopies(2, 2, {1, 2}, {2}, 1, 1) EXCEPT !.edges = edges]) :
          legacy \in BOOLEAN, edges \in {TwoCopies(2, 2, {1, 2}, {2}, 1, 1).edges, Muddled(TwoCopies(2, 2, {1, 2}, {2}, 1, 1).edges)}}

MCCleanupQuestions == {q \in RemovalQuestions : Installable(q.graph.edges)} \cup DedupeQuestions
-----------------------------------------------------------------------------
(* LockfileGraph: what npm or pnpm write for one installation.  a and b    *)
(* are the project's, l is a member of its workspace, c and d are below    *)
(* them, a second copy of each below a.                                    *)

Declares(accepts, form) == [accepts |-> accepts, form |-> form]
Package(version, runtime, optional, peers) ==
  [version |-> version, runtime |-> runtime, optional |-> optional, peers |-> peers, dev |-> FALSE, link |-> FALSE]
AsksFor(names) == [n \in names |-> {1, 2}]
ExpectsC(accepts, optional) == "c" :> [accepts |-> accepts, optional |-> optional]
WorkspaceProject == <<"root">> :> Package(1, AsksFor({"a", "b"}), <<>>, <<>>)
           @@ <<"packages/l">> :> Package(1, <<>>, <<>>, <<>>)
           @@ <<"root", "l">> :> [Package(0, <<>>, <<>>, <<>>) EXCEPT !.link = TRUE]

PlacedCopies(c, nestedC, d, nestedD, rest) ==
  (IF c = 0 THEN <<>> ELSE <<"root", "c">> :> Package(c, AsksFor({"d"}), rest, <<>>))
  @@ (IF nestedC = 0 THEN <<>> ELSE <<"root", "a", "c">> :> Package(nestedC, AsksFor({"d"}), rest, <<>>))
  @@ (IF d = 0 THEN <<>> ELSE <<"root", "d">> :> [Package(d, <<>>, <<>>, <<>>) EXCEPT !.dev = TRUE])
  @@ (IF nestedD = 0 THEN <<>> ELSE <<"root", "a", "d">> :> Package(nestedD, <<>>, <<>>, <<>>))
InstallationsOf(bNeeds, bExpects, rest) ==
  {WorkspaceProject @@ <<"root", "a">> :> Package(1, AsksFor({"c", "d"}), rest, <<>>)
           @@ <<"root", "b">> :> Package(1, bNeeds, <<>>, bExpects) @@ PlacedCopies(c, nestedC, d, nestedD, rest) :
     c \in 0..2, nestedC \in 0..2, d \in 0..1, nestedD \in {0, 2}}
MCInstallations ==
  UNION {InstallationsOf(AsksFor({"c"}), <<>>, rest) : rest \in {<<>>, AsksFor({"d"})}}
  \cup UNION {InstallationsOf(<<>>, ExpectsC(accepts, o), <<>>) : accepts \in {{1}, {1, 2}}, o \in BOOLEAN}

\* npm: format 1 says only what a package requires.
Format1(install) ==
  [p \in DOMAIN install |->
     [version |-> install[p].version, link |-> install[p].link, dev |-> install[p].dev,
      requires |-> install[p].optional @@ install[p].runtime]]

\* pnpm: one snapshot for each copy that is resolved in the same way, which may list its peers as well.
Finds(install, p, name) == ResolveFrom({q \in DOMAIN install : Len(q) > 1}, p, name)
Resolved(install, p, names) == {n \in names : Finds(install, p, n) # Unplaced}
ContextOf(install, p) ==
  {<<n, install[Finds(install, p, n)].version>> : n \in Resolved(install, p, DOMAIN install[p].peers)}
SnapshotId(install, p) == <<NameAt(p), install[p].version, ContextOf(install, p)>>
ReferenceTo(install, p) == IF install[p].link THEN <<"link">> ELSE Tail(SnapshotId(install, p))
References(install, p, names) == [n \in Resolved(install, p, names) |-> ReferenceTo(install, Finds(install, p, n))]
Stored(install) == {p \in DOMAIN install : Len(p) > 1 /\ ~install[p].link}
Uniform(install) ==
  \A p, q \in Stored(install) : SnapshotId(install, p) = SnapshotId(install, q) =>
    \A n \in {"c", "d"} : LET to == Finds(install, p, n) also == Finds(install, q, n) IN
      to = also \/ (to # Unplaced /\ also # Unplaced /\ SnapshotId(install, to) = SnapshotId(install, also))
Format9(install, manifest, listsPeers) ==
  [snapshots |-> [id \in {SnapshotId(install, p) : p \in Stored(install)} |->
     LET p == CHOOSE q \in Stored(install) : SnapshotId(install, q) = id
     IN [runtime |-> References(install, p, DOMAIN install[p].runtime \cup IF listsPeers THEN DOMAIN install[p].peers ELSE {}),
         optional |-> References(install, p, DOMAIN install[p].optional)]],
   packages |-> [id \in {<<NameAt(p), install[p].version>> : p \in Stored(install)} |->
     install[CHOOSE q \in Stored(install) : <<NameAt(q), install[q].version>> = id].peers],
   importer |-> [n \in {m \in UNION {DOMAIN manifest[x] : x \in DOMAIN manifest} : TopPlace(m) \in DOMAIN install} |->
     ReferenceTo(install, TopPlace(n))]]

ManifestOf(prod, optional, dev) == [prod |-> prod, optional |-> optional, dev |-> dev]
Linked == "l" :> Declares({0}, "workspace")
ManifestsOf(install) ==
  {ManifestOf(("a" :> Declares({1}, "range")) @@ Linked, "b" :> Declares({1}, "range"), <<>>),
   ManifestOf(("a" :> Declares({1}, "range")) @@ Linked, <<>>, "b" :> Declares({1}, "range") @@ "a" :> Declares({1, 2}, "range"))}
  \cup (IF <<"root", "c">> \notin DOMAIN install THEN {} ELSE
        {ManifestOf(("a" :> Declares({1}, "range")) @@ "b" :> Declares({2}, "range") @@ Linked,
                    "b" :> Declares({1}, "range"), "c" :> Declares({1, 2}, "range"))})
\* What the project may declare by the time the lockfile is read.
LaterManifests ==
  {ManifestOf("a" :> Declares({2}, "range") @@ "d" :> Declares({1}, "range"), <<>>, "e" :> Declares({1}, "git")),
   ManifestOf("b" :> Declares({1}, "git") @@ "l" :> Declares({1}, "range"), <<>>, "a" :> Declares({1}, "http")),
   ManifestOf(<<>>, <<>>, <<>>)}

AskedOf(manifest, install, written, same) ==
  [manifest |-> manifest, same |-> same,
   locks |-> [format \in {"v1", "v2", "v3"} |-> IF format = "v1" THEN Format1(install) ELSE install]
             @@ "pnpm" :> Format9(install, written, manifest.dev = <<>>)
             @@ [format \in IF same THEN {} ELSE {"none", "pnpm-none", "other"} |-> <<>>]]
MCLockQuestions ==
  UNION {{AskedOf(m, install, m, TRUE) : m \in ManifestsOf(install)}
         \cup {AskedOf(later, install, m, FALSE) : m \in ManifestsOf(install), later \in LaterManifests} :
           install \in {i \in MCInstallations : Uniform(i)}}
=============================================================================
