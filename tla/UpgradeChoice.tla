---------------------------- MODULE UpgradeChoice ----------------------------
(***************************************************************************)
(* What the program offers to upgrade a dependency to, and whether it then *)
(* stands by the offer: the versions a scan derives (core/version/resolve, *)
(* core/advisories/aggregate, core/upgrade/candidate), the action a row    *)
(* shows (host/upgradeAction), the menu of targets                         *)
(* (core/upgrade/targets), the check of a request (core/upgrade/validate), *)
(* the staged manifest and the confirmation of what was installed          *)
(* (core/upgrade/stagedManifest, appliedState).                            *)
(*                                                                         *)
(* A version is a number, in the order of semver precedence; a range is    *)
(* the set of versions it admits, and the empty set a range or tag that    *)
(* proves nothing.  The variable holds the facts the functions are asked   *)
(* about; nothing changes them.                                            *)
(***************************************************************************)
EXTENDS Ordered, SequencesExt

CONSTANTS
  NVersions, Prereleases,      \* versions are 1..NVersions
  RecentTargets, StableTargets, PrereleaseTargets,   \* 16, MAX_STABLE_ and MAX_PRERELEASE_UPGRADE_TARGETS
  ChoiceFacts                  \* what is asked, see ChoiceInit

Versions == 1..NVersions
None == 0
IsStable(v) == v \notin Prereleases
Line(v) == (v + 1) \div 2          \* the major.minor of a version

Highest(S) == IF S = {} THEN None ELSE Max(S)
FirstOf(s) ==
  LET given == {i \in DOMAIN s : s[i] # None} IN IF given = {} THEN None ELSE s[Min(given)]

-----------------------------------------------------------------------------
(* What the functions are asked about.                                     *)

Blocks == {"prod", "dev", "optional"}
KnownVersions == Versions \cup {None}

\* What the registry, the advisories and npm audit say of a row.
RowQuestions ==
  [about : {"row"}, published : SUBSET Versions, range : SUBSET Versions, named : SUBSET Prereleases,
   latest : KnownVersions, installed : KnownVersions, advisories : SUBSET [vulnerable : SUBSET Versions, depth : Nat],
   fix : {"nothing", "no", "version"}, fixVersion : KnownVersions, loads : BOOLEAN, answers : BOOLEAN, lts : KnownVersions, fallback : KnownVersions]

\* A menu is of published tags, and the row's own target is ahead of what is installed.
MenuQuestions ==
  {f \in [about : {"menu"}, published : SUBSET Versions, range : SUBSET Versions, named : SUBSET Prereleases,
          latest : KnownVersions, installed : KnownVersions, advisories : SUBSET [vulnerable : SUBSET Versions, depth : Nat],
          fix : {"nothing", "no", "version"}, fixVersion : KnownVersions, loads : BOOLEAN, answers : BOOLEAN,
          lts : KnownVersions, fallback : KnownVersions, tooLarge : BOOLEAN] :
     /\ {f.lts, f.latest, f.fallback} \ {None} \subseteq f.published
     /\ f.fallback # None => f.installed # None /\ f.fallback > f.installed}

\* A lockfile's entries for the package from the root down to the importer's directory.
LockStates(depth) ==
  [format : {"v1", "v3", "pnpm", "other"}, depth : {depth}, entries : [0..depth -> {"none", "link", "version"}],
   versions : [0..depth -> Versions], flag : Blocks, importer : [Blocks -> SUBSET KnownVersions]]
IsApplyQuestion(f) ==
  /\ f.manifest \in [Blocks -> SUBSET KnownVersions] /\ f.block \in Blocks /\ f.target \in Versions
  /\ f.lock.depth \in Nat /\ f.lock \in LockStates(f.lock.depth)

\* The menu always has room for the tagged versions next to the recent ones.
ASSUME ChoiceAssumption ==
  /\ NVersions \in Nat /\ Prereleases \subseteq Versions
  /\ {RecentTargets, StableTargets, PrereleaseTargets} \subseteq Nat /\ RecentTargets + 3 <= StableTargets
  /\ \A f \in ChoiceFacts :
       /\ f.about \in {"row", "menu", "apply"} /\ (f.about = "row" => f \in RowQuestions)
       /\ (f.about = "menu" => f \in MenuQuestions) /\ (f.about = "apply" => IsApplyQuestion(f))

VARIABLE choice
ChoiceInit == choice \in ChoiceFacts
-----------------------------------------------------------------------------
(* Versions and advisories.                                                *)

\* What a range admits by itself: of the prereleases only those of a release it names a prerelease of.
Admitted(f, versions) == {v \in versions \cap f.range : IsStable(v) \/ v \in f.named}

\* resolveWanted: the highest version in the range, with every prerelease for those who are on one.
ResolveWanted(f) ==
  Highest(IF f.installed \in Prereleases THEN f.published \cap f.range ELSE Admitted(f, f.published))

\* resolveLatest: the tag; someone on a prerelease follows its own line if that is further.
ResolveLatest(f) ==
  LET onLine == {v \in f.published \cap Prereleases : Line(v) = Line(f.installed) /\ v > f.installed}
  IN IF f.installed \in Prereleases THEN Highest({f.latest, Highest(onLine)} \ {None}) ELSE f.latest

\* resolveFirstPatchedVersion of a package that is at f.installed.
FirstPatched(f, vulnerable) ==
  LET fixed == {v \in f.published \ vulnerable : v > f.installed /\ (IsStable(v) \/ f.installed \in Prereleases)}
  IN IF f.installed = None \/ f.published = {} \/ vulnerable = {} THEN [status |-> "unknown", version |-> None]
     ELSE IF fixed = {} THEN [status |-> "none", version |-> None]
     ELSE [status |-> "known", version |-> Min(fixed)]

\* Mutant: anything else than what is installed will do.
IsOtherTarget(target, installed) == target # None /\ installed # None /\ target # installed

IsSafeUpgradeTarget(target, installed) == target # None /\ installed # None /\ target > installed

\* The highest version the range admits that none of the package's own advisories covers.
SelfComputedFix(f) ==
  LET own == {a \in f.advisories : a.depth = 1}
      loaded == IF f.loads THEN f.published ELSE {}
      best == Highest({v \in Admitted(f, loaded) : \A a \in own : v \notin a.vulnerable})
  IN IF own # {} /\ IsSafeUpgradeTarget(best, f.installed) THEN best ELSE None

\* resolveUpgradeTarget: what npm audit says it can fix decides, when it names a version or denies one.
SecurityTarget(f) ==
  IF f.advisories = {} \/ f.fix = "no" THEN None
  ELSE IF f.fix = "nothing" THEN SelfComputedFix(f)
  ELSE IF IsSafeUpgradeTarget(f.fixVersion, f.installed) THEN f.fixVersion ELSE None

\* generalUpdateTarget, and updateTarget without its last condition.
UpdateTarget(current, wanted, latest) ==
  IF current = None THEN None
  ELSE FirstOf(<<IF latest # current THEN latest ELSE None, IF wanted # current THEN wanted ELSE None>>)
GeneralUpdateTarget(current, wanted, latest) ==
  LET target == UpdateTarget(current, wanted, latest)
  IN IF IsSafeUpgradeTarget(target, current) THEN target ELSE None

\* The row of a scan (buildPackageRows); versions may have been unavailable.
Row(f) ==
  LET wanted == IF f.answers THEN ResolveWanted(f) ELSE None
      latest == IF f.answers THEN ResolveLatest(f) ELSE None
      security == SecurityTarget(f)
      general == GeneralUpdateTarget(f.installed, wanted, latest)
  IN [current |-> f.installed, wanted |-> wanted, latest |-> latest, advisories |-> f.advisories,
      upgradeTo |-> FirstOf(<<security, general>>),
      reason |-> IF security # None THEN "security-fix" ELSE IF general # None THEN "update" ELSE "none"]

RowHasUpdate(row) ==
  row.current # None /\ \E v \in {row.wanted, row.latest} \ {None} : v # row.current

\* What a row with a transitive advisory shows, unless its remediation is known to leave the advisory.
Remediations == [none |-> "transitive-remediation", analyzing |-> "remediation-analyzing",
                 resolved |-> "remediation-resolved", unknown |-> "remediation-unknown"]

\* resolveActionState; remediation is what this session knows of transitive fixes.
ActionState(row, remediation) ==
  LET transitive == \E a \in row.advisories : a.depth > 1
  IN IF row.upgradeTo # None THEN row.reason
     ELSE IF row.current = None THEN "unavailable"
     ELSE IF row.advisories # {} THEN
            IF transitive /\ remediation \in DOMAIN Remediations THEN Remediations[remediation] ELSE "no-direct-fix"
     ELSE IF row.wanted = None /\ row.latest = None THEN "unavailable"
     ELSE IF RowHasUpdate(row) THEN "unavailable" ELSE "up-to-date"

HasEligibleTransitiveFix(row) ==
  row.upgradeTo = None /\ row.current # None /\ \E a \in row.advisories : a.depth > 1

\* validateUpgradeRequest of a package that is in the rows: the reason it is rejected, or "ok".
ValidateUpgradeRequest(row, declared, target, publishedTargets) ==
  IF target # row.upgradeTo /\ target \notin publishedTargets
  THEN IF row.upgradeTo = None THEN "no-eligible-upgrade" ELSE "stale-target"
  ELSE IF row.current = None THEN "no-eligible-upgrade"
  ELSE IF ~declared THEN "not-declared"
  ELSE IF target > row.current THEN "ok" ELSE "no-eligible-upgrade"

-----------------------------------------------------------------------------
(* The menu of targets.                                                    *)

ValidPublishedTag(f, v) == IF v \in f.published /\ IsStable(v) /\ v > f.installed THEN v ELSE None

\* selectUpgradeTargets
UpgradeTargets(f) ==
  LET stable == {v \in f.published : v > f.installed /\ IsStable(v)}
      pre == {v \in f.published : v > f.installed /\ ~IsStable(v)}
      lts == ValidPublishedTag(f, f.lts)
      latest == ValidPublishedTag(f, f.latest)
      fallback == ValidPublishedTag(f, f.fallback)
      recommended == FirstOf(<<lts, latest, fallback, Highest(stable)>>)
      pinned == ({recommended, lts, latest, fallback} \ {None})
                \cup ToSet(Take(Descending(stable), RecentTargets))
      newestOfLine == {v \in stable : \A w \in stable : Line(w) = Line(v) => w <= v}
      room == IF Cardinality(pinned) < StableTargets THEN StableTargets - Cardinality(pinned) ELSE 0
      chosen == pinned \cup ToSet(Take(Descending(newestOfLine \ pinned), room))
      menu == Take((IF recommended \in chosen THEN <<recommended>> ELSE <<>>)
                   \o Descending(chosen \ {recommended}), StableTargets)
      preMenu == Take(Descending(pre), PrereleaseTargets)
  IN IF f.installed = None THEN [recommended |-> None, menu |-> <<>>, pre |-> <<>>, truncated |-> FALSE]
     ELSE [recommended |-> recommended, menu |-> menu, pre |-> preMenu,
           truncated |-> Cardinality(stable) > Len(menu) \/ Cardinality(pre) > Len(preMenu)]

\* loadUpgradeTargets: a history that is too large leaves the tags and the row's own target.
LoadUpgradeTargets(f) ==
  IF f.tooLarge
  THEN UpgradeTargets([f EXCEPT !.published = {f.lts, f.latest, f.fallback} \ {None}])
  ELSE UpgradeTargets(f)

\* publishedUpgradeTargetsForRequest: the row's own target needs no proof, any other newer one is looked up.
PublishedForRequest(f, target) ==
  IF target = f.fallback \/ (target > f.installed /\ target \in f.published) THEN {target} ELSE {}

\* preferPublisherRecommendedTarget: only the default target gives way.
PreferRecommended(f, requested) ==
  IF requested # f.fallback THEN requested ELSE FirstOf(<<LoadUpgradeTargets(f).recommended, requested>>)

-----------------------------------------------------------------------------
(* The staged manifest, and what proves that it was applied.               *)

Undeclared == {None}      \* what a block says of a package it does not declare

\* parseManifest and classify: optional and prod override dev, and prod does not override optional.
Classification(manifest) ==
  IF manifest["optional"] # Undeclared THEN "optional" ELSE IF manifest["prod"] # Undeclared THEN "prod" ELSE "dev"
Declared(manifest) == \E b \in Blocks : manifest[b] # Undeclared

\* buildStagedManifest: the authoritative declaration, and no other.
StagedManifest(manifest, block, target) == [manifest EXCEPT ![block] = {target}]

\* The lock entry an importer resolves to: the nearest directory with one shadows those above.
NpmResolved(lock) ==
  LET levels == {d \in 0..lock.depth : lock.entries[d] # "none"}
  IN IF levels = {} \/ lock.entries[Max(levels)] # "version" THEN None ELSE lock.versions[Max(levels)]

\* inspectDirectLockEvidence; the pnpm graph is taken to resolve the importer's own entry.
LockEvidence(lock, block, target) ==
  CASE lock.format = "v1" ->
         [declared |-> lock.depth = 0 /\ lock.entries[0] = "version" /\ lock.flag = block,
          resolved |-> IF lock.depth = 0 THEN NpmResolved(lock) ELSE None]
    [] lock.format = "v3" -> [declared |-> target \in lock.importer[block], resolved |-> NpmResolved(lock)]
    [] lock.format = "pnpm" -> [declared |-> target \in lock.importer[block], resolved |-> NpmResolved(lock)]
    [] OTHER -> [declared |-> FALSE, resolved |-> None]

\* inspectAppliedUpgradeState for one expected change.
AppliedConfirmed(manifest, lock, block, target) ==
  LET evidence == LockEvidence(lock, block, target)
  IN /\ evidence.resolved = target /\ evidence.declared
     /\ Declared(manifest) /\ Classification(manifest) = block
     /\ target \in manifest[block]

-----------------------------------------------------------------------------
(* What is promised.                                                       *)

\* An offer is ahead of what is installed and is accepted when it is taken; a security fix of the
\* program's own is the best of what the range admits and the advisories spare; the first patched version is
\* published, ahead and the first; a row that says it is up to date knows of nothing newer.
RowIsHonest(f, row) ==
     /\ row.upgradeTo # None =>
          /\ row.upgradeTo > row.current
          /\ ValidateUpgradeRequest(row, TRUE, row.upgradeTo, {}) = "ok"
     /\ row.reason = "security-fix" /\ f.fix # "version" =>
          /\ row.upgradeTo \in Admitted(f, f.published)
          /\ \A v \in Admitted(f, f.published) :
               v > row.upgradeTo => \E a \in f.advisories : a.depth = 1 /\ v \in a.vulnerable
     /\ \A r \in {"none", "analyzing", "resolved", "remains", "unknown"} :
          /\ ActionState(row, r) = "up-to-date" =>
               /\ f.advisories = {} /\ f.answers
               /\ \A v \in {row.wanted, row.latest} : v \in {None, row.current}
          /\ HasEligibleTransitiveFix(row) =
               (ActionState(row, r) \in {"transitive-remediation", "remediation-analyzing", "remediation-resolved",
                                         "remediation-unknown"}
                \/ (r = "remains" /\ ActionState(row, r) = "no-direct-fix" /\ \E a \in f.advisories : a.depth > 1))
     /\ \A a \in f.advisories :
          LET first == FirstPatched(f, a.vulnerable)
          IN first.status = "known" => /\ first.version \in f.published \ a.vulnerable /\ first.version > f.installed
                                       /\ \A v \in f.published : v > f.installed /\ v < first.version =>
                                            v \in a.vulnerable \/ ~IsStable(v)

\* The menu has every option once, the recommended one first, no more than its bounds and every
\* line of releases it has room for; every option is accepted when it is asked for, and so is
\* the default target once the publisher's recommendation replaced it.
MenuIsHonest(f, targets, row) ==
  LET options == targets.menu \o targets.pre
      offered == ToSet(options)
      newer == {v \in f.published : v > f.installed}
  IN /\ Len(targets.menu) <= StableTargets /\ Len(targets.pre) <= PrereleaseTargets
     /\ Cardinality(offered) = Len(options)
     /\ targets.menu # <<>> => targets.menu[1] = targets.recommended
     /\ f.installed # None =>
          {ValidPublishedTag(f, v) : v \in {f.lts, f.latest, f.fallback}} \ {None} \subseteq offered
     /\ \A v \in offered : ValidateUpgradeRequest(row, TRUE, v, PublishedForRequest(f, v)) = "ok"
     /\ f.installed # None /\ ~f.tooLarge =>
          /\ targets.truncated <=> ~(newer \subseteq offered)
          /\ \A v \in newer : IsStable(v) /\ Len(targets.menu) < StableTargets =>
               \E w \in offered : IsStable(w) /\ Line(w) = Line(v) /\ w >= v
     /\ f.fallback # None =>
          LET target == PreferRecommended(f, f.fallback)
          IN ValidateUpgradeRequest(row, TRUE, target, PublishedForRequest(f, target)) = "ok"

\* A change is confirmed exactly when the declaration that counts, the importer's entry and the
\* copy the importer resolves to all say so; a package manager that installs what was staged
\* is always confirmed, and staging leaves every other declaration alone.
ApplicationIsProven(f) ==
  LET block == Classification(f.manifest)
      staged == StagedManifest(f.manifest, block, f.target)
      written == [f.lock EXCEPT !.importer = staged, !.entries[f.lock.depth] = "version",
                                !.versions[f.lock.depth] = f.target, !.flag = block]
  IN /\ \A b \in Blocks \ {block} : staged[b] = f.manifest[b]
     /\ Classification(staged) = block
     /\ f.lock.format \in {"v3", "pnpm"} \/ (f.lock.format = "v1" /\ f.lock.depth = 0) =>
          AppliedConfirmed(staged, written, block, f.target)
     /\ AppliedConfirmed(f.manifest, f.lock, f.block, f.target) =>
          /\ f.block = block /\ f.target \in f.manifest[block]
          /\ \E d \in 0..f.lock.depth : /\ f.lock.entries[d] = "version" /\ f.lock.versions[d] = f.target
                                        /\ \A e \in d+1..f.lock.depth : f.lock.entries[e] = "none"

\* Every offer of the program is one it stands by.
OffersAreHonoured ==
  CASE choice.about = "row" -> RowIsHonest(choice, Row(choice))
    [] choice.about = "menu" ->
           MenuIsHonest(choice, LoadUpgradeTargets(choice), [Row(choice) EXCEPT !.upgradeTo = choice.fallback])
    [] choice.about = "apply" -> ApplicationIsProven(choice)
=============================================================================
