------------------------------ MODULE SmartPlan ------------------------------
(***************************************************************************)
(* planSmartUpgrade (core/upgrade/smartPlan.ts): the bounded breadth-first *)
(* search that adds upgrades of other direct dependencies to a requested   *)
(* one until the preflight (core/compatibility/preflight.ts) accepts the   *)
(* whole proposal.                                                         *)
(*                                                                         *)
(* Packages are numbered in the order of their names and installed at      *)
(* version 1: 1..NDirect are direct dependencies, Nested is installed      *)
(* below NestedRoot, Uninstalled is not installed.  A proposal is a function    *)
(* from the packages it moves to their targets; proposals are equal when   *)
(* their signatures are.  A peer declaration says which versions of the    *)
(* peer an owner's version accepts; no versions at all stands for a range  *)
(* that does not parse.  Two consecutive versions share a major.           *)
(***************************************************************************)
EXTENDS Ordered

CONSTANTS
  NDirect, NestedRoot,
  TopVersion,           \* versions are 1..TopVersion
  PlanProblems,         \* the situations a search may start in, see SearchInit
  MaxStates, MaxAdditional, MaxPerPackage, MaxQueries   \* SmartPlanSearchBounds

Direct == 1..NDirect
Nested == NDirect + 1
Uninstalled == NDirect + 2
Installed == Direct \cup {Nested}
NoVersion == 0
Major(v) == (v - 1) \div 2

\* Direct dependencies are asked for and may be moved, upwards; a registry may list what is no version.
ASSUME PlanAssumption ==
  /\ NDirect \in Nat \ {0} /\ NestedRoot \in 1..NDirect /\ TopVersion \in Nat \ {0}
  /\ {MaxStates, MaxAdditional, MaxPerPackage, MaxQueries} \subseteq Nat \ {0}
  /\ \A x \in PlanProblems :
       /\ DOMAIN x.start \subseteq Direct /\ x.start \in [DOMAIN x.start -> 2..TopVersion] /\ x.allowed \subseteq Direct
       /\ \A p \in x.allowed : x.supplies[p].versions \subseteq 0..TopVersion /\ {x.supplies[p].complete, x.supplies[p].answers} \subseteq BOOLEAN
       /\ \A d \in x.peers : d.optional \in BOOLEAN

VARIABLES
  problem,     \* peers, policy, partial, unserved, supplies, verifier, allowed, start
  planQueue,       \* the proposals found so far, each with its analysis and reasons
  head,        \* the one to look at next
  seen,        \* the proposals ever queued
  candidates,  \* what is known of each package's versions
  packages, versions,   \* what is left of the expansion under way: packages, versions of the first
  found,       \* the findings that caused each package of the expansion
  analyzed, queries,    \* statistics that are bounds, too
  limitReached, uncertain, blockers,
  searchAborted,
  searchOutcome

searchVars == <<problem, planQueue, head, seen, candidates, packages, versions, found, analyzed, queries,
                limitReached, uncertain, blockers, searchAborted, searchOutcome>>

-----------------------------------------------------------------------------
(* The preflight.                                                          *)

\* The direct dependency a package is installed under.
RelationRoot(p) == IF p = Nested THEN NestedRoot ELSE p

\* The version of a peer that an owner would see once the proposal is installed.
ObservedPeer(proposal, owner, peer) ==
  IF peer \in DOMAIN proposal THEN proposal[peer]
  ELSE IF peer \in Direct \/ (peer = Nested /\ \E d \in problem.peers : d.owner = owner /\ d.version = 1 /\ d.peer = peer)
       THEN 1 ELSE NoVersion

PeerStatus(missing, optional) ==
  IF missing /\ optional THEN "compatible"
  ELSE IF problem.policy = "legacy" \/ (missing /\ problem.policy # "strict") THEN "warning" ELSE "conflict"

PeerFinding(d, proposal) ==
  LET observed == ObservedPeer(proposal, d.owner, d.peer)
      Is(kind, status) == [kind |-> kind, status |-> status, subject |-> d.owner, peer |-> d.peer,
                           root |-> RelationRoot(d.owner), observed |-> observed]
  IN IF d.accepts = {} THEN Is("invalid-peer-range", "unknown")
     ELSE IF observed = NoVersion
     THEN Is(IF d.optional THEN "optional-peer-missing" ELSE "peer-missing", PeerStatus(TRUE, d.optional))
     ELSE IF observed \in d.accepts THEN Is("peer-compatible", "compatible")
     ELSE Is("peer-incompatible", PeerStatus(FALSE, d.optional))

Plain(kind, status, p) ==
  [kind |-> kind, status |-> status, subject |-> p, peer |-> NoVersion, root |-> p, observed |-> NoVersion]

\* Installed owners that stay and point at a moved package; moved owners by their target's declarations.
CompatibilityFindings(proposal) ==
  {PeerFinding(d, proposal) : d \in {e \in problem.peers :
     \/ e.owner \notin DOMAIN proposal /\ e.owner \in Installed /\ e.version = 1 /\ e.peer \in DOMAIN proposal
     \/ e.owner \in DOMAIN proposal \ problem.unserved /\ e.version = proposal[e.owner]}}
  \cup {Plain("major-version-change", "warning", p) : p \in {q \in DOMAIN proposal : Major(proposal[q]) # Major(1)}}
  \cup {Plain("metadata-unavailable", "unknown", p) : p \in DOMAIN proposal \cap problem.unserved}
  \cup {Plain("graph-metadata-incomplete", "unknown", p) : p \in IF problem.partial THEN {1} ELSE {}}

AggregateStatus(statuses) ==
  IF "conflict" \in statuses THEN "conflict" ELSE IF "unknown" \in statuses THEN "unknown"
  ELSE IF "warning" \in statuses THEN "warning" ELSE "compatible"

StaticStatus(proposal) == AggregateStatus({f.status : f \in CompatibilityFindings(proposal)})
Accepts(status) == status \in {"compatible", "warning"}

\* What the preflight of a search state can answer: the package manager is only asked about what is statically viable.
Verdicts(proposal) ==
  LET static == StaticStatus(proposal)
  IN IF problem.verifier /\ Accepts(static)
     THEN {AggregateStatus({static, v}) : v \in {"compatible", "conflict", "unknown"}}
     ELSE {static}

\* The preflight that asked for a plan always asked the package manager as well.
InitialVerdicts ==
  {AggregateStatus({StaticStatus(problem.start), v}) :
     v \in IF problem.verifier THEN {"compatible", "conflict", "unknown"} ELSE {"compatible"}}

-----------------------------------------------------------------------------
(* The search.                                                             *)

BlockingFindings(proposal) == {f \in CompatibilityFindings(proposal) : f.status = "conflict"}

\* Mutant: forgets that the peer could move instead.
ImplicatedOwners(f) == {f.subject, f.root}

\* The packages a finding implicates: its subject, what that is installed under, and the peer.
Implicated(f) == {f.subject, f.root} \cup IF f.kind = "invalid-peer-range" THEN {} ELSE {f.peer}

ExpansionReasons(proposal) ==
  [p \in problem.allowed \ DOMAIN proposal |->
     {f \in BlockingFindings(proposal) :
        p \in Implicated(f) /\ f.kind \in {"peer-incompatible", "peer-missing", "invalid-peer-range"}}]

\* normalizeCandidates: newest first, at most MaxPerPackage, newer than what is installed.
NormalizeCandidates(raw) ==
  LET newer == {v \in raw.versions : v > 1}
  IN [versions |-> Take(Descending(newer), MaxPerPackage),
      complete |-> raw.complete /\ Cardinality(newer) <= MaxPerPackage,
      malformed |-> NoVersion \in raw.versions]

\* What a registry that fails leaves in the cache.
NotLoaded == [versions |-> <<>>, complete |-> FALSE, malformed |-> FALSE]

SearchInit ==
  /\ problem \in PlanProblems
  /\ \E status \in InitialVerdicts :
       planQueue = <<[proposal |-> problem.start, status |-> status, reasons |-> [p \in DOMAIN problem.start |-> {}]]>>
  /\ head = 1 /\ seen = {problem.start}
  /\ candidates = [p \in {} |-> NotLoaded]
  /\ packages = <<>> /\ versions = <<>> /\ found = [p \in {} |-> {}]
  /\ analyzed = 1 /\ queries = 0
  /\ limitReached = FALSE /\ uncertain = FALSE /\ blockers = {}
  /\ searchAborted = FALSE /\ searchOutcome = "searching"

Searching == searchOutcome = "searching"
Expanding == packages # <<>>

SearchCancelled ==
  /\ searchOutcome' = "cancelled"
  /\ UNCHANGED <<problem, planQueue, head, seen, candidates, packages, versions, found, analyzed, queries,
                 limitReached, uncertain, blockers, searchAborted>>

\* The caller aborts, at any time.
AbortSearch ==
  /\ Searching /\ ~searchAborted
  /\ searchAborted' = TRUE
  /\ UNCHANGED <<problem, planQueue, head, seen, candidates, packages, versions, found, analyzed, queries,
                 limitReached, uncertain, blockers, searchOutcome>>

\* The next proposal of the queue is accepted, given up, or its expansion begins.
Inspect ==
  /\ Searching /\ ~Expanding /\ ~searchAborted /\ head <= Len(planQueue)
  /\ LET state == planQueue[head]
         blocking == BlockingFindings(state.proposal)
         reasons == ExpansionReasons(state.proposal)
         expandable == {p \in DOMAIN reasons : reasons[p] # {}}
         atLimit == Cardinality(DOMAIN state.proposal) - Cardinality(DOMAIN problem.start) >= MaxAdditional
         expands == ~Accepts(state.status) /\ state.status # "unknown" /\ expandable # {}
     IN /\ searchOutcome' = IF Accepts(state.status) THEN "found" ELSE searchOutcome
        /\ uncertain' = (uncertain \/ state.status = "unknown" \/ (state.status = "conflict" /\ blocking = {}))
        /\ blockers' = IF state.status = "conflict" THEN blockers \cup blocking ELSE blockers
        /\ limitReached' = (limitReached \/ (expands /\ atLimit))
        /\ packages' = IF expands /\ ~atLimit THEN Ascending(expandable) ELSE <<>>
        /\ found' = reasons
        /\ head' = IF Accepts(state.status) \/ (expands /\ ~atLimit) THEN head ELSE head + 1
  /\ UNCHANGED <<problem, planQueue, seen, candidates, versions, analyzed, queries, searchAborted>>

\* Done with the first package of the expansion, and with the proposal after the last.
NextPackage ==
  /\ packages' = Tail(packages)
  /\ versions' = <<>>
  /\ head' = IF Len(packages) = 1 THEN head + 1 ELSE head

\* loadCandidates: from the cache, refused by the bound, or asked of the registry.
LoadCandidates ==
  /\ Searching /\ Expanding /\ versions = <<>>
  /\ LET p == Head(packages)
         raw == problem.supplies[p]
         Use(entry) == IF entry.versions = <<>> THEN NextPackage
                       ELSE versions' = entry.versions /\ UNCHANGED <<packages, head>>
     IN \/ /\ p \in DOMAIN candidates /\ Use(candidates[p])
           /\ UNCHANGED <<candidates, queries, limitReached, uncertain>>
        \/ /\ p \notin DOMAIN candidates /\ queries >= MaxQueries
           /\ limitReached' = TRUE /\ NextPackage
           /\ UNCHANGED <<candidates, queries, uncertain>>
        \/ /\ p \notin DOMAIN candidates /\ queries < MaxQueries /\ ~searchAborted
           /\ queries' = queries + 1
           /\ LET entry == IF raw.answers THEN NormalizeCandidates(raw) ELSE NotLoaded
              IN /\ candidates' = [q \in DOMAIN candidates \cup {p} |-> IF q = p THEN entry ELSE candidates[q]]
                 /\ limitReached' = (limitReached \/ (raw.answers /\ ~entry.complete
                                                      /\ Cardinality(raw.versions) > MaxPerPackage))
                 /\ uncertain' = (uncertain \/ ~entry.complete \/ entry.malformed)
                 /\ Use(entry)
  /\ UNCHANGED <<problem, planQueue, seen, found, analyzed, blockers, searchAborted, searchOutcome>>

\* The proposal under expansion with the next version of the package.
NextProposal ==
  LET base == planQueue[head].proposal
      p == Head(packages)
  IN [q \in DOMAIN base \cup {p} |-> IF q = p THEN Head(versions) ELSE base[q]]

\* One more version of the package: out of budget, a duplicate, or analyzed and queued.
TryVersion ==
  /\ Searching /\ versions # <<>>
  /\ LET p == Head(packages)
         state == planQueue[head]
         proposal == NextProposal
         Advance == IF Len(versions) = 1 THEN NextPackage
                    ELSE versions' = Tail(versions) /\ UNCHANGED <<packages, head>>
     IN \/ /\ analyzed >= MaxStates
           /\ limitReached' = TRUE /\ NextPackage
           /\ UNCHANGED <<planQueue, seen, analyzed>>
        \/ /\ analyzed < MaxStates /\ proposal \in seen /\ Advance
           /\ UNCHANGED <<planQueue, seen, analyzed, limitReached>>
        \/ /\ analyzed < MaxStates /\ proposal \notin seen /\ ~searchAborted
           /\ seen' = seen \cup {proposal}
           /\ \E status \in Verdicts(proposal) :
                planQueue' = Append(planQueue, [proposal |-> proposal, status |-> status,
                                        reasons |-> [q \in DOMAIN proposal |->
                                                       IF q = p THEN found[p] ELSE state.reasons[q]]])
           /\ analyzed' = analyzed + 1
           /\ Advance
           /\ UNCHANGED limitReached
  /\ UNCHANGED <<problem, candidates, found, queries, uncertain, blockers, searchAborted, searchOutcome>>

\* throwIfCancelled, wherever the search comes back from waiting.
NoticeAbort ==
  /\ Searching /\ searchAborted
  /\ \/ ~Expanding /\ head <= Len(planQueue)
     \/ Expanding /\ versions = <<>> /\ Head(packages) \notin DOMAIN candidates /\ queries < MaxQueries
     \/ versions # <<>> /\ analyzed < MaxStates /\ NextProposal \notin seen
  /\ SearchCancelled

\* Nothing is left to look at.
Conclude ==
  /\ Searching /\ ~Expanding /\ head > Len(planQueue)
  /\ searchOutcome' = IF limitReached THEN "limit-reached" ELSE IF uncertain THEN "unknown" ELSE "impossible"
  /\ UNCHANGED <<problem, planQueue, head, seen, candidates, packages, versions, found, analyzed, queries,
                 limitReached, uncertain, blockers, searchAborted>>

SearchNext == AbortSearch \/ Inspect \/ LoadCandidates \/ TryVersion \/ NoticeAbort \/ Conclude

-----------------------------------------------------------------------------
(* The plan that is reported.                                              *)

ThePlan == planQueue[head]

\* An owner goes before the peer it constrains, when both move.
PlanEdges == {<<f.subject, f.peer>> : f \in {g \in CompatibilityFindings(ThePlan.proposal) :
                                                {g.subject, g.peer} \subseteq DOMAIN ThePlan.proposal}}

\* What a package constrains, directly or through others.
Reached(p) ==
  {q \in DOMAIN ThePlan.proposal :
     \A S \in SUBSET DOMAIN ThePlan.proposal :
       p \in S /\ (\A e \in PlanEdges : e[1] \in S => e[2] \in S) => q \in S}

\* Packages that constrain each other move together.
PlanGroups == {{q \in Reached(p) : p \in Reached(q)} : p \in DOMAIN ThePlan.proposal}

GroupPrecedes(g, h) == g # h /\ \E e \in PlanEdges : e[1] \in g /\ e[2] \in h

\* Of the groups nothing is before, the one with the first name, again and again.
Ready(rest) == {g \in rest : ~\E h \in rest : GroupPrecedes(h, g)}
FirstNamed(groups) == CHOOSE g \in groups : \E p \in g : \A h \in groups : \A q \in h : p <= q
PlanOrder ==
  LET order[rest \in SUBSET PlanGroups] ==
        IF Ready(rest) = {} THEN <<>> ELSE <<FirstNamed(Ready(rest))>> \o order[rest \ {FirstNamed(Ready(rest))}]
  IN order[PlanGroups]

-----------------------------------------------------------------------------
(* What the search promises, against the proposals it chooses from.        *)

\* What a package could be moved to; a registry that did not answer might have offered anything.
Offered(p) ==
  {v \in 2..TopVersion : problem.supplies[p].answers => v \in problem.supplies[p].versions}

Proposals ==
  UNION {{t \in [DOMAIN problem.start \cup moved -> 2..TopVersion] :
            /\ \A p \in DOMAIN problem.start : t[p] = problem.start[p]
            /\ \A p \in moved : t[p] \in Offered(p)}
         : moved \in SUBSET (problem.allowed \ DOMAIN problem.start)}

\* A search never answers more than it knows: a plan moves only packages it may, each for a
\* blocking finding, is accepted as a whole and in groups that can be applied in their order, and
\* unless something was cut short none smaller is acceptable; "impossible" means that no choice
\* of offered versions is acceptable, whatever else moves; and the budgets hold.
PlansAreRight ==
  /\ analyzed = Len(planQueue) /\ analyzed <= MaxStates /\ queries <= MaxQueries
  /\ searchOutcome = "found" =>
       /\ ThePlan.proposal \in Proposals
       /\ Accepts(StaticStatus(ThePlan.proposal))
       /\ \A p \in DOMAIN ThePlan.proposal \ DOMAIN problem.start : ThePlan.reasons[p] # {}
       /\ Len(PlanOrder) = Cardinality(PlanGroups)
       /\ \A i, j \in DOMAIN PlanOrder : GroupPrecedes(PlanOrder[i], PlanOrder[j]) => i < j
       /\ ~limitReached /\ ~uncertain =>
            \A t \in Proposals : Accepts(StaticStatus(t)) =>
              Cardinality(DOMAIN t) >= Cardinality(DOMAIN ThePlan.proposal)
  /\ searchOutcome = "impossible" => \A t \in Proposals : ~Accepts(StaticStatus(t))
=============================================================================
