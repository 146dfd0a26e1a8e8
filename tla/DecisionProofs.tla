--------------------------- MODULE DecisionProofs ---------------------------
(***************************************************************************)
(* Theorems about the decisions of the upgrade assistant: the choice of a  *)
(* single version (UpgradeChoice), the search for a coordinated plan       *)
(* (SmartPlan, over problems of the shape MCDecisions builds), and the     *)
(* before-and-after comparison of the advisories a lockfile is exposed to  *)
(* (LockfileGraph, RemediationPlan, SecurityEvidence).                     *)
(*                                                                         *)
(* They are proved of UpgradeSpec, the specification the run MCUpgrade     *)
(* checks, for every value of its constants that the assumptions of those  *)
(* modules admit.  A single choice and a comparison are computed in one    *)
(* step, so their theorems are about the operators; the search takes many, *)
(* and SearchInv, stated in the middle of the module, is the invariant its *)
(* loops keep: what is queued has been seen and is ordered by size, and    *)
(* every proposal before the head of the queue has been expanded over      *)
(* every package it may move.                                              *)
(***************************************************************************)
EXTENDS MCUpgrade, WellFoundedInduction, FunctionTheorems, FiniteSetTheorems, SequenceTheorems, TLAPS

-----------------------------------------------------------------------------
(* Extremes, sequences without repetition, and sets in order.              *)

\* A set of natural numbers that is not empty has a least element ...
LEMMA MinIsLeast ==
  ASSUME NEW S \in SUBSET Nat, S # {}
  PROVE  Min(S) \in S /\ \A v \in S : Min(S) <= v
<1>1. PICK x \in S : \A y \in S : ~(<<y, x>> \in OpToRel(<, Nat))
  BY NatLessThanWellFounded, WFMin
<1>2. \A y \in Nat : y < x => <<y, x>> \in OpToRel(<, Nat)
  <2> SUFFICES ASSUME NEW y \in Nat, y < x PROVE <<y, x>> \in OpToRel(<, Nat)
    OBVIOUS
  <2>1. <<y, x>> \in Nat \X Nat /\ <<y, x>>[1] = y /\ <<y, x>>[2] = x
    OBVIOUS
  <2> QED BY ONLY <2>1, y < x, Zenon DEF OpToRel
<1>3. \A y \in S : ~(y < x)
  BY <1>1, <1>2, Zenon
<1>4. \A y \in S : x <= y
  BY <1>3
<1> QED BY <1>4 DEF Min

\* ... and a greatest one if it is bounded.
LEMMA MaxIsGreatest ==
  ASSUME NEW n \in Nat, NEW S \in SUBSET (0 .. n), S # {}
  PROVE  Max(S) \in S /\ \A v \in S : v <= Max(S)
<1> DEFINE T == {n - v : v \in S}
<1>1. T \in SUBSET Nat /\ T # {}
  <2>1. \A v \in S : n - v \in Nat
    OBVIOUS
  <2> QED BY <2>1
<1>2. PICK t \in T : \A u \in T : t <= u
  <2> HIDE DEF T
  <2> QED BY <1>1, MinIsLeast
<1>3. PICK x \in S : t = n - x
  BY <1>2
<1>4. \A v \in S : v <= x
  <2> SUFFICES ASSUME NEW v \in S PROVE v <= x
    OBVIOUS
  <2>1. n - v \in T
    OBVIOUS
  <2>2. n - x <= n - v /\ v \in Int /\ x \in Int
    BY <1>2, <1>3, <2>1
  <2> QED BY <2>2
<1>5. \A v \in S : x >= v
  BY <1>4
<1>6. Max(S) \in S /\ \A v \in S : Max(S) >= v
  BY <1>5 DEF Max
<1> QED BY <1>6

Distinct(s) == \A i, j \in 1 .. Len(s) : s[i] = s[j] => i = j

\* A sequence without repetition has as many elements as places.
LEMMA DistinctCount ==
  ASSUME NEW X, NEW s \in Seq(X), Distinct(s)
  PROVE  IsFiniteSet(ToSet(s)) /\ Cardinality(ToSet(s)) = Len(s) /\ ToSet(s) \subseteq X
<1> DEFINE n == Len(s)
           S == ToSet(s)
<1>1. n \in Nat /\ DOMAIN s = 1 .. n /\ S = {s[i] : i \in 1 .. n} /\ S \subseteq X
  BY DEF ToSet
<1>2. s \in [1 .. n -> S]
  BY <1>1
<1>3. s \in Injection(1 .. n, S)
  BY <1>2, Fun_IsInj DEF Distinct
<1>4. s \in Surjection(1 .. n, S)
  BY <1>1, <1>2 DEF Surjection
<1>5. s \in Bijection(1 .. n, S)
  BY <1>3, <1>4 DEF Bijection
<1>6. ExistsBijection(1 .. n, S)
  BY <1>5 DEF ExistsBijection
<1> HIDE DEF n, S
<1>7. Cardinality(S) = n
  BY <1>1, <1>6, FS_CountingElements
<1>8. IsFiniteSet(S)
  BY <1>1, <1>6, FS_NatBijection
<1> QED BY <1>1, <1>7, <1>8 DEF n, S

\* Taking no more than n places, all if there are no more.
LEMMA TakeTakes ==
  ASSUME NEW X, NEW s \in Seq(X), Distinct(s), NEW n \in Nat
  PROVE  /\ Take(s, n) \in Seq(X) /\ Distinct(Take(s, n)) /\ ToSet(Take(s, n)) \subseteq ToSet(s)
         /\ Len(Take(s, n)) = IF Len(s) < n THEN Len(s) ELSE n
         /\ Len(s) <= n => Take(s, n) = s
         /\ \A i \in 1 .. Len(Take(s, n)) : Take(s, n)[i] = s[i]
<1> DEFINE m == IF Len(s) < n THEN Len(s) ELSE n
           t == Take(s, n)
<1>1. m \in 0 .. Len(s) /\ Len(s) \in Nat /\ DOMAIN s = 1 .. Len(s)
  OBVIOUS
<1>2. t = SubSeq(s, 1, m)
  BY DEF Take
<1> HIDE DEF m, t
<1>3. t \in Seq(X) /\ Len(t) = m /\ \A i \in 1 .. m : t[i] = s[i]
  BY <1>1, <1>2
<1>4. Distinct(t)
  BY <1>1, <1>3 DEF Distinct
<1>5. ToSet(t) \subseteq ToSet(s)
  BY <1>1, <1>3 DEF ToSet
<1>6. Len(s) <= n => t = s
  <2> SUFFICES ASSUME Len(s) <= n PROVE t = s
    OBVIOUS
  <2>1. m = Len(s)
    <3>1. Len(s) \in Int /\ n \in Int /\ Len(s) <= n
      BY <1>1
    <3>2. Len(s) < n \/ Len(s) = n
      BY ONLY <3>1
    <3> QED BY <3>2 DEF m
  <2> QED BY <1>2, <1>3, <2>1, SeqEqual
<1> QED BY <1>3, <1>4, <1>5, <1>6 DEF t, m

Above(S, x) == Cardinality({w \in S : w > x})

\* Fewer elements are above a larger one.
LEMMA AboveIsBounded ==
  ASSUME NEW S \in SUBSET Nat, IsFiniteSet(S), NEW x \in S
  PROVE  /\ Above(S, x) \in 0 .. (Cardinality(S) - 1)
         /\ \A y \in S : x < y => Above(S, y) < Above(S, x)
<1> DEFINE X == {w \in S : w > x}
<1>1. X \in SUBSET S /\ x \notin X
  OBVIOUS
<1>2. IsFiniteSet(X) /\ Cardinality(X) <= Cardinality(S) /\ (Cardinality(S) = Cardinality(X) => S = X)
  BY <1>1, FS_Subset
<1>3. Cardinality(X) \in Nat /\ Cardinality(S) \in Nat
  BY <1>2, FS_CardinalityType
<1>4. Cardinality(S) # Cardinality(X)
  BY <1>1, <1>2
<1>5. \A y \in S : x < y => Above(S, y) < Above(S, x)
  <2> SUFFICES ASSUME NEW y \in S, x < y PROVE Above(S, y) < Above(S, x)
    OBVIOUS
  <2> DEFINE Y == {w \in S : w > y}
  <2>1. Y \in SUBSET X
    <3> SUFFICES ASSUME NEW w \in S, w > y PROVE w > x
      OBVIOUS
    <3>1. w \in Nat /\ y \in Nat /\ x \in Nat
      OBVIOUS
    <3> QED BY <3>1
  <2>2. y \in X /\ y \notin Y
    OBVIOUS
  <2>3. IsFiniteSet(Y) /\ Cardinality(Y) <= Cardinality(X) /\ (Cardinality(X) = Cardinality(Y) => X = Y)
    <3> HIDE DEF X, Y
    <3> QED BY <1>2, <2>1, FS_Subset
  <2>4. Cardinality(Y) \in Nat
    BY <2>3, FS_CardinalityType
  <2>5. Cardinality(Y) # Cardinality(X)
    BY <2>2, <2>3
  <2>6. Above(S, y) = Cardinality(Y) /\ Above(S, x) = Cardinality(X)
    BY DEF Above
  <2> HIDE DEF X, Y
  <2> QED BY <1>3, <2>3, <2>4, <2>5, <2>6
<1>6. Above(S, x) = Cardinality(X)
  BY DEF Above
<1> HIDE DEF X
<1> QED BY <1>2, <1>3, <1>4, <1>5, <1>6

\* A set in descending order has each of its elements once.
LEMMA DescendingHasAll ==
  ASSUME NEW S \in SUBSET Nat, IsFiniteSet(S)
  PROVE  /\ Descending(S) \in Seq(S) /\ Distinct(Descending(S)) /\ ToSet(Descending(S)) = S
         /\ Len(Descending(S)) = Cardinality(S)
<1> DEFINE n == Cardinality(S)
           place == [x \in S |-> Above(S, x) + 1]
<1>1. n \in Nat
  BY FS_CardinalityType
<1>2. place \in [S -> 1 .. n]
  <2> SUFFICES ASSUME NEW x \in S PROVE Above(S, x) + 1 \in 1 .. n
    OBVIOUS
  <2>1. Above(S, x) \in 0 .. (n - 1)
    BY AboveIsBounded
  <2> QED BY <1>1, <2>1
<1>3. \A x, y \in S : place[x] = place[y] => x = y
  <2> SUFFICES ASSUME NEW x \in S, NEW y \in S, x < y
               PROVE  place[x] # place[y]
    OBVIOUS
  <2>1. Above(S, y) < Above(S, x) /\ Above(S, x) \in Int /\ Above(S, y) \in Int
    BY AboveIsBounded, <1>1
  <2> QED BY <2>1
<1> HIDE DEF place
<1>4. place \in Injection(S, 1 .. n)
  BY <1>2, <1>3, Fun_IsInj
<1>5. IsFiniteSet(1 .. n) /\ Cardinality(1 .. n) = n
  BY <1>1, FS_Interval
<1>6. place \in Surjection(S, 1 .. n)
  BY <1>4, <1>5, FS_Injection
<1>7. \A i \in 1 .. n : \E x \in S : place[x] = i
  BY <1>6, Fun_SurjectionProperties
<1>8. \A x \in S : place[x] = Cardinality({w \in S : w > x}) + 1 /\ Cardinality({w \in S : w > x}) \in Int
  <2> TAKE x \in S
  <2>1. Above(S, x) \in Int
    BY AboveIsBounded, <1>1
  <2> QED BY <2>1 DEF place, Above
<1> DEFINE d == Descending(S)
<1>9. d = [i \in 1 .. n |-> CHOOSE v \in S : Cardinality({w \in S : w > v}) = i - 1]
  BY DEF Descending
<1>10. \A i \in 1 .. n : d[i] \in S /\ place[d[i]] = i
  <2> SUFFICES ASSUME NEW i \in 1 .. n PROVE d[i] \in S /\ place[d[i]] = i
    OBVIOUS
  <2>1. \E x \in S : Cardinality({w \in S : w > x}) = i - 1
    BY <1>7, <1>8
  <2>2. d[i] \in S /\ Cardinality({w \in S : w > d[i]}) = i - 1
    BY <1>9, <2>1
  <2>3. place[d[i]] = (i - 1) + 1
    BY <1>8, <2>2
  <2> QED BY <2>2, <2>3
<1>11. DOMAIN d = 1 .. n
  BY <1>9
<1> HIDE DEF d
<1>12. d \in [1 .. n -> S]
  BY <1>9, <1>10
<1>13. d \in Seq(S) /\ Len(d) = n
  BY <1>1, <1>12
<1>14. Distinct(d)
  BY <1>10, <1>13 DEF Distinct
<1>15. ToSet(d) = S
  <2>1. \A x \in S : d[place[x]] = x
    BY <1>2, <1>3, <1>10
  <2>2. ToSet(d) = {d[i] : i \in 1 .. n}
    BY <1>11 DEF ToSet
  <2>3. \A x \in S : place[x] \in 1 .. n
    BY <1>2
  <2> QED BY <1>10, <2>1, <2>2, <2>3
<1> QED BY <1>13, <1>14, <1>15 DEF d

-----------------------------------------------------------------------------
\* The greatest version of a set, or none.
LEMMA HighestIsGreatest ==
  ASSUME NEW S \in SUBSET KnownVersions
  PROVE  /\ S = {} => Highest(S) = None
         /\ S # {} => Highest(S) \in S /\ \A v \in S : v <= Highest(S)
         /\ Highest(S) \in KnownVersions
<1>1. NVersions \in Nat /\ None = 0 /\ KnownVersions \subseteq 0 .. NVersions /\ None \in KnownVersions
  BY ChoiceAssumption DEF KnownVersions, Versions, None
<1>2. CASE S = {}
  BY <1>1, <1>2 DEF Highest
<1>3. CASE S # {}
  <2>1. Max(S) \in S /\ \A v \in S : v <= Max(S)
    BY <1>1, <1>3, MaxIsGreatest
  <2> QED BY <1>3, <2>1 DEF Highest
<1> QED BY <1>2, <1>3

\* The first that is given.
LEMMA FirstOfGiven ==
  ASSUME NEW X, NEW s \in Seq(X)
  PROVE  \/ FirstOf(s) = None /\ \A i \in 1 .. Len(s) : s[i] = None
         \/ \E i \in 1 .. Len(s) : /\ FirstOf(s) = s[i] /\ s[i] # None
                                   /\ \A j \in 1 .. (i - 1) : s[j] = None
<1> DEFINE given == {i \in DOMAIN s : s[i] # None}
<1>1. DOMAIN s = 1 .. Len(s) /\ Len(s) \in Nat
  OBVIOUS
<1>2. FirstOf(s) = IF given = {} THEN None ELSE s[Min(given)]
  BY DEF FirstOf
<1>3. CASE given = {}
  BY <1>1, <1>2, <1>3
<1>4. CASE given # {}
  <2>1. Min(given) \in given /\ \A v \in given : Min(given) <= v
    <3>1. given \in SUBSET Nat
      BY <1>1
    <3> HIDE DEF given
    <3> QED BY <1>4, <3>1, MinIsLeast
  <2> DEFINE m == Min(given)
  <2>2. m \in 1 .. Len(s) /\ s[m] # None
    BY <1>1, <2>1
  <2>3. \A j \in 1 .. (m - 1) : s[j] = None
    <3> SUFFICES ASSUME NEW j \in 1 .. (m - 1), s[j] # None PROVE FALSE
      OBVIOUS
    <3>1. j \in given
      BY <1>1, <2>2
    <3> HIDE DEF given
    <3> QED BY <2>1, <2>2, <3>1
  <2> HIDE DEF given
  <2> QED BY <1>2, <1>4, <2>2, <2>3
<1> QED BY <1>3, <1>4

\* Of two candidates the second counts only when the first is not given.
LEMMA FirstOfTwo ==
  ASSUME NEW a, NEW b
  PROVE  FirstOf(<<a, b>>) = IF a # None THEN a ELSE b
<1> DEFINE s == <<a, b>>
<1>1. s \in Seq({a, b}) /\ Len(s) = 2 /\ s[1] = a /\ s[2] = b
  OBVIOUS
<1> HIDE DEF s
<1>2. 1 .. 2 = {1, 2} /\ 1 .. (2 - 1) = {1}
  OBVIOUS
<1>3. \/ FirstOf(s) = None /\ \A i \in 1 .. Len(s) : s[i] = None
      \/ \E i \in 1 .. Len(s) : FirstOf(s) = s[i] /\ s[i] # None /\ \A j \in 1 .. (i - 1) : s[j] = None
  BY <1>1, FirstOfGiven
<1> QED BY <1>1, <1>2, <1>3 DEF s

\* Only a target that is ahead is ever offered.
LEMMA SecurityTargetIsSafe ==
  ASSUME NEW f
  PROVE  SecurityTarget(f) # None => IsSafeUpgradeTarget(SecurityTarget(f), f.installed)
BY DEF SecurityTarget, SelfComputedFix

\* A target that is no security fix is ahead of what is installed, too.
LEMMA GeneralTargetIsSafe ==
  ASSUME NEW current, NEW wanted, NEW latest
  PROVE  GeneralUpdateTarget(current, wanted, latest) # None =>
           IsSafeUpgradeTarget(GeneralUpdateTarget(current, wanted, latest), current)
BY DEF GeneralUpdateTarget

\* An offered target is the one that is asked for, and ahead.
LEMMA AheadIsAccepted ==
  ASSUME NEW row, NEW target, NEW published, IsSafeUpgradeTarget(target, row.current),
         target = row.upgradeTo \/ target \in published
  PROVE  ValidateUpgradeRequest(row, TRUE, target, published) = "ok"
BY DEF ValidateUpgradeRequest, IsSafeUpgradeTarget

\* A row's parts.
LEMMA RowParts ==
  ASSUME NEW f
  PROVE  /\ Row(f).current = f.installed /\ Row(f).advisories = f.advisories
         /\ Row(f).upgradeTo # None => IsSafeUpgradeTarget(Row(f).upgradeTo, f.installed)
         /\ Row(f).reason \in {"security-fix", "update", "none"}
         /\ Row(f).reason = "security-fix" => Row(f).upgradeTo = SecurityTarget(f) /\ SecurityTarget(f) # None
         /\ ~f.answers => Row(f).wanted = None /\ Row(f).latest = None
<1> DEFINE wanted == IF f.answers THEN ResolveWanted(f) ELSE None
           latest == IF f.answers THEN ResolveLatest(f) ELSE None
           security == SecurityTarget(f)
           general == GeneralUpdateTarget(f.installed, wanted, latest)
           row == Row(f)
<1>1. row = [current |-> f.installed, wanted |-> wanted, latest |-> latest, advisories |-> f.advisories,
             upgradeTo |-> FirstOf(<<security, general>>),
             reason |-> IF security # None THEN "security-fix" ELSE IF general # None THEN "update" ELSE "none"]
  BY DEF Row
<1>2. ~f.answers => wanted = None /\ latest = None
  OBVIOUS
<1>3. general # None => IsSafeUpgradeTarget(general, f.installed)
  BY GeneralTargetIsSafe
<1>4. security # None => IsSafeUpgradeTarget(security, f.installed)
  BY SecurityTargetIsSafe
<1> HIDE DEF wanted, latest, security, general, row
<1>5. FirstOf(<<security, general>>) = IF security # None THEN security ELSE general
  BY FirstOfTwo
<1>6. row.upgradeTo # None => IsSafeUpgradeTarget(row.upgradeTo, f.installed)
  BY <1>1, <1>3, <1>4, <1>5
<1>7. row.reason = "security-fix" => row.upgradeTo = security /\ security # None
  BY <1>1, <1>5
<1> QED BY <1>1, <1>2, <1>6, <1>7 DEF row, security

-----------------------------------------------------------------------------
\* A fix of the program's own is the best of what the range admits that the package's own advisories spare.
LEMMA SelfComputedIsBest ==
  ASSUME NEW f \in RowQuestions, SelfComputedFix(f) # None
  PROVE  /\ SelfComputedFix(f) \in Admitted(f, f.published)
         /\ \A v \in Admitted(f, f.published) :
              v > SelfComputedFix(f) => \E a \in f.advisories : a.depth = 1 /\ v \in a.vulnerable
<1> DEFINE own == {a \in f.advisories : a.depth = 1}
           loaded == IF f.loads THEN f.published ELSE {}
           spared == {v \in Admitted(f, loaded) : \A a \in own : v \notin a.vulnerable}
           best == Highest(spared)
<1>1. best = SelfComputedFix(f) /\ best # None
  BY DEF SelfComputedFix
<1>2. f.published \in SUBSET Versions /\ NVersions \in Nat
  BY ChoiceAssumption DEF RowQuestions
<1>3. spared \in SUBSET KnownVersions
  BY <1>2 DEF KnownVersions, Admitted
<1>4. spared # {} /\ best \in spared /\ \A v \in spared : v <= best
  <2> HIDE DEF spared
  <2> QED BY <1>1, <1>3, HighestIsGreatest
<1>5. f.loads
  BY <1>4 DEF Admitted
<1>6. SUFFICES ASSUME NEW v \in Admitted(f, f.published), v > best,
                      \A a \in own : v \notin a.vulnerable
               PROVE  FALSE
  BY <1>1, <1>4, <1>5
<1>7. v \in spared
  BY <1>5, <1>6
<1>8. v \in Int /\ best \in Int
  <2>1. best \in f.published /\ v \in f.published
    BY <1>4, <1>5, <1>6 DEF Admitted
  <2> HIDE DEF best
  <2> QED BY <1>2, <2>1 DEF Versions
<1> HIDE DEF best, spared
<1> QED BY <1>4, <1>6, <1>7, <1>8

\* The first patched version is published, ahead, spared, and nothing before it is.
LEMMA FirstPatchedIsFirst ==
  ASSUME NEW f \in RowQuestions, NEW vulnerable, FirstPatched(f, vulnerable).status = "known"
  PROVE  LET first == FirstPatched(f, vulnerable)
         IN /\ first.version \in f.published \ vulnerable /\ first.version > f.installed
            /\ \A v \in f.published : v > f.installed /\ v < first.version => v \in vulnerable \/ ~IsStable(v)
<1> DEFINE fixed == {v \in f.published \ vulnerable :
                       v > f.installed /\ (IsStable(v) \/ f.installed \in Prereleases)}
<1>1. f.published \in SUBSET Versions /\ NVersions \in Nat
  BY ChoiceAssumption DEF RowQuestions
<1>2. fixed # {} /\ FirstPatched(f, vulnerable).version = Min(fixed)
  BY DEF FirstPatched
<1>3. fixed \in SUBSET Nat
  BY <1>1 DEF Versions
<1>4. Min(fixed) \in fixed /\ \A v \in fixed : Min(fixed) <= v
  <2> HIDE DEF fixed
  <2> QED BY <1>2, <1>3, MinIsLeast
<1> DEFINE m == Min(fixed)
<1>5. m \in f.published \ vulnerable /\ m > f.installed /\ m \in Nat
  <2>1. m \in fixed
    BY <1>4
  <2> HIDE DEF m
  <2> QED BY <1>3, <2>1
<1>6. \A v \in f.published : v > f.installed /\ v < m => v \in vulnerable \/ ~IsStable(v)
  <2> SUFFICES ASSUME NEW v \in f.published, v > f.installed, v < m, v \notin vulnerable, IsStable(v) PROVE FALSE
    OBVIOUS
  <2>1. v \in fixed
    OBVIOUS
  <2>2. m <= v
    BY <1>4, <2>1
  <2>3. v \in Nat
    BY <1>1 DEF Versions
  <2> HIDE DEF m
  <2> QED BY <1>5, <2>2, <2>3
<1> HIDE DEF m
<1> QED BY <1>2, <1>5, <1>6 DEF m

\* A row that says it is up to date knows of nothing newer.
LEMMA UpToDateIsTrue ==
  ASSUME NEW f, NEW r, ActionState(Row(f), r) = "up-to-date"
  PROVE  /\ f.advisories = {} /\ f.answers
         /\ \A v \in {Row(f).wanted, Row(f).latest} : v \in {None, Row(f).current}
<1>1. /\ Row(f).current = f.installed /\ Row(f).advisories = f.advisories
      /\ Row(f).reason \in {"security-fix", "update", "none"}
      /\ ~f.answers => Row(f).wanted = None /\ Row(f).latest = None
  BY RowParts
<1>2. \A x \in DOMAIN Remediations : Remediations[x] # "up-to-date"
  BY DEF Remediations
<1>3. /\ Row(f).upgradeTo = None /\ Row(f).current # None /\ Row(f).advisories = {}
      /\ ~(Row(f).wanted = None /\ Row(f).latest = None) /\ ~RowHasUpdate(Row(f))
  BY <1>1, <1>2 DEF ActionState
<1> QED BY <1>1, <1>3 DEF RowHasUpdate

\* A transitive fix is looked for exactly where the row says so.
LEMMA TransitiveFixIsShown ==
  ASSUME NEW f, NEW r \in {"none", "analyzing", "resolved", "remains", "unknown"}
  PROVE  HasEligibleTransitiveFix(Row(f)) =
           (ActionState(Row(f), r) \in {"transitive-remediation", "remediation-analyzing", "remediation-resolved",
                                        "remediation-unknown"}
            \/ (r = "remains" /\ ActionState(Row(f), r) = "no-direct-fix" /\ \E a \in f.advisories : a.depth > 1))
<1> DEFINE row == Row(f)
           transitive == \E a \in f.advisories : a.depth > 1
           remedies == {"transitive-remediation", "remediation-analyzing", "remediation-resolved", "remediation-unknown"}
<1>1. row.current = f.installed /\ row.advisories = f.advisories /\ row.reason \in {"security-fix", "update", "none"}
  BY RowParts
<1>2. HasEligibleTransitiveFix(row) <=> row.upgradeTo = None /\ row.current # None /\ transitive
  BY <1>1 DEF HasEligibleTransitiveFix
<1>3. /\ DOMAIN Remediations = {"none", "analyzing", "resolved", "unknown"}
      /\ \A x \in DOMAIN Remediations : Remediations[x] \in remedies
  BY DEF Remediations
<1>4. transitive => f.advisories # {}
  OBVIOUS
<1> HIDE DEF row
<1>5. CASE HasEligibleTransitiveFix(row)
  <2>1. ActionState(row, r) = IF r \in DOMAIN Remediations THEN Remediations[r] ELSE "no-direct-fix"
    BY <1>1, <1>2, <1>4, <1>5 DEF ActionState
  <2>2. ActionState(row, r) \in remedies \/ (r = "remains" /\ ActionState(row, r) = "no-direct-fix")
    BY <1>3, <2>1
  <2> QED BY <1>2, <1>5, <2>2 DEF row
<1>6. CASE ~HasEligibleTransitiveFix(row)
  <2>1. CASE row.upgradeTo # None
    BY <1>1, <1>6, <2>1 DEF ActionState, row, HasEligibleTransitiveFix
  <2>2. CASE row.upgradeTo = None /\ row.current = None
    BY <1>6, <2>2 DEF ActionState, row, HasEligibleTransitiveFix
  <2>3. CASE ~transitive
    <3>1. ActionState(row, r) \in {row.reason, "unavailable", "no-direct-fix", "up-to-date"}
      BY <1>1, <2>3 DEF ActionState
    <3> QED BY <1>1, <1>6, <2>3, <3>1 DEF row, HasEligibleTransitiveFix
  <2> QED BY <1>2, <1>6, <2>1, <2>2, <2>3
<1> QED BY <1>5, <1>6

\* Every row is honest.
LEMMA RowsAreHonest ==
  ASSUME NEW f \in RowQuestions
  PROVE  RowIsHonest(f, Row(f))
<1>1. Row(f).upgradeTo # None =>
        /\ Row(f).upgradeTo > Row(f).current
        /\ ValidateUpgradeRequest(Row(f), TRUE, Row(f).upgradeTo, {}) = "ok"
  <2> SUFFICES ASSUME Row(f).upgradeTo # None
               PROVE  /\ Row(f).upgradeTo > Row(f).current
                      /\ ValidateUpgradeRequest(Row(f), TRUE, Row(f).upgradeTo, {}) = "ok"
    OBVIOUS
  <2>1. IsSafeUpgradeTarget(Row(f).upgradeTo, Row(f).current)
    BY RowParts
  <2> QED BY <2>1, AheadIsAccepted DEF IsSafeUpgradeTarget
<1>2. Row(f).reason = "security-fix" /\ f.fix # "version" =>
        /\ Row(f).upgradeTo \in Admitted(f, f.published)
        /\ \A v \in Admitted(f, f.published) :
             v > Row(f).upgradeTo => \E a \in f.advisories : a.depth = 1 /\ v \in a.vulnerable
  <2> SUFFICES ASSUME Row(f).reason = "security-fix", f.fix # "version"
               PROVE  /\ Row(f).upgradeTo \in Admitted(f, f.published)
                      /\ \A v \in Admitted(f, f.published) :
                           v > Row(f).upgradeTo =>
                             \E a \in f.advisories : a.depth = 1 /\ v \in a.vulnerable
    OBVIOUS
  <2>1. Row(f).upgradeTo = SecurityTarget(f) /\ SecurityTarget(f) # None
    BY RowParts
  <2>2. SecurityTarget(f) = SelfComputedFix(f)
    BY <2>1 DEF SecurityTarget, RowQuestions
  <2> QED BY <2>1, <2>2, SelfComputedIsBest
<1>3. \A a \in f.advisories :
        LET first == FirstPatched(f, a.vulnerable)
        IN first.status = "known" => /\ first.version \in f.published \ a.vulnerable /\ first.version > f.installed
                                     /\ \A v \in f.published : v > f.installed /\ v < first.version =>
                                          v \in a.vulnerable \/ ~IsStable(v)
  BY FirstPatchedIsFirst
<1>4. \A r \in {"none", "analyzing", "resolved", "remains", "unknown"} :
        /\ ActionState(Row(f), r) = "up-to-date" =>
             /\ f.advisories = {} /\ f.answers
             /\ \A v \in {Row(f).wanted, Row(f).latest} : v \in {None, Row(f).current}
        /\ HasEligibleTransitiveFix(Row(f)) =
             (ActionState(Row(f), r) \in {"transitive-remediation", "remediation-analyzing", "remediation-resolved",
                                          "remediation-unknown"}
              \/ (r = "remains" /\ ActionState(Row(f), r) = "no-direct-fix" /\ \E a \in f.advisories : a.depth > 1))
  <2> TAKE r \in {"none", "analyzing", "resolved", "remains", "unknown"}
  <2> QED BY UpToDateIsTrue, TransitiveFixIsShown
<1> QED BY <1>1, <1>2, <1>3, <1>4 DEF RowIsHonest

-----------------------------------------------------------------------------
\* A change is confirmed exactly when everything says so.
LEMMA ApplicationsAreProven ==
  ASSUME NEW f, IsApplyQuestion(f)
  PROVE  ApplicationIsProven(f)
<1> DEFINE block == Classification(f.manifest)
           staged == StagedManifest(f.manifest, block, f.target)
           depth == f.lock.depth
           levels(lock) == {d \in 0 .. lock.depth : lock.entries[d] # "none"}
           written == [f.lock EXCEPT !.importer = staged, !.entries[f.lock.depth] = "version",
                                     !.versions[f.lock.depth] = f.target, !.flag = block]
<1>1. /\ f.manifest \in [Blocks -> SUBSET KnownVersions] /\ f.block \in Blocks /\ f.target \in Versions
      /\ depth \in Nat /\ f.target # None /\ None = 0
      /\ f.lock \in [format : {"v1", "v3", "pnpm", "other"}, depth : {depth},
                     entries : [0..depth -> {"none", "link", "version"}], versions : [0..depth -> Versions],
                     flag : Blocks, importer : [Blocks -> SUBSET KnownVersions]]
  BY ChoiceAssumption DEF IsApplyQuestion, LockStates, Versions, None
<1>2. block \in Blocks
  BY DEF Classification, Blocks
<1> HIDE DEF block
<1>3. staged \in [Blocks -> SUBSET KnownVersions] /\ staged[block] = {f.target}
      /\ \A b \in Blocks \ {block} : staged[b] = f.manifest[b]
  BY <1>1, <1>2 DEF StagedManifest, KnownVersions
<1>4. {f.target} # Undeclared
  BY <1>1 DEF Undeclared
<1>5. Classification(staged) = block /\ Declared(staged)
  <2> HIDE DEF staged
  <2>1. block = IF f.manifest["optional"] # Undeclared THEN "optional"
                ELSE IF f.manifest["prod"] # Undeclared THEN "prod" ELSE "dev"
    BY DEF block, Classification
  <2>2. Classification(staged) = block
    BY <1>3, <1>4, <2>1 DEF Classification, Blocks
  <2> QED BY <1>2, <1>3, <1>4, <2>2 DEF Declared
<1> HIDE DEF staged, depth
<1>6. /\ written.format = f.lock.format /\ written.depth = depth /\ written.importer = staged
      /\ written.entries[depth] = "version" /\ written.versions[depth] = f.target /\ written.flag = block
  BY <1>1 DEF depth
<1> HIDE DEF written
<1>7. f.lock.format \in {"v3", "pnpm"} \/ (f.lock.format = "v1" /\ depth = 0) =>
        AppliedConfirmed(staged, written, block, f.target)
  <2>1. depth \in levels(written) /\ levels(written) \in SUBSET (0 .. depth)
    BY <1>1, <1>6
  <2>2. Max(levels(written)) = depth
    <3>1. Max(levels(written)) \in levels(written) /\ \A v \in levels(written) : v <= Max(levels(written))
      <4> HIDE DEF levels
      <4> QED BY <1>1, <2>1, MaxIsGreatest
    <3>2. Max(levels(written)) \in 0 .. depth /\ depth <= Max(levels(written))
      <4> HIDE DEF levels
      <4> QED BY <2>1, <3>1
    <3> HIDE DEF levels
    <3> QED BY <1>1, <3>2
  <2>3. NpmResolved(written) = f.target
    <3>1. levels(written) # {} /\ written.entries[Max(levels(written))] = "version"
          /\ written.versions[Max(levels(written))] = f.target
      <4> HIDE DEF levels
      <4> QED BY <1>6, <2>1, <2>2
    <3> QED BY <3>1 DEF NpmResolved
  <2> QED BY <1>3, <1>5, <1>6, <2>3 DEF AppliedConfirmed, LockEvidence
<1>8. AppliedConfirmed(f.manifest, f.lock, f.block, f.target) =>
        /\ f.block = block /\ f.target \in f.manifest[block]
        /\ \E d \in 0..depth : /\ f.lock.entries[d] = "version" /\ f.lock.versions[d] = f.target
                               /\ \A e \in d+1..depth : f.lock.entries[e] = "none"
  <2> SUFFICES ASSUME AppliedConfirmed(f.manifest, f.lock, f.block, f.target)
               PROVE  /\ f.block = block /\ f.target \in f.manifest[block]
                      /\ \E d \in 0..depth : /\ f.lock.entries[d] = "version" /\ f.lock.versions[d] = f.target
                                             /\ \A e \in d+1..depth : f.lock.entries[e] = "none"
    OBVIOUS
  <2>1. f.block = block /\ f.target \in f.manifest[block]
    BY DEF AppliedConfirmed, block
  <2>2. NpmResolved(f.lock) = f.target
    BY <1>1 DEF AppliedConfirmed, LockEvidence
  <2> DEFINE L == levels(f.lock)
  <2>3. L # {} /\ f.lock.entries[Max(L)] = "version" /\ f.lock.versions[Max(L)] = f.target
    BY <1>1, <2>2 DEF NpmResolved
  <2>4. L \in SUBSET (0 .. depth) /\ \A d \in 0 .. depth : f.lock.entries[d] = "none" \/ d \in L
    BY DEF depth
  <2> HIDE DEF L
  <2>5. Max(L) \in L /\ \A v \in L : v <= Max(L)
    BY <1>1, <2>3, <2>4, MaxIsGreatest
  <2>6. \A e \in Max(L)+1..depth : f.lock.entries[e] = "none"
    <3> SUFFICES ASSUME NEW e \in Max(L)+1..depth, f.lock.entries[e] # "none" PROVE FALSE
      OBVIOUS
    <3>1. Max(L) \in 0 .. depth
      BY <2>4, <2>5
    <3>2. e \in 0 .. depth
      BY <1>1, <3>1
    <3>3. e <= Max(L)
      BY <2>4, <2>5, <3>2
    <3> QED BY <1>1, <3>1, <3>2, <3>3
  <2> QED BY <2>1, <2>3, <2>4, <2>5, <2>6
<1> QED BY <1>3, <1>5, <1>7, <1>8 DEF ApplicationIsProven, block, staged, written, depth

-----------------------------------------------------------------------------
\* A menu is asked of published tags; what the registry tells of it may be the tags alone.
IsMenuOf(g) ==
  /\ g.published \in SUBSET Versions /\ g.installed \in Versions
  /\ {g.lts, g.latest, g.fallback} \subseteq KnownVersions
Stable(g) == {v \in g.published : v > g.installed /\ IsStable(v)}
Pre(g) == {v \in g.published : v > g.installed /\ ~IsStable(v)}
Tagged(g) == {ValidPublishedTag(g, g.lts), ValidPublishedTag(g, g.latest), ValidPublishedTag(g, g.fallback)} \ {None}
RecommendedOf(g) ==
  FirstOf(<<ValidPublishedTag(g, g.lts), ValidPublishedTag(g, g.latest), ValidPublishedTag(g, g.fallback),
            Highest(Stable(g))>>)

\* Versions are the numbers from one, so their sets are finite.
LEMMA VersionsAreNumbers ==
  /\ NVersions \in Nat /\ None = 0 /\ None \notin Versions /\ Versions = 1 .. NVersions
  /\ IsFiniteSet(Versions) /\ \A S \in SUBSET Versions : IsFiniteSet(S) /\ S \in SUBSET Nat /\ Cardinality(S) \in Nat
  /\ RecentTargets \in Nat /\ StableTargets \in Nat /\ PrereleaseTargets \in Nat /\ RecentTargets + 3 <= StableTargets
<1>1. NVersions \in Nat /\ None = 0 /\ None \notin Versions /\ Versions = 1 .. NVersions
  BY ChoiceAssumption DEF Versions, None
<1>2. IsFiniteSet(Versions)
  BY <1>1, FS_Interval
<1>3. \A S \in SUBSET Versions : IsFiniteSet(S) /\ S \in SUBSET Nat /\ Cardinality(S) \in Nat
  <2> TAKE S \in SUBSET Versions
  <2>1. IsFiniteSet(S)
    BY <1>2, FS_Subset
  <2> QED BY <1>1, <2>1, FS_CardinalityType
<1> QED BY <1>1, <1>2, <1>3, ChoiceAssumption

\* The recommendation is stable, and there is one if anything stable is newer.
LEMMA RecommendedIsStable ==
  ASSUME NEW g, IsMenuOf(g)
  PROVE  /\ Tagged(g) \subseteq Stable(g)
         /\ RecommendedOf(g) \in Stable(g) \/ (RecommendedOf(g) = None /\ Stable(g) = {})
         /\ RecommendedOf(g) \in Tagged(g) \cup {None} \/ Tagged(g) = {}
<1> DEFINE lts == ValidPublishedTag(g, g.lts)
           latest == ValidPublishedTag(g, g.latest)
           fallback == ValidPublishedTag(g, g.fallback)
           highest == Highest(Stable(g))
           s == <<lts, latest, fallback, highest>>
<1>1. Stable(g) \in SUBSET Versions /\ Stable(g) \in SUBSET KnownVersions
  BY DEF IsMenuOf, Stable, KnownVersions
<1>2. \A v : ValidPublishedTag(g, v) \in Stable(g) \cup {None}
  BY DEF ValidPublishedTag, Stable
<1>3. highest = None <=> Stable(g) = {}
  BY <1>1, HighestIsGreatest, VersionsAreNumbers
<1>4. highest \in Stable(g) \cup {None}
  BY <1>1, <1>3, HighestIsGreatest
<1>5. {lts, latest, fallback} \subseteq Stable(g) \cup {None}
  BY <1>2
<1>6. Tagged(g) = {lts, latest, fallback} \ {None}
  BY DEF Tagged
<1> HIDE DEF lts, latest, fallback, highest
<1>7. s \in Seq({lts, latest, fallback, highest}) /\ Len(s) = 4
      /\ s[1] = lts /\ s[2] = latest /\ s[3] = fallback /\ s[4] = highest
  OBVIOUS
<1> HIDE DEF s
<1>8. \/ FirstOf(s) = None /\ \A i \in 1 .. Len(s) : s[i] = None
      \/ \E i \in 1 .. Len(s) : FirstOf(s) = s[i] /\ s[i] # None /\ \A j \in 1 .. (i - 1) : s[j] = None
  BY <1>7, FirstOfGiven
<1>9. RecommendedOf(g) = FirstOf(s)
  BY DEF RecommendedOf, s, lts, latest, fallback, highest
<1>10. CASE FirstOf(s) = None /\ \A i \in 1 .. Len(s) : s[i] = None
  BY <1>3, <1>5, <1>6, <1>7, <1>9, <1>10
<1>11. ASSUME NEW i \in 1 .. Len(s), FirstOf(s) = s[i], s[i] # None, \A j \in 1 .. (i - 1) : s[j] = None
       PROVE  /\ RecommendedOf(g) \in Stable(g)
              /\ RecommendedOf(g) \in Tagged(g) \/ Tagged(g) = {}
  <2>1. i \in {1, 2, 3, 4}
    BY <1>7
  <2>2. i = 4 => lts = None /\ latest = None /\ fallback = None
    BY <1>7, <1>11
  <2> QED BY <1>4, <1>5, <1>6, <1>7, <1>9, <1>11, <2>1, <2>2
<1> QED BY <1>5, <1>6, <1>8, <1>10, <1>11

\* What is taken of a set in descending order.
LEMMA TakenOfASet ==
  ASSUME NEW S \in SUBSET Versions, NEW n \in Nat
  PROVE  LET t == Take(Descending(S), n)
         IN /\ t \in Seq(Versions) /\ Distinct(t) /\ ToSet(t) \subseteq S
            /\ IsFiniteSet(ToSet(t)) /\ Cardinality(ToSet(t)) = Len(t) /\ Len(t) \in Nat /\ Len(t) <= n
            /\ Len(t) < n \/ Cardinality(S) <= n => ToSet(t) = S
<1> DEFINE d == Descending(S)
           t == Take(d, n)
<1>1. IsFiniteSet(S) /\ S \in SUBSET Nat /\ Cardinality(S) \in Nat
  BY VersionsAreNumbers
<1>2. d \in Seq(S) /\ Distinct(d) /\ ToSet(d) = S /\ Len(d) = Cardinality(S)
  BY <1>1, DescendingHasAll
<1> HIDE DEF d
<1>3. /\ t \in Seq(S) /\ Distinct(t) /\ ToSet(t) \subseteq ToSet(d)
      /\ Len(t) = IF Len(d) < n THEN Len(d) ELSE n
      /\ Len(d) <= n => t = d
  BY <1>2, TakeTakes
<1> HIDE DEF t
<1>4. IsFiniteSet(ToSet(t)) /\ Cardinality(ToSet(t)) = Len(t)
  BY <1>3, DistinctCount
<1>5. t \in Seq(Versions) /\ Len(t) \in Nat
  BY <1>3
<1>6. Len(t) <= n /\ (Len(t) < n => Len(d) <= n)
  BY <1>1, <1>2, <1>3
<1> QED BY <1>1, <1>2, <1>3, <1>4, <1>5, <1>6 DEF t, d

\* One of three, or none.
LEMMA AtMostThree ==
  ASSUME NEW a, NEW b, NEW c
  PROVE  IsFiniteSet({a, b, c}) /\ Cardinality({a, b, c}) \in Nat /\ Cardinality({a, b, c}) <= 3
<1>1. IsFiniteSet({}) /\ Cardinality({}) = 0
  BY FS_EmptySet
<1>2. \A S, x : IsFiniteSet(S) => /\ IsFiniteSet(S \cup {x})
                                   /\ Cardinality(S \cup {x}) = IF x \in S THEN Cardinality(S) ELSE Cardinality(S) + 1
  BY FS_AddElement
<1>3. IsFiniteSet({} \cup {a}) /\ Cardinality({} \cup {a}) <= 1 /\ Cardinality({} \cup {a}) \in Nat
  BY <1>1, <1>2
<1> DEFINE A == {} \cup {a}
           B == A \cup {b}
<1>4. IsFiniteSet(B) /\ Cardinality(B) <= 2 /\ Cardinality(B) \in Nat
  <2> HIDE DEF A
  <2> QED BY <1>2, <1>3 DEF A
<1> HIDE DEF B
<1>5. IsFiniteSet(B \cup {c}) /\ Cardinality(B \cup {c}) <= 3 /\ Cardinality(B \cup {c}) \in Nat
  BY <1>2, <1>4
<1>6. B \cup {c} = {a, b, c}
  BY DEF B
<1> QED BY <1>5, <1>6

-----------------------------------------------------------------------------
\* A recommendation in front of the others in descending order has each of them once.
LEMMA RecommendedFirst ==
  ASSUME NEW S \in SUBSET Versions, NEW r
  PROVE  LET s == (IF r \in S THEN <<r>> ELSE <<>>) \o Descending(S \ {r})
         IN /\ s \in Seq(Versions) /\ Distinct(s) /\ ToSet(s) = S /\ Len(s) = Cardinality(S)
            /\ r \in S => s[1] = r
<1> DEFINE T == S \ {r}
           d == Descending(T)
<1>1. IsFiniteSet(T) /\ T \in SUBSET Versions /\ T \in SUBSET Nat /\ Cardinality(T) \in Nat
      /\ IsFiniteSet(S) /\ Cardinality(S) \in Nat
  BY VersionsAreNumbers
<1>2. d \in Seq(T) /\ Distinct(d) /\ ToSet(d) = T /\ Len(d) = Cardinality(T)
  <2> HIDE DEF T
  <2> QED BY <1>1, DescendingHasAll
<1>3. d \in Seq(Versions) /\ DOMAIN d = 1 .. Len(d) /\ Len(d) \in Nat /\ \A i \in 1 .. Len(d) : d[i] \in T
  <2> HIDE DEF T, d
  <2>1. DOMAIN d = 1 .. Len(d) /\ Len(d) \in Nat /\ \A i \in 1 .. Len(d) : d[i] \in T
    BY <1>2
  <2>2. d \in [1 .. Len(d) -> T]
    BY <1>2, LenProperties
  <2>3. d \in [1 .. Len(d) -> Versions]
    BY <1>1, <2>2
  <2> QED BY <2>1, <2>3
<1>4. \A x \in T : \E i \in 1 .. Len(d) : d[i] = x
  <2> HIDE DEF T, d
  <2> QED BY <1>2, <1>3 DEF ToSet
<1>5. T = S \ {r}
  OBVIOUS
<1> HIDE DEF T, d
<1>6. CASE r \in S
  <2> DEFINE s == <<r>> \o d
  <2>1. s \in Seq(Versions) /\ Len(s) = 1 + Len(d) /\ s[1] = r /\ \A i \in 1 .. Len(d) : s[i + 1] = d[i]
    BY <1>3, <1>6
  <2>2. \A i \in 2 .. Len(s) : i - 1 \in 1 .. Len(d) /\ s[i] = d[i - 1]
    <3> SUFFICES ASSUME NEW i \in 2 .. Len(s) PROVE i - 1 \in 1 .. Len(d) /\ s[i] = d[i - 1]
      OBVIOUS
    <3>1. i - 1 \in 1 .. Len(d) /\ (i - 1) + 1 = i
      BY <1>3, <2>1
    <3> HIDE DEF s
    <3> QED BY <2>1, <3>1
  <2> HIDE DEF s
  <2>3. DOMAIN s = 1 .. Len(s) /\ Len(s) \in Nat
    BY <2>1
  <2>4. \A i \in 1 .. Len(s) : i = 1 \/ i \in 2 .. Len(s)
    BY <2>3
  <2>5. ToSet(s) = S
    <3>1. \A i \in 1 .. Len(s) : s[i] \in S
      BY <1>3, <1>5, <1>6, <2>1, <2>2, <2>4
    <3>2. \A x \in S : \E i \in 1 .. Len(s) : s[i] = x
      <4> TAKE x \in S
      <4>1. CASE x = r
        BY <1>3, <2>1, <4>1
      <4>2. CASE x # r
        <5>1. PICK i \in 1 .. Len(d) : d[i] = x
          BY <1>4, <1>5, <4>2
        <5>2. i + 1 \in 1 .. Len(s)
          BY <1>3, <2>1
        <5> QED BY <2>1, <5>1, <5>2
      <4> QED BY <4>1, <4>2
    <3> QED BY <2>3, <3>1, <3>2 DEF ToSet
  <2>6. Distinct(s)
    <3> SUFFICES ASSUME NEW i \in 1 .. Len(s), NEW j \in 1 .. Len(s), s[i] = s[j] PROVE i = j
      BY DEF Distinct
    <3>1. CASE i \in 2 .. Len(s) /\ j \in 2 .. Len(s)
      <4>1. i - 1 = j - 1
        BY <1>2, <2>2, <3>1 DEF Distinct
      <4> QED BY <3>1, <4>1
    <3>2. CASE i = 1 /\ j \in 2 .. Len(s)
      BY <1>3, <1>5, <2>1, <2>2, <3>2
    <3>3. CASE j = 1 /\ i \in 2 .. Len(s)
      BY <1>3, <1>5, <2>1, <2>2, <3>3
    <3> QED BY <2>4, <3>1, <3>2, <3>3
  <2>7. Cardinality(S) = Len(s)
    BY <2>1, <2>5, <2>6, DistinctCount
  <2> QED BY <1>6, <2>1, <2>5, <2>6, <2>7 DEF s, d, T
<1>7. CASE r \notin S
  <2>1. T = S
    BY <1>5, <1>7
  <2>2. <<>> \o d = d
    BY <1>3
  <2> QED BY <1>2, <1>3, <1>7, <2>1, <2>2 DEF d, T
<1> QED BY <1>6, <1>7

Newest(g) == {v \in Stable(g) : \A w \in Stable(g) : Line(w) = Line(v) => w <= v}

\* Every stable version has a newest one of its line.
LEMMA NewestExists ==
  ASSUME NEW g, IsMenuOf(g), NEW v \in Stable(g)
  PROVE  \E w \in Newest(g) : Line(w) = Line(v) /\ w >= v
<1> DEFINE S == {w \in Stable(g) : Line(w) = Line(v)}
<1>1. S \in SUBSET (0 .. NVersions) /\ NVersions \in Nat /\ v \in S
  BY VersionsAreNumbers DEF IsMenuOf, Stable
<1>2. Max(S) \in S /\ \A w \in S : w <= Max(S)
  <2> HIDE DEF S
  <2> QED BY <1>1, MaxIsGreatest
<1>3. \A x, y \in 0 .. NVersions : x <= y => y >= x
  BY <1>1
<1> DEFINE m == Max(S)
<1>4. m \in S /\ \A w \in S : w <= m
  BY <1>2
<1> HIDE DEF m
<1>5. m \in Newest(g)
  BY <1>4 DEF Newest
<1>6. v <= m /\ v \in 0 .. NVersions /\ m \in 0 .. NVersions
  BY <1>1, <1>4
<1> QED BY <1>3, <1>4, <1>5, <1>6

\* The menu: what is in it, in which order, and what is left out.
LEMMA MenuParts ==
  ASSUME NEW g, IsMenuOf(g)
  PROVE  LET t == UpgradeTargets(g)
             menu == ToSet(t.menu)
             pre == ToSet(t.pre)
         IN /\ t.recommended = RecommendedOf(g)
            /\ t.menu \in Seq(Versions) /\ Distinct(t.menu) /\ Len(t.menu) <= StableTargets
            /\ t.pre \in Seq(Versions) /\ Distinct(t.pre) /\ Len(t.pre) <= PrereleaseTargets
            /\ Tagged(g) \subseteq menu /\ menu \subseteq Stable(g) /\ pre \subseteq Pre(g)
            /\ t.menu # <<>> => t.menu[1] = t.recommended
            /\ t.truncated <=> ~(Stable(g) \subseteq menu /\ Pre(g) \subseteq pre)
            /\ Len(t.menu) < StableTargets => Newest(g) \subseteq menu
<1> DEFINE rec == RecommendedOf(g)
           recent == ToSet(Take(Descending(Stable(g)), RecentTargets))
           three == {ValidPublishedTag(g, g.lts), ValidPublishedTag(g, g.latest), ValidPublishedTag(g, g.fallback)}
           named == ({rec} \cup three) \ {None}
           pinned == named \cup recent
           room == IF Cardinality(pinned) < StableTargets THEN StableTargets - Cardinality(pinned) ELSE 0
           more == ToSet(Take(Descending(Newest(g) \ pinned), room))
           chosen == pinned \cup more
           ordered == (IF rec \in chosen THEN <<rec>> ELSE <<>>) \o Descending(chosen \ {rec})
           menu == Take(ordered, StableTargets)
           pre == Take(Descending(Pre(g)), PrereleaseTargets)
           t == UpgradeTargets(g)
<1>1. t = [recommended |-> rec, menu |-> menu, pre |-> pre,
           truncated |-> Cardinality(Stable(g)) > Len(menu) \/ Cardinality(Pre(g)) > Len(pre)]
  <2>1. g.installed # None
    BY VersionsAreNumbers DEF IsMenuOf
  <2>2. named = {rec, ValidPublishedTag(g, g.lts), ValidPublishedTag(g, g.latest), ValidPublishedTag(g, g.fallback)} \ {None}
    OBVIOUS
  <2> HIDE DEF named
  <2> QED BY <2>1, <2>2 DEF UpgradeTargets, RecommendedOf, Stable, Pre, Newest
<1>2. Stable(g) \in SUBSET Versions /\ Pre(g) \in SUBSET Versions /\ Newest(g) \subseteq Stable(g)
  BY DEF IsMenuOf, Stable, Pre, Newest
<1>3. /\ Tagged(g) = three \ {None} /\ Tagged(g) \subseteq Stable(g)
      /\ rec \in Stable(g) \/ (rec = None /\ Stable(g) = {})
      /\ rec \in Tagged(g) \cup {None} \/ Tagged(g) = {}
  BY RecommendedIsStable DEF Tagged
<1> HIDE DEF rec, three
<1>4. named \subseteq Stable(g) /\ Tagged(g) \subseteq named /\ (rec = None \/ rec \in named)
  BY <1>3
\* No more than three are named: a recommendation of another kind is alone.
<1>5. IsFiniteSet(named) /\ Cardinality(named) \in Nat /\ Cardinality(named) <= 3
  <2>1. \A a, b, c : named \subseteq {a, b, c} => IsFiniteSet(named) /\ Cardinality(named) \in Nat /\ Cardinality(named) <= 3
    <3> TAKE a, b, c
    <3> HAVE named \subseteq {a, b, c}
    <3> HIDE DEF named
    <3>1. IsFiniteSet({a, b, c}) /\ Cardinality({a, b, c}) \in Nat /\ Cardinality({a, b, c}) <= 3
      BY AtMostThree
    <3>2. IsFiniteSet(named) /\ Cardinality(named) <= Cardinality({a, b, c})
      BY <3>1, FS_Subset
    <3>3. Cardinality(named) \in Nat
      BY <3>2, FS_CardinalityType
    <3> QED BY <3>1, <3>2, <3>3
  <2>2. CASE Tagged(g) = {}
    <3>1. named \subseteq {rec, rec, rec}
      BY <1>3, <2>2
    <3> QED BY <2>1, <3>1
  <2>3. CASE rec \in Tagged(g) \cup {None}
    <3>1. named \subseteq {ValidPublishedTag(g, g.lts), ValidPublishedTag(g, g.latest), ValidPublishedTag(g, g.fallback)}
      BY <1>3, <2>3 DEF three
    <3> QED BY <2>1, <3>1
  <2> QED BY <1>3, <2>2, <2>3
<1> HIDE DEF named
<1>6. recent \subseteq Stable(g) /\ IsFiniteSet(recent) /\ Cardinality(recent) \in Nat /\ Cardinality(recent) <= RecentTargets
  BY <1>2, TakenOfASet, VersionsAreNumbers
<1> HIDE DEF recent
<1>7. /\ pinned \subseteq Stable(g) /\ pinned \in SUBSET Versions /\ IsFiniteSet(pinned) /\ Cardinality(pinned) \in Nat
      /\ Cardinality(pinned) <= StableTargets
  <2>1. pinned \subseteq Stable(g) /\ pinned \in SUBSET Versions
    BY <1>2, <1>4, <1>6
  <2>2. IsFiniteSet(named \cup recent)
        /\ Cardinality(named \cup recent) = Cardinality(named) + Cardinality(recent) - Cardinality(named \cap recent)
    BY <1>5, <1>6, FS_Union
  <2>3. Cardinality(pinned) \in Nat /\ IsFiniteSet(pinned)
    BY <2>1, VersionsAreNumbers
  <2>4. Cardinality(named \cap recent) \in Nat
    <3>1. IsFiniteSet(named \cap recent)
      BY <1>5, FS_Intersection
    <3> QED BY <3>1, FS_CardinalityType
  <2>5. pinned = named \cup recent
    OBVIOUS
  <2> HIDE DEF pinned
  <2> QED BY <1>5, <1>6, <2>1, <2>2, <2>3, <2>4, <2>5, VersionsAreNumbers
<1>8. named \subseteq pinned
  OBVIOUS
<1> HIDE DEF pinned
<1>9. room \in Nat /\ Cardinality(pinned) + room = StableTargets
  BY <1>7, VersionsAreNumbers
<1> HIDE DEF room
<1>10. /\ more \subseteq Newest(g) \ pinned /\ IsFiniteSet(more) /\ Cardinality(more) \in Nat
       /\ Cardinality(more) <= room /\ (Cardinality(more) < room => more = Newest(g) \ pinned)
  <2>1. Newest(g) \ pinned \in SUBSET Versions
    BY <1>2
  <2> DEFINE rest == Newest(g) \ pinned
             d == Take(Descending(rest), room)
  <2> HIDE DEF rest
  <2>2. /\ ToSet(d) \subseteq rest /\ IsFiniteSet(ToSet(d)) /\ Cardinality(ToSet(d)) = Len(d)
        /\ Len(d) \in Nat /\ Len(d) <= room /\ (Len(d) < room => ToSet(d) = rest)
    BY <1>9, <2>1, TakenOfASet DEF rest
  <2> QED BY <2>2 DEF rest
<1> HIDE DEF more
<1>11. /\ chosen \subseteq Stable(g) /\ chosen \in SUBSET Versions /\ pinned \subseteq chosen
       /\ Cardinality(chosen) = Cardinality(pinned) + Cardinality(more)
  <2>1. chosen \subseteq Stable(g)
    BY <1>2, <1>7, <1>10
  <2>2. pinned \cap more = {}
    BY <1>10
  <2>3. Cardinality(pinned \cup more) = Cardinality(pinned) + Cardinality(more) - Cardinality(pinned \cap more)
    BY <1>7, <1>10, FS_Union
  <2>4. Cardinality(pinned \cap more) = 0
    BY <2>2, FS_EmptySet
  <2> QED BY <1>2, <1>7, <1>10, <2>1, <2>3, <2>4
<1>12. Cardinality(chosen) \in Nat /\ Cardinality(chosen) <= StableTargets
       /\ (Cardinality(chosen) < StableTargets => Newest(g) \subseteq chosen)
  <2>1. Cardinality(more) < room => Newest(g) \subseteq chosen
    BY <1>10
  <2> HIDE DEF chosen
  <2> QED BY <1>7, <1>9, <1>10, <1>11, <2>1
<1> HIDE DEF chosen
<1>13. /\ ordered \in Seq(Versions) /\ Distinct(ordered) /\ ToSet(ordered) = chosen /\ Len(ordered) = Cardinality(chosen)
       /\ rec \in chosen => ordered[1] = rec
  BY <1>11, RecommendedFirst
<1> HIDE DEF ordered
<1>14. menu = ordered
  BY <1>12, <1>13, TakeTakes, VersionsAreNumbers
<1>15. /\ pre \in Seq(Versions) /\ Distinct(pre) /\ ToSet(pre) \subseteq Pre(g)
       /\ Cardinality(ToSet(pre)) = Len(pre) /\ Len(pre) \in Nat /\ Len(pre) <= PrereleaseTargets
  BY <1>2, TakenOfASet, VersionsAreNumbers
<1> HIDE DEF menu, pre
<1>16. Tagged(g) \subseteq ToSet(menu) /\ ToSet(menu) \subseteq Stable(g)
  BY <1>4, <1>8, <1>11, <1>13, <1>14
<1>17. menu # <<>> => menu[1] = rec
  <2>1. CASE rec \in chosen
    BY <1>13, <1>14, <2>1
  <2>2. CASE rec \notin chosen
    <3>1. Stable(g) = {}
      BY <1>2, <1>3, <1>4, <1>8, <1>11, <2>2, VersionsAreNumbers
    <3>2. Len(menu) = 0
      BY <1>11, <1>13, <1>14, <3>1, FS_EmptySet
    <3> QED BY <1>13, <1>14, <3>2
  <2> QED BY <2>1, <2>2
\* Something is left out exactly when there are more than are in the menu.
<1>18. \A S, T : S \in SUBSET Versions /\ T \subseteq S => (Cardinality(S) > Cardinality(T) <=> ~(S \subseteq T))
  <2> SUFFICES ASSUME NEW S \in SUBSET Versions, NEW T \in SUBSET S
               PROVE  Cardinality(S) > Cardinality(T) <=> ~(S \subseteq T)
    OBVIOUS
  <2>1. IsFiniteSet(S) /\ Cardinality(S) \in Nat /\ Cardinality(T) \in Nat
    BY VersionsAreNumbers
  <2>2. Cardinality(T) <= Cardinality(S) /\ (Cardinality(S) = Cardinality(T) => S = T)
    BY <2>1, FS_Subset
  <2>3. CASE S = T
    BY <2>1, <2>3
  <2>4. CASE S # T
    BY <2>1, <2>2, <2>4
  <2> QED BY <2>3, <2>4
<1>19. Cardinality(Stable(g)) > Len(menu) <=> ~(Stable(g) \subseteq ToSet(menu))
  <2>1. Cardinality(ToSet(menu)) = Len(menu)
    BY <1>13, <1>14
  <2> QED BY <1>2, <1>16, <1>18, <2>1
<1>20. Cardinality(Pre(g)) > Len(pre) <=> ~(Pre(g) \subseteq ToSet(pre))
  BY <1>2, <1>15, <1>18
<1>21. Len(menu) < StableTargets => Newest(g) \subseteq ToSet(menu)
  BY <1>12, <1>13, <1>14
<1>22. menu \in Seq(Versions) /\ Distinct(menu) /\ Len(menu) <= StableTargets
  BY <1>12, <1>13, <1>14
<1>23. /\ t.recommended = rec /\ t.menu = menu /\ t.pre = pre
       /\ t.truncated <=> Cardinality(Stable(g)) > Len(menu) \/ Cardinality(Pre(g)) > Len(pre)
  <2> HIDE DEF t
  <2> QED BY <1>1
<1> HIDE DEF t
<1> QED BY <1>15, <1>16, <1>17, <1>19, <1>20, <1>21, <1>22, <1>23 DEF t, rec

-----------------------------------------------------------------------------
\* One after the other, two sequences without a common element have each element once.
LEMMA JoinedOnce ==
  ASSUME NEW X, NEW s \in Seq(X), NEW t \in Seq(X), Distinct(s), Distinct(t), ToSet(s) \cap ToSet(t) = {}
  PROVE  Cardinality(ToSet(s \o t)) = Len(s \o t) /\ ToSet(s \o t) = ToSet(s) \cup ToSet(t)
<1> DEFINE u == s \o t
<1>1. /\ Len(s) \in Nat /\ Len(t) \in Nat /\ Len(u) = Len(s) + Len(t) /\ u \in Seq(X)
      /\ DOMAIN s = 1 .. Len(s) /\ DOMAIN t = 1 .. Len(t) /\ DOMAIN u = 1 .. Len(u)
  OBVIOUS
<1>2. \A i \in 1 .. Len(u) : \/ i \in 1 .. Len(s) /\ u[i] = s[i]
                             \/ i - Len(s) \in 1 .. Len(t) /\ u[i] = t[i - Len(s)]
  <2> TAKE i \in 1 .. Len(u)
  <2>1. u[i] = IF i <= Len(s) THEN s[i] ELSE t[i - Len(s)]
    BY <1>1
  <2> HIDE DEF u
  <2> QED BY <1>1, <2>1
<1>3. \A i \in 1 .. Len(s) : i \in 1 .. Len(u) /\ u[i] = s[i]
  BY <1>1
<1>4. \A i \in 1 .. Len(t) : i + Len(s) \in 1 .. Len(u) /\ u[i + Len(s)] = t[i]
  BY <1>1
<1> HIDE DEF u
<1>5. ToSet(u) = ToSet(s) \cup ToSet(t)
  <2> DEFINE A == ToSet(s)
             B == ToSet(t)
  <2>1. A = {s[i] : i \in 1 .. Len(s)} /\ B = {t[i] : i \in 1 .. Len(t)} /\ ToSet(u) = {u[i] : i \in 1 .. Len(u)}
    BY <1>1 DEF ToSet
  <2>2. \A i \in 1 .. Len(u) : u[i] \in A \cup B
    BY <1>2, <2>1
  <2>3. \A x \in A : \E i \in 1 .. Len(u) : u[i] = x
    BY <1>3, <2>1
  <2>4. \A x \in B : \E i \in 1 .. Len(u) : u[i] = x
    BY <1>4, <2>1
  <2> HIDE DEF A, B
  <2>5. \A x : x \in ToSet(u) <=> x \in A \cup B
    BY <2>1, <2>2, <2>3, <2>4
  <2> QED BY <2>5 DEF A, B
<1>6. Distinct(u)
  <2> SUFFICES ASSUME NEW i \in 1 .. Len(u), NEW j \in 1 .. Len(u), u[i] = u[j] PROVE i = j
    BY DEF Distinct
  <2>1. \A a \in 1 .. Len(s), b \in 1 .. Len(t) : s[a] # t[b]
    BY <1>1 DEF ToSet
  <2>2. CASE i \in 1 .. Len(s) /\ u[i] = s[i]
    <3>1. j \in 1 .. Len(s) /\ u[j] = s[j]
      BY <1>2, <2>1, <2>2
    <3> QED BY <2>2, <3>1 DEF Distinct
  <2>3. CASE i - Len(s) \in 1 .. Len(t) /\ u[i] = t[i - Len(s)]
    <3>1. j - Len(s) \in 1 .. Len(t) /\ u[j] = t[j - Len(s)]
      BY <1>2, <2>1, <2>3
    <3>2. i - Len(s) = j - Len(s)
      BY <2>3, <3>1 DEF Distinct
    <3> QED BY <1>1, <3>2
  <2> QED BY <1>2, <2>2, <2>3
<1>7. Cardinality(ToSet(u)) = Len(u)
  BY <1>1, <1>6, DistinctCount
<1> QED BY <1>5, <1>7 DEF u

\* Every menu is honest.
LEMMA MenusAreHonest ==
  ASSUME NEW f \in MenuQuestions
  PROVE  MenuIsHonest(f, LoadUpgradeTargets(f), [Row(f) EXCEPT !.upgradeTo = f.fallback])
<1> DEFINE tags == {f.lts, f.latest, f.fallback}
           g == IF f.tooLarge THEN [f EXCEPT !.published = tags \ {None}] ELSE f
           t == LoadUpgradeTargets(f)
           row == [Row(f) EXCEPT !.upgradeTo = f.fallback]
           options == t.menu \o t.pre
           newer == {v \in f.published : v > f.installed}
<1>1. /\ f.published \in SUBSET Versions /\ f.installed \in KnownVersions /\ tags \subseteq KnownVersions
      /\ f.tooLarge \in BOOLEAN /\ tags \ {None} \subseteq f.published
      /\ f.fallback # None => f.installed # None /\ f.fallback > f.installed
  BY DEF MenuQuestions
<1>2. t = UpgradeTargets(g)
  BY DEF LoadUpgradeTargets
<1>3. /\ g.published = IF f.tooLarge THEN tags \ {None} ELSE f.published
      /\ g.installed = f.installed /\ g.lts = f.lts /\ g.latest = f.latest /\ g.fallback = f.fallback
  BY DEF MenuQuestions
<1>4. row.current = f.installed /\ row.upgradeTo = f.fallback
  BY DEF Row
<1>5. g.published \subseteq f.published /\ (~f.tooLarge => g.published = f.published) /\ tags \ {None} \subseteq g.published
  BY <1>1, <1>3
<1>6. \A v : v \in g.published /\ v > g.installed /\ f.installed # None =>
               ValidateUpgradeRequest(row, TRUE, v, PublishedForRequest(f, v)) = "ok"
  <2> SUFFICES ASSUME NEW v, v \in g.published, v > g.installed, f.installed # None
               PROVE  ValidateUpgradeRequest(row, TRUE, v, PublishedForRequest(f, v)) = "ok"
    OBVIOUS
  <2>1. v \in PublishedForRequest(f, v)
    BY <1>3, <1>5 DEF PublishedForRequest
  <2>2. v # None
    BY <1>1, <1>5, VersionsAreNumbers
  <2> QED BY <1>3, <1>4, <2>1, <2>2, AheadIsAccepted DEF IsSafeUpgradeTarget
<1> HIDE DEF g, row, t, tags
<1>7. CASE f.installed = None
  <2>1. t.menu = <<>> /\ t.pre = <<>>
    BY <1>2, <1>3, <1>7 DEF UpgradeTargets
  <2>2. options = <<>> /\ Len(options) = 0 /\ ToSet(options) = {} /\ Cardinality(ToSet(options)) = 0
    <3>1. options = <<>> /\ Len(options) = 0 /\ DOMAIN options = {}
      BY <2>1
    <3>2. ToSet(options) = {}
      BY <3>1 DEF ToSet
    <3> QED BY <3>1, <3>2, FS_EmptySet
  <2>3. Len(t.menu) = 0 /\ Len(t.pre) = 0 /\ f.fallback = None
    BY <1>1, <1>7, <2>1
  <2>4. 0 <= StableTargets /\ 0 <= PrereleaseTargets
    BY VersionsAreNumbers
  <2> QED BY <1>7, <2>1, <2>2, <2>3, <2>4 DEF MenuIsHonest, t, row
<1>8. CASE f.installed # None
  <2> DEFINE menu == ToSet(t.menu)
             pre == ToSet(t.pre)
             offered == ToSet(options)
  <2>1. IsMenuOf(g)
    <3>1. f.installed \in Versions
      BY <1>1, <1>8 DEF KnownVersions
    <3>2. g.published \in SUBSET Versions
      BY <1>1, <1>5
    <3> QED BY <1>1, <1>3, <3>1, <3>2 DEF IsMenuOf, tags
  <2>2. /\ t.recommended = RecommendedOf(g)
        /\ t.menu \in Seq(Versions) /\ Distinct(t.menu) /\ Len(t.menu) <= StableTargets
        /\ t.pre \in Seq(Versions) /\ Distinct(t.pre) /\ Len(t.pre) <= PrereleaseTargets
        /\ Tagged(g) \subseteq menu /\ menu \subseteq Stable(g) /\ pre \subseteq Pre(g)
        /\ t.menu # <<>> => t.menu[1] = t.recommended
        /\ t.truncated <=> ~(Stable(g) \subseteq menu /\ Pre(g) \subseteq pre)
        /\ Len(t.menu) < StableTargets => Newest(g) \subseteq menu
    BY <1>2, <2>1, MenuParts
  <2>3. Stable(g) \cap Pre(g) = {}
    BY DEF Stable, Pre
  <2>4. Cardinality(offered) = Len(options) /\ offered = menu \cup pre
    <3> DEFINE s == t.menu
               p == t.pre
    <3>1. s \in Seq(Versions) /\ p \in Seq(Versions) /\ Distinct(s) /\ Distinct(p) /\ ToSet(s) \cap ToSet(p) = {}
      BY <2>2, <2>3
    <3>2. Cardinality(ToSet(s \o p)) = Len(s \o p) /\ ToSet(s \o p) = ToSet(s) \cup ToSet(p)
      <4> HIDE DEF s, p
      <4> QED BY <3>1, JoinedOnce
    <3> QED BY <3>2
  <2>5. \A v \in Stable(g) \cup Pre(g) : v \in g.published /\ v > g.installed
    BY DEF Stable, Pre
  <2> HIDE DEF menu, pre, offered, options
  <2>6. \A v \in offered : ValidateUpgradeRequest(row, TRUE, v, PublishedForRequest(f, v)) = "ok"
    BY <1>6, <1>8, <2>2, <2>4, <2>5
  \* What the registry tells of the tags does not depend on how much it tells.
  <2>7. {ValidPublishedTag(f, v) : v \in {f.lts, f.latest, f.fallback}} \ {None} \subseteq offered
    <3>1. \A v \in tags : ValidPublishedTag(f, v) = ValidPublishedTag(g, v)
      <4> TAKE v \in tags
      <4>1. v = None \/ (v \in f.published /\ v \in g.published)
        BY <1>1, <1>5
      <4>2. None \notin f.published /\ None \notin g.published
        BY <1>1, <1>5, VersionsAreNumbers
      <4> QED BY <1>3, <4>1, <4>2 DEF ValidPublishedTag
    <3>2. {ValidPublishedTag(f, v) : v \in tags} \ {None} \subseteq Tagged(g)
      BY <1>3, <3>1 DEF Tagged, tags
    <3> QED BY <2>2, <2>4, <3>2 DEF tags
  <2>8. ~f.tooLarge => newer = Stable(g) \cup Pre(g)
    BY <1>3, <1>5 DEF Stable, Pre
  <2>9. ~f.tooLarge =>
          /\ t.truncated <=> ~(newer \subseteq offered)
          /\ \A v \in newer : IsStable(v) /\ Len(t.menu) < StableTargets =>
               \E w \in offered : IsStable(w) /\ Line(w) = Line(v) /\ w >= v
    <3> SUFFICES ASSUME ~f.tooLarge
                 PROVE  /\ t.truncated <=> ~(newer \subseteq offered)
                        /\ \A v \in newer : IsStable(v) /\ Len(t.menu) < StableTargets =>
                             \E w \in offered : IsStable(w) /\ Line(w) = Line(v) /\ w >= v
      OBVIOUS
    <3>1. t.truncated <=> ~(newer \subseteq offered)
      BY <2>2, <2>3, <2>4, <2>8
    <3>2. ASSUME NEW v \in newer, IsStable(v), Len(t.menu) < StableTargets
          PROVE  \E w \in offered : IsStable(w) /\ Line(w) = Line(v) /\ w >= v
      <4>1. v \in Stable(g)
        BY <2>8, <3>2 DEF Pre
      <4>2. PICK w \in Newest(g) : Line(w) = Line(v) /\ w >= v
        BY <2>1, <4>1, NewestExists
      <4>3. w \in offered /\ IsStable(w)
        BY <2>2, <2>4, <3>2, <4>2 DEF Newest, Stable
      <4> QED BY <4>2, <4>3
    <3> QED BY <3>1, <3>2
  <2>10. f.fallback # None =>
           LET target == PreferRecommended(f, f.fallback)
           IN ValidateUpgradeRequest(row, TRUE, target, PublishedForRequest(f, target)) = "ok"
    <3> SUFFICES ASSUME f.fallback # None
                 PROVE  ValidateUpgradeRequest(row, TRUE, PreferRecommended(f, f.fallback),
                                               PublishedForRequest(f, PreferRecommended(f, f.fallback))) = "ok"
      OBVIOUS
    <3>1. PreferRecommended(f, f.fallback) = IF RecommendedOf(g) # None THEN RecommendedOf(g) ELSE f.fallback
      BY <2>2, FirstOfTwo DEF PreferRecommended, t
    <3>2. RecommendedOf(g) \in Stable(g) \cup {None}
      BY <2>1, RecommendedIsStable
    <3>3. f.fallback \in g.published /\ f.fallback > g.installed
      BY <1>1, <1>3, <1>5 DEF tags
    <3> QED BY <1>6, <1>8, <2>5, <3>1, <3>2, <3>3
  <2> QED BY <1>8, <2>2, <2>4, <2>6, <2>7, <2>9, <2>10 DEF MenuIsHonest, offered, options, t, row
<1> QED BY <1>7, <1>8

-----------------------------------------------------------------------------
\* Every question that can be asked is answered honestly ...
LEMMA EveryOfferIsHonoured ==
  ASSUME choice \in ChoiceFacts
  PROVE  OffersAreHonoured
<1>1. /\ choice.about \in {"row", "menu", "apply"}
      /\ choice.about = "row" => choice \in RowQuestions
      /\ choice.about = "menu" => choice \in MenuQuestions
      /\ choice.about = "apply" => IsApplyQuestion(choice)
  BY ChoiceAssumption
<1>2. CASE choice.about = "row"
  BY <1>1, <1>2, RowsAreHonest DEF OffersAreHonoured
<1>3. CASE choice.about = "menu"
  BY <1>1, <1>3, MenusAreHonest DEF OffersAreHonoured
<1>4. CASE choice.about = "apply"
  BY <1>1, <1>4, ApplicationsAreProven DEF OffersAreHonoured
<1> QED BY <1>1, <1>2, <1>3, <1>4

\* ... so that whatever the program offers, it stands by.
THEOREM ChoicesAreAlwaysSound ==
  UpgradeSpec => []ChoicesAreSound
<1> DEFINE Asked == running = "choice" => choice \in ChoiceFacts
<1>1. UpgradeInit => Asked
  BY DEF UpgradeInit, ChoiceInit
<1>2. Asked /\ [UpgradeNext]_upgradeVars => Asked'
  BY DEF UpgradeNext, Transacts, Searches, Answered, upgradeVars, decisionVars
<1>3. Asked => ChoicesAreSound
  BY EveryOfferIsHonoured DEF ChoicesAreSound
<1> HIDE DEF Asked
<1> QED BY <1>1, <1>2, <1>3, PTL DEF UpgradeSpec

-----------------------------------------------------------------------------
\* Induction, with a set for a predicate.
LEMMA AllNaturals ==
  ASSUME NEW K \in SUBSET Nat, 0 \in K, \A n \in K : n + 1 \in K
  PROVE  K = Nat
<1> DEFINE S == Nat \ K
<1>1. SUFFICES ASSUME S # {} PROVE FALSE
  OBVIOUS
<1>2. Min(S) \in S /\ \A v \in S : Min(S) <= v
  <2>1. S \in SUBSET Nat
    OBVIOUS
  <2> HIDE DEF S
  <2> QED BY <1>1, <2>1, MinIsLeast
<1> DEFINE m == Min(S)
<1>3. m \in Nat /\ m \notin K /\ \A v \in S : m <= v
  BY <1>2
<1> HIDE DEF m
<1>4. m - 1 \in Nat
  BY <1>3
<1>5. m - 1 \notin S
  BY <1>3, <1>4
<1>6. m - 1 \in K /\ (m - 1) + 1 = m
  BY <1>3, <1>4, <1>5
<1>7. m \in K
  BY <1>6
<1> QED BY <1>3, <1>7

Below(S, x) == Cardinality({w \in S : w < x})

\* Fewer elements are below a smaller one.
LEMMA BelowIsBounded ==
  ASSUME NEW S \in SUBSET Nat, IsFiniteSet(S), NEW x \in S
  PROVE  /\ Below(S, x) \in 0 .. (Cardinality(S) - 1)
         /\ \A y \in S : y < x => Below(S, y) < Below(S, x)
<1> DEFINE X == {w \in S : w < x}
<1>1. X \in SUBSET S /\ x \notin X
  OBVIOUS
<1>2. IsFiniteSet(X) /\ Cardinality(X) <= Cardinality(S) /\ (Cardinality(S) = Cardinality(X) => S = X)
  BY <1>1, FS_Subset
<1>3. Cardinality(X) \in Nat /\ Cardinality(S) \in Nat
  BY <1>2, FS_CardinalityType
<1>4. Cardinality(S) # Cardinality(X)
  BY <1>1, <1>2
<1>5. \A y \in S : y < x => Below(S, y) < Below(S, x)
  <2> SUFFICES ASSUME NEW y \in S, y < x PROVE Below(S, y) < Below(S, x)
    OBVIOUS
  <2> DEFINE Y == {w \in S : w < y}
  <2>1. Y \in SUBSET X
    <3> SUFFICES ASSUME NEW w \in S, w < y PROVE w < x
      OBVIOUS
    <3>1. w \in Nat /\ y \in Nat /\ x \in Nat
      OBVIOUS
    <3> QED BY <3>1
  <2>2. y \in X /\ y \notin Y
    OBVIOUS
  <2>3. IsFiniteSet(Y) /\ Cardinality(Y) <= Cardinality(X) /\ (Cardinality(X) = Cardinality(Y) => X = Y)
    <3> HIDE DEF X, Y
    <3> QED BY <1>2, <2>1, FS_Subset
  <2>4. Cardinality(Y) \in Nat
    BY <2>3, FS_CardinalityType
  <2>5. Cardinality(Y) # Cardinality(X)
    BY <2>2, <2>3
  <2>6. Below(S, y) = Cardinality(Y) /\ Below(S, x) = Cardinality(X)
    BY DEF Below
  <2> HIDE DEF X, Y
  <2> QED BY <1>3, <2>3, <2>4, <2>5, <2>6
<1>6. Below(S, x) = Cardinality(X)
  BY DEF Below
<1> HIDE DEF X
<1> QED BY <1>2, <1>3, <1>4, <1>5, <1>6

\* A set in ascending order has each of its elements.
LEMMA AscendingHasAll ==
  ASSUME NEW S \in SUBSET Nat, IsFiniteSet(S)
  PROVE  Ascending(S) \in Seq(S) /\ \A x \in S : \E i \in 1 .. Len(Ascending(S)) : Ascending(S)[i] = x
<1> DEFINE n == Cardinality(S)
           place == [x \in S |-> Below(S, x) + 1]
<1>1. n \in Nat
  BY FS_CardinalityType
<1>2. place \in [S -> 1 .. n]
  <2> SUFFICES ASSUME NEW x \in S PROVE Below(S, x) + 1 \in 1 .. n
    OBVIOUS
  <2>1. Below(S, x) \in 0 .. (n - 1)
    BY BelowIsBounded
  <2> QED BY <1>1, <2>1
<1>3. \A x, y \in S : place[x] = place[y] => x = y
  <2> SUFFICES ASSUME NEW x \in S, NEW y \in S, y < x
               PROVE  place[x] # place[y]
    OBVIOUS
  <2>1. Below(S, y) < Below(S, x) /\ Below(S, x) \in Int /\ Below(S, y) \in Int
    BY BelowIsBounded, <1>1
  <2> QED BY <2>1
<1> HIDE DEF place
<1>4. place \in Injection(S, 1 .. n)
  BY <1>2, <1>3, Fun_IsInj
<1>5. IsFiniteSet(1 .. n) /\ Cardinality(1 .. n) = n
  BY <1>1, FS_Interval
<1>6. place \in Surjection(S, 1 .. n)
  BY <1>4, <1>5, FS_Injection
<1>7. \A i \in 1 .. n : \E x \in S : place[x] = i
  BY <1>6, Fun_SurjectionProperties
<1>8. \A x \in S : place[x] = Cardinality({w \in S : w < x}) + 1 /\ Cardinality({w \in S : w < x}) \in Int
  <2> TAKE x \in S
  <2>1. Below(S, x) \in Int
    BY BelowIsBounded, <1>1
  <2> QED BY <2>1 DEF place, Below
<1> DEFINE d == Ascending(S)
<1>9. d = [i \in 1 .. n |-> CHOOSE v \in S : Cardinality({w \in S : w < v}) = i - 1]
  BY DEF Ascending
<1>10. \A i \in 1 .. n : d[i] \in S /\ place[d[i]] = i
  <2> SUFFICES ASSUME NEW i \in 1 .. n PROVE d[i] \in S /\ place[d[i]] = i
    OBVIOUS
  <2>1. \E x \in S : Cardinality({w \in S : w < x}) = i - 1
    BY <1>7, <1>8
  <2>2. d[i] \in S /\ Cardinality({w \in S : w < d[i]}) = i - 1
    BY <1>9, <2>1
  <2>3. place[d[i]] = (i - 1) + 1
    BY <1>8, <2>2
  <2> QED BY <2>2, <2>3
<1>11. DOMAIN d = 1 .. n
  BY <1>9
<1> HIDE DEF d
<1>12. d \in [1 .. n -> S]
  BY <1>9, <1>10
<1>13. d \in Seq(S) /\ Len(d) = n
  BY <1>1, <1>12
<1>14. \A x \in S : place[x] \in 1 .. n /\ d[place[x]] = x
  BY <1>2, <1>3, <1>10
<1> QED BY <1>13, <1>14 DEF d

-----------------------------------------------------------------------------
(* Proposals.                                                              *)

Extends(t, s) == DOMAIN s \subseteq DOMAIN t /\ \A p \in DOMAIN s : t[p] = s[p]
With(s, p, v) == [q \in DOMAIN s \cup {p} |-> IF q = p THEN v ELSE s[q]]
Size(s) == Cardinality(DOMAIN s)
Expandable(s) == {p \in problem.allowed \ DOMAIN s : ExpansionReasons(s)[p] # {}}

\* A proposal extends the start by some allowed packages, each at a version it is offered.
LEMMA ProposalIs ==
  ASSUME problem \in PlanProblems, NEW t
  PROVE  t \in Proposals <=>
           /\ DOMAIN problem.start \subseteq DOMAIN t /\ DOMAIN t \subseteq DOMAIN problem.start \cup problem.allowed
           /\ t \in [DOMAIN t -> 2 .. TopVersion]
           /\ \A p \in DOMAIN problem.start : t[p] = problem.start[p]
           /\ \A p \in DOMAIN t \ DOMAIN problem.start : t[p] \in Offered(p)
<1>1. ASSUME t \in Proposals
      PROVE  /\ DOMAIN problem.start \subseteq DOMAIN t /\ DOMAIN t \subseteq DOMAIN problem.start \cup problem.allowed
             /\ t \in [DOMAIN t -> 2 .. TopVersion]
             /\ \A p \in DOMAIN problem.start : t[p] = problem.start[p]
             /\ \A p \in DOMAIN t \ DOMAIN problem.start : t[p] \in Offered(p)
  <2>1. PICK moved \in SUBSET (problem.allowed \ DOMAIN problem.start) :
          /\ t \in [DOMAIN problem.start \cup moved -> 2 .. TopVersion]
          /\ \A p \in DOMAIN problem.start : t[p] = problem.start[p]
          /\ \A p \in moved : t[p] \in Offered(p)
    BY <1>1 DEF Proposals
  <2>2. DOMAIN t = DOMAIN problem.start \cup moved
    BY <2>1
  <2> QED BY <2>1, <2>2
<1>2. ASSUME DOMAIN problem.start \subseteq DOMAIN t, DOMAIN t \subseteq DOMAIN problem.start \cup problem.allowed,
             t \in [DOMAIN t -> 2 .. TopVersion],
             \A p \in DOMAIN problem.start : t[p] = problem.start[p],
             \A p \in DOMAIN t \ DOMAIN problem.start : t[p] \in Offered(p)
      PROVE  t \in Proposals
  <2> DEFINE moved == DOMAIN t \ DOMAIN problem.start
  <2>1. moved \in SUBSET (problem.allowed \ DOMAIN problem.start) /\ DOMAIN t = DOMAIN problem.start \cup moved
    BY <1>2
  <2>2. t \in [DOMAIN problem.start \cup moved -> 2 .. TopVersion]
    BY <1>2, <2>1
  <2>3. \A p \in moved : t[p] \in Offered(p)
    BY <1>2
  <2> HIDE DEF moved
  <2> QED BY <1>2, <2>1, <2>2, <2>3 DEF Proposals
<1> QED BY <1>1, <1>2

\* A proposal moves at most the direct dependencies there are.
LEMMA ProposalsAreFinite ==
  ASSUME problem \in PlanProblems, NEW t \in Proposals
  PROVE  IsFiniteSet(DOMAIN t) /\ Size(t) \in 0 .. NDirect /\ DOMAIN t \subseteq Direct
<1>1. NDirect \in Nat /\ DOMAIN t \subseteq Direct /\ Direct = 1 .. NDirect
  BY ProposalIs, PlanAssumption DEF Direct
<1>2. IsFiniteSet(Direct) /\ Cardinality(Direct) = NDirect
  BY <1>1, FS_Interval
<1>3. IsFiniteSet(DOMAIN t) /\ Cardinality(DOMAIN t) <= Cardinality(Direct)
  BY <1>1, <1>2, FS_Subset
<1>4. Cardinality(DOMAIN t) \in Nat
  BY <1>3, FS_CardinalityType
<1> QED BY <1>1, <1>2, <1>3, <1>4 DEF Size

\* One package more.
LEMMA WithIsProposal ==
  ASSUME problem \in PlanProblems, NEW s \in Proposals, NEW p \in problem.allowed \ DOMAIN s, NEW v \in Offered(p)
  PROVE  With(s, p, v) \in Proposals /\ Size(With(s, p, v)) = Size(s) + 1
<1> DEFINE t == With(s, p, v)
<1>1. /\ DOMAIN problem.start \subseteq DOMAIN s /\ DOMAIN s \subseteq DOMAIN problem.start \cup problem.allowed
      /\ s \in [DOMAIN s -> 2 .. TopVersion]
      /\ \A q \in DOMAIN problem.start : s[q] = problem.start[q]
      /\ \A q \in DOMAIN s \ DOMAIN problem.start : s[q] \in Offered(q)
  BY ProposalIs
<1>2. DOMAIN t = DOMAIN s \cup {p} /\ t[p] = v /\ \A q \in DOMAIN s : t[q] = s[q]
  BY DEF With
<1>3. v \in 2 .. TopVersion
  BY DEF Offered
<1>4. t \in [DOMAIN s \cup {p} -> 2 .. TopVersion]
  BY <1>1, <1>3 DEF With
<1> HIDE DEF t
<1>5. t \in Proposals
  BY <1>1, <1>2, <1>4, ProposalIs
<1>6. Size(t) = Size(s) + 1
  BY <1>2, ProposalsAreFinite, FS_AddElement DEF Size
<1> QED BY <1>5, <1>6 DEF t

\* A conflict that a larger proposal does not have is blamed on a package that it moves.
LEMMA ConflictIsBlamed ==
  ASSUME problem \in PlanProblems, NEW s \in Proposals, NEW t \in Proposals, Extends(t, s),
         StaticStatus(s) = "conflict", StaticStatus(t) # "conflict"
  PROVE  \E p \in Expandable(s) : p \in DOMAIN t
<1>1. SUFFICES ASSUME \A p \in Expandable(s) : p \notin DOMAIN t PROVE FALSE
  OBVIOUS
<1>2. PICK f \in CompatibilityFindings(s) : f.status = "conflict"
  BY DEF StaticStatus, AggregateStatus
<1>3. \A f0 \in CompatibilityFindings(t) : f0.status # "conflict"
  BY DEF StaticStatus, AggregateStatus
<1>4. \A k, q : Plain(k, "warning", q).status # "conflict" /\ Plain(k, "unknown", q).status # "conflict"
  BY DEF Plain
<1> DEFINE Considered(u) ==
             {e \in problem.peers :
                \/ e.owner \notin DOMAIN u /\ e.owner \in Installed /\ e.version = 1 /\ e.peer \in DOMAIN u
                \/ e.owner \in DOMAIN u \ problem.unserved /\ e.version = u[e.owner]}
<1>5. PICK d \in Considered(s) : f = PeerFinding(d, s)
  BY <1>2, <1>4 DEF CompatibilityFindings
<1>6. /\ f.subject = d.owner /\ f.peer = d.peer /\ f.kind \in {"peer-missing", "peer-incompatible"}
  BY <1>2, <1>5, PlanAssumption DEF PeerFinding, PeerStatus
<1>7. \A p \in {d.owner, d.peer} : p \in DOMAIN t => p \in DOMAIN s
  <2> SUFFICES ASSUME NEW p \in {d.owner, d.peer}, p \in DOMAIN t, p \notin DOMAIN s PROVE FALSE
    OBVIOUS
  <2>1. p \in problem.allowed \ DOMAIN s
    BY ProposalIs
  <2>2. p \in Implicated(f)
    BY <1>6 DEF Implicated
  <2>3. f \in ExpansionReasons(s)[p]
    BY <1>2, <1>6, <2>1, <2>2 DEF ExpansionReasons, BlockingFindings
  <2> QED BY <1>1, <2>1, <2>3 DEF Expandable
<1>8. \A p \in {d.owner, d.peer} : (p \in DOMAIN t <=> p \in DOMAIN s) /\ (p \in DOMAIN s => t[p] = s[p])
  BY <1>7 DEF Extends
<1>9. d \in Considered(t)
  BY <1>5, <1>8
<1>10. PeerFinding(d, t) = PeerFinding(d, s)
  <2>1. ObservedPeer(t, d.owner, d.peer) = ObservedPeer(s, d.owner, d.peer)
    BY <1>8 DEF ObservedPeer
  <2> QED BY <2>1 DEF PeerFinding
<1>11. f \in CompatibilityFindings(t)
  BY <1>5, <1>9, <1>10 DEF CompatibilityFindings
<1> QED BY <1>2, <1>3, <1>11

-----------------------------------------------------------------------------
(* The search: what its variables say of each other.                       *)

\* What a problem says of each proposal and of each package.
Statics == [s \in Proposals |-> StaticStatus(s)]
Blames == [s \in Proposals |-> ExpansionReasons(s)]
Movable == [s \in Proposals |-> Expandable(s)]
Offers == [p \in problem.allowed |-> Offered(p)]

Statuses == {"compatible", "warning", "conflict", "unknown"}
\* A verdict of the preflight never excuses what the metadata alone objects to.
VerdictOf(status, static) ==
  /\ status \in Statuses
  /\ Accepts(status) => Accepts(static)
  /\ static = "conflict" => status = "conflict"
  /\ ~Accepts(static) => status \in {"conflict", "unknown"}

QueueEntry(e) ==
  /\ e.proposal \in Proposals /\ DOMAIN e.reasons = DOMAIN e.proposal
  /\ \A p \in DOMAIN e.proposal \ DOMAIN problem.start : e.reasons[p] # {}
  /\ VerdictOf(e.status, Statics[e.proposal])

IsSequence(s) == \E X : s \in Seq(X)
Places == 1 .. Len(planQueue)
ProposalAt(i) == planQueue[i].proposal

QueueIsRight ==
  /\ problem \in PlanProblems
  /\ IsSequence(planQueue) /\ Len(planQueue) >= 1 /\ ProposalAt(1) = problem.start
  /\ \A i \in Places : QueueEntry(planQueue[i])
  /\ head \in 1 .. (Len(planQueue) + 1)
  /\ seen = {ProposalAt(i) : i \in Places}
  /\ analyzed = Len(planQueue) /\ analyzed <= MaxStates
  /\ queries \in Nat /\ queries <= MaxQueries
  /\ limitReached \in BOOLEAN /\ uncertain \in BOOLEAN

\* The answers to the queries are all that is offered, or something is uncertain.
CandidatesAreOffers ==
  /\ DOMAIN candidates \subseteq problem.allowed
  /\ \A p \in DOMAIN candidates :
       /\ candidates[p].versions \in Seq(Offers[p])
       /\ ~uncertain => \A v \in Offers[p] : \E i \in 1 .. Len(candidates[p].versions) : candidates[p].versions[i] = v

ExpansionIsRight ==
  /\ packages \in Seq(Direct) /\ versions \in Seq(2 .. TopVersion)
  /\ packages # <<>> =>
       /\ head \in Places /\ found = Blames[ProposalAt(head)]
       /\ \A i \in 1 .. Len(packages) : packages[i] \in Movable[ProposalAt(head)]
  /\ versions # <<>> => packages # <<>> /\ \A i \in 1 .. Len(versions) : versions[i] \in Offers[packages[1]]

\* The queue is in the order of sizes, and nothing in it is larger than what comes of its head.
QueueGrows ==
  /\ \A i, j \in Places : i <= j => Size(ProposalAt(i)) <= Size(ProposalAt(j))
  /\ head \in Places => \A j \in Places : Size(ProposalAt(j)) <= Size(ProposalAt(head)) + 1

\* Unless something was cut short, every expansion that has ended was complete.
Tried(s, p) == \A v \in Offers[p] : With(s, p, v) \in seen
ExpansionsAreComplete ==
  ~limitReached /\ ~uncertain =>
    /\ \A i \in 1 .. (head - 1) :
         Statics[ProposalAt(i)] = "conflict" /\ \A p \in Movable[ProposalAt(i)] : Tried(ProposalAt(i), p)
    /\ packages # <<>> =>
         /\ Statics[ProposalAt(head)] = "conflict"
         /\ \A p \in Movable[ProposalAt(head)] :
              Tried(ProposalAt(head), p) \/ \E i \in 1 .. Len(packages) : packages[i] = p
         /\ versions # <<>> =>
              \A v \in Offers[packages[1]] :
                With(ProposalAt(head), packages[1], v) \in seen \/ \E i \in 1 .. Len(versions) : versions[i] = v

EndIsJustified ==
  /\ searchOutcome = "found" => head \in Places /\ Accepts(planQueue[head].status)
  /\ searchOutcome = "impossible" => head = Len(planQueue) + 1 /\ ~limitReached /\ ~uncertain

SearchInv ==
  /\ QueueIsRight /\ CandidatesAreOffers /\ ExpansionIsRight /\ QueueGrows /\ ExpansionsAreComplete /\ EndIsJustified

-----------------------------------------------------------------------------
\* When everything from the head on cannot be part of an acceptable proposal, there is none.
LEMMA NothingIsMissed ==
  ASSUME SearchInv, ~limitReached, ~uncertain, NEW t \in Proposals, Accepts(StaticStatus(t)),
         \A i \in Places : Extends(t, ProposalAt(i)) => i < head
  PROVE  FALSE
<1>1. /\ problem \in PlanProblems /\ Len(planQueue) \in Nat /\ Len(planQueue) >= 1 /\ head \in 1 .. (Len(planQueue) + 1)
      /\ \A i \in Places : ProposalAt(i) \in Proposals
      /\ seen = {ProposalAt(i) : i \in Places} /\ ProposalAt(1) = problem.start
  BY DEF SearchInv, QueueIsRight, IsSequence, QueueEntry, ProposalAt
<1> DEFINE I == {i \in Places : Extends(t, ProposalAt(i))}
           sizes == {Size(ProposalAt(i)) : i \in I}
<1>2. NDirect \in Nat /\ sizes \in SUBSET (0 .. NDirect)
  <2>1. \A i \in I : Size(ProposalAt(i)) \in 0 .. NDirect
    BY <1>1, ProposalsAreFinite
  <2> QED BY <2>1, PlanAssumption
<1>3. 1 \in I
  BY <1>1, ProposalIs DEF Extends, Places
<1>4. sizes # {}
  BY <1>3
<1>5. Max(sizes) \in sizes /\ \A m \in sizes : m <= Max(sizes)
  <2> HIDE DEF sizes
  <2> QED BY <1>2, <1>4, MaxIsGreatest
<1>6. PICK i \in I : Size(ProposalAt(i)) = Max(sizes)
  BY <1>5
<1> DEFINE s == ProposalAt(i)
<1>7. i \in 1 .. (head - 1) /\ s \in Proposals /\ Extends(t, s)
  BY <1>1 DEF Places
<1>8. StaticStatus(s) = "conflict" /\ \A p \in Expandable(s) : Tried(s, p)
  BY <1>7 DEF SearchInv, ExpansionsAreComplete, Statics, Movable
<1>9. StaticStatus(t) # "conflict"
  BY DEF Accepts
<1> HIDE DEF s
<1>10. PICK p \in Expandable(s) : p \in DOMAIN t
  BY <1>1, <1>7, <1>8, <1>9, ConflictIsBlamed
<1>11. p \in problem.allowed \ DOMAIN s /\ t[p] \in Offered(p)
  BY <1>1, <1>7, <1>10, ProposalIs DEF Expandable
<1> DEFINE u == With(s, p, t[p])
<1>12. u \in seen /\ Size(u) = Size(s) + 1
  <2>1. t[p] \in Offers[p]
    BY <1>11 DEF Offers
  <2> QED BY <1>1, <1>7, <1>8, <1>10, <1>11, <2>1, WithIsProposal DEF Tried
<1>13. Extends(t, u)
  BY <1>7, <1>10 DEF Extends, With
<1> HIDE DEF u
<1>14. PICK j \in Places : ProposalAt(j) = u
  BY <1>1, <1>12
<1>15. Size(u) \in sizes
  BY <1>13, <1>14
<1>16. Size(u) <= Max(sizes) /\ Size(s) = Max(sizes)
  BY <1>5, <1>6, <1>15 DEF s
<1>17. Size(s) \in Int
  BY <1>1, <1>7, ProposalsAreFinite
<1> QED BY <1>12, <1>16, <1>17

\* What the search promises, but for the order of the plan's groups.
PlansAreJustified ==
  /\ analyzed = Len(planQueue) /\ analyzed <= MaxStates /\ queries <= MaxQueries
  /\ searchOutcome = "found" =>
       /\ ThePlan.proposal \in Proposals
       /\ Accepts(StaticStatus(ThePlan.proposal))
       /\ \A p \in DOMAIN ThePlan.proposal \ DOMAIN problem.start : ThePlan.reasons[p] # {}
       /\ ~limitReached /\ ~uncertain =>
            \A t \in Proposals : Accepts(StaticStatus(t)) =>
              Cardinality(DOMAIN t) >= Cardinality(DOMAIN ThePlan.proposal)
  /\ searchOutcome = "impossible" => \A t \in Proposals : ~Accepts(StaticStatus(t))

\* What the search is known to be is enough: its answers are justified.
LEMMA InvariantJustifies ==
  SearchInv => PlansAreJustified
<1> SUFFICES ASSUME SearchInv PROVE PlansAreJustified
  OBVIOUS
<1>1. problem \in PlanProblems /\ Len(planQueue) \in Nat /\ \A i \in Places : QueueEntry(planQueue[i])
  BY DEF SearchInv, QueueIsRight, IsSequence
<1>2. ASSUME searchOutcome = "found"
      PROVE  /\ ThePlan.proposal \in Proposals
             /\ Accepts(StaticStatus(ThePlan.proposal))
             /\ \A p \in DOMAIN ThePlan.proposal \ DOMAIN problem.start : ThePlan.reasons[p] # {}
  <2>1. head \in Places /\ Accepts(planQueue[head].status)
    BY <1>2 DEF SearchInv, EndIsJustified
  <2> QED BY <1>1, <2>1 DEF ThePlan, QueueEntry, VerdictOf, Statics
<1>3. ASSUME searchOutcome = "found", ~limitReached, ~uncertain, NEW t \in Proposals, Accepts(StaticStatus(t))
      PROVE  Cardinality(DOMAIN t) >= Cardinality(DOMAIN ThePlan.proposal)
  <2>1. head \in Places /\ ThePlan.proposal = ProposalAt(head)
    BY <1>3 DEF SearchInv, EndIsJustified, ThePlan, ProposalAt
  <2>2. \A i \in Places : ProposalAt(i) \in Proposals
    BY <1>1 DEF QueueEntry, ProposalAt
  <2>3. \A u \in Proposals : IsFiniteSet(DOMAIN u) /\ Size(u) \in Int
    BY <1>1, ProposalsAreFinite
  <2>4. SUFFICES ASSUME Size(t) < Size(ProposalAt(head)) PROVE FALSE
    BY <2>1, <2>2, <2>3 DEF Size
  <2>5. \A i \in Places : Extends(t, ProposalAt(i)) => i < head
    <3> SUFFICES ASSUME NEW i \in Places, Extends(t, ProposalAt(i)), head <= i PROVE FALSE
      BY <1>1, <2>1 DEF Places
    <3>1. Size(ProposalAt(head)) <= Size(ProposalAt(i))
      BY <2>1 DEF SearchInv, QueueGrows
    <3>2. Size(ProposalAt(i)) <= Size(t)
      BY <2>3, FS_Subset DEF Extends, Size
    <3> QED BY <2>1, <2>2, <2>3, <2>4, <3>1, <3>2
  <2> QED BY <1>3, <2>5, NothingIsMissed
<1>4. ASSUME searchOutcome = "impossible", NEW t \in Proposals, Accepts(StaticStatus(t))
      PROVE  FALSE
  <2>1. head = Len(planQueue) + 1 /\ ~limitReached /\ ~uncertain
    BY <1>4 DEF SearchInv, EndIsJustified
  <2>2. \A i \in Places : i < head
    BY <1>1, <2>1 DEF Places
  <2> QED BY <1>4, <2>1, <2>2, NothingIsMissed
<1>5. analyzed = Len(planQueue) /\ analyzed <= MaxStates /\ queries <= MaxQueries
  BY DEF SearchInv, QueueIsRight
<1> QED BY <1>2, <1>3, <1>4, <1>5 DEF PlansAreJustified

\* While the problem stands, so does everything that is read from it.
LEMMA ProblemStands ==
  problem' = problem =>
    Proposals' = Proposals /\ Statics' = Statics /\ Blames' = Blames /\ Movable' = Movable /\ Offers' = Offers
<1> SUFFICES ASSUME problem' = problem
             PROVE  Proposals' = Proposals /\ Statics' = Statics /\ Blames' = Blames /\ Movable' = Movable /\ Offers' = Offers
  OBVIOUS
<1>1. Proposals' = Proposals
  BY DEF Proposals, Offered
<1>2. Statics' = Statics
  BY <1>1 DEF Statics, StaticStatus, CompatibilityFindings, PeerFinding, ObservedPeer, PeerStatus
<1>3. Blames' = Blames
  BY <1>1 DEF Blames, ExpansionReasons, BlockingFindings, CompatibilityFindings, PeerFinding, ObservedPeer, PeerStatus
<1>4. Movable' = Movable
  BY <1>1 DEF Movable, Expandable, ExpansionReasons, BlockingFindings, CompatibilityFindings, PeerFinding, ObservedPeer,
              PeerStatus
<1>5. Offers' = Offers
  BY DEF Offers, Offered
<1> QED BY <1>1, <1>2, <1>3, <1>4, <1>5

-----------------------------------------------------------------------------
(* The steps of the search.                                                *)

\* Each finding of the compatibility check has one of its statuses ...
LEMMA StatusOfFinding ==
  ASSUME problem \in PlanProblems, NEW s, NEW f \in CompatibilityFindings(s)
  PROVE  f.status \in Statuses
BY DEF CompatibilityFindings, PeerFinding, PeerStatus, Plain, Statuses

\* ... so that a state has one as well, and is a conflict exactly when a finding blocks it.
LEMMA StaticStatusIs ==
  ASSUME problem \in PlanProblems, NEW s
  PROVE  /\ StaticStatus(s) \in Statuses
         /\ StaticStatus(s) = "conflict" <=> BlockingFindings(s) # {}
BY DEF StaticStatus, AggregateStatus, BlockingFindings, Statuses

\* A verifier can make a state worse, but never clears it.
LEMMA AggregateIsVerdict ==
  ASSUME NEW static \in Statuses, NEW v \in {"compatible", "conflict", "unknown"}
  PROVE  VerdictOf(AggregateStatus({static, v}), static)
BY DEF VerdictOf, AggregateStatus, Statuses, Accepts

\* Every verdict that is given on a state rests on its own status ...
LEMMA VerdictsAre ==
  ASSUME problem \in PlanProblems, NEW s, NEW status \in Verdicts(s)
  PROVE  VerdictOf(status, StaticStatus(s))
<1>1. StaticStatus(s) \in Statuses
  BY StaticStatusIs
<1>2. CASE problem.verifier /\ Accepts(StaticStatus(s))
  BY <1>1, <1>2, AggregateIsVerdict DEF Verdicts
<1>3. CASE ~(problem.verifier /\ Accepts(StaticStatus(s)))
  BY <1>1, <1>3 DEF Verdicts, VerdictOf, Statuses, Accepts
<1> QED BY <1>2, <1>3

\* ... and so does the one that the search starts with.
LEMMA InitialVerdictsAre ==
  ASSUME problem \in PlanProblems, NEW status \in InitialVerdicts
  PROVE  VerdictOf(status, StaticStatus(problem.start))
<1>1. PICK v \in {"compatible", "conflict", "unknown"} : status = AggregateStatus({StaticStatus(problem.start), v})
  BY DEF InitialVerdicts
<1> QED BY <1>1, StaticStatusIs, AggregateIsVerdict

\* The search starts with what is known of it.
LEMMA SearchStarts ==
  SearchInit => SearchInv
<1> SUFFICES ASSUME SearchInit PROVE SearchInv
  OBVIOUS
<1>1. PICK status \in InitialVerdicts :
        planQueue = <<[proposal |-> problem.start, status |-> status, reasons |-> [p \in DOMAIN problem.start |-> {}]]>>
  BY DEF SearchInit
<1> DEFINE e == [proposal |-> problem.start, status |-> status, reasons |-> [p \in DOMAIN problem.start |-> {}]]
<1>2. problem \in PlanProblems /\ head = 1 /\ seen = {problem.start} /\ DOMAIN candidates = {}
      /\ packages = <<>> /\ versions = <<>> /\ analyzed = 1 /\ queries = 0 /\ limitReached = FALSE /\ uncertain = FALSE
      /\ searchOutcome = "searching"
  BY DEF SearchInit
<1>3. problem.start \in Proposals
  BY <1>2, ProposalIs, PlanAssumption
<1>4. QueueEntry(e)
  BY <1>2, <1>3, InitialVerdictsAre DEF QueueEntry, Statics
<1> HIDE DEF e
<1>5. planQueue = <<e>>
  BY <1>1 DEF e
<1>6. planQueue \in Seq({e}) /\ Len(planQueue) = 1 /\ planQueue[1] = e /\ Places = {1}
  BY <1>5 DEF Places
<1>7. ProposalAt(1) = problem.start
  BY <1>6 DEF ProposalAt, e
<1>8. QueueIsRight
  <2>1. IsSequence(planQueue)
    BY <1>6 DEF IsSequence
  <2>2. 1 <= MaxStates /\ 0 \in Nat /\ 0 <= MaxQueries
    BY PlanAssumption
  <2>3. \A i \in Places : QueueEntry(planQueue[i])
    BY <1>4, <1>6
  <2>4. seen = {ProposalAt(i) : i \in Places}
    BY <1>2, <1>6, <1>7
  <2>5. head \in 1 .. (Len(planQueue) + 1)
    BY <1>2, <1>6
  <2>6. Len(planQueue) >= 1 /\ analyzed = Len(planQueue) /\ analyzed <= MaxStates
    BY <1>2, <1>6, <2>2
  <2>7. queries \in Nat /\ queries <= MaxQueries /\ limitReached \in BOOLEAN /\ uncertain \in BOOLEAN
    BY <1>2, <2>2
  <2>8. problem \in PlanProblems
    BY <1>2
  <2> QED BY <2>8, <1>7, <2>1, <2>6, <2>7, <2>3, <2>4, <2>5, Zenon DEF QueueIsRight
<1>9. CandidatesAreOffers /\ ExpansionIsRight /\ ExpansionsAreComplete /\ EndIsJustified
  BY <1>2 DEF CandidatesAreOffers, ExpansionIsRight, ExpansionsAreComplete, EndIsJustified
<1>10. QueueGrows
  <2>1. Size(problem.start) \in Int
    BY <1>2, <1>3, ProposalsAreFinite
  <2> QED BY <1>2, <1>6, <1>7, <2>1 DEF QueueGrows
<1> QED BY <1>8, <1>9, <1>10 DEF SearchInv

-----------------------------------------------------------------------------
\* An entry of the queue stays one.
LEMMA EntriesStand ==
  ASSUME problem' = problem
  PROVE  \A e : QueueEntry(e) => QueueEntry(e)'
<1>1. Proposals' = Proposals /\ Statics' = Statics
  BY ProblemStands
<1> QED BY <1>1 DEF QueueEntry

\* What the invariant says of the lengths.
LEMMA SearchTypes ==
  ASSUME SearchInv
  PROVE  /\ problem \in PlanProblems
         /\ Len(planQueue) \in Nat /\ Places = 1 .. Len(planQueue) /\ head \in 1 .. (Len(planQueue) + 1)
         /\ \A i \in Places : QueueEntry(planQueue[i]) /\ ProposalAt(i) \in Proposals /\ Size(ProposalAt(i)) \in Int
         /\ packages \in Seq(Direct) /\ versions \in Seq(2 .. TopVersion)
         /\ limitReached \in BOOLEAN /\ uncertain \in BOOLEAN
<1>1. /\ problem \in PlanProblems /\ Len(planQueue) \in Nat /\ head \in 1 .. (Len(planQueue) + 1)
      /\ limitReached \in BOOLEAN /\ uncertain \in BOOLEAN /\ \A i \in Places : QueueEntry(planQueue[i])
  BY DEF SearchInv, QueueIsRight, IsSequence
<1>2. packages \in Seq(Direct) /\ versions \in Seq(2 .. TopVersion)
  BY DEF SearchInv, ExpansionIsRight
<1>3. \A i \in Places : ProposalAt(i) \in Proposals
  BY <1>1 DEF QueueEntry, ProposalAt
<1>4. \A i \in Places : Size(ProposalAt(i)) \in Int
  BY <1>1, <1>3, ProposalsAreFinite
<1> QED BY <1>1, <1>2, <1>3, <1>4 DEF Places

\* The invariant but for the end, when nothing that it is about changes.
LEMMA SearchStands ==
  ASSUME SearchInv,
         UNCHANGED <<problem, planQueue, head, seen, candidates, packages, versions, found, analyzed, queries,
                     limitReached, uncertain>>
  PROVE  QueueIsRight' /\ CandidatesAreOffers' /\ ExpansionIsRight' /\ QueueGrows' /\ ExpansionsAreComplete'
<1>1. Proposals' = Proposals /\ Statics' = Statics /\ Blames' = Blames /\ Movable' = Movable /\ Offers' = Offers
  BY ProblemStands
<1>2. Places' = Places /\ \A i : ProposalAt(i)' = ProposalAt(i)
  BY DEF Places, ProposalAt
<1>3. QueueIsRight'
  <2>1. \A i \in Places : QueueEntry(planQueue[i])'
    BY EntriesStand DEF SearchInv, QueueIsRight
  <2>2. (\A i \in Places : QueueEntry(planQueue[i]))'
    BY <1>2, <2>1
  <2> QED BY <1>2, <2>2 DEF SearchInv, QueueIsRight
<1>4. CandidatesAreOffers'
  BY <1>1 DEF SearchInv, CandidatesAreOffers
<1>5. ExpansionIsRight'
  BY <1>1, <1>2 DEF SearchInv, ExpansionIsRight
<1>6. QueueGrows'
  BY <1>2 DEF SearchInv, QueueGrows
<1>7. ExpansionsAreComplete'
  BY <1>1, <1>2 DEF SearchInv, ExpansionsAreComplete, Tried
<1> QED BY <1>3, <1>4, <1>5, <1>6, <1>7

\* An abort changes nothing that the search knows.
LEMMA AbortSearchKeeps ==
  SearchInv /\ AbortSearch => SearchInv'
<1> SUFFICES ASSUME SearchInv, AbortSearch PROVE SearchInv'
  OBVIOUS
<1>1. UNCHANGED <<problem, planQueue, head, seen, candidates, packages, versions, found, analyzed, queries,
                  limitReached, uncertain, searchOutcome>>
  BY DEF AbortSearch
<1>2. EndIsJustified'
  BY <1>1 DEF SearchInv, EndIsJustified, Places
<1> QED BY <1>1, <1>2, SearchStands DEF SearchInv

\* A search that notices the abort is cancelled.
LEMMA NoticeAbortKeeps ==
  SearchInv /\ NoticeAbort => SearchInv'
<1> SUFFICES ASSUME SearchInv, NoticeAbort PROVE SearchInv'
  OBVIOUS
<1>1. UNCHANGED <<problem, planQueue, head, seen, candidates, packages, versions, found, analyzed, queries,
                  limitReached, uncertain>> /\ searchOutcome' = "cancelled"
  BY DEF NoticeAbort, SearchCancelled
<1>2. EndIsJustified'
  BY <1>1 DEF EndIsJustified
<1> QED BY <1>1, <1>2, SearchStands DEF SearchInv

\* A queue that is exhausted without a limit and without a doubt shows that there is no plan.
LEMMA ConcludeKeeps ==
  SearchInv /\ Conclude => SearchInv'
<1> SUFFICES ASSUME SearchInv, Conclude PROVE SearchInv'
  OBVIOUS
<1>1. UNCHANGED <<problem, planQueue, head, seen, candidates, packages, versions, found, analyzed, queries,
                  limitReached, uncertain>>
      /\ head > Len(planQueue)
      /\ searchOutcome' = IF limitReached THEN "limit-reached" ELSE IF uncertain THEN "unknown" ELSE "impossible"
  BY DEF Conclude
<1>2. EndIsJustified'
  <2>1. head = Len(planQueue) + 1
    BY <1>1, SearchTypes
  <2> QED BY <1>1, <2>1 DEF EndIsJustified
<1> QED BY <1>1, <1>2, SearchStands DEF SearchInv

-----------------------------------------------------------------------------
\* The next proposal is looked at.
LEMMA InspectKeeps ==
  SearchInv /\ Inspect => SearchInv'
<1> SUFFICES ASSUME SearchInv, Inspect PROVE SearchInv'
  OBVIOUS
<1> DEFINE state == planQueue[head]
           s == ProposalAt(head)
           atLimit == Cardinality(DOMAIN state.proposal) - Cardinality(DOMAIN problem.start) >= MaxAdditional
           expands == ~Accepts(state.status) /\ state.status # "unknown" /\ Movable[s] # {}
<1>1. /\ searchOutcome = "searching" /\ packages = <<>> /\ head <= Len(planQueue)
      /\ UNCHANGED <<problem, planQueue, seen, candidates, versions, analyzed, queries, searchAborted>>
  BY DEF Inspect, Searching, Expanding
<1>2. head \in Places /\ s \in Proposals /\ QueueEntry(state) /\ versions = <<>> /\ s = state.proposal
  BY <1>1, SearchTypes DEF SearchInv, ExpansionIsRight, ProposalAt
<1>3. Movable[s] = Expandable(s) /\ Blames[s] = ExpansionReasons(s) /\ Statics[s] = StaticStatus(s)
  BY <1>2 DEF Movable, Blames, Statics
<1>4. /\ searchOutcome' = IF Accepts(state.status) THEN "found" ELSE searchOutcome
      /\ uncertain' = (uncertain \/ state.status = "unknown" \/ (state.status = "conflict" /\ BlockingFindings(s) = {}))
      /\ limitReached' = (limitReached \/ (expands /\ atLimit))
      /\ packages' = IF expands /\ ~atLimit THEN Ascending(Movable[s]) ELSE <<>>
      /\ found' = Blames[s]
      /\ head' = IF Accepts(state.status) \/ (expands /\ ~atLimit) THEN head ELSE head + 1
  <2>1. {p \in DOMAIN ExpansionReasons(s) : ExpansionReasons(s)[p] # {}} = Expandable(s)
    BY DEF Expandable, ExpansionReasons
  <2>2. state.proposal = s
    BY <1>2
  <2>3. LET blocking == BlockingFindings(state.proposal)
            reasons == ExpansionReasons(state.proposal)
            expandable == {p \in DOMAIN reasons : reasons[p] # {}}
            extends == ~Accepts(state.status) /\ state.status # "unknown" /\ expandable # {}
        IN /\ searchOutcome' = IF Accepts(state.status) THEN "found" ELSE searchOutcome
           /\ uncertain' = (uncertain \/ state.status = "unknown" \/ (state.status = "conflict" /\ blocking = {}))
           /\ limitReached' = (limitReached \/ (extends /\ atLimit))
           /\ packages' = IF extends /\ ~atLimit THEN Ascending(expandable) ELSE <<>>
           /\ found' = reasons
           /\ head' = IF Accepts(state.status) \/ (extends /\ ~atLimit) THEN head ELSE head + 1
    BY DEF Inspect
  <2> HIDE DEF s, state, atLimit
  <2> QED BY <1>3, <2>1, <2>2, <2>3
<1>5. Proposals' = Proposals /\ Statics' = Statics /\ Blames' = Blames /\ Movable' = Movable /\ Offers' = Offers
  BY <1>1, ProblemStands
<1>6. Places' = Places /\ (\A i : ProposalAt(i)' = ProposalAt(i)) /\ Places = 1 .. Len(planQueue) /\ Len(planQueue) \in Nat
  BY <1>1, SearchTypes DEF Places, ProposalAt
<1>7. Ascending(Movable[s]) \in Seq(Movable[s]) /\ Movable[s] \subseteq Direct
      /\ \A p \in Movable[s] : \E i \in 1 .. Len(Ascending(Movable[s])) : Ascending(Movable[s])[i] = p
  <2>1. Movable[s] \subseteq Direct /\ Direct = 1 .. NDirect /\ NDirect \in Nat
    BY <1>1, <1>3, SearchTypes, PlanAssumption DEF Expandable, Direct
  <2>2. IsFiniteSet(Movable[s]) /\ Movable[s] \in SUBSET Nat
    BY <2>1, FS_Interval, FS_Subset
  <2> QED BY <2>1, <2>2, AscendingHasAll
<1>8. state.status \in Statuses /\ (Statics[s] = "conflict" <=> BlockingFindings(s) # {})
      /\ (state.status \in Statuses)
  BY <1>2, <1>3, SearchTypes, StaticStatusIs DEF QueueEntry, VerdictOf
<1> HIDE DEF state, s, atLimit
<1>9. head \in 1 .. Len(planQueue) /\ head' \in {head, head + 1}
  BY <1>2, <1>4, <1>6
<1>10. QueueIsRight'
  <2>1. (\A i \in Places : QueueEntry(planQueue[i]))'
    BY <1>1, <1>6, EntriesStand DEF SearchInv, QueueIsRight
  <2>2. head' \in 1 .. (Len(planQueue') + 1)
    BY <1>1, <1>6, <1>9
  <2>3. limitReached' \in BOOLEAN /\ uncertain' \in BOOLEAN
    BY <1>4
  <2>4. /\ problem \in PlanProblems
        /\ IsSequence(planQueue) /\ Len(planQueue) >= 1 /\ ProposalAt(1) = problem.start
        /\ seen = {ProposalAt(i) : i \in Places}
        /\ analyzed = Len(planQueue) /\ analyzed <= MaxStates
        /\ queries \in Nat /\ queries <= MaxQueries
    BY DEF SearchInv, QueueIsRight
  <2>5. IsSequence(planQueue)'
    BY <1>1, <2>4 DEF IsSequence
  <2>6. (seen = {ProposalAt(i) : i \in Places})'
    BY <1>1, <1>6, <2>4
  <2> QED BY <1>1, <1>6, <2>1, <2>2, <2>3, <2>4, <2>5, <2>6, Zenon DEF QueueIsRight
<1>11. CandidatesAreOffers'
  BY <1>1, <1>4, <1>5 DEF SearchInv, CandidatesAreOffers
<1>12. ExpansionIsRight'
  <2>1. packages' \in Seq(Direct) /\ versions' \in Seq(2 .. TopVersion)
    <3>1. Ascending(Movable[s]) \in Seq(Direct)
      BY <1>7
    <3>2. packages' = Ascending(Movable[s]) \/ packages' = <<>>
      BY <1>4
    <3>3. <<>> \in Seq(Direct) /\ <<>> \in Seq(2 .. TopVersion)
      OBVIOUS
    <3>4. versions' = <<>>
      BY <1>1, <1>2
    <3> QED BY <3>1, <3>2, <3>3, <3>4
  <2>2. packages' # <<>> => head' = head /\ packages' = Ascending(Movable[s])
    BY <1>4
  <2>3. packages' # <<>> => \A i \in 1 .. Len(packages') : packages'[i] \in Movable[s]
    BY <1>7, <2>2
  <2>4. ProposalAt(head)' = ProposalAt(head') /\ s = ProposalAt(head)
    BY <1>1 DEF ProposalAt, s
  <2>5. packages' # <<>> => ProposalAt(head)' = s
    BY <2>2, <2>4
  <2> QED BY <1>1, <1>2, <1>4, <1>5, <1>6, <2>1, <2>2, <2>3, <2>5 DEF ExpansionIsRight
<1>13. QueueGrows'
  <2>1. \A i \in Places : Size(ProposalAt(i)) \in Int
    BY SearchTypes
  <2>2. /\ \A i, j \in Places : i <= j => Size(ProposalAt(i)) <= Size(ProposalAt(j))
        /\ \A j \in Places : Size(ProposalAt(j)) <= Size(ProposalAt(head)) + 1
    BY <1>2 DEF SearchInv, QueueGrows
  <2>3. ASSUME head' \in Places, NEW j \in Places PROVE Size(ProposalAt(j)) <= Size(ProposalAt(head')) + 1
    <3>1. Size(ProposalAt(head)) <= Size(ProposalAt(head'))
      BY <1>2, <1>6, <1>9, <2>1, <2>2, <2>3
    <3>2. Size(ProposalAt(j)) \in Int /\ Size(ProposalAt(head)) \in Int /\ Size(ProposalAt(head')) \in Int
      BY <1>2, <2>1, <2>3
    <3> QED BY <2>2, <3>1, <3>2
  <2>4. \A i : ProposalAt(i)' = ProposalAt(i)
    BY <1>6
  <2>5. ProposalAt(head)' = ProposalAt(head')
    BY <1>1 DEF ProposalAt
  <2> QED BY <1>6, <2>2, <2>3, <2>4, <2>5 DEF QueueGrows
<1>14. ExpansionsAreComplete'
  <2> SUFFICES ASSUME ~limitReached', ~uncertain'
               PROVE  /\ \A i \in 1 .. (head' - 1) :
                           Statics[ProposalAt(i)] = "conflict" /\ \A p \in Movable[ProposalAt(i)] : Tried(ProposalAt(i), p)
                      /\ packages' # <<>> =>
                           /\ head' = head /\ Statics[s] = "conflict"
                           /\ \A p \in Movable[s] : \E i \in 1 .. Len(packages') : packages'[i] = p
    <3>1. \A p, q : Tried(p, q)' = Tried(p, q)
      BY <1>1, <1>5 DEF Tried
    <3>2. versions' = <<>>
      BY <1>1, <1>2
    <3>3. ProposalAt(head)' = ProposalAt(head')
      BY <1>1 DEF ProposalAt
    <3>4. \A i : ProposalAt(i)' = ProposalAt(i)
      BY <1>6
    <3>5. s = ProposalAt(head)
      BY DEF s
    <3>6. \A i, p : Tried(ProposalAt(i), p)' = Tried(ProposalAt(i), p)
      BY <1>1, <1>5, <3>4 DEF Tried
    <3> QED BY <1>5, <3>2, <3>3, <3>4, <3>5, <3>6 DEF ExpansionsAreComplete
  <2>1. ~limitReached /\ ~uncertain /\ state.status # "unknown" /\ (state.status = "conflict" => BlockingFindings(s) # {})
        /\ ~(expands /\ atLimit)
    BY <1>4
  <2>2. \A i \in 1 .. (head - 1) :
          Statics[ProposalAt(i)] = "conflict" /\ \A p \in Movable[ProposalAt(i)] : Tried(ProposalAt(i), p)
    BY <2>1 DEF SearchInv, ExpansionsAreComplete
  <2>3. ~Accepts(state.status) => Statics[s] = "conflict"
    BY <1>8, <2>1 DEF Accepts, Statuses
  <2>4. head' # head => Statics[s] = "conflict" /\ Movable[s] = {}
    BY <1>4, <2>1, <2>3
  <2>5. \A i \in 1 .. (head' - 1) :
          Statics[ProposalAt(i)] = "conflict" /\ \A p \in Movable[ProposalAt(i)] : Tried(ProposalAt(i), p)
    <3> SUFFICES ASSUME NEW i \in 1 .. (head' - 1)
                 PROVE  Statics[ProposalAt(i)] = "conflict" /\ \A p \in Movable[ProposalAt(i)] : Tried(ProposalAt(i), p)
      OBVIOUS
    <3>1. CASE i \in 1 .. (head - 1)
      BY <2>2, <3>1
    <3>2. CASE i \notin 1 .. (head - 1)
      <4>1. i = head /\ head' # head
        <5>1. head \in Int /\ head >= 1
          BY <1>6, <1>9
        <5>2. head' = head \/ head' = head + 1
          BY <1>9
        <5>3. i \in Int /\ 1 <= i /\ i <= head' - 1 /\ head' \in Int
          BY <5>1, <5>2
        <5>4. ~(i <= head - 1)
          BY <3>2, <5>1, <5>3
        <5>5. head' # head
          BY <5>3, <5>4
        <5>6. head' = head + 1
          BY <5>2, <5>5
        <5> HIDE DEF expands
        <5> QED BY <5>1, <5>3, <5>4, <5>5, <5>6
      <4> QED BY <2>4, <4>1 DEF s
    <3> QED BY <3>1, <3>2
  <2>6. packages' # <<>> =>
          /\ head' = head /\ Statics[s] = "conflict"
          /\ \A p \in Movable[s] : \E i \in 1 .. Len(packages') : packages'[i] = p
    <3> SUFFICES ASSUME packages' # <<>>
                 PROVE  /\ head' = head /\ Statics[s] = "conflict"
                        /\ \A p \in Movable[s] : \E i \in 1 .. Len(packages') : packages'[i] = p
      OBVIOUS
    <3>1. expands /\ head' = head /\ packages' = Ascending(Movable[s])
      BY <1>4
    <3> QED BY <1>7, <2>3, <3>1
  <2> QED BY <2>5, <2>6
<1>15. EndIsJustified'
  <2>1. searchOutcome' = "found" => head' = head /\ Accepts(state.status)
    BY <1>1, <1>4
  <2>2. searchOutcome' # "impossible"
    BY <1>1, <1>4
  <2>3. planQueue' = planQueue /\ state = planQueue[head]
    BY <1>1 DEF state
  <2> QED BY <1>2, <1>6, <2>1, <2>2, <2>3 DEF EndIsJustified
<1> QED BY <1>10, <1>11, <1>12, <1>13, <1>14, <1>15 DEF SearchInv

-----------------------------------------------------------------------------
\* Arithmetic: the members of an interval of integers lie between its ends.
LEMMA IntervalBounds ==
  ASSUME NEW h \in Int, NEW i \in 1 .. (h - 1)
  PROVE  i \in Int /\ i >= 1 /\ i <= h - 1
OBVIOUS


(* What is left of an expansion after a package, or after a version of it. *)

\* Nothing is taken back, and what is added to the queue comes of its head.
QueueExtended ==
  /\ UNCHANGED <<problem, found, searchOutcome>>
  /\ Len(planQueue') \in Nat /\ Len(planQueue) <= Len(planQueue') /\ \A i \in Places : planQueue'[i] = planQueue[i]
  /\ seen \subseteq seen' /\ (~limitReached' => ~limitReached) /\ (~uncertain' => ~uncertain)
  /\ \A j \in 1 .. Len(planQueue') : Size(planQueue'[j].proposal) \in Int
  /\ \A i, j \in 1 .. Len(planQueue') : i <= j => Size(planQueue'[i].proposal) <= Size(planQueue'[j].proposal)
  /\ \A j \in 1 .. Len(planQueue') : Size(planQueue'[j].proposal) <= Size(ProposalAt(head)) + 1

\* What the step says of the expansion.
ExpansionKept ==
  head' \in 1 .. (Len(planQueue') + 1) /\ ExpansionIsRight' /\ QueueGrows' /\ ExpansionsAreComplete'

\* The queue as it was.
LEMMA QueueStands ==
  ASSUME SearchInv, packages # <<>>, UNCHANGED <<problem, found, searchOutcome, planQueue, seen>>,
         ~limitReached' => ~limitReached, ~uncertain' => ~uncertain
  PROVE  QueueExtended
<1>1. head \in Places /\ Len(planQueue) \in Nat /\ Places = 1 .. Len(planQueue)
  BY SearchTypes DEF SearchInv, ExpansionIsRight
<1>2. /\ \A i, j \in Places : i <= j => Size(ProposalAt(i)) <= Size(ProposalAt(j))
      /\ \A j \in Places : Size(ProposalAt(j)) <= Size(ProposalAt(head)) + 1
  BY <1>1 DEF SearchInv, QueueGrows
<1>3. \A j \in Places : Size(ProposalAt(j)) \in Int
  BY SearchTypes
<1> QED BY <1>1, <1>2, <1>3 DEF QueueExtended, ProposalAt

\* A queue that is extended while a package is expanded still grows by the package.
LEMMA QueueGrowsOn ==
  ASSUME SearchInv, QueueExtended, packages # <<>>, head' \in {head, head + 1}
  PROVE  QueueGrows'
<1> DEFINE size(i) == Size(planQueue'[i].proposal)
<1>1. head \in Places /\ Len(planQueue) \in Nat /\ Places = 1 .. Len(planQueue)
      /\ \A i \in Places : Size(ProposalAt(i)) \in Int
  BY SearchTypes DEF SearchInv, ExpansionIsRight
<1>2. /\ Len(planQueue') \in Nat /\ Len(planQueue) <= Len(planQueue')
      /\ \A i, j \in 1 .. Len(planQueue') : i <= j => size(i) <= size(j)
      /\ \A j \in 1 .. Len(planQueue') : size(j) <= Size(ProposalAt(head)) + 1
      /\ size(head) = Size(ProposalAt(head))
  BY <1>1 DEF QueueExtended, ProposalAt
<1>3. \A j \in 1 .. Len(planQueue') : size(j) \in Int
  BY DEF QueueExtended
<1>4. ASSUME head' \in 1 .. Len(planQueue'), NEW j \in 1 .. Len(planQueue') PROVE size(j) <= size(head') + 1
  <2>1. head \in 1 .. Len(planQueue') /\ head <= head'
    BY <1>1, <1>2
  <2>2. size(head) <= size(head')
    BY <1>2, <1>4, <2>1
  <2>3. size(j) <= size(head) + 1
    BY <1>2
  <2>4. size(j) \in Int /\ size(head) \in Int /\ size(head') \in Int
    BY <1>3, <1>4, <2>1
  <2> HIDE DEF size
  <2> QED BY <2>2, <2>3, <2>4
<1>5. Places' = 1 .. Len(planQueue') /\ (\A i : ProposalAt(i)' = planQueue'[i].proposal)
      /\ ProposalAt(head)' = planQueue'[head'].proposal
  BY DEF Places, ProposalAt
<1> QED BY <1>2, <1>4, <1>5 DEF QueueGrows

-----------------------------------------------------------------------------
\* A package is done with.
LEMMA PackageIsDone ==
  ASSUME SearchInv, packages # <<>>, NextPackage, QueueExtended,
         ~limitReached' /\ ~uncertain' => \A v \in Offers[packages[1]] : With(ProposalAt(head), packages[1], v) \in seen'
  PROVE  ExpansionKept
<1>1. /\ head \in Places /\ Places = 1 .. Len(planQueue) /\ Len(planQueue) \in Nat
      /\ packages \in Seq(Direct) /\ found = Blames[ProposalAt(head)]
      /\ \A i \in 1 .. Len(packages) : packages[i] \in Movable[ProposalAt(head)]
      /\ \A i \in Places : ProposalAt(i) \in Proposals
  BY SearchTypes DEF SearchInv, ExpansionIsRight
<1>2. Len(packages) \in Nat /\ Len(packages) >= 1 /\ DOMAIN packages = 1 .. Len(packages)
  BY <1>1
<1>3. /\ packages' \in Seq(Direct) /\ Len(packages') = Len(packages) - 1
      /\ \A i \in 1 .. Len(packages') : packages'[i] = packages[i + 1]
      /\ versions' = <<>> /\ head' = IF Len(packages) = 1 THEN head + 1 ELSE head
  BY <1>1, <1>2 DEF NextPackage
<1>4. packages' = <<>> <=> Len(packages) = 1
  BY <1>2, <1>3
<1>5. /\ Statics' = Statics /\ Blames' = Blames /\ Movable' = Movable /\ Offers' = Offers
      /\ found' = found /\ seen \subseteq seen' /\ Len(planQueue') \in Nat /\ Len(planQueue) <= Len(planQueue')
      /\ \A i \in Places : ProposalAt(i)' = ProposalAt(i)
  BY ProblemStands DEF QueueExtended, ProposalAt
<1>6. head' \in {head, head + 1} /\ head' \in 1 .. (Len(planQueue') + 1)
  BY <1>1, <1>3, <1>5
<1>7. ProposalAt(head)' = planQueue'[head'].proposal /\ Places' = 1 .. Len(planQueue')
  BY DEF ProposalAt, Places
<1>8. packages' # <<>> => head' = head /\ head' \in Places' /\ ProposalAt(head)' = ProposalAt(head)
  <2> SUFFICES ASSUME packages' # <<>> PROVE head' = head /\ head' \in Places' /\ ProposalAt(head)' = ProposalAt(head)
    OBVIOUS
  <2>1. head' = head
    BY <1>3, <1>4
  <2>2. planQueue'[head].proposal = ProposalAt(head)
    BY <1>1 DEF QueueExtended, ProposalAt
  <2> QED BY <1>1, <1>5, <1>7, <2>1, <2>2
<1>9. ExpansionIsRight'
  <2>1. <<>> \in Seq(2 .. TopVersion)
    OBVIOUS
  <2>2. \A i \in 1 .. Len(packages') : packages'[i] \in Movable[ProposalAt(head)]
    <3> SUFFICES ASSUME NEW i \in 1 .. Len(packages') PROVE packages[i + 1] \in Movable[ProposalAt(head)]
      BY <1>3
    <3>1. i + 1 \in 1 .. Len(packages)
      BY <1>2, <1>3
    <3> QED BY <1>1, <3>1
  <2> QED BY <1>1, <1>3, <1>5, <1>8, <2>1, <2>2 DEF ExpansionIsRight
<1>10. QueueGrows'
  BY <1>6, QueueGrowsOn
<1>11. ExpansionsAreComplete'
  <2> SUFFICES ASSUME ~limitReached', ~uncertain' PROVE ExpansionsAreComplete'
    BY DEF ExpansionsAreComplete
  <2>1. ~limitReached /\ ~uncertain
    BY DEF QueueExtended
  <2>2. /\ \A i \in 1 .. (head - 1) :
             Statics[ProposalAt(i)] = "conflict" /\ \A p \in Movable[ProposalAt(i)] : Tried(ProposalAt(i), p)
        /\ Statics[ProposalAt(head)] = "conflict"
        /\ \A p \in Movable[ProposalAt(head)] :
             Tried(ProposalAt(head), p) \/ \E i \in 1 .. Len(packages) : packages[i] = p
    BY <2>1 DEF SearchInv, ExpansionsAreComplete
  <2> DEFINE Handled(s, p) == \A v \in Offers[p] : With(s, p, v) \in seen'
  <2>3. \A s, p : Tried(s, p) => Handled(s, p)
    BY <1>5 DEF Tried
  <2>4. Handled(ProposalAt(head), packages[1])
    OBVIOUS
  <2>5. \A p \in Movable[ProposalAt(head)] :
          Handled(ProposalAt(head), p) \/ \E i \in 1 .. Len(packages') : packages'[i] = p
    <3> SUFFICES ASSUME NEW p \in Movable[ProposalAt(head)], ~Handled(ProposalAt(head), p)
                 PROVE  \E i \in 1 .. Len(packages') : packages'[i] = p
      OBVIOUS
    <3>1. PICK i \in 1 .. Len(packages) : packages[i] = p
      BY <2>2, <2>3
    <3>2. i # 1
      BY <2>4, <3>1
    <3> HIDE DEF Handled
    <3>3. i - 1 \in 1 .. Len(packages') /\ packages'[i - 1] = packages[(i - 1) + 1] /\ (i - 1) + 1 = i
      <4>1. i \in Int /\ i >= 1 /\ i <= Len(packages)
        BY <1>2, <3>1
      <4>2. i - 1 \in 1 .. Len(packages') /\ (i - 1) + 1 = i
        BY <1>2, <1>3, <3>2, <4>1
      <4> QED BY <1>3, <4>2
    <3> QED BY <3>1, <3>3
  <2> HIDE DEF Handled
  <2>6. \A i \in 1 .. (head' - 1) :
          i \in Places /\ Statics[ProposalAt(i)] = "conflict" /\ \A p \in Movable[ProposalAt(i)] : Handled(ProposalAt(i), p)
    <3> SUFFICES ASSUME NEW i \in 1 .. (head' - 1)
                 PROVE  i \in Places /\ Statics[ProposalAt(i)] = "conflict"
                        /\ \A p \in Movable[ProposalAt(i)] : Handled(ProposalAt(i), p)
      OBVIOUS
    <3>0. head \in Int /\ head' \in Int
      BY <1>1, <1>6
    <3>1. head \in Int /\ head >= 1 /\ head <= Len(planQueue) /\ head' \in Int /\ i \in Int /\ i >= 1 /\ i <= head' - 1
      <4>1. i \in Int /\ i >= 1 /\ i <= head' - 1
        BY <3>0, IntervalBounds
      <4>2. head >= 1 /\ head <= Len(planQueue)
        BY <1>1
      <4> QED BY <3>0, <4>1, <4>2
    <3>2. CASE i <= head - 1
      <4>1. i \in 1 .. (head - 1) /\ i \in Places
        BY <1>1, <3>1, <3>2
      <4> QED BY <2>2, <2>3, <4>1
    <3>3. CASE ~(i <= head - 1)
      <4>1. head' # head
        BY <3>1, <3>3
      <4>2. head' = head + 1 /\ packages' = <<>>
        BY <1>4, <1>3, <4>1
      <4>3. i = head
        BY <3>1, <3>3, <4>2
      <4>4. \A p \in Movable[ProposalAt(head)] : Handled(ProposalAt(head), p)
        BY <2>5, <4>2
      <4> QED BY <1>1, <2>2, <4>3, <4>4
    <3> QED BY <3>2, <3>3
  <2>7. (\A i \in 1 .. (head - 1) :
          Statics[ProposalAt(i)] = "conflict" /\ \A p \in Movable[ProposalAt(i)] : Tried(ProposalAt(i), p))'
    <3> SUFFICES ASSUME NEW i \in 1 .. (head' - 1)
                 PROVE (Statics[ProposalAt(i)] = "conflict" /\ \A p \in Movable[ProposalAt(i)] : Tried(ProposalAt(i), p))'
      OBVIOUS
    <3>1. ProposalAt(i)' = ProposalAt(i)
      BY <1>5, <2>6
    <3> QED BY <1>5, <2>6, <3>1 DEF Tried, Handled
  <2>8. packages' # <<>> =>
          /\ Statics'[ProposalAt(head)'] = "conflict"
          /\ \A p \in Movable'[ProposalAt(head)'] :
               Handled(ProposalAt(head)', p) \/ \E i \in 1 .. Len(packages') : packages'[i] = p
    BY <1>5, <1>8, <2>2, <2>5
  <2>9. \A s, p : (Handled(s, p) <=> \A v \in Offers'[p] : With(s, p, v) \in seen')
    BY <1>5 DEF Handled
  <2> QED BY <1>3, <2>7, <2>8, <2>9 DEF ExpansionsAreComplete, Tried
<1> QED BY <1>6, <1>9, <1>10, <1>11 DEF ExpansionKept

-----------------------------------------------------------------------------
\* A sequence over a set is one over a larger set.
LEMMA SequenceOfMore ==
  ASSUME NEW A, NEW B, A \subseteq B, NEW s \in Seq(A)
  PROVE  s \in Seq(B) /\ \A i \in 1 .. Len(s) : s[i] \in A
OBVIOUS

\* Versions of the package are left.
LEMMA VersionsAreLeft ==
  ASSUME SearchInv, packages # <<>>, UNCHANGED <<packages, head>>, QueueExtended,
         versions' \in Seq(Offers[packages[1]]),
         ~limitReached' /\ ~uncertain' =>
           \A v \in Offers[packages[1]] :
             With(ProposalAt(head), packages[1], v) \in seen' \/ \E i \in 1 .. Len(versions') : versions'[i] = v
  PROVE  ExpansionKept
<1>1. /\ head \in Places /\ Places = 1 .. Len(planQueue) /\ Len(planQueue) \in Nat
      /\ packages \in Seq(Direct) /\ found = Blames[ProposalAt(head)]
      /\ \A i \in 1 .. Len(packages) : packages[i] \in Movable[ProposalAt(head)]
      /\ problem \in PlanProblems
  BY SearchTypes DEF SearchInv, ExpansionIsRight
<1>2. 1 \in 1 .. Len(packages)
  BY <1>1
<1>3. packages[1] \in problem.allowed
  BY <1>1, <1>2, SearchTypes DEF Movable, Expandable
<1>4. versions' \in Seq(2 .. TopVersion) /\ \A i \in 1 .. Len(versions') : versions'[i] \in Offers[packages[1]]
  <2> DEFINE O == Offers[packages[1]]
             w == versions'
  <2>1. O \subseteq 2 .. TopVersion
    BY <1>3 DEF Offers, Offered
  <2>2. w \in Seq(O)
    OBVIOUS
  <2> HIDE DEF O, w
  <2>3. w \in Seq(2 .. TopVersion) /\ \A i \in 1 .. Len(w) : w[i] \in O
    BY <2>1, <2>2, SequenceOfMore
  <2> QED BY <2>3 DEF O, w
<1>5. /\ Statics' = Statics /\ Blames' = Blames /\ Movable' = Movable /\ Offers' = Offers
      /\ found' = found /\ seen \subseteq seen' /\ Len(planQueue') \in Nat /\ Len(planQueue) <= Len(planQueue')
      /\ \A i \in Places : ProposalAt(i)' = ProposalAt(i)
  BY ProblemStands DEF QueueExtended, ProposalAt
<1>6. head' \in {head, head + 1} /\ head' \in 1 .. (Len(planQueue') + 1) /\ head' \in 1 .. Len(planQueue')
  BY <1>1, <1>5
<1>7. head' \in Places' /\ ProposalAt(head)' = ProposalAt(head)
  <2>1. ProposalAt(head)' = planQueue'[head'].proposal /\ head' = head
    BY DEF ProposalAt
  <2>2. planQueue'[head].proposal = ProposalAt(head)
    BY <1>1 DEF QueueExtended, ProposalAt
  <2> QED BY <1>6, <2>1, <2>2 DEF Places
<1>8. ExpansionIsRight'
  BY <1>1, <1>4, <1>5, <1>7 DEF ExpansionIsRight
<1>9. QueueGrows'
  BY <1>6, QueueGrowsOn
<1>10. ExpansionsAreComplete'
  <2> SUFFICES ASSUME ~limitReached', ~uncertain' PROVE ExpansionsAreComplete'
    BY DEF ExpansionsAreComplete
  <2>1. ~limitReached /\ ~uncertain
    BY DEF QueueExtended
  <2>2. /\ \A i \in 1 .. (head - 1) :
             Statics[ProposalAt(i)] = "conflict" /\ \A p \in Movable[ProposalAt(i)] : Tried(ProposalAt(i), p)
        /\ Statics[ProposalAt(head)] = "conflict"
        /\ \A p \in Movable[ProposalAt(head)] :
             Tried(ProposalAt(head), p) \/ \E i \in 1 .. Len(packages) : packages[i] = p
    BY <2>1 DEF SearchInv, ExpansionsAreComplete
  <2>3. \A s, p : Tried(s, p) => Tried(s, p)'
    BY <1>5 DEF Tried
  <2>4. (\A i \in 1 .. (head - 1) :
          Statics[ProposalAt(i)] = "conflict" /\ \A p \in Movable[ProposalAt(i)] : Tried(ProposalAt(i), p))'
    <3> SUFFICES ASSUME NEW i \in 1 .. (head' - 1)
                 PROVE (Statics[ProposalAt(i)] = "conflict" /\ \A p \in Movable[ProposalAt(i)] : Tried(ProposalAt(i), p))'
      OBVIOUS
    <3>1. i \in 1 .. (head - 1) /\ i \in Places
      <4>1. head' = head /\ head \in Int /\ head <= Len(planQueue) /\ head' \in Int
        BY <1>1
      <4> QED BY <1>1, <4>1
    <3>2. ProposalAt(i)' = ProposalAt(i)
      BY <1>5, <3>1
    <3> QED BY <1>5, <2>2, <3>1, <3>2 DEF Tried
  <2>5. \A p \in Movable[ProposalAt(head)] :
          Tried(ProposalAt(head), p)' \/ \E i \in 1 .. Len(packages) : packages[i] = p
    <3> SUFFICES ASSUME NEW p \in Movable[ProposalAt(head)], Tried(ProposalAt(head), p) PROVE Tried(ProposalAt(head), p)'
      BY <2>2
    <3> QED BY <1>5, <1>7 DEF Tried
  <2> QED BY <1>5, <1>7, <2>2, <2>4, <2>5 DEF ExpansionsAreComplete
<1> QED BY <1>6, <1>8, <1>9, <1>10 DEF ExpansionKept

-----------------------------------------------------------------------------
\* One more version is tried.
LEMMA TryVersionKeeps ==
  SearchInv /\ TryVersion => SearchInv'
<1> SUFFICES ASSUME SearchInv, TryVersion PROVE SearchInv'
  OBVIOUS
<1> DEFINE p == packages[1]
           s == ProposalAt(head)
           proposal == With(s, p, versions[1])
           Advances == IF Len(versions) = 1 THEN NextPackage
                       ELSE versions' = Tail(versions) /\ UNCHANGED <<packages, head>>
           Entry(status) == [proposal |-> proposal, status |-> status,
                             reasons |-> [q \in DOMAIN proposal |->
                                            IF q = p THEN found[p] ELSE planQueue[head].reasons[q]]]
           OutOfBudget == limitReached' = TRUE /\ NextPackage /\ UNCHANGED <<planQueue, seen, analyzed>>
           Duplicate == proposal \in seen /\ Advances /\ UNCHANGED <<planQueue, seen, analyzed, limitReached>>
           Queued == /\ analyzed < MaxStates /\ proposal \notin seen
                     /\ seen' = seen \cup {proposal} /\ analyzed' = analyzed + 1
                     /\ \E status \in Verdicts(proposal) : planQueue' = Append(planQueue, Entry(status))
                     /\ Advances /\ UNCHANGED limitReached
<1>1. /\ searchOutcome = "searching" /\ versions # <<>> /\ packages # <<>>
      /\ UNCHANGED <<problem, candidates, found, queries, uncertain, searchOutcome>>
  BY DEF TryVersion, Searching, SearchInv, ExpansionIsRight
<1>2. /\ problem \in PlanProblems /\ packages \in Seq(Direct) /\ versions \in Seq(2 .. TopVersion)
      /\ head \in Places /\ Places = 1 .. Len(planQueue) /\ Len(planQueue) \in Nat /\ found = Blames[s]
      /\ \A i \in 1 .. Len(packages) : packages[i] \in Movable[s]
      /\ \A i \in 1 .. Len(versions) : versions[i] \in Offers[packages[1]]
      /\ limitReached \in BOOLEAN /\ uncertain \in BOOLEAN
  BY <1>1, SearchTypes DEF SearchInv, ExpansionIsRight
<1>3. Len(packages) \in Nat /\ Len(packages) >= 1 /\ Len(versions) \in Nat /\ Len(versions) >= 1
      /\ Head(packages) = packages[1] /\ Head(versions) = versions[1]
  BY <1>1, <1>2
<1>4. OutOfBudget \/ Duplicate \/ Queued
  <2>1. NextProposal = proposal
    BY <1>3 DEF NextProposal, With, ProposalAt
  <2>2. \/ OutOfBudget
        \/ NextProposal \in seen /\ Advances /\ UNCHANGED <<planQueue, seen, analyzed, limitReached>>
        \/ /\ analyzed < MaxStates /\ NextProposal \notin seen
           /\ seen' = seen \cup {NextProposal} /\ analyzed' = analyzed + 1
           /\ \E status \in Verdicts(NextProposal) :
                planQueue' = Append(planQueue, [proposal |-> NextProposal, status |-> status,
                                                reasons |-> [q \in DOMAIN NextProposal |->
                                                  IF q = Head(packages) THEN found[Head(packages)]
                                                  ELSE planQueue[head].reasons[q]]])
           /\ Advances /\ UNCHANGED limitReached
    BY DEF TryVersion
  <2> HIDE DEF proposal, Advances
  <2> QED BY <1>3, <2>1, <2>2
<1>5. /\ s \in Proposals /\ QueueEntry(planQueue[head]) /\ planQueue[head].proposal = s
      /\ p \in problem.allowed \ DOMAIN s /\ versions[1] \in Offered(p) /\ found[p] # {} /\ p \in Movable[s]
  <2>1. s \in Proposals /\ QueueEntry(planQueue[head]) /\ planQueue[head].proposal = s
    BY <1>2, SearchTypes DEF ProposalAt
  <2>2. p \in Movable[s] /\ Movable[s] = Expandable(s) /\ Blames[s] = ExpansionReasons(s)
    BY <1>2, <1>3, <2>1 DEF Movable, Blames
  <2>3. p \in problem.allowed \ DOMAIN s /\ found[p] # {}
    BY <1>2, <2>2 DEF Expandable
  <2>4. versions[1] \in Offered(p)
    <3>1. 1 \in 1 .. Len(versions)
      BY <1>3
    <3>2. versions[1] \in Offers[p]
      BY <1>2, <3>1
    <3> HIDE DEF p
    <3> QED BY <2>3, <3>2 DEF Offers
  <2> QED BY <2>1, <2>2, <2>3, <2>4
<1>6. proposal \in Proposals /\ Size(proposal) = Size(s) + 1 /\ DOMAIN proposal = DOMAIN s \cup {p}
  BY <1>2, <1>5, WithIsProposal DEF With
<1> HIDE DEF s, proposal, p
\* The queue, and what the step adds to it.
<1>7. Len(planQueue) >= 1 /\ ProposalAt(1) = problem.start /\ seen = {ProposalAt(i) : i \in Places}
      /\ analyzed = Len(planQueue) /\ analyzed <= MaxStates /\ queries \in Nat /\ queries <= MaxQueries
      /\ IsSequence(planQueue) /\ \A i \in Places : QueueEntry(planQueue[i])
  BY DEF SearchInv, QueueIsRight
<1>8. ASSUME Queued
      PROVE  /\ IsSequence(planQueue') /\ Len(planQueue') = Len(planQueue) + 1
             /\ \A i \in Places : planQueue'[i] = planQueue[i]
             /\ QueueEntry(planQueue'[Len(planQueue) + 1]) /\ planQueue'[Len(planQueue) + 1].proposal = proposal
  <2>1. PICK status \in Verdicts(proposal) : planQueue' = Append(planQueue, Entry(status))
    BY <1>8
  <2>2. QueueEntry(Entry(status))
    <3>1. Entry(status).proposal = proposal /\ Entry(status).status = status
          /\ DOMAIN Entry(status).reasons = DOMAIN proposal
          /\ \A q \in DOMAIN proposal : Entry(status).reasons[q] = IF q = p THEN found[p] ELSE planQueue[head].reasons[q]
      OBVIOUS
    <3>2. VerdictOf(status, Statics[proposal])
      BY <1>2, <1>6, VerdictsAre DEF Statics
    <3>3. \A q \in DOMAIN proposal \ DOMAIN problem.start : Entry(status).reasons[q] # {}
      BY <1>5, <1>6, <3>1 DEF QueueEntry
    <3> HIDE DEF Entry
    <3> QED BY <1>6, <3>1, <3>2, <3>3 DEF QueueEntry
  <2>3. PICK X : planQueue \in Seq(X)
    BY <1>7 DEF IsSequence
  <2> DEFINE e == Entry(status)
  <2>4. e.proposal = proposal
    OBVIOUS
  <2> HIDE DEF e
  <2>5. planQueue \in Seq(X \cup {e}) /\ e \in X \cup {e} /\ planQueue' = Append(planQueue, e)
    BY <2>1, <2>3 DEF e
  <2>6. planQueue' \in Seq(X \cup {e}) /\ Len(planQueue') = Len(planQueue) + 1
        /\ (\A i \in 1 .. Len(planQueue) : planQueue'[i] = planQueue[i]) /\ planQueue'[Len(planQueue) + 1] = e
    BY <2>5
  <2> QED BY <1>2, <2>2, <2>4, <2>6 DEF IsSequence, e
<1>9. \/ planQueue' = planQueue /\ seen' = seen /\ analyzed' = analyzed
      \/ Queued
  BY <1>4
<1> HIDE DEF Queued
<1>10. QueueExtended
  <2>1. CASE planQueue' = planQueue /\ seen' = seen
    <3>1. ~limitReached' => ~limitReached
      BY <1>2, <1>4 DEF Queued
    <3> QED BY <1>1, <2>1, <3>1, QueueStands
  <2>2. CASE Queued
    <3> DEFINE n == Len(planQueue)
    <3>1. /\ Len(planQueue') = n + 1 /\ n \in Nat /\ planQueue'[n + 1].proposal = proposal
          /\ \A i \in 1 .. n : planQueue'[i].proposal = ProposalAt(i)
      BY <1>2, <1>8, <2>2 DEF ProposalAt
    <3>2. \A i \in 1 .. n : Size(ProposalAt(i)) \in Int
      BY <1>2, SearchTypes
    <3>3. /\ \A i, j \in 1 .. n : i <= j => Size(ProposalAt(i)) <= Size(ProposalAt(j))
          /\ \A j \in 1 .. n : Size(ProposalAt(j)) <= Size(s) + 1
      BY <1>2 DEF SearchInv, QueueGrows, s
    <3>4. Size(s) \in Int
      BY <1>2, <3>2 DEF s
    <3> DEFINE size(i) == Size(planQueue'[i].proposal)
    <3>5. \A i \in 1 .. (n + 1) : IF i = n + 1 THEN size(i) = Size(s) + 1
                                   ELSE i \in 1 .. n /\ size(i) = Size(ProposalAt(i))
      BY <1>6, <3>1
    <3> HIDE DEF size
    <3>6. /\ \A j \in 1 .. (n + 1) : size(j) \in Int /\ size(j) <= Size(s) + 1
          /\ \A i, j \in 1 .. (n + 1) : i <= j => size(i) <= size(j)
      <4>1. ASSUME NEW j \in 1 .. (n + 1) PROVE size(j) \in Int /\ size(j) <= Size(s) + 1
        BY <3>2, <3>3, <3>4, <3>5
      <4>2. ASSUME NEW i \in 1 .. (n + 1), NEW j \in 1 .. (n + 1), i <= j PROVE size(i) <= size(j)
        <5>1. CASE j = n + 1
          BY <3>5, <4>1, <5>1
        <5>2. CASE j # n + 1
          <6>1. i # n + 1
            BY <3>1, <4>2, <5>2
          <6> QED BY <3>3, <3>5, <4>2, <5>2, <6>1
        <5> QED BY <5>1, <5>2
      <4> QED BY <4>1, <4>2
    <3>7. seen \subseteq seen' /\ (~limitReached' => ~limitReached) /\ (~uncertain' => ~uncertain)
      BY <1>1, <2>2 DEF Queued
    <3>8. \A i \in Places : planQueue'[i] = planQueue[i]
      BY <1>8, <2>2
    <3>9. n + 1 \in Nat /\ n <= n + 1
      BY <3>1
    <3> HIDE <1>2
    <3> QED BY <1>1, <3>1, <3>6, <3>7, <3>8, <3>9 DEF QueueExtended, size, s
  <2> QED BY <1>9, <2>1, <2>2
<1>11. ExpansionKept
  <2>1. Advances /\ proposal \in seen' => ExpansionKept
    <3> SUFFICES ASSUME Advances, proposal \in seen' PROVE ExpansionKept
      OBVIOUS
    <3>1. ASSUME ~limitReached', ~uncertain', NEW v \in Offers[p]
          PROVE  With(s, p, v) \in seen' \/ \E i \in 1 .. Len(versions) : i # 1 /\ versions[i] = v
      <4>1. ~limitReached /\ ~uncertain
        BY <1>10, <3>1 DEF QueueExtended
      <4>2. With(s, p, v) \in seen \/ \E i \in 1 .. Len(versions) : versions[i] = v
        BY <1>1, <3>1, <4>1 DEF SearchInv, ExpansionsAreComplete, s, p
      <4>3. seen \subseteq seen'
        BY <1>10 DEF QueueExtended
      <4> QED BY <4>2, <4>3 DEF proposal
    <3>2. CASE Len(versions) = 1
      <4>1. ~limitReached' /\ ~uncertain' => \A v \in Offers[p] : With(s, p, v) \in seen'
        BY <3>1, <3>2
      <4> QED BY <1>1, <1>10, <3>2, <4>1, PackageIsDone DEF s, p
    <3>3. CASE Len(versions) # 1
      <4>1. versions' = Tail(versions) /\ UNCHANGED <<packages, head>>
        BY <3>3
      <4>2. versions \in Seq(Offers[p])
        BY <1>2 DEF p
      <4>3. versions' \in Seq(Offers[p]) /\ Len(versions') = Len(versions) - 1
            /\ \A i \in 1 .. Len(versions') : versions'[i] = versions[i + 1]
        BY <1>1, <4>1, <4>2
      <4>4. ASSUME ~limitReached', ~uncertain', NEW v \in Offers[p]
            PROVE  With(s, p, v) \in seen' \/ \E i \in 1 .. Len(versions') : versions'[i] = v
        <5> SUFFICES ASSUME With(s, p, v) \notin seen' PROVE \E i \in 1 .. Len(versions') : versions'[i] = v
          OBVIOUS
        <5>1. PICK i \in 1 .. Len(versions) : i # 1 /\ versions[i] = v
          BY <3>1, <4>4
        <5>2. i - 1 \in 1 .. Len(versions') /\ (i - 1) + 1 = i
          BY <1>3, <4>3, <5>1
        <5>3. versions'[i - 1] = v
          BY <4>3, <5>1, <5>2
        <5> QED BY <5>2, <5>3
      <4> QED BY <1>1, <1>10, <4>1, <4>3, <4>4, VersionsAreLeft DEF s, p
    <3> QED BY <3>2, <3>3
  <2>2. CASE OutOfBudget
    <3>1. limitReached' = TRUE /\ NextPackage
      BY <2>2
    <3> QED BY <1>1, <1>10, <3>1, PackageIsDone
  <2>3. CASE Duplicate
    BY <2>1, <2>3
  <2>4. CASE Queued
    BY <2>1, <2>4 DEF Queued
  <2> HIDE DEF OutOfBudget, Duplicate, Advances
  <2> QED BY <1>4, <2>2, <2>3, <2>4
<1>12. QueueIsRight'
  <2>1. \A e : QueueEntry(e) => QueueEntry(e)'
    BY <1>1, EntriesStand
  <2>2. head' \in 1 .. (Len(planQueue') + 1)
    BY <1>11 DEF ExpansionKept
  <2>3. limitReached' \in BOOLEAN
    BY <1>2, <1>4 DEF Queued
  <2>4. Places' = 1 .. Len(planQueue') /\ \A i : ProposalAt(i)' = planQueue'[i].proposal
    BY DEF Places, ProposalAt
  <2>5. ProposalAt(1)' = planQueue'[1].proposal /\ 1 \in Places
    BY <1>2, <1>7 DEF ProposalAt
  <2>6. CASE UNCHANGED <<planQueue, seen, analyzed>>
    <3>1. (\A i \in Places : QueueEntry(planQueue[i]))'
      BY <1>2, <1>7, <2>1, <2>4, <2>6
    <3>2. (seen = {ProposalAt(i) : i \in Places})'
      BY <1>2, <1>7, <2>4, <2>6 DEF ProposalAt
    <3>3. IsSequence(planQueue)' /\ ProposalAt(1)' = ProposalAt(1)
      BY <1>7, <2>6 DEF IsSequence, ProposalAt
    <3> HIDE DEF Advances
    <3> QED BY <1>1, <1>2, <1>7, <2>2, <2>3, <2>6, <3>1, <3>2, <3>3 DEF QueueIsRight
  <2>7. CASE Queued
    <3> DEFINE n == Len(planQueue)
    <3>1. /\ IsSequence(planQueue') /\ Len(planQueue') = n + 1 /\ n \in Nat /\ n >= 1
          /\ \A i \in 1 .. n : planQueue'[i] = planQueue[i]
          /\ QueueEntry(planQueue'[n + 1]) /\ planQueue'[n + 1].proposal = proposal
      BY <1>2, <1>7, <1>8, <2>7
    <3>2. (\A i \in Places : QueueEntry(planQueue[i]))'
      <4> SUFFICES ASSUME NEW i \in 1 .. (n + 1) PROVE QueueEntry(planQueue'[i])
        BY <2>1, <2>4, <3>1
      <4>1. CASE i \in 1 .. n
        BY <1>2, <1>7, <3>1, <4>1
      <4>2. CASE i \notin 1 .. n
        <5>1. i = n + 1
          BY <3>1, <4>2
        <5> QED BY <3>1, <5>1
      <4> QED BY <4>1, <4>2
    <3>3. seen' = {planQueue'[i].proposal : i \in 1 .. (n + 1)}
      <4>1. seen' = seen \cup {proposal}
        BY <2>7 DEF Queued
      <4>2. seen = {planQueue'[i].proposal : i \in 1 .. n}
        BY <1>2, <1>7, <3>1 DEF ProposalAt
      <4>3. 1 .. (n + 1) = (1 .. n) \cup {n + 1}
        BY <3>1
      <4> HIDE DEF n
      <4> QED BY <3>1, <4>1, <4>2, <4>3
    <3>4. planQueue'[1].proposal = problem.start
      BY <1>7, <3>1, <2>5, <1>2 DEF ProposalAt
    <3>5. analyzed' = Len(planQueue') /\ analyzed' <= MaxStates
      <4>1. MaxStates \in Int /\ analyzed < MaxStates /\ analyzed' = analyzed + 1 /\ analyzed = n
        BY <1>7, <2>7, PlanAssumption DEF Queued
      <4> QED BY <3>1, <4>1
    <3>6. Len(planQueue') >= 1
      BY <3>1
    <3>7. (seen = {ProposalAt(i) : i \in Places})'
      BY <2>4, <3>1, <3>3
    <3> HIDE DEF Advances, n
    <3>8. IsSequence(planQueue)' /\ ProposalAt(1)' = problem'.start
      BY <1>1, <2>5, <3>1, <3>4 DEF IsSequence
    <3> QED BY <1>1, <1>2, <1>7, <2>2, <2>3, <3>2, <3>5, <3>6, <3>7, <3>8 DEF QueueIsRight
  <2> QED BY <1>9, <2>6, <2>7
<1>13. CandidatesAreOffers'
  <2>1. Offers' = Offers
    BY <1>1, ProblemStands
  <2> QED BY <1>1, <2>1 DEF SearchInv, CandidatesAreOffers
<1>14. EndIsJustified'
  BY <1>1 DEF EndIsJustified
<1> QED BY <1>11, <1>12, <1>13, <1>14 DEF SearchInv, ExpansionKept

-----------------------------------------------------------------------------
\* What a registry answers is what it offers, all of it if it fits.
LEMMA NormalizedAreOffers ==
  ASSUME problem \in PlanProblems, NEW p \in problem.allowed, problem.supplies[p].answers
  PROVE  LET entry == NormalizeCandidates(problem.supplies[p])
         IN /\ entry.versions \in Seq(Offers[p])
            /\ entry.complete => \A v \in Offers[p] : \E i \in 1 .. Len(entry.versions) : entry.versions[i] = v
<1> DEFINE raw == problem.supplies[p]
           newer == {v \in raw.versions : v > 1}
           all == Descending(newer)
<1>1. raw.versions \subseteq 0 .. TopVersion /\ TopVersion \in Nat /\ MaxPerPackage \in Nat
  BY PlanAssumption
<1>2. newer = Offers[p]
  <2>1. Offers[p] = {v \in 2 .. TopVersion : v \in raw.versions}
    BY DEF Offers, Offered
  <2> QED BY <1>1, <2>1
<1>3. newer \in SUBSET Nat /\ IsFiniteSet(newer)
  <2>1. newer \subseteq 0 .. TopVersion /\ IsFiniteSet(0 .. TopVersion)
    BY <1>1, FS_Interval
  <2>2. newer \in SUBSET Nat
    BY <1>1
  <2> HIDE DEF newer
  <2> QED BY <2>1, <2>2, FS_Subset
<1> DEFINE entry == NormalizeCandidates(raw)
<1>4. entry.versions = Take(all, MaxPerPackage) /\ (entry.complete => Cardinality(newer) <= MaxPerPackage)
  BY DEF NormalizeCandidates
<1> HIDE DEF newer, entry
<1>5. all \in Seq(newer) /\ Distinct(all) /\ ToSet(all) = newer /\ Len(all) = Cardinality(newer)
  BY <1>3, DescendingHasAll
<1>6. Take(all, MaxPerPackage) \in Seq(newer) /\ (Len(all) <= MaxPerPackage => Take(all, MaxPerPackage) = all)
  BY <1>1, <1>5, TakeTakes
<1>7. \A v \in newer : \E i \in 1 .. Len(all) : all[i] = v
  BY <1>5 DEF ToSet
<1> HIDE DEF all
<1> QED BY <1>2, <1>4, <1>5, <1>6, <1>7 DEF entry

\* The versions of a package are loaded.
LEMMA LoadCandidatesKeeps ==
  SearchInv /\ LoadCandidates => SearchInv'
<1> SUFFICES ASSUME SearchInv, LoadCandidates PROVE SearchInv'
  OBVIOUS
<1> DEFINE p == packages[1]
           raw == problem.supplies[p]
           Uses(entry) == IF entry.versions = <<>> THEN NextPackage
                          ELSE versions' = entry.versions /\ UNCHANGED <<packages, head>>
           entry == IF raw.answers THEN NormalizeCandidates(raw) ELSE NotLoaded
           Cached == p \in DOMAIN candidates /\ Uses(candidates[p])
                     /\ UNCHANGED <<candidates, queries, limitReached, uncertain>>
           Refused == limitReached' = TRUE /\ NextPackage /\ UNCHANGED <<candidates, queries, uncertain>>
           Asks == /\ p \notin DOMAIN candidates /\ queries < MaxQueries /\ queries' = queries + 1
                   /\ candidates' = [q \in DOMAIN candidates \cup {p} |-> IF q = p THEN entry ELSE candidates[q]]
                   /\ limitReached' = (limitReached \/ (raw.answers /\ ~entry.complete
                                                        /\ Cardinality(raw.versions) > MaxPerPackage))
                   /\ uncertain' = (uncertain \/ ~entry.complete \/ entry.malformed)
                   /\ Uses(entry)
<1>1. /\ versions = <<>> /\ packages # <<>>
      /\ UNCHANGED <<problem, planQueue, seen, found, analyzed, searchOutcome>> /\ searchOutcome = "searching"
  BY DEF LoadCandidates, Expanding, Searching
<1>2. /\ problem \in PlanProblems /\ packages \in Seq(Direct) /\ limitReached \in BOOLEAN /\ uncertain \in BOOLEAN
      /\ head \in Places /\ Places = 1 .. Len(planQueue) /\ Len(planQueue) \in Nat
      /\ \A i \in 1 .. Len(packages) : packages[i] \in Movable[ProposalAt(head)]
      /\ ProposalAt(head) \in Proposals
  BY <1>1, SearchTypes DEF SearchInv, ExpansionIsRight
<1>3. Head(packages) = p /\ 1 \in 1 .. Len(packages)
  BY <1>1, <1>2
<1>4. Cached \/ Refused \/ Asks
  <2>1. LET h == Head(packages)
            r == problem.supplies[h]
            e == IF r.answers THEN NormalizeCandidates(r) ELSE NotLoaded
        IN \/ /\ h \in DOMAIN candidates /\ Uses(candidates[h])
              /\ UNCHANGED <<candidates, queries, limitReached, uncertain>>
           \/ Refused
           \/ /\ h \notin DOMAIN candidates /\ queries < MaxQueries /\ queries' = queries + 1
              /\ candidates' = [q \in DOMAIN candidates \cup {h} |-> IF q = h THEN e ELSE candidates[q]]
              /\ limitReached' = (limitReached \/ (r.answers /\ ~e.complete /\ Cardinality(r.versions) > MaxPerPackage))
              /\ uncertain' = (uncertain \/ ~e.complete \/ e.malformed)
              /\ Uses(e)
    BY DEF LoadCandidates
  <2> HIDE DEF Uses, Refused
  <2> QED BY <1>3, <2>1
<1>5. p \in problem.allowed
  BY <1>2, <1>3 DEF Movable, Expandable
<1>6. Offers' = Offers
  BY <1>1, ProblemStands
\* What is known of the package, all that is offered or something is uncertain.
<1> DEFINE Known(e, unsure) == /\ e.versions \in Seq(Offers[p])
                               /\ ~unsure => \A v \in Offers[p] : \E i \in 1 .. Len(e.versions) : e.versions[i] = v
<1>7. ASSUME Cached PROVE Known(candidates[p], uncertain')
  BY <1>7 DEF SearchInv, CandidatesAreOffers
<1>8. ASSUME Asks PROVE Known(entry, uncertain')
  <2>1. CASE raw.answers
    <3>1. /\ entry.versions \in Seq(Offers[p])
          /\ entry.complete => \A v \in Offers[p] : \E i \in 1 .. Len(entry.versions) : entry.versions[i] = v
      BY <1>2, <1>5, <2>1, NormalizedAreOffers
    <3>2. ~uncertain' => entry.complete
      BY <1>8
    <3> HIDE DEF entry
    <3> QED BY <3>1, <3>2
  <2>2. CASE ~raw.answers
    <3>1. entry = NotLoaded
      BY <2>2
    <3>2. entry.versions = <<>> /\ entry.complete = FALSE
      BY <3>1 DEF NotLoaded
    <3> HIDE DEF entry
    <3>3. uncertain'
      BY <1>8, <3>2
    <3>4. <<>> \in Seq(Offers[p])
      OBVIOUS
    <3> QED BY <3>2, <3>3, <3>4
  <2> QED BY <2>1, <2>2
<1> HIDE DEF entry
<1>9. (~limitReached' => ~limitReached) /\ (~uncertain' => ~uncertain) /\ limitReached' \in BOOLEAN /\ uncertain' \in BOOLEAN
  <2> HIDE DEF Uses, raw
  <2> QED BY <1>2, <1>4
<1>10. QueueExtended
  BY <1>1, <1>9, QueueStands
<1>11. ExpansionKept
  <2>1. ASSUME NEW e, Known(e, uncertain'), Uses(e) PROVE ExpansionKept
    <3>1. CASE e.versions = <<>>
      <4>1. ~uncertain' => Offers[p] = {}
        BY <2>1, <3>1
      <4>2. ~limitReached' /\ ~uncertain' => \A v \in Offers[p] : With(ProposalAt(head), p, v) \in seen'
        BY <4>1
      <4> QED BY <1>1, <1>10, <2>1, <3>1, <4>2, PackageIsDone
    <3>2. CASE e.versions # <<>>
      <4>1. versions' = e.versions /\ UNCHANGED <<packages, head>>
        BY <2>1, <3>2
      <4>2. /\ versions' \in Seq(Offers[p])
            /\ ~uncertain' => \A v \in Offers[p] : \E i \in 1 .. Len(versions') : versions'[i] = v
        BY <2>1, <4>1
      <4> QED BY <1>1, <1>10, <4>1, <4>2, VersionsAreLeft
    <3> QED BY <3>1, <3>2
  <2>2. CASE Cached
    BY <1>7, <2>1, <2>2
  <2>3. CASE Refused
    <3>1. limitReached' = TRUE /\ NextPackage
      BY <2>3
    <3> QED BY <1>1, <1>10, <3>1, PackageIsDone
  <2>4. CASE Asks
    BY <1>8, <2>1, <2>4
  <2> HIDE DEF Cached, Refused, Asks
  <2> QED BY <1>4, <2>2, <2>3, <2>4
<1>12. QueueIsRight'
  <2>1. \A e : QueueEntry(e) => QueueEntry(e)'
    BY <1>1, EntriesStand
  <2>2. head' \in 1 .. (Len(planQueue') + 1)
    BY <1>11 DEF ExpansionKept
  <2>3. Places' = Places /\ (\A i : ProposalAt(i)' = ProposalAt(i)) /\ ProposalAt(1)' = ProposalAt(1)
    BY <1>1 DEF Places, ProposalAt
  <2>4. /\ IsSequence(planQueue) /\ Len(planQueue) >= 1 /\ ProposalAt(1) = problem.start
        /\ seen = {ProposalAt(i) : i \in Places} /\ \A i \in Places : QueueEntry(planQueue[i])
        /\ analyzed = Len(planQueue) /\ analyzed <= MaxStates
        /\ queries \in Nat /\ queries <= MaxQueries
    BY DEF SearchInv, QueueIsRight
  <2>5. (\A i \in Places : QueueEntry(planQueue[i]))'
    BY <1>1, <2>1, <2>3, <2>4
  <2>6. (seen = {ProposalAt(i) : i \in Places})' /\ IsSequence(planQueue)'
    BY <1>1, <2>3, <2>4 DEF IsSequence
  <2>7. queries' \in Nat /\ queries' <= MaxQueries
    <3>1. queries' = queries \/ (queries < MaxQueries /\ queries' = queries + 1)
      BY <1>4
    <3>2. MaxQueries \in Nat
      BY PlanAssumption
    <3> QED BY <2>4, <3>1, <3>2
  <2> HIDE DEF Uses
  <2> QED BY <1>1, <1>2, <1>9, <2>2, <2>3, <2>4, <2>5, <2>6, <2>7 DEF QueueIsRight
<1>13. CandidatesAreOffers'
  <2>1. /\ DOMAIN candidates \subseteq problem.allowed
        /\ \A q \in DOMAIN candidates :
             /\ candidates[q].versions \in Seq(Offers[q])
             /\ ~uncertain => \A v \in Offers[q] : \E i \in 1 .. Len(candidates[q].versions) : candidates[q].versions[i] = v
    BY DEF SearchInv, CandidatesAreOffers
  <2>2. CASE candidates' = candidates
    BY <1>1, <1>6, <1>9, <2>1, <2>2 DEF CandidatesAreOffers
  <2>3. CASE Asks
    <3>1. DOMAIN candidates' = DOMAIN candidates \cup {p} /\ p \notin DOMAIN candidates
          /\ candidates'[p] = entry /\ \A q \in DOMAIN candidates : candidates'[q] = candidates[q]
      BY <2>3
    <3>2. Known(entry, uncertain')
      BY <1>8, <2>3
    <3>3. DOMAIN candidates' \subseteq problem'.allowed
      BY <1>1, <1>5, <2>1, <3>1
    <3>4. ASSUME NEW q \in DOMAIN candidates'
          PROVE  /\ candidates'[q].versions \in Seq(Offers[q])
                 /\ ~uncertain' => \A v \in Offers[q] : \E i \in 1 .. Len(candidates'[q].versions) : candidates'[q].versions[i] = v
      <4>1. CASE q = p
        BY <3>1, <3>2, <4>1
      <4>2. CASE q # p
        <5>1. q \in DOMAIN candidates /\ candidates'[q] = candidates[q]
          BY <3>1, <3>4, <4>2
        <5> QED BY <1>9, <2>1, <5>1
      <4> QED BY <4>1, <4>2
    <3> QED BY <1>6, <3>3, <3>4 DEF CandidatesAreOffers
  <2> QED BY <1>4, <2>2, <2>3
<1>14. EndIsJustified'
  BY <1>1 DEF EndIsJustified
<1> QED BY <1>11, <1>12, <1>13, <1>14 DEF SearchInv, ExpansionKept

-----------------------------------------------------------------------------
\* Every step of the search keeps what is known of it ...
LEMMA SearchKeeps ==
  SearchInv /\ [SearchNext]_searchVars => SearchInv'
<1> SUFFICES ASSUME SearchInv, [SearchNext]_searchVars PROVE SearchInv'
  OBVIOUS
<1>1. CASE AbortSearch
  BY <1>1, AbortSearchKeeps
<1>2. CASE Inspect
  BY <1>2, InspectKeeps
<1>3. CASE LoadCandidates
  BY <1>3, LoadCandidatesKeeps
<1>4. CASE TryVersion
  BY <1>4, TryVersionKeeps
<1>5. CASE NoticeAbort
  BY <1>5, NoticeAbortKeeps
<1>6. CASE Conclude
  BY <1>6, ConcludeKeeps
<1>7. CASE UNCHANGED searchVars
  <2>1. UNCHANGED <<problem, planQueue, head, seen, candidates, packages, versions, found, analyzed, queries,
                    limitReached, uncertain, searchOutcome>>
    BY <1>7 DEF searchVars
  <2>2. EndIsJustified'
    BY <2>1 DEF SearchInv, EndIsJustified, Places
  <2> QED BY <2>1, <2>2, SearchStands DEF SearchInv
<1> QED BY <1>1, <1>2, <1>3, <1>4, <1>5, <1>6, <1>7 DEF SearchNext

\* ... so that it is always known: the queue holds only proposals, in the order of their size, and
\* each that the search went past has its extensions in it or a doubt, a limit or a conflict on record.
THEOREM SearchInvariant ==
  UpgradeSpec => []SearchInv
<1>1. UpgradeInit => SearchInv
  BY SearchStarts DEF UpgradeInit
<1>2. SearchInv /\ [UpgradeNext]_upgradeVars => SearchInv'
  <2> SUFFICES ASSUME SearchInv, [UpgradeNext]_upgradeVars PROVE SearchInv'
    OBVIOUS
  <2>1. [SearchNext]_searchVars
    BY DEF UpgradeNext, Transacts, Searches, Answered, upgradeVars
  <2> QED BY <2>1, SearchKeeps
<1> QED BY <1>1, <1>2, PTL DEF UpgradeSpec

\* A plan that is found is a proposal that is accepted, and no smaller one is; a search that says that
\* there is none is right.
THEOREM PlansAreAlwaysJustified ==
  UpgradeSpec => []PlansAreJustified
<1>1. SearchInv => PlansAreJustified
  BY InvariantJustifies
<1> QED BY <1>1, SearchInvariant, PTL

-----------------------------------------------------------------------------
(* The order of a plan's groups.                                           *)

Moved == DOMAIN ThePlan.proposal
GroupOf(p) == {q \in Reached(p) : p \in Reached(q)}

\* An edge is between moved packages.
LEMMA EdgesAreMoved ==
  \A e \in PlanEdges : e[1] \in Moved /\ e[2] \in Moved
BY DEF PlanEdges, Moved

\* What is reached is reached by every way.
LEMMA ReachedIsClosed ==
  ASSUME NEW p \in Moved
  PROVE  /\ p \in Reached(p) /\ Reached(p) \subseteq Moved
         /\ \A e \in PlanEdges : e[1] \in Reached(p) => e[2] \in Reached(p)
         /\ \A q \in Reached(p) : Reached(q) \subseteq Reached(p)
<1>1. p \in Reached(p) /\ Reached(p) \subseteq Moved
  BY DEF Reached, Moved
<1>2. \A e \in PlanEdges : e[1] \in Reached(p) => e[2] \in Reached(p)
  BY EdgesAreMoved DEF Reached, Moved
<1>3. ASSUME NEW q \in Reached(p), NEW r \in Reached(q) PROVE r \in Reached(p)
  <2> DEFINE S == Reached(p)
  <2>1. S \in SUBSET Moved /\ q \in S /\ \A e \in PlanEdges : e[1] \in S => e[2] \in S
    BY <1>1, <1>2, <1>3
  <2> HIDE DEF S
  <2>2. r \in S
    BY <1>3, <2>1 DEF Reached, Moved
  <2> QED BY <2>2 DEF S
<1> QED BY <1>1, <1>2, <1>3

\* Groups do not overlap.
LEMMA GroupsAre ==
  /\ PlanGroups = {GroupOf(p) : p \in Moved}
  /\ \A p \in Moved : p \in GroupOf(p) /\ GroupOf(p) \subseteq Moved
  /\ \A p \in Moved : \A q \in GroupOf(p) : GroupOf(q) = GroupOf(p)
<1>1. PlanGroups = {GroupOf(p) : p \in Moved}
  BY DEF PlanGroups, GroupOf, Moved
<1>2. \A p \in Moved : p \in GroupOf(p) /\ GroupOf(p) \subseteq Moved
  BY ReachedIsClosed DEF GroupOf
<1>3. ASSUME NEW p \in Moved, NEW q \in GroupOf(p) PROVE GroupOf(q) = GroupOf(p)
  <2>1. q \in Moved /\ q \in Reached(p) /\ p \in Reached(q)
    BY <1>2, <1>3 DEF GroupOf
  <2>2. Reached(q) = Reached(p)
    BY <2>1, ReachedIsClosed
  <2>3. \A r \in Reached(p) : p \in Reached(r) <=> q \in Reached(r)
    BY <2>1, ReachedIsClosed
  <2> QED BY <2>2, <2>3 DEF GroupOf
<1> QED BY <1>1, <1>2, <1>3

\* A group that precedes another is not reached from it.
LEMMA PrecedingIsOneWay ==
  ASSUME NEW p \in Moved, NEW q \in Moved, GroupPrecedes(GroupOf(q), GroupOf(p))
  PROVE  p \in Reached(q) /\ q \notin Reached(p)
<1>1. PICK e \in PlanEdges : e[1] \in GroupOf(q) /\ e[2] \in GroupOf(p)
  BY DEF GroupPrecedes
<1>2. e[1] \in Reached(q) /\ e[2] \in Reached(e[1])
  BY <1>1, EdgesAreMoved, ReachedIsClosed DEF GroupOf
<1>3. p \in Reached(e[2]) /\ e[2] \in Moved
  BY <1>1, EdgesAreMoved DEF GroupOf
<1>4. e[2] \in Reached(q)
  BY <1>2, ReachedIsClosed
<1>5. p \in Reached(q)
  BY <1>3, <1>4, ReachedIsClosed
<1>6. ASSUME q \in Reached(p) PROVE FALSE
  <2>1. q \in GroupOf(p)
    BY <1>5, <1>6 DEF GroupOf
  <2> QED BY <2>1, GroupsAre DEF GroupPrecedes
<1> QED BY <1>5, <1>6

\* Of any groups there is one that none of them precedes.
LEMMA SomeGroupIsReady ==
  ASSUME IsFiniteSet(Moved), NEW rest \in SUBSET PlanGroups, rest # {}
  PROVE  Ready(rest) # {}
<1> DEFINE Preceding(p) == {q \in Moved : p \in Reached(q)}
           P == {p \in Moved : GroupOf(p) \in rest}
           sizes == {Cardinality(Preceding(p)) : p \in P}
<1>1. \A p \in Moved : IsFiniteSet(Preceding(p)) /\ Cardinality(Preceding(p)) \in Nat
  <2> TAKE p \in Moved
  <2>1. Preceding(p) \subseteq Moved
    OBVIOUS
  <2> HIDE DEF Preceding
  <2> QED BY <2>1, FS_Subset, FS_CardinalityType
<1>2. P # {} /\ P \subseteq Moved
  BY GroupsAre
<1>3. sizes \in SUBSET Nat /\ sizes # {}
  BY <1>1, <1>2
<1>4. PICK p \in P : \A q \in P : Cardinality(Preceding(p)) <= Cardinality(Preceding(q))
  <2>1. Min(sizes) \in sizes /\ \A v \in sizes : Min(sizes) <= v
    <3> HIDE DEF sizes
    <3> QED BY <1>3, MinIsLeast
  <2> QED BY <2>1
<1>5. p \in Moved /\ GroupOf(p) \in rest
  BY <1>4
<1>6. ASSUME NEW h \in rest, GroupPrecedes(h, GroupOf(p)) PROVE FALSE
  <2>1. PICK q \in Moved : h = GroupOf(q)
    BY <1>6, GroupsAre
  <2>2. p \in Reached(q) /\ q \notin Reached(p) /\ q \in P
    BY <1>5, <1>6, <2>1, PrecedingIsOneWay
  <2>3. Preceding(q) \subseteq Preceding(p)
    BY <2>2, ReachedIsClosed
  <2>4. p \in Preceding(p) /\ p \notin Preceding(q)
    BY <1>5, <2>2, ReachedIsClosed
  <2>5. IsFiniteSet(Preceding(p)) /\ Cardinality(Preceding(p)) \in Nat /\ Cardinality(Preceding(q)) \in Nat
    BY <1>1, <1>5, <2>1
  <2>6. Cardinality(Preceding(p)) <= Cardinality(Preceding(q))
    BY <1>4, <2>2
  <2> HIDE DEF Preceding
  <2>7. Cardinality(Preceding(q)) <= Cardinality(Preceding(p))
        /\ (Cardinality(Preceding(p)) = Cardinality(Preceding(q)) => Preceding(p) = Preceding(q))
    BY <2>3, <2>5, FS_Subset
  <2> QED BY <2>4, <2>5, <2>6, <2>7
<1> QED BY <1>5, <1>6 DEF Ready

\* Among some groups one has the first name.
LEMMA FirstNamedIsOne ==
  ASSUME Moved \in SUBSET Nat, NEW groups \in SUBSET PlanGroups, groups # {}
  PROVE  FirstNamed(groups) \in groups
<1> DEFINE names == UNION groups
<1>1. names \in SUBSET Nat /\ names # {}
  <2>1. \A g \in groups : g \in SUBSET Nat /\ g # {}
    <3> TAKE g \in groups
    <3>1. PICK p \in Moved : g = GroupOf(p)
      BY GroupsAre
    <3> QED BY <3>1, GroupsAre
  <2> QED BY <2>1
<1>2. Min(names) \in names /\ \A v \in names : Min(names) <= v
  <2> HIDE DEF names
  <2> QED BY <1>1, MinIsLeast
<1>3. \E g \in groups : \E p \in g : \A h \in groups : \A q \in h : p <= q
  BY <1>2
<1> QED BY <1>3 DEF FirstNamed

\* The group that goes next.
LEMMA NextGroup ==
  ASSUME IsFiniteSet(Moved), Moved \in SUBSET Nat, NEW rest \in SUBSET PlanGroups
  PROVE  /\ rest = {} <=> Ready(rest) = {}
         /\ rest # {} => /\ FirstNamed(Ready(rest)) \in rest
                         /\ ~\E h \in rest : GroupPrecedes(h, FirstNamed(Ready(rest)))
<1>1. Ready(rest) \subseteq rest
  BY DEF Ready
<1>2. rest # {} => Ready(rest) # {}
  BY SomeGroupIsReady
<1>3. Ready(rest) # {} => FirstNamed(Ready(rest)) \in Ready(rest)
  BY <1>1, FirstNamedIsOne
<1> QED BY <1>1, <1>2, <1>3 DEF Ready

-----------------------------------------------------------------------------

\* The orders of the first groups, as the recursion has them.
Following(rest) == rest \ {FirstNamed(Ready(rest))}
Ordering(f, rest) == IF Ready(rest) = {} THEN <<>> ELSE <<FirstNamed(Ready(rest))>> \o f[Following(rest)]
Few(n) == {rest \in SUBSET PlanGroups : Cardinality(rest) <= n}

\* There are finitely many groups.
LEMMA GroupsAreFinite ==
  ASSUME IsFiniteSet(Moved)
  PROVE  /\ IsFiniteSet(PlanGroups)
         /\ \A rest \in SUBSET PlanGroups : IsFiniteSet(rest) /\ Cardinality(rest) \in Nat
<1>1. PlanGroups \subseteq SUBSET Moved
  BY GroupsAre
<1>2. IsFiniteSet(SUBSET Moved)
  BY FS_SUBSET
<1>3. IsFiniteSet(PlanGroups)
  BY <1>1, <1>2, FS_Subset
<1> QED BY <1>3, FS_Subset, FS_CardinalityType

\* A step of the ordering takes one group away.
LEMMA OneGroupLess ==
  ASSUME IsFiniteSet(Moved), Moved \in SUBSET Nat, NEW rest \in SUBSET PlanGroups, Ready(rest) # {}
  PROVE  /\ Following(rest) \in SUBSET PlanGroups /\ Cardinality(Following(rest)) = Cardinality(rest) - 1
         /\ rest = Following(rest) \cup {FirstNamed(Ready(rest))}
<1>1. FirstNamed(Ready(rest)) \in rest
  BY NextGroup
<1>2. IsFiniteSet(rest)
  BY GroupsAreFinite
<1> DEFINE g == FirstNamed(Ready(rest))
<1>3. g \in rest /\ Following(rest) = rest \ {g}
  BY <1>1 DEF Following
<1> HIDE DEF g
<1>4. Cardinality(rest \ {g}) = Cardinality(rest) - 1
  BY <1>2, <1>3, FS_RemoveElement
<1> QED BY <1>3, <1>4 DEF g

\* The recursion that orders the groups defines a function.
LEMMA OrderingsExist ==
  ASSUME IsFiniteSet(Moved), Moved \in SUBSET Nat
  PROVE  \E f : f = [rest \in SUBSET PlanGroups |-> Ordering(f, rest)]
<1> DEFINE K == {n \in Nat : \E f : f = [rest \in Few(n) |-> Ordering(f, rest)]}
<1>1. \A rest \in SUBSET PlanGroups : Cardinality(rest) \in Nat
  BY GroupsAreFinite
<1>2. 0 \in K
  <2> DEFINE f == [rest \in Few(0) |-> <<>>]
  <2>1. \A rest \in Few(0) : Ready(rest) = {}
    <3> SUFFICES ASSUME NEW rest \in Few(0), Ready(rest) # {} PROVE FALSE
      OBVIOUS
    <3>1. Cardinality(Following(rest)) = Cardinality(rest) - 1 /\ Following(rest) \in SUBSET PlanGroups
      BY OneGroupLess DEF Few
    <3>2. Cardinality(rest) \in Nat /\ Cardinality(Following(rest)) \in Nat /\ Cardinality(rest) <= 0
      BY <1>1, <3>1 DEF Few
    <3> QED BY <3>1, <3>2
  <2>2. \A rest \in Few(0) : Ordering(f, rest) = <<>>
    BY <2>1 DEF Ordering
  <2>3. f = [rest \in Few(0) |-> Ordering(f, rest)]
    BY <2>2
  <2> HIDE DEF f
  <2> QED BY <2>3
<1>3. ASSUME NEW n \in K PROVE n + 1 \in K
  <2>1. PICK f : f = [rest \in Few(n) |-> Ordering(f, rest)]
    BY <1>3
  <2> DEFINE g == [rest \in Few(n + 1) |-> Ordering(f, rest)]
  <2>2. Few(n) \subseteq Few(n + 1)
    BY <1>1 DEF Few
  <2>3. \A rest \in Few(n) : g[rest] = f[rest]
    BY <2>1, <2>2
  <2>4. ASSUME NEW rest \in Few(n + 1) PROVE Ordering(f, rest) = Ordering(g, rest)
    <3>1. CASE Ready(rest) = {}
      BY <3>1 DEF Ordering
    <3>2. CASE Ready(rest) # {}
      <4>1. Following(rest) \in Few(n)
        <5>1. Cardinality(Following(rest)) = Cardinality(rest) - 1 /\ Following(rest) \in SUBSET PlanGroups
          BY <3>2, OneGroupLess DEF Few
        <5>2. Cardinality(rest) \in Nat /\ Cardinality(rest) <= n + 1
          BY <1>1 DEF Few
        <5> QED BY <5>1, <5>2 DEF Few
      <4>2. g[Following(rest)] = f[Following(rest)]
        BY <2>3, <4>1
      <4> HIDE DEF g
      <4> QED BY <4>2 DEF Ordering
    <3> QED BY <3>1, <3>2
  <2>5. g = [rest \in Few(n + 1) |-> Ordering(g, rest)]
    BY <2>4
  <2> HIDE DEF g
  <2> QED BY <2>5
<1>4. K = Nat
  <2> HIDE DEF K
  <2>1. K \in SUBSET Nat
    BY DEF K
  <2> QED BY <1>2, <1>3, <2>1, AllNaturals
<1> DEFINE m == Cardinality(PlanGroups)
<1>5. m \in Nat /\ Few(m) = SUBSET PlanGroups
  <2>1. m \in Nat /\ IsFiniteSet(PlanGroups)
    BY GroupsAreFinite, FS_CardinalityType
  <2>2. \A rest \in SUBSET PlanGroups : Cardinality(rest) <= m
    BY <2>1, FS_Subset
  <2> QED BY <2>1, <2>2 DEF Few
<1>6. m \in K
  BY <1>4, <1>5
<1> HIDE DEF m
<1> QED BY <1>5, <1>6

\* Every group is applied once, and none before one that it has to follow.
LEMMA OrderingIsRight ==
  ASSUME IsFiniteSet(Moved), Moved \in SUBSET Nat,
         NEW f, f = [rest \in SUBSET PlanGroups |-> Ordering(f, rest)],
         NEW rest \in SUBSET PlanGroups
  PROVE  /\ f[rest] \in Seq(rest) /\ Len(f[rest]) = Cardinality(rest)
         /\ \A i, j \in 1 .. Len(f[rest]) : GroupPrecedes(f[rest][i], f[rest][j]) => i < j
<1> DEFINE Right(r) == /\ f[r] \in Seq(r) /\ Len(f[r]) = Cardinality(r)
                       /\ \A i, j \in 1 .. Len(f[r]) : GroupPrecedes(f[r][i], f[r][j]) => i < j
           K == {n \in Nat : \A r \in SUBSET PlanGroups : Cardinality(r) = n => Right(r)}
<1>1. \A r \in SUBSET PlanGroups : Cardinality(r) \in Nat /\ f[r] = Ordering(f, r) /\ IsFiniteSet(r)
  BY GroupsAreFinite
<1>2. 0 \in K
  <2> SUFFICES ASSUME NEW r \in SUBSET PlanGroups, Cardinality(r) = 0 PROVE Right(r)
    OBVIOUS
  <2>1. r = {}
    BY <1>1, FS_EmptySet
  <2>2. f[r] = <<>>
    BY <1>1, <2>1, NextGroup DEF Ordering
  <2>3. <<>> \in Seq(r) /\ Len(<<>>) = 0
    OBVIOUS
  <2>4. Len(f[r]) = 0 /\ f[r] \in Seq(r)
    BY <2>2, <2>3
  <2>5. 1 .. Len(f[r]) = {}
    BY <2>4
  <2> QED BY <2>4, <2>5
<1>3. ASSUME NEW n \in K PROVE n + 1 \in K
  <2>0. n \in Nat /\ n + 1 \in Nat /\ n + 1 # 0
    BY <1>3
  <2> SUFFICES ASSUME NEW r \in SUBSET PlanGroups, Cardinality(r) = n + 1 PROVE Right(r)
    <3> HIDE DEF Right
    <3> QED BY <2>0
  <2> DEFINE g == FirstNamed(Ready(r))
             T == Following(r)
             t == f[T]
  <2>1. r # {} /\ Ready(r) # {}
    <3>1. r # {}
      BY <2>0, FS_EmptySet
    <3> QED BY <3>1, NextGroup
  <2>2. g \in r /\ ~\E h \in r : GroupPrecedes(h, g)
    BY <2>1, NextGroup
  <2>3. T \in SUBSET PlanGroups /\ Cardinality(T) = n /\ T \subseteq r
    BY <1>3, <2>1, OneGroupLess
  <2>4. Right(T)
    BY <1>3, <2>3
  <2>5. t \in Seq(T) /\ Len(t) = n /\ \A i, j \in 1 .. Len(t) : GroupPrecedes(t[i], t[j]) => i < j
    BY <2>3, <2>4
  <2>6. f[r] = <<g>> \o t
    BY <1>1, <2>1 DEF Ordering
  <2> DEFINE s == f[r]
  <2> HIDE DEF g, T, t, s
  <2>7. s = <<g>> \o t
    BY <2>6 DEF s
  <2>8. t \in Seq(r) /\ <<g>> \in Seq(r)
    BY <2>2, <2>3, <2>5, SequenceOfMore
  <2>9. s \in Seq(r) /\ Len(s) = n + 1
    BY <1>3, <2>5, <2>7, <2>8
  <2>10. s[1] = g /\ \A i \in 2 .. (n + 1) : s[i] = t[i - 1] /\ i - 1 \in 1 .. n
    BY <1>3, <2>5, <2>7, <2>8
  <2>11. ASSUME NEW i \in 1 .. (n + 1), NEW j \in 1 .. (n + 1), GroupPrecedes(s[i], s[j]) PROVE i < j
    <3>1. j # 1
      <4>1. s[i] \in r
        BY <2>9
      <4> QED BY <2>2, <2>10, <2>11, <4>1
    <3>2. CASE i = 1
      BY <3>1, <3>2
    <3>3. CASE i # 1
      <4>1. i \in 2 .. (n + 1) /\ j \in 2 .. (n + 1)
        BY <3>1, <3>3
      <4>2. GroupPrecedes(t[i - 1], t[j - 1]) /\ i - 1 \in 1 .. Len(t) /\ j - 1 \in 1 .. Len(t)
        BY <2>5, <2>10, <2>11, <4>1
      <4>3. i - 1 < j - 1
        BY <2>5, <4>2
      <4> QED BY <4>3
    <3> QED BY <3>2, <3>3
  <2> QED BY <2>9, <2>11 DEF s
<1>4. K = Nat
  <2> HIDE DEF K
  <2>1. K \in SUBSET Nat
    BY DEF K
  <2> QED BY <1>2, <1>3, <2>1, AllNaturals
<1>5. Cardinality(rest) \in K
  BY <1>1, <1>4
<1> HIDE DEF Right
<1>6. Right(rest)
  BY <1>5
<1> QED BY <1>6 DEF Right

\* The order of a plan has every group once, and each after those that must precede it.
LEMMA PlanOrderIsRight ==
  ASSUME IsFiniteSet(Moved), Moved \in SUBSET Nat
  PROVE  /\ Len(PlanOrder) = Cardinality(PlanGroups)
         /\ \A i, j \in DOMAIN PlanOrder : GroupPrecedes(PlanOrder[i], PlanOrder[j]) => i < j
<1> DEFINE f == CHOOSE f : f = [rest \in SUBSET PlanGroups |-> Ordering(f, rest)]
<1>1. PlanOrder = f[PlanGroups]
  BY DEF PlanOrder, Ordering, Following
<1>2. f = [rest \in SUBSET PlanGroups |-> Ordering(f, rest)]
  <2>1. \E h : h = [rest \in SUBSET PlanGroups |-> Ordering(h, rest)]
    BY OrderingsExist
  <2> QED BY <2>1
<1> HIDE DEF f
<1>3. /\ f[PlanGroups] \in Seq(PlanGroups) /\ Len(f[PlanGroups]) = Cardinality(PlanGroups)
      /\ \A i, j \in 1 .. Len(f[PlanGroups]) : GroupPrecedes(f[PlanGroups][i], f[PlanGroups][j]) => i < j
  BY <1>2, OrderingIsRight
<1> QED BY <1>1, <1>3

-----------------------------------------------------------------------------
\* What is known of the search makes its plan right.
LEMMA InvariantIsRight ==
  SearchInv => PlansAreRight
<1> SUFFICES ASSUME SearchInv PROVE PlansAreRight
  OBVIOUS
<1>1. PlansAreJustified
  BY InvariantJustifies
<1>2. ASSUME searchOutcome = "found"
      PROVE  /\ Len(PlanOrder) = Cardinality(PlanGroups)
             /\ \A i, j \in DOMAIN PlanOrder : GroupPrecedes(PlanOrder[i], PlanOrder[j]) => i < j
  <2>1. ThePlan.proposal \in Proposals
    BY <1>1, <1>2 DEF PlansAreJustified
  <2>2. IsFiniteSet(Moved) /\ Moved \subseteq Direct
    BY <2>1, SearchTypes, ProposalsAreFinite DEF Moved
  <2>3. Moved \in SUBSET Nat
    BY <2>2, PlanAssumption DEF Direct
  <2> QED BY <2>2, <2>3, PlanOrderIsRight
<1> QED BY <1>1, <1>2 DEF PlansAreJustified, PlansAreRight

\* Whatever the search is asked, and whenever it is aborted, a plan that it answers moves only what it
\* may, is accepted, is the smallest, and is ordered by what must precede what; and where it says that
\* there is none, there is none.
THEOREM PlansAreAlwaysRight ==
  UpgradeSpec => []PlansAreRight
<1>1. SearchInv => PlansAreRight
  BY InvariantIsRight
<1> QED BY <1>1, SearchInvariant, PTL

-----------------------------------------------------------------------------
(* Findings: the records that share a name, directly or through others.    *)

\* The finding of a record: itself, all that shares a name with one of it, and records of one package.
LEMMA FindingIs ==
  ASSUME NEW R, NEW a \in R
  PROVE  /\ a \in SameFinding(a, R) /\ SameFinding(a, R) \subseteq R
         /\ \A c \in SameFinding(a, R), d \in R : ShareAName(c, d) => d \in SameFinding(a, R)
         /\ \A b \in SameFinding(a, R) : b.package = a.package
<1>1. a \in SameFinding(a, R) /\ SameFinding(a, R) \subseteq R
  BY DEF SameFinding
<1>2. ASSUME NEW c \in SameFinding(a, R), NEW d \in R, ShareAName(c, d) PROVE d \in SameFinding(a, R)
  BY <1>2 DEF SameFinding
<1>3. ASSUME NEW b \in SameFinding(a, R) PROVE b.package = a.package
  <2> DEFINE S == {d \in R : d.package = a.package}
  <2>1. S \in SUBSET R /\ a \in S /\ \A c \in S, d \in R : ShareAName(c, d) => d \in S
    BY DEF ShareAName
  <2> HIDE DEF S
  <2>2. b \in S
    BY <1>3, <2>1 DEF SameFinding
  <2> QED BY <2>2 DEF S
<1> QED BY <1>1, <1>2, <1>3

\* Findings do not overlap.
LEMMA FindingsAreApart ==
  ASSUME NEW R, NEW a \in R, NEW b \in SameFinding(a, R)
  PROVE  SameFinding(b, R) = SameFinding(a, R)
<1>1. b \in R
  BY FindingIs
<1>2. SameFinding(b, R) \subseteq SameFinding(a, R)
  <2> DEFINE S == SameFinding(a, R)
  <2>1. S \in SUBSET R /\ b \in S /\ \A c \in S, d \in R : ShareAName(c, d) => d \in S
    BY FindingIs
  <2> HIDE DEF S
  <2>2. SameFinding(b, R) \subseteq S
    BY <2>1 DEF SameFinding
  <2> QED BY <2>2 DEF S
<1>3. a \in SameFinding(b, R)
  <2> SUFFICES ASSUME a \notin SameFinding(b, R) PROVE FALSE
    OBVIOUS
  <2> DEFINE S == R \ SameFinding(b, R)
  <2>1. \A c \in SameFinding(b, R), d \in R : ShareAName(c, d) => d \in SameFinding(b, R)
    BY <1>1, FindingIs
  <2>2. \A c, d : ShareAName(c, d) => ShareAName(d, c)
    BY DEF ShareAName
  <2>3. S \in SUBSET R /\ a \in S /\ \A c \in S, d \in R : ShareAName(c, d) => d \in S
    BY <2>1, <2>2
  <2>4. b \notin S
    BY <1>1, FindingIs
  <2> HIDE DEF S
  <2> QED BY <2>3, <2>4 DEF SameFinding
<1>4. SameFinding(a, R) \subseteq SameFinding(b, R)
  <2> DEFINE S == SameFinding(b, R)
  <2>1. S \in SUBSET R /\ a \in S /\ \A c \in S, d \in R : ShareAName(c, d) => d \in S
    BY <1>1, <1>3, FindingIs
  <2> HIDE DEF S
  <2>2. SameFinding(a, R) \subseteq S
    BY <2>1 DEF SameFinding
  <2> QED BY <2>2 DEF S
<1> QED BY <1>2, <1>4

\* A finding that others have all the records of is part of one of theirs.
LEMMA FindingSurvives ==
  ASSUME NEW R, NEW T, NEW a \in R, SameFinding(a, R) \subseteq T
  PROVE  SameFinding(a, R) \subseteq SameFinding(a, T)
<1>1. a \in T
  BY FindingIs
<1> DEFINE S == SameFinding(a, R) \cap SameFinding(a, T)
<1>2. S \in SUBSET R /\ a \in S
  BY <1>1, FindingIs
<1>3. ASSUME NEW c \in S, NEW d \in R, ShareAName(c, d) PROVE d \in S
  <2>1. d \in SameFinding(a, R)
    BY <1>3, FindingIs
  <2>2. d \in SameFinding(a, T)
    BY <1>1, <1>3, <2>1, FindingIs
  <2> QED BY <2>1, <2>2
<1> HIDE DEF S
<1>4. SameFinding(a, R) \subseteq S
  BY <1>2, <1>3 DEF SameFinding
<1> QED BY <1>4 DEF S

-----------------------------------------------------------------------------
(* Graphs.                                                                 *)

\* Each member of a family is within its union.
LEMMA WithinTheUnion ==
  ASSUME NEW g, NEW X, NEW c \in X
  PROVE  Installs(g, c) \subseteq UNION {Installs(g, d) : d \in X}
OBVIOUS

\* What is reached: the direct dependencies, what they install, and what that installs.
LEMMA ReachableIs ==
  ASSUME NEW g
  PROVE  /\ Reachable(g) = AtDistance(g)[0] \cup AtDistance(g)[1] \cup AtDistance(g)[2]
         /\ AtDistance(g)[0] = DirectCopies \cap InstalledIn(g)
         /\ \A c \in AtDistance(g)[0] : Installs(g, c) \subseteq AtDistance(g)[0] \cup AtDistance(g)[1]
         /\ \A c \in AtDistance(g)[1] : Installs(g, c) \subseteq Reachable(g)
<1>1. 0 .. 2 = {0, 1, 2}
  OBVIOUS
<1> DEFINE directs == DirectCopies \cap InstalledIn(g)
           below == (UNION {Installs(g, c) : c \in directs}) \ directs
           deepest == (UNION {Installs(g, c) : c \in below}) \ (directs \cup below)
<1>2. AtDistance(g)[0] = directs /\ AtDistance(g)[1] = below /\ AtDistance(g)[2] = deepest
  BY <1>1 DEF AtDistance
<1>3. Reachable(g) = UNION {AtDistance(g)[n] : n \in {0, 1, 2}}
  BY <1>1 DEF Reachable
<1>4. Reachable(g) = AtDistance(g)[0] \cup AtDistance(g)[1] \cup AtDistance(g)[2]
  BY <1>3
<1>6. below = (UNION {Installs(g, d) : d \in directs}) \ directs
  OBVIOUS
<1>7. deepest = (UNION {Installs(g, d) : d \in below}) \ (directs \cup below)
  OBVIOUS
<1>8. AtDistance(g)[0] = DirectCopies \cap InstalledIn(g)
  BY <1>2
<1> HIDE DEF directs, below, deepest
<1>9. \A c \in directs : Installs(g, c) \subseteq directs \cup below
  <2> DEFINE all == UNION {Installs(g, d) : d \in directs}
  <2>1. \A c \in directs : Installs(g, c) \subseteq all
    BY WithinTheUnion
  <2>2. below = all \ directs
    BY <1>6
  <2> HIDE DEF all
  <2> QED BY <2>1, <2>2
<1>10. \A c \in below : Installs(g, c) \subseteq directs \cup below \cup deepest
  <2> DEFINE all == UNION {Installs(g, d) : d \in below}
  <2>1. \A c \in below : Installs(g, c) \subseteq all
    BY WithinTheUnion
  <2>2. deepest = all \ (directs \cup below)
    BY <1>7
  <2> HIDE DEF all
  <2> QED BY <2>1, <2>2
<1> QED BY <1>2, <1>4, <1>8, <1>9, <1>10

\* What is installed below a direct dependency is reached.
LEMMA SubtreeIsReached ==
  ASSUME NEW g, NEW c \in DirectCopies \cap InstalledIn(g)
  PROVE  Subtree(g, c) \subseteq Reachable(g)
<1>1. c \in AtDistance(g)[0] /\ c \in Reachable(g)
  BY ReachableIs
<1>2. Installs(g, c) \subseteq AtDistance(g)[0] \cup AtDistance(g)[1]
  BY <1>1, ReachableIs
<1>3. \A d \in Installs(g, c) : Installs(g, d) \subseteq Reachable(g)
  BY <1>2, ReachableIs
<1>4. Installs(g, c) \subseteq Reachable(g)
  BY <1>2, ReachableIs
<1> QED BY <1>1, <1>3, <1>4 DEF Subtree

\* Whatever is reached, a chain of names leads to it.
LEMMA ChainsLead ==
  ASSUME NEW g, NEW copy \in Reachable(g)
  PROVE  ChainsTo(g, copy) # {}
<1> DEFINE at == AtDistance(g)
           Further(chains, n) ==
             [c \in at[n] |-> UNION {{Append(s, PackageOf(c)) : s \in chains[parent]} :
                                       parent \in {q \in at[n-1] : c \in Installs(g, q)}}]
           shortest == [c \in at[0] |-> {<<PackageOf(c)>>}]
           longer == Further(shortest, 1)
           longest == Further(longer, 2)
<1>1. ChainsTo(g, copy) = IF copy \in at[0] THEN shortest[copy] ELSE IF copy \in at[1] THEN longer[copy]
                          ELSE IF copy \in at[2] THEN longest[copy] ELSE {}
  BY DEF ChainsTo
<1>2. 1 - 1 = 0 /\ 2 - 1 = 1 /\ 0 .. 2 = {0, 1, 2}
  OBVIOUS
<1>3. /\ copy \in at[0] \cup at[1] \cup at[2]
      /\ \A c \in at[1] : \E q \in at[0] : c \in Installs(g, q)
      /\ \A c \in at[2] : \E q \in at[1] : c \in Installs(g, q)
  <2>1. copy \in at[0] \cup at[1] \cup at[2]
    BY ReachableIs
  <2>2. \A c \in at[1] : \E q \in at[0] : c \in Installs(g, q)
    BY <1>2 DEF AtDistance
  <2>3. \A c \in at[2] : \E q \in at[1] : c \in Installs(g, q)
    BY <1>2 DEF AtDistance
  <2> QED BY <2>1, <2>2, <2>3
<1>4. \A c \in at[0] : shortest[c] # {}
  OBVIOUS
<1>5. \A c \in at[1] : longer[c] # {}
  <2> SUFFICES ASSUME NEW c \in at[1] PROVE longer[c] # {}
    OBVIOUS
  <2>1. PICK q \in at[0] : c \in Installs(g, q)
    BY <1>3
  <2>2. PICK s \in shortest[q] : TRUE
    BY <1>4
  <2>3. longer[c] = UNION {{Append(t, PackageOf(c)) : t \in shortest[parent]} :
                             parent \in {x \in at[0] : c \in Installs(g, x)}}
    BY <1>2
  <2> HIDE DEF at, shortest, longer
  <2>4. Append(s, PackageOf(c)) \in longer[c]
    BY <2>1, <2>2, <2>3
  <2> QED BY <2>4
<1>6. \A c \in at[2] : longest[c] # {}
  <2> SUFFICES ASSUME NEW c \in at[2] PROVE longest[c] # {}
    OBVIOUS
  <2>1. PICK q \in at[1] : c \in Installs(g, q)
    BY <1>3
  <2>2. PICK s \in longer[q] : TRUE
    BY <1>5
  <2>3. longest[c] = UNION {{Append(t, PackageOf(c)) : t \in longer[parent]} :
                             parent \in {x \in at[1] : c \in Installs(g, x)}}
    BY <1>2
  <2> HIDE DEF at, shortest, longer, longest
  <2>4. Append(s, PackageOf(c)) \in longest[c]
    BY <2>1, <2>2, <2>3
  <2> QED BY <2>4
<1> HIDE DEF at, shortest, longer, longest
<1> QED BY <1>1, <1>3, <1>4, <1>5, <1>6

-----------------------------------------------------------------------------
(* Fixes.                                                                  *)

Was(x) == Occurrences(x.before, Scanned(x))
Is(x, evidence) == Occurrences(x.after, evidence)
Records(x, evidence) == {o[1] : o \in Was(x) \cup Is(x, evidence)}

\* An occurrence is an advisory and a copy that is reached.
LEMMA OccurrenceIs ==
  ASSUME NEW g, NEW advisories, NEW o \in Occurrences(g, advisories)
  PROVE  o[1] \in advisories /\ o[2] \in Reachable(g) /\ o[1].package = PackageOf(o[2])
BY DEF Occurrences, Flags

\* What is asked for is found before the change, when the row is of a direct dependency.
LEMMA TargetsOccur ==
  ASSUME NEW x, "root" \in InstalledIn(x.before), NEW t \in Targets(x)
  PROVE  \E o \in Was(x) : o[1] = t
<1>1. "root" \in DirectCopies \cap InstalledIn(x.before)
  BY DEF DirectCopies
<1>2. t \in x.known /\ t \in Attributed(x.before, x.known, "root")
  BY DEF Targets, Attributed
<1>3. PICK c \in Subtree(x.before, "root") \cap InstalledIn(x.before) : Flags(t, x.before, c)
  BY <1>2 DEF Attributed
<1>4. c \in Reachable(x.before)
  BY <1>1, <1>3, SubtreeIsReached
<1>5. t \in Scanned(x)
  BY <1>1, <1>2 DEF Scanned
<1>6. <<t, c>> \in Was(x)
  BY <1>3, <1>4, <1>5 DEF Was, Occurrences
<1> QED BY <1>6

\* What the last scan attributed is among what it was told.
LEMMA ScannedAreKnown ==
  ASSUME NEW x
  PROVE  Scanned(x) \subseteq x.known
BY DEF Scanned, Attributed

-----------------------------------------------------------------------------
\* The parts of a plan.
PlanGroupsOf(x, evidence) == IF UnreadableRange(x.after, evidence) THEN {} ELSE FindingsOf(Records(x, evidence))
ComparedOf(x, evidence) == Compared(PlanGroupsOf(x, evidence), Was(x), Is(x, evidence))
TargetedOf(x, evidence) == Targeted(ComparedOf(x, evidence), FindingsOf(Targets(x)))
FactsOf(x, evidence) ==
  PlanFacts(x, UnreadableRange(x.after, evidence), ComparedOf(x, evidence), TargetedOf(x, evidence), FindingsOf(Targets(x)))

\* A plan of a fix is made of these parts ...
LEMMA PlanIs ==
  ASSUME NEW x, NEW evidence
  PROVE  RemediationPlan(x, evidence) =
           Planned(ComparedOf(x, evidence), TargetedOf(x, evidence), FactsOf(x, evidence),
                   Classified(ComparedOf(x, evidence), TargetedOf(x, evidence), FactsOf(x, evidence)))
BY DEF RemediationPlan, PlanFrom, ComparedOf, TargetedOf, FactsOf, PlanGroupsOf, Records, Was, Is

\* ... and says no more than they do.
LEMMA PlanParts ==
  ASSUME NEW x, NEW evidence
  PROVE  LET plan == RemediationPlan(x, evidence)
             compared == ComparedOf(x, evidence)
             targeted == TargetedOf(x, evidence)
         IN /\ plan.resolved = targeted \cap compared.gone /\ plan.remaining = targeted \cap compared.kept
            /\ plan.introduced = compared.new
            /\ AutomaticApplyAllowed(plan) => FactsOf(x, evidence) = {} /\ plan.resolved # {}
            /\ AutomaticApplyAllowed(plan) => (plan.outcome = "full" <=> plan.remaining = {})
            /\ plan.outcome = "full" => AutomaticApplyAllowed(plan)
<1> DEFINE plan == RemediationPlan(x, evidence)
           compared == ComparedOf(x, evidence)
           targeted == TargetedOf(x, evidence)
<1>1. /\ plan.outcome = Classified(compared, targeted, FactsOf(x, evidence))
      /\ plan.resolved = targeted \cap compared.gone /\ plan.remaining = targeted \cap compared.kept
      /\ plan.introduced = compared.new
  BY PlanIs DEF Planned
<1> HIDE DEF plan, compared, targeted
<1>2. AutomaticApplyAllowed(plan) => FactsOf(x, evidence) = {} /\ plan.resolved # {}
  BY <1>1 DEF AutomaticApplyAllowed, Classified
<1>3. AutomaticApplyAllowed(plan) => (plan.outcome = "full" <=> plan.remaining = {})
  BY <1>1 DEF AutomaticApplyAllowed, Classified
<1>4. plan.outcome = "full" => AutomaticApplyAllowed(plan)
  BY DEF AutomaticApplyAllowed
<1> QED BY <1>1, <1>2, <1>3, <1>4 DEF plan, compared, targeted

\* What blocks no plan.
LEMMA NothingBlocks ==
  ASSUME NEW x, NEW evidence, FactsOf(x, evidence) = {}
  PROVE  /\ "root" \in InstalledIn(x.before) /\ DirectsChanged(x.before, x.after) = {}
         /\ ~UnreadableRange(x.after, evidence)
         /\ ComparedOf(x, evidence).new = {} /\ ComparedOf(x, evidence).worse = {}
<1> DEFINE unreadable == UnreadableRange(x.after, evidence)
           compared == ComparedOf(x, evidence)
           targeted == TargetedOf(x, evidence)
           requested == FindingsOf(Targets(x))
<1> HIDE DEF unreadable, compared, targeted, requested
<1>1. PlanFacts(x, unreadable, compared, targeted, requested) = {}
  BY DEF FactsOf, unreadable, compared, targeted, requested
<1>2. /\ "ROOT_NOT_DIRECT_DEPENDENCY" \notin PlanFacts(x, unreadable, compared, targeted, requested)
      /\ "DIRECT_DEPENDENCY_CHANGED" \notin PlanFacts(x, unreadable, compared, targeted, requested)
      /\ "INVALID_ADVISORY_RANGE" \notin PlanFacts(x, unreadable, compared, targeted, requested)
      /\ "NEW_ADVISORY_INTRODUCED" \notin PlanFacts(x, unreadable, compared, targeted, requested)
      /\ "ADVISORY_WORSENED" \notin PlanFacts(x, unreadable, compared, targeted, requested)
  BY <1>1
<1>3. "root" \in InstalledIn(x.before)
  BY <1>2 DEF PlanFacts, Blocking
<1>4. DirectsChanged(x.before, x.after) = {}
  BY <1>2 DEF PlanFacts, Blocking
<1>5. ~unreadable
  BY <1>2 DEF PlanFacts, Blocking
<1>6. compared.new = {}
  BY <1>2 DEF PlanFacts, Blocking
<1>7. compared.worse = {}
  BY <1>2 DEF PlanFacts, Blocking
<1> QED BY <1>3, <1>4, <1>5, <1>6, <1>7 DEF unreadable, compared

\* The findings that are compared.
LEMMA ComparedIs ==
  ASSUME NEW x, NEW evidence
  PROVE  LET compared == ComparedOf(x, evidence)
         IN /\ \A g \in compared.gone \cup compared.new \cup compared.kept :
                 \E a \in Records(x, evidence) : g = SameFinding(a, Records(x, evidence))
            /\ \A g \in compared.gone : CopiesOf(g, Is(x, evidence)) = {}
            /\ \A g \in PlanGroupsOf(x, evidence) :
                 /\ CopiesOf(g, Is(x, evidence)) = {} => g \in compared.gone
                 /\ CopiesOf(g, Was(x)) = {} => g \in compared.new
                 /\ CopiesOf(g, Is(x, evidence)) # {} /\ CopiesOf(g, Was(x)) # {} =>
                      /\ g \in compared.kept
                      /\ g \notin compared.worse => ~(HighestSeverity(g, Is(x, evidence)) > HighestSeverity(g, Was(x)))
            /\ compared.gone \cup compared.new \cup compared.kept \subseteq PlanGroupsOf(x, evidence)
<1>1. PlanGroupsOf(x, evidence) \subseteq FindingsOf(Records(x, evidence))
  BY DEF PlanGroupsOf
<1>2. \A g \in FindingsOf(Records(x, evidence)) : \E a \in Records(x, evidence) : g = SameFinding(a, Records(x, evidence))
  BY DEF FindingsOf
<1> QED BY <1>1, <1>2 DEF ComparedOf, Compared

-----------------------------------------------------------------------------
\* The evidence consists of advisories, each known by some name and of some severity.
LEMMA RecordsAreAdvisories ==
  ASSUME NEW x \in FixProblems, NEW evidence, evidence \subseteq x.now \cup x.later
  PROVE  /\ Records(x, evidence) \subseteq x.known \cup x.now \cup x.later
         /\ \A a \in Records(x, evidence) : IsAdvisory(a)
<1>1. \A o \in Was(x) : o[1] \in x.known
  BY OccurrenceIs, ScannedAreKnown DEF Was
<1>2. \A o \in Is(x, evidence) : o[1] \in evidence
  BY OccurrenceIs DEF Is
<1>3. Records(x, evidence) \subseteq x.known \cup x.now \cup x.later
  BY <1>1, <1>2 DEF Records
<1> QED BY <1>3, FixAssumption

\* What is gone is gone: nothing that is left goes by a name of it.
LEMMA GoneIsFree ==
  ASSUME NEW x, NEW evidence, NEW g \in ComparedOf(x, evidence).gone, NEW t \in g
  PROVE  FreeOf(x, evidence, t)
<1> DEFINE R == Records(x, evidence)
<1>1. PICK a \in R : g = SameFinding(a, R)
  BY ComparedIs
<1>2. CopiesOf(g, Is(x, evidence)) = {}
  BY ComparedIs
<1>3. SUFFICES ASSUME NEW o \in Is(x, evidence), o[1].package = t.package, o[1].aliases \cap t.aliases # {} PROVE FALSE
  BY DEF FreeOf, Is
<1>4. o[1] \in R
  BY DEF Records
<1>5. ShareAName(t, o[1])
  BY <1>3 DEF ShareAName
<1> HIDE DEF R
<1>6. o[1] \in g
  BY <1>1, <1>4, <1>5, FindingIs
<1>7. o[2] \in CopiesOf(g, Is(x, evidence))
  BY <1>6 DEF CopiesOf
<1> QED BY <1>2, <1>7

\* The highest severity is that of some record, and no record's is higher.
LEMMA SeveritiesAre ==
  ASSUME NEW g, NEW occurrences, \A o \in occurrences : o[1].severity \in 0 .. 4,
         NEW p \in occurrences, p[1] \in g
  PROVE  /\ HighestSeverity(g, occurrences) \in 0 .. 4 /\ p[1].severity <= HighestSeverity(g, occurrences)
         /\ \E q \in occurrences : q[1] \in g /\ q[1].severity = HighestSeverity(g, occurrences)
<1> DEFINE severities == {o[1].severity : o \in {q \in occurrences : q[1] \in g}}
<1>1. severities \in SUBSET (0 .. 4) /\ p[1].severity \in severities
  OBVIOUS
<1>2. \A s \in severities : \E q \in occurrences : q[1] \in g /\ q[1].severity = s
  OBVIOUS
<1>3. HighestSeverity(g, occurrences) = IF severities = {} THEN 0 ELSE Max(severities)
  BY DEF HighestSeverity
<1> HIDE DEF severities
<1>4. Max(severities) \in severities /\ \A s \in severities : s <= Max(severities)
  BY <1>1, MaxIsGreatest
<1> QED BY <1>1, <1>2, <1>3, <1>4

-----------------------------------------------------------------------------
\* A plan that may be applied flags nothing that was not flagged as severely before ...
LEMMA NothingIsWorse ==
  ASSUME NEW x, NEW evidence, \A a \in Records(x, evidence) : IsAdvisory(a),
         FactsOf(x, evidence) = {}, NEW o \in Is(x, evidence)
  PROVE  \E p \in Was(x) : /\ p[1].package = o[1].package /\ p[1] \in SameFinding(o[1], Records(x, evidence))
                           /\ \E q \in Was(x) : q[1].package = o[1].package /\ q[1].severity >= o[1].severity
<1> DEFINE R == Records(x, evidence)
           g == SameFinding(o[1], R)
<1>1. o[1] \in R /\ \A q \in Was(x) \cup Is(x, evidence) : q[1] \in R
  BY DEF Records
<1>2. g \in PlanGroupsOf(x, evidence)
  BY <1>1, NothingBlocks DEF PlanGroupsOf, FindingsOf
<1>3. o[1] \in g /\ \A b \in g : b.package = o[1].package
  BY <1>1, FindingIs
<1>4. ComparedOf(x, evidence).new = {} /\ ComparedOf(x, evidence).worse = {}
  BY NothingBlocks
<1> HIDE DEF g, R
<1>5. CopiesOf(g, Is(x, evidence)) # {}
  BY <1>3 DEF CopiesOf
<1>6. CopiesOf(g, Was(x)) # {}
  BY <1>2, <1>4, ComparedIs
<1>7. PICK p \in Was(x) : p[1] \in g
  BY <1>6 DEF CopiesOf
<1>8. ~(HighestSeverity(g, Is(x, evidence)) > HighestSeverity(g, Was(x)))
  <2>1. g \notin ComparedOf(x, evidence).worse
    BY <1>4
  <2> QED BY <1>2, <1>5, <1>6, <2>1, ComparedIs
<1>9. /\ \A q \in Was(x) : q[1].severity \in 0 .. 4
      /\ \A q \in Is(x, evidence) : q[1].severity \in 0 .. 4
  BY <1>1 DEF IsAdvisory, R
<1>10. /\ HighestSeverity(g, Is(x, evidence)) \in 0 .. 4
       /\ o[1].severity <= HighestSeverity(g, Is(x, evidence)) /\ o[1].severity \in 0 .. 4
  BY <1>3, <1>9, SeveritiesAre
<1>11. PICK q \in Was(x) : q[1] \in g /\ q[1].severity = HighestSeverity(g, Was(x))
  BY <1>7, <1>9, SeveritiesAre
<1>12. HighestSeverity(g, Was(x)) \in 0 .. 4
  BY <1>9, <1>11
<1>13. q[1].severity >= o[1].severity
  BY <1>8, <1>10, <1>11, <1>12
<1> QED BY <1>3, <1>7, <1>11, <1>13 DEF g, R

\* ... rids the tree of a target ...
LEMMA SomethingIsFixed ==
  ASSUME NEW x, NEW evidence, AutomaticApplyAllowed(RemediationPlan(x, evidence))
  PROVE  \E t \in Targets(x) : FreeOf(x, evidence, t)
<1>1. TargetedOf(x, evidence) \cap ComparedOf(x, evidence).gone # {}
  BY PlanParts
<1>2. PICK g \in ComparedOf(x, evidence).gone : g \in TargetedOf(x, evidence)
  BY <1>1
<1>3. PICK r \in FindingsOf(Targets(x)) : r \cap g # {}
  BY <1>2 DEF TargetedOf, Targeted
<1>4. PICK t : t \in r /\ t \in g
  BY <1>3
<1>5. PICK a \in Targets(x) : r = SameFinding(a, Targets(x))
  BY DEF FindingsOf
<1>6. t \in Targets(x)
  BY <1>4, <1>5, FindingIs
<1> QED BY <1>2, <1>4, <1>6, GoneIsFree

\* ... and, when it is said to be a full one, of all of them.
LEMMA AllIsFixed ==
  ASSUME NEW x, NEW evidence, RemediationPlan(x, evidence).outcome = "full", NEW t \in Targets(x)
  PROVE  FreeOf(x, evidence, t)
<1> DEFINE R == Records(x, evidence)
           g == SameFinding(t, R)
           compared == ComparedOf(x, evidence)
<1>1. /\ FactsOf(x, evidence) = {}
      /\ TargetedOf(x, evidence) \cap compared.kept = {}
  BY PlanParts
<1>2. "root" \in InstalledIn(x.before) /\ ~UnreadableRange(x.after, evidence)
  BY <1>1, NothingBlocks
<1>3. PICK o \in Was(x) : o[1] = t
  BY <1>2, TargetsOccur
<1>4. t \in R
  BY <1>3 DEF Records
<1>5. g \in PlanGroupsOf(x, evidence)
  BY <1>2, <1>4 DEF PlanGroupsOf, FindingsOf
<1>6. t \in g
  BY <1>4, FindingIs
<1>7. \E r \in FindingsOf(Targets(x)) : r \cap g # {}
  <2>1. SameFinding(t, Targets(x)) \in FindingsOf(Targets(x)) /\ t \in SameFinding(t, Targets(x))
    BY FindingIs DEF FindingsOf
  <2> QED BY <1>6, <2>1
<1> HIDE DEF g, R, compared
<1>8. o[2] \in CopiesOf(g, Was(x))
  BY <1>3, <1>6 DEF CopiesOf
<1>9. g \in compared.gone \/ g \in compared.kept
  BY <1>5, <1>8, ComparedIs DEF compared
<1>10. g \in TargetedOf(x, evidence)
  BY <1>7, <1>9 DEF TargetedOf, Targeted, compared
<1>11. g \in compared.gone
  BY <1>1, <1>9, <1>10
<1> QED BY <1>6, <1>11, GoneIsFree DEF compared

\* A plan that may be applied is safe.
LEMMA PlansAreSafe ==
  ASSUME NEW x, NEW evidence, \A a \in Records(x, evidence) : IsAdvisory(a)
  PROVE  PlanIsSafe(x, evidence, RemediationPlan(x, evidence), Was(x), Is(x, evidence))
<1> DEFINE plan == RemediationPlan(x, evidence)
<1>1. AutomaticApplyAllowed(plan) => FactsOf(x, evidence) = {}
  BY PlanParts
<1>2. AutomaticApplyAllowed(plan) => \A c \in DirectCopies : x.before.version[c] = x.after.version[c]
  BY <1>1, NothingBlocks DEF DirectsChanged
<1>3. AutomaticApplyAllowed(plan) => \E t \in Targets(x) : FreeOf(x, evidence, t)
  BY SomethingIsFixed
<1>4. {o[1] : o \in Was(x) \cup Is(x, evidence)} = Records(x, evidence)
  BY DEF Records
<1>5. AutomaticApplyAllowed(plan) =>
        \A o \in Is(x, evidence) : \E p \in Was(x) :
           /\ p[1].package = o[1].package /\ p[1] \in SameFinding(o[1], Records(x, evidence))
           /\ \E q \in Was(x) : q[1].package = o[1].package /\ q[1].severity >= o[1].severity
  BY <1>1, NothingIsWorse
<1>6. plan.outcome = "full" => \A t \in Targets(x) : FreeOf(x, evidence, t)
  BY AllIsFixed
<1> HIDE DEF plan
<1>7. PlanIsSafe(x, evidence, plan, Was(x), Is(x, evidence))
  BY <1>2, <1>3, <1>4, <1>5, <1>6 DEF PlanIsSafe
<1> QED BY <1>7 DEF plan

-----------------------------------------------------------------------------
\* Every finding that is shown has a chain that leads to it.
LEMMA FindingsAreLedTo ==
  ASSUME NEW x, NEW evidence,
         NEW g \in ComparedOf(x, evidence).gone \cup ComparedOf(x, evidence).new \cup ComparedOf(x, evidence).kept
  PROVE  AdvisorySummary(x, g).paths # {}
<1> DEFINE R == Records(x, evidence)
<1>1. PICK a \in R : g = SameFinding(a, R)
  BY ComparedIs
<1>2. a \in g
  BY <1>1, FindingIs
<1>3. PICK o \in Was(x) \cup Is(x, evidence) : o[1] = a
  BY DEF Records
<1>4. PICK graph \in {x.before, x.after} : o[2] \in Reachable(graph) /\ a.package = PackageOf(o[2])
  <2>1. CASE o \in Was(x)
    BY <1>3, <2>1, OccurrenceIs DEF Was
  <2>2. CASE o \in Is(x, evidence)
    BY <1>3, <2>2, OccurrenceIs DEF Is
  <2> QED BY <2>1, <2>2
<1>5. PICK s : s \in ChainsTo(graph, o[2])
  BY <1>4, ChainsLead
<1>6. o[2] \in {c \in Reachable(x.before) \cup Reachable(x.after) : \E b \in g : b.package = PackageOf(c)}
  BY <1>2, <1>4
<1>7. AdvisorySummary(x, g).paths =
        UNION {ChainsTo(h, c) : h \in {x.before, x.after},
                 c \in {y \in Reachable(x.before) \cup Reachable(x.after) : \E b \in g : b.package = PackageOf(y)}}
  BY DEF AdvisorySummary
<1>8. s \in AdvisorySummary(x, g).paths
  BY <1>5, <1>6, <1>7
<1> QED BY <1>8

\* Every change that is shown takes a version away or brings one.
LEMMA ChangesAreShown ==
  ASSUME NEW x, NEW c \in PresentedChanges(x)
  PROVE  c.from \cup c.to # {} /\ Changed(x.before, x.after) # {}
<1> DEFINE of(name) == {d \in Changed(x.before, x.after) : PackageOf(d) = name}
           versionsIn(graph, name) == {graph.version[d] : d \in of(name)} \ {NoCopy}
<1>1. PICK d \in Changed(x.before, x.after) :
        c.from = versionsIn(x.before, PackageOf(d)) /\ c.to = versionsIn(x.after, PackageOf(d))
  BY DEF PresentedChanges
<1>2. d \in of(PackageOf(d)) /\ x.before.version[d] # x.after.version[d]
  BY DEF Changed
<1>3. x.before.version[d] # NoCopy => x.before.version[d] \in versionsIn(x.before, PackageOf(d))
  BY <1>2
<1>4. x.after.version[d] # NoCopy => x.after.version[d] \in versionsIn(x.after, PackageOf(d))
  BY <1>2
<1> HIDE DEF of, versionsIn
<1> QED BY <1>1, <1>2, <1>3, <1>4

\* What may be applied is accepted by the webview if it installs another copy of a targeted package.
LEMMA PlansAreShown ==
  ASSUME NEW x, NEW evidence
  PROVE  PlanIsShown(x, RemediationPlan(x, evidence))
<1> DEFINE plan == RemediationPlan(x, evidence)
           shown == Presentation(x, plan)
           compared == ComparedOf(x, evidence)
<1>1. /\ plan.resolved \subseteq compared.gone /\ plan.remaining \subseteq compared.kept
      /\ plan.introduced = compared.new
      /\ AutomaticApplyAllowed(plan) => FactsOf(x, evidence) = {} /\ plan.resolved # {}
      /\ AutomaticApplyAllowed(plan) => (plan.outcome = "full" <=> plan.remaining = {})
  BY PlanParts
<1>2. AutomaticApplyAllowed(plan) => compared.new = {} /\ DirectsChanged(x.before, x.after) = {}
  BY <1>1, NothingBlocks
<1>3. \A g \in compared.gone \cup compared.new \cup compared.kept : AdvisorySummary(x, g).paths # {}
  BY FindingsAreLedTo
<1> HIDE DEF plan, compared
<1>4. /\ shown.outcome = plan.outcome /\ shown.changes = PresentedChanges(x)
      /\ shown.directRootUnchanged = (DirectsChanged(x.before, x.after) = {})
      /\ shown.lockfileChanged = (Changed(x.before, x.after) # {})
      /\ shown.resolved = {AdvisorySummary(x, g) : g \in plan.resolved}
      /\ shown.remaining = {AdvisorySummary(x, g) : g \in plan.remaining}
      /\ shown.introduced = {AdvisorySummary(x, g) : g \in plan.introduced}
  BY DEF Presentation
<1> HIDE DEF shown
<1>5. \A s \in shown.resolved \cup shown.remaining \cup shown.introduced : s.paths # {}
  <2>1. plan.resolved \cup plan.remaining \cup plan.introduced \subseteq compared.gone \cup compared.new \cup compared.kept
    BY <1>1
  <2>2. \A g \in plan.resolved \cup plan.remaining \cup plan.introduced : AdvisorySummary(x, g).paths # {}
    BY <1>3, <2>1
  <2> QED BY <1>4, <2>2
<1>6. \A c \in shown.changes : c.from \cup c.to # {}
  BY <1>4, ChangesAreShown
<1>7. ASSUME AutomaticApplyAllowed(plan), NEW c \in PresentedChanges(x), c.targeted, c.to # {}
      PROVE  PlanAccepted(shown)
  <2>1. shown.lockfileChanged /\ shown.directRootUnchanged
    BY <1>2, <1>4, <1>7, ChangesAreShown
  <2>2. shown.resolved # {} /\ shown.introduced = {} /\ (shown.remaining = {} <=> plan.remaining = {})
    BY <1>1, <1>2, <1>4, <1>7
  <2>3. (shown.outcome = "full") = (shown.remaining = {})
    BY <1>1, <1>4, <1>7, <2>2
  <2>4. \E d \in shown.changes : d.targeted /\ d.to # {}
    BY <1>4, <1>7
  <2> QED BY <1>5, <1>6, <2>1, <2>2, <2>3, <2>4 DEF PlanAccepted
<1>8. ~AutomaticApplyAllowed(plan) => PlanAccepted(shown)
  BY <1>4, <1>5, <1>6 DEF PlanAccepted, AutomaticApplyAllowed
<1>9. PlanAccepted(shown) \/ (AutomaticApplyAllowed(plan) /\ \A c \in PresentedChanges(x) : c.targeted => c.to = {})
  BY <1>7, <1>8
<1> QED BY <1>9 DEF PlanIsShown, shown, plan

-----------------------------------------------------------------------------
\* What was promised and verified is kept.
LEMMA PromisesAreKept ==
  ASSUME NEW x \in FixProblems, NEW evidence, NEW later,
         evidence \subseteq x.now \cup x.later, later \subseteq x.now \cup x.later
  PROVE  PromiseIsKept(x, later, RemediationPlan(x, evidence), RemediationPlan(x, later))
<1> DEFINE R == Records(x, evidence)
           L == Records(x, later)
           stored == RemediationPlan(x, evidence)
           final == RemediationPlan(x, later)
           all == x.known \cup x.now \cup x.later
<1> SUFFICES ASSUME SecurityVerified(stored, final),
                    \A a, b \in all : a.aliases \cap b.aliases # {} => a.package = b.package,
                    NEW g \in stored.resolved, NEW t \in g
             PROVE  FreeOf(x, later, t)
  BY DEF PromiseIsKept
<1>1. /\ R \subseteq all /\ \A a \in R : IsAdvisory(a)
      /\ L \subseteq all /\ \A a \in L : IsAdvisory(a)
  BY RecordsAreAdvisories
<1>2. g \in ComparedOf(x, evidence).gone /\ \A h \in final.resolved : h \in ComparedOf(x, later).gone
  BY PlanParts
<1>3. CopiesOf(g, Is(x, evidence)) = {}
  BY <1>2, ComparedIs
<1>4. PICK a \in R : g = SameFinding(a, R)
  BY <1>2, ComparedIs
<1>5. g \subseteq R /\ g = SameFinding(t, R) /\ t \in R
  BY <1>4, FindingIs, FindingsAreApart
<1>6. g \subseteq L
  <2> SUFFICES ASSUME NEW b \in g PROVE b \in L
    OBVIOUS
  <2>1. PICK o \in Was(x) \cup Is(x, evidence) : o[1] = b
    BY <1>5 DEF Records
  <2>2. o \in Was(x)
    BY <1>3, <2>1 DEF CopiesOf
  <2> QED BY <2>1, <2>2 DEF Records
<1> HIDE DEF R, L, stored, final, all
<1>7. g \subseteq SameFinding(t, L)
  BY <1>5, <1>6, FindingSurvives
<1>8. PreferredIdentity(g) \in AliasesOf(g)
  <2>1. AliasesOf(g) \in SUBSET Nat /\ AliasesOf(g) # {}
    BY <1>1, <1>5 DEF AliasesOf, IsAdvisory
  <2> QED BY <2>1, MinIsLeast DEF PreferredIdentity
<1>9. PICK h \in final.resolved : PreferredIdentity(g) = PreferredIdentity(h)
  <2>1. PreferredIdentity(g) \in {PreferredIdentity(h) : h \in final.resolved}
    BY DEF SecurityVerified
  <2> QED BY <2>1
<1>10. PICK b \in L : h = SameFinding(b, L)
  BY <1>2, <1>9, ComparedIs DEF L
<1>11. h \subseteq L /\ b \in h
  BY <1>10, FindingIs
<1>12. PreferredIdentity(h) \in AliasesOf(h)
  <2>1. AliasesOf(h) \in SUBSET Nat /\ AliasesOf(h) # {}
    BY <1>1, <1>11 DEF AliasesOf, IsAdvisory
  <2> QED BY <2>1, MinIsLeast DEF PreferredIdentity
<1>13. PICK c \in g : PreferredIdentity(g) \in c.aliases
  BY <1>8 DEF AliasesOf
<1>14. PICK d \in h : PreferredIdentity(g) \in d.aliases
  BY <1>9, <1>12 DEF AliasesOf
<1>15. ShareAName(c, d)
  <2>1. c \in all /\ d \in all
    BY <1>1, <1>5, <1>11
  <2>2. c.aliases \cap d.aliases # {}
    BY <1>13, <1>14
  <2> QED BY <2>1, <2>2 DEF ShareAName
<1>16. c \in SameFinding(t, L) /\ t \in L
  BY <1>6, <1>7
<1>17. d \in SameFinding(t, L)
  BY <1>11, <1>15, <1>16, FindingIs
<1>18. SameFinding(d, L) = SameFinding(t, L) /\ SameFinding(d, L) = h
  BY <1>10, <1>16, <1>17, FindingsAreApart
<1>19. t \in h
  BY <1>16, <1>18, FindingIs
<1> QED BY <1>2, <1>9, <1>19, GoneIsFree

\* What is offered and reported as a fix is one, for every problem ...
LEMMA EveryFixIsSafe ==
  ASSUME fix \in FixProblems
  PROVE  FixesAreSafe
<1> DEFINE evidence == Fetched(fix.after, fix.now)
           later == Fetched(fix.after, fix.later)
<1>1. evidence \subseteq fix.now /\ later \subseteq fix.later
  BY DEF Fetched
<1>2. \A a \in Records(fix, evidence) : IsAdvisory(a)
  BY <1>1, RecordsAreAdvisories
<1>3. PlanIsSafe(fix, evidence, RemediationPlan(fix, evidence), Was(fix), Is(fix, evidence))
  BY <1>2, PlansAreSafe
<1>4. PlanIsShown(fix, RemediationPlan(fix, evidence))
  BY PlansAreShown
<1>5. PromiseIsKept(fix, later, RemediationPlan(fix, evidence), RemediationPlan(fix, later))
  BY <1>1, PromisesAreKept
<1> QED BY <1>3, <1>4, <1>5 DEF FixesAreSafe, FixedWith, FixIsSafe, Was, Is

\* ... so that no plan is made that is not what it is said to be: neither one that the search finds,
\* nor the comparison of two lockfiles.
THEOREM PlansAreAlwaysSound ==
  UpgradeSpec => []PlansAreSound
<1> DEFINE Asked == running = "fixes" => fix \in FixProblems
<1>1. UpgradeInit => Asked
  BY DEF UpgradeInit, FixInit
<1>2. Asked /\ [UpgradeNext]_upgradeVars => Asked'
  BY DEF UpgradeNext, Transacts, Searches, Answered, upgradeVars, decisionVars
<1>3. Asked /\ PlansAreRight => PlansAreSound
  BY EveryFixIsSafe DEF PlansAreSound
<1> HIDE DEF Asked
<1> QED BY <1>1, <1>2, <1>3, PlansAreAlwaysRight, PTL DEF UpgradeSpec

-----------------------------------------------------------------------------
\* What each copy makes the package manager install.
LEMMA InstallsAre ==
  ASSUME NEW g
  PROVE  /\ \A c : Installs(g, c) \subseteq {"top", "nested", "deep"} \cap InstalledIn(g)
         /\ Installs(g, "deep") = {} /\ Installs(g, "other") \subseteq {"top"}
         /\ Installs(g, "top") \subseteq {"deep"} /\ Installs(g, "nested") \subseteq {"deep"}
         /\ \E near \in {"top", "nested"} : Installs(g, "root") \subseteq {near, "deep"}
<1> DEFINE nearest(c) == IF c = "root" /\ "nested" \in InstalledIn(g) THEN "nested" ELSE "top"
<1>1. ASSUME NEW c
      PROVE  /\ c = "root" => Installs(g, c) = InstalledIn(g) \cap (IF g.shortcut THEN {nearest(c), "deep"} ELSE {nearest(c)})
             /\ c = "other" => Installs(g, c) = InstalledIn(g) \cap (IF g.peerOnly THEN {} ELSE {"top"})
             /\ c \in {"top", "nested"} => Installs(g, c) = InstalledIn(g) \cap {"deep"}
             /\ c \notin {"root", "other", "top", "nested"} => Installs(g, c) = InstalledIn(g) \cap {}
  BY DEF Installs
<1>2. \A c : Installs(g, c) \subseteq {"top", "nested", "deep"} \cap InstalledIn(g)
  <2> SUFFICES ASSUME NEW c PROVE Installs(g, c) \subseteq {"top", "nested", "deep"} \cap InstalledIn(g)
    OBVIOUS
  <2> QED BY <1>1
<1>3. Installs(g, "deep") = {}
  BY <1>1
<1>4. Installs(g, "other") \subseteq {"top"}
  BY <1>1
<1>5. Installs(g, "top") \subseteq {"deep"} /\ Installs(g, "nested") \subseteq {"deep"}
  BY <1>1
<1>6. Installs(g, "root") \subseteq {nearest("root"), "deep"}
  BY <1>1
<1> QED BY <1>2, <1>3, <1>4, <1>5, <1>6

\* Below a direct dependency is at most one copy of each package.
LEMMA SubtreeIs ==
  ASSUME NEW g, NEW root \in DirectCopies
  PROVE  /\ root \in Subtree(g, root)
         /\ \E near \in {"top", "nested"} : Subtree(g, root) \subseteq {root, near, "deep"}
<1>1. root \in {"root", "other"}
  BY DEF DirectCopies
<1>2. PICK near \in {"top", "nested"} : Installs(g, root) \subseteq {near, "deep"}
  BY <1>1, InstallsAre
<1>3. \A c \in {near, "deep"} : Installs(g, c) \subseteq {"deep"}
  BY InstallsAre
<1>4. UNION {Installs(g, c) : c \in Installs(g, root)} \subseteq {"deep"}
  BY <1>2, <1>3
<1>5. Subtree(g, root) \subseteq {root, near, "deep"}
  BY <1>2, <1>4 DEF Subtree
<1>6. root \in Subtree(g, root)
  BY DEF Subtree
<1> QED BY <1>5, <1>6

\* So that two copies below it of one package are the same.
LEMMA OneCopyBelow ==
  ASSUME NEW g, NEW root \in DirectCopies, NEW a \in Subtree(g, root), NEW b \in Subtree(g, root),
         PackageOf(a) = PackageOf(b)
  PROVE  a = b
<1>1. PICK near \in {"top", "nested"} : Subtree(g, root) \subseteq {root, near, "deep"}
  BY SubtreeIs
<1>2. root \in {"root", "other"}
  BY DEF DirectCopies
<1>3. a \in {root, near, "deep"} /\ b \in {root, near, "deep"}
  BY <1>1
<1>4. /\ PackageOf("root") = "root" /\ PackageOf("other") = "other" /\ PackageOf("deep") = "deep"
      /\ PackageOf("top") = "shared" /\ PackageOf("nested") = "shared"
  BY DEF PackageOf
<1> QED BY <1>2, <1>3, <1>4

\* What is reached is below some direct dependency.
LEMMA ReachedIsBelow ==
  ASSUME NEW g, NEW c \in Reachable(g)
  PROVE  c \in InstalledIn(g) /\ \E d \in Directs(g) : c \in Subtree(g, d)
<1> DEFINE at == AtDistance(g)
<1>1. 0 .. 2 = {0, 1, 2}
  OBVIOUS
<1>2. /\ at[0] = DirectCopies \cap InstalledIn(g)
      /\ \A x \in at[1] : \E y \in at[0] : x \in Installs(g, y)
      /\ \A x \in at[2] : \E y \in at[1] : x \in Installs(g, y)
  BY <1>1 DEF AtDistance
<1>3. c \in at[0] \cup at[1] \cup at[2]
  BY ReachableIs
<1> HIDE DEF at
<1>4. \A d \in at[0] : d \in Directs(g)
  BY <1>2 DEF Directs
<1>5. CASE c \in at[0]
  BY <1>2, <1>4, <1>5 DEF Subtree
<1>6. CASE c \in at[1]
  <2>1. PICK y \in at[0] : c \in Installs(g, y)
    BY <1>2, <1>6
  <2>2. c \in Subtree(g, y)
    BY <2>1 DEF Subtree
  <2> QED BY <1>4, <2>1, <2>2, InstallsAre
<1>7. CASE c \in at[2]
  <2>1. PICK y \in at[1] : c \in Installs(g, y)
    BY <1>2, <1>7
  <2>2. PICK z \in at[0] : y \in Installs(g, z)
    BY <1>2, <2>1
  <2>3. c \in Subtree(g, z)
    BY <2>1, <2>2 DEF Subtree
  <2> QED BY <1>4, <2>1, <2>3, InstallsAre
<1> QED BY <1>3, <1>5, <1>6, <1>7

\* An entry of a row: an advisory and the copy it flags.
LEMMA EntriesAre ==
  ASSUME NEW g, NEW advisories, NEW root
  PROVE  /\ \A e \in Entries(g, advisories, root) :
              e[1] \in advisories /\ e[2] \in Subtree(g, root) \cap InstalledIn(g) /\ Flags(e[1], g, e[2])
         /\ \A a \in advisories, c \in Subtree(g, root) \cap InstalledIn(g) :
              Flags(a, g, c) => <<a, c>> \in Entries(g, advisories, root)
BY DEF Entries

-----------------------------------------------------------------------------
\* A row that is said to be rid of its advisories is.
LEMMA RemainingIs ==
  ASSUME NEW q, NEW c
  PROVE  \A r \in Remaining(q, c) : r.status = "remains" \/ (r.status = "unknown" /\ ~q.evidence)
BY DEF Remaining, Left

\* A row of which nothing remains is rid of each advisory once its target is installed ...
LEMMA ResolvedIsTrue ==
  ASSUME NEW q, IsSecurityQuestion(q), \A c \in Upgraded(q) : q.after.version[c] = q.targets[c],
         NEW c \in Upgraded(q), Remaining(q, c) = {},
         NEW e \in Entries(q.before, q.known, c), NEW x \in Entries(q.after, KnownFromRows(q), c)
  PROVE  x[1] # e[1]
<1> SUFFICES ASSUME x[1] = e[1] PROVE FALSE
  OBVIOUS
<1> DEFINE was == Entries(q.before, q.known, c)
           is == Entries(q.after, KnownFromRows(q), c)
<1>1. CASE q.evidence
  <2>1. Left(x[1], "remains", ChainTo(q.after, c, x[2])) \in Remaining(q, c)
    BY <1>1 DEF Remaining
  <2> QED BY <2>1
<1>2. CASE ~q.evidence
  <2>1. /\ e[2] # c => Left(e[1], "unknown", ChainTo(q.before, c, e[2])) \in Remaining(q, c)
        /\ e[2] = c /\ q.targets[c] \in e[1].vulnerable => Left(e[1], "remains", <<c>>) \in Remaining(q, c)
    BY <1>2 DEF Remaining
  <2>2. e[2] = c /\ q.targets[c] \notin e[1].vulnerable
    BY <2>1
  <2>3. c \in DirectCopies
    BY DEF IsSecurityQuestion, Upgraded
  <2>4. e[1].package = PackageOf(c) /\ e[1].package = PackageOf(x[2]) /\ q.after.version[x[2]] \in e[1].vulnerable
    BY <2>2, EntriesAre DEF Flags
  <2>5. x[2] = c
    <3>1. x[2] \in Subtree(q.after, c) /\ c \in Subtree(q.after, c)
      BY <2>3, EntriesAre, SubtreeIs
    <3>2. PackageOf(x[2]) = PackageOf(c)
      BY <2>4
    <3> QED BY <2>3, <3>1, <3>2, OneCopyBelow
  <2> QED BY <2>2, <2>4, <2>5
<1> QED BY <1>1, <1>2

\* ... and an upgrade that is said to resolve its advisories resolves them.
LEMMA OutcomesAreTrue ==
  ASSUME NEW q, IsSecurityQuestion(q)
  PROVE  OutcomeIsTrue(q)
<1> DEFINE flagged == {c \in Upgraded(q) : Entries(q.before, q.known, c) # {}}
           left == {r.status : r \in UNION {Remaining(q, c) : c \in flagged}}
<1>1. SecurityOutcome(q) = IF flagged = {} THEN "none"
                           ELSE IF "remains" \in left THEN "remains" ELSE IF "unknown" \in left THEN "unknown" ELSE "resolved"
  BY DEF SecurityOutcome
<1>2. \A c \in flagged : \A r \in Remaining(q, c) : r.status \in left
  OBVIOUS
<1>3. q.evidence => "unknown" \notin left
  <2> SUFFICES ASSUME q.evidence, NEW c \in flagged, NEW r \in Remaining(q, c), r.status = "unknown" PROVE FALSE
    OBVIOUS
  <2> QED BY RemainingIs
<1>4. \A c \in Upgraded(q) : \A e \in Entries(q.before, q.known, c) : c \in flagged
  OBVIOUS
<1> HIDE DEF flagged, left
<1>5. q.evidence => SecurityOutcome(q) # "unknown"
  BY <1>1, <1>3
<1>6. ASSUME SecurityOutcome(q) = "resolved", \A c \in Upgraded(q) : q.after.version[c] = q.targets[c],
             NEW c \in Upgraded(q), NEW e \in Entries(q.before, q.known, c), NEW x \in Entries(q.after, KnownFromRows(q), c)
      PROVE  x[1] # e[1]
  <2>1. "remains" \notin left /\ "unknown" \notin left
    BY <1>1, <1>6
  <2>2. c \in flagged
    BY <1>4
  <2>3. Remaining(q, c) = {}
    BY <1>2, <2>1, <2>2, RemainingIs
  <2> QED BY <1>6, <2>3, ResolvedIsTrue
<1> QED BY <1>5, <1>6 DEF OutcomeIsTrue

-----------------------------------------------------------------------------
(* Chains of copies.                                                       *)

\* The chains of two and of three copies.
Pairs(g, root) == {<<root, c>> : c \in Installs(g, root)}
Beyond(g, root, c) == {<<root, c, d>> : d \in Installs(g, c)}
Triples(g, root) == UNION {Beyond(g, root, c) : c \in Installs(g, root)}

\* A chain of one copy, or of two, with another at its end.
LEMMA ChainOfTwo ==
  ASSUME NEW a, NEW b
  PROVE  Append(<<a>>, b) = <<a, b>>
<1> DEFINE S == {a, b}
           s == Append(<<a>>, b)
           t == <<a, b>>
<1>1. /\ <<a>> \in Seq(S) /\ <<a, b>> \in Seq(S) /\ b \in S
      /\ Len(<<a>>) = 1 /\ Len(<<a, b>>) = 2 /\ <<a>>[1] = a /\ <<a, b>>[1] = a /\ <<a, b>>[2] = b
  OBVIOUS
<1> HIDE DEF S
<1>2. s \in Seq(S) /\ Len(s) = 2 /\ s[1] = a /\ s[2] = b
  BY <1>1, AppendProperties
<1>3. t \in Seq(S) /\ Len(t) = 2 /\ t[1] = a /\ t[2] = b
  BY <1>1
<1> HIDE DEF s, t
<1>4. \A i \in 1 .. 2 : s[i] = t[i]
  BY <1>2, <1>3
<1>5. s = t
  BY <1>2, <1>3, <1>4, SeqEqual
<1> QED BY <1>5 DEF s, t

\* The same of two copies.
LEMMA ChainOfThree ==
  ASSUME NEW a, NEW b, NEW c
  PROVE  Append(<<a, b>>, c) = <<a, b, c>>
<1> DEFINE S == {a, b, c}
           s == Append(<<a, b>>, c)
           t == <<a, b, c>>
<1>1. /\ <<a, b>> \in Seq(S) /\ <<a, b, c>> \in Seq(S) /\ c \in S
      /\ Len(<<a, b>>) = 2 /\ Len(<<a, b, c>>) = 3 /\ <<a, b>>[1] = a /\ <<a, b>>[2] = b
      /\ <<a, b, c>>[1] = a /\ <<a, b, c>>[2] = b /\ <<a, b, c>>[3] = c
  OBVIOUS
<1> HIDE DEF S
<1>2. s \in Seq(S) /\ Len(s) = 3 /\ s[1] = a /\ s[2] = b /\ s[3] = c
  BY <1>1, AppendProperties
<1>3. t \in Seq(S) /\ Len(t) = 3 /\ t[1] = a /\ t[2] = b /\ t[3] = c
  BY <1>1
<1> HIDE DEF s, t
<1>4. \A i \in 1 .. 3 : s[i] = t[i]
  BY <1>2, <1>3
<1>5. s = t
  BY <1>2, <1>3, <1>4, SeqEqual
<1> QED BY <1>5 DEF s, t

\* The chains that one more step makes.
LEMMA PairsAre ==
  ASSUME NEW g, NEW root \in DirectCopies
  PROVE  Longer(g, {<<root>>}) = Pairs(g, root)
<1> DEFINE p == <<root>>
<1>1. Len(p) = 1 /\ p[1] = root /\ 1 .. Len(p) = {1} /\ \A c : Append(p, c) = <<root, c>>
  BY ChainOfTwo
<1>2. root \notin Installs(g, root)
  BY InstallsAre DEF DirectCopies
<1>3. Longer(g, {p}) = {Append(p, c) : c \in {d \in Installs(g, p[Len(p)]) : \A i \in 1 .. Len(p) : p[i] # d}}
  BY DEF Longer
<1> HIDE DEF p
<1>4. {d \in Installs(g, p[Len(p)]) : \A i \in 1 .. Len(p) : p[i] # d} = Installs(g, root)
  BY <1>1, <1>2
<1>5. {Append(p, c) : c \in Installs(g, root)} = Pairs(g, root)
  BY <1>1 DEF Pairs
<1> QED BY <1>3, <1>4, <1>5 DEF p

\* The chains that a third step makes.
LEMMA TriplesAre ==
  ASSUME NEW g, NEW root \in DirectCopies
  PROVE  Longer(g, Pairs(g, root)) = Triples(g, root)
<1> DEFINE Next3(p) == {Append(p, c) : c \in {d \in Installs(g, p[Len(p)]) : \A i \in 1 .. Len(p) : p[i] # d}}
<1>1. ASSUME NEW c \in Installs(g, root) PROVE Next3(<<root, c>>) = Beyond(g, root, c)
  <2> DEFINE p == <<root, c>>
  <2>1. Len(p) = 2 /\ p[1] = root /\ p[2] = c /\ 1 .. Len(p) = {1, 2} /\ \A d : Append(p, d) = <<root, c, d>>
    BY ChainOfThree
  <2>2. \A d \in Installs(g, c) : d # root /\ d # c
    <3>1. c \in {"top", "nested", "deep"} /\ root \in {"root", "other"}
      BY InstallsAre DEF DirectCopies
    <3>2. Installs(g, c) \subseteq {"top", "nested", "deep"} /\ c \notin Installs(g, c)
      BY <3>1, InstallsAre
    <3> QED BY <3>1, <3>2
  <2> HIDE DEF p
  <2>3. {d \in Installs(g, p[Len(p)]) : \A i \in 1 .. Len(p) : p[i] # d} = Installs(g, c)
    BY <2>1, <2>2
  <2>4. {Append(p, d) : d \in Installs(g, c)} = Beyond(g, root, c)
    BY <2>1 DEF Beyond
  <2>5. Next3(p) = Beyond(g, root, c)
    BY <2>3, <2>4
  <2> QED BY <2>5 DEF p
<1>2. Longer(g, Pairs(g, root)) = UNION {Next3(p) : p \in Pairs(g, root)}
  BY DEF Longer
<1> HIDE DEF Next3
<1>3. /\ \A p \in Pairs(g, root) : \E c \in Installs(g, root) : p = <<root, c>> /\ Next3(p) = Beyond(g, root, c)
      /\ \A c \in Installs(g, root) : <<root, c>> \in Pairs(g, root)
  BY <1>1 DEF Pairs
<1>4. {Next3(p) : p \in Pairs(g, root)} = {Beyond(g, root, c) : c \in Installs(g, root)}
  BY <1>1, <1>3
<1> QED BY <1>2, <1>4 DEF Triples

\* The chains from a direct dependency to a finding.
LEMMA PathsAre ==
  ASSUME NEW g, NEW root \in DirectCopies, NEW finding
  PROVE  PathsFrom(g, root, finding) =
           {p \in {<<root>>} \cup Pairs(g, root) \cup Triples(g, root) : IsFinding(finding, g, p[Len(p)])}
BY PairsAre, TriplesAre DEF PathsFrom

\* Whatever leads to a copy of the finding is such a chain.
LEMMA IsAPath ==
  ASSUME NEW g, NEW root \in DirectCopies, NEW finding,
         NEW p \in {<<root>>} \cup Pairs(g, root) \cup Triples(g, root), IsFinding(finding, g, p[Len(p)])
  PROVE  p \in PathsFrom(g, root, finding)
BY PathsAre

\* Each starts at the direct dependency and ends below it ...
LEMMA PathsLead ==
  ASSUME NEW g, NEW root \in DirectCopies, NEW finding, NEW p \in PathsFrom(g, root, finding)
  PROVE  /\ p[1] = root /\ p[Len(p)] \in Subtree(g, root) /\ IsFinding(finding, g, p[Len(p)])
         /\ p[Len(p)] = root \/ p[Len(p)] \in InstalledIn(g)
<1>1. p \in {<<root>>} \cup Pairs(g, root) \cup Triples(g, root) /\ IsFinding(finding, g, p[Len(p)])
  BY PathsAre
<1>2. CASE p = <<root>>
  <2>1. p[1] = root /\ p[Len(p)] = root
    BY <1>2
  <2> QED BY <1>1, <2>1, SubtreeIs
<1>3. CASE p \in Pairs(g, root)
  <2>1. PICK c \in Installs(g, root) : p = <<root, c>>
    BY <1>3 DEF Pairs
  <2>2. p[1] = root /\ p[Len(p)] = c
    BY <2>1
  <2> QED BY <1>1, <2>1, <2>2, InstallsAre DEF Subtree
<1>4. CASE p \in Triples(g, root)
  <2>1. PICK c \in Installs(g, root) : p \in Beyond(g, root, c)
    BY <1>4 DEF Triples
  <2>2. PICK d \in Installs(g, c) : p = <<root, c, d>>
    BY <2>1 DEF Beyond
  <2>3. p[1] = root /\ p[Len(p)] = d
    BY <2>2
  <2>4. d \in Subtree(g, root) /\ d \in InstalledIn(g)
    BY <2>1, <2>2, InstallsAre DEF Subtree
  <2> QED BY <1>1, <2>3, <2>4
<1> QED BY <1>1, <1>2, <1>3, <1>4

\* ... and one leads to every copy of the finding that is there.
LEMMA PathsExist ==
  ASSUME NEW g, NEW root \in DirectCopies, NEW finding, NEW c \in Subtree(g, root), IsFinding(finding, g, c)
  PROVE  PathsFrom(g, root, finding) # {}
<1>1. CASE c = root
  <2> DEFINE p == <<root>>
  <2>1. p[Len(p)] = c
    BY <1>1
  <2>2. p \in PathsFrom(g, root, finding)
    BY <2>1, PathsAre
  <2> QED BY <2>2
<1>2. CASE c \in Installs(g, root)
  <2> DEFINE p == <<root, c>>
  <2>1. p[Len(p)] = c /\ p \in Pairs(g, root)
    BY <1>2 DEF Pairs
  <2> HIDE DEF p
  <2>2. p \in PathsFrom(g, root, finding)
    BY <2>1, PathsAre
  <2> QED BY <2>2
<1>3. CASE \E d \in Installs(g, root) : c \in Installs(g, d)
  <2>1. PICK d \in Installs(g, root) : c \in Installs(g, d)
    BY <1>3
  <2> DEFINE p == <<root, d, c>>
  <2>2. p[Len(p)] = c /\ p \in Triples(g, root)
    BY <2>1 DEF Triples, Beyond
  <2> HIDE DEF p
  <2>3. p \in PathsFrom(g, root, finding)
    BY <2>2, PathsAre
  <2> QED BY <2>3
<1> QED BY <1>1, <1>2, <1>3 DEF Subtree

\* The roots are searched in order, and the last one unless there are enough chains.
LEMMA PathsUpToIs ==
  ASSUME NEW g, NEW finding
  PROVE  LET first == IF "other" \in Directs(g) THEN PathsFrom(g, "other", finding) ELSE {}
             second == IF "root" \in Directs(g) THEN PathsFrom(g, "root", finding) ELSE {}
         IN PathsUpTo(g, finding) = IF Cardinality(first) >= MaxPaths THEN first ELSE first \cup second
<1>1. RootOrder[1] = "other" /\ RootOrder[2] = "root"
  BY DEF RootOrder
<1> QED BY <1>1 DEF PathsUpTo

\* A chain that is found starts at a direct dependency, and all of that dependency's are found.
LEMMA PathsFound ==
  ASSUME NEW g, NEW finding, NEW p \in PathsUpTo(g, finding)
  PROVE  p[1] \in Directs(g) /\ p \in PathsFrom(g, p[1], finding) /\ PathsFrom(g, p[1], finding) \subseteq PathsUpTo(g, finding)
<1>1. PICK root \in {"other", "root"} :
        root \in Directs(g) /\ p \in PathsFrom(g, root, finding) /\ PathsFrom(g, root, finding) \subseteq PathsUpTo(g, finding)
  BY PathsUpToIs
<1>2. root \in DirectCopies
  BY DEF DirectCopies
<1>3. p[1] = root
  BY <1>1, <1>2, PathsLead
<1> QED BY <1>1, <1>3

\* The search finds a chain when there is one, and every direct dependency that has one unless it was cut.
LEMMA SearchFinds ==
  ASSUME NEW g, NEW finding, NEW root \in Directs(g), PathsFrom(g, root, finding) # {}
  PROVE  /\ PathsUpTo(g, finding) # {}
         /\ ~Truncated(g, finding) => root \in ContextRoots(g, finding)
<1> DEFINE first == IF "other" \in Directs(g) THEN PathsFrom(g, "other", finding) ELSE {}
           second == IF "root" \in Directs(g) THEN PathsFrom(g, "root", finding) ELSE {}
<1>1. PathsUpTo(g, finding) = IF Cardinality(first) >= MaxPaths THEN first ELSE first \cup second
  BY PathsUpToIs
<1>2. root \in {"root", "other"} /\ root \in DirectCopies
  BY DEF Directs, DirectCopies
<1>3. first # {} \/ second # {}
  BY <1>2
<1>4. Cardinality(first) >= MaxPaths => first # {}
  <2>1. Cardinality({}) = 0
    BY FS_EmptySet
  <2> QED BY <2>1, SecurityAssumption
<1>5. PathsUpTo(g, finding) # {}
  BY <1>1, <1>3, <1>4
<1>6. ASSUME ~Truncated(g, finding) PROVE root \in ContextRoots(g, finding)
  <2>1. ~(Cardinality(first) >= MaxPaths)
    BY <1>4, <1>6 DEF Truncated
  <2>2. PathsFrom(g, root, finding) \subseteq PathsUpTo(g, finding)
    BY <1>1, <1>2, <2>1
  <2>3. PICK p : p \in PathsFrom(g, root, finding)
    OBVIOUS
  <2>4. p[1] = root
    BY <1>2, <2>3, PathsLead
  <2> QED BY <2>2, <2>3, <2>4 DEF ContextRoots
<1> QED BY <1>5, <1>6

-----------------------------------------------------------------------------
(* Findings and their chains.                                              *)

\* A finding of some rows is an advisory and the version of a copy that it flags below one of them.
LEMMA FindingHas ==
  ASSUME NEW q, NEW roots, NEW f \in FindingsIn(q, roots)
  PROVE  \E c \in roots : \E e \in Entries(q.before, q.known, c) :
           /\ f = <<e[1], q.before.version[e[2]]>> /\ f[1] = e[1] /\ f[2] = q.before.version[e[2]]
           /\ IsFinding(f, q.before, e[2])
<1>1. PICK e \in UNION {Entries(q.before, q.known, c) : c \in roots} : f = <<e[1], q.before.version[e[2]]>>
  BY DEF FindingsIn
<1>2. PICK c \in roots : e \in Entries(q.before, q.known, c)
  BY <1>1
<1>3. f[1] = e[1] /\ f[2] = q.before.version[e[2]]
  BY <1>1
<1>4. e[1].package = PackageOf(e[2])
  BY <1>2, EntriesAre DEF Flags
<1>5. IsFinding(f, q.before, e[2])
  BY <1>3, <1>4 DEF IsFinding
<1> QED BY <1>1, <1>2, <1>3, <1>5

\* A chain that is found ends at an entry of the row it starts from.
LEMMA ChainsEndAtEntries ==
  ASSUME NEW q, NEW roots, NEW f \in FindingsIn(q, roots), NEW p \in PathsUpTo(q.before, f)
  PROVE  /\ p[1] \in Directs(q.before) /\ p[1] \in ManageRoots(q, f)
         /\ <<f[1], p[Len(p)]>> \in Entries(q.before, q.known, p[1])
         /\ p \in PathsFrom(q.before, p[1], f)
<1> DEFINE last == p[Len(p)]
<1> DEFINE IsFrom(e) == f = <<e[1], q.before.version[e[2]]>> /\ f[1] = e[1] /\ f[2] = q.before.version[e[2]]
<1>0. PICK c \in roots : \E e \in Entries(q.before, q.known, c) : IsFrom(e)
  BY FindingHas
<1>1. PICK e \in Entries(q.before, q.known, c) : IsFrom(e)
  BY <1>0
<1>2. p[1] \in Directs(q.before) /\ p \in PathsFrom(q.before, p[1], f)
  BY PathsFound
<1>3. p[1] \in DirectCopies /\ p[1] \in InstalledIn(q.before)
  BY <1>2 DEF Directs
<1>4. last \in Subtree(q.before, p[1]) \cap InstalledIn(q.before) /\ IsFinding(f, q.before, last)
  BY <1>2, <1>3, PathsLead
<1> HIDE DEF last
<1>5. e[1] \in q.known /\ Flags(e[1], q.before, e[2])
  BY <1>1, EntriesAre
<1>6. Flags(f[1], q.before, last)
  BY <1>1, <1>4, <1>5 DEF Flags, IsFinding
<1>7. <<f[1], last>> \in Entries(q.before, q.known, p[1])
  BY <1>1, <1>4, <1>5, <1>6, EntriesAre
<1>8. f \in FindingsIn(q, {p[1]})
  <2> DEFINE x == <<f[1], last>>
  <2>1. x[1] = f[1] /\ x[2] = last
    OBVIOUS
  <2>2. f = <<f[1], q.before.version[last]>>
    BY <1>1, <1>4 DEF IsFinding
  <2> HIDE DEF x
  <2>3. x \in Entries(q.before, q.known, p[1])
    BY <1>7 DEF x
  <2> QED BY <2>1, <2>2, <2>3 DEF FindingsIn
<1> QED BY <1>2, <1>7, <1>8 DEF ManageRoots, last

\* Every finding is explained, by the direct dependencies that carry it.
LEMMA AllAreExplained ==
  ASSUME NEW q, IsSecurityQuestion(q)
  PROVE  FindingsAreExplained(q)
<1> SUFFICES ASSUME NEW f \in FindingsIn(q, Upgraded(q))
             PROVE  /\ f \in Explained(q) /\ ContextRoots(q.before, f) \subseteq ManageRoots(q, f)
                    /\ ~Truncated(q.before, f) => ContextRoots(q.before, f) = ManageRoots(q, f)
  BY DEF FindingsAreExplained
<1>1. ASSUME NEW c \in Directs(q.before), NEW e \in Entries(q.before, q.known, c),
             IsFinding(f, q.before, e[2])
      PROVE  PathsFrom(q.before, c, f) # {}
  <2>1. e[2] \in Subtree(q.before, c) /\ c \in DirectCopies
    BY <1>1, EntriesAre DEF Directs
  <2> QED BY <1>1, <2>1, PathsExist
<1>2. f \in Explained(q)
  <2>1. PICK c \in Upgraded(q) : \E e \in Entries(q.before, q.known, c) : IsFinding(f, q.before, e[2])
    BY FindingHas
  <2>2. c \in Directs(q.before)
    BY DEF IsSecurityQuestion, Upgraded, Directs
  <2>3. PathsFrom(q.before, c, f) # {}
    BY <1>1, <2>1, <2>2
  <2>4. PathsUpTo(q.before, f) # {}
    BY <2>2, <2>3, SearchFinds
  <2> QED BY <2>4 DEF Explained
<1>3. ContextRoots(q.before, f) \subseteq ManageRoots(q, f)
  BY ChainsEndAtEntries DEF ContextRoots
<1>4. ASSUME ~Truncated(q.before, f), NEW c \in ManageRoots(q, f) PROVE c \in ContextRoots(q.before, f)
  <2>1. c \in Directs(q.before) /\ f \in FindingsIn(q, {c})
    BY DEF ManageRoots
  <2>2. PICK e \in Entries(q.before, q.known, c) : IsFinding(f, q.before, e[2])
    BY <2>1, FindingHas
  <2>3. PathsFrom(q.before, c, f) # {}
    BY <1>1, <2>1, <2>2
  <2> QED BY <1>4, <2>1, <2>3, SearchFinds
<1> QED BY <1>2, <1>3, <1>4

-----------------------------------------------------------------------------
\* What is proved to go is gone, and only by what the upgrade changes.
LEMMA AllProofsHold ==
  ASSUME NEW q, IsSecurityQuestion(q)
  PROVE  ProofsHold(q)
<1> SUFFICES ASSUME NEW f \in Explained(q), Proven(q, f) # {}
             PROVE  /\ \A c \in Proven(q, f) : c \in ManageRoots(q, f) /\ q.after.version[c] # q.before.version[c]
                    /\ \A c \in Reachable(q.after) : ~Flags(f[1], q.after, c)
                    /\ \A c \in Upgraded(q) : \A r \in Remaining(q, c) : r.advisory # f[1]
  BY DEF ProofsHold
<1> DEFINE changes == {c \in Upgraded(q) \cap ContextRoots(q.before, f) :
                         /\ c \in Directs(q.after) /\ q.after.version[c] = q.targets[c]
                         /\ q.before.version[c] # q.targets[c]}
<1>1. q.evidence /\ (\A c \in Directs(q.after) : Entries(q.after, {f[1]}, c) = {}) /\ Proven(q, f) = changes
  BY DEF Proven
<1>2. f \in FindingsIn(q, Upgraded(q))
  BY DEF Explained
<1>3. ContextRoots(q.before, f) \subseteq ManageRoots(q, f)
  BY <1>2, AllAreExplained DEF FindingsAreExplained
<1>4. \A c \in Proven(q, f) : c \in ManageRoots(q, f) /\ q.after.version[c] # q.before.version[c]
  BY <1>1, <1>3
<1>5. ASSUME NEW c \in Reachable(q.after), Flags(f[1], q.after, c) PROVE FALSE
  <2>1. PICK d \in Directs(q.after) : c \in Subtree(q.after, d) \cap InstalledIn(q.after)
    BY ReachedIsBelow
  <2>2. <<f[1], c>> \in Entries(q.after, {f[1]}, d)
    BY <1>5, <2>1, EntriesAre
  <2> QED BY <1>1, <2>1, <2>2
<1>6. ASSUME NEW c \in Upgraded(q), NEW r \in Remaining(q, c), r.advisory = f[1] PROVE FALSE
  <2>1. PICK e \in Entries(q.after, KnownFromRows(q), c) : r = Left(e[1], "remains", ChainTo(q.after, c, e[2]))
    BY <1>1 DEF Remaining
  <2>2. e[1] = f[1] /\ c \in Directs(q.after)
    BY <1>6, <2>1 DEF Left, IsSecurityQuestion, Upgraded, Directs
  <2>3. e[2] \in Subtree(q.after, c) \cap InstalledIn(q.after) /\ Flags(f[1], q.after, e[2])
    BY <2>2, EntriesAre
  <2>4. <<f[1], e[2]>> \in Entries(q.after, {f[1]}, c)
    BY <2>3, EntriesAre
  <2> QED BY <1>1, <2>2, <2>4
<1> QED BY <1>4, <1>5, <1>6

-----------------------------------------------------------------------------
\* A finding has copies in a graph exactly when something that is reached goes by one of its names.
LEMMA CopiesAreNamed ==
  ASSUME NEW R, NEW a \in R, NEW graph, NEW known, \A b \in R : IsAdvisory(b),
         \A o \in Occurrences(graph, known) : o[1] \in R
  PROVE  CopiesOf(SameFinding(a, R), Occurrences(graph, known)) # {} <=>
           \E o \in Occurrences(graph, known) : \E b \in SameFinding(a, R) :
             o[1].package = b.package /\ o[1].aliases \cap AliasesOf(SameFinding(a, R)) # {}
<1> DEFINE g == SameFinding(a, R)
           occurrences == Occurrences(graph, known)
<1>1. /\ a \in g /\ g \subseteq R /\ \A b \in g : b.package = a.package
      /\ \A c \in g, d \in R : ShareAName(c, d) => d \in g
  BY FindingIs
<1> HIDE DEF g
<1>2. CopiesOf(g, occurrences) # {} <=> \E o \in occurrences : o[1] \in g
  BY DEF CopiesOf
<1>3. ASSUME NEW o \in occurrences, o[1] \in g PROVE o[1].aliases \cap AliasesOf(g) # {}
  <2>1. o[1].aliases # {}
    BY <1>1, <1>3 DEF IsAdvisory
  <2>2. o[1].aliases \subseteq AliasesOf(g)
    BY <1>3 DEF AliasesOf
  <2> QED BY <2>1, <2>2
<1>4. ASSUME NEW o \in occurrences, NEW b \in g, o[1].package = b.package, o[1].aliases \cap AliasesOf(g) # {}
      PROVE  o[1] \in g
  <2>1. PICK d \in g : o[1].aliases \cap d.aliases # {}
    BY <1>4 DEF AliasesOf
  <2>2. ShareAName(d, o[1])
    BY <1>1, <1>4, <2>1 DEF ShareAName
  <2> QED BY <1>1, <2>1, <2>2
<1>5. CopiesOf(g, occurrences) # {} <=>
        \E o \in occurrences : \E b \in g : o[1].package = b.package /\ o[1].aliases \cap AliasesOf(g) # {}
  BY <1>2, <1>3, <1>4
<1> QED BY <1>5 DEF g

\* What is said of the two graphs is so.
LEMMA ImpactsAreTrue ==
  ASSUME NEW q, IsSecurityQuestion(q)
  PROVE  ImpactIsTrue(q)
<1> DEFINE R == {o[1] : o \in Before(q) \cup After(q)}
           names(graph, group) ==
             \E o \in Occurrences(graph, q.known) : \E a \in group : o[1].package = a.package /\ o[1].aliases \cap AliasesOf(group) # {}
<1>1. \A o \in Before(q) \cup After(q) : o[1] \in R /\ o[1] \in q.known
  BY OccurrenceIs DEF Before, After
<1>2. \A a \in R : IsAdvisory(a)
  BY <1>1 DEF IsSecurityQuestion
<1>3. \A a \in R : CopiesOf(SameFinding(a, R), Before(q)) # {} <=> names(q.before, SameFinding(a, R))
  <2> SUFFICES ASSUME NEW a \in R PROVE CopiesOf(SameFinding(a, R), Before(q)) # {} <=> names(q.before, SameFinding(a, R))
    OBVIOUS
  <2> HIDE DEF R
  <2>1. \A o \in Occurrences(q.before, q.known) : o[1] \in R
    BY <1>1 DEF Before
  <2> QED BY <1>2, <2>1, CopiesAreNamed DEF Before
<1>4. \A a \in R : CopiesOf(SameFinding(a, R), After(q)) # {} <=> names(q.after, SameFinding(a, R))
  <2> SUFFICES ASSUME NEW a \in R PROVE CopiesOf(SameFinding(a, R), After(q)) # {} <=> names(q.after, SameFinding(a, R))
    OBVIOUS
  <2> HIDE DEF R
  <2>1. \A o \in Occurrences(q.after, q.known) : o[1] \in R
    BY <1>1 DEF After
  <2> QED BY <1>2, <2>1, CopiesAreNamed DEF After
<1>5. \A g \in ImpactGroups(q) : \E a \in R : g = SameFinding(a, R)
  BY DEF ImpactGroups, FindingsOf
<1>6. \A a \in R : CopiesOf(SameFinding(a, R), Before(q)) # {} \/ CopiesOf(SameFinding(a, R), After(q)) # {}
  <2> SUFFICES ASSUME NEW a \in R
               PROVE  CopiesOf(SameFinding(a, R), Before(q)) # {} \/ CopiesOf(SameFinding(a, R), After(q)) # {}
    OBVIOUS
  <2>1. PICK o \in Before(q) \cup After(q) : o[1] = a
    OBVIOUS
  <2> HIDE DEF R
  <2>2. a \in SameFinding(a, R)
    BY FindingIs
  <2> QED BY <2>1, <2>2 DEF CopiesOf
<1> HIDE DEF R, names
<1>7. \A g \in ImpactGroups(q) :
        /\ CopiesOf(g, Before(q)) # {} <=> names(q.before, g)
        /\ CopiesOf(g, After(q)) # {} <=> names(q.after, g)
        /\ CopiesOf(g, Before(q)) # {} \/ CopiesOf(g, After(q)) # {}
  BY <1>3, <1>4, <1>5, <1>6
<1>8. /\ GraphImpact(q).fixed = {g \in ImpactGroups(q) : CopiesOf(g, After(q)) = {}}
      /\ GraphImpact(q).introduced = {g \in ImpactGroups(q) : CopiesOf(g, Before(q)) = {}}
      /\ GraphImpact(q).remaining = ImpactGroups(q) \ (GraphImpact(q).fixed \cup GraphImpact(q).introduced)
  BY DEF GraphImpact
<1>9. /\ \A g \in GraphImpact(q).fixed : names(q.before, g) /\ ~names(q.after, g)
      /\ \A g \in GraphImpact(q).introduced : ~names(q.before, g) /\ names(q.after, g)
      /\ \A g \in GraphImpact(q).remaining : names(q.before, g) /\ names(q.after, g)
  BY <1>7, <1>8
<1> QED BY <1>9 DEF ImpactIsTrue, names

-----------------------------------------------------------------------------
(* Links.                                                                  *)

\* The names along a chain of one, two or three copies.
NamesAlong(p) == [i \in 1..Len(p) |-> PackageOf(p[i])]

\* Of one copy ...
LEMMA NamesOfOne ==
  ASSUME NEW a
  PROVE  NamesAlong(<<a>>) = <<PackageOf(a)>>
BY DEF NamesAlong

\* ... of two ...
LEMMA NamesOfTwo ==
  ASSUME NEW a, NEW b
  PROVE  NamesAlong(<<a, b>>) = <<PackageOf(a), PackageOf(b)>>
BY DEF NamesAlong

\* ... and of three.
LEMMA NamesOfThree ==
  ASSUME NEW a, NEW b, NEW c
  PROVE  NamesAlong(<<a, b, c>>) = <<PackageOf(a), PackageOf(b), PackageOf(c)>>
BY DEF NamesAlong

\* The chain that attribution records is the shortest one.
LEMMA ShortestIsRecorded ==
  ASSUME NEW g, NEW root \in DirectCopies, NEW f, NEW p \in PathsFrom(g, root, f),
         \A y \in PathsFrom(g, root, f) : Len(p) <= Len(y)
  PROVE  NamesAlong(p) = ChainTo(g, root, p[Len(p)])
<1>1. p \in {<<root>>} \cup Pairs(g, root) \cup Triples(g, root) /\ IsFinding(f, g, p[Len(p)])
  BY PathsAre
<1>2. /\ PackageOf(root) = root /\ root \notin {"top", "nested", "deep"}
      /\ \A c : Installs(g, c) \subseteq {"top", "nested", "deep"}
  <2>1. root \in {"root", "other"}
    BY DEF DirectCopies
  <2>2. PackageOf("root") = "root" /\ PackageOf("other") = "other"
    BY DEF PackageOf
  <2> QED BY <2>1, <2>2, InstallsAre
<1>3. CASE p = <<root>>
  <2>1. p[Len(p)] = root
    BY <1>3
  <2> QED BY <1>2, <1>3, <2>1, NamesOfOne DEF ChainTo
<1>4. CASE p \in Pairs(g, root)
  <2>1. PICK c \in Installs(g, root) : p = <<root, c>>
    BY <1>4 DEF Pairs
  <2>2. p[Len(p)] = c /\ c # root
    BY <1>2, <2>1
  <2>3. NamesAlong(p) = <<root, PackageOf(c)>>
    BY <1>2, <2>1, NamesOfTwo
  <2> QED BY <2>1, <2>2, <2>3 DEF ChainTo
<1>5. CASE p \in Triples(g, root)
  <2>1. PICK c \in Installs(g, root) : p \in Beyond(g, root, c)
    BY <1>5 DEF Triples
  <2>2. PICK d \in Installs(g, c) : p = <<root, c, d>>
    BY <2>1 DEF Beyond
  <2>3. p[Len(p)] = d /\ Len(p) = 3 /\ d # root
    BY <1>2, <2>2
  <2>4. d \notin Installs(g, root)
    <3> SUFFICES ASSUME d \in Installs(g, root) PROVE FALSE
      OBVIOUS
    <3> DEFINE y == <<root, d>>
    <3>1. y \in Pairs(g, root) /\ y[Len(y)] = d /\ Len(y) = 2
      BY DEF Pairs
    <3> HIDE DEF y
    <3>2. y \in PathsFrom(g, root, f)
      <4>1. IsFinding(f, g, y[Len(y)])
        BY <1>1, <2>3, <3>1
      <4> QED BY <3>1, <4>1, IsAPath
    <3>3. Len(p) <= Len(y)
      BY <3>2
    <3> QED BY <2>3, <3>1, <3>3
  <2> DEFINE between == CHOOSE x \in Installs(g, root) : d \in Installs(g, x)
  <2>5. between \in Installs(g, root) /\ d \in Installs(g, between)
    BY <2>1, <2>2
  <2> HIDE DEF between
  <2>6. \A x \in Installs(g, root) : d \in Installs(g, x) => PackageOf(x) = "shared"
    <3>1. \A x \in {"top", "nested"} : PackageOf(x) = "shared"
      BY DEF PackageOf
    <3>2. Installs(g, "deep") = {}
      BY InstallsAre
    <3> QED BY <1>2, <3>1, <3>2
  <2>7. PackageOf(between) = PackageOf(c)
    BY <2>1, <2>2, <2>5, <2>6
  <2>8. NamesAlong(p) = <<root, PackageOf(c), PackageOf(d)>>
    BY <1>2, <2>2, NamesOfThree
  <2>9. ChainTo(g, root, d) = <<root, PackageOf(between), PackageOf(d)>>
    BY <2>3, <2>4 DEF ChainTo, between
  <2> QED BY <2>3, <2>7, <2>8, <2>9
<1> QED BY <1>1, <1>3, <1>4, <1>5

\* A chain of names starts at the direct dependency and ends at the package.
LEMMA ChainHas ==
  ASSUME NEW g, NEW root \in DirectCopies, NEW c
  PROVE  ChainTo(g, root, c)[1] = root /\ ChainTo(g, root, c)[Len(ChainTo(g, root, c))] = PackageOf(c)
<1>1. PackageOf(root) = root
  BY DEF DirectCopies, PackageOf
<1> DEFINE between == CHOOSE x \in Installs(g, root) : c \in Installs(g, x)
<1>2. \/ ChainTo(g, root, c) = <<root>> /\ c = root
      \/ ChainTo(g, root, c) = <<root, PackageOf(c)>>
      \/ ChainTo(g, root, c) = <<root, PackageOf(between), PackageOf(c)>>
  BY DEF ChainTo
<1> HIDE DEF between
<1>3. CASE ChainTo(g, root, c) = <<root>> /\ c = root
  BY <1>1, <1>3
<1>4. CASE ChainTo(g, root, c) = <<root, PackageOf(c)>>
  BY <1>4
<1>5. CASE ChainTo(g, root, c) = <<root, PackageOf(between), PackageOf(c)>>
  BY <1>5
<1> QED BY <1>2, <1>3, <1>4, <1>5

\* The links of a finding's shortest chains open.
LEMMA ContextLinksOpen ==
  ASSUME NEW q, NEW link \in ContextLinks(q)
  PROVE  Opens(q, link)
<1>1. PICK f \in Explained(q) :
        \E p \in PathsUpTo(q.before, f) :
          (\A y \in PathsUpTo(q.before, f) : Len(p) <= Len(y)) /\ link = AdvisoryLink(p[1], f[1], NamesAlong(p))
  BY DEF ContextLinks, NamesAlong
<1>2. PICK p \in PathsUpTo(q.before, f) :
        (\A y \in PathsUpTo(q.before, f) : Len(p) <= Len(y)) /\ link = AdvisoryLink(p[1], f[1], NamesAlong(p))
  BY <1>1
<1>3. f \in FindingsIn(q, Upgraded(q))
  BY DEF Explained
<1>4. /\ p[1] \in Directs(q.before) /\ p \in PathsFrom(q.before, p[1], f)
      /\ <<f[1], p[Len(p)]>> \in Entries(q.before, q.known, p[1])
  BY <1>3, ChainsEndAtEntries
<1>5. p[1] \in DirectCopies
  BY <1>4 DEF Directs
<1>6. \A y \in PathsFrom(q.before, p[1], f) : Len(p) <= Len(y)
  BY <1>2, PathsFound
<1>7. NamesAlong(p) = ChainTo(q.before, p[1], p[Len(p)])
  BY <1>4, <1>5, <1>6, ShortestIsRecorded
<1> DEFINE e == <<f[1], p[Len(p)]>>
<1>8. e[1] = f[1] /\ e[2] = p[Len(p)]
  OBVIOUS
<1>9. e \in Entries(q.before, q.known, p[1])
  BY <1>4
<1> HIDE DEF e
<1>10. link \in RowLinks(q, p[1])
  BY <1>2, <1>7, <1>8, <1>9 DEF RowLinks
<1> QED BY <1>4, <1>10 DEF Opens, DashboardLinks

\* What remains opens in the row under review along a chain that the row has.
LEMMA RemainingLinksOpen ==
  ASSUME NEW q, IsSecurityQuestion(q), NEW reviewed \in Upgraded(q), NEW link \in RemainingLinks(q, reviewed),
         NEW known \in RowLinks(q, reviewed), known.chain = link.chain
  PROVE  Opens(q, link)
<1>1. PICK c \in Upgraded(q) : \E r \in Remaining(q, c) : link = AdvisoryLink(reviewed, r.advisory, r.chain)
  BY DEF RemainingLinks
<1>2. PICK r \in Remaining(q, c) : link = AdvisoryLink(reviewed, r.advisory, r.chain)
  BY <1>1
<1>3. PICK k \in Entries(q.before, q.known, reviewed) : known = AdvisoryLink(reviewed, k[1], ChainTo(q.before, reviewed, k[2]))
  BY DEF RowLinks
<1>4. /\ reviewed \in Directs(q.before) /\ reviewed \in DirectCopies
      /\ c \in DirectCopies
  BY DEF IsSecurityQuestion, Upgraded, Directs
<1>5. r.chain = ChainTo(q.before, reviewed, k[2])
  BY <1>2, <1>3 DEF AdvisoryLink
<1>6. r.chain[1] = reviewed /\ r.chain[Len(r.chain)] = PackageOf(k[2])
  BY <1>4, <1>5, ChainHas
<1>7. SUFFICES link \in RowLinks(q, reviewed)
  BY <1>4 DEF Opens, DashboardLinks
<1>8. CASE q.evidence
  <2>1. PICK e \in Entries(q.after, KnownFromRows(q), c) :
          /\ \E y \in Entries(q.before, q.known, c) : y[1] = e[1]
          /\ r = Left(e[1], "remains", ChainTo(q.after, c, e[2]))
    BY <1>8 DEF Remaining
  <2>2. PICK y \in Entries(q.before, q.known, c) : y[1] = e[1]
    BY <2>1
  <2>3. r.advisory = e[1] /\ r.chain = ChainTo(q.after, c, e[2])
    BY <2>1 DEF Left
  <2>4. c = reviewed /\ PackageOf(e[2]) = PackageOf(k[2])
    BY <1>4, <1>6, <2>3, ChainHas
  <2>5. e[1].package = PackageOf(e[2]) /\ y[1].package = PackageOf(y[2])
    BY EntriesAre DEF Flags
  <2>6. y[2] \in Subtree(q.before, reviewed) /\ k[2] \in Subtree(q.before, reviewed)
    BY <2>4, EntriesAre
  <2>7. y[2] = k[2]
    BY <1>4, <2>2, <2>4, <2>5, <2>6, OneCopyBelow
  <2>8. link = AdvisoryLink(reviewed, y[1], ChainTo(q.before, reviewed, y[2]))
    BY <1>2, <1>5, <2>2, <2>3, <2>7
  <2> QED BY <2>4, <2>8 DEF RowLinks
<1>9. CASE ~q.evidence
  <2>1. \/ \E e \in Entries(q.before, q.known, c) : r = Left(e[1], "unknown", ChainTo(q.before, c, e[2]))
        \/ \E e \in Entries(q.before, q.known, c) : e[2] = c /\ r = Left(e[1], "remains", <<c>>)
    BY <1>9 DEF Remaining
  <2>2. ChainTo(q.before, c, c) = <<c>>
    BY DEF ChainTo
  <2>3. PICK e \in Entries(q.before, q.known, c) : r.advisory = e[1] /\ r.chain = ChainTo(q.before, c, e[2])
    BY <2>1, <2>2 DEF Left
  <2>4. c = reviewed
    BY <1>4, <1>6, <2>3, ChainHas
  <2>5. link = AdvisoryLink(reviewed, e[1], ChainTo(q.before, reviewed, e[2]))
    BY <1>2, <2>3, <2>4
  <2> QED BY <2>4, <2>5 DEF RowLinks
<1> QED BY <1>8, <1>9

\* Every link opens where the webview shows it.
LEMMA AllLinksOpen ==
  ASSUME NEW q, IsSecurityQuestion(q)
  PROVE  LinksOpen(q)
<1>1. \A link \in ContextLinks(q) : Opens(q, link)
  BY ContextLinksOpen
<1>2. ASSUME NEW reviewed \in Upgraded(q), NEW link \in RemainingLinks(q, reviewed)
      PROVE  Opens(q, link) \/ \A known \in RowLinks(q, reviewed) : known.chain # link.chain
  BY RemainingLinksOpen
<1> QED BY <1>1, <1>2 DEF LinksOpen

-----------------------------------------------------------------------------
\* Whatever is asked about, what is said of its vulnerabilities is true ...
LEMMA SecurityIsAlwaysTrue ==
  ASSUME asked \in SecurityQuestions
  PROVE  SecurityIsTrue
<1>1. IsSecurityQuestion(asked)
  BY SecurityAssumption
<1> QED BY <1>1, OutcomesAreTrue, AllProofsHold, AllAreExplained, ImpactsAreTrue, AllLinksOpen DEF SecurityIsTrue

\* ... in every behaviour.
THEOREM SecurityIsAlwaysHonest ==
  UpgradeSpec => []SecurityIsHonest
<1> DEFINE Asked == running = "security" => asked \in SecurityQuestions
<1>1. UpgradeInit => Asked
  BY DEF UpgradeInit, SecurityInit
<1>2. Asked /\ [UpgradeNext]_upgradeVars => Asked'
  BY DEF UpgradeNext, Transacts, Searches, Answered, upgradeVars, decisionVars
<1>3. Asked => SecurityIsHonest
  BY SecurityIsAlwaysTrue DEF SecurityIsHonest
<1> HIDE DEF Asked
<1> QED BY <1>1, <1>2, <1>3, PTL DEF UpgradeSpec
=============================================================================
