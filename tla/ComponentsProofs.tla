-------------------------- MODULE ComponentsProofs --------------------------
(***************************************************************************)
(* Safety of the components of MCComponents whose proofs are short, and of *)
(* the components together.  What talks to the registry: a pool of work    *)
(* (core/registry/pool.ts, core/async/sequentialBatch.ts) for any number   *)
(* of items and workers, a request (core/registry/http.ts) for any number  *)
(* of redirects and chunks, and a scan (core/pipeline.ts) of any           *)
(* dependencies.  What runs package managers: the child process of an      *)
(* analysis (host/packageManagerProcessRunner.ts) and the tasks of an      *)
(* upgrade session (host/upgradeRunner.ts, host/upgradeTracker.ts), for    *)
(* any number of calls and tasks.  What is kept on disk and between        *)
(* sessions: a file that is replaced (host/nodeUpgradeTransactionFiles.ts) *)
(* for any contents and permissions and any number of edits by others, the *)
(* write-back cache (core/cache/writeBackCache.ts) for any keys, limits    *)
(* and delays, and the freshness of a snapshot (core/cache/freshness.ts)   *)
(* for any time to live, skew and setting of the clock.                    *)
(***************************************************************************)
EXTENDS MCComponents, FixReviewProofs, FunctionTheorems, FiniteSetTheorems, SequenceTheorems, TLAPS

-----------------------------------------------------------------------------
(* Bulk removal: what is removed was reviewed, and the host takes it.  An  *)
(* answer counts as long as no dashboard message is on its way, and every  *)
(* request is answered once.                                               *)

(* Types *)

RowsIn(packages) == {packages[i] : i \in DOMAIN packages}
Judgements == UNION {[S -> Verdicts] : S \in SUBSET ReviewRows}
BulkImpacts ==
  [phase : {"idle", "analyzing", "done", "error"}, request : Nat, packages : Seq(ReviewRows), verdicts : Judgements]
BulkViews ==
  [open : BOOLEAN, step : {"select", "review"}, matched : SUBSET ReviewRows, deselected : SUBSET ReviewRows,
   ruled : Nat, chosen : SUBSET ReviewRows, impact : BulkImpacts, active : [request : Nat, packages : Seq(ReviewRows)],
   manage : ReviewRows \cup {NoRow}, pending : ReviewRows \cup {NoRow}, fresh : BOOLEAN, asks : Nat]
BulkHosts ==
  [rows : SUBSET ReviewRows, declared : SUBSET ReviewRows, eligible : BOOLEAN,
   engine : [request : Nat, packages : Seq(ReviewRows), cancelled : BOOLEAN], rescans : Nat]
BulkMessages ==
  [kind : {"result", "error", "stale", "ready"}, request : Nat, packages : Seq(ReviewRows), verdicts : Judgements]

BulkTypeOK == reviewView \in BulkViews /\ scannedRows \in BulkHosts /\ toReview \in Seq(BulkMessages)

-----------------------------------------------------------------------------
(* The inductive invariant *)

\* What a view knows of an impact is whole, and what needs a review was chosen unless it is left out.
ViewOK(b) ==
  /\ b.impact.phase = "done" => /\ b.impact.request # 0
                                /\ b.impact.verdicts \in [RowsIn(b.impact.packages) -> Verdicts]
  /\ b.active.request <= b.asks /\ b.ruled <= b.asks /\ b.impact.request <= b.asks
  /\ b.impact.phase = "analyzing" => b.active.request # 0 /\ b.ruled # b.active.request
  /\ b.open /\ b.impact.phase = "done" /\ b.ruled = b.impact.request =>
       NonLowRisk(b, ReviewRows) \subseteq b.deselected \cup b.chosen

\* A result was ruled on as soon as it was there.
Rendered(b) == b.open /\ b.impact.phase = "done" => b.ruled = b.impact.request

IsAnswer(m) == m.kind \in {"result", "error"}
\* A request that is answered, or will be by what is running, was made, and is answered once; the view
\* waits for the answer of the last.
AnswersComeOnce(b, h, q) ==
  /\ h.engine.request <= b.asks
  /\ h.engine.request # 0 /\ h.engine.request = b.active.request => b.impact.phase = "analyzing"
  /\ \A i \in 1 .. Len(q) :
       IsAnswer(q[i]) => /\ q[i].request # 0 /\ q[i].request <= b.asks /\ q[i].request # h.engine.request
                         /\ q[i].request = b.active.request => b.impact.phase = "analyzing"
                         /\ q[i].kind = "result" => q[i].verdicts \in [RowsIn(q[i].packages) -> Verdicts]
  /\ \A i, j \in 1 .. Len(q) : i < j /\ IsAnswer(q[i]) /\ IsAnswer(q[j]) => q[i].request # q[j].request

\* Unless a dashboard message is on its way, what was or will be answered is about the project's rows.
AnswersAreKnown(b, h, q) ==
  (\A i \in 1 .. Len(q) : IsAnswer(q[i])) =>
    /\ b.impact.phase = "done" => RowsIn(b.impact.packages) \subseteq h.rows
    /\ h.engine.request # 0 /\ ~h.engine.cancelled /\ h.engine.request = b.active.request =>
         RowsIn(h.engine.packages) \subseteq h.rows
    /\ \A i \in 1 .. Len(q) :
         q[i].kind = "result" /\ q[i].request = b.active.request => RowsIn(q[i].packages) \subseteq h.rows

BulkIInv ==
  /\ BulkTypeOK
  /\ ViewOK(reviewView) /\ Rendered(reviewView)
  /\ scannedRows.eligible => scannedRows.rows = scannedRows.declared
  /\ AnswersComeOnce(reviewView, scannedRows, toReview)
  /\ AnswersAreKnown(reviewView, scannedRows, toReview)
  /\ ReviewedRemovals

-----------------------------------------------------------------------------
(* Rows in order *)

Rank(S, r) == Cardinality({s \in S : s < r})

\* The rank of a row is the number of smaller ones: different rows have different ranks.
LEMMA RanksAreBounded ==
  ASSUME NEW S, IsFiniteSet(S), S \subseteq Nat, NEW x \in S
  PROVE  /\ IsFiniteSet({s \in S : s < x}) /\ Cardinality(S) \in Nat
         /\ Rank(S, x) \in Nat /\ Rank(S, x) < Cardinality(S)
<1>1. {s \in S : s < x} \in SUBSET S /\ x \notin {s \in S : s < x}
  OBVIOUS
<1>2. IsFiniteSet({s \in S : s < x})
  BY <1>1, FS_Subset
<1>3. Rank(S, x) \in Nat
  BY <1>2, FS_CardinalityType DEF Rank
<1>4. /\ Rank(S, x) <= Cardinality(S)
      /\ Cardinality(S) = Rank(S, x) => S = {s \in S : s < x}
  BY <1>1, FS_Subset DEF Rank
<1>5. Cardinality(S) # Rank(S, x)
  BY <1>1, <1>4
<1>6. Cardinality(S) \in Nat
  BY FS_CardinalityType
<1>7. Rank(S, x) <= Cardinality(S)
  BY <1>4
<1>8. Rank(S, x) < Cardinality(S)
  BY <1>3, <1>5, <1>6, <1>7
<1> QED BY <1>2, <1>3, <1>6, <1>8

LEMMA RanksDiffer ==
  ASSUME NEW S, IsFiniteSet(S), S \subseteq Nat, NEW x \in S, NEW y \in S, x < y
  PROVE  Rank(S, x) < Rank(S, y)
<1> DEFINE X == {s \in S : s < x}  Y == {s \in S : s < y}
<1>1. x \in Nat /\ y \in Nat /\ S \subseteq Nat
  OBVIOUS
<1>2. X \in SUBSET Y
  <2> SUFFICES ASSUME NEW s \in S, s < x PROVE s < y
    OBVIOUS
  <2>1. s \in Nat
    BY <1>1
  <2> QED BY <1>1, <2>1
<1>3. x \in Y /\ x \notin X
  BY <1>1
<1>4. Cardinality(X) <= Cardinality(Y) /\ (Cardinality(Y) = Cardinality(X) => Y = X)
  BY <1>2, RanksAreBounded, FS_Subset
<1> HIDE DEF X, Y
<1>5. Cardinality(X) <= Cardinality(Y) /\ Cardinality(Y) # Cardinality(X)
  BY <1>3, <1>4
<1>6. Rank(S, x) = Cardinality(X) /\ Rank(S, y) = Cardinality(Y)
  BY DEF Rank, X, Y
<1>7. Rank(S, x) \in Nat /\ Rank(S, y) \in Nat
  BY RanksAreBounded
<1> QED BY <1>5, <1>6, <1>7

\* The rows of a batch are no more than the limit.
LEMMA BatchIsBounded ==
  ASSUME NEW S \in SUBSET ReviewRows
  PROVE  IsFiniteSet(ReviewBatch(S)) /\ Cardinality(ReviewBatch(S)) <= BatchLimit /\ ReviewBatch(S) \subseteq S
<1>1. IsFiniteSet(S) /\ S \subseteq Nat /\ BatchLimit \in Nat /\ BatchLimit > 0
  BY BulkAssumption, FS_Subset
<1> DEFINE f == [r \in ReviewBatch(S) |-> Rank(S, r)]
<1>2. \A r \in ReviewBatch(S) : r \in S /\ f[r] = Rank(S, r) /\ Rank(S, r) < BatchLimit
  BY DEF ReviewBatch, Rank
<1>3. \A r \in ReviewBatch(S) : f[r] \in 0 .. (BatchLimit - 1)
  <2> SUFFICES ASSUME NEW r \in ReviewBatch(S) PROVE f[r] \in 0 .. (BatchLimit - 1)
    OBVIOUS
  <2>1. r \in S /\ f[r] = Rank(S, r) /\ Rank(S, r) < BatchLimit
    BY <1>2
  <2>2. Rank(S, r) \in Nat
    BY <1>1, <2>1, RanksAreBounded
  <2> HIDE DEF f
  <2> QED BY <1>1, <2>1, <2>2
<1>4. \A q, r \in ReviewBatch(S) : f[q] = f[r] => q = r
  <2> SUFFICES ASSUME NEW q \in ReviewBatch(S), NEW r \in ReviewBatch(S), f[q] = f[r]
               PROVE  q = r
    OBVIOUS
  <2>1. q \in Nat /\ r \in Nat /\ Rank(S, q) \in Nat /\ Rank(S, q) = Rank(S, r)
    BY <1>1, <1>2, RanksAreBounded
  <2>2. (q < r => Rank(S, q) < Rank(S, r)) /\ (r < q => Rank(S, r) < Rank(S, q))
    BY <1>1, <1>2, RanksDiffer
  <2> QED BY <2>1, <2>2
<1>5. f \in Injection(ReviewBatch(S), 0 .. (BatchLimit - 1))
  BY <1>3, <1>4, Fun_IsInj
<1>6. IsFiniteSet(0 .. (BatchLimit - 1)) /\ Cardinality(0 .. (BatchLimit - 1)) = BatchLimit
  BY <1>1, FS_Interval
<1>7. IsFiniteSet(ReviewBatch(S)) /\ Cardinality(ReviewBatch(S)) <= BatchLimit
  BY <1>5, <1>6, FS_Injection
<1> QED BY <1>2, <1>7

\* Rows are put in order: the sequence holds each of them, and as many as there are.
LEMMA SortedHasAll ==
  ASSUME NEW S, IsFiniteSet(S), S \subseteq Nat
  PROVE  /\ Sorted(S) \in Seq(S) /\ Len(Sorted(S)) = Cardinality(S)
         /\ DOMAIN Sorted(S) = 1 .. Len(Sorted(S)) /\ RowsIn(Sorted(S)) = S
<1> DEFINE n == Cardinality(S)
           InOrder(s) == \A i, j \in 1 .. n : i < j => s[i] < s[j]
           rank == [r \in S |-> Rank(S, r) + 1]
<1>1. n \in Nat
  BY FS_CardinalityType
<1>2. rank \in [S -> 1 .. n]
  <2> SUFFICES ASSUME NEW r \in S PROVE Rank(S, r) + 1 \in 1 .. n
    OBVIOUS
  <2>1. Rank(S, r) \in Nat /\ Rank(S, r) < n
    BY RanksAreBounded
  <2> QED BY <1>1, <2>1
<1>3. \A q, r \in S : q < r => rank[q] < rank[r]
  <2> SUFFICES ASSUME NEW q \in S, NEW r \in S, q < r PROVE Rank(S, q) + 1 < Rank(S, r) + 1
    OBVIOUS
  <2>1. Rank(S, q) \in Nat /\ Rank(S, r) \in Nat /\ Rank(S, q) < Rank(S, r)
    BY RanksAreBounded, RanksDiffer
  <2> QED BY <2>1
<1>4. \A q, r \in S : rank[q] = rank[r] => q = r
  <2> SUFFICES ASSUME NEW q \in S, NEW r \in S, rank[q] = rank[r]
               PROVE  q = r
    OBVIOUS
  <2>1. q \in Nat /\ r \in Nat /\ rank[q] \in Nat
    BY <1>2
  <2>2. (q < r => rank[q] < rank[r]) /\ (r < q => rank[r] < rank[q])
    BY <1>3
  <2> QED BY <2>1, <2>2
<1> HIDE DEF rank
<1>5. rank \in Injection(S, 1 .. n)
  BY <1>2, <1>4, Fun_IsInj
<1>6. IsFiniteSet(1 .. n) /\ Cardinality(1 .. n) = n
  BY <1>1, FS_Interval
<1>7. rank \in Surjection(S, 1 .. n)
  BY <1>5, <1>6, FS_Injection
<1>8. \A i \in 1 .. n : \E r \in S : rank[r] = i
  BY <1>7, Fun_SurjectionProperties
<1> DEFINE s == [i \in 1 .. n |-> CHOOSE r \in S : rank[r] = i]
<1>9. \A i \in 1 .. n : s[i] \in S /\ rank[s[i]] = i
  BY <1>8
<1>10. s \in [1 .. n -> S]
  BY <1>9
<1> HIDE DEF s
<1>11. InOrder(s)
  <2> SUFFICES ASSUME NEW i \in 1 .. n, NEW j \in 1 .. n, i < j
               PROVE  s[i] < s[j]
    OBVIOUS
  <2>1. s[i] \in S /\ s[j] \in S /\ rank[s[i]] = i /\ rank[s[j]] = j /\ s[i] \in Nat /\ s[j] \in Nat
    BY <1>9
  <2>2. s[j] < s[i] => j < i
    BY <1>3, <2>1
  <2>3. s[i] # s[j]
    BY <2>1
  <2> QED BY <1>1, <2>1, <2>2, <2>3
<1> DEFINE t == Sorted(S)
<1>12. t \in [1 .. n -> S] /\ InOrder(t)
  BY <1>10, <1>11 DEF Sorted
<1> HIDE DEF t
<1>13. t \in Seq(S) /\ Len(t) = n /\ DOMAIN t = 1 .. n
  BY <1>1, <1>12
<1>14. \A i, j \in 1 .. n : t[i] = t[j] => i = j
  <2> SUFFICES ASSUME NEW i \in 1 .. n, NEW j \in 1 .. n, t[i] = t[j]
               PROVE  i = j
    OBVIOUS
  <2>1. (i < j => t[i] < t[j]) /\ (j < i => t[j] < t[i]) /\ t[i] \in Nat
    BY <1>12
  <2> QED BY <1>1, <2>1
<1>15. t \in Injection(1 .. n, S)
  BY <1>12, <1>14, Fun_IsInj
<1>16. t \in Surjection(1 .. n, S)
  BY <1>6, <1>15, FS_Injection
<1>17. RowsIn(t) = S
  <2>1. \A r \in S : \E i \in 1 .. n : t[i] = r
    BY <1>16 DEF Surjection
  <2>2. RowsIn(t) \subseteq S
    BY <1>12, <1>13 DEF RowsIn
  <2>3. S \subseteq RowsIn(t)
    BY <1>13, <2>1 DEF RowsIn
  <2> QED BY <2>2, <2>3
<1> QED BY <1>13, <1>17 DEF t

-----------------------------------------------------------------------------
(* What is submitted *)

\* What is judged of the rows of some set, of nothing at least.
LEMMA JudgementsMade ==
  /\ NothingJudged \in Judgements
  /\ \A S \in SUBSET ReviewRows : [S -> Verdicts] \subseteq Judgements
<1>1. NothingJudged \in [{} -> Verdicts]
  BY DEF NothingJudged
<1> QED BY <1>1 DEF Judgements

\* The rows of a sequence of rows.
LEMMA RowsAreRows ==
  ASSUME NEW S, NEW packages \in Seq(S)
  PROVE  DOMAIN packages = 1 .. Len(packages) /\ Len(packages) \in Nat /\ RowsIn(packages) \subseteq S
BY DEF RowsIn

LEMMA SelectionIsBounded ==
  ASSUME NEW b \in BulkViews
  PROVE  /\ Selection(b) \subseteq ReviewRows /\ Cardinality(Selection(b)) <= BatchLimit
         /\ Cardinality(Selection(b)) \in Nat /\ (Cardinality(Selection(b)) = 0 => Selection(b) = {})
         /\ Sorted(Selection(b)) \in Seq(ReviewRows) /\ RowsIn(Sorted(Selection(b))) = Selection(b)
         /\ Len(Sorted(Selection(b))) = Cardinality(Selection(b))
<1> DEFINE S == Selection(b)
<1>1. b.matched \in SUBSET ReviewRows
  BY DEF BulkViews
<1>2. /\ IsFiniteSet(ReviewBatch(b.matched)) /\ Cardinality(ReviewBatch(b.matched)) <= BatchLimit
      /\ ReviewBatch(b.matched) \subseteq ReviewRows
  BY <1>1, BatchIsBounded
<1>3. S \in SUBSET ReviewBatch(b.matched) /\ S \subseteq ReviewRows
  BY <1>2 DEF Selection
<1> HIDE DEF S
<1>4. IsFiniteSet(S) /\ Cardinality(S) <= Cardinality(ReviewBatch(b.matched))
  BY <1>2, <1>3, FS_Subset
<1>5. Cardinality(S) \in Nat /\ Cardinality(ReviewBatch(b.matched)) \in Nat /\ BatchLimit \in Nat
  BY <1>2, <1>4, FS_CardinalityType, BulkAssumption
<1>6. Cardinality(S) <= BatchLimit
  BY <1>2, <1>4, <1>5
<1>7. S \subseteq Nat
  BY <1>3, BulkAssumption
<1>8. Sorted(S) \in Seq(S) /\ Len(Sorted(S)) = Cardinality(S) /\ RowsIn(Sorted(S)) = S
  BY <1>4, <1>7, SortedHasAll
<1>9. Sorted(S) \in Seq(ReviewRows)
  BY <1>3, <1>8, SeqMonotonic
<1>10. Cardinality(S) = 0 => S = {}
  BY <1>4, FS_EmptySet
<1> QED BY <1>3, <1>5, <1>6, <1>8, <1>9, <1>10 DEF S

\* What the host says to a submission of rows that differ and are no more than the limit.
LEMMA HostValidates ==
  ASSUME NEW h, NEW packages \in Seq(ReviewRows), Len(packages) # 0, Len(packages) <= BatchLimit,
         Cardinality(RowsIn(packages)) = Len(packages)
  PROVE  /\ ValidateBulkRemove(h, packages) \notin {"empty-batch", "too-many-changes", "duplicate-package"}
         /\ h.eligible /\ RowsIn(packages) \subseteq h.rows /\ h.rows = h.declared =>
              ValidateBulkRemove(h, packages) = IF RowsIn(packages) \cap UnsafeRows = {} THEN "ok" ELSE "unsafe-identifier"
<1> DEFINE names == RowsIn(packages)
<1>1. ValidateBulkRemove(h, packages) =
        IF ~h.eligible THEN "revalidating"
        ELSE IF packages = <<>> THEN "empty-batch"
        ELSE IF Len(packages) > BatchLimit THEN "too-many-changes"
        ELSE IF Cardinality(names) < Len(packages) THEN "duplicate-package"
        ELSE IF ~(names \subseteq h.rows) THEN "unknown-package"
        ELSE IF ~(names \subseteq h.declared) THEN "not-declared"
        ELSE IF names \cap UnsafeRows # {} THEN "unsafe-identifier"
        ELSE "ok"
  BY DEF ValidateBulkRemove, RowsIn
<1>2. packages # <<>> /\ ~(Len(packages) > BatchLimit) /\ ~(Cardinality(names) < Len(packages))
  <2>1. Len(packages) \in Nat /\ BatchLimit \in Nat
    BY BulkAssumption
  <2> QED BY <2>1
<1> HIDE DEF names
<1>3. ValidateBulkRemove(h, packages) =
        IF ~h.eligible THEN "revalidating"
        ELSE IF ~(names \subseteq h.rows) THEN "unknown-package"
        ELSE IF ~(names \subseteq h.declared) THEN "not-declared"
        ELSE IF names \cap UnsafeRows # {} THEN "unsafe-identifier"
        ELSE "ok"
  BY <1>1, <1>2
<1>4. ValidateBulkRemove(h, packages) \notin {"empty-batch", "too-many-changes", "duplicate-package"}
  BY <1>3
<1>5. ASSUME h.eligible, names \subseteq h.rows, h.rows = h.declared
      PROVE  ValidateBulkRemove(h, packages) = IF names \cap UnsafeRows = {} THEN "ok" ELSE "unsafe-identifier"
  BY <1>3, <1>5
<1> QED BY <1>4, <1>5 DEF names

\* If nothing is on its way, what a view was told is about the project's rows.
KnownNow(b, unheard) ==
  scannedRows.eligible /\ unheard = <<>> /\ b.impact.phase = "done" =>
    RowsIn(b.impact.packages) \subseteq scannedRows.rows /\ scannedRows.rows = scannedRows.declared

\* A submission of what was analyzed as it is keeps the promises.
LEMMA SubmissionIsGood ==
  ASSUME NEW b \in BulkViews, ViewOK(b), NEW by, NEW packages \in Seq(ReviewRows), NEW unheard,
         b.impact.phase = "done", packages = b.impact.packages, KnownNow(b, unheard),
         Len(packages) # 0, Len(packages) <= BatchLimit, Cardinality(RowsIn(packages)) = Len(packages),
         by = "review" => \A r \in RowsIn(packages) :
                            /\ b.impact.verdicts[r] \in {"low-risk", "review"}
                            /\ b.impact.verdicts[r] = "review" => r \in b.chosen,
         bulkSent' = Submission(b, by, packages, unheard)
  PROVE  ReviewedRemovals'
<1>1. /\ bulkSent'.by = by /\ bulkSent'.packages = packages /\ bulkSent'.verdicts = b.impact.verdicts
      /\ bulkSent'.analysed = b.impact.packages /\ bulkSent'.chosen = b.chosen
      /\ bulkSent'.current = (scannedRows.eligible /\ unheard = <<>>)
      /\ bulkSent'.answer = ValidateBulkRemove(scannedRows, packages)
  BY DEF Submission
<1>2. RowsIn(packages) # {}
  <2>1. 1 \in DOMAIN packages
    BY RowsAreRows
  <2> QED BY <2>1 DEF RowsIn
<1>3. DOMAIN b.impact.verdicts = RowsIn(packages)
  BY DEF ViewOK
<1>4. {bulkSent'.packages[i] : i \in DOMAIN bulkSent'.packages} = RowsIn(packages)
  BY <1>1 DEF RowsIn
<1> DEFINE names == RowsIn(packages)
<1> HIDE DEF names
<1>5. SubmittedIsReviewed'
  <2>1. by = "review" => \A r \in names : /\ b.impact.verdicts[r] \in {"low-risk", "review"}
                                          /\ b.impact.verdicts[r] = "review" => r \in b.chosen
    BY DEF names
  <2>2. names # {} /\ packages = b.impact.packages /\ DOMAIN b.impact.verdicts = names
    BY <1>2, <1>3 DEF names
  <2>3. {bulkSent'.packages[i] : i \in DOMAIN bulkSent'.packages} = names
    BY <1>4 DEF names
  <2> QED BY <1>1, <2>1, <2>2, <2>3 DEF SubmittedIsReviewed
<1>6. SubmittedIsAccepted'
  <2> DEFINE ruling == ValidateBulkRemove(scannedRows, packages)
  <2>1. ruling \notin {"empty-batch", "too-many-changes", "duplicate-package"}
    BY HostValidates
  <2>2. ASSUME scannedRows.eligible, unheard = <<>>
        PROVE  ruling = IF names \cap UnsafeRows = {} THEN "ok" ELSE "unsafe-identifier"
    <3>1. names \subseteq scannedRows.rows /\ scannedRows.rows = scannedRows.declared
      BY <2>2 DEF KnownNow, names
    <3> QED BY <2>2, <3>1, HostValidates DEF names
  <2> HIDE DEF ruling
  <2>3. bulkSent'.answer = ruling /\ (bulkSent'.current => scannedRows.eligible /\ unheard = <<>>)
    BY <1>1 DEF ruling
  <2>4. {bulkSent'.packages[i] : i \in DOMAIN bulkSent'.packages} = names
    BY <1>4 DEF names
  <2> QED BY <2>1, <2>2, <2>3, <2>4 DEF SubmittedIsAccepted
<1> QED BY <1>5, <1>6 DEF ReviewedRemovals

\* The bulk review submits what covers it.
LEMMA ReviewIsSubmitted ==
  ASSUME NEW b \in BulkViews, ViewOK(b), Rendered(b), b.open, CoversReview(b), NEW unheard, KnownNow(b, unheard),
         bulkSent' = Submission(b, "review", Sorted(Selection(b)), unheard)
  PROVE  ReviewedRemovals'
<1> DEFINE packages == Sorted(Selection(b))
<1>1. b.impact.phase = "done" /\ Selection(b) # {} /\ packages = b.impact.packages
  BY DEF CoversReview
<1>2. /\ packages \in Seq(ReviewRows) /\ RowsIn(packages) = Selection(b) /\ Len(packages) = Cardinality(Selection(b))
      /\ Selection(b) \subseteq ReviewRows /\ Len(packages) # 0 /\ Len(packages) <= BatchLimit
  BY <1>1, SelectionIsBounded
<1> HIDE DEF packages
<1>3. ASSUME NEW r \in RowsIn(packages)
      PROVE  /\ b.impact.verdicts[r] \in {"low-risk", "review"}
             /\ b.impact.verdicts[r] = "review" => r \in b.chosen
  <2>1. b.impact.verdicts \in [RowsIn(packages) -> Verdicts]
    BY <1>1 DEF ViewOK
  <2>2. StatusOf(b, r) = b.impact.verdicts[r] /\ b.impact.verdicts[r] \in Verdicts
    BY <1>1, <2>1, <1>3 DEF StatusOf
  <2>3. r \in Selection(b) /\ r \in ReviewRows
    BY <1>2, <1>3
  <2>4. CanSelectOne(StatusOf(b, r)) /\ r \notin b.deselected
    BY <2>3 DEF Selection
  <2>5. NonLowRisk(b, ReviewRows) \subseteq b.deselected \cup b.chosen
    BY <1>1 DEF ViewOK, Rendered
  <2>6. StatusOf(b, r) \notin {"unanalyzed", "low-risk"} => r \in b.chosen
    BY <2>3, <2>4, <2>5 DEF NonLowRisk
  <2> QED BY <2>2, <2>4, <2>6 DEF CanSelectOne, Verdicts
<1>4. bulkSent' = Submission(b, "review", packages, unheard)
  BY DEF packages
<1>5. Cardinality(RowsIn(packages)) = Len(packages)
  BY <1>2
<1> QED BY <1>1, <1>2, <1>3, <1>4, <1>5, SubmissionIsGood

\* A Manage workspace submits what it waited for.
LEMMA WorkspaceSubmits ==
  ASSUME NEW b \in BulkViews, ViewOK(b), RemovalReady(b), NEW unheard, KnownNow(b, unheard),
         bulkSent' = Submission(b, "manage", <<b.pending>>, unheard)
  PROVE  ReviewedRemovals'
<1> DEFINE packages == <<b.pending>>
<1>1. b.pending \in ReviewRows /\ b.impact.phase = "done" /\ packages = b.impact.packages
  BY DEF RemovalReady, BulkViews
<1>2. packages \in Seq(ReviewRows) /\ Len(packages) = 1 /\ RowsIn(packages) = {b.pending}
  BY <1>1 DEF RowsIn
<1>3. Cardinality(RowsIn(packages)) = Len(packages)
  BY <1>2, FS_Singleton
<1>4. Len(packages) # 0 /\ Len(packages) <= BatchLimit
  BY <1>2, BulkAssumption
<1>5. bulkSent' = Submission(b, "manage", packages, unheard)
  OBVIOUS
<1> HIDE DEF packages
<1> QED BY <1>1, <1>2, <1>3, <1>4, <1>5, SubmissionIsGood

\* A result is ruled on once, and what is not low-risk is left out or was not in the review.
LEMMA RenderRules ==
  ASSUME NEW b \in BulkViews, ViewOK(b), NEW c, c = AfterRender(b)
  PROVE  /\ c \in BulkViews /\ ViewOK(c) /\ Rendered(c)
         /\ c.impact = b.impact /\ c.active = b.active /\ c.asks = b.asks
<1>1. CASE ~(b.open /\ b.impact.phase = "done" /\ b.ruled # b.impact.request)
  BY <1>1 DEF AfterRender, Rendered
<1>2. CASE b.open /\ b.impact.phase = "done" /\ b.ruled # b.impact.request
  <2> DEFINE left == NonLowRisk(b, ReviewBatch(b.matched))  other == NonLowRisk(b, ReviewRows \ ReviewBatch(b.matched))
  <2>1. c = [b EXCEPT !.ruled = b.impact.request, !.deselected = b.deselected \cup left, !.chosen = other]
    BY <1>2 DEF AfterRender
  <2>2. left \subseteq ReviewRows /\ other \subseteq ReviewRows /\ NonLowRisk(b, ReviewRows) \subseteq left \cup other
    BY DEF NonLowRisk, ReviewBatch, BulkViews
  <2> HIDE DEF left, other
  <2>3. b.impact.request \in Nat
    BY DEF BulkViews, BulkImpacts
  <2>4. c \in BulkViews
    BY <2>1, <2>2, <2>3 DEF BulkViews
  <2>5. /\ c.impact = b.impact /\ c.active = b.active /\ c.asks = b.asks /\ c.open = b.open
        /\ c.ruled = b.impact.request /\ c.deselected = b.deselected \cup left /\ c.chosen = other
    BY <2>1 DEF BulkViews
  <2>6. NonLowRisk(c, ReviewRows) = NonLowRisk(b, ReviewRows)
    BY <2>5 DEF NonLowRisk, StatusOf
  <2>7. ViewOK(c)
    BY <1>2, <2>2, <2>5, <2>6 DEF ViewOK
  <2> QED BY <2>4, <2>5, <2>7 DEF Rendered
<1> QED BY <1>1, <1>2

\* Nothing is promised anew when nothing is submitted.
LEMMA NothingSubmitted ==
  ASSUME ReviewedRemovals, bulkSent' = bulkSent \/ bulkSent' = NotSent
  PROVE  ReviewedRemovals'
<1>1. CASE bulkSent' = NotSent
  BY <1>1 DEF ReviewedRemovals, SubmittedIsReviewed, SubmittedIsAccepted
<1>2. CASE bulkSent' = bulkSent
  <2>1. {bulkSent'.packages[i] : i \in DOMAIN bulkSent'.packages} = {bulkSent.packages[i] : i \in DOMAIN bulkSent.packages}
    BY <1>2
  <2>2. SubmittedIsReviewed'
    BY <1>2, <2>1 DEF ReviewedRemovals, SubmittedIsReviewed
  <2>3. SubmittedIsAccepted'
    BY <1>2, <2>1 DEF ReviewedRemovals, SubmittedIsAccepted
  <2> QED BY <2>2, <2>3 DEF ReviewedRemovals
<1> QED BY <1>1, <1>2

\* What a render does to the view, whatever was done before it.
LEMMA RenderKeeps ==
  ASSUME NEW b \in BulkViews, ViewOK(b), NEW unheard, KnownNow(b, unheard), ReviewedRemovals, Renders(b, unheard)
  PROVE  /\ reviewView' \in BulkViews /\ ViewOK(reviewView)' /\ Rendered(reviewView)'
         /\ reviewView'.impact = b.impact /\ reviewView'.active = b.active /\ reviewView'.asks = b.asks
         /\ ReviewedRemovals'
<1> DEFINE c == AfterRender(b)
<1>1. /\ c \in BulkViews /\ ViewOK(c) /\ Rendered(c)
      /\ c.impact = b.impact /\ c.active = b.active /\ c.asks = b.asks
  BY RenderRules
<1> HIDE DEF c
<1>2. CASE RemovalReady(b)
  <2>1. /\ reviewView' = [c EXCEPT !.pending = NoRow]
        /\ bulkSent' = Submission(b, "manage", <<b.pending>>, unheard)
    BY <1>2 DEF Renders, c
  <2>2. reviewView' \in BulkViews
    BY <1>1, <2>1 DEF BulkViews
  <2>3. /\ reviewView'.impact = c.impact /\ reviewView'.active = c.active /\ reviewView'.asks = c.asks
        /\ reviewView'.open = c.open /\ reviewView'.ruled = c.ruled
        /\ reviewView'.deselected = c.deselected /\ reviewView'.chosen = c.chosen
    BY <1>1, <2>1 DEF BulkViews
  <2>4. NonLowRisk(reviewView', ReviewRows) = NonLowRisk(c, ReviewRows)
    BY <2>3 DEF NonLowRisk, StatusOf
  <2>5. ViewOK(reviewView)' /\ Rendered(reviewView)'
    BY <1>1, <2>3, <2>4 DEF ViewOK, Rendered
  <2>6. ReviewedRemovals'
    BY <1>2, <2>1, WorkspaceSubmits
  <2> QED BY <1>1, <2>2, <2>3, <2>5, <2>6
<1>3. CASE ~RemovalReady(b)
  <2>1. reviewView' = c /\ bulkSent' = bulkSent
    BY <1>3 DEF Renders, c
  <2>2. ReviewedRemovals'
    BY <2>1, NothingSubmitted
  <2> QED BY <1>1, <2>1, <2>2
<1> QED BY <1>2, <1>3

-----------------------------------------------------------------------------
(* The actions *)

\* Nothing new is known when the host and the queue stay, and the view waits for the same or for nothing.
LEMMA AnswersStay ==
  ASSUME BulkIInv, UNCHANGED toReview,
         scannedRows' \in BulkHosts /\ scannedRows'.rows = scannedRows.rows
           /\ scannedRows'.engine.request = scannedRows.engine.request
           /\ scannedRows'.engine.packages = scannedRows.engine.packages
           /\ (scannedRows.engine.cancelled => scannedRows'.engine.cancelled),
         NEW b \in BulkViews, b.asks = reviewView.asks,
         \/ b.active = reviewView.active /\ b.impact = reviewView.impact
         \/ b.active.request = 0 /\ b.impact.phase # "done",
         reviewView' = b
  PROVE  /\ AnswersComeOnce(reviewView, scannedRows, toReview)'
         /\ AnswersAreKnown(reviewView, scannedRows, toReview)'
<1>1. AnswersComeOnce(reviewView, scannedRows, toReview)'
  BY DEF BulkIInv, AnswersComeOnce
<1>2. AnswersAreKnown(reviewView, scannedRows, toReview)'
  BY DEF BulkIInv, AnswersComeOnce, AnswersAreKnown, IsAnswer
<1> QED BY <1>1, <1>2

\* What the user does in the review, before the render.
LEMMA RenderOnlyKeeps ==
  ASSUME BulkIInv, NEW b \in BulkViews, ViewOK(b), Renders(b, toReview), UNCHANGED <<scannedRows, toReview>>,
         b.impact = reviewView.impact, b.active = reviewView.active, b.asks = reviewView.asks
  PROVE  BulkIInv'
<1>1. KnownNow(b, toReview)
  <2>1. toReview = <<>> => \A i \in 1 .. Len(toReview) : IsAnswer(toReview[i])
    OBVIOUS
  <2> QED BY <2>1 DEF KnownNow, BulkIInv, AnswersAreKnown
<1>2. /\ reviewView' \in BulkViews /\ ViewOK(reviewView)' /\ Rendered(reviewView)'
      /\ reviewView'.impact = b.impact /\ reviewView'.active = b.active /\ reviewView'.asks = b.asks
      /\ ReviewedRemovals'
  BY <1>1, RenderKeeps DEF BulkIInv
<1>3. /\ AnswersComeOnce(reviewView, scannedRows, toReview)'
      /\ AnswersAreKnown(reviewView, scannedRows, toReview)'
  BY <1>2, AnswersStay DEF BulkIInv, BulkTypeOK
<1> QED BY <1>2, <1>3 DEF BulkIInv, BulkTypeOK

LEMMA OpenReviewKeeps == ASSUME BulkIInv, NEW matched \in CriteriaMatches, OpenReview(matched) PROVE BulkIInv'
<1> DEFINE b == [reviewView EXCEPT !.open = TRUE, !.step = "select", !.matched = matched, !.deselected = {},
                                   !.ruled = 0, !.chosen = {}]
<1>1. b \in BulkViews /\ b.ruled = 0
  BY BulkAssumption DEF BulkIInv, BulkTypeOK, BulkViews
<1>2. b.impact = reviewView.impact /\ b.active = reviewView.active /\ b.asks = reviewView.asks
  BY DEF BulkIInv, BulkTypeOK, BulkViews
<1>3. Renders(b, toReview) /\ UNCHANGED <<scannedRows, toReview>>
  BY DEF OpenReview
<1>4. reviewView.asks \in Nat /\ reviewView.active.request \in Nat
  BY DEF BulkIInv, BulkTypeOK, BulkViews
<1>5. b.impact.phase = "analyzing" => b.active.request # 0
  BY <1>2 DEF BulkIInv, ViewOK
<1> HIDE DEF b
<1>6. ViewOK(b)
  BY <1>1, <1>2, <1>4, <1>5 DEF BulkIInv, ViewOK
<1> QED BY <1>1, <1>2, <1>3, <1>6, RenderOnlyKeeps

LEMMA RematchKeeps == ASSUME BulkIInv, NEW matched \in CriteriaMatches, Rematch(matched) PROVE BulkIInv'
<1> DEFINE b == [reviewView EXCEPT !.matched = matched]
<1>1. b \in BulkViews
  BY BulkAssumption DEF BulkIInv, BulkTypeOK, BulkViews
<1>2. /\ b.impact = reviewView.impact /\ b.active = reviewView.active /\ b.asks = reviewView.asks
      /\ b.open = reviewView.open /\ b.ruled = reviewView.ruled
      /\ b.deselected = reviewView.deselected /\ b.chosen = reviewView.chosen
  BY DEF BulkIInv, BulkTypeOK, BulkViews
<1>3. Renders(b, toReview) /\ UNCHANGED <<scannedRows, toReview>>
  BY DEF Rematch
<1> HIDE DEF b
<1>4. NonLowRisk(b, ReviewRows) = NonLowRisk(reviewView, ReviewRows)
  BY <1>2 DEF NonLowRisk, StatusOf
<1>5. ViewOK(b)
  BY <1>2, <1>4 DEF BulkIInv, ViewOK
<1> QED BY <1>1, <1>2, <1>3, <1>5, RenderOnlyKeeps

LEMMA StepKeeps == ASSUME BulkIInv, ContinueToReview \/ BackToCriteria PROVE BulkIInv'
<1>1. PICK s \in {"select", "review"} : Renders([reviewView EXCEPT !.step = s], toReview)
  BY DEF ContinueToReview, BackToCriteria
<1> DEFINE b == [reviewView EXCEPT !.step = s]
<1>2. b \in BulkViews
  BY DEF BulkIInv, BulkTypeOK, BulkViews
<1>3. /\ b.impact = reviewView.impact /\ b.active = reviewView.active /\ b.asks = reviewView.asks
      /\ b.open = reviewView.open /\ b.ruled = reviewView.ruled
      /\ b.deselected = reviewView.deselected /\ b.chosen = reviewView.chosen
  BY DEF BulkIInv, BulkTypeOK, BulkViews
<1>4. Renders(b, toReview) /\ UNCHANGED <<scannedRows, toReview>>
  BY <1>1 DEF ContinueToReview, BackToCriteria
<1> HIDE DEF b
<1>5. NonLowRisk(b, ReviewRows) = NonLowRisk(reviewView, ReviewRows)
  BY <1>3 DEF NonLowRisk, StatusOf
<1>6. ViewOK(b)
  BY <1>3, <1>5 DEF BulkIInv, ViewOK
<1> QED BY <1>2, <1>3, <1>4, <1>6, RenderOnlyKeeps

\* A row is toggled, or all that may be: what needs a review is chosen only on its own.
LEMMA ToggleKeeps ==
  ASSUME BulkIInv, NEW deselected \in SUBSET ReviewRows, NEW chosen \in SUBSET ReviewRows,
         reviewView.chosen \subseteq chosen,
         NonLowRisk(reviewView, ReviewRows \cap reviewView.deselected) \subseteq deselected \cup chosen,
         Renders([reviewView EXCEPT !.deselected = deselected, !.chosen = chosen], toReview),
         UNCHANGED <<scannedRows, toReview>>
  PROVE  BulkIInv'
<1> DEFINE b == [reviewView EXCEPT !.deselected = deselected, !.chosen = chosen]
<1>1. b \in BulkViews
  BY DEF BulkIInv, BulkTypeOK, BulkViews
<1>2. /\ b.impact = reviewView.impact /\ b.active = reviewView.active /\ b.asks = reviewView.asks
      /\ b.open = reviewView.open /\ b.ruled = reviewView.ruled /\ b.deselected = deselected /\ b.chosen = chosen
  BY DEF BulkIInv, BulkTypeOK, BulkViews
<1>3. Renders(b, toReview)
  OBVIOUS
<1> HIDE DEF b
<1>4. NonLowRisk(b, ReviewRows) = NonLowRisk(reviewView, ReviewRows)
  BY <1>2 DEF NonLowRisk, StatusOf
<1>5. NonLowRisk(reviewView, ReviewRows) \subseteq reviewView.deselected \cup reviewView.chosen =>
        NonLowRisk(reviewView, ReviewRows) \subseteq deselected \cup chosen
  BY DEF NonLowRisk
<1>6. ViewOK(b)
  BY <1>2, <1>4, <1>5 DEF BulkIInv, ViewOK
<1> QED BY <1>1, <1>2, <1>3, <1>6, RenderOnlyKeeps

LEMMA ToggleRowKeeps == ASSUME BulkIInv, NEW r \in ReviewRows, ToggleRow(r) PROVE BulkIInv'
<1>1. /\ reviewView \in BulkViews /\ reviewView.deselected \subseteq ReviewRows /\ reviewView.chosen \subseteq ReviewRows
      /\ NonLowRisk(reviewView, {r}) \subseteq ReviewRows
  BY DEF BulkIInv, BulkTypeOK, BulkViews, NonLowRisk
<1>2. UNCHANGED <<scannedRows, toReview>>
  BY DEF ToggleRow
<1>3. CASE r \in reviewView.deselected
  <2> DEFINE deselected == reviewView.deselected \ {r}
             chosen == reviewView.chosen \cup NonLowRisk(reviewView, {r})
  <2>1. Renders([reviewView EXCEPT !.deselected = deselected, !.chosen = chosen], toReview)
    BY <1>3 DEF ToggleRow
  <2>2. NonLowRisk(reviewView, ReviewRows \cap reviewView.deselected) \subseteq deselected \cup chosen
    BY DEF NonLowRisk
  <2>3. deselected \in SUBSET ReviewRows /\ chosen \in SUBSET ReviewRows /\ reviewView.chosen \subseteq chosen
    BY <1>1
  <2> HIDE DEF deselected, chosen
  <2> QED BY <1>2, <2>1, <2>2, <2>3, ToggleKeeps
<1>4. CASE r \notin reviewView.deselected
  <2> DEFINE deselected == reviewView.deselected \cup {r}
             chosen == reviewView.chosen
  <2>1. [reviewView EXCEPT !.deselected = deselected, !.chosen = chosen] = [reviewView EXCEPT !.deselected = deselected]
    BY <1>1 DEF BulkViews
  <2>2. Renders([reviewView EXCEPT !.deselected = deselected, !.chosen = chosen], toReview)
    BY <1>4, <2>1 DEF ToggleRow
  <2>3. NonLowRisk(reviewView, ReviewRows \cap reviewView.deselected) \subseteq deselected \cup chosen
    BY DEF NonLowRisk
  <2>4. deselected \in SUBSET ReviewRows /\ chosen \in SUBSET ReviewRows /\ reviewView.chosen \subseteq chosen
    BY <1>1
  <2> HIDE DEF deselected, chosen
  <2> QED BY <1>2, <2>2, <2>3, <2>4, ToggleKeeps
<1> QED BY <1>3, <1>4

LEMMA ToggleAllKeeps == ASSUME BulkIInv, ToggleAll PROVE BulkIInv'
<1> DEFINE deselected == ToggleSelectable(reviewView)
           chosen == reviewView.chosen
<1>1. reviewView \in BulkViews /\ chosen \in SUBSET ReviewRows /\ UNCHANGED <<scannedRows, toReview>>
  BY DEF BulkIInv, BulkTypeOK, BulkViews, ToggleAll
<1>2. deselected \in SUBSET ReviewRows
  BY <1>1 DEF ToggleSelectable, ReviewBatch, BulkViews
<1>3. NonLowRisk(reviewView, ReviewRows \cap reviewView.deselected) \subseteq deselected \cup chosen
  BY DEF NonLowRisk, ToggleSelectable, CanSelectInBulk
<1> HIDE DEF deselected
<1>4. [reviewView EXCEPT !.deselected = deselected, !.chosen = chosen] = [reviewView EXCEPT !.deselected = deselected]
  BY <1>1 DEF BulkViews
<1>5. Renders([reviewView EXCEPT !.deselected = deselected, !.chosen = chosen], toReview)
  BY <1>4 DEF ToggleAll, deselected
<1> QED BY <1>1, <1>2, <1>3, <1>5, ToggleKeeps

\* A view that is unmounted, cancelled or both knows no more than before.
LEMMA ViewsThatEnd ==
  ASSUME NEW b \in BulkViews, ViewOK(b), Rendered(b)
  PROVE  /\ Unmounted(b) \in BulkViews /\ ViewOK(Unmounted(b)) /\ Rendered(Unmounted(b))
         /\ Unmounted(b).asks = b.asks /\ Unmounted(b).active = b.active /\ Unmounted(b).impact = b.impact
         /\ CancelledView(b) \in BulkViews /\ ViewOK(CancelledView(b)) /\ Rendered(CancelledView(b))
         /\ CancelledView(b).asks = b.asks /\ CancelledView(b).active = NoAsk /\ CancelledView(b).impact = IdleImpact
<1>1. Unmounted(b) \in BulkViews
  BY DEF Unmounted, BulkViews
<1>2. /\ Unmounted(b).asks = b.asks /\ Unmounted(b).active = b.active /\ Unmounted(b).impact = b.impact
      /\ Unmounted(b).open = FALSE /\ Unmounted(b).ruled = 0
  BY DEF Unmounted, BulkViews
<1>3. b.asks \in Nat /\ b.active.request \in Nat
  BY DEF BulkViews
<1>4. ViewOK(Unmounted(b)) /\ Rendered(Unmounted(b))
  BY <1>2, <1>3 DEF ViewOK, Rendered
<1>5. IdleImpact \in BulkImpacts /\ NoAsk \in [request : Nat, packages : Seq(ReviewRows)]
  BY JudgementsMade DEF IdleImpact, NoAsk, BulkImpacts
<1>6. CancelledView(b) \in BulkViews
  BY <1>5 DEF CancelledView, BulkViews
<1>7. /\ CancelledView(b).asks = b.asks /\ CancelledView(b).active = NoAsk /\ CancelledView(b).impact = IdleImpact
      /\ CancelledView(b).ruled = b.ruled
  BY DEF CancelledView, BulkViews
<1>8. ViewOK(CancelledView(b)) /\ Rendered(CancelledView(b))
  BY <1>3, <1>7 DEF ViewOK, Rendered, IdleImpact, NoAsk
<1> QED BY <1>1, <1>2, <1>4, <1>6, <1>7, <1>8

\* A cancellation reaches the host as long as what it cancels is running.
LEMMA CancelledHostIs ==
  ASSUME BulkTypeOK, NEW n, NEW h, h = CancelledHost(n)
  PROVE  /\ h \in BulkHosts /\ h.rows = scannedRows.rows /\ h.declared = scannedRows.declared
         /\ h.eligible = scannedRows.eligible
         /\ h.engine.request = scannedRows.engine.request /\ h.engine.packages = scannedRows.engine.packages
         /\ scannedRows.engine.cancelled => h.engine.cancelled
BY DEF BulkTypeOK, CancelledHost, BulkHosts

\* The modal is closed, with or without a submission.
LEMMA CloseKeeps ==
  ASSUME BulkIInv, CloseReview(reviewView), UNCHANGED toReview, ReviewedRemovals'
  PROVE  BulkIInv'
<1>1. CASE reviewView.impact.phase = "analyzing"
  <2> DEFINE b == CancelledView(Unmounted(reviewView))
  <2>1. reviewView' = b /\ scannedRows' = CancelledHost(reviewView.active.request)
    BY <1>1 DEF CloseReview
  <2>2. /\ b \in BulkViews /\ ViewOK(b) /\ Rendered(b) /\ b.asks = reviewView.asks
        /\ b.active.request = 0 /\ b.impact.phase # "done"
    BY ViewsThatEnd DEF BulkIInv, BulkTypeOK, NoAsk, IdleImpact
  <2> HIDE DEF b
  <2>3. /\ scannedRows' \in BulkHosts /\ scannedRows'.rows = scannedRows.rows
        /\ scannedRows'.declared = scannedRows.declared /\ scannedRows'.eligible = scannedRows.eligible
        /\ scannedRows'.engine.request = scannedRows.engine.request
        /\ scannedRows'.engine.packages = scannedRows.engine.packages
        /\ (scannedRows.engine.cancelled => scannedRows'.engine.cancelled)
    BY <2>1, CancelledHostIs DEF BulkIInv
  <2>4. /\ AnswersComeOnce(reviewView, scannedRows, toReview)'
        /\ AnswersAreKnown(reviewView, scannedRows, toReview)'
    BY <2>1, <2>2, <2>3, AnswersStay
  <2> QED BY <2>1, <2>2, <2>3, <2>4 DEF BulkIInv, BulkTypeOK
<1>2. CASE reviewView.impact.phase # "analyzing"
  <2> DEFINE b == Unmounted(reviewView)
  <2>1. reviewView' = b /\ scannedRows' = scannedRows
    BY <1>2 DEF CloseReview
  <2>2. /\ b \in BulkViews /\ ViewOK(b) /\ Rendered(b) /\ b.asks = reviewView.asks
        /\ b.active = reviewView.active /\ b.impact = reviewView.impact
    BY ViewsThatEnd DEF BulkIInv, BulkTypeOK
  <2> HIDE DEF b
  <2>3. /\ AnswersComeOnce(reviewView, scannedRows, toReview)'
        /\ AnswersAreKnown(reviewView, scannedRows, toReview)'
    BY <2>1, <2>2, AnswersStay DEF BulkIInv, BulkTypeOK
  <2> QED BY <2>1, <2>2, <2>3 DEF BulkIInv, BulkTypeOK
<1> QED BY <1>1, <1>2

LEMMA CloseModalKeeps == ASSUME BulkIInv, CloseModal PROVE BulkIInv'
<1>1. ReviewedRemovals'
  BY NothingSubmitted DEF BulkIInv, CloseModal
<1> QED BY <1>1, CloseKeeps DEF CloseModal

LEMMA CancelAnalysisKeeps == ASSUME BulkIInv, CancelAnalysis PROVE BulkIInv'
<1> DEFINE b == CancelledView(reviewView)
<1>1. reviewView' = b /\ scannedRows' = CancelledHost(reviewView.active.request) /\ UNCHANGED <<toReview, bulkSent>>
  BY DEF CancelAnalysis
<1>2. /\ b \in BulkViews /\ ViewOK(b) /\ Rendered(b) /\ b.asks = reviewView.asks
      /\ b.active.request = 0 /\ b.impact.phase # "done"
  BY ViewsThatEnd DEF BulkIInv, BulkTypeOK, NoAsk, IdleImpact
<1> HIDE DEF b
<1>3. /\ scannedRows' \in BulkHosts /\ scannedRows'.rows = scannedRows.rows
      /\ scannedRows'.declared = scannedRows.declared /\ scannedRows'.eligible = scannedRows.eligible
      /\ scannedRows'.engine.request = scannedRows.engine.request
      /\ scannedRows'.engine.packages = scannedRows.engine.packages
      /\ (scannedRows.engine.cancelled => scannedRows'.engine.cancelled)
  BY <1>1, CancelledHostIs DEF BulkIInv
<1>4. /\ AnswersComeOnce(reviewView, scannedRows, toReview)'
      /\ AnswersAreKnown(reviewView, scannedRows, toReview)'
  BY <1>1, <1>2, <1>3, AnswersStay
<1>5. ReviewedRemovals'
  BY <1>1, NothingSubmitted DEF BulkIInv
<1> QED BY <1>1, <1>2, <1>3, <1>4, <1>5 DEF BulkIInv, BulkTypeOK

\* The Manage workspace is opened or left, or a removal is over.
LEMMA ManageKeeps ==
  ASSUME BulkIInv, (\E r \in ReviewRows : OpenManageOf(r)) \/ LeaveManage \/ RemovalOver
  PROVE  BulkIInv'
<1>1. UNCHANGED <<scannedRows, toReview>> /\ (bulkSent' = bulkSent \/ bulkSent' = NotSent)
  BY DEF OpenManageOf, LeaveManage, RemovalOver
<1>2. /\ reviewView' \in BulkViews
      /\ reviewView'.impact = reviewView.impact /\ reviewView'.active = reviewView.active
      /\ reviewView'.asks = reviewView.asks /\ reviewView'.open = reviewView.open /\ reviewView'.ruled = reviewView.ruled
      /\ reviewView'.deselected = reviewView.deselected /\ reviewView'.chosen = reviewView.chosen
  <2>1. reviewView \in BulkViews
    BY DEF BulkIInv, BulkTypeOK
  <2>2. CASE \E r \in ReviewRows : OpenManageOf(r)
    <3>1. PICK r \in ReviewRows : reviewView' = [reviewView EXCEPT !.manage = r]
      BY <2>2 DEF OpenManageOf
    <3> QED BY <2>1, <3>1 DEF BulkViews
  <2>3. CASE LeaveManage
    <3>1. reviewView' = [reviewView EXCEPT !.manage = NoRow, !.pending = NoRow]
      BY <2>3 DEF LeaveManage
    <3> QED BY <2>1, <3>1 DEF BulkViews
  <2>4. CASE RemovalOver
    BY <2>1, <2>4 DEF RemovalOver
  <2> QED BY <2>2, <2>3, <2>4
<1>3. NonLowRisk(reviewView', ReviewRows) = NonLowRisk(reviewView, ReviewRows)
  BY <1>2 DEF NonLowRisk, StatusOf
<1>4. ViewOK(reviewView)' /\ Rendered(reviewView)'
  BY <1>2, <1>3 DEF BulkIInv, ViewOK, Rendered
<1>5. /\ AnswersComeOnce(reviewView, scannedRows, toReview)'
      /\ AnswersAreKnown(reviewView, scannedRows, toReview)'
  BY <1>1, <1>2, AnswersStay DEF BulkIInv, BulkTypeOK
<1>6. ReviewedRemovals'
  BY <1>1, NothingSubmitted DEF BulkIInv
<1> QED BY <1>1, <1>2, <1>4, <1>5, <1>6 DEF BulkIInv, BulkTypeOK

\* An impact is asked for: a new request, which is refused at once or running.
LEMMA AskKeeps ==
  ASSUME BulkIInv, NEW b \in BulkViews, b.impact = reviewView.impact, b.active = reviewView.active,
         b.asks = reviewView.asks, b.ruled = reviewView.ruled,
         NEW packages \in Seq(ReviewRows), AskImpact(b, packages), bulkSent' = bulkSent
  PROVE  BulkIInv'
<1> DEFINE n == reviewView.asks + 1
           m == ImpactSays("error", n, packages, NothingJudged)
           impact == [IdleImpact EXCEPT !.phase = "analyzing", !.request = n, !.packages = packages]
<1>1. /\ reviewView' = [b EXCEPT !.asks = n, !.active = [request |-> n, packages |-> packages], !.impact = impact]
      /\ \/ toReview' = Append(toReview, m) /\ scannedRows' = scannedRows
         \/ /\ toReview' = toReview /\ RowsIn(packages) \subseteq scannedRows.rows /\ scannedRows.engine.request = 0
            /\ scannedRows' = [scannedRows EXCEPT !.engine = [NoEngine EXCEPT !.request = n, !.packages = packages]]
  BY DEF AskImpact, RowsIn
<1>2. /\ reviewView.asks \in Nat /\ reviewView.ruled \in Nat /\ reviewView.ruled <= reviewView.asks
      /\ scannedRows.engine.request <= reviewView.asks /\ scannedRows.engine.request \in Nat
      /\ toReview \in Seq(BulkMessages)
  BY DEF BulkIInv, BulkTypeOK, BulkViews, BulkHosts, ViewOK, AnswersComeOnce
<1>3. n \in Nat /\ n > reviewView.asks /\ n # 0
  BY <1>2
<1>4. /\ impact \in BulkImpacts /\ impact.phase = "analyzing" /\ impact.request = n
      /\ m \in BulkMessages /\ m.kind = "error" /\ m.request = n
  BY <1>3, JudgementsMade DEF IdleImpact, BulkImpacts, ImpactSays, BulkMessages
<1> HIDE DEF n, m, impact
<1>5. /\ reviewView' \in BulkViews /\ reviewView'.asks = n /\ reviewView'.active.request = n
      /\ reviewView'.impact = impact /\ reviewView'.ruled = reviewView.ruled
  BY <1>1, <1>3, <1>4 DEF BulkViews
<1>6. ViewOK(reviewView)' /\ Rendered(reviewView)'
  BY <1>2, <1>3, <1>4, <1>5 DEF ViewOK, Rendered
<1>7. ReviewedRemovals'
  BY NothingSubmitted DEF BulkIInv
<1>8. \A i \in 1 .. Len(toReview) : IsAnswer(toReview[i]) =>
        toReview[i].request \in Nat /\ toReview[i].request <= reviewView.asks /\ toReview[i].request # n
  <2> SUFFICES ASSUME NEW i \in 1 .. Len(toReview), IsAnswer(toReview[i])
               PROVE  toReview[i].request \in Nat /\ toReview[i].request <= reviewView.asks /\ toReview[i].request # n
    OBVIOUS
  <2>1. toReview[i] \in BulkMessages
    BY <1>2
  <2>2. toReview[i].request \in Nat
    BY <2>1 DEF BulkMessages
  <2>3. toReview[i].request <= reviewView.asks
    BY DEF BulkIInv, AnswersComeOnce
  <2> QED BY <1>2, <1>3, <2>2, <2>3
<1>9. CASE toReview' = Append(toReview, m) /\ scannedRows' = scannedRows
  <2>1. /\ toReview' \in Seq(BulkMessages) /\ Len(toReview') = Len(toReview) + 1 /\ Len(toReview) \in Nat
        /\ \A i \in 1 .. Len(toReview) : toReview'[i] = toReview[i]
        /\ toReview'[Len(toReview) + 1] = m
    BY <1>2, <1>4, <1>9
  <2>2. AnswersComeOnce(reviewView, scannedRows, toReview)'
    BY <1>2, <1>3, <1>4, <1>5, <1>8, <1>9, <2>1 DEF BulkIInv, AnswersComeOnce, IsAnswer
  <2>3. AnswersAreKnown(reviewView, scannedRows, toReview)'
    BY <1>2, <1>3, <1>4, <1>5, <1>8, <1>9, <2>1 DEF BulkIInv, AnswersAreKnown, IsAnswer
  <2> QED BY <1>5, <1>6, <1>7, <1>9, <2>1, <2>2, <2>3 DEF BulkIInv, BulkTypeOK
<1>10. CASE /\ toReview' = toReview /\ RowsIn(packages) \subseteq scannedRows.rows
            /\ scannedRows' = [scannedRows EXCEPT !.engine = [NoEngine EXCEPT !.request = n, !.packages = packages]]
  <2>1. /\ scannedRows' \in BulkHosts /\ scannedRows'.rows = scannedRows.rows
        /\ scannedRows'.declared = scannedRows.declared /\ scannedRows'.eligible = scannedRows.eligible
        /\ scannedRows'.engine.request = n /\ scannedRows'.engine.packages = packages
    BY <1>3, <1>10 DEF BulkIInv, BulkTypeOK, BulkHosts, NoEngine
  <2>2. AnswersComeOnce(reviewView, scannedRows, toReview)'
    BY <1>2, <1>3, <1>4, <1>5, <1>8, <1>10, <2>1 DEF BulkIInv, AnswersComeOnce, IsAnswer
  <2>3. AnswersAreKnown(reviewView, scannedRows, toReview)'
    BY <1>2, <1>3, <1>4, <1>5, <1>8, <1>10, <2>1 DEF BulkIInv, AnswersAreKnown, IsAnswer
  <2> QED BY <1>2, <1>5, <1>6, <1>7, <1>10, <2>1, <2>2, <2>3 DEF BulkIInv, BulkTypeOK
<1> QED BY <1>1, <1>9, <1>10

\* The first click analyzes, the second submits; an analysis is repeated.
LEMMA RemoveClickKeeps == ASSUME BulkIInv, RemoveClick \/ AskAgain PROVE BulkIInv'
<1> DEFINE packages == Sorted(Selection(reviewView))
<1>1. reviewView \in BulkViews /\ packages \in Seq(ReviewRows)
  BY SelectionIsBounded DEF BulkIInv, BulkTypeOK
<1>2. CASE /\ CoversReview(reviewView) /\ CloseReview(reviewView) /\ reviewView.open
           /\ bulkSent' = Submission(reviewView, "review", packages, toReview) /\ UNCHANGED toReview
  <2>1. toReview = <<>> => \A i \in 1 .. Len(toReview) : IsAnswer(toReview[i])
    OBVIOUS
  <2>2. KnownNow(reviewView, toReview)
    BY <2>1 DEF KnownNow, BulkIInv, AnswersAreKnown
  <2>3. ReviewedRemovals'
    BY <1>1, <1>2, <2>2, ReviewIsSubmitted DEF BulkIInv
  <2> QED BY <1>2, <2>3, CloseKeeps
<1>3. CASE AskImpact(reviewView, packages) /\ UNCHANGED bulkSent
  BY <1>1, <1>3, AskKeeps
<1> QED BY <1>2, <1>3 DEF RemoveClick, AskAgain, InReview

LEMMA RemoveFromManageKeeps == ASSUME BulkIInv, RemoveFromManage PROVE BulkIInv'
<1> DEFINE b == [reviewView EXCEPT !.pending = reviewView.manage]
<1>1. /\ reviewView \in BulkViews /\ reviewView.manage \in ReviewRows /\ <<reviewView.manage>> \in Seq(ReviewRows)
      /\ bulkSent' = bulkSent
  BY DEF BulkIInv, BulkTypeOK, BulkViews, RemoveFromManage
<1>2. /\ b \in BulkViews /\ b.impact = reviewView.impact /\ b.active = reviewView.active
      /\ b.asks = reviewView.asks /\ b.ruled = reviewView.ruled
  BY <1>1 DEF BulkViews
<1>3. AskImpact(b, <<reviewView.manage>>)
  BY DEF RemoveFromManage
<1> HIDE DEF b
<1> QED BY <1>1, <1>2, <1>3, AskKeeps

\* The host has an answer, to what was asked for and is still current.
LEMMA AnswerImpactKeeps == ASSUME BulkIInv, AnswerImpact PROVE BulkIInv'
<1> DEFINE engine == scannedRows.engine
<1>1. /\ engine.request # 0 /\ engine.request \in Nat /\ engine.request <= reviewView.asks
      /\ engine.packages \in Seq(ReviewRows) /\ UNCHANGED <<reviewView, bulkSent>>
      /\ scannedRows' = [scannedRows EXCEPT !.engine = NoEngine]
      /\ toReview \in Seq(BulkMessages)
  BY DEF AnswerImpact, BulkIInv, BulkTypeOK, BulkHosts, AnswersComeOnce
<1>2. /\ scannedRows' \in BulkHosts /\ scannedRows'.rows = scannedRows.rows
      /\ scannedRows'.declared = scannedRows.declared /\ scannedRows'.eligible = scannedRows.eligible
      /\ scannedRows'.engine.request = 0
  <2>1. scannedRows \in BulkHosts
    BY DEF BulkIInv, BulkTypeOK
  <2>2. NoEngine \in [request : Nat, packages : Seq(ReviewRows), cancelled : BOOLEAN] /\ NoEngine.request = 0
    BY DEF NoEngine
  <2> QED BY <1>1, <2>1, <2>2 DEF BulkHosts
<1>3. ReviewedRemovals'
  BY <1>1, NothingSubmitted DEF BulkIInv
<1>4. CASE toReview' = toReview
  <2>1. AnswersComeOnce(reviewView, scannedRows, toReview)'
    <3>1. /\ reviewView' = reviewView /\ reviewView.asks \in Nat /\ 0 <= reviewView.asks
          /\ Len(toReview') = Len(toReview)
      BY <1>1, <1>4 DEF BulkIInv, BulkTypeOK, BulkViews
    <3> QED BY <3>1, <1>2, <1>4 DEF BulkIInv, AnswersComeOnce
  <2>2. AnswersAreKnown(reviewView, scannedRows, toReview)'
    BY <1>1, <1>2, <1>4 DEF BulkIInv, AnswersAreKnown
  <2> QED BY <1>1, <1>2, <1>3, <1>4, <2>1, <2>2 DEF BulkIInv, BulkTypeOK
<1>5. ASSUME ~engine.cancelled, NEW m \in BulkMessages, m.request = engine.request, m.packages = engine.packages,
             IsAnswer(m), m.kind = "result" => m.verdicts \in [RowsIn(m.packages) -> Verdicts],
             toReview' = Append(toReview, m)
      PROVE  BulkIInv'
  <2>1. /\ toReview' \in Seq(BulkMessages) /\ Len(toReview') = Len(toReview) + 1 /\ Len(toReview) \in Nat
        /\ \A i \in 1 .. Len(toReview) : toReview'[i] = toReview[i]
        /\ toReview'[Len(toReview) + 1] = m
    BY <1>1, <1>5
  <2>2. AnswersComeOnce(reviewView, scannedRows, toReview)'
    <3>1. /\ \A i \in 1 .. Len(toReview') : i = Len(toReview) + 1 \/ i \in 1 .. Len(toReview)
          /\ \A i, j \in 1 .. Len(toReview') : i < j => i \in 1 .. Len(toReview)
          /\ reviewView' = reviewView /\ reviewView.asks \in Nat /\ 0 <= reviewView.asks
      BY <1>1, <2>1 DEF BulkIInv, BulkTypeOK, BulkViews
    <3>2. \A i \in 1 .. Len(toReview) : IsAnswer(toReview[i]) => toReview[i].request # m.request
      BY <1>5 DEF BulkIInv, AnswersComeOnce
    <3>3. /\ m.request # 0 /\ m.request <= reviewView.asks
          /\ m.request = reviewView.active.request => reviewView.impact.phase = "analyzing"
      BY <1>1, <1>5 DEF BulkIInv, AnswersComeOnce
    <3>4. \A i \in 1 .. Len(toReview) :
            IsAnswer(toReview[i]) => /\ toReview[i].request # 0 /\ toReview[i].request <= reviewView.asks
                                     /\ toReview[i].request = reviewView.active.request => reviewView.impact.phase = "analyzing"
                                     /\ toReview[i].kind = "result" => toReview[i].verdicts \in [RowsIn(toReview[i].packages) -> Verdicts]
      BY DEF BulkIInv, AnswersComeOnce
    <3>5. \A i \in 1 .. Len(toReview') :
            IsAnswer(toReview'[i]) => /\ toReview'[i].request # 0 /\ toReview'[i].request <= reviewView.asks
                                      /\ toReview'[i].request = reviewView.active.request => reviewView.impact.phase = "analyzing"
                                      /\ toReview'[i].kind = "result" => toReview'[i].verdicts \in [RowsIn(toReview'[i].packages) -> Verdicts]
      BY <1>5, <2>1, <3>1, <3>3, <3>4
    <3>6. \A i, j \in 1 .. Len(toReview') : i < j /\ IsAnswer(toReview'[i]) /\ IsAnswer(toReview'[j])
                                              => toReview'[i].request # toReview'[j].request
      <4> SUFFICES ASSUME NEW i \in 1 .. Len(toReview'), NEW j \in 1 .. Len(toReview'), i < j,
                          IsAnswer(toReview'[i]), IsAnswer(toReview'[j])
                   PROVE  toReview'[i].request # toReview'[j].request
        OBVIOUS
      <4>1. i \in 1 .. Len(toReview) /\ toReview'[i] = toReview[i]
        BY <2>1, <3>1
      <4>2. CASE j = Len(toReview) + 1
        BY <2>1, <3>2, <4>1, <4>2
      <4>3. CASE j \in 1 .. Len(toReview)
        BY <2>1, <4>1, <4>3 DEF BulkIInv, AnswersComeOnce
      <4> QED BY <3>1, <4>2, <4>3
    <3> QED BY <1>2, <3>1, <3>5, <3>6 DEF AnswersComeOnce
  <2>3. AnswersAreKnown(reviewView, scannedRows, toReview)'
    BY <1>1, <1>2, <1>5, <2>1 DEF BulkIInv, AnswersAreKnown
  <2> QED BY <1>1, <1>2, <1>3, <2>1, <2>2, <2>3 DEF BulkIInv, BulkTypeOK
<1>6. CASE /\ ~engine.cancelled
           /\ toReview' = Append(toReview, ImpactSays("error", engine.request, engine.packages, NothingJudged))
  <2> DEFINE m == ImpactSays("error", engine.request, engine.packages, NothingJudged)
  <2>1. m \in BulkMessages /\ m.kind = "error" /\ m.request = engine.request /\ m.packages = engine.packages
    BY <1>1, JudgementsMade DEF ImpactSays, BulkMessages
  <2>2. toReview' = Append(toReview, m)
    BY <1>6
  <2> HIDE DEF m
  <2> QED BY <1>5, <1>6, <2>1, <2>2 DEF IsAnswer
<1>7. ASSUME ~engine.cancelled, NEW verdicts \in [RowsIn(engine.packages) -> UNION {ImpactsOf[r] : r \in RowsIn(engine.packages)}],
             toReview' = Append(toReview, ImpactSays("result", engine.request, engine.packages, verdicts))
      PROVE  BulkIInv'
  <2> DEFINE m == ImpactSays("result", engine.request, engine.packages, verdicts)
             rows == RowsIn(engine.packages)
  <2>1. rows \subseteq ReviewRows
    BY <1>1, RowsAreRows
  <2>2. UNION {ImpactsOf[r] : r \in rows} \subseteq Verdicts
    BY <2>1, BulkAssumption
  <2> HIDE DEF rows
  <2>3. verdicts \in [rows -> Verdicts]
    BY <1>7, <2>2 DEF rows
  <2>4. verdicts \in Judgements
    BY <2>1, <2>3, JudgementsMade
  <2>5. /\ m \in BulkMessages /\ m.kind = "result" /\ m.request = engine.request /\ m.packages = engine.packages
        /\ m.verdicts = verdicts
    BY <1>1, <2>4 DEF ImpactSays, BulkMessages
  <2>6. toReview' = Append(toReview, m)
    BY <1>7
  <2> HIDE DEF m
  <2> QED BY <1>5, <1>7, <2>3, <2>5, <2>6 DEF IsAnswer, rows
<1>8. \/ toReview' = toReview
      \/ /\ ~engine.cancelled
         /\ toReview' = Append(toReview, ImpactSays("error", engine.request, engine.packages, NothingJudged))
      \/ /\ ~engine.cancelled
         /\ \E verdicts \in [RowsIn(engine.packages) -> UNION {ImpactsOf[r] : r \in RowsIn(engine.packages)}] :
              toReview' = Append(toReview, ImpactSays("result", engine.request, engine.packages, verdicts))
  BY DEF AnswerImpact, RowsIn
<1> QED BY <1>4, <1>6, <1>7, <1>8

\* The dashboard has a message for the view: what was answered counts no more.
LEMMA DashboardKeeps ==
  ASSUME BulkIInv, NEW kind \in {"stale", "ready"}, toReview' = Append(toReview, DashboardSays(kind)),
         scannedRows' \in BulkHosts, scannedRows'.eligible => scannedRows'.rows = scannedRows'.declared,
         scannedRows'.engine.request = scannedRows.engine.request, UNCHANGED <<reviewView, bulkSent>>
  PROVE  BulkIInv'
<1> DEFINE m == DashboardSays(kind)
<1>1. m \in BulkMessages /\ ~IsAnswer(m)
  BY JudgementsMade DEF DashboardSays, ImpactSays, BulkMessages, IsAnswer
<1>2. toReview' = Append(toReview, m) /\ toReview \in Seq(BulkMessages)
  BY DEF BulkIInv, BulkTypeOK
<1> HIDE DEF m
<1>3. /\ toReview' \in Seq(BulkMessages) /\ Len(toReview') = Len(toReview) + 1 /\ Len(toReview) \in Nat
      /\ \A i \in 1 .. Len(toReview) : toReview'[i] = toReview[i]
      /\ toReview'[Len(toReview) + 1] = m
  BY <1>1, <1>2
<1>4. Len(toReview) + 1 \in 1 .. Len(toReview') /\ \A i \in 1 .. Len(toReview') : i = Len(toReview) + 1 \/ i \in 1 .. Len(toReview)
  BY <1>3
<1>5. AnswersComeOnce(reviewView, scannedRows, toReview)'
  BY <1>1, <1>3, <1>4 DEF BulkIInv, AnswersComeOnce
<1>6. AnswersAreKnown(reviewView, scannedRows, toReview)'
  BY <1>1, <1>3, <1>4 DEF AnswersAreKnown
<1>7. ReviewedRemovals'
  BY NothingSubmitted DEF BulkIInv
<1>8. ViewOK(reviewView)' /\ Rendered(reviewView)' /\ reviewView' \in BulkViews
  BY DEF BulkIInv, BulkTypeOK
<1> QED BY <1>3, <1>5, <1>6, <1>7, <1>8 DEF BulkIInv, BulkTypeOK

LEMMA ProjectChangesKeeps == ASSUME BulkIInv, NEW declared \in LaterRows, ProjectChanges(declared) PROVE BulkIInv'
<1>1. scannedRows \in BulkHosts /\ declared \in SUBSET ReviewRows
  BY BulkAssumption DEF BulkIInv, BulkTypeOK
<1>2. scannedRows' = [scannedRows EXCEPT !.eligible = FALSE, !.declared = declared, !.engine.cancelled = TRUE,
                                         !.rescans = scannedRows.rescans + 1]
  BY DEF ProjectChanges
<1>3. /\ scannedRows' \in BulkHosts /\ ~scannedRows'.eligible
      /\ scannedRows'.engine.request = scannedRows.engine.request
  <2>1. [scannedRows.engine EXCEPT !.cancelled = TRUE] \in [request : Nat, packages : Seq(ReviewRows), cancelled : BOOLEAN]
    BY <1>1 DEF BulkHosts
  <2>2. scannedRows.rescans + 1 \in Nat
    BY <1>1 DEF BulkHosts
  <2>3. /\ scannedRows'.rows = scannedRows.rows /\ scannedRows'.declared = declared /\ scannedRows'.eligible = FALSE
        /\ scannedRows'.engine = [scannedRows.engine EXCEPT !.cancelled = TRUE] /\ scannedRows'.rescans = scannedRows.rescans + 1
        /\ scannedRows' = [rows |-> scannedRows'.rows, declared |-> scannedRows'.declared, eligible |-> scannedRows'.eligible,
                           engine |-> scannedRows'.engine, rescans |-> scannedRows'.rescans]
    BY <1>1, <1>2 DEF BulkHosts
  <2>4. scannedRows'.engine.request = scannedRows.engine.request
    BY <1>1, <2>3 DEF BulkHosts
  <2> QED BY <1>1, <2>1, <2>2, <2>3, <2>4 DEF BulkHosts
<1> QED BY <1>3, DashboardKeeps DEF ProjectChanges

LEMMA RescanEndsKeeps == ASSUME BulkIInv, RescanEnds PROVE BulkIInv'
<1>1. scannedRows \in BulkHosts
  BY DEF BulkIInv, BulkTypeOK
<1>2. scannedRows' = [scannedRows EXCEPT !.eligible = TRUE, !.rows = scannedRows.declared]
  BY DEF RescanEnds
<1>3. /\ scannedRows' \in BulkHosts /\ scannedRows'.rows = scannedRows'.declared
      /\ scannedRows'.engine.request = scannedRows.engine.request
  BY <1>1, <1>2 DEF BulkHosts
<1> QED BY <1>3, DashboardKeeps DEF RescanEnds

\* The oldest message leaves: what is left was there, one place later.
LEMMA TailIs ==
  ASSUME NEW q \in Seq(BulkMessages), q # <<>>
  PROVE  /\ Tail(q) \in Seq(BulkMessages) /\ Head(q) \in BulkMessages /\ Head(q) = q[1] /\ 1 \in 1 .. Len(q)
         /\ \A i \in 1 .. Len(Tail(q)) : i + 1 \in 1 .. Len(q) /\ Tail(q)[i] = q[i + 1]
         /\ \A i \in 1 .. Len(q) : i = 1 \/ (i - 1 \in 1 .. Len(Tail(q)) /\ q[i] = Tail(q)[i - 1])
  OBVIOUS

\* Without the oldest message, the answers still come once.
LEMMA OnceWithoutTheFirst ==
  ASSUME NEW b, NEW h, NEW q \in Seq(BulkMessages), q # <<>>, AnswersComeOnce(b, h, q)
  PROVE  /\ AnswersComeOnce(b, h, Tail(q))
         /\ IsAnswer(Head(q)) => \A i \in 1 .. Len(Tail(q)) : IsAnswer(Tail(q)[i]) => Tail(q)[i].request # Head(q).request
<1> DEFINE t == Tail(q)
<1>1. /\ Head(q) = q[1] /\ 1 \in 1 .. Len(q) /\ Len(t) \in Nat
      /\ \A i \in 1 .. Len(t) : i + 1 \in 1 .. Len(q) /\ t[i] = q[i + 1] /\ 1 < i + 1
  BY TailIs
<1> HIDE DEF t
<1>2. IsAnswer(Head(q)) => \A i \in 1 .. Len(t) : IsAnswer(t[i]) => t[i].request # Head(q).request
  BY <1>1 DEF AnswersComeOnce
<1>3. \A i \in 1 .. Len(t) :
        IsAnswer(t[i]) => /\ t[i].request # 0 /\ t[i].request <= b.asks /\ t[i].request # h.engine.request
                          /\ t[i].request = b.active.request => b.impact.phase = "analyzing"
                          /\ t[i].kind = "result" => t[i].verdicts \in [RowsIn(t[i].packages) -> Verdicts]
  BY <1>1 DEF AnswersComeOnce
<1>4. \A i, j \in 1 .. Len(t) : i < j /\ IsAnswer(t[i]) /\ IsAnswer(t[j]) => t[i].request # t[j].request
  <2> SUFFICES ASSUME NEW i \in 1 .. Len(t), NEW j \in 1 .. Len(t), i < j, IsAnswer(t[i]), IsAnswer(t[j])
               PROVE  t[i].request # t[j].request
    OBVIOUS
  <2>1. i + 1 < j + 1
    OBVIOUS
  <2> QED BY <1>1, <2>1 DEF AnswersComeOnce
<1>5. AnswersComeOnce(b, h, t)
  BY <1>3, <1>4 DEF AnswersComeOnce
<1> QED BY <1>2, <1>5 DEF t

\* Without the oldest answer, what is still answered is known.
LEMMA KnownWithoutTheFirst ==
  ASSUME NEW b, NEW h, NEW q \in Seq(BulkMessages), q # <<>>, IsAnswer(Head(q)), AnswersAreKnown(b, h, q)
  PROVE  AnswersAreKnown(b, h, Tail(q))
<1> DEFINE t == Tail(q)
<1>1. /\ Head(q) = q[1] /\ 1 \in 1 .. Len(q)
      /\ \A i \in 1 .. Len(t) : i + 1 \in 1 .. Len(q) /\ t[i] = q[i + 1]
      /\ \A i \in 1 .. Len(q) : i = 1 \/ (i - 1 \in 1 .. Len(t) /\ q[i] = t[i - 1])
  BY TailIs
<1> HIDE DEF t
<1>2. (\A i \in 1 .. Len(t) : IsAnswer(t[i])) => \A i \in 1 .. Len(q) : IsAnswer(q[i])
  BY <1>1
<1>3. AnswersAreKnown(b, h, t)
  BY <1>1, <1>2 DEF AnswersAreKnown
<1> QED BY <1>3 DEF t

\* A message arrives: a dashboard message ends the review, the answer to the last request is shown.
LEMMA ReviewReceivesKeeps == ASSUME BulkIInv, ReviewReceives PROVE BulkIInv'
<1> DEFINE m == Head(toReview)
           t == Tail(toReview)
<1>1. /\ toReview \in Seq(BulkMessages) /\ toReview # <<>> /\ toReview' = t /\ scannedRows' = scannedRows
      /\ t \in Seq(BulkMessages) /\ m \in BulkMessages /\ Len(t) \in Nat
      /\ reviewView \in BulkViews /\ scannedRows \in BulkHosts
  BY TailIs DEF ReviewReceives, BulkIInv, BulkTypeOK
<1>2. /\ AnswersComeOnce(reviewView, scannedRows, t)
      /\ IsAnswer(m) => \A i \in 1 .. Len(t) : IsAnswer(t[i]) => t[i].request # m.request
  BY <1>1, OnceWithoutTheFirst DEF BulkIInv
<1>3. IsAnswer(m) => AnswersAreKnown(reviewView, scannedRows, t)
  BY <1>1, KnownWithoutTheFirst DEF BulkIInv
<1>4. m = toReview[1] /\ 1 \in 1 .. Len(toReview)
  BY <1>1, TailIs
<1>5. CASE m.kind \in {"stale", "ready"}
  <2> DEFINE b == Unmounted(CancelledView(reviewView))
  <2>1. reviewView' = [b EXCEPT !.fresh = (m.kind = "ready")] /\ bulkSent' = NotSent
    BY <1>5 DEF ReviewReceives
  <2>2. /\ b \in BulkViews /\ ViewOK(b) /\ b.active.request = 0 /\ b.impact.phase = "idle"
        /\ b.asks = reviewView.asks
    BY <1>1, ViewsThatEnd DEF BulkIInv, NoAsk, IdleImpact
  <2> HIDE DEF b
  <2>3. (m.kind = "ready") \in BOOLEAN
    OBVIOUS
  <2>4. /\ reviewView' \in BulkViews /\ reviewView'.active = b.active /\ reviewView'.impact = b.impact
        /\ reviewView'.asks = b.asks /\ reviewView'.ruled = b.ruled /\ reviewView'.open = b.open
    BY <2>1, <2>2, <2>3 DEF BulkViews
  <2>5. ViewOK(reviewView)' /\ Rendered(reviewView)'
    BY <2>2, <2>4 DEF ViewOK, Rendered
  <2>6. AnswersComeOnce(reviewView, scannedRows, toReview)'
    BY <1>1, <1>2, <2>2, <2>4 DEF AnswersComeOnce
  <2>7. AnswersAreKnown(reviewView, scannedRows, toReview)'
    BY <1>1, <1>2, <2>2, <2>4 DEF AnswersAreKnown, AnswersComeOnce, IsAnswer
  <2>8. ReviewedRemovals'
    BY <2>1, NothingSubmitted DEF BulkIInv
  <2> QED BY <1>1, <2>4, <2>5, <2>6, <2>7, <2>8 DEF BulkIInv, BulkTypeOK
<1> DEFINE asked == reviewView.active.request = m.request /\ reviewView.active.packages = m.packages
<1>6. CASE m.kind \notin {"stale", "ready"} /\ ~asked
  <2>1. reviewView' = reviewView /\ bulkSent' = bulkSent
    BY <1>6 DEF ReviewReceives
  <2>2. IsAnswer(m)
    BY <1>1, <1>6 DEF BulkMessages, IsAnswer
  <2>3. ReviewedRemovals'
    BY <2>1, NothingSubmitted DEF BulkIInv
  <2> QED BY <1>1, <1>2, <1>3, <2>1, <2>2, <2>3 DEF BulkIInv, BulkTypeOK
<1>7. CASE m.kind \notin {"stale", "ready"} /\ asked
  <2> DEFINE impact == [IdleImpact EXCEPT !.request = m.request, !.packages = m.packages]
             b == IF m.kind = "result" THEN [reviewView EXCEPT !.impact = [impact EXCEPT !.phase = "done", !.verdicts = m.verdicts]]
                  ELSE [reviewView EXCEPT !.impact = [impact EXCEPT !.phase = "error"], !.pending = NoRow]
  <2>1. Renders(b, t)
    BY <1>7 DEF ReviewReceives
  <2>2. IsAnswer(m) /\ m.request \in Nat /\ m.packages \in Seq(ReviewRows) /\ m.verdicts \in Judgements
    BY <1>1, <1>7 DEF BulkMessages, IsAnswer
  <2>3. /\ m.request # 0 /\ m.request <= reviewView.asks /\ m.request # scannedRows.engine.request
        /\ m.kind = "result" => m.verdicts \in [RowsIn(m.packages) -> Verdicts]
        /\ reviewView.impact.phase = "analyzing"
    BY <1>4, <1>7, <2>2 DEF BulkIInv, AnswersComeOnce
  <2>4. reviewView.ruled # m.request
    BY <1>7, <2>3 DEF BulkIInv, ViewOK
  <2>5. impact = [IdleImpact EXCEPT !.request = m.request, !.packages = m.packages]
    OBVIOUS
  <2> HIDE DEF m, t, impact
  <2>6. /\ [impact EXCEPT !.phase = "done", !.verdicts = m.verdicts] \in BulkImpacts
        /\ [impact EXCEPT !.phase = "done", !.verdicts = m.verdicts].phase = "done"
        /\ [impact EXCEPT !.phase = "done", !.verdicts = m.verdicts].request = m.request
        /\ [impact EXCEPT !.phase = "done", !.verdicts = m.verdicts].packages = m.packages
        /\ [impact EXCEPT !.phase = "done", !.verdicts = m.verdicts].verdicts = m.verdicts
        /\ [impact EXCEPT !.phase = "error"] \in BulkImpacts
        /\ [impact EXCEPT !.phase = "error"].phase = "error"
        /\ [impact EXCEPT !.phase = "error"].request = m.request
        /\ [impact EXCEPT !.phase = "error"].packages = m.packages
    <3>1. IdleImpact \in BulkImpacts
      BY JudgementsMade DEF IdleImpact, BulkImpacts
    <3>2. impact \in BulkImpacts /\ impact.request = m.request /\ impact.packages = m.packages
      BY <2>2, <2>5, <3>1 DEF BulkImpacts
    <3>3. /\ [impact EXCEPT !.phase = "done", !.verdicts = m.verdicts] \in BulkImpacts
          /\ [impact EXCEPT !.phase = "done", !.verdicts = m.verdicts].phase = "done"
          /\ [impact EXCEPT !.phase = "done", !.verdicts = m.verdicts].request = m.request
          /\ [impact EXCEPT !.phase = "done", !.verdicts = m.verdicts].packages = m.packages
          /\ [impact EXCEPT !.phase = "done", !.verdicts = m.verdicts].verdicts = m.verdicts
      BY <2>2, <3>2 DEF BulkImpacts
    <3>4. /\ [impact EXCEPT !.phase = "error"] \in BulkImpacts
          /\ [impact EXCEPT !.phase = "error"].phase = "error"
          /\ [impact EXCEPT !.phase = "error"].request = m.request
          /\ [impact EXCEPT !.phase = "error"].packages = m.packages
      BY <3>2 DEF BulkImpacts
    <3> QED BY <3>3, <3>4
  <2>7. /\ b \in BulkViews /\ b.active = reviewView.active /\ b.asks = reviewView.asks /\ b.ruled = reviewView.ruled
        /\ b.impact.request = m.request /\ b.impact.packages = m.packages
        /\ b.impact.phase = (IF m.kind = "result" THEN "done" ELSE "error")
        /\ m.kind = "result" => b.impact.verdicts = m.verdicts
    <3>1. CASE m.kind = "result"
      BY <1>1, <2>6, <3>1 DEF BulkViews
    <3>2. CASE m.kind # "result"
      BY <1>1, <2>6, <3>2 DEF BulkViews, NoRow
    <3> QED BY <3>1, <3>2
  <2> HIDE DEF b
  <2> USE DEF m, t
  <2>8. reviewView.active.request <= reviewView.asks /\ reviewView.ruled <= reviewView.asks
    BY DEF BulkIInv, ViewOK
  <2>9. ViewOK(b)
    BY <2>3, <2>4, <2>7, <2>8 DEF ViewOK
  <2>10. KnownNow(b, t)
    <3>1. t = <<>> => \A i \in 1 .. Len(toReview) : i = 1
      BY <1>1, TailIs
    <3>2. t = <<>> => \A i \in 1 .. Len(toReview) : IsAnswer(toReview[i])
      BY <1>4, <2>2, <3>1
    <3>3. t = <<>> /\ m.kind = "result" => RowsIn(m.packages) \subseteq scannedRows.rows
      BY <1>4, <1>7, <3>2 DEF BulkIInv, AnswersAreKnown
    <3> QED BY <2>7, <3>3 DEF KnownNow, BulkIInv
  <2>11. /\ reviewView' \in BulkViews /\ ViewOK(reviewView)' /\ Rendered(reviewView)'
         /\ reviewView'.impact = b.impact /\ reviewView'.active = b.active /\ reviewView'.asks = b.asks
         /\ ReviewedRemovals'
    BY <2>1, <2>7, <2>9, <2>10, RenderKeeps DEF BulkIInv
  <2>12. AnswersComeOnce(reviewView, scannedRows, toReview)'
    <3>1. reviewView'.active.request = m.request /\ reviewView'.asks = reviewView.asks
      BY <1>7, <2>7, <2>11
    <3>2. \A i \in 1 .. Len(t) : IsAnswer(t[i]) => t[i].request # m.request
      BY <1>2, <2>2
    <3>3. \A i \in 1 .. Len(t) :
            IsAnswer(t[i]) => /\ t[i].request # 0 /\ t[i].request <= reviewView.asks /\ t[i].request # scannedRows.engine.request
                              /\ t[i].kind = "result" => t[i].verdicts \in [RowsIn(t[i].packages) -> Verdicts]
      BY <1>2 DEF AnswersComeOnce
    <3>4. \A i, j \in 1 .. Len(t) : i < j /\ IsAnswer(t[i]) /\ IsAnswer(t[j]) => t[i].request # t[j].request
      BY <1>2 DEF AnswersComeOnce
    <3>5. scannedRows.engine.request <= reviewView.asks
      BY <1>2 DEF AnswersComeOnce
    <3> HIDE DEF m, t
    <3> QED BY <1>1, <2>3, <3>1, <3>2, <3>3, <3>4, <3>5 DEF AnswersComeOnce
  <2>13. AnswersAreKnown(reviewView, scannedRows, toReview)'
    <3>1. (\A i \in 1 .. Len(t) : IsAnswer(t[i])) => \A i \in 1 .. Len(toReview) : IsAnswer(toReview[i])
      <4>1. \A i \in 1 .. Len(toReview) : i = 1 \/ (i - 1 \in 1 .. Len(t) /\ toReview[i] = t[i - 1])
        BY <1>1, TailIs
      <4> HIDE DEF t
      <4> QED BY <1>4, <2>2, <4>1
    <3>2. (\A i \in 1 .. Len(t) : IsAnswer(t[i])) /\ m.kind = "result" => RowsIn(m.packages) \subseteq scannedRows.rows
      BY <1>4, <1>7, <3>1 DEF BulkIInv, AnswersAreKnown
    <3>3. /\ reviewView'.active.request = m.request /\ reviewView'.impact.packages = m.packages
          /\ reviewView'.impact.phase = "done" => m.kind = "result"
      BY <1>7, <2>7, <2>11
    <3>4. \A i \in 1 .. Len(t) : t[i].kind = "result" => t[i].request # m.request
      BY <1>2, <2>2 DEF IsAnswer
    <3> HIDE DEF m, t
    <3> QED BY <1>1, <2>3, <3>2, <3>3, <3>4 DEF AnswersAreKnown
  <2> QED BY <1>1, <2>11, <2>12, <2>13 DEF BulkIInv, BulkTypeOK
<1> QED BY <1>5, <1>6, <1>7

-----------------------------------------------------------------------------
(* The theorems *)

\* Nothing is reviewed when the dashboard opens.
LEMMA BulkBegins == ASSUME BulkInit PROVE BulkIInv
<1>1. NoAsk \in [request : Nat, packages : Seq(ReviewRows)] /\ NoAsk.request = 0
  BY DEF NoAsk
<1>2. NoEngine \in [request : Nat, packages : Seq(ReviewRows), cancelled : BOOLEAN] /\ NoEngine.request = 0
  BY DEF NoEngine
<1>3. IdleImpact \in BulkImpacts /\ IdleImpact.phase = "idle" /\ IdleImpact.request = 0
  BY JudgementsMade DEF IdleImpact, BulkImpacts
<1>4. /\ reviewView \in BulkViews /\ reviewView.impact = IdleImpact /\ reviewView.active = NoAsk
      /\ reviewView.asks = 0 /\ reviewView.ruled = 0
  BY <1>1, <1>3 DEF BulkInit, BulkViews
<1>5. /\ scannedRows \in BulkHosts /\ scannedRows.engine = NoEngine
      /\ scannedRows.rows = scannedRows.declared
  BY <1>2 DEF BulkInit, BulkHosts
<1>6. toReview \in Seq(BulkMessages) /\ Len(toReview) = 0
  BY DEF BulkInit
<1>7. ViewOK(reviewView) /\ Rendered(reviewView)
  BY <1>1, <1>3, <1>4 DEF ViewOK, Rendered
<1>8. AnswersComeOnce(reviewView, scannedRows, toReview)
  BY <1>2, <1>4, <1>5, <1>6 DEF AnswersComeOnce
<1>9. AnswersAreKnown(reviewView, scannedRows, toReview)
  BY <1>2, <1>3, <1>4, <1>5, <1>6 DEF AnswersAreKnown
<1>10. ReviewedRemovals
  BY DEF BulkInit, ReviewedRemovals, SubmittedIsReviewed, SubmittedIsAccepted
<1> QED BY <1>4, <1>5, <1>6, <1>7, <1>8, <1>9, <1>10 DEF BulkIInv, BulkTypeOK

\* What the user, the webview, the host and the project do keeps the invariant.
LEMMA BulkKeeps == BulkIInv /\ [BulkNext]_bulkVars => BulkIInv'
<1> SUFFICES ASSUME BulkIInv, [BulkNext]_bulkVars PROVE BulkIInv'
  OBVIOUS
<1>1. ASSUME NEW matched \in CriteriaMatches, OpenReview(matched) \/ Rematch(matched) PROVE BulkIInv'
  BY <1>1, OpenReviewKeeps, RematchKeeps
<1>2. ASSUME NEW r \in ReviewRows, ToggleRow(r) \/ OpenManageOf(r) PROVE BulkIInv'
  BY <1>2, ToggleRowKeeps, ManageKeeps
<1>3. ASSUME NEW declared \in LaterRows, ProjectChanges(declared) PROVE BulkIInv'
  BY <1>3, ProjectChangesKeeps
<1>4. CASE ContinueToReview \/ BackToCriteria
  BY <1>4, StepKeeps
<1>5. CASE ToggleAll
  BY <1>5, ToggleAllKeeps
<1>6. CASE CloseModal
  BY <1>6, CloseModalKeeps
<1>7. CASE RemoveClick \/ AskAgain
  BY <1>7, RemoveClickKeeps
<1>8. CASE CancelAnalysis
  BY <1>8, CancelAnalysisKeeps
<1>9. CASE LeaveManage \/ RemovalOver
  BY <1>9, ManageKeeps
<1>10. CASE RemoveFromManage
  BY <1>10, RemoveFromManageKeeps
<1>11. CASE ReviewReceives
  BY <1>11, ReviewReceivesKeeps
<1>12. CASE AnswerImpact
  BY <1>12, AnswerImpactKeeps
<1>13. CASE RescanEnds
  BY <1>13, RescanEndsKeeps
<1>14. CASE UNCHANGED bulkVars
  <2>1. UNCHANGED <<reviewView, scannedRows, toReview, bulkSent>>
    BY <1>14 DEF bulkVars
  <2>2. ReviewedRemovals'
    BY <2>1, NothingSubmitted DEF BulkIInv
  <2> QED BY <2>1, <2>2 DEF BulkIInv, BulkTypeOK
<1> QED BY <1>1, <1>2, <1>3, <1>4, <1>5, <1>6, <1>7, <1>8, <1>9, <1>10, <1>11, <1>12, <1>13, <1>14 DEF BulkNext

\* The invariant holds of the review of removals, whatever is matched, judged and declared.
THEOREM BulkInvariant == BulkSpec => []BulkIInv
<1>1. BulkInit => BulkIInv
  BY BulkBegins
<1> QED BY <1>1, BulkKeeps, PTL DEF BulkSpec

\* A removal that is submitted was reviewed, as it is and row by row, and the host takes it.
THEOREM ReviewedRemovalsAlways == BulkSpec => []ReviewedRemovals
<1>1. BulkIInv => ReviewedRemovals
  BY DEF BulkIInv
<1> QED BY <1>1, BulkInvariant, PTL

-----------------------------------------------------------------------------
(* The pool.                                                               *)

Outcomes == {"ok", "failed", "CANCELLED"}

\* What a drain may hold.
Holdable == Items \cup {0, NoItem}

PoolFlagsOK == sequential \in BOOLEAN /\ poolAborted \in BOOLEAN
PoolTypeOK ==
  /\ next \in Nat \ {0} /\ completed \in Nat
  /\ holds \in [Drains -> Holdable]
  /\ results \in [Items -> Outcomes \cup {"none"}]
  /\ nSettled \in [Items -> Nat]
  /\ dispatched \subseteq Items

\* An item has a result once it was settled, which happens once.
SettledOnce == \A i \in Items : nSettled[i] \in {0, 1} /\ (nSettled[i] = 1 <=> results[i] # "none")

\* Items are handed out in order: the next one and those behind it are untouched, each of the
\* others has one holder or was settled.
LaterAreUntouched == \A i \in Items : i >= next => nSettled[i] = 0
HeldAreOpen == \A d \in Drains : holds[d] \in Items => holds[d] < next /\ nSettled[holds[d]] = 0
HeldOnce == \A d, e \in Drains : d # e /\ holds[d] \in Items => holds[d] # holds[e]
EarlierAreCovered ==
  ~sequential => \A i \in Items : i < next => nSettled[i] = 1 \/ \E d \in Drains : holds[d] = i
HandedOutInOrder == LaterAreUntouched /\ HeldAreOpen /\ HeldOnce /\ EarlierAreCovered

\* A drain of a pool ends when there is no item left.
DrainsEndLast == ~sequential => \A d \in Drains : holds[d] = NoItem => next > NItems

\* A batch has one drain, which is at most one item ahead of the count.
BatchCounts ==
  sequential =>
    /\ \A d \in Drains \ {1} : holds[d] = NoItem
    /\ next <= NItems + 1 /\ completed < next
    /\ \A i \in 1 .. completed : results[i] # "none"
    /\ 1 \in Drains =>
         /\ holds[1] = 0 => completed = next - 1
         /\ holds[1] \in Items => holds[1] = next - 1 /\ completed = next - 2
         /\ holds[1] = NoItem /\ ~poolAborted => completed = NItems

\* What is held after the signal was held before.
HeldWereDispatched ==
  poolAborted => \A d \in Drains : holds[d] \in Items => holds[d] \in dispatched

PoolIInv ==
  /\ PoolFlagsOK /\ PoolTypeOK /\ SettledOnce /\ HandedOutInOrder /\ DrainsEndLast /\ BatchCounts /\ HeldWereDispatched

\* Items and drains are numbered from one; there is a drain if there is an item.
LEMMA PoolBounds ==
  /\ NItems \in Nat /\ Items \subseteq Nat /\ 0 \notin Items /\ NoItem \notin Items /\ NoItem # 0
  /\ \A i \in Nat : i \in Items <=> 1 <= i /\ i <= NItems
  /\ Drains \subseteq Nat
  /\ (1 \in Drains <=> NItems # 0) /\ (Drains = {} <=> NItems = 0)
  /\ \A i \in Items : 1 \in Drains
  BY PoolAssumption DEF Items, NoItem, Drains

\* A pool starts with every drain before its first item, a batch with one.
LEMMA PoolInitIInv == PoolInit => PoolIInv
<1>. SUFFICES ASSUME PoolInit PROVE PoolIInv
  OBVIOUS
<1>. USE PoolBounds DEF PoolInit
<1>1. PoolFlagsOK
  BY DEF PoolFlagsOK
<1>0. PoolTypeOK
  <2>1. holds \in [Drains -> Holdable]
    BY DEF Holdable
  <2>2. nSettled \in [Items -> Nat] /\ results \in [Items -> Outcomes \cup {"none"}]
    BY DEF Outcomes
  <2>. QED
    BY <2>1, <2>2 DEF PoolTypeOK
<1>2. SettledOnce
  BY DEF SettledOnce
<1>3. HandedOutInOrder
  BY DEF HandedOutInOrder, LaterAreUntouched, HeldAreOpen, HeldOnce, EarlierAreCovered
<1>4. DrainsEndLast
  BY DEF DrainsEndLast, Started
<1>5. BatchCounts
  BY DEF BatchCounts, Started
<1>6. HeldWereDispatched
  BY DEF HeldWereDispatched
<1>. QED
  BY <1>0, <1>1, <1>2, <1>3, <1>4, <1>5, <1>6 DEF PoolIInv

\* Every step of a pool or a batch keeps the invariant.
LEMMA PoolStepIInv == PoolIInv /\ [PoolNext]_poolVars => PoolIInv'
<1>. SUFFICES ASSUME PoolIInv, [PoolNext]_poolVars PROVE PoolIInv'
  OBVIOUS
<1>. USE PoolBounds DEF PoolIInv
<1>1. ASSUME NEW d \in Drains, TakeItem(d) PROVE PoolIInv'
  <2>. USE <1>1
  <2>1. sequential' = sequential /\ poolAborted' = poolAborted /\ ~sequential
    BY DEF TakeItem
  <2>2. next' = next + 1 /\ completed' = completed /\ dispatched' = dispatched /\ holds[d] = 0
    BY DEF TakeItem
  <2>3. CASE next > NItems
    <3>1. holds' = [holds EXCEPT ![d] = NoItem] /\ results' = results /\ nSettled' = nSettled
      BY <2>3 DEF TakeItem
    <3>. USE <2>2, <3>1
    <3>2. PoolFlagsOK'
      BY <2>1 DEF PoolFlagsOK
    <3>3. PoolTypeOK'
      BY DEF PoolTypeOK, Holdable
    <3>6. SettledOnce'
      BY DEF SettledOnce
    <3>4. HandedOutInOrder'
      <4>. USE DEF HandedOutInOrder
      <4>1. LaterAreUntouched'
        BY DEF PoolTypeOK, LaterAreUntouched, HeldAreOpen
      <4>2. HeldAreOpen'
        <5>1. ASSUME NEW e \in Drains, holds'[e] \in Items PROVE holds'[e] < next' /\ nSettled'[holds'[e]] = 0
          <6>1. CASE e = d
            BY <5>1, <6>1 DEF PoolTypeOK, HeldAreOpen, LaterAreUntouched
          <6>2. CASE e # d
            <7>1. holds'[e] = holds[e] /\ holds[e] \in Items /\ holds[e] < next /\ nSettled[holds[e]] = 0
              BY <5>1, <6>2 DEF PoolTypeOK, HeldAreOpen
            <7>2. holds[e] # holds[d]
              BY <6>2, <7>1 DEF HeldOnce
            <7>3. PICK i \in Items : holds'[e] = i /\ i < next /\ nSettled[i] = 0
              BY <7>1
            <7>4. i < next' /\ nSettled'[i] = 0
              BY <7>1, <7>2, <7>3 DEF PoolTypeOK
            <7>. QED
              BY <7>3, <7>4
          <6>. QED
            BY <6>1, <6>2
        <5>. QED
          BY <5>1 DEF HeldAreOpen
      <4>3. HeldOnce'
        BY DEF PoolTypeOK, HeldOnce, HeldAreOpen
      <4>4. EarlierAreCovered'
        <5>1. ASSUME NEW i \in Items, i < next' PROVE nSettled'[i] = 1 \/ \E e \in Drains : holds'[e] = i
          <6>1. i = next \/ (i < next /\ (nSettled[i] = 1 \/ \E e \in Drains : holds[e] = i))
            BY <5>1, <2>1 DEF PoolTypeOK, EarlierAreCovered
          <6>. QED
            BY <6>1, <5>1, <2>3 DEF PoolTypeOK, SettledOnce, HeldAreOpen, LaterAreUntouched
        <5>. QED
          BY <5>1 DEF EarlierAreCovered
      <4>. QED
        BY <4>1, <4>2, <4>3, <4>4
    <3>5. DrainsEndLast' /\ BatchCounts' /\ HeldWereDispatched'
      BY <2>1, <2>3 DEF PoolTypeOK, DrainsEndLast, BatchCounts, HeldWereDispatched
    <3>. QED
      BY <3>2, <3>3, <3>4, <3>5, <3>6
  <2>4. CASE ~(next > NItems) /\ poolAborted
    <3>1. /\ holds' = holds /\ results' = [results EXCEPT ![next] = "CANCELLED"]
          /\ nSettled' = [nSettled EXCEPT ![next] = @ + 1]
      BY <2>4 DEF TakeItem, SettleItem
    <3>2. next \in Items
      BY <2>4 DEF PoolTypeOK
    <3>. USE <2>2, <3>1, <3>2
    <3>3. PoolFlagsOK'
      BY <2>1 DEF PoolFlagsOK
    <3>4. PoolTypeOK'
      <4>1. (results \in [Items -> Outcomes \cup {"none"}])'
        BY DEF PoolTypeOK, Outcomes
      <4>2. (nSettled \in [Items -> Nat])'
        BY DEF PoolTypeOK
      <4>. QED
        BY <4>1, <4>2 DEF PoolTypeOK
    <3>5. SettledOnce'
      BY DEF PoolTypeOK, SettledOnce, HandedOutInOrder, LaterAreUntouched, HeldAreOpen
    <3>6. HandedOutInOrder'
      <4>. USE DEF HandedOutInOrder
      <4>1. LaterAreUntouched'
        BY DEF PoolTypeOK, LaterAreUntouched, HeldAreOpen
      <4>2. HeldAreOpen'
        <5>1. ASSUME NEW e \in Drains, holds'[e] \in Items PROVE holds'[e] < next' /\ nSettled'[holds'[e]] = 0
          <6>1. CASE e = d
            BY <5>1, <6>1 DEF PoolTypeOK, HeldAreOpen, LaterAreUntouched
          <6>2. CASE e # d
            <7>1. holds'[e] = holds[e] /\ holds[e] \in Items /\ holds[e] < next /\ nSettled[holds[e]] = 0
              BY <5>1, <6>2 DEF PoolTypeOK, HeldAreOpen
            <7>2. holds[e] # holds[d]
              BY <6>2, <7>1 DEF HeldOnce
            <7>3. PICK i \in Items : holds'[e] = i /\ i < next /\ nSettled[i] = 0
              BY <7>1
            <7>4. i < next' /\ nSettled'[i] = 0
              BY <7>1, <7>2, <7>3 DEF PoolTypeOK
            <7>. QED
              BY <7>3, <7>4
          <6>. QED
            BY <6>1, <6>2
        <5>. QED
          BY <5>1 DEF HeldAreOpen
      <4>3. HeldOnce'
        BY DEF PoolTypeOK, HeldOnce, HeldAreOpen
      <4>4. EarlierAreCovered'
        <5>1. ASSUME NEW i \in Items, i < next' PROVE nSettled'[i] = 1 \/ \E e \in Drains : holds'[e] = i
          <6>1. i = next \/ (i < next /\ (nSettled[i] = 1 \/ \E e \in Drains : holds[e] = i))
            BY <5>1, <2>1 DEF PoolTypeOK, EarlierAreCovered
          <6>. QED
            BY <6>1, <5>1 DEF PoolTypeOK, SettledOnce, HeldAreOpen, LaterAreUntouched
        <5>. QED
          BY <5>1 DEF EarlierAreCovered
      <4>. QED
        BY <4>1, <4>2, <4>3, <4>4
    <3>7. DrainsEndLast' /\ BatchCounts' /\ HeldWereDispatched'
      BY <2>1, <2>4 DEF PoolTypeOK, DrainsEndLast, BatchCounts, HeldWereDispatched
    <3>. QED
      BY <3>3, <3>4, <3>5, <3>6, <3>7
  <2>5. CASE ~(next > NItems) /\ ~poolAborted
    <3>1. holds' = [holds EXCEPT ![d] = next] /\ results' = results /\ nSettled' = nSettled
      BY <2>5 DEF TakeItem
    <3>2. next \in Items
      BY <2>5 DEF PoolTypeOK
    <3>. USE <2>2, <3>1, <3>2
    <3>3. PoolFlagsOK'
      BY <2>1 DEF PoolFlagsOK
    <3>4. PoolTypeOK'
      BY DEF PoolTypeOK, Holdable
    <3>7. SettledOnce'
      BY DEF SettledOnce
    <3>5. HandedOutInOrder'
      <4>. USE DEF HandedOutInOrder
      <4>1. LaterAreUntouched'
        BY DEF PoolTypeOK, LaterAreUntouched, HeldAreOpen
      <4>2. HeldAreOpen'
        <5>1. ASSUME NEW e \in Drains, holds'[e] \in Items PROVE holds'[e] < next' /\ nSettled'[holds'[e]] = 0
          <6>1. CASE e = d
            BY <5>1, <6>1 DEF PoolTypeOK, HeldAreOpen, LaterAreUntouched
          <6>2. CASE e # d
            <7>1. holds'[e] = holds[e] /\ holds[e] \in Items /\ holds[e] < next /\ nSettled[holds[e]] = 0
              BY <5>1, <6>2 DEF PoolTypeOK, HeldAreOpen
            <7>2. holds[e] # holds[d]
              BY <6>2, <7>1 DEF HeldOnce
            <7>3. PICK i \in Items : holds'[e] = i /\ i < next /\ nSettled[i] = 0
              BY <7>1
            <7>4. i < next' /\ nSettled'[i] = 0
              BY <7>1, <7>2, <7>3 DEF PoolTypeOK
            <7>. QED
              BY <7>3, <7>4
          <6>. QED
            BY <6>1, <6>2
        <5>. QED
          BY <5>1 DEF HeldAreOpen
      <4>3. HeldOnce'
        BY DEF PoolTypeOK, HeldOnce, HeldAreOpen
      <4>4. EarlierAreCovered'
        <5>1. ASSUME NEW i \in Items, i < next' PROVE nSettled'[i] = 1 \/ \E e \in Drains : holds'[e] = i
          <6>1. i = next \/ (i < next /\ (nSettled[i] = 1 \/ \E e \in Drains : holds[e] = i))
            BY <5>1, <2>1 DEF PoolTypeOK, EarlierAreCovered
          <6>. QED
            BY <6>1, <5>1 DEF PoolTypeOK, SettledOnce, HeldAreOpen, LaterAreUntouched
        <5>. QED
          BY <5>1 DEF EarlierAreCovered
      <4>. QED
        BY <4>1, <4>2, <4>3, <4>4
    <3>6. DrainsEndLast' /\ BatchCounts' /\ HeldWereDispatched'
      BY <2>1, <2>5 DEF PoolTypeOK, DrainsEndLast, BatchCounts, HeldWereDispatched
    <3>. QED
      BY <3>3, <3>4, <3>5, <3>6, <3>7
  <2>. QED
    BY <2>3, <2>4, <2>5
<1>2. ASSUME NEW d \in Drains, NEW r \in Outcomes, WorkerEnds(d, r) PROVE PoolIInv'
  <2>. USE <1>2
  <2>1. sequential' = sequential /\ poolAborted' = poolAborted /\ ~sequential
    BY DEF WorkerEnds
  <2>2. /\ next' = next /\ completed' = completed /\ dispatched' = dispatched /\ holds[d] \in Items
        /\ holds' = [holds EXCEPT ![d] = 0] /\ results' = [results EXCEPT ![holds[d]] = r]
        /\ nSettled' = [nSettled EXCEPT ![holds[d]] = @ + 1]
    BY DEF WorkerEnds, SettleItem
  <2>. USE <2>2
  <2>3. PoolFlagsOK'
    BY <2>1 DEF PoolFlagsOK
  <2>4. PoolTypeOK'
    <3>1. (results \in [Items -> Outcomes \cup {"none"}])'
      BY DEF PoolTypeOK
    <3>2. (nSettled \in [Items -> Nat])'
      <4>1. PICK i \in Items : holds[d] = i
        OBVIOUS
      <4>2. nSettled' = [nSettled EXCEPT ![i] = nSettled[i] + 1] /\ nSettled \in [Items -> Nat]
        BY <4>1 DEF PoolTypeOK
      <4>. HIDE <1>2, <2>2
      <4>. QED
        BY <4>2
    <3>3. (holds \in [Drains -> Holdable])'
      BY DEF PoolTypeOK, Holdable
    <3>. QED
      BY <3>1, <3>2, <3>3 DEF PoolTypeOK
  <2>5. SettledOnce'
    BY DEF PoolTypeOK, SettledOnce, HandedOutInOrder, LaterAreUntouched, HeldAreOpen, Outcomes
  <2>6. HandedOutInOrder'
    <3>. USE DEF HandedOutInOrder
    <3>1. LaterAreUntouched'
      BY DEF PoolTypeOK, LaterAreUntouched, HeldAreOpen
    <3>2. HeldAreOpen'
      <4>1. ASSUME NEW e \in Drains, holds'[e] \in Items PROVE holds'[e] < next' /\ nSettled'[holds'[e]] = 0
        <5>1. CASE e = d
          BY <4>1, <5>1 DEF PoolTypeOK, HeldAreOpen, LaterAreUntouched
        <5>2. CASE e # d
          <6>1. holds'[e] = holds[e] /\ holds[e] \in Items /\ holds[e] < next /\ nSettled[holds[e]] = 0
            BY <4>1, <5>2 DEF PoolTypeOK, HeldAreOpen
          <6>. QED
            BY <5>2, <6>1 DEF PoolTypeOK, HeldOnce
        <5>. QED
          BY <5>1, <5>2
      <4>. QED
        BY <4>1 DEF HeldAreOpen
    <3>3. HeldOnce'
      BY DEF PoolTypeOK, HeldOnce, HeldAreOpen
    <3>4. EarlierAreCovered'
      <4>1. ASSUME NEW i \in Items, i < next' PROVE nSettled'[i] = 1 \/ \E e \in Drains : holds'[e] = i
        <5>1. i = next \/ (i < next /\ (nSettled[i] = 1 \/ \E e \in Drains : holds[e] = i))
          BY <4>1, <2>1 DEF PoolTypeOK, EarlierAreCovered
        <5>. QED
          BY <5>1, <4>1 DEF PoolTypeOK, SettledOnce, HeldAreOpen, LaterAreUntouched
      <4>. QED
        BY <4>1 DEF EarlierAreCovered
    <3>. QED
      BY <3>1, <3>2, <3>3, <3>4
  <2>7. DrainsEndLast' /\ BatchCounts' /\ HeldWereDispatched'
    BY <2>1 DEF PoolTypeOK, DrainsEndLast, BatchCounts, HeldWereDispatched
  <2>. QED
    BY <2>3, <2>4, <2>5, <2>6, <2>7
<1>3. CASE NextInBatch
  <2>. USE <1>3 DEF NextInBatch
  <2>1. PoolFlagsOK'
    BY DEF PoolFlagsOK
  <2>2. PoolTypeOK'
    BY DEF PoolTypeOK, Holdable, Outcomes
  <2>3. SettledOnce'
    BY DEF PoolTypeOK, Holdable, SettledOnce, HandedOutInOrder, HeldAreOpen, Outcomes
  <2>4. HandedOutInOrder'
    BY DEF PoolTypeOK, Holdable, HandedOutInOrder, LaterAreUntouched, HeldAreOpen, HeldOnce, EarlierAreCovered, BatchCounts
  <2>5. DrainsEndLast'
    BY DEF PoolTypeOK, Holdable, DrainsEndLast
  <2>6. BatchCounts'
    BY DEF PoolTypeOK, Holdable, BatchCounts
  <2>7. HeldWereDispatched'
    BY DEF PoolTypeOK, Holdable, HeldWereDispatched
  <2>. QED
    BY <2>1, <2>2, <2>3, <2>4, <2>5, <2>6, <2>7
<1>4. ASSUME NEW r \in Outcomes, BatchItemEnds(r) PROVE PoolIInv'
  <2>. USE <1>4 DEF BatchItemEnds, SettleItem
  <2>0. 1 \in Drains
    OBVIOUS
  <2>1. PoolFlagsOK'
    BY DEF PoolFlagsOK
  <2>2. PoolTypeOK'
    BY <2>0 DEF PoolTypeOK, Holdable, Outcomes
  <2>3. SettledOnce'
    BY <2>0 DEF PoolTypeOK, Holdable, SettledOnce, HandedOutInOrder, HeldAreOpen, Outcomes
  <2>4. HandedOutInOrder'
    BY <2>0 DEF PoolTypeOK, Holdable, HandedOutInOrder, LaterAreUntouched, HeldAreOpen, HeldOnce, EarlierAreCovered, BatchCounts
  <2>5. DrainsEndLast'
    BY <2>0 DEF PoolTypeOK, Holdable, DrainsEndLast
  <2>6. BatchCounts'
    BY <2>0 DEF PoolTypeOK, Holdable, BatchCounts, Outcomes
  <2>7. HeldWereDispatched'
    BY <2>0 DEF PoolTypeOK, Holdable, HeldWereDispatched
  <2>. QED
    BY <2>1, <2>2, <2>3, <2>4, <2>5, <2>6, <2>7
<1>5. CASE AbortPool
  <2>. USE <1>5 DEF AbortPool
  <2>1. PoolFlagsOK'
    BY DEF PoolFlagsOK
  <2>2. PoolTypeOK'
    BY DEF PoolTypeOK, Holdable
  <2>3. SettledOnce' /\ HandedOutInOrder' /\ DrainsEndLast' /\ BatchCounts'
    BY DEF SettledOnce, HandedOutInOrder, LaterAreUntouched, HeldAreOpen, HeldOnce, EarlierAreCovered,
       DrainsEndLast, BatchCounts
  <2>4. HeldWereDispatched'
    BY DEF HeldWereDispatched, PoolTypeOK
  <2>. QED
    BY <2>1, <2>2, <2>3, <2>4
<1>6. CASE UNCHANGED poolVars
  BY <1>6 DEF poolVars, HeldOnce, EarlierAreCovered, LaterAreUntouched, HeldAreOpen, PoolFlagsOK, PoolTypeOK, SettledOnce, HandedOutInOrder, DrainsEndLast,
     BatchCounts, HeldWereDispatched
<1>. QED
  BY <1>1, <1>2, <1>3, <1>4, <1>5, <1>6 DEF PoolNext, Outcomes

\* The invariant accounts for every item.
LEMMA PoolAccounts == PoolIInv => ItemsAreAccountedFor
<1>. SUFFICES ASSUME PoolIInv PROVE ItemsAreAccountedFor
  OBVIOUS
<1>. USE PoolBounds DEF PoolIInv
<1>1. ASSUME PoolDone, ~sequential, NEW i \in Items PROVE nSettled[i] = 1
  <2>1. next > NItems
    BY <1>1 DEF PoolDone, DrainsEndLast
  <2>. QED
    BY <1>1, <2>1 DEF PoolDone, HandedOutInOrder, EarlierAreCovered, PoolTypeOK
<1>2. EachSettledOnce
  BY <1>1 DEF EachSettledOnce, SettledOnce, HandedOutInOrder, HeldOnce
<1>3. ASSUME sequential, PoolDone, ~poolAborted PROVE completed = NItems
  BY <1>3 DEF PoolDone, BatchCounts, PoolTypeOK
<1>4. SignalStopsWork
  BY <1>3 DEF SignalStopsWork, HeldWereDispatched, BatchCounts
<1>. QED
  BY <1>2, <1>4 DEF ItemsAreAccountedFor

\* The pool's invariant holds in every state.
THEOREM PoolInvariant == PoolSpec => []PoolIInv
  BY PoolInitIInv, PoolStepIInv, PTL DEF PoolSpec

\* Whatever fails and whenever the signal comes, no item is lost, settled twice or begun after
\* the signal, for any number of items and workers.
THEOREM PoolAccountsForItems == PoolSpec => []ItemsAreAccountedFor
  BY PoolAccounts, PoolInvariant, PTL

-----------------------------------------------------------------------------
(* The request.                                                            *)

RequestIInv ==
  /\ hop \in Nat
  /\ reply = "none" <=> Unsettled
  /\ RequestsAreSettledOnce

\* A request starts without an answer.
LEMMA RequestInitIInv == HttpInit => RequestIInv
  BY HttpAssumption DEF HttpInit, RequestIInv, RequestsAreSettledOnce, Unsettled

\* What keeps the number of hops keeps their bound.
LEMMA RequestKeepsHop ==
  ASSUME RequestIInv, hop' = hop
  PROVE  hop' \in Nat /\ hop' <= MaxRedirects
  BY DEF RequestIInv, RequestsAreSettledOnce

\* Every step of a request keeps the invariant.
LEMMA RequestStepIInv == RequestIInv /\ [HttpNext]_httpVars => RequestIInv'
<1>. SUFFICES ASSUME RequestIInv, [HttpNext]_httpVars PROVE RequestIInv'
  OBVIOUS
<1>1. ASSUME NEW https \in BOOLEAN, SendRequest(https) PROVE RequestIInv'
  <2>1. hop' \in Nat /\ hop' <= MaxRedirects
    BY <1>1, RequestKeepsHop DEF SendRequest
  <2>. QED
    BY <1>1, <2>1 DEF SendRequest, Reject, RequestIInv, RequestsAreSettledOnce, Unsettled
<1>2. ASSUME NEW kind \in {"bodyless", "plain", "compressed"}, HeadersArrive(kind) PROVE RequestIInv'
  <2>1. hop' \in Nat /\ hop' <= MaxRedirects
    BY <1>2, RequestKeepsHop DEF HeadersArrive
  <2>. QED
    BY <1>2, <2>1 DEF HeadersArrive, RequestIInv, RequestsAreSettledOnce, Unsettled
<1>3. ASSUME NEW kind \in BodyKinds, BodyEnds(kind) PROVE RequestIInv'
  <2>1. CASE tooLarge \/ ~Unsettled
    <3>1. UNCHANGED <<settledFor, listening, reply, hop, wire, callerAborted>>
      BY <1>3, <2>1 DEF BodyEnds, Resolve
    <3>. QED
      BY <3>1 DEF RequestIInv, RequestsAreSettledOnce, Unsettled
  <2>2. CASE ~tooLarge /\ Unsettled
    <3>1. /\ listening' = FALSE /\ callerAborted' = callerAborted
          /\ \/ reply' = "none" /\ hop # MaxRedirects /\ hop' = hop + 1 /\ settledFor' = {} /\ wire' = "closed"
             \/ /\ reply' \in {"response", "NETWORK", "BAD_URL", "TypeError", "TOO_MANY_REDIRECTS"}
                /\ hop' = hop /\ settledFor' = {"response"} /\ wire' = "over"
      BY <1>3, <2>2 DEF BodyEnds, Resolve, BodyKinds
    <3>2. hop' \in Nat /\ hop' <= MaxRedirects
      BY <3>1, HttpAssumption DEF RequestIInv, RequestsAreSettledOnce
    <3>. QED
      BY <3>1, <3>2 DEF RequestIInv, RequestsAreSettledOnce, Unsettled
  <2>. QED
    BY <2>1, <2>2
<1>4. CASE ChunkArrives
  <2>1. hop' \in Nat /\ hop' <= MaxRedirects
    BY <1>4, RequestKeepsHop DEF ChunkArrives
  <2>. QED
    BY <1>4, <2>1 DEF ChunkArrives, Reject, RequestIInv, RequestsAreSettledOnce, Unsettled
<1>5. CASE BodyFails
  <2>1. hop' \in Nat /\ hop' <= MaxRedirects
    BY <1>5, RequestKeepsHop DEF BodyFails
  <2>. QED
    BY <1>5, <2>1 DEF BodyFails, Reject, RequestIInv, RequestsAreSettledOnce, Unsettled
<1>6. CASE RequestFails
  <2>1. hop' \in Nat /\ hop' <= MaxRedirects
    BY <1>6, RequestKeepsHop DEF RequestFails
  <2>. QED
    BY <1>6, <2>1 DEF RequestFails, Reject, RequestIInv, RequestsAreSettledOnce, Unsettled
<1>7. CASE TimesOut
  <2>1. hop' \in Nat /\ hop' <= MaxRedirects
    BY <1>7, RequestKeepsHop DEF TimesOut
  <2>. QED
    BY <1>7, <2>1 DEF TimesOut, Reject, RequestIInv, RequestsAreSettledOnce, Unsettled
<1>8. CASE ConnectionLost \/ RequestCloses
  <2>1. hop' \in Nat /\ hop' <= MaxRedirects
    BY <1>8, RequestKeepsHop DEF ConnectionLost, RequestCloses
  <2>. QED
    BY <1>8, <2>1 DEF ConnectionLost, RequestCloses, RequestIInv, RequestsAreSettledOnce, Unsettled
<1>9. CASE CallerAborts
  <2>1. hop' \in Nat /\ hop' <= MaxRedirects
    BY <1>9, RequestKeepsHop DEF CallerAborts
  <2>. QED
    BY <1>9, <2>1 DEF CallerAborts, Reject, RequestIInv, RequestsAreSettledOnce, Unsettled
<1>10. CASE UNCHANGED httpVars
  BY <1>10 DEF httpVars, RequestIInv, RequestsAreSettledOnce, Unsettled
<1>. QED
  BY <1>1, <1>2, <1>3, <1>4, <1>5, <1>6, <1>7, <1>8, <1>9, <1>10 DEF HttpNext

\* A request is answered once, with what came first, and leaves no listener behind, for any number of
\* redirects and chunks.
THEOREM RequestIsSettledOnce == HttpSpec => []RequestsAreSettledOnce
<1>1. RequestIInv => RequestsAreSettledOnce
  BY DEF RequestIInv
<1>. QED
  BY <1>1, RequestInitIInv, RequestStepIInv, PTL DEF HttpSpec

-----------------------------------------------------------------------------
(* A scan.                                                                 *)

ListStates == {"none", "pending", "ok", "failed", "too-large"}
ScanStages == {"versions", "advisories", "patched", "audit", "fallback", "rows", "thrown"}
ScanTypeOK ==
  /\ scanStage \in ScanStages /\ scanAborted \in BOOLEAN
  /\ packuments \in [Packages -> ListStates] /\ listRequests \in [Packages -> Nat]
  /\ bulk \in {"asking", "enriching", "done"} /\ reported \subseteq NpmFindings /\ advisoriesError \in BOOLEAN

\* A list was asked for once, if at all.
AskedForOnce == \A p \in Packages : listRequests[p] = IF packuments[p] = "none" THEN 0 ELSE 1

\* Unavailable advisories are none; what is identified was reported, or the scan is of no use.
AdvisoriesAreKept ==
  /\ bulk = "asking" => reported = {}
  /\ advisoriesError => reported = {} /\ bulk = "done"
  /\ ~scanAborted => identified \subseteq GhsasOf(reported) /\ GhsasOf(reported) \cap freshCached \subseteq identified

\* What a stage waited for is there, and stays.
StagesWaited ==
  /\ scanStage \in {"patched", "audit", "fallback", "rows"} => bulk = "done"
  /\ scanStage \in {"audit", "fallback", "rows"} => \A p \in FlaggedPackages : ListSettled(p)
  /\ scanStage \in {"fallback", "rows"} => report # <<>>
  /\ scanStage = "rows" => ~scanAborted /\ \A d \in FallbackNodes : ListSettled(d)

ScanIInv == ScanTypeOK /\ AskedForOnce /\ AdvisoriesAreKept /\ StagesWaited

\* A package that is flagged, or that a fix is computed for, is one a list can be asked for.
LEMMA NeededArePackages == FlaggedPackages \subseteq Packages /\ Deps \subseteq Packages /\ FallbackNodes \subseteq Deps
<1>1. FlaggedPackages \subseteq Packages
  BY DEF FlaggedPackages, FindingsBelow, Packages
<1>2. Deps \subseteq Packages
  BY ScanAssumption DEF Packages
<1> QED BY <1>1, <1>2 DEF FallbackNodes

\* Loading asks for what nobody asked for, and disturbs nothing.
LEMMA LoadAsksOnce ==
  ASSUME ScanTypeOK, AskedForOnce, NEW names, Load(names)
  PROVE  /\ packuments' \in [Packages -> ListStates] /\ listRequests' \in [Packages -> Nat] /\ AskedForOnce'
         /\ \A p \in Packages : ListSettled(p) => ListSettled(p)'
<1>1. /\ packuments' = [p \in Packages |-> IF p \in names /\ packuments[p] = "none" THEN "pending" ELSE packuments[p]]
      /\ listRequests' = [p \in Packages |-> listRequests[p] + (IF p \in names /\ packuments[p] = "none" THEN 1 ELSE 0)]
  BY DEF Load
<1>2. packuments' \in [Packages -> ListStates] /\ listRequests' \in [Packages -> Nat]
  BY <1>1 DEF ScanTypeOK, ListStates
<1>3. AskedForOnce'
  BY <1>1 DEF AskedForOnce, ScanTypeOK, ListStates
<1>4. \A p \in Packages : ListSettled(p) => ListSettled(p)'
  BY <1>1 DEF ListSettled
<1> QED BY <1>2, <1>3, <1>4

\* What is flagged, and what a fix is computed for, follow from what was reported and from the audit.
LEMMA NeedsStay ==
  /\ reported' = reported => FlaggedPackages' = FlaggedPackages
  /\ reported' = reported /\ report' = report => FallbackNodes' = FallbackNodes
<1>1. reported' = reported => FlaggedPackages' = FlaggedPackages
  BY DEF FlaggedPackages, FindingsBelow
<1>2. report' = report => AuditFixes' = AuditFixes
  BY DEF AuditFixes
<1>3. reported' = reported /\ report' = report => FallbackNodes' = FallbackNodes
  BY <1>2 DEF FallbackNodes, OwnFix
<1> QED BY <1>1, <1>3

\* The lists: a version, a list or a tag arrives, or fails.
LEMMA ListsKeep ==
  ASSUME ScanIInv, reported' = reported, report' = report, ~ScanOver,
         UNCHANGED <<scanStage, scanAborted, bulk, advisoriesError, freshCached, identified>>,
         packuments' \in [Packages -> ListStates], listRequests' \in [Packages -> Nat], AskedForOnce',
         \A p \in Packages : ListSettled(p) => ListSettled(p)'
  PROVE  ScanIInv'
<1>1. FlaggedPackages' = FlaggedPackages /\ FallbackNodes' = FallbackNodes
  BY NeedsStay
<1>2. StagesWaited'
  BY <1>1, NeededArePackages DEF ScanIInv, StagesWaited, ScanOver
<1>3. ScanTypeOK' /\ AdvisoriesAreKept'
  BY DEF ScanIInv, ScanTypeOK, AdvisoriesAreKept
<1> QED BY <1>2, <1>3 DEF ScanIInv

LEMMA VersionsKeep ==
  ASSUME ScanIInv,
         \/ \E d \in Deps : \E o \in {"ok", "failed", "list"} : LatestEnds(d, o)
         \/ \E d \in Deps : \E o \in {"ok", "failed"} : TagsEnd(d, o)
         \/ \E p \in Packages, o \in {"ok", "failed", "too-large"} : PackumentEnds(p, o)
  PROVE  ScanIInv'
<1>1. ASSUME NEW d \in Deps, NEW o \in {"ok", "failed", "list"}, LatestEnds(d, o) PROVE ScanIInv'
  <2>1. /\ reported' = reported /\ report' = report /\ ~ScanOver
        /\ UNCHANGED <<scanStage, scanAborted, bulk, advisoriesError, freshCached, identified>>
    BY <1>1 DEF LatestEnds, advisoryVars
  <2>2. CASE Load({d})
    BY <2>1, <2>2, LoadAsksOnce, ListsKeep DEF ScanIInv
  <2>3. CASE UNCHANGED <<packuments, listRequests>>
    <3>1. AskedForOnce' /\ \A p \in Packages : ListSettled(p) => ListSettled(p)'
      BY <2>3 DEF ScanIInv, AskedForOnce, ListSettled
    <3> QED BY <2>1, <2>3, <3>1, ListsKeep DEF ScanIInv, ScanTypeOK
  <2> QED BY <1>1, <2>2, <2>3 DEF LatestEnds
<1>2. ASSUME NEW d \in Deps, NEW o \in {"ok", "failed"}, TagsEnd(d, o) PROVE ScanIInv'
  <2>1. /\ reported' = reported /\ report' = report /\ ~ScanOver
        /\ UNCHANGED <<scanStage, scanAborted, bulk, advisoriesError, freshCached, identified, packuments, listRequests>>
    BY <1>2 DEF TagsEnd, advisoryVars
  <2>2. AskedForOnce' /\ \A p \in Packages : ListSettled(p) => ListSettled(p)'
    BY <2>1 DEF ScanIInv, AskedForOnce, ListSettled
  <2> QED BY <2>1, <2>2, ListsKeep DEF ScanIInv, ScanTypeOK
<1>3. ASSUME NEW p \in Packages, NEW o \in {"ok", "failed", "too-large"}, PackumentEnds(p, o) PROVE ScanIInv'
  <2>1. /\ reported' = reported /\ report' = report /\ ~ScanOver
        /\ UNCHANGED <<scanStage, scanAborted, bulk, advisoriesError, freshCached, identified, listRequests>>
        /\ packuments' = [packuments EXCEPT ![p] = o] /\ packuments[p] = "pending"
    BY <1>3 DEF PackumentEnds, advisoryVars
  <2>2. /\ packuments' \in [Packages -> ListStates] /\ listRequests' \in [Packages -> Nat]
        /\ \A q \in Packages : packuments'[q] = IF q = p THEN o ELSE packuments[q]
    BY <2>1 DEF ScanIInv, ScanTypeOK, ListStates
  <2>3. AskedForOnce' /\ \A q \in Packages : ListSettled(q) => ListSettled(q)'
    BY <2>1, <2>2 DEF ScanIInv, AskedForOnce, ListSettled
  <2> QED BY <2>1, <2>2, <2>3, ListsKeep
<1> QED BY <1>1, <1>2, <1>3

\* The advisories: npm answers or does not, and GitHub's pages arrive, fail or are cancelled.
LEMMA AdvisoriesKeep ==
  ASSUME ScanIInv,
         \/ \E s \in SUBSET NpmFindings : BulkAnswers(s)
         \/ BulkFails \/ PageFails \/ PageCancelled
         \/ \E s \in SUBSET GhsasOf(NpmFindings), final \in BOOLEAN : PageArrives(s, final)
  PROVE  ScanIInv'
<1>1. /\ UNCHANGED <<scanStage, scanAborted, packuments, listRequests, report, freshCached>> /\ ~ScanOver /\ bulk # "done"
  BY DEF BulkAnswers, BulkFails, PageFails, PageCancelled, PageArrives
<1>2. StagesWaited'
  BY <1>1 DEF ScanIInv, StagesWaited, ScanTypeOK, ScanStages, ScanOver
<1>3. AskedForOnce'
  BY <1>1 DEF ScanIInv, AskedForOnce
<1>4. ASSUME NEW s \in SUBSET NpmFindings, BulkAnswers(s) PROVE ScanTypeOK' /\ AdvisoriesAreKept'
  BY <1>1, <1>4 DEF ScanIInv, ScanTypeOK, AdvisoriesAreKept, BulkAnswers, GhsasOf
<1>5. CASE BulkFails
  BY <1>1, <1>2, <1>3, <1>5 DEF ScanIInv, ScanTypeOK, AdvisoriesAreKept, BulkFails
<1>6. ASSUME NEW s, NEW final, PageArrives(s, final) PROVE ScanTypeOK' /\ AdvisoriesAreKept'
  BY <1>1, <1>6 DEF ScanIInv, ScanTypeOK, AdvisoriesAreKept, PageArrives, NextChain, Missing, GhsasOf
<1>7. CASE PageFails
  <2>1. /\ UNCHANGED <<reported, advisoriesError, identified>> /\ bulk' \in {"enriching", "done"}
        /\ bulk = "enriching"
    BY <1>7 DEF PageFails, NextChain
  <2>2. ~advisoriesError
    BY <2>1 DEF ScanIInv, AdvisoriesAreKept
  <2> QED BY <1>1, <1>2, <1>3, <2>1, <2>2 DEF ScanIInv, ScanTypeOK, AdvisoriesAreKept
<1>8. CASE PageCancelled
  <2>1. reported' = {} /\ bulk' = "done" /\ advisoriesError' = TRUE /\ scanAborted
    BY <1>8 DEF PageCancelled
  <2>2. ScanTypeOK'
    BY <1>1, <2>1 DEF ScanIInv, ScanTypeOK
  <2>3. AdvisoriesAreKept'
    BY <1>1, <2>1 DEF AdvisoriesAreKept
  <2> QED BY <1>2, <1>3, <2>2, <2>3 DEF ScanIInv
<1> QED BY <1>2, <1>3, <1>4, <1>5, <1>6, <1>7, <1>8 DEF ScanIInv

\* The stages: each begins when what it needs is there, unless the scan was aborted.
LEMMA StagesKeep ==
  ASSUME ScanIInv, VersionsSettle \/ AdvisoriesArrive \/ PatchedSettle \/ AuditArrives \/ BuildRows \/ AbortScan
  PROVE  ScanIInv'
<1>1. /\ UNCHANGED <<bulk, reported, advisoriesError, freshCached, identified, report>>
      /\ scanAborted' \in BOOLEAN /\ (scanAborted => scanAborted')
      /\ FlaggedPackages' = FlaggedPackages /\ FallbackNodes' = FallbackNodes
  BY NeedsStay DEF VersionsSettle, AdvisoriesArrive, PatchedSettle, AuditArrives, BuildRows, AbortScan, advisoryVars,
     ScanIInv, ScanTypeOK
<1>2. AdvisoriesAreKept'
  BY <1>1 DEF ScanIInv, AdvisoriesAreKept
<1>3. /\ packuments' \in [Packages -> ListStates] /\ listRequests' \in [Packages -> Nat] /\ AskedForOnce'
      /\ \A p \in Packages : ListSettled(p) => ListSettled(p)'
  <2>1. CASE Load(FlaggedPackages) \/ Load(FallbackNodes)
    BY <2>1, LoadAsksOnce DEF ScanIInv
  <2>2. CASE UNCHANGED <<packuments, listRequests>>
    BY <2>2 DEF ScanIInv, ScanTypeOK, AskedForOnce, ListSettled
  <2> QED BY <2>1, <2>2 DEF VersionsSettle, AdvisoriesArrive, PatchedSettle, AuditArrives, BuildRows, AbortScan
<1>4. scanStage' \in ScanStages
  BY DEF VersionsSettle, AdvisoriesArrive, PatchedSettle, AuditArrives, BuildRows, AbortScan, Advance, ScanStages,
     ScanIInv, ScanTypeOK
<1>5. ScanTypeOK'
  BY <1>1, <1>3, <1>4 DEF ScanIInv, ScanTypeOK
<1>6. StagesWaited'
  <2>1. \A p \in FlaggedPackages \cup FallbackNodes : ListSettled(p) => ListSettled(p)'
    BY <1>3, NeededArePackages
  <2>2. CASE scanStage' = "thrown"
    BY <2>2 DEF StagesWaited
  <2>3. CASE VersionsSettle /\ scanStage' = "advisories"
    BY <2>3 DEF StagesWaited
  <2>4. CASE AdvisoriesArrive /\ scanStage' = "patched"
    BY <1>1, <2>4 DEF StagesWaited, AdvisoriesArrive
  <2>5. CASE PatchedSettle /\ scanStage' = "audit"
    BY <1>1, <2>1, <2>5 DEF StagesWaited, PatchedSettle, ScanIInv
  <2>6. CASE AuditArrives /\ scanStage' = "fallback"
    BY <1>1, <2>1, <2>6 DEF StagesWaited, AuditArrives, ScanIInv
  <2>7. CASE BuildRows /\ scanStage' = "rows"
    BY <1>1, <2>1, <2>7 DEF StagesWaited, BuildRows, Advance, ScanIInv
  <2>8. CASE AbortScan
    <3>1. UNCHANGED <<scanStage, packuments>> /\ scanStage # "rows"
      BY <2>8 DEF AbortScan, ScanOver
    <3> QED BY <1>1, <2>1, <3>1 DEF StagesWaited, ScanIInv
  <2> QED BY <2>2, <2>3, <2>4, <2>5, <2>6, <2>7, <2>8
          DEF VersionsSettle, AdvisoriesArrive, PatchedSettle, AuditArrives, BuildRows, Advance
<1> QED BY <1>2, <1>3, <1>5, <1>6 DEF ScanIInv

\* The audit ends, once.
LEMMA AuditKeeps ==
  ASSUME ScanIInv, (\E printed \in AuditReports : AuditEnds(printed)) \/ AuditFails
  PROVE  ScanIInv'
<1>1. /\ report = <<>> /\ UNCHANGED <<scanStage, scanAborted, packuments, listRequests, advisoryVars>>
  BY DEF AuditEnds, AuditFails
<1>2. scanStage \notin {"fallback", "rows"}
  BY <1>1 DEF ScanIInv, StagesWaited
<1>3. FlaggedPackages' = FlaggedPackages
  BY <1>1, NeedsStay DEF advisoryVars
<1>4. StagesWaited'
  BY <1>1, <1>2, <1>3 DEF ScanIInv, StagesWaited, advisoryVars, ListSettled
<1> QED BY <1>1, <1>4 DEF ScanIInv, ScanTypeOK, AskedForOnce, AdvisoriesAreKept, advisoryVars

\* The invariant holds of a scan of any dependencies, whatever fails and whenever it is aborted.
THEOREM ScanInvariant == ScanSpec => []ScanIInv
<1>1. ScanInit => ScanIInv
  <2>1. ASSUME ScanInit PROVE ScanIInv
    <3>1. ScanTypeOK /\ AskedForOnce
      BY <2>1 DEF ScanInit, ScanTypeOK, ListStates, ScanStages, AskedForOnce
    <3>2. AdvisoriesAreKept
      BY <2>1 DEF ScanInit, AdvisoriesAreKept, GhsasOf
    <3>3. StagesWaited
      BY <2>1 DEF ScanInit, StagesWaited
    <3> QED BY <3>1, <3>2, <3>3 DEF ScanIInv
  <2> QED BY <2>1
<1>2. ScanIInv /\ [ScanNext]_scanVars => ScanIInv'
  <2>1. CASE ScanNext
    BY <2>1, VersionsKeep, AdvisoriesKeep, AuditKeeps, StagesKeep DEF ScanNext
  <2>2. CASE UNCHANGED scanVars
    <3>1. FlaggedPackages' = FlaggedPackages /\ FallbackNodes' = FallbackNodes
      BY <2>2, NeedsStay DEF scanVars
    <3> QED BY <2>2, <3>1
            DEF scanVars, ScanIInv, ScanTypeOK, AskedForOnce, AdvisoriesAreKept, StagesWaited, ListSettled
  <2> QED BY <2>1, <2>2
<1> QED BY <1>1, <1>2, PTL DEF ScanSpec

\* A scan that was aborted gives no rows, and rows say what they are built from.
THEOREM RowsSayWhatTheyKnow == ScanSpec => []RowsAreHonest
<1>1. ScanIInv => RowsAreHonest
  BY DEF ScanIInv, ScanTypeOK, AdvisoriesAreKept, StagesWaited, RowsAreHonest, Availability, ScannedRow, FindingsBelow, GhsasOf
<1> QED BY <1>1, ScanInvariant, PTL

\* Each version list is asked for once, and is there when rows are built that depend on it.
THEOREM ListsAreAskedForOnce == ScanSpec => []ListsAreShared
<1>1. ScanIInv => ListsAreShared
  <2> SUFFICES ASSUME ScanIInv PROVE ListsAreShared
    OBVIOUS
  <2>1. \A p \in Packages : listRequests[p] <= 1 /\ (listRequests[p] = 0 <=> packuments[p] = "none")
    BY DEF ScanIInv, AskedForOnce
  <2>2. scanStage = "rows" => \A p \in FlaggedPackages \cup FallbackNodes : ListSettled(p)
    BY DEF ScanIInv, StagesWaited
  <2> QED BY <2>1, <2>2 DEF ListsAreShared
<1> QED BY <1>1, ScanInvariant, PTL

-----------------------------------------------------------------------------
(* The child process.                                                      *)

Stops == {"AbortError", "TimeoutError", "Oversized"}

\* A stop sets the timer of the grace period with its reason, and an answer is final: the process
\* is gone, and nothing that could stop it is left.
ProcessIInv ==
  /\ leader = "none" => failure = "none" /\ ~pipes
  /\ failure \in Stops => grace # "unset"
  /\ answer # "none" => ~pipes /\ leader \in {"none", "dead"}
  /\ StoppedIsGone

\* A process starts with nothing that could be stopped.
LEMMA ProcessInitIInv == ProcessInit => ProcessIInv
  BY DEF ProcessInit, ProcessIInv, StoppedIsGone, Stops

\* Every step of a process keeps the invariant.
LEMMA ProcessStepIInv == ProcessIInv /\ [ProcessNext]_processVars => ProcessIInv'
<1>. SUFFICES ASSUME ProcessIInv, [ProcessNext]_processVars PROVE ProcessIInv'
  OBVIOUS
<1>. USE DEF ProcessIInv, StoppedIsGone, Stops
<1>1. CASE Spawn
  BY <1>1 DEF Spawn
<1>2. CASE Forks
  BY <1>2 DEF Forks
<1>3. CASE Exits
  BY <1>3 DEF Exits
<1>4. CASE PipesClose
  BY <1>4 DEF PipesClose
<1>5. CASE Aborts
  BY <1>5 DEF Aborts, Stop, Terminated
<1>6. CASE DeadlinePasses
  BY <1>6 DEF DeadlinePasses, Stop, Terminated
<1>7. CASE AnswerTooLong
  BY <1>7 DEF AnswerTooLong, Stop, Terminated
<1>8. CASE GraceEnds
  BY <1>8 DEF GraceEnds, Terminated
<1>9. CASE Closes
  BY <1>9 DEF Closes, Terminated
<1>10. CASE UNCHANGED processVars
  BY <1>10 DEF processVars
<1>. QED
  BY <1>1, <1>2, <1>3, <1>4, <1>5, <1>6, <1>7, <1>8, <1>9, <1>10 DEF ProcessNext

\* A run that was stopped is settled with the first reason, and only when nothing of it runs any
\* more, whatever its processes do with the signals.
THEOREM StoppedProcessIsGone == ProcessSpec => []StoppedIsGone
<1>1. ProcessIInv => StoppedIsGone
  BY DEF ProcessIInv
<1>. QED
  BY <1>1, ProcessInitIInv, ProcessStepIInv, PTL DEF ProcessSpec

-----------------------------------------------------------------------------
(* The session of upgrade tasks.                                           *)

TaskStates == {"none", "requested", "live", "succeeded", "failed"}

SessionTypeOK ==
  /\ callKind \in [Calls -> Kinds]
  /\ length \in [Calls -> 0..MaxTasks]
  /\ done \in [Calls -> Nat]
  /\ outcome \in [Calls -> {"new", "pending", "ok"} \cup Failures]
  /\ tasks \in [Task -> TaskStates]

\* The tasks of a call before the current one have succeeded, those behind it are not begun.
TasksInOrder(c) ==
  /\ done[c] <= length[c]
  /\ \A i \in 1..MaxTasks : i <= done[c] => tasks[<<c, i>>] = "succeeded"
  /\ \A i \in 1..MaxTasks : i > done[c] + 1 \/ i > length[c] => tasks[<<c, i>>] = "none"

\* What a call has reported, or waits for, is the state of its current task.
OutcomeIsCurrent(c) ==
  /\ outcome[c] = "new" => done[c] = 0 /\ \A i \in 1..MaxTasks : tasks[<<c, i>>] = "none"
  /\ outcome[c] = "ok" => done[c] = length[c]
  /\ outcome[c] = "pending" => done[c] < length[c] /\ tasks[Current(c)] \in {"requested", "live"}
  /\ outcome[c] \in {"TASK_FAILED", "TASK_START_FAILED"} => done[c] < length[c] /\ tasks[Current(c)] = "failed"

\* WaitingIsTracked of one call.
Tracked(c) ==
  /\ (outcome[c] = "pending") <=> c \in pendingRuns
  /\ c \in listeners <=> c \in pendingRuns /\ tasks[Current(c)] = "live"

CallOK(c) == TasksInOrder(c) /\ OutcomeIsCurrent(c) /\ Tracked(c)

\* The first call of a prepared reconciliation marks it.
ExecutionMarks == \A c \in Calls : callKind[c] = "reconcile" /\ outcome[c] # "new" => prepared = "executed"

SessionIInv ==
  /\ SessionTypeOK /\ (\A c \in Calls : CallOK(c)) /\ ExecutionMarks /\ ExecutedOnce

\* A step that leaves a call and its tasks alone keeps what holds of it.
LEMMA OtherCallStays ==
  ASSUME NEW c \in Calls, CallOK(c),
         done'[c] = done[c], outcome'[c] = outcome[c], length'[c] = length[c],
         \A i \in 1..MaxTasks : tasks'[<<c, i>>] = tasks[<<c, i>>],
         c \in pendingRuns' <=> c \in pendingRuns, c \in listeners' <=> c \in listeners,
         SessionTypeOK, SessionTypeOK'
  PROVE  CallOK(c)'
<1>1. TasksInOrder(c)'
  BY DEF CallOK, TasksInOrder
<1>2. Current(c)' = Current(c)
  BY DEF Current
<1>3. done[c] \in Nat /\ length[c] \in 0..MaxTasks
  BY DEF SessionTypeOK
<1>4. done[c] < length[c] => tasks'[Current(c)] = tasks[Current(c)]
  BY <1>3, SessionAssumption DEF Current
<1>5. OutcomeIsCurrent(c)'
  BY <1>2, <1>4 DEF CallOK, OutcomeIsCurrent
<1>6. Tracked(c)'
  BY <1>2, <1>4 DEF CallOK, OutcomeIsCurrent, Tracked
<1>. QED
  BY <1>1, <1>5, <1>6 DEF CallOK

\* After n of its tasks, a call is over or waits for the next one; the others are left alone.
LEMMA ProceedsKeeps ==
  ASSUME NEW c \in Calls, NEW n \in 0..length[c], NEW ts \in [Task -> TaskStates],
         SessionTypeOK, SessionAssumption, UNCHANGED <<callKind, length>>,
         Proceeds(c, n, ts), c \notin listeners',
         \A i \in 1..MaxTasks : i <= n => ts[<<c, i>>] = "succeeded",
         \A i \in 1..MaxTasks : i > n => ts[<<c, i>>] = "none"
  PROVE  /\ SessionTypeOK' /\ CallOK(c)'
         /\ outcome'[c] # "new"
         /\ \A d \in Calls : d # c =>
              /\ done'[d] = done[d] /\ outcome'[d] = outcome[d]
              /\ \A i \in 1..MaxTasks : tasks'[<<d, i>>] = ts[<<d, i>>]
              /\ d \in pendingRuns' <=> d \in pendingRuns
         /\ n # 0 => tasks'[<<c, 1>>] = ts[<<c, 1>>]
<1>1. n \in Nat /\ length[c] \in 0..MaxTasks /\ MaxTasks \in Nat /\ n <= MaxTasks
  BY SessionAssumption DEF SessionTypeOK
<1>2. done' = [done EXCEPT ![c] = n] /\ done' \in [Calls -> Nat] /\ done'[c] = n
  BY <1>1 DEF Proceeds, SessionTypeOK
<1>3. Current(c)' = <<c, n + 1>>
  BY <1>2 DEF Current
<1>4. CASE Cancelled(c) \/ n = length[c]
  <2>1. /\ outcome' = [outcome EXCEPT ![c] = IF Cancelled(c) THEN "cancelled" ELSE "ok"]
        /\ pendingRuns' = pendingRuns \ {c} /\ tasks' = ts
    BY <1>4 DEF Proceeds, Settles
  <2>2. SessionTypeOK'
    BY <2>1, <1>2 DEF SessionTypeOK, Failures
  <2>3. outcome'[c] = (IF Cancelled(c) THEN "cancelled" ELSE "ok") /\ (outcome'[c] = "ok" => n = length[c])
    BY <2>1, <1>4 DEF SessionTypeOK
  <2>4. TasksInOrder(c)'
    BY <2>1, <1>1, <1>2 DEF TasksInOrder
  <2>5. OutcomeIsCurrent(c)' /\ Tracked(c)'
    BY <2>1, <2>3, <1>2 DEF OutcomeIsCurrent, Tracked
  <2>. QED
    BY <2>1, <2>2, <2>3, <2>4, <2>5, <1>2 DEF SessionTypeOK, CallOK
<1>5. CASE ~(Cancelled(c) \/ n = length[c])
  <2>1. /\ outcome' = [outcome EXCEPT ![c] = "pending"] /\ pendingRuns' = pendingRuns \cup {c}
        /\ tasks' = [ts EXCEPT ![<<c, n + 1>>] = "requested"]
    BY <1>5 DEF Proceeds, ExecuteTask
  <2>2. n < length[c] /\ n + 1 \in 1..MaxTasks /\ <<c, n + 1>> \in Task
    BY <1>1, <1>5 DEF Task
  <2>3. SessionTypeOK'
    BY <2>1, <2>2, <1>2 DEF SessionTypeOK, TaskStates
  <2>4. /\ tasks'[<<c, n + 1>>] = "requested" /\ outcome'[c] = "pending" /\ length'[c] = length[c]
        /\ \A i \in 1..MaxTasks : i # n + 1 => tasks'[<<c, i>>] = ts[<<c, i>>]
        /\ \A d \in Calls : d # c => \A i \in 1..MaxTasks : tasks'[<<d, i>>] = ts[<<d, i>>]
    BY <2>1, <2>2 DEF Task, SessionTypeOK
  <2>5. TasksInOrder(c)'
    BY <2>2, <2>4, <1>1, <1>2 DEF TasksInOrder
  <2>6. OutcomeIsCurrent(c)' /\ Tracked(c)'
    BY <2>1, <2>2, <2>4, <1>2, <1>3 DEF OutcomeIsCurrent, Tracked
  <2>7. n # 0 => tasks'[<<c, 1>>] = ts[<<c, 1>>]
    BY <2>4, <1>1, SessionAssumption
  <2>. QED
    BY <2>1, <2>3, <2>4, <2>5, <2>6, <2>7, <1>2 DEF SessionTypeOK, CallOK
<1>. QED
  BY <1>4, <1>5

\* What keeps the other calls, and what one call is, keeps the invariant; the first task of a call is
\* begun by its own start alone.
LEMMA CallStepKeeps ==
  ASSUME SessionIInv, NEW c \in Calls, SessionTypeOK', CallOK(c)', UNCHANGED <<callKind, length>>,
         outcome'[c] # "new",
         \A d \in Calls : d # c =>
              /\ done'[d] = done[d] /\ outcome'[d] = outcome[d]
              /\ \A i \in 1..MaxTasks : tasks'[<<d, i>>] = tasks[<<d, i>>]
              /\ d \in pendingRuns' <=> d \in pendingRuns
              /\ d \in listeners' <=> d \in listeners,
         prepared = "executed" => prepared' = "executed",
         callKind[c] = "reconcile" => prepared' = "executed",
         tasks[<<c, 1>>] = "none" /\ tasks'[<<c, 1>>] # "none" /\ callKind[c] = "reconcile" => prepared # "executed"
  PROVE  SessionIInv'
<1>1. ASSUME NEW d \in Calls PROVE CallOK(d)'
  <2>1. CASE d = c
    BY <2>1
  <2>2. CASE d # c
    BY <2>2, OtherCallStays DEF SessionIInv
  <2>. QED
    BY <2>1, <2>2
<1>2. ExecutionMarks'
  BY DEF SessionIInv, ExecutionMarks
<1>3. 1 \in 1..MaxTasks
  BY SessionAssumption
<1>4. ASSUME NEW a \in Calls, NEW b \in Calls, callKind[a] = "reconcile", callKind[b] = "reconcile", a # b
      PROVE  tasks'[<<a, 1>>] = "none" \/ tasks'[<<b, 1>>] = "none"
  <2>1. tasks[<<a, 1>>] = "none" \/ tasks[<<b, 1>>] = "none"
    BY <1>4 DEF SessionIInv, ExecutedOnce
  <2>2. ASSUME NEW d \in Calls, callKind[d] = "reconcile", prepared # "executed" PROVE tasks[<<d, 1>>] = "none"
    BY <2>2, <1>3 DEF SessionIInv, ExecutionMarks, CallOK, OutcomeIsCurrent
  <2>. QED
    BY <2>1, <2>2, <1>3, <1>4
<1>. QED
  BY <1>1, <1>2, <1>4 DEF SessionIInv, ExecutedOnce

\* A session starts with new calls, none of which has a task.
LEMMA SessionInitIInv == SessionInit => SessionIInv
<1>. SUFFICES ASSUME SessionInit PROVE SessionIInv
  OBVIOUS
<1>1. SessionTypeOK
  BY DEF SessionInit, SessionTypeOK, TaskStates
<1>2. \A c \in Calls, i \in 1..MaxTasks : tasks[<<c, i>>] = "none"
  BY DEF SessionInit, Task
<1>3. 1 \in 1..MaxTasks
  BY SessionAssumption
<1>4. ASSUME NEW c \in Calls PROVE CallOK(c)
  <2>1. done[c] = 0 /\ length[c] \in 0..MaxTasks /\ outcome[c] = "new" /\ c \notin pendingRuns /\ c \notin listeners
    BY DEF SessionInit
  <2>. QED
    BY <1>2, <2>1 DEF CallOK, TasksInOrder, OutcomeIsCurrent, Tracked
<1>5. ExecutionMarks
  BY DEF SessionInit, ExecutionMarks
<1>. QED
  BY <1>1, <1>2, <1>3, <1>4, <1>5 DEF SessionIInv, ExecutedOnce

\* A call that starts, or fails to.
LEMMA CallStartKeeps ==
  ASSUME SessionIInv, NEW c \in Calls, StartCall(c) \/ ExecutePrepared(c)
  PROVE  SessionIInv'
<1>. USE SessionAssumption
<1>1. /\ SessionTypeOK /\ CallOK(c) /\ outcome[c] = "new" /\ UNCHANGED <<callKind, length>> /\ listeners' = listeners
      /\ callKind[c] = "reconcile" => prepared' = "executed"
      /\ prepared = "executed" => prepared' = "executed"
  BY DEF SessionIInv, StartCall, ExecutePrepared
<1>2. /\ done[c] = 0 /\ c \notin pendingRuns /\ c \notin listeners
      /\ \A i \in 1..MaxTasks : tasks[<<c, i>>] = "none"
  BY <1>1 DEF CallOK, OutcomeIsCurrent, Tracked
<1>3. /\ Proceeds(c, 0, tasks) /\ (callKind[c] = "reconcile" => prepared # "executed")
      \/ \E result \in {"UNTRUSTED_WORKSPACE", "PACKAGE_MANAGER_NOT_FOUND", "ALREADY_EXECUTED"} :
           Settles(c, result) /\ UNCHANGED <<done, pendingRuns, tasks>>
  BY <1>1 DEF StartCall, ExecutePrepared, Failures, Authorized
<1>4. CASE Proceeds(c, 0, tasks) /\ (callKind[c] = "reconcile" => prepared # "executed")
  <2>1. 0 \in 0..length[c] /\ tasks \in [Task -> TaskStates]
    BY <1>1 DEF SessionTypeOK
  <2>3. /\ \A i \in 1..MaxTasks : i <= 0 => tasks[<<c, i>>] = "succeeded"
        /\ \A i \in 1..MaxTasks : i > 0 => tasks[<<c, i>>] = "none"
    BY <1>2
  <2>4. c \notin listeners'
    BY <1>1, <1>2
  <2>2. /\ SessionTypeOK' /\ CallOK(c)' /\ outcome'[c] # "new"
        /\ \A d \in Calls : d # c =>
              /\ done'[d] = done[d] /\ outcome'[d] = outcome[d]
              /\ \A i \in 1..MaxTasks : tasks'[<<d, i>>] = tasks[<<d, i>>]
              /\ d \in pendingRuns' <=> d \in pendingRuns
    BY <2>1, <2>3, <2>4, <1>1, <1>4, ProceedsKeeps
  <2>. QED
    BY <2>2, <1>1, <1>4, CallStepKeeps
<1>5. ASSUME NEW result \in {"UNTRUSTED_WORKSPACE", "PACKAGE_MANAGER_NOT_FOUND", "ALREADY_EXECUTED"},
             Settles(c, result), UNCHANGED <<done, pendingRuns, tasks>>
      PROVE  SessionIInv'
  <2>1. SessionTypeOK'
    BY <1>1, <1>5 DEF SessionTypeOK, Settles, Failures
  <2>2. outcome'[c] = result /\ \A d \in Calls : d # c => outcome'[d] = outcome[d]
    BY <1>1, <1>5 DEF SessionTypeOK, Settles
  <2>3. result \notin {"new", "pending", "ok", "TASK_FAILED", "TASK_START_FAILED"}
    BY <1>5 DEF Failures
  <2>4. CallOK(c)'
    BY <1>1, <1>2, <1>5, <2>2, <2>3 DEF CallOK, TasksInOrder, OutcomeIsCurrent, Tracked
  <2>. QED
    BY <1>1, <1>5, <2>1, <2>2, <2>3, <2>4, CallStepKeeps
<1>. QED
  BY <1>3, <1>4, <1>5

\* A task that was requested or runs is the current one of a call that has begun.
LEMMA BegunIsCurrent ==
  ASSUME SessionIInv, NEW c \in Calls, NEW i \in 1..MaxTasks, tasks[<<c, i>>] \in {"requested", "live"}
  PROVE  /\ i = done[c] + 1 /\ Current(c) = <<c, i>> /\ done[c] \in Nat /\ i <= length[c] /\ length[c] \in 0..MaxTasks
         /\ outcome[c] \notin {"new", "ok", "TASK_FAILED", "TASK_START_FAILED"}
<1>1. done[c] \in Nat /\ length[c] \in 0..MaxTasks /\ CallOK(c)
  BY DEF SessionIInv, SessionTypeOK
<1>2. ~(i <= done[c]) /\ ~(i > done[c] + 1 \/ i > length[c])
  BY <1>1 DEF CallOK, TasksInOrder
<1>3. i = done[c] + 1
  BY <1>1, <1>2, SessionAssumption
<1>4. Current(c) = <<c, i>>
  BY <1>3 DEF Current
<1>5. outcome[c] # "new" /\ outcome[c] # "ok"
  BY <1>1, <1>2, <1>3 DEF CallOK, OutcomeIsCurrent
<1>6. outcome[c] \notin {"TASK_FAILED", "TASK_START_FAILED"}
  BY <1>1, <1>4 DEF CallOK, OutcomeIsCurrent
<1>. QED
  BY <1>1, <1>2, <1>3, <1>4, <1>5, <1>6, SessionAssumption

\* A task that changes its state, while its call goes on waiting or was settled before.
LEMMA TaskMoves ==
  ASSUME SessionIInv, NEW c \in Calls, NEW i \in 1..MaxTasks, tasks[<<c, i>>] \in {"requested", "live"},
         NEW state \in {"live", "succeeded", "failed"}, tasks' = [tasks EXCEPT ![<<c, i>>] = state],
         UNCHANGED <<callKind, length, done, outcome, prepared, pendingRuns>>,
         c \in listeners' <=> c \in pendingRuns /\ state = "live",
         c \in pendingRuns => state = "live",
         \A d \in Calls : d # c => (d \in listeners' <=> d \in listeners)
  PROVE  SessionIInv'
<1>. DEFINE t == <<c, i>>
<1>1. /\ i = done[c] + 1 /\ Current(c) = t /\ done[c] \in Nat /\ i <= length[c] /\ length[c] \in 0..MaxTasks
      /\ outcome[c] \notin {"new", "ok", "TASK_FAILED", "TASK_START_FAILED"}
  BY BegunIsCurrent
<1>2. t \in Task /\ SessionTypeOK /\ CallOK(c)
  BY DEF Task, SessionIInv
<1>3. /\ tasks'[t] = state /\ \A k \in 1..MaxTasks : k # i => tasks'[<<c, k>>] = tasks[<<c, k>>]
      /\ \A d \in Calls : d # c => \A k \in 1..MaxTasks : tasks'[<<d, k>>] = tasks[<<d, k>>]
  BY <1>2 DEF SessionTypeOK, Task
<1>4. SessionTypeOK'
  BY <1>2 DEF SessionTypeOK, TaskStates
<1>5. TasksInOrder(c)'
  BY <1>1, <1>2, <1>3 DEF CallOK, TasksInOrder
<1>6. Current(c)' = t
  BY <1>1 DEF Current
<1>7. OutcomeIsCurrent(c)' /\ Tracked(c)'
  BY <1>1, <1>2, <1>3, <1>6 DEF CallOK, OutcomeIsCurrent, Tracked
<1>8. tasks[<<c, 1>>] = "none" => tasks'[<<c, 1>>] = "none"
  BY <1>3, SessionAssumption
<1>. QED
  <2>1. callKind[c] = "reconcile" => prepared = "executed"
    BY <1>1 DEF SessionIInv, ExecutionMarks
  <2>2. CallOK(c)' /\ outcome'[c] # "new"
    BY <1>1, <1>5, <1>7 DEF CallOK
  <2>. QED
    BY <1>3, <1>4, <1>8, <2>1, <2>2, CallStepKeeps

\* A call whose task failed fails.
LEMMA FailureSettles ==
  ASSUME SessionIInv, NEW c \in Calls, NEW i \in 1..MaxTasks, tasks[<<c, i>>] \in {"requested", "live"},
         outcome[c] = "pending", NEW result \in {"TASK_FAILED", "TASK_START_FAILED"},
         Fails(c, result, [tasks EXCEPT ![<<c, i>>] = "failed"]),
         UNCHANGED <<callKind, length, prepared>>,
         c \notin listeners', \A d \in Calls : d # c => (d \in listeners' <=> d \in listeners)
  PROVE  SessionIInv'
<1>. DEFINE t == <<c, i>>
<1>1. /\ i = done[c] + 1 /\ Current(c) = t /\ done[c] \in Nat /\ i <= length[c] /\ length[c] \in 0..MaxTasks
  BY BegunIsCurrent
<1>2. t \in Task /\ SessionTypeOK /\ CallOK(c)
  BY DEF Task, SessionIInv
<1>3. PICK said \in {"cancelled", "TASK_FAILED", "TASK_START_FAILED"} :
        outcome' = [outcome EXCEPT ![c] = said]
  BY DEF Fails, Settles
<1>4. done' = done /\ pendingRuns' = pendingRuns \ {c} /\ tasks' = [tasks EXCEPT ![t] = "failed"]
  BY DEF Fails
<1>5. /\ tasks'[t] = "failed" /\ \A k \in 1..MaxTasks : k # i => tasks'[<<c, k>>] = tasks[<<c, k>>]
      /\ \A d \in Calls : d # c => \A k \in 1..MaxTasks : tasks'[<<d, k>>] = tasks[<<d, k>>]
  BY <1>2, <1>4 DEF SessionTypeOK, Task
<1>6. outcome'[c] = said /\ \A d \in Calls : d # c => outcome'[d] = outcome[d]
  BY <1>2, <1>3 DEF SessionTypeOK
<1>7. SessionTypeOK'
  BY <1>2, <1>3, <1>4 DEF SessionTypeOK, TaskStates, Failures
<1>8. TasksInOrder(c)'
  BY <1>1, <1>2, <1>4, <1>5 DEF CallOK, TasksInOrder
<1>9. Current(c)' = t
  BY <1>1, <1>4 DEF Current
<1>10. OutcomeIsCurrent(c)' /\ Tracked(c)'
  BY <1>1, <1>4, <1>5, <1>6, <1>9 DEF OutcomeIsCurrent, Tracked
<1>11. tasks[<<c, 1>>] = "none" => tasks'[<<c, 1>>] = "none"
  BY <1>5, SessionAssumption
<1>12. callKind[c] = "reconcile" => prepared = "executed"
  BY DEF SessionIInv, ExecutionMarks
<1>13. CallOK(c)' /\ outcome'[c] # "new"
  BY <1>6, <1>8, <1>10 DEF CallOK
<1>14. \A d \in Calls : d # c => (d \in pendingRuns' <=> d \in pendingRuns)
  BY <1>4
<1>. QED
  BY <1>4, <1>5, <1>6, <1>7, <1>11, <1>12, <1>13, <1>14, CallStepKeeps

\* A call whose task succeeded goes on.
LEMMA SuccessProceeds ==
  ASSUME SessionIInv, NEW c \in Calls, NEW i \in 1..MaxTasks, tasks[<<c, i>>] = "live",
         outcome[c] = "pending", Proceeds(c, done[c] + 1, [tasks EXCEPT ![<<c, i>>] = "succeeded"]),
         UNCHANGED <<callKind, length, prepared>>,
         c \notin listeners', \A d \in Calls : d # c => (d \in listeners' <=> d \in listeners)
  PROVE  SessionIInv'
<1>. DEFINE t == <<c, i>>
            ts == [tasks EXCEPT ![t] = "succeeded"]
            n == done[c] + 1
<1>1. /\ i = n /\ done[c] \in Nat /\ i <= length[c] /\ length[c] \in 0..MaxTasks
  BY BegunIsCurrent
<1>2. t \in Task /\ SessionTypeOK /\ CallOK(c)
  BY DEF Task, SessionIInv
<1>3. /\ ts[t] = "succeeded" /\ \A k \in 1..MaxTasks : k # i => ts[<<c, k>>] = tasks[<<c, k>>]
      /\ \A d \in Calls : d # c => \A k \in 1..MaxTasks : ts[<<d, k>>] = tasks[<<d, k>>]
      /\ ts \in [Task -> TaskStates]
  BY <1>2 DEF SessionTypeOK, Task, TaskStates
<1>4. /\ \A k \in 1..MaxTasks : k <= n => ts[<<c, k>>] = "succeeded"
      /\ \A k \in 1..MaxTasks : k > n => ts[<<c, k>>] = "none"
  BY <1>1, <1>2, <1>3 DEF CallOK, TasksInOrder
<1>5. n \in 0..length[c] /\ n # 0
  BY <1>1
<1>6. Proceeds(c, n, ts)
  OBVIOUS
<1>. HIDE DEF n, ts
<1>7. /\ SessionTypeOK' /\ CallOK(c)' /\ outcome'[c] # "new"
      /\ \A d \in Calls : d # c =>
            /\ done'[d] = done[d] /\ outcome'[d] = outcome[d]
            /\ \A k \in 1..MaxTasks : tasks'[<<d, k>>] = ts[<<d, k>>]
            /\ d \in pendingRuns' <=> d \in pendingRuns
      /\ tasks'[<<c, 1>>] = ts[<<c, 1>>]
  BY <1>2, <1>3, <1>4, <1>5, <1>6, ProceedsKeeps, SessionAssumption
<1>8. tasks[<<c, 1>>] = "none" => tasks'[<<c, 1>>] = "none"
  BY <1>3, <1>7, SessionAssumption
<1>9. callKind[c] = "reconcile" => prepared = "executed"
  BY DEF SessionIInv, ExecutionMarks
<1>. QED
  BY <1>3, <1>7, <1>8, <1>9, CallStepKeeps

\* Disposal settles the calls that wait, and leaves the tasks alone.
LEMMA SessionDisposalKeeps == SessionIInv /\ DisposeSession => SessionIInv'
<1>. SUFFICES ASSUME SessionIInv, DisposeSession PROVE SessionIInv'
  OBVIOUS
<1>1. /\ SessionTypeOK /\ listeners' = {} /\ pendingRuns' = {} /\ UNCHANGED <<callKind, length, done, prepared, tasks>>
      /\ outcome' = [c \in Calls |->
           IF c \notin pendingRuns THEN outcome[c] ELSE IF Cancelled(c) THEN "cancelled" ELSE "DISPOSED"]
  BY DEF SessionIInv, DisposeSession
<1>2. SessionTypeOK'
  BY <1>1 DEF SessionTypeOK, Failures
<1>3. ASSUME NEW c \in Calls PROVE CallOK(c)' /\ (outcome'[c] # "new" <=> outcome[c] # "new")
  <2>1. CallOK(c) /\ (outcome[c] = "pending" <=> c \in pendingRuns)
    BY DEF SessionIInv, CallOK, Tracked
  <2>2. Current(c)' = Current(c)
    BY <1>1 DEF Current
  <2>3. CASE c \in pendingRuns
    <3>1. outcome'[c] \in {"cancelled", "DISPOSED"}
      BY <1>1, <2>3
    <3>. QED
      BY <1>1, <2>1, <2>3, <3>1 DEF CallOK, TasksInOrder, OutcomeIsCurrent, Tracked
  <2>4. CASE c \notin pendingRuns
    <3>1. outcome'[c] = outcome[c]
      BY <1>1, <2>4
    <3>. QED
      BY <1>1, <2>1, <2>2, <2>4, <3>1 DEF CallOK, TasksInOrder, OutcomeIsCurrent, Tracked
  <2>. QED
    BY <2>3, <2>4
<1>4. ExecutionMarks'
  BY <1>1, <1>3 DEF SessionIInv, ExecutionMarks
<1>5. ExecutedOnce'
  BY <1>1 DEF SessionIInv, ExecutedOnce
<1>. QED
  BY <1>2, <1>3, <1>4, <1>5 DEF SessionIInv

\* Every step of a session keeps the invariant.
LEMMA SessionStepIInv == SessionIInv /\ [SessionNext]_sessionVars => SessionIInv'
<1>. SUFFICES ASSUME SessionIInv, [SessionNext]_sessionVars PROVE SessionIInv'
  OBVIOUS
<1>1. ASSUME NEW c \in Calls, StartCall(c) \/ ExecutePrepared(c) PROVE SessionIInv'
  BY <1>1, CallStartKeeps
<1>2. CASE PrepareReconciliation \/ Surroundings \/ UNCHANGED sessionVars
  <2>1. /\ UNCHANGED <<callKind, length, done, outcome, listeners, pendingRuns, tasks>>
        /\ prepared = "executed" => prepared' = "executed"
    BY <1>2 DEF PrepareReconciliation, Surroundings, sessionVars
  <2>2. SessionTypeOK'
    BY <2>1 DEF SessionIInv, SessionTypeOK
  <2>3. \A c \in Calls : CallOK(c)'
    BY <2>1, <2>2, OtherCallStays DEF SessionIInv
  <2>4. ExecutionMarks' /\ ExecutedOnce'
    BY <2>1 DEF SessionIInv, ExecutionMarks, ExecutedOnce
  <2>. QED
    BY <2>2, <2>3, <2>4 DEF SessionIInv
<1>3. ASSUME NEW c \in Calls, NEW i \in 1..MaxTasks,
             \/ TaskStarts(<<c, i>>) \/ TaskStartFails(<<c, i>>)
             \/ \E code \in {"succeeded", "failed"} : TaskEnds(<<c, i>>, code)
      PROVE  SessionIInv'
  <2>. DEFINE t == <<c, i>>
  <2>0. (outcome[c] = "pending" <=> c \in pendingRuns) /\ (c \in listeners <=> c \in pendingRuns /\ tasks[Current(c)] = "live")
    BY DEF SessionIInv, CallOK, Tracked
  <2>1. CASE TaskStarts(t)
    <3>1. /\ tasks[t] = "requested" /\ tasks' = [tasks EXCEPT ![t] = "live"]
          /\ listeners' = IF outcome[c] = "pending" THEN listeners \cup {c} ELSE listeners
          /\ UNCHANGED <<callKind, length, done, outcome, prepared, pendingRuns>>
      BY <2>1 DEF TaskStarts
    <3>. QED
      BY <2>0, <3>1, TaskMoves
  <2>2. CASE TaskStartFails(t)
    <3>1. tasks[t] = "requested" /\ UNCHANGED <<callKind, length, prepared, listeners>>
      BY <2>2 DEF TaskStartFails
    <3>2. Current(c) = t
      BY <3>1, BegunIsCurrent
    <3>3. c \notin listeners
      BY <2>0, <3>1, <3>2
    <3>4. CASE outcome[c] = "pending"
      <4>1. Fails(c, "TASK_START_FAILED", [tasks EXCEPT ![t] = "failed"])
        BY <2>2, <3>4 DEF TaskStartFails
      <4>. QED
        BY <3>1, <3>3, <3>4, <4>1, FailureSettles
    <3>5. CASE outcome[c] # "pending"
      <4>1. tasks' = [tasks EXCEPT ![t] = "failed"] /\ UNCHANGED <<done, outcome, pendingRuns>>
        BY <2>2, <3>5 DEF TaskStartFails
      <4>. QED
        BY <2>0, <3>1, <3>3, <3>5, <4>1, TaskMoves
    <3>. QED
      BY <3>4, <3>5
  <2>3. ASSUME NEW code \in {"succeeded", "failed"}, TaskEnds(t, code) PROVE SessionIInv'
    <3>1. tasks[t] = "live" /\ UNCHANGED <<callKind, length, prepared>>
      BY <2>3 DEF TaskEnds
    <3>2. Current(c) = t
      BY <3>1, BegunIsCurrent
    <3>3. CASE c \in listeners
      <4>1. listeners' = listeners \ {c} /\ outcome[c] = "pending"
        BY <2>0, <2>3, <3>2, <3>3 DEF TaskEnds
      <4>2. CASE code = "succeeded"
        <5>1. Proceeds(c, done[c] + 1, [tasks EXCEPT ![t] = "succeeded"])
          BY <2>3, <3>2, <3>3, <4>2 DEF TaskEnds
        <5>. QED
          BY <3>1, <4>1, <5>1, SuccessProceeds
      <4>3. CASE code = "failed"
        <5>1. Fails(c, "TASK_FAILED", [tasks EXCEPT ![t] = "failed"])
          BY <2>3, <3>2, <3>3, <4>3 DEF TaskEnds
        <5>. QED
          BY <3>1, <4>1, <5>1, FailureSettles
      <4>. QED
        BY <4>2, <4>3
    <3>4. CASE c \notin listeners
      <4>1. tasks' = [tasks EXCEPT ![t] = code] /\ UNCHANGED <<done, outcome, listeners, pendingRuns>>
        BY <2>3, <3>4 DEF TaskEnds
      <4>2. c \notin pendingRuns
        BY <2>0, <3>1, <3>2, <3>4
      <4>. QED
        BY <3>1, <3>4, <4>1, <4>2, TaskMoves
    <3>. QED
      BY <3>3, <3>4
  <2>. QED
    BY <1>3, <2>1, <2>2, <2>3
<1>4. CASE DisposeSession
  BY <1>4, SessionDisposalKeeps
<1>5. ASSUME NEW t \in Task PROVE \E c \in Calls, i \in 1..MaxTasks : t = <<c, i>>
  BY DEF Task
<1>. QED
  BY <1>1, <1>2, <1>3, <1>4, <1>5 DEF SessionNext

\* The invariant of a session holds in every state.
THEOREM SessionInvariant == SessionSpec => []SessionIInv
  BY SessionInitIInv, SessionStepIInv, PTL DEF SessionSpec

\* What a call reports is what its own tasks did, in their order; every call that waits can still
\* be settled, and a prepared reconciliation runs once: for any number of calls and tasks.
THEOREM CallsReport == SessionSpec => []CallsReportTheirTasks
<1>1. SessionIInv => CallsReportTheirTasks
  <2>. SUFFICES ASSUME SessionIInv PROVE CallsReportTheirTasks
    OBVIOUS
  <2>1. ASSUME NEW c \in Calls
        PROVE  /\ outcome[c] = "ok" => \A i \in 1..length[c] : tasks[<<c, i>>] = "succeeded"
               /\ outcome[c] \in {"TASK_FAILED", "TASK_START_FAILED"} => tasks[Current(c)] = "failed"
               /\ \A i \in 2..length[c] : tasks[<<c, i>>] # "none" => tasks[<<c, i - 1>>] = "succeeded"
    <3>1. TasksInOrder(c) /\ OutcomeIsCurrent(c) /\ done[c] \in Nat /\ length[c] \in 0..MaxTasks /\ MaxTasks \in Nat
      BY SessionAssumption DEF SessionIInv, CallOK, SessionTypeOK
    <3>2. outcome[c] = "ok" => \A i \in 1..length[c] : tasks[<<c, i>>] = "succeeded"
      BY <3>1 DEF TasksInOrder, OutcomeIsCurrent
    <3>3. ASSUME NEW i \in 2..length[c], tasks[<<c, i>>] # "none" PROVE tasks[<<c, i - 1>>] = "succeeded"
      <4>1. i \in 1..MaxTasks /\ i - 1 \in 1..MaxTasks /\ ~(i > done[c] + 1)
        BY <3>1, <3>3 DEF TasksInOrder
      <4>. QED
        BY <3>1, <4>1 DEF TasksInOrder
    <3>. QED
      BY <3>1, <3>2, <3>3 DEF OutcomeIsCurrent
  <2>2. OutcomeIsOfOwnTasks
    BY <2>1 DEF OutcomeIsOfOwnTasks
  <2>3. WaitingIsTracked
    BY DEF SessionIInv, CallOK, Tracked, WaitingIsTracked
  <2>. QED
    BY <2>2, <2>3 DEF SessionIInv, CallsReportTheirTasks
<1>. QED
  BY <1>1, SessionInvariant, PTL

-----------------------------------------------------------------------------
(* A file that is compared and swapped.                                    *)

OnFile == Contents \cup {Gone}

\* The steps of a call that has no answer yet.
Undecided == {"comparing", "creating", "writing", "recomparing", "finishing", "installing", "unlinking"}

FilesTypeOK ==
  /\ file \in OnFile /\ temp \in OnFile \cup {Partial}
  /\ expected \in OnFile /\ wanted \in OnFile
  /\ fileMode \in Modes \cup {Private} /\ tempMode \in Modes \cup {Private}
  /\ keepMode \in Modes \cup {Private} /\ replacedMode \in Modes \cup {Private}
  /\ late \in BOOLEAN
  /\ step \in Undecided \cup {"cleaning", "returned", "died"}
  /\ swapOutcome \in {"pending", "restored", "conflict", "failed"}

\* A comparison holds until somebody else writes the file.
ComparisonHolds ==
  /\ step \in Undecided => swapOutcome = "pending"
  /\ step \in Undecided \ {"comparing"} /\ ~late => file = expected
  /\ step = "unlinking" => wanted = Gone /\ expected # Gone
  /\ step \in {"creating", "writing", "finishing", "installing"} => wanted # Gone
  /\ step = "recomparing" /\ wanted = Gone => expected # Gone

\* What takes the name is all there, and until somebody else changes the file it has the
\* permissions it replaces.
TempIsReady ==
  /\ step = "recomparing" /\ wanted # Gone => temp = wanted
  /\ step \in {"finishing", "installing"} => temp = wanted
  /\ swapOutcome # "restored" => fileMode \in Modes
  /\ step = "finishing" /\ ~late /\ expected # Gone => keepMode = fileMode
  /\ step = "installing" /\ ~late /\ expected # Gone => tempMode = fileMode

FilesIInv == FilesTypeOK /\ ComparisonHolds /\ TempIsReady /\ ReplacementIsWhole

-----------------------------------------------------------------------------
\* A call that has not read anything satisfies the inductive invariant.
LEMMA FilesInitIInv == FilesInit => FilesIInv
  BY FilesAssumption
  DEF FilesInit, FilesIInv, FilesTypeOK, ComparisonHolds, TempIsReady, ReplacementIsWhole, OnFile, Undecided

\* No file operation of the call, no edit and no crash takes the invariant away.
LEMMA FilesStepIInv == FilesIInv /\ [FilesNext]_filesVars => FilesIInv'
<1>. SUFFICES ASSUME FilesIInv, [FilesNext]_filesVars PROVE FilesIInv'
  OBVIOUS
<1>. USE FilesAssumption
<1>. USE DEF FilesIInv, FilesTypeOK, ComparisonHolds, TempIsReady, ReplacementIsWhole, OnFile, Undecided, call
<1>1. CASE Overwrite
  BY <1>1 DEF Overwrite
<1>2. CASE CompareFirst
  BY <1>2 DEF CompareFirst, Decide
<1>3. CASE CreateTemp
  BY <1>3 DEF CreateTemp
<1>4. CASE WriteTemp
  BY <1>4 DEF WriteTemp
<1>5. CASE CompareAgain
  BY <1>5 DEF CompareAgain, Decide
<1>6. CASE FinishTemp
  BY <1>6 DEF FinishTemp
<1>7. CASE Rename
  BY <1>7 DEF Rename, Decide
<1>8. CASE Link
  BY <1>8 DEF Link, Decide
<1>9. CASE Unlink
  BY <1>9 DEF Unlink, Decide
<1>10. CASE OperationFails
  BY <1>10 DEF OperationFails, Decide
<1>11. CASE Clean
  BY <1>11 DEF Clean
<1>12. CASE Die
  BY <1>12 DEF Die
<1>13. CASE UNCHANGED filesVars
  BY <1>13 DEF filesVars
<1>. QED
  BY <1>1, <1>2, <1>3, <1>4, <1>5, <1>6, <1>7, <1>8, <1>9, <1>10, <1>11, <1>12, <1>13 DEF FilesNext

\* The inductive invariant holds in every reachable state.
THEOREM FilesInvariant == FilesSpec => []FilesIInv
<1>. QED
  BY FilesInitIInv, FilesStepIInv, PTL DEF FilesSpec

\* Whatever carries the file's name is whole, and a replacement has the permissions of the very file it
\* replaced, unless that file was changed after the last comparison; also when the process dies
\* between any two file operations of compareAndSwap, and for any contents and permissions.
THEOREM FilesAreWhole == FilesSpec => []ReplacementIsWhole
<1>1. FilesIInv => ReplacementIsWhole
  BY DEF FilesIInv
<1>. QED
  BY <1>1, FilesInvariant, PTL

-----------------------------------------------------------------------------
\* An initial state of the call is one of the swap.
LEMMA SwapInitHolds == FilesInit => Atomic!SwapInit
  BY DEF FilesInit, Atomic!SwapInit, Atomic!States

\* Each file operation is a step of the swap or none of its business.
LEMMA SwapStepHolds == FilesIInv /\ FilesIInv' /\ [FilesNext]_filesVars => [Atomic!SwapNext]_(Atomic!swapVars)
<1>. SUFFICES ASSUME FilesIInv, FilesIInv', [FilesNext]_filesVars PROVE [Atomic!SwapNext]_(Atomic!swapVars)
  OBVIOUS
<1>. USE FilesAssumption
<1>. USE DEF FilesIInv, FilesTypeOK, ComparisonHolds, TempIsReady, OnFile, Undecided, call,
             Atomic!SwapNext, Atomic!swapVars
<1>1. CASE Overwrite
  BY <1>1 DEF Overwrite, Atomic!Others, Atomic!States
<1>2. CASE CompareFirst
  <2>1. CASE file # expected
    BY <1>2, <2>1 DEF CompareFirst, Decide, Atomic!Conflict
  <2>2. CASE file = expected /\ wanted = Gone /\ expected = Gone
    BY <1>2, <2>2 DEF CompareFirst, Decide, Atomic!Swap
  <2>3. CASE file = expected /\ ~(wanted = Gone /\ expected = Gone)
    BY <1>2, <2>3 DEF CompareFirst, Decide, Atomic!Compare
  <2>. QED
    BY <2>1, <2>2, <2>3
<1>3. CASE CompareAgain
  <2>1. CASE file # expected
    BY <1>3, <2>1 DEF CompareAgain, Decide, Atomic!Conflict
  <2>2. CASE file = expected
    BY <1>3, <2>2 DEF CompareAgain, Atomic!Compare
  <2>. QED
    BY <2>1, <2>2
<1>4. CASE Rename
  BY <1>4 DEF Rename, Decide, Atomic!Swap
<1>5. CASE Link
  <2>1. CASE file = Gone
    BY <1>5, <2>1 DEF Link, Decide, Atomic!Swap
  <2>2. CASE file # Gone
    BY <1>5, <2>2 DEF Link, Decide, Atomic!Conflict
  <2>. QED
    BY <2>1, <2>2
<1>6. CASE Unlink
  <2>1. CASE file = Gone
    BY <1>6, <2>1 DEF Unlink, Decide, Atomic!Conflict
  <2>2. CASE file # Gone
    BY <1>6, <2>2 DEF Unlink, Decide, Atomic!Swap
  <2>. QED
    BY <2>1, <2>2
<1>7. CASE OperationFails
  <2>1. swapOutcome = "pending"
    BY <1>7 DEF OperationFails
  <2>. QED
    BY <1>7, <2>1 DEF OperationFails, Decide, Atomic!Fail
<1>8. CASE CreateTemp \/ WriteTemp \/ FinishTemp \/ Clean \/ Die
  BY <1>8 DEF CreateTemp, WriteTemp, FinishTemp, Clean, Die
<1>9. CASE UNCHANGED filesVars
  BY <1>9 DEF filesVars
<1>. QED
  BY <1>1, <1>2, <1>3, <1>4, <1>5, <1>6, <1>7, <1>8, <1>9 DEF FilesNext

\* compareAndSwap of nodeUpgradeTransactionFiles.ts implements the swap that the upgrade transaction
\* relies on: only an edit between the last comparison and a rename or unlink can be replaced.
THEOREM FilesSwapAtomically == FilesSpec => SwapsAtomically
<1>. QED
  BY SwapInitHolds, SwapStepHolds, FilesInvariant, PTL DEF FilesSpec, SwapsAtomically, Atomic!SwapSpec

-----------------------------------------------------------------------------
(* The write-back cache.                                                   *)

\* What waits in the queue of writes: flushes, and after disposal its snapshot.
Jobs == IF cacheDisposed THEN {Flush, Final(kept)} ELSE {Flush}
QueueOK == queue \in Seq(Jobs)

\* What the store has to end with.
LatestEntries == IF cacheDisposed THEN kept ELSE entries

\* A disposed cache is clean, and has no flush scheduled.
DisposedIsClean == cacheDisposed => ~dirty /\ due = NoTime

\* The ages count from zero to the longest delay; a scheduled flush comes no later than that.
AgesOK ==
  /\ due = NoTime => batchAge = NoTime
  /\ due # NoTime => due \in Nat /\ batchAge \in Nat /\ batchAge + due <= MaxDelay

\* A write without a flush in the queue belongs to the batch that is scheduled.
DirtyIsScheduled ==
  dirty => dirtyAge \in Nat /\ (Flush \notin Range(queue) => due # NoTime /\ dirtyAge <= batchAge)

\* What is clean and not waiting as a last snapshot has been handed to the store.
CleanIsHandedOver ==
  ~dirty /\ Final(kept) \notin Range(queue) =>
    IF writing # <<>> THEN writing[1] = LatestEntries ELSE failed \/ persisted = LatestEntries

CacheIInv == QueueOK /\ DisposedIsClean /\ AgesOK /\ DirtyIsScheduled /\ CleanIsHandedOver

\* A flush is no last snapshot.
LEMMA FlushIsNotFinal == ~Flush.final /\ \A s : Final(s).final /\ Final(s).snapshot = s /\ Final(s) # Flush
  BY DEF Flush, Final

\* What a queue holds after one more job.
LEMMA AppendQueues ==
  ASSUME NEW S, NEW q \in Seq(S), NEW job \in S
  PROVE  /\ Append(q, job) \in Seq(S) /\ Append(q, job) # <<>>
         /\ Range(Append(q, job)) = Range(q) \cup {job}
<1>. DEFINE r == Append(q, job)
<1>1. /\ r \in Seq(S) /\ r # <<>> /\ Len(r) = Len(q) + 1 /\ r[Len(q) + 1] = job
      /\ \A i \in 1..Len(q) : r[i] = q[i]
  BY AppendProperties
<1>2. DOMAIN r = 1..(Len(q) + 1) /\ DOMAIN q = 1..Len(q) /\ Len(q) \in Nat
  BY <1>1
<1>. HIDE DEF r
<1>3. \A i \in 1..(Len(q) + 1) : i \in 1..Len(q) \/ i = Len(q) + 1
  BY <1>2
<1>4. Range(r) = Range(q) \cup {job}
  BY <1>1, <1>2, <1>3 DEF Range
<1>. QED
  BY <1>1, <1>4 DEF r

\* What a queue holds without its first job.
LEMMA TailQueues ==
  ASSUME NEW S, NEW q \in Seq(S), q # <<>>
  PROVE  /\ Head(q) \in S /\ Tail(q) \in Seq(S)
         /\ Range(q) = Range(Tail(q)) \cup {Head(q)}
<1>1. Head(q) \in S /\ Tail(q) \in Seq(S)
  OBVIOUS
<1>2. ASSUME NEW x \in Range(q) PROVE x = Head(q) \/ x \in Range(Tail(q))
  <2>1. PICK i \in 1..Len(q) : x = q[i]
    BY DEF Range
  <2>2. CASE i = 1
    BY <2>1, <2>2
  <2>3. CASE i # 1
    <3>1. i - 1 \in 1..Len(Tail(q)) /\ Tail(q)[i - 1] = q[i]
      BY <2>1, <2>3
    <3>2. i - 1 \in DOMAIN Tail(q)
      BY <1>1, <3>1
    <3>. QED
      BY <2>1, <3>1, <3>2 DEF Range
  <2>. QED
    BY <2>2, <2>3
<1>3. ASSUME NEW x \in Range(Tail(q)) PROVE x \in Range(q)
  <2>1. PICK i \in 1..Len(Tail(q)) : x = Tail(q)[i]
    BY <1>1 DEF Range
  <2>2. i + 1 \in 1..Len(q) /\ Tail(q)[i] = q[i + 1]
    BY <2>1
  <2>. QED
    BY <2>1, <2>2 DEF Range
<1>4. Head(q) \in Range(q)
  BY DEF Range
<1>. QED
  BY <1>1, <1>2, <1>3, <1>4

\* Nothing but jobs waits in the queue.
LEMMA JobsOfQueue ==
  ASSUME QueueOK
  PROVE  Range(queue) \subseteq Jobs
  BY DEF QueueOK, Range

\* A cache starts empty, as the store is.
LEMMA CacheInitIInv == CacheInit => CacheIInv
<1>. SUFFICES ASSUME CacheInit PROVE CacheIInv
  OBVIOUS
<1>1. QueueOK
  BY DEF CacheInit, QueueOK
<1>2. DisposedIsClean /\ DirtyIsScheduled /\ CleanIsHandedOver
  BY DEF CacheInit, DisposedIsClean, DirtyIsScheduled, CleanIsHandedOver, LatestEntries
<1>3. AgesOK
  BY DEF CacheInit, AgesOK
<1>. QED
  BY <1>1, <1>2, <1>3 DEF CacheIInv

\* A change of the entries is dirty and has its flush, at once or when its batch ends.
LEMMA ScheduleKeeps ==
  ASSUME CacheIInv, ScheduleFlush, UNCHANGED <<batching, cacheDisposed, writing, persisted, failed, kept>>
  PROVE  CacheIInv'
<1>. USE DEF CacheIInv
<1>1. CASE cacheDisposed
  <2>1. UNCHANGED <<dirty, dirtyAge, queue, batchAge, due>>
    BY <1>1 DEF ScheduleFlush
  <2>2. LatestEntries' = LatestEntries
    BY <1>1 DEF LatestEntries
  <2>. QED
    BY <2>1, <2>2 DEF QueueOK, Jobs, DisposedIsClean, AgesOK, DirtyIsScheduled, CleanIsHandedOver
<1>2. CASE ~cacheDisposed /\ batching
  <2>1. /\ dirty' /\ queue' = queue /\ dirtyAge' = IF dirty THEN dirtyAge ELSE 0
        /\ batchAge' = IF batchAge = NoTime THEN 0 ELSE batchAge
        /\ due' = Smallest(Trailing, MaxDelay - batchAge')
    BY <1>2 DEF ScheduleFlush
  <2>2. QueueOK' /\ DisposedIsClean' /\ CleanIsHandedOver'
    BY <1>2, <2>1 DEF QueueOK, Jobs, DisposedIsClean, CleanIsHandedOver
  <2>3. batchAge' \in Nat /\ batchAge' <= MaxDelay
    BY <2>1, CacheAssumption DEF AgesOK, NoTime
  <2>4. due' \in Nat /\ batchAge' + due' <= MaxDelay
    BY <2>1, <2>3, CacheAssumption DEF Smallest
  <2>5. AgesOK'
    BY <2>3, <2>4 DEF AgesOK, NoTime
  <2>6. dirtyAge' \in Nat
    BY <2>1 DEF DirtyIsScheduled
  <2>7. Flush \notin Range(queue) => dirtyAge' <= batchAge'
    <3>1. CASE dirty
      BY <2>1, <3>1 DEF DirtyIsScheduled, AgesOK, NoTime
    <3>2. CASE ~dirty
      BY <2>1, <2>3, <3>2
    <3>. QED
      BY <3>1, <3>2
  <2>8. due' # NoTime
    BY <2>4 DEF NoTime
  <2>9. DirtyIsScheduled'
    BY <2>1, <2>6, <2>7, <2>8 DEF DirtyIsScheduled
  <2>. QED
    BY <2>2, <2>5, <2>9
<1>3. CASE ~cacheDisposed /\ ~batching
  <2>1. /\ dirty' /\ queue' = Append(queue, Flush) /\ dirtyAge' = IF dirty THEN dirtyAge ELSE 0
        /\ batchAge' = batchAge /\ due' = due
    BY <1>3 DEF ScheduleFlush
  <2>2. queue' \in Seq({Flush}) /\ Range(queue') = Range(queue) \cup {Flush}
    BY <1>3, <2>1, AppendQueues DEF QueueOK, Jobs
  <2>3. QueueOK' /\ DisposedIsClean' /\ CleanIsHandedOver'
    BY <1>3, <2>1, <2>2 DEF QueueOK, Jobs, DisposedIsClean, CleanIsHandedOver
  <2>4. AgesOK'
    BY <2>1 DEF AgesOK
  <2>5. dirtyAge' \in Nat
    BY <2>1 DEF DirtyIsScheduled
  <2>6. DirtyIsScheduled'
    BY <2>1, <2>2, <2>5 DEF DirtyIsScheduled
  <2>. QED
    BY <2>3, <2>4, <2>6
<1>. QED
  BY <1>1, <1>2, <1>3

\* A batch that ages stays within its delay, and what is dirty in it is no older.
LEMMA AgingKeeps == CacheIInv /\ TimePasses => CacheIInv'
<1>. SUFFICES ASSUME CacheIInv, TimePasses PROVE CacheIInv'
  OBVIOUS
<1>1. /\ due # NoTime /\ due' = (IF due = 0 THEN 0 ELSE due - 1)
      /\ batchAge' = Older(batchAge) /\ dirtyAge' = Older(dirtyAge)
      /\ UNCHANGED <<entries, dirty, cacheDisposed, queue, writing, persisted, failed, kept>>
  BY DEF TimePasses
<1>2. due \in Nat /\ batchAge \in Nat /\ batchAge + due <= MaxDelay /\ MaxDelay \in Nat
  BY <1>1, CacheAssumption DEF CacheIInv, AgesOK
<1>3. due' \in Nat /\ batchAge' \in Nat /\ batchAge' + due' <= MaxDelay
  BY <1>1, <1>2 DEF Older, Smallest, NoTime
<1>4. AgesOK'
  BY <1>3 DEF AgesOK, NoTime
<1>5. dirtyAge \in Nat => dirtyAge' \in Nat /\ (dirtyAge <= batchAge => dirtyAge' <= batchAge')
  BY <1>1, <1>2 DEF Older, Smallest, NoTime
<1>6. DirtyIsScheduled'
  BY <1>1, <1>3, <1>5 DEF CacheIInv, DirtyIsScheduled, NoTime
<1>7. QueueOK' /\ DisposedIsClean' /\ CleanIsHandedOver'
  BY <1>1 DEF CacheIInv, QueueOK, Jobs, DisposedIsClean, CleanIsHandedOver, LatestEntries
<1>. QED
  BY <1>4, <1>6, <1>7 DEF CacheIInv

\* The end of a batch is one more flush in the queue.
LEMMA BatchEndKeeps == CacheIInv /\ BatchEnds => CacheIInv'
<1>. SUFFICES ASSUME CacheIInv, BatchEnds PROVE CacheIInv'
  OBVIOUS
<1>1. /\ due = 0 /\ due' = NoTime /\ batchAge' = NoTime /\ queue' = Append(queue, Flush)
      /\ UNCHANGED <<entries, dirty, cacheDisposed, writing, persisted, failed, dirtyAge, kept>>
  BY DEF BatchEnds
<1>2. queue' \in Seq(Jobs) /\ Range(queue') = Range(queue) \cup {Flush}
  BY <1>1, AppendQueues DEF CacheIInv, QueueOK, Jobs
<1>3. QueueOK'
  BY <1>1, <1>2 DEF QueueOK, Jobs
<1>4. DisposedIsClean' /\ DirtyIsScheduled'
  BY <1>1, <1>2 DEF CacheIInv, DisposedIsClean, DirtyIsScheduled
<1>5. AgesOK'
  BY <1>1 DEF AgesOK
<1>6. CleanIsHandedOver'
  BY <1>1, <1>2, FlushIsNotFinal DEF CacheIInv, CleanIsHandedOver, LatestEntries
<1>. QED
  BY <1>3, <1>4, <1>5, <1>6 DEF CacheIInv

\* A flush takes the entries as they are, the last snapshot those of the disposal.
LEMMA FlushStartKeeps == CacheIInv /\ StartFlush => CacheIInv'
<1>. SUFFICES ASSUME CacheIInv, StartFlush PROVE CacheIInv'
  OBVIOUS
<1>1. /\ writing = <<>> /\ queue # <<>> /\ queue' = Tail(queue)
      /\ UNCHANGED <<entries, cacheDisposed, batchAge, due, persisted, failed, kept>>
  BY DEF StartFlush
<1>2. Head(queue) \in Jobs /\ queue' \in Seq(Jobs) /\ Range(queue) = Range(queue') \cup {Head(queue)}
  BY <1>1, TailQueues DEF CacheIInv, QueueOK
<1>3. QueueOK' /\ AgesOK' /\ LatestEntries' = LatestEntries
  BY <1>1, <1>2 DEF CacheIInv, QueueOK, Jobs, AgesOK, LatestEntries
<1>4. CASE Head(queue) = Final(kept)
  <2>1. cacheDisposed
    BY <1>2, <1>4, FlushIsNotFinal DEF Jobs
  <2>2. writing' = <<kept>> /\ dirty' = dirty /\ dirtyAge' = dirtyAge
    BY <1>4, FlushIsNotFinal DEF StartFlush
  <2>3. DisposedIsClean' /\ DirtyIsScheduled'
    BY <1>1, <2>1, <2>2 DEF CacheIInv, DisposedIsClean, DirtyIsScheduled
  <2>4. CleanIsHandedOver'
    BY <1>1, <2>1, <2>2 DEF CleanIsHandedOver, LatestEntries
  <2>. QED
    BY <1>3, <2>3, <2>4 DEF CacheIInv
<1>5. CASE Head(queue) = Flush /\ dirty
  <2>1. writing' = <<entries>> /\ ~dirty' /\ ~cacheDisposed
    BY <1>5, FlushIsNotFinal DEF StartFlush, CacheIInv, DisposedIsClean
  <2>2. DisposedIsClean' /\ DirtyIsScheduled'
    BY <1>1, <2>1 DEF CacheIInv, DisposedIsClean, DirtyIsScheduled
  <2>3. CleanIsHandedOver'
    BY <1>1, <2>1 DEF CleanIsHandedOver, LatestEntries
  <2>. QED
    BY <1>3, <2>2, <2>3 DEF CacheIInv
<1>6. CASE Head(queue) = Flush /\ ~dirty
  <2>1. writing' = writing /\ dirty' = dirty /\ dirtyAge' = dirtyAge
    BY <1>6, FlushIsNotFinal DEF StartFlush
  <2>2. DisposedIsClean' /\ DirtyIsScheduled'
    BY <1>1, <1>6, <2>1 DEF CacheIInv, DisposedIsClean, DirtyIsScheduled
  <2>3. Final(kept) \in Range(queue') <=> Final(kept) \in Range(queue)
    BY <1>2, <1>6, FlushIsNotFinal
  <2>4. CleanIsHandedOver'
    BY <1>1, <1>3, <2>1, <2>3 DEF CacheIInv, CleanIsHandedOver
  <2>. QED
    BY <1>3, <2>2, <2>4 DEF CacheIInv
<1>. QED
  BY <1>2, <1>4, <1>5, <1>6 DEF Jobs

\* A snapshot that was persisted is what the store holds; one that was not has failed.
LEMMA FlushEndKeeps == CacheIInv /\ FlushEnds => CacheIInv'
<1>. SUFFICES ASSUME CacheIInv, FlushEnds PROVE CacheIInv'
  OBVIOUS
<1>1. /\ writing # <<>> /\ writing' = <<>> /\ (failed' \/ persisted' = writing[1])
      /\ UNCHANGED <<entries, dirty, cacheDisposed, batchAge, due, queue, dirtyAge, kept>>
  BY DEF FlushEnds
<1>2. QueueOK' /\ DisposedIsClean' /\ AgesOK' /\ DirtyIsScheduled' /\ LatestEntries' = LatestEntries
  BY <1>1 DEF CacheIInv, QueueOK, Jobs, DisposedIsClean, AgesOK, DirtyIsScheduled, LatestEntries
<1>3. CleanIsHandedOver'
  BY <1>1, <1>2 DEF CacheIInv, CleanIsHandedOver
<1>. QED
  BY <1>2, <1>3 DEF CacheIInv

\* Disposal leaves nothing dirty: what was is in the last snapshot.
LEMMA CacheDisposalKeeps == CacheIInv /\ DisposeCache => CacheIInv'
<1>. SUFFICES ASSUME CacheIInv, DisposeCache PROVE CacheIInv'
  OBVIOUS
<1>1. /\ ~cacheDisposed /\ cacheDisposed' /\ kept' = entries /\ due' = NoTime /\ batchAge' = NoTime /\ ~dirty'
      /\ queue' = (IF dirty THEN Append(queue, Final(entries)) ELSE queue)
      /\ UNCHANGED <<entries, writing, persisted, failed>>
  BY DEF DisposeCache
<1>2. Jobs' = {Flush, Final(entries)} /\ queue \in Seq({Flush}) /\ Range(queue) \subseteq {Flush}
  BY <1>1, JobsOfQueue DEF CacheIInv, QueueOK, Jobs
<1>3. queue \in Seq(Jobs')
  BY <1>2
<1>4. QueueOK' /\ (dirty => Final(kept') \in Range(queue'))
  BY <1>1, <1>2, <1>3, AppendQueues DEF QueueOK
<1>5. DisposedIsClean' /\ DirtyIsScheduled'
  BY <1>1 DEF DisposedIsClean, DirtyIsScheduled
<1>6. AgesOK'
  BY <1>1 DEF AgesOK
<1>7. CleanIsHandedOver'
  <2>1. CASE dirty
    BY <1>4, <2>1 DEF CleanIsHandedOver
  <2>2. CASE ~dirty
    <3>1. Final(kept) \notin Range(queue) /\ LatestEntries = entries /\ LatestEntries' = entries
      BY <1>1, <1>2, FlushIsNotFinal DEF LatestEntries
    <3>. QED
      BY <1>1, <2>2, <3>1 DEF CacheIInv, CleanIsHandedOver
  <2>. QED
    BY <2>1, <2>2
<1>. QED
  BY <1>4, <1>5, <1>6, <1>7 DEF CacheIInv

\* Every step of the cache keeps the invariant.
LEMMA CacheStepIInv == CacheIInv /\ [CacheNext]_cacheVars => CacheIInv'
<1>. SUFFICES ASSUME CacheIInv, [CacheNext]_cacheVars PROVE CacheIInv'
  OBVIOUS
<1>1. ASSUME NEW k \in CacheKeys, Set(k) PROVE CacheIInv'
  BY <1>1, ScheduleKeeps DEF Set
<1>2. ASSUME NEW ks \in SUBSET CacheKeys, Delete(ks) PROVE CacheIInv'
  BY <1>2, ScheduleKeeps DEF Delete
<1>3. CASE UNCHANGED cacheVars
  BY <1>3 DEF cacheVars, CacheIInv, QueueOK, Jobs, DisposedIsClean, AgesOK, DirtyIsScheduled, CleanIsHandedOver,
     LatestEntries
<1>. QED
  BY <1>1, <1>2, <1>3, AgingKeeps, BatchEndKeeps, FlushStartKeeps, FlushEndKeeps, CacheDisposalKeeps DEF CacheNext

\* The invariant of the cache holds in every state.
THEOREM CacheInvariant == CacheSpec => []CacheIInv
  BY CacheInitIInv, CacheStepIInv, PTL DEF CacheSpec

\* No write is forgotten: a dirty cache has its flush coming within the longest delay, and once all
\* is flushed the store holds the last entries or those of the disposal, for any keys and delays.
THEOREM CacheKeepsWrites == CacheSpec => []WritesAreKept
<1>1. CacheIInv => WritesAreKept
  <2>. SUFFICES ASSUME CacheIInv PROVE WritesAreKept
    OBVIOUS
  <2>1. ASSUME dirty, Flush \notin Range(queue) PROVE due # NoTime /\ dirtyAge + due <= MaxDelay
    BY <2>1, CacheAssumption DEF CacheIInv, DirtyIsScheduled, AgesOK
  <2>2. DirtyHasFlush
    BY <2>1 DEF DirtyHasFlush
  <2>3. ASSUME queue = <<>>, writing = <<>>, due = NoTime, ~failed PROVE persisted = LatestEntries
    <3>1. Range(queue) = {}
      BY <2>3 DEF Range
    <3>2. ~dirty
      BY <2>3, <3>1 DEF CacheIInv, DirtyIsScheduled
    <3>. QED
      BY <2>3, <3>1, <3>2 DEF CacheIInv, CleanIsHandedOver
  <2>4. SettledIsLatest
    BY <2>3 DEF SettledIsLatest, LatestEntries
  <2>. QED
    BY <2>2, <2>4 DEF WritesAreKept
<1>. QED
  BY <1>1, CacheInvariant, PTL

-----------------------------------------------------------------------------
(* The freshness of a snapshot.                                            *)

\* While the timer trusts a snapshot, the snapshot ages: it was trusted for no longer than it has
\* aged beyond the skew, and not beyond its time to live.
FreshnessIInv ==
  /\ ttl \in -1..MaxTtl /\ age \in Int /\ trustedTicks \in Nat
  /\ trustedTicks > 0 => EffectiveTtl > 0 /\ age <= EffectiveTtl /\ trustedTicks <= age + Skew

\* The timer starts without trust.
LEMMA FreshnessInitIInv == FreshnessInit => FreshnessIInv
  BY FreshnessAssumption DEF FreshnessInit, FreshnessIInv, NoTimestamp

\* Every tick and every setting of the clock keeps the invariant.
LEMMA FreshnessStepIInv == FreshnessIInv /\ [FreshnessNext]_freshnessVars => FreshnessIInv'
<1>. SUFFICES ASSUME FreshnessIInv, [FreshnessNext]_freshnessVars PROVE FreshnessIInv'
  OBVIOUS
<1>. USE FreshnessAssumption
<1>1. CASE StartTimer \/ StopTimer \/ UNCHANGED freshnessVars
  <2>1. ttl' = ttl /\ age' = age /\ (trustedTicks' = trustedTicks \/ trustedTicks' = 0)
    BY <1>1 DEF StartTimer, StopTimer, freshnessVars
  <2>. QED
    BY <2>1 DEF FreshnessIInv, EffectiveTtl
<1>2. ASSUME NEW busy \in BOOLEAN, NEW succeeds \in BOOLEAN, Interval(busy, succeeds) PROVE FreshnessIInv'
  <2>1. CASE Freshness = "fresh"
    <3>1. ttl' = ttl /\ age' = Aged(age) /\ trustedTicks' = trustedTicks + 1
      BY <1>2, <2>1 DEF Interval
    <3>2. EffectiveTtl > 0 /\ age >= -Skew /\ age < EffectiveTtl
      BY <2>1 DEF Freshness, FreshnessIInv, EffectiveTtl
    <3>3. age' = age + 1
      BY <3>1, <3>2 DEF Aged, FreshnessIInv, EffectiveTtl
    <3>. QED
      BY <3>1, <3>2, <3>3 DEF FreshnessIInv, EffectiveTtl
  <2>2. CASE Freshness # "fresh"
    <3>1. ttl' = ttl /\ trustedTicks' = 0 /\ age' \in {0, Aged(age)}
      BY <1>2, <2>2 DEF Interval
    <3>2. age' \in Int
      BY <3>1 DEF Aged, FreshnessIInv
    <3>. QED
      BY <3>1, <3>2 DEF FreshnessIInv
  <2>. QED
    BY <2>1, <2>2
<1>3. ASSUME NEW a \in -MaxJump..MaxJump, ClockSet(a) PROVE FreshnessIInv'
  <2>1. ttl' = ttl /\ trustedTicks' = 0 /\ age' \in Int
    BY <1>3 DEF ClockSet
  <2>. QED
    BY <2>1 DEF FreshnessIInv
<1>. QED
  BY <1>1, <1>2, <1>3 DEF FreshnessNext

\* However the clock is set, a snapshot is trusted no longer than its time to live and the
\* tolerated skew, and with a time to live of zero never.
THEOREM FreshnessBoundsTrust == FreshnessSpec => []TrustIsBounded
<1>1. FreshnessIInv => TrustIsBounded
  BY FreshnessAssumption DEF FreshnessIInv, TrustIsBounded, EffectiveTtl
<1>. QED
  BY <1>1, FreshnessInitIInv, FreshnessStepIInv, PTL DEF FreshnessSpec

-----------------------------------------------------------------------------
(* The components together.                                                *)

\* Whatever component runs, a review of a fix and a removal of many keep their invariants: what stands
\* still stays in the state it began in.
ReviewedIInv == (running = "fixreview" => FixIInv) /\ (running = "bulk" => BulkIInv)

\* A component that does not run is not disturbed.
LEMMA OnlyOneRuns ==
  ASSUME MCNext
  PROVE  /\ UNCHANGED running
         /\ running = "fixreview" => FixReviewNext
         /\ running = "bulk" => BulkNext
BY DEF MCNext, Runs, Others

\* What is carried out of the review of a fix, or of a bulk removal, is what was reviewed, whichever
\* components the host runs.
THEOREM WhatWasReviewedIsCarriedOut == MCSpec => []ReviewedIsCarriedOut
<1>1. MCInit => ReviewedIInv
  BY FixReviewBegins, BulkBegins DEF MCInit, ReviewedIInv
<1>2. ReviewedIInv /\ [MCNext]_MCVars => ReviewedIInv'
  <2> SUFFICES ASSUME ReviewedIInv, [MCNext]_MCVars PROVE ReviewedIInv'
    OBVIOUS
  <2>1. UNCHANGED running
    BY OnlyOneRuns DEF MCVars
  <2>2. CASE running = "fixreview"
    <3>1. [FixReviewNext]_fixVars
      BY <2>2, OnlyOneRuns DEF MCVars
    <3> QED BY <2>1, <2>2, <3>1, FixReviewKeeps DEF ReviewedIInv
  <2>3. CASE running = "bulk"
    <3>1. [BulkNext]_bulkVars
      BY <2>3, OnlyOneRuns DEF MCVars
    <3> QED BY <2>1, <2>3, <3>1, BulkKeeps DEF ReviewedIInv
  <2> QED BY <2>1, <2>2, <2>3 DEF ReviewedIInv
<1>3. ReviewedIInv => ReviewedIsCarriedOut
  BY FixesAgree DEF ReviewedIInv, ReviewedIsCarriedOut, BulkIInv
<1> QED BY <1>1, <1>2, <1>3, PTL DEF MCSpec
=============================================================================
