---------------------------- MODULE DashboardTable ----------------------------
(***************************************************************************)
(* What the dashboard shows of a completed scan: the summary cards of      *)
(* host/summaryMetrics.ts, the filters of host/hygieneFilter.ts,           *)
(* host/dependencyTypeFilter.ts and host/vulnerabilityUiState.ts, the      *)
(* order of host/tableSort.ts, the pages of host/pagination.ts and the     *)
(* rows of webview/src/components/PackageTable.tsx, as webview/src/App.tsx *)
(* combines them; and the criteria of the picker that opens over the table *)
(* (host/dependencyCriteria.ts, components/ManageDependenciesModal.tsx).   *)
(* What is done with the rows a picker finds is BulkRemoval's.             *)
(***************************************************************************)
EXTENDS Integers, Sequences, FiniteSets, SequencesExt, FiniteSetsExt

CONSTANTS
  TableResults,      \* completed scans: [rows, duplicates, unavailable, advisoriesError, auditUnavailable]
  Searches,       \* what a user may search for: sets of terms, {} for nothing
  PageSizes,      \* PAGE_SIZES
  UnusedPackages,  \* what a check of the usage may find unused: sets of names
  MaxTableEvents  \* bound: events

VARIABLES
  table,        \* the state of the webview that the table is drawn from
  tableEvents   \* the events so far

tableVars == <<table, tableEvents>>

ASSUME TableAssumption == PageSizes \subseteq Nat \ {0} /\ {} \in Searches

\* A version is 0 when it is null, 1 when it is no semantic version, and three digits otherwise.
NullVersion == 0
Readable(v) == v > 1
\* SEVERITY_RANK, and a package without advisories.
Critical == 4
High == 3
Info == 0
Safe == -1
SeverityLevels == 1..Critical   \* SeverityCriterion

Cards == {"all", "updates", "vulnerabilities", "attention"}
Columns == {"package", "current", "available", "vulnerabilities"}
NoSort == [column |-> "none", direction |-> "none"]
NoCriteria == [health |-> {}, type |-> {}, severity |-> {}, updates |-> {}]

-----------------------------------------------------------------------------
(* One row                                                                 *)

\* updateTarget, classifyUpdate and classifyRowUpdate
TargetOfUpdate(r) ==
  IF r.current = NullVersion THEN NullVersion
  ELSE IF r.latest \notin {NullVersion, r.current} THEN r.latest
  ELSE IF r.wanted \notin {NullVersion, r.current} THEN r.wanted ELSE NullVersion
ClassifyUpdate(from, to) ==
  IF ~Readable(from) \/ ~Readable(to) THEN "none"
  ELSE IF from \div 100 # to \div 100 THEN "major"
  ELSE IF from \div 10 # to \div 10 THEN "minor"
  ELSE IF from # to THEN "patch" ELSE "none"
UpdateKind(r) == ClassifyUpdate(r.current, TargetOfUpdate(r))

\* rowHasUpdate and rowNeedsAttention
HasUpdate(r) == r.current # NullVersion /\ (r.wanted \notin {NullVersion, r.current} \/ r.latest \notin {NullVersion, r.current})
NeedsAttention(r) == r.severity >= High \/ r.deprecated

\* availableVersionDisplay: the versions the Available column shows, as the second is within the range.
Available(r) ==
  IF r.wanted = NullVersion /\ r.latest = NullVersion THEN <<>>
  ELSE IF r.wanted = r.latest THEN <<r.latest>>
  ELSE <<IF r.latest # NullVersion THEN r.latest ELSE r.wanted, r.wanted>>

\* severityDisplay
SeverityShown(result, r) == IF result.advisoriesError THEN "Unavailable" ELSE IF r.severity = Safe THEN "Safe" ELSE "rated"

MatchesCard(card, r) ==
  CASE card = "all" -> TRUE
    [] card = "updates" -> HasUpdate(r)
    [] card = "vulnerabilities" -> r.severity # Safe
    [] card = "attention" -> NeedsAttention(r)

\* dependencyTypeFilterPredicate
MatchesFilterType(type, r) == type = "all" \/ (type = "dev") = r.dev

\* rowMatchesHygieneFilter: a direct row stands for a duplicate below it too.
MatchesFinding(finding, findings, r) ==
  CASE finding = "all" -> TRUE
    [] finding = "likely-unused" -> \E f \in findings : f.kind = "likely-unused" /\ f.package = r.name
    [] finding = "duplicate-version" -> \E f \in findings : f.kind = "duplicate-version" /\ (f.package = r.name \/ r.name \in f.roots)

\* buildDashboardAdvisoryContexts: one for all versions and paths of a package an advisory flags.
ContextKeys(r) == {<<a.id, a.package>> : a \in r.advisories}
ContextWords(r, key) == UNION {a.words : a \in {b \in r.advisories : <<b.id, b.package>> = key}}
\* filterDashboardAdvisoryContexts
ContextsShown(r, query) == {key \in ContextKeys(r) : query \subseteq r.words \cup ContextWords(r, key)}
\* dependencyRowMatchesSearch and dependencyRowSearchTargetsAdvisory
MatchesSearch(r, query) == query \subseteq r.words \/ ContextsShown(r, query) # {}
TargetsAdvisory(r, query) == ~(query \subseteq r.words) /\ ContextsShown(r, query) # {}

-----------------------------------------------------------------------------
(* The cards                                                               *)

\* summaryMetrics
Metrics(rows) ==
  [total |-> Cardinality(rows),
   updates |-> Cardinality({r \in rows : HasUpdate(r)}),
   kinds |-> [k \in {"major", "minor", "patch", "none"} |-> Cardinality({r \in rows : HasUpdate(r) /\ UpdateKind(r) = k})],
   vulnerable |-> Cardinality({r \in rows : r.severity # Safe}),
   advisoryFindings |-> [s \in Info..Critical |->
     Cardinality({<<a.id, a.package>> : a \in {b \in UNION {r.advisories : r \in rows} : b.severity = s}})],
   urgent |-> Cardinality({r \in rows : r.severity >= High}),
   deprecated |-> Cardinality({r \in rows : r.deprecated}),
   attention |-> Cardinality({r \in rows : NeedsAttention(r)})]

\* incompleteCount, updatesCardValue, vulnerabilitiesCardValue and attentionCardValue
Exactly(n) == [count |-> n, says |-> "exactly"]
AtLeast(n) == [count |-> n, says |-> IF n = 0 THEN "unknown" ELSE "at least"]
CardValue(result, card) ==
  LET m == Metrics(result.rows) IN
  CASE card = "all" -> Exactly(m.total)
    [] card = "updates" -> IF result.unavailable = {} THEN Exactly(m.updates) ELSE AtLeast(m.updates)
    [] card = "vulnerabilities" -> IF result.advisoriesError THEN AtLeast(0) ELSE Exactly(m.vulnerable)
    [] card = "attention" -> IF result.advisoriesError THEN AtLeast(m.attention) ELSE Exactly(m.attention)

\* toHostToWebviewMessage for a scan that is not being replaced
StatusShown(result) ==
  IF result.rows = {} THEN "empty"
  ELSE IF result.unavailable # {} \/ result.advisoriesError \/ result.auditUnavailable THEN "partial-error" ELSE "ready"

\* partialErrorText
Reasons(result) ==
  (IF result.unavailable # {} THEN {"updates"} ELSE {})
  \cup (IF result.advisoriesError THEN {"advisories"} ELSE {})
  \cup (IF result.auditUnavailable THEN {"audit"} ELSE {})

-----------------------------------------------------------------------------
(* The order                                                               *)

\* nextColumnSortState
NextSort(sort, column) ==
  IF sort.column # column THEN [column |-> column, direction |-> "asc"]
  ELSE IF sort.direction = "asc" THEN [column |-> column, direction |-> "desc"] ELSE NoSort

Or(x, y) == IF x # 0 THEN x ELSE y
ByName(a, b) == a.name - b.name
AvailableValue(r) == IF r.latest # NullVersion THEN r.latest ELSE r.wanted

\* compareVersions
CompareVersions(v, w) ==
  IF ~Readable(v) /\ ~Readable(w) THEN 0 ELSE IF ~Readable(v) THEN 1 ELSE IF ~Readable(w) THEN -1 ELSE v - w

\* COLUMN_COMPARATORS and COLUMN_IS_EMPTY
ColumnCompare(column, a, b) ==
  CASE column = "package" -> ByName(a, b)
    [] column = "current" -> CompareVersions(a.current, b.current)
    [] column = "available" -> CompareVersions(AvailableValue(a), AvailableValue(b))
    [] column = "vulnerabilities" -> a.severity - b.severity
ColumnIsEmpty(column, r) ==
  \/ column = "current" /\ ~Readable(r.current)
  \/ column = "available" /\ ~Readable(AvailableValue(r))

\* columnSortComparator
ColumnSort(sort, a, b) ==
  LET emptyA == ColumnIsEmpty(sort.column, a)
      emptyB == ColumnIsEmpty(sort.column, b)
      sign == IF sort.direction = "asc" THEN 1 ELSE -1 IN
  IF emptyA /\ emptyB THEN ByName(a, b)
  ELSE IF emptyA THEN 1
  ELSE IF emptyB THEN -1
  ELSE Or(sign * ColumnCompare(sort.column, a, b), ByName(a, b))

\* attentionRank and updateTierRank
AttentionRank(r) == IF r.severity >= High THEN r.severity ELSE IF r.deprecated THEN 1 ELSE 0
TierRank(r) == LET k == UpdateKind(r) IN IF k = "major" THEN 3 ELSE IF k = "minor" THEN 2 ELSE IF k = "patch" THEN 1 ELSE 0

\* cardDefaultComparator
CardSort(card, a, b) ==
  LET rank(r) == CASE card \in {"all", "vulnerabilities"} -> r.severity [] card = "updates" -> TierRank(r) [] card = "attention" -> AttentionRank(r) IN
  Or(rank(b) - rank(a), ByName(a, b))

\* resolveSortComparator
Compare(sort, card, a, b) == IF sort = NoSort THEN CardSort(card, a, b) ELSE ColumnSort(sort, a, b)
-----------------------------------------------------------------------------
(* The pages                                                               *)

\* paginate
Paginate(rows, requested, size) ==
  LET pages == Max({1, (Len(rows) + size - 1) \div size})
      shown == Min({Max({1, requested}), pages}) IN
  [rows |-> SubSeq(rows, (shown - 1) * size + 1, Min({shown * size, Len(rows)})), pages |-> pages, page |-> shown]

\* compactPageNumbers: 0 stands for the ellipsis.
PageTokens(page, pages) ==
  IF pages <= 7 THEN [i \in 1..pages |-> i]
  ELSE LET sorted == SetToSortSeq({1, pages, page, page - 1, page + 1} \cap 1..pages, <) IN
       FlattenSeq([i \in DOMAIN sorted |->
         IF i > 1 /\ sorted[i] - sorted[i - 1] > 1 THEN <<0, sorted[i]>> ELSE <<sorted[i]>>])

-----------------------------------------------------------------------------
(* The picker's criteria                                                   *)

\* matchesHealth, matchesType, matchesSeverity and matchesUpdates: the chip's own test.
HasHealth(findings, chip, r) == IF chip = "deprecated" THEN r.deprecated ELSE MatchesFinding(chip, findings, r)
HasType(chip, r) == (chip = "dev") = r.dev
HasSeverity(chip, r) == r.severity = chip
HasKind(chip, r) == IF chip = "major-update" THEN UpdateKind(r) = "major" ELSE HasUpdate(r)
AnyChip(chips, Has(_)) == chips = {} \/ \E c \in chips : Has(c)

MatchesHealth(findings, c, r) == AnyChip(c.health, LAMBDA chip : HasHealth(findings, chip, r))
MatchesType(c, r) == AnyChip(c.type, LAMBDA chip : HasType(chip, r))
MatchesSeverity(c, r) == AnyChip(c.severity, LAMBDA chip : HasSeverity(chip, r))
MatchesUpdates(c, r) == AnyChip(c.updates, LAMBDA chip : HasKind(chip, r))

\* rowMatchesCriteria
MatchesCriteria(findings, c, r) ==
  MatchesHealth(findings, c, r) /\ MatchesType(c, r) /\ MatchesSeverity(c, r) /\ MatchesUpdates(c, r)

\* matchReasonTags
ReasonTags(findings, c, r) ==
  [health |-> {chip \in c.health : HasHealth(findings, chip, r)}, type |-> {chip \in c.type : HasType(chip, r)},
   severity |-> {chip \in c.severity : HasSeverity(chip, r)}, updates |-> {chip \in c.updates : HasKind(chip, r)}]

Chips == [health |-> {"likely-unused", "duplicate-version", "deprecated"}, type |-> {"prod", "dev"},
          severity |-> SeverityLevels, updates |-> {"has-update", "major-update"}]

\* criteriaCounts: a chip counts the rows that the other groups leave.
ChipCount(rows, findings, c, group, chip) ==
  Cardinality({r \in rows :
    CASE group = "health" ->
           MatchesType(c, r) /\ MatchesSeverity(c, r) /\ MatchesUpdates(c, r) /\ HasHealth(findings, chip, r)
      [] group = "type" ->
           MatchesHealth(findings, c, r) /\ MatchesSeverity(c, r) /\ MatchesUpdates(c, r) /\ HasType(chip, r)
      [] group = "severity" ->
           MatchesHealth(findings, c, r) /\ MatchesType(c, r) /\ MatchesUpdates(c, r) /\ HasSeverity(chip, r)
      [] group = "updates" ->
           MatchesHealth(findings, c, r) /\ MatchesType(c, r) /\ MatchesSeverity(c, r) /\ HasKind(chip, r)})

\* criteriaFromDashboardFilters
CriteriaFrom(finding, type) ==
  [NoCriteria EXCEPT !.health = IF finding = "all" THEN {} ELSE {finding}, !.type = IF type = "all" THEN {} ELSE {type}]

-----------------------------------------------------------------------------
(* The table, and what happens to it                                       *)

\* allHygieneFindings
AllFindings(t) == t.result.duplicates \cup {[kind |-> "likely-unused", package |-> p, roots |-> {}] : p \in t.unused}

\* filteredRows before they are sorted, for any choice of filters
RowsOf(t, card, type, finding, query) ==
  {r \in t.result.rows : MatchesCard(card, r) /\ MatchesFilterType(type, r) /\ MatchesFinding(finding, AllFindings(t), r) /\ MatchesSearch(r, query)}
Filtered(t) == RowsOf(t, t.card, t.type, t.finding, t.query)
SortedRows(t) == SetToSortSeq(Filtered(t), LAMBDA a, b : Compare(t.sort, t.card, a, b) < 0)
PageShown(t) == Paginate(SortedRows(t), t.page, t.size)

\* findingCounts and typeCounts, each without the filter it counts for
FindingCount(t, finding) ==
  Cardinality({r \in t.result.rows : MatchesFilterType(t.type, r) /\ MatchesFinding(finding, AllFindings(t), r)})
TypeCount(t, type) ==
  IF type = "all" THEN Cardinality(t.result.rows)
  ELSE Cardinality({r \in t.result.rows : MatchesFinding(t.finding, AllFindings(t), r) /\ (type = "dev") = r.dev})

\* upgradesDisabled, which the picker's button obeys.
Disabled(t) == t.stale \/ t.result.unavailable # {} \/ t.result.advisoriesError

\* A row's drilldown: opened by hand, or by the search unless it was closed under this search.
AutoOpens(t, r) == TargetsAdvisory(r, t.query) /\ r.advisories # {}
IsOpen(t, r) == r.advisories # {} /\ (r.name \in t.expanded \/ (AutoOpens(t, r) /\ r.name \notin t.closed))

\* toggle
Toggled(t, r) ==
  LET open == IsOpen(t, r) IN
  [t EXCEPT !.expanded = IF open THEN @ \ {r.name} ELSE @ \cup {r.name},
            !.closed = IF ~AutoOpens(t, r) THEN @ ELSE IF open THEN @ \cup {r.name} ELSE @ \ {r.name}]

\* The table is taken down when it has no row, and what was open in it is forgotten.
Drawn(t) == IF Filtered(t) = {} THEN [t EXCEPT !.expanded = {}, !.closed = {}] ELSE t

TableInit ==
  /\ \E result \in TableResults :
       table = [result |-> result, stale |-> FALSE, unused |-> {}, card |-> "all", type |-> "all", finding |-> "all",
                query |-> {}, sort |-> [column |-> "vulnerabilities", direction |-> "desc"], page |-> 1,
                size |-> Min(PageSizes), expanded |-> {}, closed |-> {}, picking |-> FALSE, criteria |-> NoCriteria,
                checking |-> FALSE, filterNext |-> FALSE]
  /\ tableEvents = 0

Becomes(t) == tableEvents < MaxTableEvents /\ tableEvents' = tableEvents + 1 /\ table' = Drawn(t)

\* While the picker is open nothing behind it can be used.
SelectFilter(card) == ~table.picking /\ Becomes([table EXCEPT !.card = card, !.sort = NoSort, !.page = 1])
SearchChange(query) ==
  ~table.picking /\ Becomes([table EXCEPT !.query = query, !.page = 1, !.closed = IF query = table.query THEN @ ELSE {}])
DependencyTypeChange(type) == ~table.picking /\ Becomes([table EXCEPT !.type = type, !.page = 1])
HygieneFilterChange(finding) == ~table.picking /\ Becomes([table EXCEPT !.finding = finding, !.page = 1])
SortBy(column) ==
  ~table.picking /\ Filtered(table) # {} /\ Becomes([table EXCEPT !.sort = NextSort(@, column), !.page = 1])
PageSizeChange(size) == ~table.picking /\ Filtered(table) # {} /\ Becomes([table EXCEPT !.size = size, !.page = 1])
\* A numbered page, the previous one or the next one.
PageChange(page) ==
  LET shown == PageShown(table) IN
  /\ ~table.picking /\ shown.pages > 1
  /\ page \in 1..shown.pages /\ (page \in ToSet(PageTokens(shown.page, shown.pages)) \/ page \in {shown.page - 1, shown.page + 1})
  /\ Becomes([table EXCEPT !.page = page])
ToggleDetails(r) == ~table.picking /\ r \in ToSet(PageShown(table).rows) /\ r.advisories # {} /\ Becomes(Toggled(table, r))

\* A scan replaces what is shown, or announces that it will: the filters, the page and the order stay.
DashboardMessage(result, stale) ==
  Becomes([table EXCEPT !.result = result, !.stale = stale, !.unused = {}, !.filterNext = FALSE, !.picking = FALSE])

\* The picker, and its check of the usage
OpenPicker == ~table.picking /\ table.result.rows # {} /\ ~Disabled(table)
  /\ Becomes([table EXCEPT !.picking = TRUE, !.criteria = CriteriaFrom(table.finding, table.type)])
ToggleChip(group, chip) ==
  /\ table.picking
  /\ Becomes([table EXCEPT !.criteria[group] = IF chip \in @ THEN @ \ {chip} ELSE @ \cup {chip}])
ClosePicker == table.picking /\ Becomes([table EXCEPT !.picking = FALSE])
RecheckHealth == table.picking /\ ~table.checking /\ Becomes([table EXCEPT !.checking = TRUE, !.filterNext = TRUE])
CancelRecheck == ~table.picking /\ table.checking /\ Becomes([table EXCEPT !.checking = FALSE, !.filterNext = FALSE])
\* cleanup-result, which a cancellation or another scan does not hold back, and cleanup-error
CleanupResult(unused) ==
  LET t == [table EXCEPT !.checking = FALSE, !.unused = unused, !.filterNext = FALSE] IN
  Becomes(IF table.filterNext THEN [t EXCEPT !.finding = "likely-unused", !.page = 1] ELSE t)
CleanupError == table.checking /\ Becomes([table EXCEPT !.checking = FALSE, !.filterNext = FALSE])

TableNext ==
  \/ \E card \in Cards : SelectFilter(card)
  \/ \E query \in Searches : SearchChange(query)
  \/ \E type \in {"all", "prod", "dev"} : DependencyTypeChange(type)
  \/ \E finding \in {"all", "likely-unused", "duplicate-version"} : HygieneFilterChange(finding)
  \/ \E column \in Columns : SortBy(column)
  \/ \E size \in PageSizes : PageSizeChange(size)
  \/ \E page \in 1..Cardinality(table.result.rows) : PageChange(page)
  \/ \E r \in table.result.rows : ToggleDetails(r)
  \/ \E result \in TableResults, stale \in BOOLEAN : DashboardMessage(result, stale)
  \/ OpenPicker
  \/ \E group \in DOMAIN Chips : \E chip \in Chips[group] : ToggleChip(group, chip)
  \/ ClosePicker
  \/ RecheckHealth
  \/ CancelRecheck
  \/ \E unused \in UnusedPackages : CleanupResult(unused)
  \/ CleanupError

-----------------------------------------------------------------------------
(* Properties                                                              *)

\* Whatever page was asked for, also before the rows were replaced by fewer: the page that is shown has
\* rows when there are any, and the pages together show every row that matches exactly once
\* (host/pagination.ts paginate, after App.tsx filteredRows).
PagesShowAll ==
  LET sorted == SortedRows(table)
      shown == PageShown(table)
      page(p) == Paginate(sorted, p, table.size).rows IN
  /\ sorted # <<>> => shown.rows # <<>>
  /\ Len(sorted) = Cardinality(Filtered(table))
  /\ FlattenSeq([p \in 1..shown.pages |-> page(p)]) = sorted

\* The comparison a table is sorted with is a total order, so the order never depends on how the rows
\* arrived; a row without a readable version comes last in either direction, and a click that turns the
\* direction turns the order of all others (host/tableSort.ts).
OrderIsTotal ==
  LET rows == table.result.rows
      c(a, b) == Compare(table.sort, table.card, a, b)
      sorted == SortedRows(table)
      turned == [table.sort EXCEPT !.direction = IF @ = "asc" THEN "desc" ELSE "asc"]
      empty(r) == ColumnIsEmpty(table.sort.column, r) IN
  /\ \A a, b \in rows : a # b => (c(a, b) < 0) # (c(b, a) < 0)
  /\ \A a, b, d \in rows : c(a, b) < 0 /\ c(b, d) < 0 => c(a, d) < 0
  /\ \A i, j \in DOMAIN sorted : i < j /\ empty(sorted[i]) => empty(sorted[j])
  /\ table.sort # NoSort => \A a, b \in rows :
       ~empty(a) /\ ~empty(b) /\ ColumnCompare(table.sort.column, a, b) # 0
         => ((ColumnSort(table.sort, a, b) < 0) # (ColumnSort(turned, a, b) < 0))

\* The number on a card is the number of rows it shows; one that is not exact is never given for a scan
\* that lacks the facts it counts, and a row that is counted as outdated shows another version than the
\* installed one unless its check was not available (host/summaryMetrics.ts, host/versionDisplay.ts).
CardsCountRows ==
  LET m == Metrics(table.result.rows) IN
  /\ \A card \in Cards :
       LET v == CardValue(table.result, card)
           shown == Cardinality(RowsOf(table, card, "all", "all", {})) IN
       /\ v.says # "unknown" => v.count = shown
       /\ v.says = "exactly" /\ card \in {"vulnerabilities", "attention"} => ~table.result.advisoriesError
       /\ v.says = "exactly" /\ card = "updates" => table.result.unavailable = {}
  /\ m.updates = m.kinds["major"] + m.kinds["minor"] + m.kinds["patch"] + m.kinds["none"]
  /\ (m.vulnerable = 0) = (\A s \in Info..Critical : m.advisoryFindings[s] = 0)
  /\ (m.attention = 0) = (m.urgent + m.deprecated = 0)
  /\ \A r \in table.result.rows :
       /\ HasUpdate(r) <=> r.current # NullVersion /\ ToSet(Available(r)) \ {r.current, NullVersion} # {}
       /\ SeverityShown(table.result, r) = "Safe" => r.severity = Safe /\ ~table.result.advisoriesError

\* The number on a filter of the toolbar is the number of rows that choosing it would leave of what the
\* other one shows; only "All" keeps the number of all dependencies (App.tsx findingCounts, typeCounts).
FiltersCountRows ==
  /\ \A finding \in {"likely-unused", "duplicate-version"} :
       FindingCount(table, finding) = Cardinality(RowsOf(table, "all", table.type, finding, {}))
  /\ \A type \in {"prod", "dev"} : TypeCount(table, type) = Cardinality(RowsOf(table, "all", type, table.finding, {}))
  /\ TypeCount(table, "prod") + TypeCount(table, "dev") = Cardinality(RowsOf(table, "all", "all", table.finding, {}))

\* The number on a chip of the picker is the number of rows that match when it is its group's only
\* choice; a row that matches says why for every group that asks something, and says nothing that is
\* not so; the picker opens on what the table's filters show, over complete and current data only
\* (host/dependencyCriteria.ts; App.tsx upgradesDisabled).
ChipsCountRows ==
  LET rows == table.result.rows
      f == AllFindings(table)
      c == table.criteria IN
  /\ table.picking =>
       /\ ~Disabled(table)
       /\ \A group \in DOMAIN Chips : \A chip \in Chips[group] :
            ChipCount(rows, f, c, group, chip) = Cardinality({r \in rows : MatchesCriteria(f, [c EXCEPT ![group] = {chip}], r)})
       /\ \A r \in rows : MatchesCriteria(f, c, r) =>
            \A group \in DOMAIN Chips : c[group] # {} => ReasonTags(f, c, r)[group] # {}
  /\ {r \in rows : MatchesCriteria(f, CriteriaFrom(table.finding, table.type), r)} = RowsOf(table, "all", table.type, table.finding, {})

\* A row that is found by its advisories alone opens by itself, an open row always shows an advisory,
\* and opening or closing it by hand always changes what is shown (PackageTable.tsx toggle).
SearchIsExplained ==
  \A r \in Filtered(table) :
    /\ ~(table.query \subseteq r.words) /\ r.name \notin table.closed => IsOpen(table, r)
    /\ IsOpen(table, r) => ContextsShown(r, table.query) # {}
    /\ r.advisories # {} => IsOpen(Toggled(table, r), r) # IsOpen(table, r)

\* A scan that lacks facts says which, whatever its status (dashboardData.ts; App.tsx partialErrorText).
DegradedIsSaid == StatusShown(table.result) = "partial-error" => Reasons(table.result) # {}

\* Every page can be reached, the first, the last and the neighbours of the one shown by one click, and
\* what an ellipsis stands for is a gap (host/pagination.ts compactPageNumbers).
TokensAreRight ==
  \A pages \in 1..10 : \A page \in 1..pages :
    LET tokens == PageTokens(page, pages)
        numbers == SelectSeq(tokens, LAMBDA t : t # 0) IN
    /\ {1, pages, page} \cup ({page - 1, page + 1} \cap 1..pages) \subseteq ToSet(numbers)
    /\ \A i \in 1..(Len(numbers) - 1) : numbers[i] < numbers[i + 1]
    /\ \A i \in DOMAIN tokens : tokens[i] = 0 => tokens[i + 1] - tokens[i - 1] > 1
    /\ \A i \in 1..(Len(tokens) - 1) : tokens[i] # 0 /\ tokens[i + 1] # 0 => tokens[i + 1] = tokens[i] + 1

TableIsHonest ==
  PagesShowAll /\ OrderIsTotal /\ CardsCountRows /\ FiltersCountRows /\ ChipsCountRows /\ SearchIsExplained
  /\ DegradedIsSaid /\ TokensAreRight
=============================================================================
