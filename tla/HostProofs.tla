----------------------------- MODULE HostProofs -----------------------------
(***************************************************************************)
(* Proofs about the two coordinators of a panel that decide what is shown: *)
(* DashboardController, whose generations say whether rows may be planned  *)
(* from, and UsageCoordinator, whose searches overlap one another.         *)
(***************************************************************************)
EXTENDS DashboardController, UsageCoordinator, TLAPS

-----------------------------------------------------------------------------
(* DashboardController: the inductive invariant *)

Version == Nat
Scanned == {NoContent} \cup (Projects \X Version)
Row == [rows : Scanned, fingerprint : Scanned, complete : BOOLEAN]
Read == [stage : {"idle", "reading", "rereading"}, gen : Nat, project : Projects,
         from : Version, live : BOOLEAN]
Starters == {"none", "drain", "reload", "mutation", "ready", "timer"}
Scan == [reason : {"none", "structural", "local", "time"}, before : Nat, start : Nat,
         content : Scanned, by : Starters]

DataOK ==
  /\ disk \in [Projects -> Version] /\ told \in Version
  /\ source \in Projects \X Version
  /\ last \in Row /\ stored \in [Projects -> Row]
  /\ scan \in Scan /\ drain \in Read /\ reload \in Read

FlagsOK ==
  /\ open \in BOOLEAN /\ burst \in BOOLEAN
  /\ mutation \in {"none", "running", "reading", "applied"}

\* No generation is ahead of the current one, and nothing was reported that is not on disk.
GenerationsOK ==
  /\ reval \in Nat \ {0} /\ confirmed \in Nat /\ eligible \in Nat
  /\ confirmed <= reval /\ eligible <= reval
  /\ told <= disk[Project]

\* A controller that is disposed has nothing under way and nothing to show.
ClosedIsEmpty ==
  ~open => /\ last = Absent /\ eligible = NoGeneration
           /\ scan = NoScan /\ drain = NoRead /\ reload = NoRead /\ mutation = "none"

\* The only reads that are applied are of the selected project's files as they were
\* when the newest of them was reported, or since then.
ReadIsNew(r) ==
  /\ r.gen <= reval
  /\ r.project = Project /\ r.gen = reval => told <= r.from

DrainOK ==
  drain.stage # "idle" => /\ drain.stage = "reading"
                          /\ drain.live => drain.project = Project
                          /\ ReadIsNew(drain)

ReloadOK ==
  reload.stage # "idle" => /\ reload.stage = "rereading" => reload.project = Project
                           /\ ReadIsNew(reload)

\* Between the confirmation of a change and its reread nothing else reads, and no
\* structural run is under way.
MutationIsAlone ==
  /\ reload.stage = "rereading" <=> mutation = "reading"
  /\ mutation = "running" => reload.stage = "idle"
  /\ mutation \in {"running", "reading"} => drain.stage = "idle" /\ scan.reason # "structural"

\* A source confirmed for the current generation is as new as what was reported.
ConfirmedIsNew == open /\ confirmed = reval => told <= source[2]

\* A run that can still grant eligibility works on the source that is held.
ScanIsOfSource ==
  scan.reason # "none" =>
    /\ scan.start <= reval
    /\ scan.reason = "structural" => confirmed < reval
    /\ scan.reason = "structural" \/ scan.start = reval => scan.content = source
    /\ scan.start = reval /\ confirmed = scan.before => told <= source[2]

EligibleIsConfirmed == Eligible => confirmed = reval

EligibleRowsAreTheSource == Eligible /\ last # Absent => last.rows = source

ControllerIInv ==
  /\ DataOK /\ FlagsOK /\ GenerationsOK /\ ClosedIsEmpty
  /\ DrainOK /\ ReloadOK /\ MutationIsAlone
  /\ ConfirmedIsNew /\ ScanIsOfSource
  /\ EligibleIsConfirmed /\ EligibleRowsAreTheSource /\ PersistedIsScanned

-----------------------------------------------------------------------------
(* UsageCoordinator: the inductive invariant *)

Phases == {"idle", "controller", "scan", "answer"}
Identities == Int \X Int
Operation == [phase : Phases, identity : Identities, joined : BOOLEAN, cancelled : BOOLEAN,
              outcome : {"none", "results", "partial", "failed"}]
UsageScan == [owner : Ops \cup {"none", "nobody"}, identity : Identities, cancelled : BOOLEAN]

Messages == {"none", "analyzing", "result", "error", "superseded"}

UsageTypeOK ==
  /\ generation \in Nat /\ fingerprint \in Int
  /\ op \in [Ops -> Operation]
  /\ usageScan \in UsageScan
  /\ claim \in Asked \cup {"none"}
  /\ visible \in [Asked -> Int]
  /\ usageShown \in [Asked -> Messages]

\* A removal request that holds the claim has replaced the result it found on the
\* screen, so that taking back what it holds for shown leaves no result behind.
ClaimedRemovalShowsNoResult == claim = "removal" => usageShown["removal"] # "result"

\* No scan is of a generation still to come.
ScanIsNotAhead == usageScan.identity[1] <= generation

UsageIInv ==
  /\ UsageTypeOK /\ ResultsCanBeTakenBack /\ ClaimsAreHeld /\ BackgroundScanSurvives
  /\ ClaimedRemovalShowsNoResult /\ ScanIsNotAhead
-----------------------------------------------------------------------------
(* The controller's records *)

\* What the fields of its records are.
LEMMA Fields ==
  /\ \A r \in Read : /\ r.stage \in {"idle", "reading", "rereading"} /\ r.gen \in Nat
                     /\ r.project \in Projects /\ r.from \in Nat /\ r.live \in BOOLEAN
  /\ \A s \in Scan : /\ s.reason \in {"none", "structural", "local", "time"}
                     /\ s.before \in Nat /\ s.start \in Nat /\ s.content \in Scanned
  /\ \A r \in Row : r.rows \in Scanned /\ r.fingerprint \in Scanned /\ r.complete \in BOOLEAN
BY DEF Read, Scan, Row, Version

\* The empty ones are records of their kind.
LEMMA Empty ==
  /\ NoRead \in Read /\ NoRead.stage = "idle"
  /\ NoScan \in Scan /\ NoScan.reason = "none"
  /\ Absent \in Row /\ ~Absent.complete
<1>1. (CHOOSE p \in Projects : TRUE) \in Projects
  BY ControllerAssumption
<1>2. NoRead \in Read /\ NoRead.stage = "idle"
  BY <1>1 DEF NoRead, Read, NoGeneration, Version
<1>3. NoScan \in Scan /\ NoScan.reason = "none"
  <2>1. NoContent \in Scanned /\ NoGeneration \in Nat
    BY DEF Scanned, NoGeneration
  <2> QED BY <2>1 DEF NoScan, Scan, Starters
<1>4. Absent \in Row /\ ~Absent.complete
  BY DEF Absent, Row, Scanned
<1> QED BY <1>2, <1>3, <1>4

\* What the types of the variables give, with the records opaque.
LEMMA Held ==
  ASSUME DataOK
  PROVE  /\ Project \in Projects /\ source[2] \in Nat /\ source = <<Project, source[2]>>
         /\ source \in Scanned
         /\ \A p \in Projects : disk[p] \in Nat
         /\ \A p \in Projects : stored[p] \in Row
BY DEF DataOK, Project, Scanned, Version

\* What a run has begun: a structural one in the next generation, any other only
\* when the generation it begins from needs no new confirmation.
LEMMA RunBegins ==
  ASSUME NEW reason \in {"structural", "local", "time"}, NEW g \in Nat, NEW conf \in Nat,
         NEW c \in Scanned, NEW rows, NEW by \in Starters, Run(reason, g, conf, c, rows, by)
  PROVE  /\ scan' \in Scan /\ scan'.reason # "none"
         /\ scan'.start = reval' /\ scan'.before = g /\ scan'.content = c
         /\ confirmed' = conf
         /\ scan'.reason = "structural" => reval' = g + 1
         /\ scan'.reason # "structural" => reval' = g /\ reason # "structural"
         /\ scan'.reason = "time" => eligible = g
         /\ reason = "local" /\ conf = g => scan'.reason = "local"
<1> DEFINE effective == CASE reason = "time" /\ ~(eligible # NoGeneration /\ eligible = g) -> "structural"
                          [] reason = "local" /\ conf # g -> "structural"
                          [] OTHER -> reason
           start == IF effective = "structural" THEN g + 1 ELSE g
<1>1. /\ scan' = [reason |-> effective, before |-> g, start |-> start, content |-> c, by |-> by]
      /\ reval' = start /\ confirmed' = conf
  BY DEF Run
<1>2. /\ effective \in {"structural", "local", "time"}
      /\ effective # "structural" => reason # "structural"
      /\ effective = "time" => eligible = g
      /\ reason = "local" /\ conf = g => effective = "local"
  OBVIOUS
<1> HIDE DEF effective
<1>3. start \in Nat
  OBVIOUS
<1>4. scan' \in Scan
  BY <1>1, <1>2, <1>3 DEF Scan
<1> QED BY <1>1, <1>2, <1>4

-----------------------------------------------------------------------------
(* The controller's steps *)

\* The controller's invariant survives: files change on disk.
LEMMA EditKeeps ==
  ASSUME NEW p \in Projects, ControllerIInv, Edit(p)
  PROVE  ControllerIInv'
<1> USE Fields, Empty, Held DEF ControllerIInv, generations, NoGeneration
<1>1. disk' \in [Projects -> Nat] /\ \A q \in Projects : disk[q] <= disk'[q]
  BY DEF DataOK, Edit, Version
<1>2. DataOK'
  BY <1>1 DEF DataOK, Edit, Version
<1>3. FlagsOK'
  BY <1>2, <1>1 DEF DataOK, Edit, FlagsOK, Version
<1>4. GenerationsOK'
  BY <1>2, <1>1 DEF DataOK, Edit, GenerationsOK, Project, Version
<1>5. ClosedIsEmpty'
  BY <1>2, <1>1 DEF DataOK, Edit, ClosedIsEmpty, FlagsOK, Version
<1>6. DrainOK'
  BY <1>2, <1>1 DEF DataOK, Edit, DrainOK, ReadIsNew, Project, GenerationsOK, Version
<1>7. ReloadOK'
  BY <1>2, <1>1 DEF DataOK, Edit, ReloadOK, ReadIsNew, Project, GenerationsOK, Version
<1>8. MutationIsAlone'
  BY <1>2, <1>1 DEF DataOK, Edit, MutationIsAlone, FlagsOK, Version
<1>9. ConfirmedIsNew'
  BY <1>2, <1>1 DEF DataOK, Edit, ConfirmedIsNew, GenerationsOK, Version
<1>10. ScanIsOfSource'
  BY <1>2, <1>1 DEF DataOK, Edit, ScanIsOfSource, GenerationsOK, ConfirmedIsNew, Version
<1>11. EligibleIsConfirmed'
  BY <1>2, <1>1 DEF DataOK, Edit, EligibleIsConfirmed, Eligible, GenerationsOK, Version
<1>12. EligibleRowsAreTheSource'
  BY <1>2, <1>1 DEF DataOK, Edit, EligibleRowsAreTheSource, EligibleIsConfirmed, Eligible, GenerationsOK,
     Version
<1>13. PersistedIsScanned'
  BY <1>2, <1>1 DEF DataOK, Edit, PersistedIsScanned, Project, Version
<1> QED BY <1>2, <1>3, <1>4, <1>5, <1>6, <1>7, <1>8, <1>9, <1>10, <1>11, <1>12, <1>13

\* The controller's invariant survives: a panel opens.
LEMMA OpenKeeps ==
  ASSUME NEW p \in Projects, ControllerIInv, Open(p)
  PROVE  ControllerIInv'
<1> USE Fields, Empty, Held DEF ControllerIInv, generations, NoGeneration
<1>1. /\ drain.stage = "idle" /\ reload.stage = "idle" /\ scan.reason = "none" /\ last = Absent
      /\ mutation = "none" /\ eligible = NoGeneration
  BY DEF Open, ClosedIsEmpty, FlagsOK
<1>2. DataOK'
  BY <1>1 DEF DataOK, Open, OnDisk, Version
<1>3. FlagsOK'
  BY <1>2, <1>1 DEF DataOK, Open, FlagsOK, OnDisk, Version
<1>4. GenerationsOK'
  BY <1>2, <1>1 DEF DataOK, Open, GenerationsOK, Project, OnDisk, Version
<1>5. ClosedIsEmpty'
  BY <1>2, <1>1 DEF DataOK, Open, ClosedIsEmpty, FlagsOK, OnDisk, Version
<1>6. DrainOK'
  BY <1>2, <1>1 DEF DataOK, Open, DrainOK, ReadIsNew, Project, GenerationsOK, OnDisk, Version
<1>7. ReloadOK'
  BY <1>2, <1>1 DEF DataOK, Open, ReloadOK, ReadIsNew, Project, GenerationsOK, OnDisk, Version
<1>8. MutationIsAlone'
  BY <1>2, <1>1 DEF DataOK, Open, MutationIsAlone, FlagsOK, OnDisk, Version
<1>9. ConfirmedIsNew'
  BY <1>2, <1>1 DEF DataOK, Open, ConfirmedIsNew, GenerationsOK, OnDisk, Version
<1>10. ScanIsOfSource'
  BY <1>2, <1>1 DEF DataOK, Open, ScanIsOfSource, GenerationsOK, ConfirmedIsNew, OnDisk, Version
<1>11. EligibleIsConfirmed'
  BY <1>2, <1>1 DEF DataOK, Open, EligibleIsConfirmed, Eligible, GenerationsOK, OnDisk, Version
<1>12. EligibleRowsAreTheSource'
  BY <1>2, <1>1 DEF DataOK, Open, EligibleRowsAreTheSource, EligibleIsConfirmed, Eligible, GenerationsOK,
     OnDisk, Version
<1>13. PersistedIsScanned'
  BY <1>2, <1>1 DEF DataOK, Open, PersistedIsScanned, Project, OnDisk, Version
<1> QED BY <1>2, <1>3, <1>4, <1>5, <1>6, <1>7, <1>8, <1>9, <1>10, <1>11, <1>12, <1>13

\* The controller's invariant survives: a watcher reports.
LEMMA WatcherEventKeeps ==
  ASSUME ControllerIInv, WatcherEvent
  PROVE  ControllerIInv'
<1> USE Fields, Empty, Held DEF ControllerIInv, generations, NoGeneration
<1>1. DataOK'
  BY DEF DataOK, WatcherEvent, Version
<1>2. FlagsOK'
  BY <1>1 DEF DataOK, WatcherEvent, FlagsOK, Version
<1>3. GenerationsOK'
  BY <1>1 DEF DataOK, WatcherEvent, GenerationsOK, Project, Version
<1>4. ClosedIsEmpty'
  BY <1>1 DEF DataOK, WatcherEvent, ClosedIsEmpty, FlagsOK, Version
<1>5. DrainOK'
  BY <1>1 DEF DataOK, WatcherEvent, DrainOK, ReadIsNew, Project, GenerationsOK, Version
<1>6. ReloadOK'
  BY <1>1 DEF DataOK, WatcherEvent, ReloadOK, ReadIsNew, Project, GenerationsOK, Version
<1>7. MutationIsAlone'
  BY <1>1 DEF DataOK, WatcherEvent, MutationIsAlone, FlagsOK, Version
<1>8. ConfirmedIsNew'
  BY <1>1 DEF DataOK, WatcherEvent, ConfirmedIsNew, GenerationsOK, Version
<1>9. ScanIsOfSource'
  BY <1>1 DEF DataOK, WatcherEvent, ScanIsOfSource, GenerationsOK, ConfirmedIsNew, Version
<1>10. EligibleIsConfirmed'
  BY <1>1 DEF DataOK, WatcherEvent, EligibleIsConfirmed, Eligible, GenerationsOK, Version
<1>11. EligibleRowsAreTheSource'
  BY <1>1 DEF DataOK, WatcherEvent, EligibleRowsAreTheSource, EligibleIsConfirmed, Eligible, GenerationsOK,
     Version
<1>12. PersistedIsScanned'
  BY <1>1 DEF DataOK, WatcherEvent, PersistedIsScanned, Project, Version
<1> QED BY <1>1, <1>2, <1>3, <1>4, <1>5, <1>6, <1>7, <1>8, <1>9, <1>10, <1>11, <1>12

\* The controller's invariant survives: a burst is drained.
LEMMA StartDrainKeeps ==
  ASSUME ControllerIInv, StartDrain
  PROVE  ControllerIInv'
<1> USE Fields, Empty, Held DEF ControllerIInv, generations, NoGeneration
<1>1. drain' = [stage |-> "reading", gen |-> reval + 1, project |-> Project, from |-> disk[Project], live |-> TRUE]
  BY DEF StartDrain
<1>2. drain' \in Read
  BY <1>1 DEF Read, GenerationsOK, Version
<1>3. stored' \in [Projects -> Row]
  BY DEF StartDrain, DataOK
<1>4. DataOK'
  BY <1>1, <1>2, <1>3 DEF DataOK, StartDrain, Version
<1>5. FlagsOK'
  BY <1>4, <1>1 DEF DataOK, StartDrain, FlagsOK, Version
<1>6. GenerationsOK'
  BY <1>4, <1>1 DEF DataOK, StartDrain, GenerationsOK, Project, Version
<1>7. ClosedIsEmpty'
  BY <1>4, <1>1 DEF DataOK, StartDrain, ClosedIsEmpty, FlagsOK, Version
<1>8. DrainOK'
  BY <1>4, <1>1 DEF DataOK, StartDrain, DrainOK, ReadIsNew, Project, GenerationsOK, Version
<1>9. ReloadOK'
  BY <1>4, <1>1 DEF DataOK, StartDrain, ReloadOK, ReadIsNew, Project, GenerationsOK, Version
<1>10. MutationIsAlone'
  BY <1>4, <1>1 DEF DataOK, StartDrain, MutationIsAlone, FlagsOK, Version
<1>11. ConfirmedIsNew'
  BY <1>4, <1>1 DEF DataOK, StartDrain, ConfirmedIsNew, GenerationsOK, Version
<1>12. ScanIsOfSource'
  BY <1>4, <1>1 DEF DataOK, StartDrain, ScanIsOfSource, GenerationsOK, ConfirmedIsNew, Version
<1>13. EligibleIsConfirmed'
  BY <1>4, <1>1 DEF DataOK, StartDrain, EligibleIsConfirmed, Eligible, GenerationsOK, Version
<1>14. EligibleRowsAreTheSource'
  BY <1>4, <1>1 DEF DataOK, StartDrain, EligibleRowsAreTheSource, EligibleIsConfirmed, Eligible,
     GenerationsOK, Version
<1>15. PersistedIsScanned'
  BY <1>4, <1>1 DEF DataOK, StartDrain, PersistedIsScanned, Project, Version
<1> QED BY <1>4, <1>5, <1>6, <1>7, <1>8, <1>9, <1>10, <1>11, <1>12, <1>13, <1>14, <1>15

\* The controller's invariant survives: the read of a burst fails.
LEMMA DrainReadFailsKeeps ==
  ASSUME ControllerIInv, DrainReadFails
  PROVE  ControllerIInv'
<1> USE Fields, Empty, Held DEF ControllerIInv, generations, NoGeneration
<1>1. DataOK'
  BY DEF DataOK, DrainReadFails
<1>2. FlagsOK'
  BY <1>1 DEF DataOK, DrainReadFails, FlagsOK
<1>3. GenerationsOK'
  BY <1>1 DEF DataOK, DrainReadFails, GenerationsOK, Project
<1>4. ClosedIsEmpty'
  BY <1>1 DEF DataOK, DrainReadFails, ClosedIsEmpty, FlagsOK
<1>5. DrainOK'
  BY <1>1 DEF DataOK, DrainReadFails, DrainOK, ReadIsNew, Project, GenerationsOK
<1>6. ReloadOK'
  BY <1>1 DEF DataOK, DrainReadFails, ReloadOK, ReadIsNew, Project, GenerationsOK
<1>7. MutationIsAlone'
  BY <1>1 DEF DataOK, DrainReadFails, MutationIsAlone, FlagsOK
<1>8. ConfirmedIsNew'
  BY <1>1 DEF DataOK, DrainReadFails, ConfirmedIsNew, GenerationsOK
<1>9. ScanIsOfSource'
  BY <1>1 DEF DataOK, DrainReadFails, ScanIsOfSource, GenerationsOK, ConfirmedIsNew
<1>10. EligibleIsConfirmed'
  BY <1>1 DEF DataOK, DrainReadFails, EligibleIsConfirmed, Eligible, GenerationsOK
<1>11. EligibleRowsAreTheSource'
  BY <1>1 DEF DataOK, DrainReadFails, EligibleRowsAreTheSource, EligibleIsConfirmed, Eligible, GenerationsOK
<1>12. PersistedIsScanned'
  BY <1>1 DEF DataOK, DrainReadFails, PersistedIsScanned, Project
<1> QED BY <1>1, <1>2, <1>3, <1>4, <1>5, <1>6, <1>7, <1>8, <1>9, <1>10, <1>11, <1>12

\* The controller's invariant survives: the read of a reload fails.
LEMMA ReloadFailsKeeps ==
  ASSUME ControllerIInv, ReloadFails
  PROVE  ControllerIInv'
<1> USE Fields, Empty, Held DEF ControllerIInv, generations, NoGeneration
<1>1. DataOK'
  BY DEF DataOK, ReloadFails
<1>2. FlagsOK'
  BY <1>1 DEF DataOK, ReloadFails, FlagsOK
<1>3. GenerationsOK'
  BY <1>1 DEF DataOK, ReloadFails, GenerationsOK, Project
<1>4. ClosedIsEmpty'
  BY <1>1 DEF DataOK, ReloadFails, ClosedIsEmpty, FlagsOK
<1>5. DrainOK'
  BY <1>1 DEF DataOK, ReloadFails, DrainOK, ReadIsNew, Project, GenerationsOK
<1>6. ReloadOK'
  BY <1>1 DEF DataOK, ReloadFails, ReloadOK, ReadIsNew, Project, GenerationsOK
<1>7. MutationIsAlone'
  BY <1>1 DEF DataOK, ReloadFails, MutationIsAlone, FlagsOK
<1>8. ConfirmedIsNew'
  BY <1>1 DEF DataOK, ReloadFails, ConfirmedIsNew, GenerationsOK
<1>9. ScanIsOfSource'
  BY <1>1 DEF DataOK, ReloadFails, ScanIsOfSource, GenerationsOK, ConfirmedIsNew
<1>10. EligibleIsConfirmed'
  BY <1>1 DEF DataOK, ReloadFails, EligibleIsConfirmed, Eligible, GenerationsOK
<1>11. EligibleRowsAreTheSource'
  BY <1>1 DEF DataOK, ReloadFails, EligibleRowsAreTheSource, EligibleIsConfirmed, Eligible, GenerationsOK
<1>12. PersistedIsScanned'
  BY <1>1 DEF DataOK, ReloadFails, PersistedIsScanned, Project
<1> QED BY <1>1, <1>2, <1>3, <1>4, <1>5, <1>6, <1>7, <1>8, <1>9, <1>10, <1>11, <1>12

\* The controller's invariant survives: a change begins.
LEMMA BeginMutationKeeps ==
  ASSUME ControllerIInv, BeginMutation
  PROVE  ControllerIInv'
<1> USE Fields, Empty, Held DEF ControllerIInv, generations, NoGeneration
<1>1. open /\ scan.reason # "structural"
  BY DEF BeginMutation, AcceptsUpgrade, EligibleIsConfirmed, ScanIsOfSource, DataOK, GenerationsOK
<1>2. DataOK'
  BY <1>1 DEF DataOK, BeginMutation
<1>3. FlagsOK'
  BY <1>2, <1>1 DEF DataOK, BeginMutation, FlagsOK
<1>4. GenerationsOK'
  BY <1>2, <1>1 DEF DataOK, BeginMutation, GenerationsOK, Project
<1>5. ClosedIsEmpty'
  BY <1>2, <1>1 DEF DataOK, BeginMutation, ClosedIsEmpty, FlagsOK
<1>6. DrainOK'
  BY <1>2, <1>1 DEF DataOK, BeginMutation, DrainOK, ReadIsNew, Project, GenerationsOK
<1>7. ReloadOK'
  BY <1>2, <1>1 DEF DataOK, BeginMutation, ReloadOK, ReadIsNew, Project, GenerationsOK
<1>8. MutationIsAlone'
  BY <1>2, <1>1 DEF DataOK, BeginMutation, MutationIsAlone, FlagsOK
<1>9. ConfirmedIsNew'
  BY <1>2, <1>1 DEF DataOK, BeginMutation, ConfirmedIsNew, GenerationsOK
<1>10. ScanIsOfSource'
  BY <1>2, <1>1 DEF DataOK, BeginMutation, ScanIsOfSource, GenerationsOK, ConfirmedIsNew
<1>11. EligibleIsConfirmed'
  BY <1>2, <1>1 DEF DataOK, BeginMutation, EligibleIsConfirmed, Eligible, GenerationsOK
<1>12. EligibleRowsAreTheSource'
  BY <1>2, <1>1 DEF DataOK, BeginMutation, EligibleRowsAreTheSource, EligibleIsConfirmed, Eligible,
     GenerationsOK
<1>13. PersistedIsScanned'
  BY <1>2, <1>1 DEF DataOK, BeginMutation, PersistedIsScanned, Project
<1> QED BY <1>2, <1>3, <1>4, <1>5, <1>6, <1>7, <1>8, <1>9, <1>10, <1>11, <1>12, <1>13

\* The controller's invariant survives: the reread begins.
LEMMA StartRereadKeeps ==
  ASSUME ControllerIInv, StartReread
  PROVE  ControllerIInv'
<1> USE Fields, Empty, Held DEF ControllerIInv, generations, NoGeneration
<1>1. reload' = [stage |-> "rereading", gen |-> reval + 1, project |-> Project, from |-> disk[Project], live |-> TRUE]
  BY DEF StartReread
<1>2. reload' \in Read
  BY <1>1 DEF Read, GenerationsOK, Version
<1>3. drain' \in Read /\ drain'.stage = drain.stage /\ drain'.gen = drain.gen
      /\ drain'.project = drain.project /\ drain'.from = drain.from /\ ~drain'.live
  BY DEF StartReread, DataOK, Read
<1>4. DataOK'
  BY <1>1, <1>2, <1>3 DEF DataOK, StartReread, Version
<1>5. FlagsOK'
  BY <1>4, <1>1, <1>3 DEF DataOK, StartReread, FlagsOK, Version
<1>6. GenerationsOK'
  BY <1>4, <1>1, <1>3 DEF DataOK, StartReread, GenerationsOK, Project, Version
<1>7. ClosedIsEmpty'
  BY <1>4, <1>1, <1>3 DEF DataOK, StartReread, ClosedIsEmpty, FlagsOK, Version
<1>8. DrainOK'
  BY <1>4, <1>1, <1>3 DEF DataOK, StartReread, DrainOK, ReadIsNew, Project, GenerationsOK, Version
<1>9. ReloadOK'
  BY <1>4, <1>1, <1>3 DEF DataOK, StartReread, ReloadOK, ReadIsNew, Project, GenerationsOK, Version
<1>10. MutationIsAlone'
  BY <1>4, <1>1, <1>3 DEF DataOK, StartReread, MutationIsAlone, FlagsOK, Version
<1>11. ConfirmedIsNew'
  BY <1>4, <1>1, <1>3 DEF DataOK, StartReread, ConfirmedIsNew, GenerationsOK, Version
<1>12. ScanIsOfSource'
  BY <1>4, <1>1, <1>3 DEF DataOK, StartReread, ScanIsOfSource, GenerationsOK, ConfirmedIsNew, Version
<1>13. EligibleIsConfirmed'
  BY <1>4, <1>1, <1>3 DEF DataOK, StartReread, EligibleIsConfirmed, Eligible, GenerationsOK, Version
<1>14. EligibleRowsAreTheSource'
  BY <1>4, <1>1, <1>3 DEF DataOK, StartReread, EligibleRowsAreTheSource, EligibleIsConfirmed, Eligible,
     GenerationsOK, Version
<1>15. PersistedIsScanned'
  BY <1>4, <1>1, <1>3 DEF DataOK, StartReread, PersistedIsScanned, Project, Version
<1> QED BY <1>4, <1>5, <1>6, <1>7, <1>8, <1>9, <1>10, <1>11, <1>12, <1>13, <1>14, <1>15

\* The controller's invariant survives: the lock goes.
LEMMA ReleaseKeeps ==
  ASSUME ControllerIInv, Release
  PROVE  ControllerIInv'
<1> USE Fields, Empty, Held DEF ControllerIInv, generations, NoGeneration
<1>1. DataOK'
  BY DEF DataOK, Release
<1>2. FlagsOK'
  BY <1>1 DEF DataOK, Release, FlagsOK
<1>3. GenerationsOK'
  BY <1>1 DEF DataOK, Release, GenerationsOK, Project
<1>4. ClosedIsEmpty'
  BY <1>1 DEF DataOK, Release, ClosedIsEmpty, FlagsOK
<1>5. DrainOK'
  BY <1>1 DEF DataOK, Release, DrainOK, ReadIsNew, Project, GenerationsOK
<1>6. ReloadOK'
  BY <1>1 DEF DataOK, Release, ReloadOK, ReadIsNew, Project, GenerationsOK
<1>7. MutationIsAlone'
  BY <1>1 DEF DataOK, Release, MutationIsAlone, FlagsOK
<1>8. ConfirmedIsNew'
  BY <1>1 DEF DataOK, Release, ConfirmedIsNew, GenerationsOK
<1>9. ScanIsOfSource'
  BY <1>1 DEF DataOK, Release, ScanIsOfSource, GenerationsOK, ConfirmedIsNew
<1>10. EligibleIsConfirmed'
  BY <1>1 DEF DataOK, Release, EligibleIsConfirmed, Eligible, GenerationsOK
<1>11. EligibleRowsAreTheSource'
  BY <1>1 DEF DataOK, Release, EligibleRowsAreTheSource, EligibleIsConfirmed, Eligible, GenerationsOK
<1>12. PersistedIsScanned'
  BY <1>1 DEF DataOK, Release, PersistedIsScanned, Project
<1> QED BY <1>1, <1>2, <1>3, <1>4, <1>5, <1>6, <1>7, <1>8, <1>9, <1>10, <1>11, <1>12

\* The controller's invariant survives: a run has nothing to show.
LEMMA ScanFailsKeeps ==
  ASSUME ControllerIInv, ScanFails
  PROVE  ControllerIInv'
<1> USE Fields, Empty, Held DEF ControllerIInv, generations, NoGeneration
<1>1. DataOK'
  BY DEF DataOK, ScanFails
<1>2. FlagsOK'
  BY <1>1 DEF DataOK, ScanFails, FlagsOK
<1>3. GenerationsOK'
  BY <1>1 DEF DataOK, ScanFails, GenerationsOK, Project
<1>4. ClosedIsEmpty'
  BY <1>1 DEF DataOK, ScanFails, ClosedIsEmpty, FlagsOK
<1>5. DrainOK'
  BY <1>1 DEF DataOK, ScanFails, DrainOK, ReadIsNew, Project, GenerationsOK
<1>6. ReloadOK'
  BY <1>1 DEF DataOK, ScanFails, ReloadOK, ReadIsNew, Project, GenerationsOK
<1>7. MutationIsAlone'
  BY <1>1 DEF DataOK, ScanFails, MutationIsAlone, FlagsOK
<1>8. ConfirmedIsNew'
  BY <1>1 DEF DataOK, ScanFails, ConfirmedIsNew, GenerationsOK
<1>9. ScanIsOfSource'
  BY <1>1 DEF DataOK, ScanFails, ScanIsOfSource, GenerationsOK, ConfirmedIsNew
<1>10. EligibleIsConfirmed'
  BY <1>1 DEF DataOK, ScanFails, EligibleIsConfirmed, Eligible, GenerationsOK
<1>11. EligibleRowsAreTheSource'
  BY <1>1 DEF DataOK, ScanFails, EligibleRowsAreTheSource, EligibleIsConfirmed, Eligible, GenerationsOK
<1>12. PersistedIsScanned'
  BY <1>1 DEF DataOK, ScanFails, PersistedIsScanned, Project
<1> QED BY <1>1, <1>2, <1>3, <1>4, <1>5, <1>6, <1>7, <1>8, <1>9, <1>10, <1>11, <1>12

\* The controller's invariant survives: the panel is closed.
LEMMA DisposeKeeps ==
  ASSUME ControllerIInv, Dispose
  PROVE  ControllerIInv'
<1> USE Fields, Empty, Held DEF ControllerIInv, generations, NoGeneration
<1>1. DataOK'
  BY DEF DataOK, Dispose
<1>2. FlagsOK'
  BY <1>1 DEF DataOK, Dispose, FlagsOK
<1>3. GenerationsOK'
  BY <1>1 DEF DataOK, Dispose, GenerationsOK, Project
<1>4. ClosedIsEmpty'
  BY <1>1 DEF DataOK, Dispose, ClosedIsEmpty, FlagsOK
<1>5. DrainOK'
  BY <1>1 DEF DataOK, Dispose, DrainOK, ReadIsNew, Project, GenerationsOK
<1>6. ReloadOK'
  BY <1>1 DEF DataOK, Dispose, ReloadOK, ReadIsNew, Project, GenerationsOK
<1>7. MutationIsAlone'
  BY <1>1 DEF DataOK, Dispose, MutationIsAlone, FlagsOK
<1>8. ConfirmedIsNew'
  BY <1>1 DEF DataOK, Dispose, ConfirmedIsNew, GenerationsOK
<1>9. ScanIsOfSource'
  BY <1>1 DEF DataOK, Dispose, ScanIsOfSource, GenerationsOK, ConfirmedIsNew
<1>10. EligibleIsConfirmed'
  BY <1>1 DEF DataOK, Dispose, EligibleIsConfirmed, Eligible, GenerationsOK
<1>11. EligibleRowsAreTheSource'
  BY <1>1 DEF DataOK, Dispose, EligibleRowsAreTheSource, EligibleIsConfirmed, Eligible, GenerationsOK
<1>12. PersistedIsScanned'
  BY <1>1 DEF DataOK, Dispose, PersistedIsScanned, Project
<1> QED BY <1>1, <1>2, <1>3, <1>4, <1>5, <1>6, <1>7, <1>8, <1>9, <1>10, <1>11, <1>12

\* The controller's invariant survives: the timer starts a run.
LEMMA TickKeeps ==
  ASSUME ControllerIInv, Tick
  PROVE  ControllerIInv'
<1> USE Fields, Empty, Held DEF ControllerIInv, generations, NoGeneration
<1>1. Run("time", reval, confirmed, source, last, "timer")
  BY DEF Tick
<1>2. /\ scan' \in Scan /\ scan'.reason # "none"
      /\ scan'.start = reval' /\ scan'.before = reval /\ scan'.content = source
      /\ confirmed' = confirmed /\ (reval' = reval \/ reval' = reval + 1)
      /\ scan'.reason = "structural" => reval' = reval + 1
      /\ reval' = reval => scan'.reason # "structural"
  BY <1>1, RunBegins DEF DataOK, GenerationsOK, Starters
<1>3. DataOK'
  BY <1>2 DEF DataOK, Tick
<1>4. FlagsOK'
  BY <1>3, <1>2 DEF DataOK, Tick, FlagsOK
<1>5. GenerationsOK'
  BY <1>3, <1>2 DEF DataOK, Tick, GenerationsOK, Project
<1>6. ClosedIsEmpty'
  BY <1>3, <1>2 DEF DataOK, Tick, ClosedIsEmpty, FlagsOK
<1>7. DrainOK'
  BY <1>3, <1>2 DEF DataOK, Tick, DrainOK, ReadIsNew, Project, GenerationsOK
<1>8. ReloadOK'
  BY <1>3, <1>2 DEF DataOK, Tick, ReloadOK, ReadIsNew, Project, GenerationsOK
<1>9. MutationIsAlone'
  BY <1>3, <1>2 DEF DataOK, Tick, MutationIsAlone, FlagsOK
<1>10. ConfirmedIsNew'
  BY <1>3, <1>2 DEF DataOK, Tick, ConfirmedIsNew, GenerationsOK
<1>11. ScanIsOfSource'
  BY <1>3, <1>2 DEF DataOK, Tick, ScanIsOfSource, GenerationsOK, ConfirmedIsNew
<1>12. EligibleIsConfirmed'
  BY <1>3, <1>2 DEF DataOK, Tick, EligibleIsConfirmed, Eligible, GenerationsOK
<1>13. EligibleRowsAreTheSource'
  BY <1>3, <1>2 DEF DataOK, Tick, EligibleRowsAreTheSource, EligibleIsConfirmed, Eligible, GenerationsOK
<1>14. PersistedIsScanned'
  BY <1>3, <1>2 DEF DataOK, Tick, PersistedIsScanned, Project
<1> QED BY <1>3, <1>4, <1>5, <1>6, <1>7, <1>8, <1>9, <1>10, <1>11, <1>12, <1>13, <1>14

\* The controller's invariant survives: a reload begins, the user's or the one that replaces a failed reread.
LEMMA StartReloadKeeps ==
  ASSUME NEW p \in Projects, NEW by, ControllerIInv, StartReload(p, by),
         \/ mutation = "none" /\ mutation' = "none"
         \/ reload.stage = "rereading" /\ mutation' = "applied"
  PROVE  ControllerIInv'
<1> USE Fields, Empty, Held DEF ControllerIInv, generations, NoGeneration
<1>1. reload' = [stage |-> "reading", gen |-> reval + 1, project |-> p, from |-> disk[p], live |-> TRUE]
  BY DEF StartReload
<1>2. reload' \in Read
  BY <1>1 DEF Read, GenerationsOK, Version
<1>3. drain' \in Read /\ drain'.stage = drain.stage /\ drain'.gen = drain.gen
      /\ drain'.project = drain.project /\ drain'.from = drain.from /\ ~drain'.live
  BY DEF StartReload, DataOK, Read
<1>4. DataOK'
  BY <1>1, <1>2, <1>3 DEF DataOK, StartReload, Version, MutationIsAlone
<1>5. FlagsOK'
  BY <1>4, <1>1, <1>3 DEF DataOK, StartReload, FlagsOK, Version, MutationIsAlone
<1>6. GenerationsOK'
  BY <1>4, <1>1, <1>3 DEF DataOK, StartReload, GenerationsOK, Project, Version, MutationIsAlone
<1>7. ClosedIsEmpty'
  BY <1>4, <1>1, <1>3 DEF DataOK, StartReload, ClosedIsEmpty, FlagsOK, Version, MutationIsAlone
<1>8. DrainOK'
  BY <1>4, <1>1, <1>3 DEF DataOK, StartReload, DrainOK, ReadIsNew, Project, GenerationsOK, Version,
     MutationIsAlone
<1>9. ReloadOK'
  BY <1>4, <1>1, <1>3 DEF DataOK, StartReload, ReloadOK, ReadIsNew, Project, GenerationsOK, Version,
     MutationIsAlone
<1>10. MutationIsAlone'
  BY <1>4, <1>1, <1>3 DEF DataOK, StartReload, MutationIsAlone, FlagsOK, Version, MutationIsAlone
<1>11. ConfirmedIsNew'
  BY <1>4, <1>1, <1>3 DEF DataOK, StartReload, ConfirmedIsNew, GenerationsOK, Version, MutationIsAlone
<1>12. ScanIsOfSource'
  BY <1>4, <1>1, <1>3 DEF DataOK, StartReload, ScanIsOfSource, GenerationsOK, ConfirmedIsNew, Version,
     MutationIsAlone
<1>13. EligibleIsConfirmed'
  BY <1>4, <1>1, <1>3 DEF DataOK, StartReload, EligibleIsConfirmed, Eligible, GenerationsOK, Version,
     MutationIsAlone
<1>14. EligibleRowsAreTheSource'
  BY <1>4, <1>1, <1>3 DEF DataOK, StartReload, EligibleRowsAreTheSource, EligibleIsConfirmed, Eligible,
     GenerationsOK, Version, MutationIsAlone
<1>15. PersistedIsScanned'
  BY <1>4, <1>1, <1>3 DEF DataOK, StartReload, PersistedIsScanned, Project, Version, MutationIsAlone
<1> QED BY <1>4, <1>5, <1>6, <1>7, <1>8, <1>9, <1>10, <1>11, <1>12, <1>13, <1>14, <1>15

\* The controller's invariant survives: a run succeeds.
LEMMA ScanSucceedsKeeps ==
  ASSUME ControllerIInv, ScanSucceeds
  PROVE  ControllerIInv'
<1> USE Fields, Empty, Held DEF ControllerIInv, generations, NoGeneration
<1>1. last' \in Row /\ stored' \in [Projects -> Row]
  BY DEF ScanSucceeds, Row, DataOK, Persisted
<1>2. /\ eligible' \in {eligible, reval} /\ confirmed' \in {confirmed, reval}
      /\ eligible' # eligible => confirmed' = reval
      /\ confirmed' # confirmed => eligible' = reval
      /\ confirmed' = reval => told <= source[2]
  BY DEF ScanSucceeds, Grants, GenerationsOK, DataOK, ScanIsOfSource, ConfirmedIsNew
<1>3. \/ UNCHANGED <<last, stored, eligible, confirmed>>
      \/ /\ last'.rows = scan.content /\ scan.content = source
         /\ \E b \in BOOLEAN : stored' = [stored EXCEPT ![Project] = [rows |-> source, fingerprint |-> source, complete |-> b]]
  BY DEF ScanSucceeds, Discarded, Persisted, ScanIsOfSource, GenerationsOK, DataOK
<1>4. DataOK'
  BY <1>1, <1>2 DEF DataOK, ScanSucceeds
<1>5. FlagsOK'
  BY <1>4, <1>2, <1>3 DEF DataOK, ScanSucceeds, FlagsOK
<1>6. GenerationsOK'
  BY <1>4, <1>2, <1>3 DEF DataOK, ScanSucceeds, GenerationsOK, Project
<1>7. ClosedIsEmpty'
  BY <1>4, <1>2, <1>3 DEF DataOK, ScanSucceeds, ClosedIsEmpty, FlagsOK
<1>8. DrainOK'
  BY <1>4, <1>2, <1>3 DEF DataOK, ScanSucceeds, DrainOK, ReadIsNew, Project, GenerationsOK
<1>9. ReloadOK'
  BY <1>4, <1>2, <1>3 DEF DataOK, ScanSucceeds, ReloadOK, ReadIsNew, Project, GenerationsOK
<1>10. MutationIsAlone'
  BY <1>4, <1>2, <1>3 DEF DataOK, ScanSucceeds, MutationIsAlone, FlagsOK
<1>11. ConfirmedIsNew'
  BY <1>4, <1>2, <1>3 DEF DataOK, ScanSucceeds, ConfirmedIsNew, GenerationsOK
<1>12. ScanIsOfSource'
  BY <1>4, <1>2, <1>3 DEF DataOK, ScanSucceeds, ScanIsOfSource, GenerationsOK, ConfirmedIsNew
<1>13. EligibleIsConfirmed'
  BY <1>4, <1>2, <1>3 DEF DataOK, ScanSucceeds, EligibleIsConfirmed, Eligible, GenerationsOK
<1>14. EligibleRowsAreTheSource'
  BY <1>4, <1>2, <1>3 DEF DataOK, ScanSucceeds, EligibleRowsAreTheSource, EligibleIsConfirmed, Eligible,
     GenerationsOK
<1>15. PersistedIsScanned'
  BY <1>4, <1>2, <1>3 DEF DataOK, ScanSucceeds, PersistedIsScanned, Project
<1> QED BY <1>4, <1>5, <1>6, <1>7, <1>8, <1>9, <1>10, <1>11, <1>12, <1>13, <1>14, <1>15

\* The controller's invariant survives: the read of a burst is applied, unless it was superseded.
LEMMA DrainReadKeeps ==
  ASSUME ControllerIInv, DrainRead
  PROVE  ControllerIInv'
<1> USE Fields, Empty, Held DEF ControllerIInv, generations, NoGeneration
<1> USE DEF Version
<1>1. CASE ~drain.live
  <2>1. UNCHANGED <<disk, told, open, source, last, stored, reval, confirmed, eligible, scan, reload, mutation, burst, shown, reloads>>
        /\ drain' = NoRead
    BY <1>1 DEF DrainRead
  <2> QED
    BY <2>1 DEF DataOK, FlagsOK, GenerationsOK, ClosedIsEmpty, DrainOK, ReloadOK, MutationIsAlone,
       ConfirmedIsNew,
       ScanIsOfSource, EligibleIsConfirmed, EligibleRowsAreTheSource, PersistedIsScanned, ReadIsNew, Eligible, Project
<1> SUFFICES ASSUME drain.live PROVE ControllerIInv'
  BY <1>1
<1>2. /\ source' \in Projects \X Nat /\ Project' = Project /\ source'[2] <= disk[Project]
      /\ source' \in Scanned
      /\ drain.gen = reval => told <= source'[2]
      /\ Run("structural", reval + 1, Confirmation(drain.gen), source', last, "drain")
      /\ stored' = [stored EXCEPT ![Project] = Absent] /\ stored' \in [Projects -> Row]
  BY DEF DrainRead, DataOK, DrainOK, ReadIsNew, Project, Scanned
<1>3. /\ scan' \in Scan /\ scan'.reason # "none"
      /\ scan'.start = reval' /\ scan'.before = reval + 1 /\ scan'.content = source'
      /\ confirmed' = Confirmation(drain.gen) /\ confirmed' \in Nat /\ reval' = reval + 2
      /\ confirmed' <= reval + 1 /\ (confirmed' = reval + 1 => drain.gen = reval)
  BY <1>2, RunBegins DEF DataOK, GenerationsOK, Starters, Confirmation
<1>4. DataOK'
  BY <1>2, <1>3 DEF DataOK, DrainRead
<1>5. FlagsOK'
  BY <1>4, <1>2, <1>3 DEF DataOK, DrainRead, FlagsOK
<1>6. GenerationsOK'
  BY <1>4, <1>2, <1>3 DEF DataOK, DrainRead, GenerationsOK, Project
<1>7. ClosedIsEmpty'
  BY <1>4, <1>2, <1>3 DEF DataOK, DrainRead, ClosedIsEmpty, FlagsOK
<1>8. DrainOK'
  BY <1>4, <1>2, <1>3 DEF DataOK, DrainRead, DrainOK, ReadIsNew, Project, GenerationsOK
<1>9. ReloadOK'
  BY <1>4, <1>2, <1>3 DEF DataOK, DrainRead, ReloadOK, ReadIsNew, Project, GenerationsOK
<1>10. MutationIsAlone'
  BY <1>4, <1>2, <1>3 DEF DataOK, DrainRead, MutationIsAlone, FlagsOK
<1>11. ConfirmedIsNew'
  BY <1>4, <1>2, <1>3 DEF DataOK, DrainRead, ConfirmedIsNew, GenerationsOK
<1>12. ScanIsOfSource'
  BY <1>4, <1>2, <1>3 DEF DataOK, DrainRead, ScanIsOfSource, GenerationsOK, ConfirmedIsNew
<1>13. EligibleIsConfirmed'
  BY <1>4, <1>2, <1>3 DEF DataOK, DrainRead, EligibleIsConfirmed, Eligible, GenerationsOK
<1>14. EligibleRowsAreTheSource'
  BY <1>4, <1>2, <1>3 DEF DataOK, DrainRead, EligibleRowsAreTheSource, EligibleIsConfirmed, Eligible,
     GenerationsOK
<1>15. PersistedIsScanned'
  BY <1>4, <1>2, <1>3 DEF DataOK, DrainRead, PersistedIsScanned, Project
<1> QED BY <1>4, <1>5, <1>6, <1>7, <1>8, <1>9, <1>10, <1>11, <1>12, <1>13, <1>14, <1>15

\* The controller's invariant survives: the read of a reload is applied.
LEMMA ReloadReadKeeps ==
  ASSUME ControllerIInv, ReloadRead
  PROVE  ControllerIInv'
<1> USE Fields, Empty, Held DEF ControllerIInv, generations, NoGeneration
<1> USE DEF Version
<1> DEFINE same == reload.project = Project
<1>1. PICK v \in reload.from .. disk[reload.project] :
        LET content == <<reload.project, v>>
            rows == IF same THEN last ELSE Absent
        IN  /\ source' = content
            /\ told' = IF same THEN told ELSE v
            /\ last' = rows
            /\ burst' = (burst /\ same)
            /\ drain' = [drain EXCEPT !.live = @ /\ same]
            /\ IF same
               THEN Run("structural", reval + 1, Confirmation(reload.gen), content, rows, "reload")
               ELSE /\ reval + 2 <= MaxRevalidations
                    /\ scan' = [reason |-> "structural", before |-> reval + 1, start |-> reval + 2,
                                content |-> content, by |-> "reload"]
                    /\ reval' = reval + 2
                    /\ confirmed' = Confirmation(reload.gen)
                    /\ shown' = "loading"
  BY DEF ReloadRead
<1>2. /\ v \in Nat /\ reload.from <= v /\ v <= disk[reload.project]
      /\ source' = <<reload.project, v>> /\ source' \in Projects \X Nat /\ Project' = reload.project
      /\ source'[2] = v /\ source' \in Scanned
      /\ last' = (IF same THEN last ELSE Absent)
      /\ told' \in Nat /\ told' <= disk[reload.project] /\ (reload.gen = reval => told' <= v)
  BY <1>1 DEF DataOK, ReloadOK, ReadIsNew, Project, Scanned, ReloadRead, GenerationsOK
<1>3. /\ scan' \in Scan /\ scan'.reason = "structural"
      /\ scan'.start = reval' /\ scan'.before = reval + 1 /\ scan'.content = source'
      /\ confirmed' = Confirmation(reload.gen) /\ reval' = reval + 2
  <2>1. CASE same
    <3>1. Run("structural", reval + 1, Confirmation(reload.gen), source', last, "reload")
      BY <1>1, <2>1
    <3> QED BY <3>1, <1>2, RunBegins DEF DataOK, GenerationsOK, Starters, Confirmation
  <2>2. CASE ~same
    BY <2>2, <1>1, <1>2 DEF GenerationsOK, Scan, Starters
  <2> QED BY <2>1, <2>2
<1>4. confirmed' \in Nat /\ confirmed' <= reval + 1 /\ (confirmed' = reval + 1 => reload.gen = reval)
  BY <1>3 DEF GenerationsOK, Confirmation, DataOK
<1>5. /\ drain' \in Read /\ drain'.stage = drain.stage /\ drain'.gen = drain.gen
      /\ drain'.project = drain.project /\ drain'.from = drain.from /\ (drain'.live => drain.live /\ same)
  BY <1>1 DEF DataOK, Read
<1> HIDE DEF same
<1>6. same <=> reload.project = Project
  BY DEF same
<1>7. DataOK'
  BY <1>1, <1>2, <1>3, <1>4, <1>5 DEF DataOK, ReloadRead
<1>8. FlagsOK'
  BY <1>7, <1>2, <1>3, <1>4, <1>5, <1>6 DEF DataOK, ReloadRead, FlagsOK
<1>9. GenerationsOK'
  BY <1>7, <1>2, <1>3, <1>4, <1>5, <1>6 DEF DataOK, ReloadRead, GenerationsOK, Project
<1>10. ClosedIsEmpty'
  BY <1>7, <1>2, <1>3, <1>4, <1>5, <1>6 DEF DataOK, ReloadRead, ClosedIsEmpty, FlagsOK
<1>11. DrainOK'
  BY <1>7, <1>2, <1>3, <1>4, <1>5, <1>6 DEF DataOK, ReloadRead, DrainOK, ReadIsNew, Project, GenerationsOK
<1>12. ReloadOK'
  BY <1>7, <1>2, <1>3, <1>4, <1>5, <1>6 DEF DataOK, ReloadRead, ReloadOK, ReadIsNew, Project, GenerationsOK
<1>13. MutationIsAlone'
  BY <1>7, <1>2, <1>3, <1>4, <1>5, <1>6 DEF DataOK, ReloadRead, MutationIsAlone, FlagsOK
<1>14. ConfirmedIsNew'
  BY <1>7, <1>2, <1>3, <1>4, <1>5, <1>6 DEF DataOK, ReloadRead, ConfirmedIsNew, GenerationsOK
<1>15. ScanIsOfSource'
  BY <1>7, <1>2, <1>3, <1>4, <1>5, <1>6 DEF DataOK, ReloadRead, ScanIsOfSource, GenerationsOK, ConfirmedIsNew
<1>16. EligibleIsConfirmed'
  BY <1>7, <1>2, <1>3, <1>4, <1>5, <1>6 DEF DataOK, ReloadRead, EligibleIsConfirmed, Eligible, GenerationsOK
<1>17. EligibleRowsAreTheSource'
  BY <1>7, <1>2, <1>3, <1>4, <1>5, <1>6 DEF DataOK, ReloadRead, EligibleRowsAreTheSource,
     EligibleIsConfirmed, Eligible, GenerationsOK
<1>18. PersistedIsScanned'
  BY <1>7, <1>2, <1>3, <1>4, <1>5, <1>6 DEF DataOK, ReloadRead, PersistedIsScanned, Project
<1> QED BY <1>7, <1>8, <1>9, <1>10, <1>11, <1>12, <1>13, <1>14, <1>15, <1>16, <1>17, <1>18

\* The controller's invariant survives: the reread of a change is applied.
LEMMA RereadKeeps ==
  ASSUME ControllerIInv, Reread
  PROVE  ControllerIInv'
<1> USE Fields, Empty, Held DEF ControllerIInv, generations, NoGeneration
<1> USE DEF Version
<1>1. /\ source' \in Projects \X Nat /\ Project' = Project /\ reload.from <= source'[2] /\ source'[2] <= disk[Project]
      /\ source' \in Scanned
      /\ stored' = [stored EXCEPT ![Project] = Absent] /\ stored' \in [Projects -> Row]
      /\ mutation = "reading" /\ scan.reason # "structural"
      /\ drain.stage = "idle"
  BY DEF Reread, DataOK, ReloadOK, ReadIsNew, Project, Scanned, MutationIsAlone
<1>2. \/ /\ reload.gen = reval /\ told <= source'[2]
         /\ scan' \in Scan /\ scan'.reason \notin {"none", "structural"} /\ scan'.start = reval'
         /\ scan'.content = source' /\ confirmed' = reval + 1 /\ reval' = reval + 1
      \/ /\ reval' = reval + 1 /\ confirmed' = confirmed /\ scan' = scan
  <2>1. CASE reload.gen = reval
    <3>1. Run("local", reval + 1, reval + 1, source', last, "mutation")
      BY <2>1 DEF Reread, Confirmation
    <3>2. told <= source'[2]
      BY <2>1, <1>1 DEF ReloadOK, ReadIsNew, GenerationsOK, DataOK, Reread
    <3> QED BY <3>1, <3>2, <2>1, <1>1, RunBegins DEF DataOK, GenerationsOK, Starters
  <2>2. CASE reload.gen # reval
    BY <2>2 DEF Reread
  <2> QED BY <2>1, <2>2
<1>3. DataOK'
  BY <1>1, <1>2 DEF DataOK, Reread
<1>4. FlagsOK'
  BY <1>3, <1>1, <1>2 DEF DataOK, Reread, FlagsOK
<1>5. GenerationsOK'
  BY <1>3, <1>1, <1>2 DEF DataOK, Reread, GenerationsOK, Project
<1>6. ClosedIsEmpty'
  BY <1>3, <1>1, <1>2 DEF DataOK, Reread, ClosedIsEmpty, FlagsOK
<1>7. DrainOK'
  BY <1>3, <1>1, <1>2 DEF DataOK, Reread, DrainOK, ReadIsNew, Project, GenerationsOK
<1>8. ReloadOK'
  BY <1>3, <1>1, <1>2 DEF DataOK, Reread, ReloadOK, ReadIsNew, Project, GenerationsOK
<1>9. MutationIsAlone'
  BY <1>3, <1>1, <1>2 DEF DataOK, Reread, MutationIsAlone, FlagsOK
<1>10. ConfirmedIsNew'
  BY <1>3, <1>1, <1>2 DEF DataOK, Reread, ConfirmedIsNew, GenerationsOK
<1>11. ScanIsOfSource'
  BY <1>3, <1>1, <1>2 DEF DataOK, Reread, ScanIsOfSource, GenerationsOK, ConfirmedIsNew
<1>12. EligibleIsConfirmed'
  BY <1>3, <1>1, <1>2 DEF DataOK, Reread, EligibleIsConfirmed, Eligible, GenerationsOK
<1>13. EligibleRowsAreTheSource'
  BY <1>3, <1>1, <1>2 DEF DataOK, Reread, EligibleRowsAreTheSource, EligibleIsConfirmed, Eligible, GenerationsOK
<1>14. PersistedIsScanned'
  BY <1>3, <1>1, <1>2 DEF DataOK, Reread, PersistedIsScanned, Project
<1> QED BY <1>3, <1>4, <1>5, <1>6, <1>7, <1>8, <1>9, <1>10, <1>11, <1>12, <1>13, <1>14

\* The controller's invariant survives: the webview mounts.
LEMMA ReadyKeeps ==
  ASSUME ControllerIInv, ~MountsAnytime, Ready
  PROVE  ControllerIInv'
<1> USE Fields, Empty, Held DEF ControllerIInv, generations, NoGeneration
<1> USE DEF Version
<1>1. /\ open /\ mutation = "none" /\ last' \in Row /\ stored' \in [Projects -> Row]
      /\ (last' # Absent => last'.rows = source)
      /\ (stored' = stored \/ stored' = [stored EXCEPT ![Project] = Absent])
  <2>1. open /\ ~AroundMutation /\ last' = Cached
    BY DEF Ready
  <2>2. last' \in Row /\ (last' # Absent => last'.rows = source)
    BY <2>1 DEF Cached, Hydrates, AroundMutation, PersistedIsScanned, DataOK
  <2>3. /\ (stored' = stored \/ stored' = [stored EXCEPT ![Project] = Absent])
        /\ stored' \in [Projects -> Row]
    BY DEF Ready, DataOK
  <2> QED BY <2>1, <2>2, <2>3 DEF AroundMutation
<1>2. /\ scan' = scan \/ /\ scan' \in Scan /\ scan'.reason # "none" /\ scan'.start = reval'
                          /\ scan'.content = source /\ scan'.before = reval
                          /\ (scan'.reason = "structural" => reval' = reval + 1)
                          /\ (scan'.reason # "structural" => reval' = reval)
      /\ confirmed' = confirmed /\ reval' \in {reval, reval + 1}
      /\ eligible' \in {eligible, reval} /\ (eligible' # eligible => confirmed = reval)
  <2>1. CASE /\ Cached = Absent
             /\ scan' = [reason |-> "structural", before |-> reval, start |-> reval + 1,
                         content |-> source, by |-> "ready"]
             /\ reval' = reval + 1
             /\ UNCHANGED <<confirmed, eligible>>
    BY <2>1 DEF GenerationsOK, Scan, Starters
  <2>2. CASE /\ Run("structural", reval, confirmed, source, Cached, "ready")
             /\ UNCHANGED eligible
    BY <2>2, RunBegins DEF GenerationsOK, Starters
  <2>3. CASE /\ Cached.complete
             /\ eligible' = IF confirmed = reval THEN reval ELSE eligible
             /\ UNCHANGED <<scan, reval, confirmed>>
    BY <2>3
  <2>4. CASE /\ Cached.complete
             /\ eligible' = IF confirmed = reval THEN reval ELSE eligible
             /\ reval' = IF eligible' = reval THEN reval ELSE reval + 1
             /\ scan' = [reason |-> IF eligible' = reval THEN "time" ELSE "structural",
                         before |-> reval, start |-> reval', content |-> source, by |-> "ready"]
             /\ UNCHANGED confirmed
    <3>1. reval' \in Nat /\ confirmed \in Nat
      BY <2>4 DEF GenerationsOK
    <3> QED BY <3>1, <2>4 DEF GenerationsOK, Scan, Starters
  <2> QED BY <2>1, <2>2, <2>3, <2>4 DEF Ready
<1>3. DataOK'
  BY <1>1, <1>2 DEF DataOK, Ready
<1>4. FlagsOK'
  BY <1>3, <1>1, <1>2 DEF DataOK, Ready, FlagsOK
<1>5. GenerationsOK'
  BY <1>3, <1>1, <1>2 DEF DataOK, Ready, GenerationsOK, Project
<1>6. ClosedIsEmpty'
  BY <1>3, <1>1, <1>2 DEF DataOK, Ready, ClosedIsEmpty, FlagsOK
<1>7. DrainOK'
  BY <1>3, <1>1, <1>2 DEF DataOK, Ready, DrainOK, ReadIsNew, Project, GenerationsOK
<1>8. ReloadOK'
  BY <1>3, <1>1, <1>2 DEF DataOK, Ready, ReloadOK, ReadIsNew, Project, GenerationsOK
<1>9. MutationIsAlone'
  BY <1>3, <1>1, <1>2 DEF DataOK, Ready, MutationIsAlone, FlagsOK
<1>10. ConfirmedIsNew'
  BY <1>3, <1>1, <1>2 DEF DataOK, Ready, ConfirmedIsNew, GenerationsOK
<1>11. ScanIsOfSource'
  BY <1>3, <1>1, <1>2 DEF DataOK, Ready, ScanIsOfSource, GenerationsOK, ConfirmedIsNew
<1>12. EligibleIsConfirmed'
  BY <1>3, <1>1, <1>2 DEF DataOK, Ready, EligibleIsConfirmed, Eligible, GenerationsOK
<1>13. EligibleRowsAreTheSource'
  BY <1>3, <1>1, <1>2 DEF DataOK, Ready, EligibleRowsAreTheSource, EligibleIsConfirmed, Eligible, GenerationsOK
<1>14. PersistedIsScanned'
  BY <1>3, <1>1, <1>2 DEF DataOK, Ready, PersistedIsScanned, Project
<1> QED BY <1>3, <1>4, <1>5, <1>6, <1>7, <1>8, <1>9, <1>10, <1>11, <1>12, <1>13, <1>14

\* So does every step, as long as the webview does not mount around a change.
LEMMA ControllerStep ==
  ASSUME ControllerIInv, ~MountsAnytime, [ControllerNext]_controllerVars
  PROVE  ControllerIInv'
<1>1. CASE ControllerNext
  <2>1. ASSUME NEW p \in Projects, Edit(p) \/ Refresh(p) \/ Open(p)
        PROVE  ControllerIInv'
    BY <2>1, EditKeeps, OpenKeeps, StartReloadKeeps DEF Refresh
  <2>2. CASE RereadFails
    <3>1. Project \in Projects
      BY Held DEF ControllerIInv
    <3> QED BY <2>2, <3>1, StartReloadKeeps DEF RereadFails
  <2> QED
    BY <1>1, <2>1, <2>2, WatcherEventKeeps, StartDrainKeeps, DrainReadKeeps, DrainReadFailsKeeps,
       ReloadReadKeeps,
       ReloadFailsKeeps, BeginMutationKeeps, StartRereadKeeps, RereadKeeps, ReleaseKeeps, ReadyKeeps, TickKeeps,
       ScanSucceedsKeeps, ScanFailsKeeps, DisposeKeeps DEF ControllerNext
<1>2. CASE UNCHANGED controllerVars
  BY <1>2 DEF controllerVars, generations, ControllerIInv, DataOK, FlagsOK, GenerationsOK, ClosedIsEmpty,
     DrainOK,
     ReloadOK, MutationIsAlone, ConfirmedIsNew, ScanIsOfSource, EligibleIsConfirmed, EligibleRowsAreTheSource,
     PersistedIsScanned, ReadIsNew, Eligible, Project
<1> QED BY <1>1, <1>2

\* The invariant holds initially.
LEMMA ControllerInitOK == ControllerInit => ControllerIInv
<1> SUFFICES ASSUME ControllerInit PROVE ControllerIInv
  OBVIOUS
<1> USE Fields, Empty DEF ControllerInit, NoGeneration, Version
<1>1. PICK p \in Projects : source = <<p, 1>>
  BY DEF OnDisk
<1>2. DataOK
  BY <1>1 DEF DataOK
<1>3. FlagsOK /\ ClosedIsEmpty /\ DrainOK /\ ReloadOK /\ MutationIsAlone /\ PersistedIsScanned
  BY DEF FlagsOK, ClosedIsEmpty, DrainOK, ReloadOK, MutationIsAlone, PersistedIsScanned
<1>4. GenerationsOK /\ ConfirmedIsNew
  BY <1>1 DEF GenerationsOK, ConfirmedIsNew, Project
<1>5. ScanIsOfSource /\ EligibleIsConfirmed /\ EligibleRowsAreTheSource
  BY DEF ScanIsOfSource, EligibleIsConfirmed, EligibleRowsAreTheSource, Eligible
<1> QED BY <1>2, <1>3, <1>4, <1>5 DEF ControllerIInv

\* What the controller's decisions rest on: which generation the source was
\* confirmed for, which rows were validated for it, and what a run that is under
\* way may still grant.
THEOREM ControllerInvariant == ASSUME ~MountsAnytime PROVE ControllerSpec => []ControllerIInv
BY ControllerInitOK, ControllerStep, PTL DEF ControllerSpec

\* The rows an upgrade is planned from, and the rows a later panel starts from, are
\* those of the source they are shown for, and none older than a watcher reported.
THEOREM RowsAreOfTheirSource == ASSUME ~MountsAnytime PROVE ControllerSpec => []RowsMatchTheirSource
<1>1. ASSUME ControllerIInv PROVE RowsMatchTheirSource
  <2>1. AcceptedRowsAreCurrent
    BY <1>1, Held DEF ControllerIInv, AcceptedRowsAreCurrent, AcceptsUpgrade, EligibleRowsAreTheSource,
       EligibleIsConfirmed, ConfirmedIsNew, DataOK, GenerationsOK, Version
  <2> QED BY <1>1, <2>1 DEF ControllerIInv, RowsMatchTheirSource
<1> QED BY <1>1, ControllerInvariant, PTL

-----------------------------------------------------------------------------
(* UsageCoordinator's records *)

\* The kinds of requests, the owners of a scan and the messages.
LEMMA Kinds ==
  /\ Asked \subseteq Ops /\ "removal" \in Asked /\ "cleanup" \in Asked
  /\ "background" \in Ops /\ "background" \notin Asked
  /\ "none" \notin Ops /\ "nobody" \notin Ops
  /\ {"none", "analyzing", "result", "error", "superseded"} \subseteq Messages
BY DEF Asked, Ops, Messages

\* What the fields of an operation and of a scan are.
LEMMA UsageFields ==
  /\ \A o \in Operation : o.phase \in Phases /\ o.identity \in Int \X Int
  /\ \A s \in UsageScan : s.owner \in Ops \cup {"none", "nobody"} /\ s.identity \in Int \X Int /\ s.cancelled \in BOOLEAN
  /\ Idle \in Operation /\ Idle.phase = "idle"
  /\ NoUsageScan \in UsageScan /\ NoUsageScan.owner = "none" /\ NoUsageScan.identity[1] = -1
BY DEF Operation, UsageScan, Identities, Idle, NoUsageScan, NoIdentity, Phases

\* An operation that is begun.
LEMMA Begun ==
  [Idle EXCEPT !.phase = "controller"] \in Operation /\ [Idle EXCEPT !.phase = "controller"].phase = "controller"
<1>1. [Idle EXCEPT !.phase = "controller"] \in Operation
  BY UsageFields DEF Operation, Phases
<1>2. [Idle EXCEPT !.phase = "controller"].phase = "controller"
  BY DEF Idle
<1> QED BY <1>1, <1>2

\* One that is sent to scan.
LEMMA Sent ==
  ASSUME NEW i \in Int \X Int, NEW j \in BOOLEAN
  PROVE  /\ [Idle EXCEPT !.phase = "scan", !.identity = i, !.joined = j] \in Operation
         /\ [Idle EXCEPT !.phase = "scan", !.identity = i, !.joined = j].phase = "scan"
         /\ [Idle EXCEPT !.phase = "scan", !.identity = i] \in Operation
BY DEF Operation, Phases, Identities, Idle, NoIdentity

\* One that has its answer.
LEMMA Answered ==
  ASSUME NEW o \in Operation, NEW r \in {"results", "partial", "failed"}
  PROVE  /\ [o EXCEPT !.phase = "answer", !.outcome = r] \in Operation
         /\ [o EXCEPT !.phase = "answer", !.outcome = r].phase = "answer"
BY DEF Operation, Phases

\* One that is cancelled.
LEMMA Cancelled ==
  ASSUME NEW o \in Operation
  PROVE  [o EXCEPT !.cancelled = TRUE] \in Operation /\ [o EXCEPT !.cancelled = TRUE].phase = o.phase
BY DEF Operation

\* A scan that is begun or given up.
LEMMA Scanning ==
  ASSUME NEW w \in Ops \cup {"nobody"}, NEW b \in BOOLEAN, generation \in Nat, fingerprint \in Int
  PROVE  /\ [owner |-> w, identity |-> Identity, cancelled |-> b] \in UsageScan
         /\ Identity \in Int \X Int /\ Identity[1] = generation
BY DEF UsageScan, Identities, Identity

\* A scan that is cancelled.
LEMMA ScanCancelled ==
  ASSUME NEW s \in UsageScan
  PROVE  /\ [s EXCEPT !.cancelled = TRUE] \in UsageScan
         /\ [s EXCEPT !.cancelled = TRUE].owner = s.owner
         /\ [s EXCEPT !.cancelled = TRUE].identity = s.identity
BY DEF UsageScan

-----------------------------------------------------------------------------
(* UsageCoordinator's steps *)

\* The coordinator's invariant survives: a request arrives.
LEMMA AskKeeps ==
  ASSUME NEW k \in Asked, UsageIInv, Ask(k)
  PROVE  UsageIInv'
<1> USE Kinds, UsageFields DEF UsageIInv, UsageTypeOK
<1>1. /\ op' \in [Ops -> Operation]
      /\ \/ op' = op /\ removalActive' = removalActive
         \/ /\ op'[k].phase = "controller" /\ op[k].phase = "idle" /\ \A o \in Ops : o # k => op'[o] = op[o]
            /\ removalActive' = (IF k = "removal" THEN TRUE ELSE removalActive)
  BY Begun DEF Ask
<1>2. UsageTypeOK'
  <2>1. generation' \in Nat /\ fingerprint' \in Int
    BY <1>1 DEF Ask, Post
  <2>2. op' \in [Ops -> Operation]
    BY <1>1 DEF Ask, Post
  <2>3. usageScan' \in UsageScan
    BY <1>1 DEF Ask, Post
  <2>4. claim' \in Asked \cup {"none"}
    BY <1>1 DEF Ask, Post
  <2>5. visible' \in [Asked -> Int]
    BY <1>1 DEF Ask, NotShown, Post
  <2>6. usageShown' \in [Asked -> Messages]
    BY <1>1 DEF Ask, Post
  <2> QED BY <2>1, <2>2, <2>3, <2>4, <2>5, <2>6
<1>3. ResultsCanBeTakenBack'
  BY <1>2, <1>1 DEF Ask, NotShown, ResultsCanBeTakenBack, Post
<1>4. ClaimsAreHeld'
  BY <1>2, <1>1 DEF Ask, NotShown, ClaimsAreHeld, Post
<1>5. BackgroundScanSurvives'
  BY <1>2, <1>1 DEF Ask, NotShown, BackgroundScanSurvives, Post
<1>6. ClaimedRemovalShowsNoResult'
  BY <1>2, <1>1 DEF Ask, NotShown, ClaimedRemovalShowsNoResult, Post
<1>7. ScanIsNotAhead'
  BY <1>2, <1>1 DEF Ask, NotShown, ScanIsNotAhead, Post
<1> QED BY <1>2, <1>3, <1>4, <1>5, <1>6, <1>7

\* The coordinator's invariant survives: a request is sent to scan.
LEMMA AnalyzeKeeps ==
  ASSUME NEW k \in Asked, NEW joins \in BOOLEAN, UsageIInv, Analyze(k, joins), claim = "none", op[k].phase = "controller",
         UNCHANGED <<generation, fingerprint, usageDisposed>>,
         removalActive' = IF k = "removal" /\ op'[k].phase = "idle" THEN FALSE ELSE removalActive
  PROVE  UsageIInv'
<1> USE Kinds, UsageFields DEF UsageIInv, UsageTypeOK
<1>1. /\ op' \in [Ops -> Operation] /\ op'[k].phase = "scan" /\ \A o \in Ops : o # k => op'[o] = op[o]
  BY Sent, Scanning DEF Analyze
<1>2. \/ usageScan' = usageScan
      \/ usageScan' \in UsageScan /\ usageScan'.owner = k /\ usageScan'.identity[1] = generation
  BY Scanning DEF Analyze
<1>3. UsageTypeOK'
  <2>1. generation' \in Nat /\ fingerprint' \in Int
    BY <1>1, <1>2 DEF Analyze, Post
  <2>2. op' \in [Ops -> Operation]
    BY <1>1, <1>2 DEF Analyze, Post
  <2>3. usageScan' \in UsageScan
    BY <1>1, <1>2 DEF Analyze, Post
  <2>4. claim' \in Asked \cup {"none"}
    BY <1>1, <1>2 DEF Analyze, Post
  <2>5. visible' \in [Asked -> Int]
    BY <1>1, <1>2 DEF Analyze, NotShown, Post
  <2>6. usageShown' \in [Asked -> Messages]
    BY <1>1, <1>2 DEF Analyze, Post
  <2> QED BY <2>1, <2>2, <2>3, <2>4, <2>5, <2>6
<1>4. ResultsCanBeTakenBack'
  BY <1>3, <1>1, <1>2 DEF Analyze, NotShown, ResultsCanBeTakenBack, Post
<1>5. ClaimsAreHeld'
  BY <1>3, <1>1, <1>2 DEF Analyze, NotShown, ClaimsAreHeld, Post
<1>6. BackgroundScanSurvives'
  BY <1>3, <1>1, <1>2 DEF Analyze, NotShown, BackgroundScanSurvives, Post
<1>7. ClaimedRemovalShowsNoResult'
  BY <1>3, <1>1, <1>2 DEF Analyze, NotShown, ClaimedRemovalShowsNoResult, Post
<1>8. ScanIsNotAhead'
  BY <1>3, <1>1, <1>2 DEF Analyze, NotShown, ScanIsNotAhead, Post
<1> QED BY <1>3, <1>4, <1>5, <1>6, <1>7, <1>8

\* The coordinator's invariant survives: a request looks up what it needs.
LEMMA LookUpKeeps ==
  ASSUME NEW k \in Asked, NEW known, NEW fresh, UsageIInv, LookUp(k, known, fresh)
  PROVE  UsageIInv'
<1> USE Kinds, UsageFields DEF UsageIInv, UsageTypeOK
<1>1. /\ op[k].phase = "controller" /\ claim # k
      /\ removalActive' = IF k = "removal" /\ op'[k].phase = "idle" THEN FALSE ELSE removalActive
      /\ generation' = generation /\ fingerprint' = fingerprint /\ usageDisposed' = usageDisposed
  BY DEF LookUp, ClaimsAreHeld
<1>2. \/ /\ op' = [op EXCEPT ![k] = Idle] /\ UNCHANGED <<usageScan, claim>>
         /\ \/ UNCHANGED <<visible, usageShown>>
            \/ /\ usageShown' = [usageShown EXCEPT ![k] = "error"]
               /\ visible' = [visible EXCEPT ![k] = -1]
            \/ /\ usageShown' = [usageShown EXCEPT ![k] = "result"]
               /\ visible' = [visible EXCEPT ![k] = generation]
      \/ claim = "none" /\ Analyze(k, IsBusy)
  BY <1>1 DEF LookUp, Ends, Post, NotShown
<1>3. CASE Analyze(k, IsBusy) /\ claim = "none"
  BY <1>1, <1>3, AnalyzeKeeps DEF IsBusy
<1> SUFFICES ASSUME /\ op' = [op EXCEPT ![k] = Idle] /\ UNCHANGED <<usageScan, claim>>
                    /\ \/ UNCHANGED <<visible, usageShown>>
                       \/ /\ usageShown' = [usageShown EXCEPT ![k] = "error"]
                          /\ visible' = [visible EXCEPT ![k] = -1]
                       \/ /\ usageShown' = [usageShown EXCEPT ![k] = "result"]
                          /\ visible' = [visible EXCEPT ![k] = generation]
             PROVE  UsageIInv'
  BY <1>2, <1>3
<1>4. UsageTypeOK'
  <2>1. generation' \in Nat /\ fingerprint' \in Int
    BY <1>1
  <2>2. op' \in [Ops -> Operation]
    BY <1>1
  <2>3. usageScan' \in UsageScan
    BY <1>1
  <2>4. claim' \in Asked \cup {"none"}
    BY <1>1
  <2>5. visible' \in [Asked -> Int]
    BY <1>1 DEF NotShown
  <2>6. usageShown' \in [Asked -> Messages]
    BY <1>1
  <2> QED BY <2>1, <2>2, <2>3, <2>4, <2>5, <2>6
<1>5. ResultsCanBeTakenBack'
  BY <1>4, <1>1 DEF NotShown, ResultsCanBeTakenBack
<1>6. ClaimsAreHeld'
  BY <1>4, <1>1 DEF NotShown, ClaimsAreHeld
<1>7. BackgroundScanSurvives'
  BY <1>4, <1>1 DEF NotShown, BackgroundScanSurvives
<1>8. ClaimedRemovalShowsNoResult'
  BY <1>4, <1>1 DEF NotShown, ClaimedRemovalShowsNoResult
<1>9. ScanIsNotAhead'
  BY <1>4, <1>1 DEF NotShown, ScanIsNotAhead
<1> QED BY <1>4, <1>5, <1>6, <1>7, <1>8, <1>9

\* The coordinator's invariant survives: a cleanup starts.
LEMMA StartCleanupKeeps ==
  ASSUME UsageIInv, StartCleanup
  PROVE  UsageIInv'
<1> USE Kinds, UsageFields DEF UsageIInv, UsageTypeOK
<1>1. /\ op["cleanup"].phase = "controller" /\ claim # "cleanup"
      /\ removalActive' = removalActive
      /\ generation' = generation /\ fingerprint' = fingerprint /\ usageDisposed' = usageDisposed
  BY DEF StartCleanup, ClaimsAreHeld
<1>2. CASE Analyze("cleanup", FALSE) /\ claim = "none"
  BY <1>1, <1>2, AnalyzeKeeps
<1>3. \/ /\ op' = [op EXCEPT !["cleanup"] = Idle] /\ claim' = claim
         /\ \/ usageScan' = usageScan
            \/ usageScan' \in UsageScan /\ usageScan'.owner = "nobody" /\ usageScan'.identity[1] = generation
         /\ \/ UNCHANGED visible /\ usageShown' = [usageShown EXCEPT !["cleanup"] = "error"]
            \/ /\ \/ usageShown' = [usageShown EXCEPT !["cleanup"] = "result"]
                  \/ usageShown' = [usageShown EXCEPT !["cleanup"] = "error"]
               /\ visible' = [visible EXCEPT !["cleanup"] = generation]
      \/ claim = "none" /\ Analyze("cleanup", FALSE)
  <2>1. CASE usageScan' = [owner |-> "nobody", identity |-> Identity, cancelled |-> TRUE]
    <3>1. usageScan' \in UsageScan /\ usageScan'.owner = "nobody" /\ usageScan'.identity[1] = generation
      BY <2>1, Scanning
    <3>2. \/ /\ op' = [op EXCEPT !["cleanup"] = Idle] /\ claim' = claim
             /\ usageShown' = [usageShown EXCEPT !["cleanup"] = "error"]
             /\ visible' = [visible EXCEPT !["cleanup"] = generation]
          \/ /\ op' = [op EXCEPT !["cleanup"] = Idle] /\ claim' = claim
             /\ usageShown' = [usageShown EXCEPT !["cleanup"] = "error"] /\ UNCHANGED visible
          \/ /\ op' = [op EXCEPT !["cleanup"] = Idle] /\ claim' = claim
             /\ usageShown' = [usageShown EXCEPT !["cleanup"] = "result"]
             /\ visible' = [visible EXCEPT !["cleanup"] = generation]
          \/ claim = "none" /\ Analyze("cleanup", FALSE)
      BY DEF StartCleanup, Ends, Post
    <3> QED BY <3>1, <3>2
  <2>2. CASE usageScan' # [owner |-> "nobody", identity |-> Identity, cancelled |-> TRUE]
    BY <2>2 DEF StartCleanup, Ends, Post
  <2> QED BY <2>1, <2>2
<1> SUFFICES ASSUME /\ op' = [op EXCEPT !["cleanup"] = Idle] /\ claim' = claim
                    /\ \/ usageScan' = usageScan
                       \/ usageScan' \in UsageScan /\ usageScan'.owner = "nobody" /\ usageScan'.identity[1] = generation
                    /\ \/ UNCHANGED visible /\ usageShown' = [usageShown EXCEPT !["cleanup"] = "error"]
                       \/ /\ \/ usageShown' = [usageShown EXCEPT !["cleanup"] = "result"]
                             \/ usageShown' = [usageShown EXCEPT !["cleanup"] = "error"]
                          /\ visible' = [visible EXCEPT !["cleanup"] = generation]
             PROVE  UsageIInv'
  BY <1>2, <1>3
<1>4. UsageTypeOK'
  <2>1. generation' \in Nat /\ fingerprint' \in Int
    BY <1>1
  <2>2. op' \in [Ops -> Operation]
    BY <1>1
  <2>3. usageScan' \in UsageScan
    BY <1>1
  <2>4. claim' \in Asked \cup {"none"}
    BY <1>1
  <2>5. visible' \in [Asked -> Int]
    BY <1>1 DEF NotShown
  <2>6. usageShown' \in [Asked -> Messages]
    BY <1>1
  <2> QED BY <2>1, <2>2, <2>3, <2>4, <2>5, <2>6
<1>5. ResultsCanBeTakenBack'
  BY <1>4, <1>1 DEF NotShown, ResultsCanBeTakenBack
<1>6. ClaimsAreHeld'
  BY <1>4, <1>1 DEF NotShown, ClaimsAreHeld
<1>7. BackgroundScanSurvives'
  BY <1>4, <1>1 DEF NotShown, BackgroundScanSurvives
<1>8. ClaimedRemovalShowsNoResult'
  BY <1>4, <1>1 DEF NotShown, ClaimedRemovalShowsNoResult
<1>9. ScanIsNotAhead'
  BY <1>4, <1>1 DEF NotShown, ScanIsNotAhead
<1> QED BY <1>4, <1>5, <1>6, <1>7, <1>8, <1>9

\* The coordinator's invariant survives: the claimed request is cancelled.
LEMMA HandleCancelKeeps ==
  ASSUME UsageIInv, HandleCancel
  PROVE  UsageIInv'
<1> USE Kinds, UsageFields DEF UsageIInv, UsageTypeOK
<1>1. op' \in [Ops -> Operation] /\ \A o \in Ops : op'[o].phase = op[o].phase
  BY Cancelled DEF HandleCancel
<1>2. \/ usageScan' = usageScan
      \/ /\ usageScan' \in UsageScan /\ usageScan'.owner = usageScan.owner /\ usageScan'.identity = usageScan.identity
         /\ usageScan.owner \in Asked
  BY ScanCancelled DEF HandleCancel
<1>3. UsageTypeOK'
  <2>1. generation' \in Nat /\ fingerprint' \in Int
    BY <1>1, <1>2 DEF HandleCancel
  <2>2. op' \in [Ops -> Operation]
    BY <1>1, <1>2 DEF HandleCancel
  <2>3. usageScan' \in UsageScan
    BY <1>1, <1>2 DEF HandleCancel
  <2>4. claim' \in Asked \cup {"none"}
    BY <1>1, <1>2 DEF HandleCancel
  <2>5. visible' \in [Asked -> Int]
    BY <1>1, <1>2 DEF HandleCancel, NotShown
  <2>6. usageShown' \in [Asked -> Messages]
    BY <1>1, <1>2 DEF HandleCancel
  <2> QED BY <2>1, <2>2, <2>3, <2>4, <2>5, <2>6
<1>4. ResultsCanBeTakenBack'
  BY <1>3, <1>1, <1>2 DEF HandleCancel, NotShown, ResultsCanBeTakenBack, ClaimedRemovalShowsNoResult
<1>5. ClaimsAreHeld'
  BY <1>3, <1>1, <1>2 DEF HandleCancel, NotShown, ClaimsAreHeld
<1>6. BackgroundScanSurvives'
  BY <1>3, <1>1, <1>2 DEF HandleCancel, NotShown, BackgroundScanSurvives
<1>7. ClaimedRemovalShowsNoResult'
  BY <1>3, <1>1, <1>2 DEF HandleCancel, NotShown, ClaimedRemovalShowsNoResult
<1>8. ScanIsNotAhead'
  BY <1>3, <1>1, <1>2 DEF HandleCancel, NotShown, ScanIsNotAhead
<1> QED BY <1>3, <1>4, <1>5, <1>6, <1>7, <1>8

\* The coordinator's invariant survives: the removal request is cancelled.
LEMMA HandleCancelRemovalImpactKeeps ==
  ASSUME UsageIInv, HandleCancelRemovalImpact
  PROVE  UsageIInv'
<1> USE Kinds, UsageFields DEF UsageIInv, UsageTypeOK
<1>1. op' \in [Ops -> Operation] /\ \A o \in Ops : op'[o].phase = op[o].phase
  BY Cancelled DEF HandleCancelRemovalImpact
<1>2. \/ usageScan' = usageScan
      \/ /\ usageScan' \in UsageScan /\ usageScan'.owner = usageScan.owner /\ usageScan'.identity = usageScan.identity
         /\ usageScan.owner \in Asked
  BY ScanCancelled DEF HandleCancelRemovalImpact
<1>3. UsageTypeOK'
  <2>1. generation' \in Nat /\ fingerprint' \in Int
    BY <1>1, <1>2 DEF HandleCancelRemovalImpact
  <2>2. op' \in [Ops -> Operation]
    BY <1>1, <1>2 DEF HandleCancelRemovalImpact
  <2>3. usageScan' \in UsageScan
    BY <1>1, <1>2 DEF HandleCancelRemovalImpact
  <2>4. claim' \in Asked \cup {"none"}
    BY <1>1, <1>2 DEF HandleCancelRemovalImpact
  <2>5. visible' \in [Asked -> Int]
    BY <1>1, <1>2 DEF HandleCancelRemovalImpact, NotShown
  <2>6. usageShown' \in [Asked -> Messages]
    BY <1>1, <1>2 DEF HandleCancelRemovalImpact
  <2> QED BY <2>1, <2>2, <2>3, <2>4, <2>5, <2>6
<1>4. ResultsCanBeTakenBack'
  BY <1>3, <1>1, <1>2 DEF HandleCancelRemovalImpact, NotShown, ResultsCanBeTakenBack,
     ClaimedRemovalShowsNoResult
<1>5. ClaimsAreHeld'
  BY <1>3, <1>1, <1>2 DEF HandleCancelRemovalImpact, NotShown, ClaimsAreHeld
<1>6. BackgroundScanSurvives'
  BY <1>3, <1>1, <1>2 DEF HandleCancelRemovalImpact, NotShown, BackgroundScanSurvives
<1>7. ClaimedRemovalShowsNoResult'
  BY <1>3, <1>1, <1>2 DEF HandleCancelRemovalImpact, NotShown, ClaimedRemovalShowsNoResult
<1>8. ScanIsNotAhead'
  BY <1>3, <1>1, <1>2 DEF HandleCancelRemovalImpact, NotShown, ScanIsNotAhead
<1> QED BY <1>3, <1>4, <1>5, <1>6, <1>7, <1>8

\* The coordinator's invariant survives: the scan settles.
LEMMA ScanEndsKeeps ==
  ASSUME NEW outcome \in {"results", "failed"}, UsageIInv, ScanEnds(outcome)
  PROVE  UsageIInv'
<1> USE Kinds, UsageFields DEF UsageIInv, UsageTypeOK
<1>1. op' \in [Ops -> Operation] /\ \A o \in Ops : op'[o].phase = IF op[o].phase = "scan" THEN "answer" ELSE op[o].phase
  <2>1. ASSUME NEW o \in Ops
        PROVE  op'[o] \in Operation /\ op'[o].phase = IF op[o].phase = "scan" THEN "answer" ELSE op[o].phase
    <3>1. CASE op[o].phase # "scan"
      BY <3>1 DEF ScanEnds
    <3>2. CASE op[o].phase = "scan"
      <4>1. PICK r \in {"results", "partial", "failed"} : op'[o] = [op[o] EXCEPT !.phase = "answer", !.outcome = r]
        BY <3>2 DEF ScanEnds
      <4>2. op[o] \in Operation
        OBVIOUS
      <4>3. /\ [op[o] EXCEPT !.phase = "answer", !.outcome = r] \in Operation
            /\ [op[o] EXCEPT !.phase = "answer", !.outcome = r].phase = "answer"
        BY <4>2, Answered
      <4> QED BY <4>1, <4>3, <3>2
    <3> QED BY <3>1, <3>2
  <2>2. op' = [o \in Ops |-> op'[o]]
    BY DEF ScanEnds
  <2> QED BY <2>1, <2>2
<1>2. /\ usageScan' = NoUsageScan
      /\ UNCHANGED <<generation, fingerprint, claim, removalActive, visible, usageShown, usageDisposed>>
  BY DEF ScanEnds
<1>3. UsageTypeOK'
  <2>1. generation' \in Nat /\ fingerprint' \in Int
    BY <1>1, <1>2
  <2>2. op' \in [Ops -> Operation]
    BY <1>1, <1>2
  <2>3. usageScan' \in UsageScan
    BY <1>1, <1>2
  <2>4. claim' \in Asked \cup {"none"}
    BY <1>1, <1>2
  <2>5. visible' \in [Asked -> Int]
    BY <1>1, <1>2 DEF NotShown
  <2>6. usageShown' \in [Asked -> Messages]
    BY <1>1, <1>2
  <2> QED BY <2>1, <2>2, <2>3, <2>4, <2>5, <2>6
<1>4. ResultsCanBeTakenBack'
  BY <1>3, <1>1, <1>2 DEF NotShown, ResultsCanBeTakenBack
<1>5. ClaimsAreHeld'
  BY <1>3, <1>1, <1>2 DEF NotShown, ClaimsAreHeld
<1>6. BackgroundScanSurvives'
  BY <1>3, <1>1, <1>2 DEF NotShown, BackgroundScanSurvives
<1>7. ClaimedRemovalShowsNoResult'
  BY <1>3, <1>1, <1>2 DEF NotShown, ClaimedRemovalShowsNoResult
<1>8. ScanIsNotAhead'
  BY <1>3, <1>1, <1>2 DEF NotShown, ScanIsNotAhead
<1> QED BY <1>3, <1>4, <1>5, <1>6, <1>7, <1>8

\* The coordinator's invariant survives: a request is resumed.
LEMMA AnswerKeeps ==
  ASSUME NEW k \in Asked, UsageIInv, Answer(k)
  PROVE  UsageIInv'
<1> USE Kinds, UsageFields DEF UsageIInv, UsageTypeOK
<1>1. /\ op[k].phase = "answer" /\ op' = [op EXCEPT ![k] = Idle]
      /\ \/ UNCHANGED <<visible, usageShown>>
         \/ /\ usageShown' = [usageShown EXCEPT ![k] = "error"]
            /\ visible' \in { visible, [visible EXCEPT ![k] = -1] }
         \/ /\ usageShown' = [usageShown EXCEPT ![k] = "result"]
            /\ visible' = [visible EXCEPT ![k] = generation]
  BY DEF Answer, Ends, Post, Outdated, NotShown
<1>2. /\ claim' = IF claim = k THEN "none" ELSE claim
      /\ removalActive' = IF k = "removal" THEN FALSE ELSE removalActive
      /\ UNCHANGED <<generation, fingerprint, usageScan, usageDisposed>>
  BY DEF Answer
<1>3. UsageTypeOK'
  <2>1. generation' \in Nat /\ fingerprint' \in Int
    BY <1>1, <1>2
  <2>2. op' \in [Ops -> Operation]
    BY <1>1, <1>2
  <2>3. usageScan' \in UsageScan
    BY <1>1, <1>2
  <2>4. claim' \in Asked \cup {"none"}
    BY <1>1, <1>2
  <2>5. visible' \in [Asked -> Int]
    BY <1>1, <1>2 DEF NotShown
  <2>6. usageShown' \in [Asked -> Messages]
    BY <1>1, <1>2
  <2> QED BY <2>1, <2>2, <2>3, <2>4, <2>5, <2>6
<1>4. ResultsCanBeTakenBack'
  BY <1>3, <1>1, <1>2 DEF NotShown, ResultsCanBeTakenBack
<1>5. ClaimsAreHeld'
  BY <1>3, <1>1, <1>2 DEF NotShown, ClaimsAreHeld
<1>6. BackgroundScanSurvives'
  BY <1>3, <1>1, <1>2 DEF NotShown, BackgroundScanSurvives
<1>7. ClaimedRemovalShowsNoResult'
  BY <1>3, <1>1, <1>2 DEF NotShown, ClaimedRemovalShowsNoResult
<1>8. ScanIsNotAhead'
  BY <1>3, <1>1, <1>2 DEF NotShown, ScanIsNotAhead
<1> QED BY <1>3, <1>4, <1>5, <1>6, <1>7, <1>8

\* The coordinator's invariant survives: a background pass is asked for.
LEMMA RequestBackgroundUsageRefreshKeeps ==
  ASSUME NEW force, UsageIInv, RequestBackgroundUsageRefresh(force)
  PROVE  UsageIInv'
<1> USE Kinds, UsageFields DEF UsageIInv, UsageTypeOK
<1>1. UsageTypeOK'
  <2>1. generation' \in Nat /\ fingerprint' \in Int
    BY DEF RequestBackgroundUsageRefresh
  <2>2. op' \in [Ops -> Operation]
    BY DEF RequestBackgroundUsageRefresh
  <2>3. usageScan' \in UsageScan
    BY DEF RequestBackgroundUsageRefresh
  <2>4. claim' \in Asked \cup {"none"}
    BY DEF RequestBackgroundUsageRefresh
  <2>5. visible' \in [Asked -> Int]
    BY DEF RequestBackgroundUsageRefresh, NotShown
  <2>6. usageShown' \in [Asked -> Messages]
    BY DEF RequestBackgroundUsageRefresh
  <2> QED BY <2>1, <2>2, <2>3, <2>4, <2>5, <2>6
<1>2. ResultsCanBeTakenBack'
  BY <1>1 DEF RequestBackgroundUsageRefresh, NotShown, ResultsCanBeTakenBack
<1>3. ClaimsAreHeld'
  BY <1>1 DEF RequestBackgroundUsageRefresh, NotShown, ClaimsAreHeld
<1>4. BackgroundScanSurvives'
  BY <1>1 DEF RequestBackgroundUsageRefresh, NotShown, BackgroundScanSurvives
<1>5. ClaimedRemovalShowsNoResult'
  BY <1>1 DEF RequestBackgroundUsageRefresh, NotShown, ClaimedRemovalShowsNoResult
<1>6. ScanIsNotAhead'
  BY <1>1 DEF RequestBackgroundUsageRefresh, NotShown, ScanIsNotAhead
<1> QED BY <1>1, <1>2, <1>3, <1>4, <1>5, <1>6

\* The coordinator's invariant survives: a pass is serviced.
LEMMA ServicePendingKeeps ==
  ASSUME UsageIInv, ServicePending
  PROVE  UsageIInv'
<1> USE Kinds, UsageFields DEF UsageIInv, UsageTypeOK
<1>1. op' \in [Ops -> Operation] /\ \A o \in Asked : op'[o] = op[o]
  BY Begun DEF ServicePending
<1>2. UsageTypeOK'
  <2>1. generation' \in Nat /\ fingerprint' \in Int
    BY <1>1 DEF ServicePending
  <2>2. op' \in [Ops -> Operation]
    BY <1>1 DEF ServicePending
  <2>3. usageScan' \in UsageScan
    BY <1>1 DEF ServicePending
  <2>4. claim' \in Asked \cup {"none"}
    BY <1>1 DEF ServicePending
  <2>5. visible' \in [Asked -> Int]
    BY <1>1 DEF ServicePending, NotShown
  <2>6. usageShown' \in [Asked -> Messages]
    BY <1>1 DEF ServicePending
  <2> QED BY <2>1, <2>2, <2>3, <2>4, <2>5, <2>6
<1>3. ResultsCanBeTakenBack'
  BY <1>2, <1>1 DEF ServicePending, NotShown, ResultsCanBeTakenBack
<1>4. ClaimsAreHeld'
  BY <1>2, <1>1 DEF ServicePending, NotShown, ClaimsAreHeld
<1>5. BackgroundScanSurvives'
  BY <1>2, <1>1 DEF ServicePending, NotShown, BackgroundScanSurvives
<1>6. ClaimedRemovalShowsNoResult'
  BY <1>2, <1>1 DEF ServicePending, NotShown, ClaimedRemovalShowsNoResult
<1>7. ScanIsNotAhead'
  BY <1>2, <1>1 DEF ServicePending, NotShown, ScanIsNotAhead
<1> QED BY <1>2, <1>3, <1>4, <1>5, <1>6, <1>7

\* The coordinator's invariant survives: a pass starts.
LEMMA BackgroundStartsKeeps ==
  ASSUME UsageIInv, BackgroundStarts
  PROVE  UsageIInv'
<1> USE Kinds, UsageFields DEF UsageIInv, UsageTypeOK
<1>1. op' \in [Ops -> Operation] /\ \A o \in Asked : op'[o] = op[o]
  BY Sent, Scanning DEF BackgroundStarts, Ends
<1>2. \/ usageScan' = usageScan
      \/ usageScan' \in UsageScan /\ usageScan'.cancelled = FALSE /\ usageScan'.identity[1] = generation
  <2>1. \/ usageScan' = usageScan
        \/ usageScan' = [owner |-> "background", identity |-> Identity, cancelled |-> FALSE]
    BY DEF BackgroundStarts
  <2>2. /\ [owner |-> "background", identity |-> Identity, cancelled |-> FALSE] \in UsageScan
        /\ Identity[1] = generation
    BY Scanning
  <2>3. CASE usageScan' = [owner |-> "background", identity |-> Identity, cancelled |-> FALSE]
    <3>1. usageScan'.identity = Identity /\ usageScan'.cancelled = FALSE
      BY <2>3
    <3> QED BY <3>1, <2>2, <2>3
  <2> QED BY <2>1, <2>3
<1>3. \/ UNCHANGED <<visible, usageShown>>
      \/ /\ usageShown' = [usageShown EXCEPT !["cleanup"] = "result"]
         /\ visible' = [visible EXCEPT !["cleanup"] = generation]
  BY DEF BackgroundStarts, Post
<1>4. UNCHANGED <<generation, fingerprint, claim, removalActive, usageDisposed>>
  BY DEF BackgroundStarts
<1>5. UsageTypeOK'
  <2>1. generation' \in Nat /\ fingerprint' \in Int
    BY <1>1, <1>2, <1>3, <1>4
  <2>2. op' \in [Ops -> Operation]
    BY <1>1, <1>2, <1>3, <1>4
  <2>3. usageScan' \in UsageScan
    BY <1>1, <1>2, <1>3, <1>4
  <2>4. claim' \in Asked \cup {"none"}
    BY <1>1, <1>2, <1>3, <1>4
  <2>5. visible' \in [Asked -> Int]
    BY <1>1, <1>2, <1>3, <1>4 DEF NotShown
  <2>6. usageShown' \in [Asked -> Messages]
    BY <1>1, <1>2, <1>3, <1>4
  <2> QED BY <2>1, <2>2, <2>3, <2>4, <2>5, <2>6
<1>6. ResultsCanBeTakenBack'
  BY <1>5, <1>1, <1>2, <1>3, <1>4 DEF NotShown, ResultsCanBeTakenBack
<1>7. ClaimsAreHeld'
  BY <1>5, <1>1, <1>2, <1>3, <1>4 DEF NotShown, ClaimsAreHeld
<1>8. BackgroundScanSurvives'
  BY <1>5, <1>1, <1>2, <1>3, <1>4 DEF NotShown, BackgroundScanSurvives
<1>9. ClaimedRemovalShowsNoResult'
  BY <1>5, <1>1, <1>2, <1>3, <1>4 DEF NotShown, ClaimedRemovalShowsNoResult
<1>10. ScanIsNotAhead'
  BY <1>5, <1>1, <1>2, <1>3, <1>4 DEF NotShown, ScanIsNotAhead
<1> QED BY <1>5, <1>6, <1>7, <1>8, <1>9, <1>10

\* The coordinator's invariant survives: a pass has its answer.
LEMMA BackgroundAnswerKeeps ==
  ASSUME UsageIInv, BackgroundAnswer
  PROVE  UsageIInv'
<1> USE Kinds, UsageFields DEF UsageIInv, UsageTypeOK
<1>1. op' \in [Ops -> Operation] /\ \A o \in Asked : op'[o] = op[o]
  BY DEF BackgroundAnswer, Ends
<1>2. \/ UNCHANGED <<visible, usageShown>>
      \/ /\ usageShown' = [usageShown EXCEPT !["cleanup"] = "result"]
         /\ visible' = [visible EXCEPT !["cleanup"] = generation]
  BY DEF BackgroundAnswer, Post, Outdated
<1>3. UNCHANGED <<generation, fingerprint, claim, removalActive, usageScan, usageDisposed>>
  BY DEF BackgroundAnswer
<1>4. UsageTypeOK'
  <2>1. generation' \in Nat /\ fingerprint' \in Int
    BY <1>1, <1>2, <1>3
  <2>2. op' \in [Ops -> Operation]
    BY <1>1, <1>2, <1>3
  <2>3. usageScan' \in UsageScan
    BY <1>1, <1>2, <1>3
  <2>4. claim' \in Asked \cup {"none"}
    BY <1>1, <1>2, <1>3
  <2>5. visible' \in [Asked -> Int]
    BY <1>1, <1>2, <1>3 DEF NotShown
  <2>6. usageShown' \in [Asked -> Messages]
    BY <1>1, <1>2, <1>3
  <2> QED BY <2>1, <2>2, <2>3, <2>4, <2>5, <2>6
<1>5. ResultsCanBeTakenBack'
  BY <1>4, <1>1, <1>2, <1>3 DEF NotShown, ResultsCanBeTakenBack
<1>6. ClaimsAreHeld'
  BY <1>4, <1>1, <1>2, <1>3 DEF NotShown, ClaimsAreHeld
<1>7. BackgroundScanSurvives'
  BY <1>4, <1>1, <1>2, <1>3 DEF NotShown, BackgroundScanSurvives
<1>8. ClaimedRemovalShowsNoResult'
  BY <1>4, <1>1, <1>2, <1>3 DEF NotShown, ClaimedRemovalShowsNoResult
<1>9. ScanIsNotAhead'
  BY <1>4, <1>1, <1>2, <1>3 DEF NotShown, ScanIsNotAhead
<1> QED BY <1>4, <1>5, <1>6, <1>7, <1>8, <1>9

\* The coordinator's invariant survives: the source is invalidated.
LEMMA InvalidateKeeps ==
  ASSUME UsageIInv, Invalidate
  PROVE  UsageIInv'
<1> USE Kinds, UsageFields DEF UsageIInv, UsageTypeOK
<1>1. generation' = generation + 1 /\ generation' \in Nat
  BY DEF Invalidate
<1>2. /\ usageScan' \in UsageScan /\ usageScan'.owner = usageScan.owner /\ usageScan'.identity = usageScan.identity
      /\ usageScan.identity[1] \in Int
  BY ScanCancelled DEF Invalidate
<1>3. /\ usageShown' = [a \in Asked |-> IF visible[a] = -1 THEN usageShown[a]
                                       ELSE IF a = "cleanup" THEN "superseded" ELSE "error"]
      /\ visible' = [a \in Asked |-> -1]
      /\ UNCHANGED <<fingerprint, claim, op, removalActive, usageDisposed>>
  BY DEF Invalidate, NotShown
<1>4. \A a \in Asked : usageShown'[a] # "result"
  BY <1>3 DEF ResultsCanBeTakenBack
<1>5. UsageTypeOK'
  <2>1. generation' \in Nat /\ fingerprint' \in Int
    BY <1>1, <1>2, <1>3, <1>4
  <2>2. op' \in [Ops -> Operation]
    BY <1>1, <1>2, <1>3, <1>4
  <2>3. usageScan' \in UsageScan
    BY <1>1, <1>2, <1>3, <1>4
  <2>4. claim' \in Asked \cup {"none"}
    BY <1>1, <1>2, <1>3, <1>4
  <2>5. visible' \in [Asked -> Int]
    BY <1>1, <1>2, <1>3, <1>4 DEF Invalidate, NotShown
  <2>6. usageShown' \in [Asked -> Messages]
    BY <1>1, <1>2, <1>3, <1>4
  <2> QED BY <2>1, <2>2, <2>3, <2>4, <2>5, <2>6
<1>6. ResultsCanBeTakenBack'
  BY <1>5, <1>1, <1>2, <1>3, <1>4 DEF NotShown, ResultsCanBeTakenBack
<1>7. ClaimsAreHeld'
  BY <1>5, <1>1, <1>2, <1>3, <1>4 DEF NotShown, ClaimsAreHeld
<1>8. BackgroundScanSurvives'
  BY <1>5, <1>1, <1>2, <1>3, <1>4 DEF NotShown, ScanIsNotAhead, BackgroundScanSurvives
<1>9. ClaimedRemovalShowsNoResult'
  BY <1>5, <1>1, <1>2, <1>3, <1>4 DEF NotShown, ClaimedRemovalShowsNoResult
<1>10. ScanIsNotAhead'
  BY <1>5, <1>1, <1>2, <1>3, <1>4 DEF NotShown, ScanIsNotAhead
<1> QED BY <1>5, <1>6, <1>7, <1>8, <1>9, <1>10

\* The coordinator's invariant survives: the source is another one.
LEMMA FingerprintChangesKeeps ==
  ASSUME UsageIInv, FingerprintChanges
  PROVE  UsageIInv'
<1> USE Kinds, UsageFields DEF UsageIInv, UsageTypeOK
<1>1. UsageTypeOK'
  <2>1. generation' \in Nat /\ fingerprint' \in Int
    BY DEF FingerprintChanges
  <2>2. op' \in [Ops -> Operation]
    BY DEF FingerprintChanges
  <2>3. usageScan' \in UsageScan
    BY DEF FingerprintChanges
  <2>4. claim' \in Asked \cup {"none"}
    BY DEF FingerprintChanges
  <2>5. visible' \in [Asked -> Int]
    BY DEF FingerprintChanges, NotShown
  <2>6. usageShown' \in [Asked -> Messages]
    BY DEF FingerprintChanges
  <2> QED BY <2>1, <2>2, <2>3, <2>4, <2>5, <2>6
<1>2. ResultsCanBeTakenBack'
  BY <1>1 DEF FingerprintChanges, NotShown, ResultsCanBeTakenBack
<1>3. ClaimsAreHeld'
  BY <1>1 DEF FingerprintChanges, NotShown, ClaimsAreHeld
<1>4. BackgroundScanSurvives'
  BY <1>1 DEF FingerprintChanges, NotShown, BackgroundScanSurvives
<1>5. ClaimedRemovalShowsNoResult'
  BY <1>1 DEF FingerprintChanges, NotShown, ClaimedRemovalShowsNoResult
<1>6. ScanIsNotAhead'
  BY <1>1 DEF FingerprintChanges, NotShown, ScanIsNotAhead
<1> QED BY <1>1, <1>2, <1>3, <1>4, <1>5, <1>6

\* The coordinator's invariant survives: results expire.
LEMMA CacheExpiresKeeps ==
  ASSUME UsageIInv, CacheExpires
  PROVE  UsageIInv'
<1> USE Kinds, UsageFields DEF UsageIInv, UsageTypeOK
<1>1. UsageTypeOK'
  <2>1. generation' \in Nat /\ fingerprint' \in Int
    BY DEF CacheExpires
  <2>2. op' \in [Ops -> Operation]
    BY DEF CacheExpires
  <2>3. usageScan' \in UsageScan
    BY DEF CacheExpires
  <2>4. claim' \in Asked \cup {"none"}
    BY DEF CacheExpires
  <2>5. visible' \in [Asked -> Int]
    BY DEF CacheExpires, NotShown
  <2>6. usageShown' \in [Asked -> Messages]
    BY DEF CacheExpires
  <2> QED BY <2>1, <2>2, <2>3, <2>4, <2>5, <2>6
<1>2. ResultsCanBeTakenBack'
  BY <1>1 DEF CacheExpires, NotShown, ResultsCanBeTakenBack
<1>3. ClaimsAreHeld'
  BY <1>1 DEF CacheExpires, NotShown, ClaimsAreHeld
<1>4. BackgroundScanSurvives'
  BY <1>1 DEF CacheExpires, NotShown, BackgroundScanSurvives
<1>5. ClaimedRemovalShowsNoResult'
  BY <1>1 DEF CacheExpires, NotShown, ClaimedRemovalShowsNoResult
<1>6. ScanIsNotAhead'
  BY <1>1 DEF CacheExpires, NotShown, ScanIsNotAhead
<1> QED BY <1>1, <1>2, <1>3, <1>4, <1>5, <1>6

\* The coordinator's invariant survives: an upgrade begins.
LEMMA UpgradeBeginsKeeps ==
  ASSUME UsageIInv, UpgradeBegins
  PROVE  UsageIInv'
<1> USE Kinds, UsageFields DEF UsageIInv, UsageTypeOK
<1>1. UsageTypeOK'
  <2>1. generation' \in Nat /\ fingerprint' \in Int
    BY DEF UpgradeBegins
  <2>2. op' \in [Ops -> Operation]
    BY DEF UpgradeBegins
  <2>3. usageScan' \in UsageScan
    BY DEF UpgradeBegins
  <2>4. claim' \in Asked \cup {"none"}
    BY DEF UpgradeBegins
  <2>5. visible' \in [Asked -> Int]
    BY DEF UpgradeBegins, NotShown
  <2>6. usageShown' \in [Asked -> Messages]
    BY DEF UpgradeBegins
  <2> QED BY <2>1, <2>2, <2>3, <2>4, <2>5, <2>6
<1>2. ResultsCanBeTakenBack'
  BY <1>1 DEF UpgradeBegins, NotShown, ResultsCanBeTakenBack
<1>3. ClaimsAreHeld'
  BY <1>1 DEF UpgradeBegins, NotShown, ClaimsAreHeld
<1>4. BackgroundScanSurvives'
  BY <1>1 DEF UpgradeBegins, NotShown, BackgroundScanSurvives
<1>5. ClaimedRemovalShowsNoResult'
  BY <1>1 DEF UpgradeBegins, NotShown, ClaimedRemovalShowsNoResult
<1>6. ScanIsNotAhead'
  BY <1>1 DEF UpgradeBegins, NotShown, ScanIsNotAhead
<1> QED BY <1>1, <1>2, <1>3, <1>4, <1>5, <1>6

\* The coordinator's invariant survives: an upgrade ends.
LEMMA UpgradeEndsKeeps ==
  ASSUME UsageIInv, UpgradeEnds
  PROVE  UsageIInv'
<1> USE Kinds, UsageFields DEF UsageIInv, UsageTypeOK
<1>1. UsageTypeOK'
  <2>1. generation' \in Nat /\ fingerprint' \in Int
    BY DEF UpgradeEnds
  <2>2. op' \in [Ops -> Operation]
    BY DEF UpgradeEnds
  <2>3. usageScan' \in UsageScan
    BY DEF UpgradeEnds
  <2>4. claim' \in Asked \cup {"none"}
    BY DEF UpgradeEnds
  <2>5. visible' \in [Asked -> Int]
    BY DEF UpgradeEnds, NotShown
  <2>6. usageShown' \in [Asked -> Messages]
    BY DEF UpgradeEnds
  <2> QED BY <2>1, <2>2, <2>3, <2>4, <2>5, <2>6
<1>2. ResultsCanBeTakenBack'
  BY <1>1 DEF UpgradeEnds, NotShown, ResultsCanBeTakenBack
<1>3. ClaimsAreHeld'
  BY <1>1 DEF UpgradeEnds, NotShown, ClaimsAreHeld
<1>4. BackgroundScanSurvives'
  BY <1>1 DEF UpgradeEnds, NotShown, BackgroundScanSurvives
<1>5. ClaimedRemovalShowsNoResult'
  BY <1>1 DEF UpgradeEnds, NotShown, ClaimedRemovalShowsNoResult
<1>6. ScanIsNotAhead'
  BY <1>1 DEF UpgradeEnds, NotShown, ScanIsNotAhead
<1> QED BY <1>1, <1>2, <1>3, <1>4, <1>5, <1>6

\* The coordinator's invariant survives: the panel is closed.
LEMMA DisposeUsageKeeps ==
  ASSUME UsageIInv, DisposeUsage
  PROVE  UsageIInv'
<1> USE Kinds, UsageFields DEF UsageIInv, UsageTypeOK
<1>1. op' \in [Ops -> Operation] /\ \A o \in Ops : op'[o].phase = op[o].phase
  BY Cancelled DEF DisposeUsage
<1>2. usageScan' \in UsageScan /\ usageScan'.owner = usageScan.owner /\ usageScan'.identity = usageScan.identity
  BY ScanCancelled DEF DisposeUsage
<1>3. usageDisposed' /\ UNCHANGED <<generation, fingerprint, claim, removalActive, visible, usageShown>>
  BY DEF DisposeUsage
<1>4. UsageTypeOK'
  <2>1. generation' \in Nat /\ fingerprint' \in Int
    BY <1>1, <1>2, <1>3
  <2>2. op' \in [Ops -> Operation]
    BY <1>1, <1>2, <1>3
  <2>3. usageScan' \in UsageScan
    BY <1>1, <1>2, <1>3
  <2>4. claim' \in Asked \cup {"none"}
    BY <1>1, <1>2, <1>3
  <2>5. visible' \in [Asked -> Int]
    BY <1>1, <1>2, <1>3 DEF NotShown
  <2>6. usageShown' \in [Asked -> Messages]
    BY <1>1, <1>2, <1>3
  <2> QED BY <2>1, <2>2, <2>3, <2>4, <2>5, <2>6
<1>5. ResultsCanBeTakenBack'
  BY <1>4, <1>1, <1>2, <1>3 DEF NotShown, ResultsCanBeTakenBack
<1>6. ClaimsAreHeld'
  BY <1>4, <1>1, <1>2, <1>3 DEF NotShown, ClaimsAreHeld
<1>7. BackgroundScanSurvives'
  BY <1>4, <1>1, <1>2, <1>3 DEF NotShown, BackgroundScanSurvives
<1>8. ClaimedRemovalShowsNoResult'
  BY <1>4, <1>1, <1>2, <1>3 DEF NotShown, ClaimedRemovalShowsNoResult
<1>9. ScanIsNotAhead'
  BY <1>4, <1>1, <1>2, <1>3 DEF NotShown, ScanIsNotAhead
<1> QED BY <1>4, <1>5, <1>6, <1>7, <1>8, <1>9

\* So does every step.
LEMMA UsageStep ==
  ASSUME UsageIInv, [UsageNext]_usageVars
  PROVE  UsageIInv'
<1>1. CASE UsageNext
  BY <1>1, AskKeeps, LookUpKeeps, StartCleanupKeeps, HandleCancelKeeps, HandleCancelRemovalImpactKeeps,
     ScanEndsKeeps,
     AnswerKeeps, RequestBackgroundUsageRefreshKeeps, ServicePendingKeeps, BackgroundStartsKeeps, BackgroundAnswerKeeps,
     InvalidateKeeps, FingerprintChangesKeeps, CacheExpiresKeeps, UpgradeBeginsKeeps, UpgradeEndsKeeps,
     DisposeUsageKeeps DEF UsageNext, LooksUp
<1>2. CASE UNCHANGED usageVars
  BY <1>2 DEF usageVars, UsageIInv, UsageTypeOK, ResultsCanBeTakenBack, ClaimsAreHeld, BackgroundScanSurvives,
     ClaimedRemovalShowsNoResult, ScanIsNotAhead
<1> QED BY <1>1, <1>2

\* What keeps overlapping searches apart: who holds the claim and the slot, which
\* generation each result and each scan is of, and that the claim of a removal
\* request is taken with its old result off the screen.
THEOREM UsageInvariant == UsageSpec => []UsageIInv
<1>1. UsageInit => UsageIInv
  <2> SUFFICES ASSUME UsageInit PROVE UsageIInv
    OBVIOUS
  <2> USE Kinds, UsageFields DEF UsageInit
  <2>1. UsageTypeOK
    BY DEF UsageTypeOK, NotShown
  <2> QED BY <2>1 DEF UsageIInv, ResultsCanBeTakenBack, ClaimsAreHeld, BackgroundScanSurvives,
          ClaimedRemovalShowsNoResult, ScanIsNotAhead, NotShown
<1> QED BY <1>1, UsageStep, PTL DEF UsageSpec

\* An invalidation can take back every result on the screen, the foreground claim
\* and the slot of removal requests are only held by a request that is under way,
\* and a background scan is not cancelled by a request that joined it.
THEOREM SearchesStayApart == UsageSpec => []AnalysesKeepApart
BY UsageInvariant, PTL DEF UsageIInv, AnalysesKeepApart

=============================================================================
