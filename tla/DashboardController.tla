------------------------- MODULE DashboardController -------------------------
(***************************************************************************)
(* host/dashboardController.ts: the rows of one panel and the generations  *)
(* that decide whether an upgrade may be planned from them.  A controller  *)
(* holds the project files as they were last read (source), the rows of    *)
(* the last scan (last) and three generations: the current one, the one    *)
(* the source was confirmed for, and the one the rows were validated for.  *)
(* Its callers in host/dashboardPanel.ts and host/fileChangeReload.ts are  *)
(* the actions: watcher events, drained bursts, reloads, a mutation with   *)
(* its reread and its targeted scan, the ready message, the background     *)
(* timer, disposal and a new panel that hydrates from the persisted cache. *)
(*                                                                         *)
(* The content of a project is its version on disk.  What a scan computes  *)
(* is the version it was given and whether its core data is complete.      *)
(* A run that was aborted changes nothing when it ends: it is dropped when *)
(* it is aborted.  So is a read whose reload was superseded, except that   *)
(* the chain of drained bursts waits for its read to end.                  *)
(***************************************************************************)
EXTENDS Naturals

CONSTANTS
  Projects,       \* the projects of the workspace
  MaxEdits,       \* bound: changes of files on disk
  MaxReloads,     \* bound: reloads, panels opened and mutations
  MaxRevalidations, \* bound: beginRevalidation calls of a controller
  MountsAnytime   \* whether the webview may mount again around a mutation

ASSUME ControllerAssumption ==
  /\ Projects # {}
  /\ MaxEdits \in Nat /\ MaxReloads \in Nat /\ MaxRevalidations \in Nat
  /\ MountsAnytime \in BOOLEAN

VARIABLES
  disk,       \* version of each project's files
  told,       \* newest version of the selected project read or reported by watchers
  open,       \* a controller exists and is not disposed
  source,     \* options: the project and the version its files were read at
  last,       \* lastResult and lastResultSourceFingerprint
  stored,     \* projectCacheStore, by the project's cache key
  reval,      \* revalidationGeneration (1 here is 0 in the code)
  confirmed,  \* optionsGeneration
  eligible,   \* eligibleGeneration (NoGeneration is undefined)
  scan,       \* the run that inFlight can still abort
  drain,      \* the drained burst being reloaded
  reload,     \* the current reloadAndScan while it reads
  mutation,   \* the dependency change that holds the lock
  burst,      \* a burst of watcher events waits for its debounce or a release
  shown,      \* status of the last message about the rows
  reloads     \* reloads, panels and mutations so far

controllerVars == <<disk, told, open, source, last, stored, reval, confirmed, eligible,
                    scan, drain, reload, mutation, burst, shown, reloads>>
generations == <<reval, confirmed, eligible>>

NoGeneration == 0
Content == Projects \X (1 .. MaxEdits + 1)
NoContent == <<>>

\* The rows a scan produced: the content they describe, the content whose
\* fingerprint is kept beside them, and hasCompleteCoreData.
Absent == [rows |-> NoContent, fingerprint |-> NoContent, complete |-> FALSE]

NoScan == [reason |-> "none", before |-> NoGeneration, start |-> NoGeneration,
           content |-> NoContent, by |-> "none"]
NoRead == [stage |-> "idle", gen |-> NoGeneration, project |-> CHOOSE p \in Projects : TRUE,
           from |-> 1, live |-> FALSE]

Project == source[1]
OnDisk(p) == <<p, disk[p]>>

ControllerInit ==
  /\ disk = [p \in Projects |-> 1]
  /\ source \in {OnDisk(p) : p \in Projects}
  /\ told = source[2]
  /\ open = TRUE
  /\ last = Absent
  /\ stored = [p \in Projects |-> Absent]
  /\ reval = 1 /\ confirmed = 1 /\ eligible = NoGeneration
  /\ scan = NoScan /\ drain = NoRead /\ reload = NoRead
  /\ mutation = "none" /\ burst = FALSE
  /\ shown = "nothing" /\ reloads = 0

-----------------------------------------------------------------------------
(* The parts of the controller *)

\* isEligible, and validateUpgradeRequest's gate before it looks at the rows.
Eligible == eligible # NoGeneration /\ eligible = reval
AcceptsUpgrade == open /\ last # Absent /\ Eligible

\* announceRevalidating.
Announced == IF last = Absent THEN shown ELSE "stale"

\* run, up to its first await, from generation g with the source content c
\* confirmed for generation conf; rows are the rows it may announce.
Run(reason, g, conf, c, rows, by) ==
  LET effective == CASE reason = "time" /\ ~(eligible # NoGeneration /\ eligible = g) -> "structural"
                     [] reason = "local" /\ conf # g -> "structural"
                     [] OTHER -> reason
      start == IF effective = "structural" THEN g + 1 ELSE g
  IN  /\ start <= MaxRevalidations
      /\ scan' = [reason |-> effective, before |-> g, start |-> start, content |-> c, by |-> by]
      /\ reval' = start
      /\ confirmed' = conf
      /\ shown' = IF effective = "structural" /\ rows # Absent THEN "stale" ELSE shown

\* Mutant: the snapshot is confirmed whatever began since it was read.
ConfirmedAnyway(g) == reval + 1

\* updateProjectSnapshot with content c read since generation g: the generation it
\* begins, and the one the source is confirmed for after it.
Confirmation(g) == IF g = reval THEN reval + 1 ELSE confirmed

-----------------------------------------------------------------------------
(* The files and their watchers *)

\* Something changes a project's files: the user, git or the package manager.
Edit(p) ==
  /\ disk[p] <= MaxEdits
  /\ disk' = [disk EXCEPT ![p] = @ + 1]
  /\ UNCHANGED <<told, open, source, last, stored, generations, scan, drain, reload,
                 mutation, burst, shown, reloads>>

\* onWatchedFileEvent: eligibility goes at once, the reload comes after the debounce.
WatcherEvent ==
  /\ open /\ told < disk[Project]
  /\ reval < MaxRevalidations
  /\ told' = disk[Project]
  /\ reval' = reval + 1
  /\ shown' = Announced
  /\ burst' = TRUE
  /\ UNCHANGED <<disk, open, source, last, stored, confirmed, eligible, scan, drain,
                 reload, mutation, reloads>>

-----------------------------------------------------------------------------
(* Reloads *)

\* A drained burst starts (reloadAfterFileChange).  A burst with a lockfile event
\* first purges the entries that share the lockfile.
StartDrain ==
  /\ open /\ burst /\ mutation = "none"
  /\ drain.stage = "idle" /\ scan.by # "drain"
  /\ reval < MaxRevalidations
  /\ burst' = FALSE
  /\ reval' = reval + 1
  /\ shown' = Announced
  /\ drain' = [stage |-> "reading", gen |-> reval + 1, project |-> Project,
               from |-> disk[Project], live |-> TRUE]
  /\ \E lockfile \in BOOLEAN :
       stored' = IF lockfile THEN [stored EXCEPT ![Project] = Absent] ELSE stored
  /\ UNCHANGED <<disk, told, open, source, last, confirmed, eligible, scan, reload,
                 mutation, reloads>>

\* reloadControllerFromDisk after its read: the entry is dropped, the snapshot is
\* replaced and a structural run starts, in one go.
DrainRead ==
  /\ open /\ drain.stage = "reading"
  /\ drain' = NoRead
  /\ IF drain.live
     THEN \E v \in drain.from .. disk[drain.project] :
            /\ source' = <<drain.project, v>>
            /\ stored' = [stored EXCEPT ![Project] = Absent]
            /\ Run("structural", reval + 1, Confirmation(drain.gen), source', last, "drain")
     ELSE UNCHANGED <<source, stored, generations, scan, shown>>
  /\ UNCHANGED <<disk, told, open, last, eligible, reload, mutation, burst, reloads>>

\* The project cannot be read right now: the last good rows stay.
DrainReadFails ==
  /\ open /\ drain.stage = "reading"
  /\ drain' = NoRead
  /\ UNCHANGED <<disk, told, open, source, last, stored, generations, scan, reload,
                 mutation, burst, shown, reloads>>

\* reloadAndScan of the selected project or, when no review is open, of another
\* one.  It supersedes what was being read and what was queued.
StartReload(p, by) ==
  /\ open /\ reloads < MaxReloads
  /\ reval < MaxRevalidations
  /\ reval' = reval + 1
  /\ shown' = Announced
  /\ reload' = [stage |-> "reading", gen |-> reval + 1, project |-> p, from |-> disk[p],
                live |-> TRUE]
  /\ drain' = [drain EXCEPT !.live = FALSE]
  /\ burst' = FALSE
  /\ reloads' = reloads + 1
  /\ UNCHANGED <<disk, told, open, source, last, stored, confirmed, eligible, scan>>

Refresh(p) ==
  /\ mutation = "none"
  /\ StartReload(p, "user")
  /\ UNCHANGED mutation

\* The read ends: a snapshot of the same project is scanned behind its rows
\* (refreshInBackground), another project's rows go first (handleRefresh).
ReloadRead ==
  /\ open /\ reload.stage = "reading"
  /\ reload' = NoRead
  /\ \E v \in reload.from .. disk[reload.project] :
       LET content == <<reload.project, v>>
           same == reload.project = Project
           rows == IF same THEN last ELSE Absent
       IN  /\ source' = content
           /\ told' = IF same THEN told ELSE v
           /\ last' = rows
           /\ burst' = (burst /\ same)
           /\ drain' = [drain EXCEPT !.live = @ /\ same]
           /\ IF same
              THEN Run("structural", reval + 1, Confirmation(reload.gen), content, rows, "reload")
              ELSE /\ reval + 2 <= MaxRevalidations
                   /\ scan' = [reason |-> "structural", before |-> reval + 1, start |-> reval + 2,
                               content |-> content, by |-> "reload"]
                   /\ reval' = reval + 2
                   /\ confirmed' = Confirmation(reload.gen)
                   /\ shown' = "loading"
  /\ UNCHANGED <<disk, open, stored, eligible, mutation, reloads>>

ReloadFails ==
  /\ open /\ reload.stage = "reading"
  /\ reload' = NoRead
  /\ shown' = "error"
  /\ UNCHANGED <<disk, told, open, source, last, stored, generations, scan, drain,
                 mutation, burst, reloads>>

-----------------------------------------------------------------------------
(* A dependency change (executeStoredAnalysis) *)

\* It is confirmed from rows the controller accepts and takes the lock.
BeginMutation ==
  /\ AcceptsUpgrade /\ mutation = "none"
  /\ reload.stage = "idle" /\ drain.stage = "idle"
  /\ reloads < MaxReloads
  /\ reloads' = reloads + 1
  /\ mutation' = "running"
  /\ UNCHANGED <<disk, told, open, source, last, stored, generations, scan, drain, reload,
                 burst, shown>>

\* readAndApplyMutationLocalState up to its read.
StartReread ==
  /\ open /\ mutation = "running"
  /\ reval < MaxRevalidations
  /\ mutation' = "reading"
  /\ burst' = FALSE
  /\ reval' = reval + 1
  /\ reload' = [stage |-> "rereading", gen |-> reval + 1, project |-> Project,
                from |-> disk[Project], live |-> TRUE]
  /\ drain' = [drain EXCEPT !.live = FALSE]
  /\ UNCHANGED <<disk, told, open, source, last, stored, confirmed, eligible, scan, shown,
                 reloads>>

\* The reread is applied and, when nothing was reported meanwhile, the targeted
\* scan starts (refreshMutationEnrichmentInBackground).
Reread ==
  /\ open /\ reload.stage = "rereading"
  /\ reload' = NoRead
  /\ mutation' = "applied"
  /\ stored' = [stored EXCEPT ![Project] = Absent]
  /\ \E v \in reload.from .. disk[Project] : source' = <<Project, v>>
  /\ IF reload.gen = reval
     THEN Run("local", reval + 1, Confirmation(reload.gen), source', last, "mutation")
     ELSE /\ reval' = reval + 1
          /\ UNCHANGED <<confirmed, scan, shown>>
  /\ UNCHANGED <<disk, told, open, last, eligible, drain, burst, reloads>>

\* The reread fails: the ordinary reload takes its place (reloadFinalState).
RereadFails ==
  /\ reload.stage = "rereading"
  /\ mutation' = "applied"
  /\ StartReload(Project, "mutation")

\* The lock goes once the change and its final reload are over.
Release ==
  /\ open /\ mutation \in {"running", "applied"}
  /\ reload.stage = "idle" /\ ~(mutation = "applied" /\ scan.by = "reload")
  /\ mutation' = "none"
  /\ UNCHANGED <<disk, told, open, source, last, stored, generations, scan, drain, reload,
                 burst, shown, reloads>>

-----------------------------------------------------------------------------
(* The ready message and the timer *)

\* What ready finds: the rows in memory, or the persisted entry when its
\* fingerprint is the source's (hydrateFromPersistedCache).
Hydrates == last = Absent /\ stored[Project] # Absent /\ stored[Project].fingerprint = source
Cached == IF Hydrates THEN stored[Project] ELSE last

\* Rows are on screen that describe another source than the one held, or the lock
\* is taken: what is between a change and the end of its targeted scan.
AroundMutation == mutation # "none" \/ (last # Absent /\ last.rows # source)

\* handleReady.  Rows that classifyFreshness calls fresh are shown without a run.
Ready ==
  /\ open /\ (MountsAnytime \/ ~AroundMutation)
  /\ last' = Cached
  /\ stored' = IF last = Absent /\ ~Hydrates THEN [stored EXCEPT ![Project] = Absent] ELSE stored
  /\ \/ /\ Cached = Absent
        /\ reval < MaxRevalidations
        /\ scan' = [reason |-> "structural", before |-> reval, start |-> reval + 1,
                    content |-> source, by |-> "ready"]
        /\ reval' = reval + 1
        /\ shown' = "loading"
        /\ UNCHANGED <<confirmed, eligible>>
     \/ /\ Cached # Absent /\ ~Cached.complete
        /\ Run("structural", reval, confirmed, source, Cached, "ready")
        /\ UNCHANGED eligible
     \/ /\ Cached.complete
        /\ eligible' = IF confirmed = reval THEN reval ELSE eligible
        /\ \/ /\ shown' = "ready"
              /\ UNCHANGED <<scan, reval, confirmed>>
           \/ LET trusted == eligible' = reval
              IN  /\ trusted \/ reval < MaxRevalidations
                  /\ reval' = IF trusted THEN reval ELSE reval + 1
                  /\ scan' = [reason |-> IF trusted THEN "time" ELSE "structural",
                              before |-> reval, start |-> reval', content |-> source, by |-> "ready"]
                  /\ shown' = IF trusted THEN "ready" ELSE "stale"
                  /\ UNCHANGED confirmed
  /\ UNCHANGED <<disk, told, open, source, drain, reload, mutation, burst, reloads>>

\* onBackgroundTick when needsBackgroundRefresh: the rows are incomplete or old.
Tick ==
  /\ open /\ mutation = "none" /\ last # Absent
  /\ Run("time", reval, confirmed, source, last, "timer")
  /\ UNCHANGED <<disk, told, open, source, last, stored, eligible, drain, reload, mutation,
                 burst, reloads>>

-----------------------------------------------------------------------------
(* A run ends *)

\* A targeted or timed run is discarded when a revalidation began meanwhile.
Discarded == scan.reason # "structural" /\ scan.start # reval

\* persistSnapshot: the entry of the project that is selected now, under the
\* fingerprint of the source as it is now.
Persisted(complete) ==
  [stored EXCEPT ![Project] =
     [rows |-> scan.content, fingerprint |-> source, complete |-> complete]]

\* run grants eligibility to complete rows when no revalidation began meanwhile
\* and the source had been confirmed for the generation the run started from.
Grants(complete) == complete /\ scan.start = reval /\ confirmed = scan.before

ScanSucceeds ==
  /\ open /\ scan.reason # "none"
  /\ scan' = NoScan
  /\ \/ Discarded /\ UNCHANGED <<last, stored, generations, shown>>
     \/ /\ ~Discarded
        /\ \E complete \in BOOLEAN :
             /\ last' = [rows |-> scan.content, fingerprint |-> scan.content, complete |-> complete]
             /\ stored' = Persisted(complete)
             /\ eligible' = IF Grants(complete) THEN scan.start ELSE eligible
             /\ confirmed' = IF Grants(complete) THEN scan.start ELSE confirmed
        /\ shown' = "ready"
        /\ UNCHANGED reval
  /\ UNCHANGED <<disk, told, open, source, drain, reload, mutation, burst, reloads>>

\* Mutant: a failure is never posted.
ScanFailsQuietly ==
  /\ open /\ scan.reason # "none"
  /\ scan' = NoScan
  /\ UNCHANGED <<disk, told, open, source, last, stored, generations, drain, reload,
                 mutation, burst, shown, reloads>>

\* Nothing renderable: an error is posted only when no rows are on screen.
ScanFails ==
  /\ open /\ scan.reason # "none"
  /\ scan' = NoScan
  /\ shown' = IF last = Absent THEN "error" ELSE shown
  /\ UNCHANGED <<disk, told, open, source, last, stored, generations, drain, reload,
                 mutation, burst, reloads>>

-----------------------------------------------------------------------------
(* The controller goes and a new one comes *)

\* dispose: the run is aborted, reads are not applied; the persisted cache stays.
Dispose ==
  /\ open /\ mutation = "none"
  /\ open' = FALSE
  /\ scan' = NoScan /\ drain' = NoRead /\ reload' = NoRead
  /\ burst' = FALSE
  /\ shown' = "nothing"
  /\ last' = Absent
  /\ eligible' = NoGeneration /\ reval' = 1 /\ confirmed' = 1
  /\ UNCHANGED <<disk, told, source, stored, mutation, reloads>>

\* createController of a panel opened later, or after a branch took the project.
Open(p) ==
  /\ ~open /\ reloads < MaxReloads
  /\ open' = TRUE
  /\ source' = OnDisk(p) /\ told' = disk[p]
  /\ reloads' = reloads + 1
  /\ UNCHANGED <<disk, last, stored, generations, scan, drain, reload, mutation, burst, shown>>

-----------------------------------------------------------------------------
ControllerNext ==
  \/ (\E p \in Projects : Edit(p) \/ Refresh(p) \/ Open(p))
  \/ WatcherEvent \/ StartDrain \/ DrainRead \/ DrainReadFails
  \/ ReloadRead \/ ReloadFails
  \/ BeginMutation \/ StartReread \/ Reread \/ RereadFails \/ Release
  \/ Ready \/ Tick \/ ScanSucceeds \/ ScanFails \/ Dispose

ControllerSpec == ControllerInit /\ [][ControllerNext]_controllerVars

\* Requests have timeouts, so every run ends.
ControllerFairness == WF_controllerVars(ScanSucceeds \/ ScanFails)

-----------------------------------------------------------------------------
(* What the controller promises *)

\* isEligible's "validated against the exact source state": the rows an upgrade is
\* accepted from are those of the source the controller holds, and no older than
\* the newest version a watcher reported, whichever reads and scans overlapped.
AcceptedRowsAreCurrent ==
  AcceptsUpgrade => last.rows = source /\ last.rows[2] >= told

\* A persisted entry describes the source its fingerprint was taken from, so that
\* a later panel that hydrates it shows rows of the files it read.
PersistedIsScanned ==
  \A p \in Projects : stored[p] # Absent => stored[p].rows = stored[p].fingerprint /\ stored[p].rows[1] = p

\* "loading" gives way to rows or to an error, whatever supersedes the run that
\* was to replace it.
LoadingEnds == shown = "loading" ~> shown # "loading"

\* What is planned from, and what a later panel starts from, is what was read.
RowsMatchTheirSource == AcceptedRowsAreCurrent /\ PersistedIsScanned
=============================================================================
