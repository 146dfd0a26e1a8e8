---------------------------- MODULE PanelReload ----------------------------
(***************************************************************************)
(* How the panel keeps up with the files: the reloads DashboardPanel       *)
(* (src/src/host/dashboardPanel.ts) starts for a request, a watcher event, *)
(* a finished mutation or a new Git HEAD, over FileChangeCoordinator       *)
(* (src/src/core/cache/fileChangeCoordinator.ts) and                       *)
(* BranchChangeCoordinator (src/src/host/branchChangeCoordinator.ts).      *)
(*                                                                         *)
(* Everything is one thread: an action is the code one message, event,     *)
(* timer or resumed await runs.  Events are counted, not described: what   *)
(* matters of a reload is how many of them it began after (`seen`).        *)
(***************************************************************************)
EXTENDS Naturals, Sequences

CONSTANTS
  Projects,      \* candidates project discovery may offer
  NoProject,     \* undefined
  NCalls,        \* bound: calls of reloadAndScan
  NCreates,      \* bound: calls of createController
  MaxEvents,     \* bound: watcher events and HEAD changes
  MaxMutations   \* bound: mutations

Calls == 1 .. NCalls
Creates == 1 .. NCreates
NoCreate == 0

ASSUME BoundsAssumption ==
  {NCalls, NCreates, MaxEvents, MaxMutations} \subseteq Nat
ASSUME NoProjectAssumption == NoProject \notin Projects

\* Generations are counted from one.
NoGen == 0
\* Who awaits a burst on the reload chain: nobody (a timer), a call of
\* reloadAndScan by its number, or the release of a mutation.
Nobody == 0
Releaser == NCalls + 1

VARIABLES
  selected,     \* selectedProject
  controller,   \* the project this.controller shows
  watched,      \* the project the file watchers are for
  reloadGen,    \* reloadGeneration
  timer,        \* invalidationTimer is set
  pendingGen,   \* pendingGeneration of the pending kinds
  deferred,     \* there are deferred kinds
  chain,        \* bursts waiting on the reload chain
  drain,        \* the burst whose turn it is, and the await its reload is at
  call,         \* the calls of reloadAndScan
  creating,     \* this.pending
  create,       \* the calls of createController
  mut,          \* the mutation and its reread of the project
  mutations,    \* how many began
  gitWatched,   \* gitHeadWatcher was installed
  headGen,      \* BranchChangeCoordinator.generation
  headPending,  \* BranchChangeCoordinator.pending
  headTimer,    \* BranchChangeCoordinator.timer is set
  recon,        \* reconcileAfterGitHeadChange, while BranchChangeCoordinator runs
  noticed,      \* history: events the panel was told of
  answered,     \* history: how many of them it has answered: shown a project
                \* read after them, or tried to in vain
  raced         \* history: createController went on beside another load

panel == <<selected, controller, watched, reloadGen>>
bursts == <<pendingGen, deferred>>
files == <<timer, bursts, chain, drain>>
creation == <<creating, create>>
mutation == <<mut, mutations>>
head == <<headGen, headPending, headTimer, recon>>
events == <<noticed, answered, raced>>
vars == <<panel, files, call, creation, mutation, gitWatched, head, events>>

Await(stage, gen, cand, seen) ==
  [stage |-> stage, gen |-> gen, cand |-> cand, seen |-> seen]
\* At a stage whose generation, project and age do not matter
At(stage) == Await(stage, NoGen, NoProject, 0)
Inactive == At("none")
NoCall == [work |-> Inactive, same |-> FALSE, by |-> "user"]
Returned == [NoCall EXCEPT !.work = At("done")]

Init ==
  /\ selected = NoProject /\ controller = NoProject /\ watched = NoProject
  /\ reloadGen = 1
  /\ timer = FALSE /\ pendingGen = NoGen /\ deferred = FALSE
  /\ chain = <<>> /\ drain = [work |-> Inactive, by |-> Nobody]
  /\ call = [c \in Calls |-> NoCall]
  /\ creating = NoCreate /\ create = [k \in Creates |-> Inactive]
  /\ mut = Inactive /\ mutations = 0
  /\ gitWatched = FALSE
  /\ headGen = 0 /\ headPending = FALSE /\ headTimer = FALSE
  /\ recon = [stage |-> "idle", gen |-> 0]
  /\ noticed = 0 /\ answered = 0 /\ raced = FALSE

-----------------------------------------------------------------------------
busy == mut.stage # "none"

\* FileChangeCoordinator.discardPending
Discard == pendingGen' = NoGen /\ deferred' = FALSE

\* setupFileWatchers: the watchers of p, without the old ones' debounce timer
WatchFiles(p) == watched' = p /\ timer' = FALSE /\ gitWatched' = TRUE

Answer(n) == answered' = IF n > answered THEN n ELSE answered

\* clearCurrentProjectForBranch: an error instead of a project
ClearProject ==
  /\ reloadGen' = reloadGen + 1
  /\ Discard
  /\ controller' = NoProject /\ selected' = NoProject /\ creating' = NoCreate
  /\ watched' = NoProject /\ timer' = FALSE
  /\ answered' = noticed

-----------------------------------------------------------------------------
(* FileChangeCoordinator and reloadAfterFileChange *)

\* onWatchedFileEvent: a pending HEAD supersedes file events; otherwise notify,
\* and the debounce timer starts over.
FileEvent ==
  /\ watched # NoProject /\ noticed < MaxEvents
  /\ noticed' = noticed + 1
  /\ \/ headPending /\ UNCHANGED <<timer, pendingGen>>
     \/ /\ ~headPending
        /\ timer' = TRUE
        /\ pendingGen' = IF pendingGen = NoGen THEN reloadGen ELSE pendingGen
  /\ UNCHANGED <<panel, deferred, chain, drain, call, creation, mutation, gitWatched,
                 head, answered, raced>>

\* flush: what is pending joins the reload chain.
Enqueue(gen, by) == chain' = Append(chain, [gen |-> gen, by |-> by])

\* Slip: a flush of nothing is a burst too.
DebounceFlushesNothing ==
  /\ timer /\ timer' = FALSE
  /\ Enqueue(pendingGen, Nobody) /\ pendingGen' = NoGen
  /\ UNCHANGED <<panel, deferred, drain, call, creation, mutation, gitWatched, head,
                 events>>

DebounceEnds ==
  /\ timer /\ timer' = FALSE
  /\ \/ pendingGen = NoGen /\ UNCHANGED <<pendingGen, chain>>
     \/ pendingGen # NoGen /\ Enqueue(pendingGen, Nobody) /\ pendingGen' = NoGen
  /\ UNCHANGED <<panel, deferred, drain, call, creation, mutation, gitWatched, head,
                 events>>

\* One turn of runAndDrain's loop for a burst of generation gen: it is reloaded,
\* deferred behind the mutation, or skipped because the panel has moved on.
Reloads(gen) == gen = reloadGen /\ ~busy /\ selected # NoProject /\ controller # NoProject
Defers(gen) == gen = reloadGen /\ busy

StartReading(gen, by) ==
  /\ drain' = [work |-> Await("reading", gen, selected, noticed), by |-> by]
  /\ UNCHANGED <<call, headTimer>>

\* runAndDrain returns: whoever awaits the burst goes on, a release with
\* mutationReleased.
Settle(by) ==
  /\ drain' = [work |-> Inactive, by |-> Nobody]
  /\ call' = IF by \in Calls THEN [call EXCEPT ![by] = Returned] ELSE call
  /\ headTimer' = (headTimer \/ (by = Releaser /\ headPending))

\* Slip: nothing but the burst itself is reloaded.
TakeOneTurn(gen, by) ==
  \/ Reloads(gen) /\ StartReading(gen, by) /\ UNCHANGED bursts
  \/ /\ ~Reloads(gen)
     /\ deferred' = (deferred \/ Defers(gen))
     /\ Settle(by)
     /\ UNCHANGED pendingGen

\* The loop: the burst itself, then whatever is pending by now.
TakeTurns(gen, by) ==
  \/ Reloads(gen) /\ StartReading(gen, by) /\ UNCHANGED bursts
  \/ /\ ~Reloads(gen)
     /\ deferred' = (deferred \/ Defers(gen) \/ Defers(pendingGen))
     /\ pendingGen' = NoGen
     /\ \/ Reloads(pendingGen) /\ StartReading(pendingGen, by)
        \/ ~Reloads(pendingGen) /\ Settle(by)

StartDrain ==
  /\ drain.work = Inactive /\ chain # <<>>
  /\ chain' = Tail(chain)
  /\ TakeTurns(Head(chain).gen, Head(chain).by)
  /\ UNCHANGED <<panel, timer, creation, mutation, gitWatched, headGen, headPending,
                 recon, events>>

\* The panel has not moved on since the reload began.
Current == drain.work.gen = reloadGen /\ drain.work.cand = selected

\* reloadControllerFromDisk: superseded, or its read failed and the last good
\* project stays, or its snapshot replaces the controller's and is scanned.
DrainSuperseded ==
  /\ drain.work.stage = "reading" /\ ~Current
  /\ TakeTurns(NoGen, drain.by)
  /\ UNCHANGED <<panel, timer, chain, creation, mutation, gitWatched, headGen,
                 headPending, recon, events>>

DrainFails ==
  /\ drain.work.stage = "reading" /\ Current
  /\ Answer(drain.work.seen)
  /\ TakeTurns(NoGen, drain.by)
  /\ UNCHANGED <<panel, timer, chain, creation, mutation, gitWatched, headGen,
                 headPending, recon, noticed, raced>>

DrainRead ==
  /\ drain.work.stage = "reading" /\ Current
  /\ Answer(drain.work.seen)
  /\ controller' = drain.work.cand
  /\ drain' = [drain EXCEPT !.work.stage = "scanning"]
  /\ UNCHANGED <<selected, watched, reloadGen, timer, bursts, chain, call, creation,
                 mutation, gitWatched, head, noticed, raced>>

\* Slip: what the scan was for is not compared again after it.
DrainScannedBlindly ==
  /\ drain.work.stage = "scanning"
  /\ WatchFiles(drain.work.cand)
  /\ TakeTurns(NoGen, drain.by)
  /\ UNCHANGED <<selected, controller, reloadGen, chain, creation, mutation, headGen,
                 headPending, recon, events>>

DrainScanned ==
  /\ drain.work.stage = "scanning"
  /\ \/ Current /\ WatchFiles(drain.work.cand)
     \/ ~Current /\ UNCHANGED <<watched, timer, gitWatched>>
  /\ TakeTurns(NoGen, drain.by)
  /\ UNCHANGED <<selected, controller, reloadGen, chain, creation, mutation, headGen,
                 headPending, recon, events>>

-----------------------------------------------------------------------------
(* reloadAndScan *)

\* Up to its first await.
StartCall(c, p, who) ==
  /\ call[c].work = Inactive /\ \A d \in 1 .. c - 1 : call[d].work # Inactive
  /\ reloadGen' = reloadGen + 1
  /\ Discard
  /\ call' = [call EXCEPT ![c] = [work |-> Await("loading", reloadGen + 1, p, noticed),
                                  same |-> selected = p, by |-> who]]

\* The refresh message, refused during a mutation.
Refresh(c) ==
  /\ selected # NoProject /\ ~busy
  /\ StartCall(c, selected, "user")
  /\ UNCHANGED <<selected, controller, watched, timer, chain, drain, creation, mutation,
                 gitWatched, head, events>>

\* changeProject, from its last check on.
ChangeProject(c, p) ==
  /\ ~busy
  /\ StartCall(c, p, "user")
  /\ UNCHANGED <<selected, controller, watched, timer, chain, drain, creation, mutation,
                 gitWatched, head, events>>

Superseded(c) == call[c].work.gen # reloadGen
CallTo(c, stage) == call' = [call EXCEPT ![c].work.stage = stage]
CallReturns(c) == call' = [call EXCEPT ![c] = Returned]

\* Loaded or not, somebody else reloads by now.
CallSuperseded(c) ==
  /\ call[c].work.stage \in {"loading", "scanning"} /\ Superseded(c)
  /\ CallReturns(c)
  /\ UNCHANGED <<panel, files, creation, mutation, gitWatched, head, events>>

\* The project cannot be read: an error is shown.
CallFails(c) ==
  /\ call[c].work.stage = "loading" /\ ~Superseded(c)
  /\ CallReturns(c)
  /\ \/ call[c].by = "head" /\ ClearProject
     \/ /\ call[c].by # "head"
        /\ Answer(call[c].work.seen)
        /\ UNCHANGED <<panel, timer, bursts, creating>>
  /\ UNCHANGED <<chain, drain, create, mutation, gitWatched, head, noticed, raced>>

\* The project is shown and watched.  What the old project's watchers reported
\* meanwhile is dropped with it.
CallLoads(c) ==
  /\ call[c].work.stage = "loading" /\ ~Superseded(c)
  /\ CallTo(c, "scanning")
  /\ selected' = call[c].work.cand /\ controller' = call[c].work.cand
  /\ WatchFiles(call[c].work.cand)
  /\ \/ call[c].same /\ Answer(call[c].work.seen) /\ UNCHANGED bursts
     \/ ~call[c].same /\ answered' = noticed /\ Discard
  /\ UNCHANGED <<reloadGen, chain, drain, creation, mutation, head, noticed, raced>>

\* The scan is over: what the new watchers reported meanwhile is flushed.
CallScanned(c) ==
  /\ call[c].work.stage = "scanning" /\ ~Superseded(c)
  /\ \/ pendingGen = NoGen /\ CallReturns(c) /\ UNCHANGED <<pendingGen, chain>>
     \/ /\ pendingGen # NoGen
        /\ Enqueue(pendingGen, c) /\ pendingGen' = NoGen
        /\ call' = [call EXCEPT ![c].work = At("flushing")]
  /\ UNCHANGED <<panel, timer, deferred, drain, creation, mutation, gitWatched, head,
                 events>>

-----------------------------------------------------------------------------
(* ensureController and createController *)

\* The ready message, without a controller: one creation at a time.
Ready(k) ==
  /\ controller = NoProject /\ creating = NoCreate
  /\ create[k] = Inactive /\ \A j \in 1 .. k - 1 : create[j] # Inactive
  /\ creating' = k
  /\ create' = [create EXCEPT ![k] = Await("selecting", reloadGen, NoProject, 0)]
  /\ UNCHANGED <<panel, files, call, mutation, gitWatched, head, events>>

\* Another load of the panel is ahead of this one, or under way: createController
\* looks at no generation, so it goes on all the same.  Two first loads meet when an
\* outdated one fails and takes the slot (this.pending) of its successor with it.
Overtakes(k) ==
  \/ create[k].gen # reloadGen \/ controller # NoProject
  \/ \E c \in Calls : call[c].work.stage \in {"loading", "scanning"} /\ ~Superseded(c)
  \/ \E j \in Creates \ {k} : create[j].stage = "loading"

\* A project is selected before it is loaded.
SelectProject(k, p) ==
  /\ create[k].stage = "selecting"
  /\ selected' = p
  /\ create' = [create EXCEPT ![k] = Await("loading", create[k].gen, p, noticed)]
  /\ raced' = (raced \/ Overtakes(k))
  /\ UNCHANGED <<controller, watched, reloadGen, files, call, creating, mutation,
                 gitWatched, head, noticed, answered>>

\* No project, none picked, or it cannot be read.
CreateFails(k) ==
  /\ create[k].stage \in {"selecting", "loading"}
  /\ create' = [create EXCEPT ![k] = At("done")]
  /\ creating' = NoCreate
  /\ Answer(create[k].seen)
  /\ UNCHANGED <<panel, files, call, mutation, gitWatched, head, noticed, raced>>

CreateLoads(k) ==
  /\ create[k].stage = "loading"
  /\ create' = [create EXCEPT ![k] = At("done")]
  /\ WatchFiles(create[k].cand) /\ controller' = create[k].cand
  /\ Answer(create[k].seen)
  /\ raced' = (raced \/ Overtakes(k))
  /\ UNCHANGED <<selected, reloadGen, bursts, chain, drain, call, creating, mutation,
                 head, noticed>>

-----------------------------------------------------------------------------
(* A mutation, its reread of the project and its release *)

MutTo(stage) == mut' = At(stage)

BeginMutation ==
  /\ ~busy /\ mutations < MaxMutations
  /\ selected # NoProject /\ controller # NoProject
  /\ MutTo("running") /\ mutations' = mutations + 1
  /\ UNCHANGED <<panel, files, call, creation, gitWatched, head, events>>

\* readAndApplyMutationLocalState, up to its await
Reread ==
  /\ mut.stage = "running"
  /\ selected # NoProject /\ controller # NoProject
  /\ reloadGen' = reloadGen + 1
  /\ Discard
  /\ mut' = Await("rereading", reloadGen + 1, selected, noticed)
  /\ UNCHANGED <<selected, controller, watched, timer, chain, drain, call, creation,
                 mutations, gitWatched, head, events>>

RereadCurrent == mut.gen = reloadGen /\ mut.cand = selected

RereadApplied ==
  /\ mut.stage = "rereading" /\ RereadCurrent
  /\ MutTo("reread")
  /\ controller' = mut.cand /\ WatchFiles(mut.cand)
  /\ Answer(mut.seen)
  /\ UNCHANGED <<selected, reloadGen, bursts, chain, drain, call, creation, mutations,
                 head, noticed, raced>>

\* Superseded, or not readable.
RereadFails ==
  /\ mut.stage = "rereading"
  /\ MutTo("unread")
  /\ \/ RereadCurrent /\ Answer(mut.seen)
     \/ ~RereadCurrent /\ UNCHANGED answered
  /\ UNCHANGED <<panel, files, call, creation, mutations, gitWatched, head, noticed,
                 raced>>

\* reloadFinalState, when nothing was reread
ReloadFinalState(c) ==
  /\ mut.stage \in {"running", "unread"} /\ selected # NoProject
  /\ StartCall(c, selected, "mutation")
  /\ MutTo("reloading")
  /\ UNCHANGED <<selected, controller, watched, timer, chain, drain, creation, mutations,
                 gitWatched, head, events>>

Finished(who) == \A c \in Calls : call[c].by = who => call[c].work.stage \in {"none", "done"}

\* The end of a release: flushAll merges what was kept into one burst, and
\* mutationReleased follows once that is reloaded, or at once without any.
FlushAll ==
  \/ /\ pendingGen = NoGen /\ ~deferred
     /\ headTimer' = (headTimer \/ headPending)
     /\ UNCHANGED <<bursts, chain>>
  \/ /\ pendingGen # NoGen \/ deferred
     /\ Enqueue(reloadGen, Releaser) /\ Discard
     /\ UNCHANGED headTimer

\* The busy flag is cleared first.
ReleaseMutation ==
  /\ \/ mut.stage \in {"running", "reread", "unread"}
     \/ mut.stage = "reloading" /\ Finished("mutation")
  /\ mut' = Inactive
  /\ FlushAll
  /\ UNCHANGED <<panel, timer, drain, call, creation, mutations, gitWatched, headGen,
                 headPending, recon, events>>

\* A review that changed nothing gives its reservation back.
ReleaseReview ==
  /\ ~busy
  /\ FlushAll
  /\ UNCHANGED <<panel, timer, drain, call, creation, mutation, gitWatched, headGen,
                 headPending, recon, events>>

-----------------------------------------------------------------------------
(* BranchChangeCoordinator and reconcileAfterGitHeadChange *)

\* onGitHeadChanged: everything read so far is superseded at once.
HeadChange ==
  /\ gitWatched /\ noticed < MaxEvents
  /\ noticed' = noticed + 1
  /\ reloadGen' = reloadGen + 1
  /\ Discard /\ timer' = FALSE
  /\ headGen' = headGen + 1 /\ headPending' = TRUE
  /\ headTimer' = (headTimer \/ ~busy)
  /\ UNCHANGED <<selected, controller, watched, chain, drain, call, creation, mutation,
                 gitWatched, recon, answered, raced>>

\* run: one reconciliation at a time, none during a mutation.
HeadTimerFires ==
  /\ headTimer /\ headTimer' = FALSE
  /\ recon' = IF headPending /\ ~busy /\ recon.stage = "idle"
                THEN [stage |-> "discovering", gen |-> headGen] ELSE recon
  /\ UNCHANGED <<panel, files, call, creation, mutation, gitWatched, headGen, headPending,
                 events>>

ReconIsCurrent == recon.gen = headGen

\* Slip: a newer HEAD is not rescheduled.
EndReconQuietly(stillPending) ==
  /\ recon' = [stage |-> "idle", gen |-> 0]
  /\ UNCHANGED headTimer

\* run's finally block: a newer HEAD is reconciled next.
EndRecon(stillPending) ==
  /\ recon' = [stage |-> "idle", gen |-> 0]
  /\ headTimer' = (headTimer \/ (stillPending /\ ~ReconIsCurrent))

\* The candidates are known but a mutation has begun, or the HEAD is not the
\* last one: nothing is claimed.
ReconGivesUp ==
  /\ recon.stage = "discovering" /\ (busy \/ ~ReconIsCurrent)
  /\ EndRecon(headPending)
  /\ UNCHANGED <<panel, files, call, creation, mutation, gitWatched, headGen, headPending,
                 events>>

Claims == recon.stage = "discovering" /\ ~busy /\ ReconIsCurrent /\ headPending' = FALSE

\* Discovery failed or found nothing.
ReconFindsNothing ==
  /\ Claims
  /\ ClearProject
  /\ EndRecon(FALSE)
  /\ UNCHANGED <<chain, drain, call, create, mutation, gitWatched, headGen, noticed,
                 raced>>

ReconAsks ==
  /\ Claims
  /\ ClearProject
  /\ recon' = [recon EXCEPT !.stage = "picking"]
  /\ UNCHANGED <<chain, drain, call, create, mutation, gitWatched, headGen, headTimer,
                 noticed, raced>>

ReconReloads(c, p) ==
  /\ StartCall(c, p, "head")
  /\ recon' = [recon EXCEPT !.stage = "reloading"]
  /\ UNCHANGED <<selected, controller, watched, timer, chain, drain, creation, mutation,
                 gitWatched, headGen, headTimer, events>>

\* The previous project is still there, or the only one is taken.
ReconKeeps(c, p) ==
  /\ Claims
  /\ ReconReloads(c, p)

\* The picker answered after a newer HEAD or with nothing.
PickedNothing ==
  /\ recon.stage = "picking" /\ ~busy
  /\ EndRecon(headPending)
  /\ UNCHANGED <<panel, files, call, creation, mutation, gitWatched, headGen, headPending,
                 events>>

\* deferClaimed: the mutation's release will look at the HEAD again.
PickedDuringMutation ==
  /\ recon.stage = "picking" /\ busy
  /\ headPending' = (headPending \/ ReconIsCurrent)
  /\ EndRecon(headPending)
  /\ UNCHANGED <<panel, files, call, creation, mutation, gitWatched, headGen, events>>

PickedProject(c, p) ==
  /\ recon.stage = "picking" /\ ~busy /\ ReconIsCurrent
  /\ ReconReloads(c, p)
  /\ UNCHANGED headPending

ReconDone ==
  /\ recon.stage = "reloading" /\ Finished("head")
  /\ EndRecon(headPending)
  /\ UNCHANGED <<panel, files, call, creation, mutation, gitWatched, headGen, headPending,
                 events>>

-----------------------------------------------------------------------------
DrainStep == StartDrain \/ DrainSuperseded \/ DrainFails \/ DrainRead \/ DrainScanned
CallStep(c) == CallSuperseded(c) \/ CallFails(c) \/ CallLoads(c) \/ CallScanned(c)
CreateStep(k) == (\E p \in Projects : SelectProject(k, p)) \/ CreateFails(k) \/ CreateLoads(k)
RereadStep == RereadApplied \/ RereadFails
ReconStep ==
  \/ ReconGivesUp \/ ReconFindsNothing \/ ReconAsks \/ ReconDone
  \/ \E c \in Calls, p \in Projects : ReconKeeps(c, p)

Requests ==
  \/ \E c \in Calls : Refresh(c) \/ (\E p \in Projects : ChangeProject(c, p))
  \/ \E k \in Creates : Ready(k)
  \/ BeginMutation \/ Reread \/ ReleaseMutation \/ ReleaseReview
  \/ \E c \in Calls : ReloadFinalState(c)
  \/ PickedNothing \/ PickedDuringMutation
  \/ \E c \in Calls, p \in Projects : PickedProject(c, p)

Next ==
  \/ FileEvent \/ HeadChange \/ Requests
  \/ DebounceEnds \/ DrainStep
  \/ (\E c \in Calls : CallStep(c)) \/ (\E k \in Creates : CreateStep(k))
  \/ RereadStep \/ HeadTimerFires \/ ReconStep

Spec == Init /\ [][Next]_vars

\* A new HEAD cancels the picker of an older one.
PickerCancelled == ~ReconIsCurrent /\ (PickedNothing \/ PickedDuringMutation)

\* Timers fire, reads and scans end, and so does discovery (requests have
\* timeouts).  A mutation, a picker and a first load may wait for their user.
FairSpec ==
  /\ Spec
  /\ WF_vars(DebounceEnds) /\ WF_vars(HeadTimerFires)
  /\ WF_vars(DrainStep)
  /\ \A c \in Calls : WF_vars(CallStep(c))
  /\ WF_vars(ReconStep \/ PickerCancelled)

-----------------------------------------------------------------------------
(* What the panel promises *)

AwaitType ==
  [stage : {"none", "selecting", "loading", "reading", "scanning", "flushing", "done",
            "running", "rereading", "reread", "unread", "reloading"},
   gen : Nat, cand : Projects \cup {NoProject}, seen : 0 .. MaxEvents]

\* Every variable keeps its type; a burst on the chain has a generation the panel
\* has reached.
TypeOK ==
  /\ {selected, controller, watched} \subseteq Projects \cup {NoProject}
  /\ reloadGen \in Nat \ {0}
  /\ timer \in BOOLEAN /\ pendingGen \in 0 .. reloadGen /\ deferred \in BOOLEAN
  /\ chain \in Seq([gen : 1 .. reloadGen, by : 0 .. NCalls + 1])
  /\ drain \in [work : AwaitType, by : 0 .. NCalls + 1]
  /\ call \in [Calls -> [work : AwaitType, same : BOOLEAN, by : {"user", "mutation", "head"}]]
  /\ creating \in Creates \cup {NoCreate} /\ create \in [Creates -> AwaitType]
  /\ mut \in AwaitType /\ mutations \in 0 .. MaxMutations
  /\ gitWatched \in BOOLEAN
  /\ headGen \in 0 .. MaxEvents /\ headPending \in BOOLEAN /\ headTimer \in BOOLEAN
  /\ recon \in [stage : {"idle", "discovering", "picking", "reloading"}, gen : 0 .. MaxEvents]
  /\ noticed \in 0 .. MaxEvents /\ answered \in 0 .. MaxEvents /\ raced \in BOOLEAN

\* dashboardPanel.ts:1426 "so watchers always track the currently selected
\* project's actual files": once no first load is under way, the files that are
\* watched are those of the selected project.
WatchersTrackSelection ==
  controller # NoProject /\ (\A k \in Creates : create[k].stage # "loading") =>
    watched = selected

\* As long as no first load goes on after it was superseded, what is shown is the
\* selected project, and its files are the watched ones.
ShownIsSelected ==
  ~raced /\ controller # NoProject => controller = selected /\ watched = selected

\* Whatever waits has somebody who will take it up, although timers, bursts and reloads supersede
\* and cancel one another.  A file event that is pending: its timer, the reload chain, a reload
\* that has not flushed yet, or a release; a deferred one: the mutation it was deferred behind; a
\* HEAD: a timer, a reconciliation that will notice it, a mutation or its release.
NothingWaitsAlone ==
  /\ pendingGen # NoGen =>
       \/ timer \/ chain # <<>> \/ drain.work # Inactive \/ busy \/ raced
       \/ \E c \in Calls : call[c].work.stage \in {"loading", "scanning"} /\ ~Superseded(c)
  /\ deferred => busy
  /\ headPending =>
       \/ headTimer \/ busy
       \/ recon.stage # "idle" /\ (recon.stage = "discovering" \/ ~ReconIsCurrent)
       \/ drain.by = Releaser \/ \E i \in 1 .. Len(chain) : chain[i].by = Releaser

\* Nothing is under way.
Quiet ==
  /\ ~timer /\ chain = <<>> /\ drain.work = Inactive /\ ~busy
  /\ \A c \in Calls : call[c].work.stage \in {"none", "done"}
  /\ \A k \in Creates : create[k].stage \in {"none", "done"}
  /\ ~headTimer /\ recon.stage = "idle"

\* When the panel comes to rest, every event it was told of has been answered by
\* a reload that began after it: none was lost to a project switch, a mutation, a
\* superseded or failed reload, a new HEAD or a cancelled timer.
NoEventLost ==
  Quiet /\ ~raced =>
    noticed = answered /\ pendingGen = NoGen /\ ~deferred /\ ~headPending

\* Every event is answered in the end, unless a mutation does not end.
EventsAnswered ==
  noticed > answered ~> (noticed = answered \/ busy \/ raced)
=============================================================================
