-------------------------- MODULE PanelReloadProofs --------------------------
(***************************************************************************)
(* Safety of the panel's reloads for every set of projects and any number  *)
(* of reloads, first loads, events and mutations.                          *)
(***************************************************************************)
EXTENDS PanelReload, SequenceTheorems, TLAPS

(* The inductive invariant.                                                *)

Stages == {"none", "selecting", "loading", "reading", "scanning", "flushing", "done",
           "running", "rereading", "reread", "unread", "reloading"}
CallType == [work : AwaitType, same : BOOLEAN, by : {"user", "mutation", "head"}]
MaybeProject == Projects \cup {NoProject}
Bursts(n) == [gen : 1 .. n, by : 0 .. NCalls + 1]

\* TypeOK part by part, with what is pending pending for this generation.
PanelOK == selected \in MaybeProject /\ controller \in MaybeProject /\ watched \in MaybeProject
NumbersOK == reloadGen \in Nat \ {0} /\ noticed \in 0 .. MaxEvents
DrainOK == drain \in [work : AwaitType, by : 0 .. NCalls + 1]
CallOK == call \in [Calls -> CallType]
CreateOK == creating \in Creates \cup {NoCreate} /\ create \in [Creates -> AwaitType]
MutOK == mut \in AwaitType
ChainOK == chain \in Seq(Bursts(reloadGen))
PendingOK == pendingGen \in {NoGen, reloadGen}
FlagsOK ==
  /\ timer \in BOOLEAN /\ deferred \in BOOLEAN /\ gitWatched \in BOOLEAN
  /\ headPending \in BOOLEAN /\ headTimer \in BOOLEAN /\ raced \in BOOLEAN
RestOK ==
  /\ mutations \in 0 .. MaxMutations
  /\ headGen \in 0 .. MaxEvents /\ answered \in 0 .. MaxEvents
  /\ recon \in [stage : {"idle", "discovering", "picking", "reloading"}, gen : 0 .. MaxEvents]

TypesOK ==
  /\ PanelOK /\ NumbersOK /\ DrainOK /\ CallOK /\ CreateOK /\ MutOK /\ ChainOK /\ PendingOK
  /\ FlagsOK /\ RestOK

\* Events are counted up, and nothing is answered, or read, after later ones.
EventsCounted ==
  /\ headGen <= noticed /\ answered <= noticed
  /\ drain.work.seen <= noticed /\ mut.seen <= noticed
  /\ \A c \in Calls : call[c].work.seen <= noticed
  /\ \A k \in Creates : create[k].seen <= noticed

\* So are generations: nothing is of a later one.
GensReached ==
  /\ recon.gen <= headGen
  /\ drain.work.gen <= reloadGen /\ mut.gen <= reloadGen
  /\ \A c \in Calls : call[c].work.gen <= reloadGen
  /\ \A k \in Creates : create[k].gen <= reloadGen

\* Who is about to show a project has one.
CandidatesKnown ==
  /\ drain.work.stage \in {"reading", "scanning"} => drain.work.cand \in Projects
  /\ mut.stage = "rereading" => mut.cand \in Projects
  /\ \A c \in Calls : call[c].work.stage \in {"loading", "scanning"} => call[c].work.cand \in Projects
  /\ \A k \in Creates : create[k].stage = "loading" => create[k].cand \in Projects

\* One reload is unsuperseded at a time.
OneCallLeads ==
  \A c, d \in Calls :
    /\ call[c].work.stage \in {"loading", "scanning"} /\ ~Superseded(c)
    /\ call[d].work.stage \in {"loading", "scanning"} /\ ~Superseded(d)
    => c = d

\* A reread of the files that nothing has superseded is of a project that is shown.
RereadsAreOfShown ==
  ~raced =>
    /\ drain.work.stage \in {"reading", "scanning"} /\ drain.work.gen = reloadGen =>
         controller # NoProject
    /\ mut.stage = "rereading" /\ mut.gen = reloadGen => controller # NoProject

\* A reload that began with the selected project still has it when it ends.
SameStays ==
  ~raced =>
    \A c \in Calls :
      call[c].work.stage = "loading" /\ ~Superseded(c) /\ call[c].same => selected = call[c].work.cand

\* A first load that is ahead of everybody has selected what it loads.
FirstLoadSelected ==
  ~raced /\ controller = NoProject =>
    \A k \in Creates :
      create[k].stage = "loading" /\ create[k].gen = reloadGen => selected = create[k].cand

\* A burst on the reload chain will be reloaded or deferred, not skipped.
OwedOnChain == \E i \in 1 .. Len(chain) : chain[i].gen = reloadGen

\* Without a project nothing is watched and nothing is owed.
NothingShownNothingOwed ==
  ~raced /\ controller = NoProject =>
    /\ watched = NoProject /\ pendingGen = NoGen /\ ~timer /\ ~deferred
    /\ ~OwedOnChain

ShownInv ==
  /\ RereadsAreOfShown /\ SameStays /\ FirstLoadSelected /\ NothingShownNothingOwed /\ ShownIsSelected

\* Who would flush a pending file event if its timer was cancelled.
PendingIsFlushed ==
  pendingGen # NoGen =>
    \/ timer \/ chain # <<>> \/ drain.work # Inactive \/ busy \/ raced
    \/ \E c \in Calls : call[c].work.stage = "scanning" /\ ~Superseded(c)

\* What is deferred has a mutation to wait for.
DeferredWaits == deferred => busy

\* Nobody awaits a drain that is over, and a claimed HEAD is not pending.
HeadIsClaimed ==
  /\ drain.work = Inactive => drain.by = Nobody
  /\ recon.stage \in {"picking", "reloading"} /\ ReconIsCurrent => ~headPending

\* The release of a mutation, or a call, awaits a burst on the reload chain.
Awaits(who) == \E i \in 1 .. Len(chain) : chain[i].by = who

\* Who would take up a pending HEAD.
HeadIsAwaited ==
  headPending =>
    \/ headTimer \/ busy
    \/ recon.stage # "idle" /\ (recon.stage = "discovering" \/ ~ReconIsCurrent)
    \/ drain.by = Releaser \/ Awaits(Releaser)

WaitInv == PendingIsFlushed /\ DeferredWaits /\ HeadIsClaimed /\ HeadIsAwaited

\* A call that awaits a burst has no reload left to do.
AwaitersFlush ==
  \A c \in Calls :
    drain.by = c \/ Awaits(c) => call[c].work.stage \in {"flushing", "done"}

\* Something that is under way, or waits, reads the files after the last event.
LastEventIsCovered ==
  ~raced /\ noticed # answered =>
    \/ headPending \/ deferred \/ pendingGen # NoGen
    \/ OwedOnChain
    \/ drain.work.stage = "reading" /\ Current /\ drain.work.seen = noticed
    \/ mut.stage = "rereading" /\ RereadCurrent /\ mut.seen = noticed
    \/ \E c \in Calls : call[c].work.stage = "loading" /\ ~Superseded(c) /\ call[c].work.seen = noticed

IInv ==
  /\ TypesOK /\ EventsCounted /\ GensReached /\ CandidatesKnown /\ OneCallLeads
  /\ ShownInv /\ WaitInv /\ AwaitersFlush /\ LastEventIsCovered

-----------------------------------------------------------------------------
(* Types.                                                                  *)

\* The bounds are natural numbers.
LEMMA Bounds == NCalls \in Nat /\ NCreates \in Nat /\ MaxEvents \in Nat /\ MaxMutations \in Nat
  BY BoundsAssumption

\* Whatever is awaited, at any stage of it, has the type of an await.
LEMMA AwaitTypes ==
  /\ \A stage \in Stages, gen \in Nat, cand \in MaybeProject, seen \in 0 .. MaxEvents :
       Await(stage, gen, cand, seen) \in AwaitType
  /\ \A stage \in Stages : At(stage) \in AwaitType
  /\ \A w \in AwaitType :
       /\ w.gen \in Nat /\ w.cand \in MaybeProject /\ w.seen \in 0 .. MaxEvents /\ w.stage \in Stages
       /\ \A stage \in Stages : [w EXCEPT !.stage = stage] \in AwaitType
<1>. USE Bounds DEF Stages, AwaitType, Await, At, NoGen, MaybeProject
<1>1. \A stage \in Stages, gen \in Nat, cand \in MaybeProject, seen \in 0 .. MaxEvents :
       Await(stage, gen, cand, seen) \in AwaitType
  OBVIOUS
<1>2. \A stage \in Stages : At(stage) \in AwaitType
  OBVIOUS
<1>3. \A w \in AwaitType :
       /\ w.gen \in Nat /\ w.cand \in MaybeProject /\ w.seen \in 0 .. MaxEvents /\ w.stage \in Stages
       /\ \A stage \in Stages : [w EXCEPT !.stage = stage] \in AwaitType
  OBVIOUS
<1>. QED
  BY <1>1, <1>2, <1>3

\* A call that begins, moves on or returns has the type of a call.
LEMMA CallTypes ==
  /\ \A w \in AwaitType, p \in MaybeProject, who \in {"user", "mutation", "head"} :
       [work |-> w, same |-> selected = p, by |-> who] \in CallType
  /\ NoCall \in CallType /\ Returned \in CallType
  /\ \A r \in CallType :
       r.work \in AwaitType /\ r.same \in BOOLEAN /\ r.by \in {"user", "mutation", "head"}
  /\ \A r \in CallType, w \in AwaitType : [r EXCEPT !.work = w] \in CallType
<1>1. \A p \in MaybeProject : (selected = p) \in BOOLEAN
  OBVIOUS
<1>2. Inactive \in AwaitType /\ At("done") \in AwaitType
  BY AwaitTypes DEF Inactive, Stages
<1>3. \A w \in AwaitType, p \in MaybeProject, who \in {"user", "mutation", "head"} :
       [work |-> w, same |-> selected = p, by |-> who] \in CallType
  BY <1>1 DEF CallType
<1>4. NoCall \in CallType /\ Returned \in CallType
  BY <1>2 DEF CallType, NoCall, Returned
<1>5. \A r \in CallType :
        r.work \in AwaitType /\ r.same \in BOOLEAN /\ r.by \in {"user", "mutation", "head"}
  BY DEF CallType
<1>6. \A r \in CallType, w \in AwaitType : [r EXCEPT !.work = w] \in CallType
  BY DEF CallType
<1>. QED
  BY <1>3, <1>4, <1>5, <1>6

\* What begins now is an await.
LEMMA NewAwaits ==
  ASSUME NumbersOK, NEW stage \in Stages, NEW cand \in MaybeProject
  PROVE  /\ Await(stage, reloadGen + 1, cand, noticed) \in AwaitType
         /\ Await(stage, reloadGen, cand, noticed) \in AwaitType
         /\ Await(stage, reloadGen, NoProject, 0) \in AwaitType
<1>1. reloadGen \in Nat /\ reloadGen + 1 \in Nat /\ noticed \in 0 .. MaxEvents /\ 0 \in 0 .. MaxEvents
  BY Bounds DEF NumbersOK
<1>2. NoProject \in MaybeProject
  BY DEF MaybeProject
<1>. QED
  BY <1>1, <1>2, AwaitTypes

\* A mutation keeps its type.
LEMMA MutTypeStep == MutOK /\ PanelOK /\ NumbersOK /\ [Next]_vars => MutOK'
<1>. SUFFICES ASSUME MutOK, PanelOK, NumbersOK, [Next]_vars PROVE MutOK'
  OBVIOUS
<1>. USE NewAwaits, AwaitTypes
<1>. USE DEF MutOK, PanelOK, Stages, Inactive, panel, bursts, files, creation, mutation, head,
  events
<1>1. CASE BeginMutation
  BY <1>1 DEF BeginMutation, MutTo
<1>2. CASE Reread
  BY <1>2 DEF Reread, Discard
<1>3. ASSUME NEW c \in Calls, ReloadFinalState(c) PROVE MutOK'
  BY <1>3 DEF ReloadFinalState, StartCall, Discard, MutTo
<1>4. CASE ReleaseMutation
  BY <1>4 DEF ReleaseMutation, FlushAll, Enqueue, Discard
<1>5. CASE RereadApplied
  BY <1>5 DEF RereadApplied, MutTo, WatchFiles, Answer
<1>6. CASE RereadFails
  BY <1>6 DEF RereadFails, MutTo, Answer
<1>7. CASE FileEvent \/ HeadChange \/ (\E c \in Calls : Refresh(c)) \/
         (\E c \in Calls, p \in Projects : ChangeProject(c, p)) \/ (\E k \in Creates : Ready(k)) \/
         ReleaseReview \/ PickedNothing \/ PickedDuringMutation \/
         (\E c \in Calls, p \in Projects : PickedProject(c, p)) \/ DebounceEnds \/ StartDrain \/
         DrainSuperseded \/ DrainFails \/ DrainRead \/ DrainScanned \/
         (\E c \in Calls : CallSuperseded(c)) \/ (\E c \in Calls : CallFails(c)) \/
         (\E c \in Calls : CallLoads(c)) \/ (\E c \in Calls : CallScanned(c)) \/
         (\E k \in Creates, p \in Projects : SelectProject(k, p)) \/
         (\E k \in Creates : CreateFails(k)) \/ (\E k \in Creates : CreateLoads(k)) \/
         HeadTimerFires \/ ReconGivesUp \/ ReconFindsNothing \/ ReconAsks \/
         (\E c \in Calls, p \in Projects : ReconKeeps(c, p)) \/ ReconDone
  BY <1>7 DEF FileEvent, HeadChange, Discard, Refresh, StartCall, ChangeProject, Ready,
    ReleaseReview, FlushAll, Enqueue, PickedNothing, EndRecon, PickedDuringMutation, PickedProject,
    ReconReloads, DebounceEnds, StartDrain, TakeTurns, StartReading, Settle, DrainSuperseded,
    DrainFails, Answer, DrainRead, DrainScanned, WatchFiles, CallSuperseded, CallReturns,
    CallFails, ClearProject, CallLoads, CallTo, CallScanned, SelectProject, CreateFails,
    CreateLoads, HeadTimerFires, ReconGivesUp, ReconFindsNothing, Claims, ReconAsks, ReconKeeps,
    ReconDone
<1>8. CASE UNCHANGED vars
  BY <1>8 DEF vars
<1>. QED
  BY <1>1, <1>2, <1>3, <1>4, <1>5, <1>6, <1>7, <1>8 DEF Next, Requests, DrainStep, CallStep,
    CreateStep, RereadStep, ReconStep

\* The first loads keep their types.
LEMMA CreateTypeStep == CreateOK /\ PanelOK /\ NumbersOK /\ [Next]_vars => CreateOK'
<1>. SUFFICES ASSUME CreateOK, PanelOK, NumbersOK, [Next]_vars PROVE CreateOK'
  OBVIOUS
<1>. USE NewAwaits, AwaitTypes
<1>. USE DEF CreateOK, PanelOK, Stages, Creates, NoCreate, panel, bursts, files, creation,
  mutation, head, events
<1>1. ASSUME NEW k \in Creates, NEW p \in Projects, SelectProject(k, p) PROVE CreateOK'
  BY <1>1 DEF SelectProject, MaybeProject, NumbersOK
<1>2. ASSUME NEW k \in Creates, CreateFails(k) PROVE CreateOK'
  BY <1>2 DEF CreateFails, Answer, MaybeProject, NumbersOK
<1>3. ASSUME NEW k \in Creates, CreateLoads(k) PROVE CreateOK'
  BY <1>3 DEF CreateLoads, WatchFiles, Answer, MaybeProject, NumbersOK
<1>4. ASSUME NEW k \in Creates, Ready(k) PROVE CreateOK'
  <2>1. Await("selecting", reloadGen, NoProject, 0) \in AwaitType
    BY DEF MaybeProject
  <2>. QED
    BY <1>4, <2>1 DEF Ready
<1>5. CASE FileEvent \/ HeadChange \/ (\E c \in Calls : Refresh(c)) \/
         (\E c \in Calls, p \in Projects : ChangeProject(c, p)) \/ BeginMutation \/ Reread \/
         ReleaseMutation \/ ReleaseReview \/ (\E c \in Calls : ReloadFinalState(c)) \/ PickedNothing \/
         PickedDuringMutation \/ (\E c \in Calls, p \in Projects : PickedProject(c, p)) \/
         DebounceEnds \/ StartDrain \/ DrainSuperseded \/ DrainFails \/ DrainRead \/ DrainScanned \/
         (\E c \in Calls : CallSuperseded(c)) \/ (\E c \in Calls : CallFails(c)) \/
         (\E c \in Calls : CallLoads(c)) \/ (\E c \in Calls : CallScanned(c)) \/ RereadApplied \/
         RereadFails \/ HeadTimerFires \/ ReconGivesUp \/ ReconFindsNothing \/ ReconAsks \/
         (\E c \in Calls, p \in Projects : ReconKeeps(c, p)) \/ ReconDone
  BY <1>5 DEF FileEvent, HeadChange, Discard, Refresh, StartCall, ChangeProject, BeginMutation,
    MutTo, Reread, ReleaseMutation, FlushAll, Enqueue, ReleaseReview, ReloadFinalState,
    PickedNothing, EndRecon, PickedDuringMutation, PickedProject, ReconReloads, DebounceEnds,
    StartDrain, TakeTurns, StartReading, Settle, DrainSuperseded, DrainFails, Answer, DrainRead,
    DrainScanned, WatchFiles, CallSuperseded, CallReturns, CallFails, ClearProject, CallLoads,
    CallTo, CallScanned, RereadApplied, RereadFails, HeadTimerFires, ReconGivesUp,
    ReconFindsNothing, Claims, ReconAsks, ReconKeeps, ReconDone, creation
<1>6. CASE UNCHANGED vars
  BY <1>6 DEF vars, creation
<1>. QED
  BY <1>1, <1>2, <1>3, <1>4, <1>5, <1>6 DEF Next, Requests, DrainStep, CallStep, CreateStep,
    RereadStep, ReconStep

\* What is selected, shown and watched is a project or none.
LEMMA PanelTypeStep == PanelOK /\ DrainOK /\ CallOK /\ CreateOK /\ MutOK /\ [Next]_vars => PanelOK'
<1>. SUFFICES ASSUME PanelOK, DrainOK, CallOK, CreateOK, MutOK, [Next]_vars PROVE PanelOK'
  OBVIOUS
<1>. USE AwaitTypes, CallTypes
<1>. USE DEF PanelOK, DrainOK, CallOK, CreateOK, MutOK, MaybeProject, panel, bursts, files,
  creation, mutation, head, events
<1>1. CASE DrainRead
  BY <1>1 DEF DrainRead, Answer, panel
<1>2. CASE DrainScanned
  BY <1>2 DEF DrainScanned, TakeTurns, StartReading, Settle, WatchFiles, panel
<1>3. ASSUME NEW c \in Calls, CallFails(c) PROVE PanelOK'
  BY <1>3 DEF CallFails, CallReturns, ClearProject, Discard, Answer, panel
<1>4. ASSUME NEW c \in Calls, CallLoads(c) PROVE PanelOK'
  BY <1>4 DEF CallLoads, CallTo, WatchFiles, Answer, Discard, panel
<1>5. ASSUME NEW k \in Creates, NEW p \in Projects, SelectProject(k, p) PROVE PanelOK'
  BY <1>5 DEF SelectProject, panel
<1>6. ASSUME NEW k \in Creates, CreateLoads(k) PROVE PanelOK'
  BY <1>6 DEF CreateLoads, WatchFiles, Answer, panel
<1>7. CASE RereadApplied
  BY <1>7 DEF RereadApplied, MutTo, WatchFiles, Answer, panel
<1>8. CASE ReconFindsNothing
  BY <1>8 DEF ReconFindsNothing, Claims, ClearProject, Discard, EndRecon, panel
<1>9. CASE ReconAsks
  BY <1>9 DEF ReconAsks, Claims, ClearProject, Discard, panel
<1>10. CASE FileEvent \/ HeadChange \/ (\E c \in Calls : Refresh(c)) \/
         (\E c \in Calls, p \in Projects : ChangeProject(c, p)) \/ (\E k \in Creates : Ready(k)) \/
         BeginMutation \/ Reread \/ ReleaseMutation \/ ReleaseReview \/
         (\E c \in Calls : ReloadFinalState(c)) \/ PickedNothing \/ PickedDuringMutation \/
         (\E c \in Calls, p \in Projects : PickedProject(c, p)) \/ DebounceEnds \/ StartDrain \/
         DrainSuperseded \/ DrainFails \/ (\E c \in Calls : CallSuperseded(c)) \/
         (\E c \in Calls : CallScanned(c)) \/ (\E k \in Creates : CreateFails(k)) \/ RereadFails \/
         HeadTimerFires \/ ReconGivesUp \/ (\E c \in Calls, p \in Projects : ReconKeeps(c, p)) \/
         ReconDone
  BY <1>10 DEF FileEvent, HeadChange, Discard, Refresh, StartCall, ChangeProject, Ready,
    BeginMutation, MutTo, Reread, ReleaseMutation, FlushAll, Enqueue, ReleaseReview,
    ReloadFinalState, PickedNothing, EndRecon, PickedDuringMutation, PickedProject, ReconReloads,
    DebounceEnds, StartDrain, TakeTurns, StartReading, Settle, DrainSuperseded, DrainFails, Answer,
    CallSuperseded, CallReturns, CallScanned, CreateFails, RereadFails, HeadTimerFires,
    ReconGivesUp, ReconKeeps, Claims, ReconDone, panel
<1>11. CASE UNCHANGED vars
  BY <1>11 DEF vars, panel
<1>. QED
  BY <1>1, <1>2, <1>3, <1>4, <1>5, <1>6, <1>7, <1>8, <1>9, <1>10, <1>11 DEF Next, Requests,
    DrainStep, CallStep, CreateStep, RereadStep, ReconStep

\* The calls keep their types.
LEMMA CallTypeStep == NumbersOK /\ PanelOK /\ CallOK /\ DrainOK /\ [Next]_vars => CallOK'
<1>. SUFFICES ASSUME NumbersOK, PanelOK, CallOK, DrainOK, [Next]_vars PROVE CallOK'
  OBVIOUS
<1>. USE NewAwaits, AwaitTypes, CallTypes
<1>. USE DEF CallOK, PanelOK, panel, bursts, files, creation, mutation, head, events
<1>1. ASSUME NEW c \in Calls, Refresh(c) PROVE CallOK'
  BY <1>1 DEF Refresh, StartCall, Discard, Stages
<1>2. ASSUME NEW c \in Calls, ReloadFinalState(c) PROVE CallOK'
  BY <1>2 DEF ReloadFinalState, StartCall, Discard, MutTo, Stages
<1>3. ASSUME NEW c \in Calls, NEW p \in Projects, ChangeProject(c, p) PROVE CallOK'
  BY <1>3 DEF ChangeProject, StartCall, Discard, Stages, MaybeProject
<1>4. ASSUME NEW c \in Calls, NEW p \in Projects, PickedProject(c, p) PROVE CallOK'
  BY <1>4 DEF PickedProject, ReconReloads, StartCall, Discard, Stages, MaybeProject
<1>5. ASSUME NEW c \in Calls, NEW p \in Projects, ReconKeeps(c, p) PROVE CallOK'
  BY <1>5 DEF ReconKeeps, Claims, ReconReloads, StartCall, Discard, Stages, MaybeProject
<1>6. ASSUME NEW c \in Calls, CallSuperseded(c) PROVE CallOK'
  BY <1>6 DEF CallSuperseded, CallReturns, Stages
<1>7. ASSUME NEW c \in Calls, CallFails(c) PROVE CallOK'
  BY <1>7 DEF CallFails, CallReturns, ClearProject, Discard, Answer, Stages
<1>8. ASSUME NEW c \in Calls, CallLoads(c) PROVE CallOK'
  BY <1>8 DEF CallLoads, CallTo, WatchFiles, Answer, Discard, Stages
<1>9. ASSUME NEW c \in Calls, CallScanned(c) PROVE CallOK'
  <2>1. At("flushing") \in AwaitType /\ call[c] \in CallType
    BY DEF Stages
  <2>2. CASE pendingGen = NoGen
    BY <1>9, <2>2 DEF CallScanned, CallReturns
  <2>3. CASE call' = [call EXCEPT ![c].work = At("flushing")]
    BY <2>1, <2>3
  <2>. QED
    BY <1>9, <2>2, <2>3 DEF CallScanned
<1>10. CASE StartDrain
  BY <1>10 DEF StartDrain, TakeTurns, StartReading, Settle
<1>11. CASE DrainSuperseded
  BY <1>11 DEF DrainSuperseded, TakeTurns, StartReading, Settle
<1>12. CASE DrainFails
  BY <1>12 DEF DrainFails, TakeTurns, StartReading, Settle, Answer
<1>13. CASE DrainScanned
  BY <1>13 DEF DrainScanned, TakeTurns, StartReading, Settle, WatchFiles
<1>14. CASE FileEvent \/ HeadChange \/ (\E k \in Creates : Ready(k)) \/ BeginMutation \/ Reread \/
         ReleaseMutation \/ ReleaseReview \/ PickedNothing \/ PickedDuringMutation \/ DebounceEnds \/
         DrainRead \/ (\E k \in Creates, p \in Projects : SelectProject(k, p)) \/
         (\E k \in Creates : CreateFails(k)) \/ (\E k \in Creates : CreateLoads(k)) \/ RereadApplied \/
         RereadFails \/ HeadTimerFires \/ ReconGivesUp \/ ReconFindsNothing \/ ReconAsks \/
         ReconDone
  BY <1>14 DEF FileEvent, HeadChange, Discard, Ready, BeginMutation, MutTo, Reread,
    ReleaseMutation, FlushAll, Enqueue, ReleaseReview, PickedNothing, EndRecon,
    PickedDuringMutation, DebounceEnds, DrainRead, Answer, SelectProject, CreateFails, CreateLoads,
    WatchFiles, RereadApplied, RereadFails, HeadTimerFires, ReconGivesUp, ReconFindsNothing,
    Claims, ClearProject, ReconAsks, ReconDone
<1>15. CASE UNCHANGED vars
  BY <1>15 DEF vars
<1>. QED
  BY <1>1, <1>2, <1>3, <1>4, <1>5, <1>6, <1>7, <1>8, <1>9, <1>10, <1>11, <1>12, <1>13, <1>14, <1>15
    DEF Next, Requests, DrainStep, CallStep, CreateStep, RereadStep, ReconStep

\* A turn of the drain, taken for any burst, leaves a reread under way or nobody's.
LEMMA TurnTypes ==
  ASSUME NumbersOK, PanelOK, PendingOK, NEW gen \in Nat, NEW by \in 0 .. NCalls + 1, TakeTurns(gen, by)
  PROVE  DrainOK'
<1>1. ASSUME NEW g \in Nat, StartReading(g, by) PROVE DrainOK'
  <2>1. Await("reading", g, selected, noticed) \in AwaitType
    BY AwaitTypes DEF Stages, PanelOK, NumbersOK
  <2>. QED
    BY <1>1, <2>1 DEF StartReading, DrainOK
<1>2. ASSUME Settle(by) PROVE DrainOK'
  <2>1. Inactive \in AwaitType
    BY AwaitTypes DEF Stages, Inactive
  <2>2. 0 \in 0 .. NCalls + 1
    BY Bounds
  <2>. QED
    BY <1>2, <2>1, <2>2 DEF Settle, DrainOK, Nobody
<1>3. pendingGen \in Nat
  BY DEF PendingOK, NumbersOK, NoGen
<1>. QED
  BY <1>1, <1>2, <1>3 DEF TakeTurns

\* The drain keeps its type.
LEMMA DrainTypeStep == DrainOK /\ NumbersOK /\ PanelOK /\ ChainOK /\ PendingOK /\ [Next]_vars =>
  DrainOK'
<1>. SUFFICES ASSUME DrainOK, NumbersOK, PanelOK, ChainOK, PendingOK, [Next]_vars PROVE DrainOK'
  OBVIOUS
<1>. USE AwaitTypes
<1>. USE DEF panel, bursts, files, creation, mutation, head, events
<1>1. CASE DrainRead
  BY <1>1 DEF DrainRead, Answer, Stages, DrainOK
<1>2. CASE StartDrain
  <2>1. Head(chain) \in Bursts(reloadGen)
    BY <1>2 DEF StartDrain, ChainOK
  <2>2. Head(chain).gen \in Nat /\ Head(chain).by \in 0 .. NCalls + 1
    BY <2>1, Bounds DEF Bursts, NumbersOK
  <2>. QED
    BY <1>2, <2>2, TurnTypes DEF StartDrain
<1>3. CASE DrainSuperseded
  BY <1>3, TurnTypes DEF DrainSuperseded, TakeTurns, StartReading, Settle, NoGen, DrainOK
<1>4. CASE DrainFails
  BY <1>4, TurnTypes DEF DrainFails, TakeTurns, StartReading, Settle, Answer, NoGen, DrainOK
<1>5. CASE DrainScanned
  BY <1>5, TurnTypes DEF DrainScanned, TakeTurns, StartReading, Settle, WatchFiles, NoGen, DrainOK
<1>6. CASE FileEvent \/ HeadChange \/ (\E c \in Calls : Refresh(c)) \/
         (\E c \in Calls, p \in Projects : ChangeProject(c, p)) \/ (\E k \in Creates : Ready(k)) \/
         BeginMutation \/ Reread \/ ReleaseMutation \/ ReleaseReview \/
         (\E c \in Calls : ReloadFinalState(c)) \/ PickedNothing \/ PickedDuringMutation \/
         (\E c \in Calls, p \in Projects : PickedProject(c, p)) \/ DebounceEnds \/
         (\E c \in Calls : CallSuperseded(c)) \/ (\E c \in Calls : CallFails(c)) \/
         (\E c \in Calls : CallLoads(c)) \/ (\E c \in Calls : CallScanned(c)) \/
         (\E k \in Creates, p \in Projects : SelectProject(k, p)) \/
         (\E k \in Creates : CreateFails(k)) \/ (\E k \in Creates : CreateLoads(k)) \/ RereadApplied \/
         RereadFails \/ HeadTimerFires \/ ReconGivesUp \/ ReconFindsNothing \/ ReconAsks \/
         (\E c \in Calls, p \in Projects : ReconKeeps(c, p)) \/ ReconDone
  BY <1>6 DEF FileEvent, HeadChange, Discard, Refresh, StartCall, ChangeProject, Ready,
    BeginMutation, MutTo, Reread, ReleaseMutation, FlushAll, Enqueue, ReleaseReview,
    ReloadFinalState, PickedNothing, EndRecon, PickedDuringMutation, PickedProject, ReconReloads,
    DebounceEnds, CallSuperseded, CallReturns, CallFails, ClearProject, Answer, CallLoads, CallTo,
    WatchFiles, CallScanned, SelectProject, CreateFails, CreateLoads, RereadApplied, RereadFails,
    HeadTimerFires, ReconGivesUp, ReconFindsNothing, Claims, ReconAsks, ReconKeeps, ReconDone,
    DrainOK
<1>7. CASE UNCHANGED vars
  BY <1>7 DEF vars, DrainOK
<1>. QED
  BY <1>1, <1>2, <1>3, <1>4, <1>5, <1>6, <1>7 DEF Next, Requests, DrainStep, CallStep, CreateStep,
    RereadStep, ReconStep

\* The flags keep their types.
LEMMA FlagsStep == FlagsOK /\ [Next]_vars => FlagsOK'
<1>. SUFFICES ASSUME FlagsOK, [Next]_vars PROVE FlagsOK'
  OBVIOUS
<1>. USE DEF FlagsOK, panel, bursts, files, creation, mutation, head, events
<1>1. CASE FileEvent \/ HeadChange \/ (\E c \in Calls : Refresh(c)) \/
         (\E c \in Calls, p \in Projects : ChangeProject(c, p)) \/ (\E k \in Creates : Ready(k)) \/
         BeginMutation
  BY <1>1 DEF FileEvent, HeadChange, Discard, Refresh, StartCall, ChangeProject, Ready,
    BeginMutation, MutTo
<1>2. CASE Reread \/ ReleaseMutation \/ ReleaseReview \/ (\E c \in Calls : ReloadFinalState(c)) \/
         PickedNothing \/ PickedDuringMutation
  BY <1>2 DEF Reread, Discard, ReleaseMutation, FlushAll, Enqueue, ReleaseReview, ReloadFinalState,
    StartCall, MutTo, PickedNothing, EndRecon, PickedDuringMutation
<1>3. CASE (\E c \in Calls, p \in Projects : PickedProject(c, p)) \/ DebounceEnds \/ StartDrain \/
         DrainSuperseded \/ DrainFails \/ DrainRead
  BY <1>3 DEF PickedProject, ReconReloads, StartCall, Discard, DebounceEnds, Enqueue, StartDrain,
    TakeTurns, StartReading, Settle, DrainSuperseded, DrainFails, Answer, DrainRead
<1>4. CASE DrainScanned \/ (\E c \in Calls : CallSuperseded(c)) \/ (\E c \in Calls : CallFails(c)) \/
         (\E c \in Calls : CallLoads(c)) \/ (\E c \in Calls : CallScanned(c)) \/
         (\E k \in Creates, p \in Projects : SelectProject(k, p))
  BY <1>4 DEF DrainScanned, TakeTurns, StartReading, Settle, WatchFiles, CallSuperseded,
    CallReturns, CallFails, ClearProject, Discard, Answer, CallLoads, CallTo, CallScanned, Enqueue,
    SelectProject
<1>5. CASE (\E k \in Creates : CreateFails(k)) \/ (\E k \in Creates : CreateLoads(k)) \/
         RereadApplied \/ RereadFails \/ HeadTimerFires \/ ReconGivesUp
  BY <1>5 DEF CreateFails, Answer, CreateLoads, WatchFiles, RereadApplied, MutTo, RereadFails,
    HeadTimerFires, ReconGivesUp, EndRecon
<1>6. CASE ReconFindsNothing \/ ReconAsks \/ (\E c \in Calls, p \in Projects : ReconKeeps(c, p)) \/
         ReconDone
  BY <1>6 DEF ReconFindsNothing, Claims, ClearProject, Discard, EndRecon, ReconAsks, ReconKeeps,
    ReconReloads, StartCall, ReconDone
<1>7. CASE UNCHANGED vars
  BY <1>7 DEF vars
<1>. QED
  BY <1>1, <1>2, <1>3, <1>4, <1>5, <1>6, <1>7 DEF Next, Requests, DrainStep, CallStep, CreateStep,
    RereadStep, ReconStep

\* Bursts that were reached stay reached, and the next one is.
LEMMA ChainTypes ==
  ASSUME NumbersOK, PendingOK, ChainOK
  PROVE  /\ chain # <<>> => Head(chain) \in Bursts(reloadGen) /\ Tail(chain) \in Seq(Bursts(reloadGen))
         /\ chain \in Seq(Bursts(reloadGen + 1))
         /\ \A by \in 0 .. NCalls + 1 :
              /\ Append(chain, [gen |-> reloadGen, by |-> by]) \in Seq(Bursts(reloadGen))
              /\ pendingGen # NoGen =>
                   Append(chain, [gen |-> pendingGen, by |-> by]) \in Seq(Bursts(reloadGen))
<1>1. Bursts(reloadGen) \subseteq Bursts(reloadGen + 1)
  BY DEF Bursts, NumbersOK
<1>2. \A by \in 0 .. NCalls + 1 : [gen |-> reloadGen, by |-> by] \in Bursts(reloadGen)
  BY DEF Bursts, NumbersOK
<1>3. chain \in Seq(Bursts(reloadGen + 1))
  BY <1>1 DEF ChainOK
<1>. QED
  BY <1>2, <1>3 DEF ChainOK, PendingOK

\* A burst that joins the reload chain, or leaves it, leaves it one of bursts.
LEMMA EnqueueTypes ==
  ASSUME NumbersOK, PendingOK, ChainOK, NEW by \in 0 .. NCalls + 1,
         NEW gen \in {pendingGen, reloadGen} \ {NoGen}, Enqueue(gen, by), UNCHANGED reloadGen
  PROVE  ChainOK'
  BY ChainTypes DEF Enqueue, ChainOK, PendingOK

\* Who awaits a burst: nobody, a call or the release of a mutation.
LEMMA Awaiters ==
  /\ Nobody # Releaser
  /\ Nobody \in 0 .. NCalls + 1 /\ Releaser \in 0 .. NCalls + 1 /\ Calls \subseteq 0 .. NCalls + 1
  BY Bounds DEF Nobody, Releaser, Calls

\* The reload chain stays one of bursts whose generations the panel has reached.
LEMMA ChainStep == ChainOK /\ NumbersOK /\ PendingOK /\ [Next]_vars => ChainOK'
<1>. SUFFICES ASSUME ChainOK, NumbersOK, PendingOK, [Next]_vars PROVE ChainOK'
  OBVIOUS
<1>. USE DEF panel, bursts, files, creation, mutation, head, events
<1>1. ASSUME NEW c \in Calls, CallScanned(c) PROVE ChainOK'
  BY <1>1, EnqueueTypes, Awaiters DEF CallScanned, CallReturns, panel, PendingOK, NumbersOK, NoGen,
    ChainOK
<1>2. CASE ReleaseMutation
  BY <1>2, EnqueueTypes, Awaiters DEF ReleaseMutation, FlushAll, Discard, panel, PendingOK,
    NumbersOK, NoGen, ChainOK
<1>3. CASE ReleaseReview
  BY <1>3, EnqueueTypes, Awaiters DEF ReleaseReview, FlushAll, Discard, panel, PendingOK,
    NumbersOK, NoGen, ChainOK
<1>4. CASE DebounceEnds
  BY <1>4, EnqueueTypes, Awaiters DEF DebounceEnds, panel, PendingOK, NumbersOK, NoGen, ChainOK
<1>5. CASE StartDrain
  BY <1>5, ChainTypes DEF StartDrain, TakeTurns, StartReading, Settle, ChainOK, panel
<1>6. ASSUME NEW c \in Calls, CallFails(c) PROVE ChainOK'
  BY <1>6, ChainTypes DEF CallFails, CallReturns, ClearProject, Discard, Answer, ChainOK, panel
<1>7. CASE FileEvent \/ HeadChange \/ (\E c \in Calls : Refresh(c)) \/
         (\E c \in Calls, p \in Projects : ChangeProject(c, p)) \/ (\E k \in Creates : Ready(k)) \/
         BeginMutation \/ Reread \/ (\E c \in Calls : ReloadFinalState(c))
  BY <1>7, ChainTypes DEF FileEvent, HeadChange, Discard, Refresh, StartCall, ChangeProject, Ready,
    BeginMutation, MutTo, Reread, ReloadFinalState, ChainOK
<1>8. CASE PickedNothing \/ PickedDuringMutation \/
         (\E c \in Calls, p \in Projects : PickedProject(c, p)) \/ DrainSuperseded \/ DrainFails \/
         DrainRead \/ DrainScanned \/ (\E c \in Calls : CallSuperseded(c))
  BY <1>8, ChainTypes DEF PickedNothing, EndRecon, PickedDuringMutation, PickedProject,
    ReconReloads, StartCall, Discard, DrainSuperseded, TakeTurns, StartReading, Settle, DrainFails,
    Answer, DrainRead, DrainScanned, WatchFiles, CallSuperseded, CallReturns, ChainOK
<1>9. CASE (\E c \in Calls : CallLoads(c)) \/
         (\E k \in Creates, p \in Projects : SelectProject(k, p)) \/
         (\E k \in Creates : CreateFails(k)) \/ (\E k \in Creates : CreateLoads(k)) \/ RereadApplied \/
         RereadFails \/ HeadTimerFires \/ ReconGivesUp
  BY <1>9, ChainTypes DEF CallLoads, CallTo, WatchFiles, Answer, Discard, SelectProject,
    CreateFails, CreateLoads, RereadApplied, MutTo, RereadFails, HeadTimerFires, ReconGivesUp,
    EndRecon, ChainOK
<1>10. CASE ReconFindsNothing \/ ReconAsks \/ (\E c \in Calls, p \in Projects : ReconKeeps(c, p)) \/
         ReconDone
  BY <1>10, ChainTypes DEF ReconFindsNothing, Claims, ClearProject, Discard, EndRecon, ReconAsks,
    ReconKeeps, ReconReloads, StartCall, ReconDone, ChainOK
<1>11. CASE UNCHANGED vars
  BY <1>11, ChainTypes DEF vars, ChainOK
<1>. QED
  BY <1>1, <1>2, <1>3, <1>4, <1>5, <1>6, <1>7, <1>8, <1>9, <1>10, <1>11 DEF Next, Requests,
    DrainStep, CallStep, CreateStep, RereadStep, ReconStep

\* The fields of what is awaited.
LEMMA AwaitFields ==
  ASSUME TypesOK
  PROVE  /\ drain.work \in AwaitType /\ mut \in AwaitType
         /\ \A c \in Calls : call[c].work \in AwaitType
         /\ \A k \in Creates : create[k] \in AwaitType
  BY CallTypes DEF TypesOK, DrainOK, CallOK, CreateOK, MutOK

\* What is pending is of the panel's generation: whatever moves the panel on discards it.
LEMMA PendingStep == NumbersOK /\ PendingOK /\ [Next]_vars => PendingOK'
<1>. SUFFICES ASSUME NumbersOK, PendingOK, [Next]_vars PROVE PendingOK'
  OBVIOUS
<1>. USE DEF NumbersOK, PendingOK, panel, bursts, files, creation, mutation, head, events
<1>1. CASE FileEvent \/ HeadChange \/ (\E c \in Calls : Refresh(c)) \/
         (\E c \in Calls, p \in Projects : ChangeProject(c, p)) \/ (\E k \in Creates : Ready(k)) \/
         BeginMutation \/ Reread \/ ReleaseMutation
  BY <1>1 DEF FileEvent, HeadChange, Discard, Refresh, StartCall, ChangeProject, Ready,
    BeginMutation, MutTo, Reread, ReleaseMutation, FlushAll, Enqueue
<1>2. CASE ReleaseReview \/ (\E c \in Calls : ReloadFinalState(c)) \/ PickedNothing \/
         PickedDuringMutation \/ (\E c \in Calls, p \in Projects : PickedProject(c, p)) \/
         DebounceEnds \/ StartDrain \/ DrainSuperseded
  BY <1>2 DEF ReleaseReview, FlushAll, Enqueue, Discard, ReloadFinalState, StartCall, MutTo,
    PickedNothing, EndRecon, PickedDuringMutation, PickedProject, ReconReloads, DebounceEnds,
    StartDrain, TakeTurns, StartReading, Settle, DrainSuperseded
<1>3. CASE DrainFails \/ DrainRead \/ DrainScanned \/ (\E c \in Calls : CallSuperseded(c)) \/
         (\E c \in Calls : CallFails(c)) \/ (\E c \in Calls : CallLoads(c)) \/
         (\E c \in Calls : CallScanned(c)) \/
         (\E k \in Creates, p \in Projects : SelectProject(k, p))
  BY <1>3 DEF DrainFails, TakeTurns, StartReading, Settle, Answer, DrainRead, DrainScanned,
    WatchFiles, CallSuperseded, CallReturns, CallFails, ClearProject, Discard, CallLoads, CallTo,
    CallScanned, Enqueue, SelectProject
<1>4. CASE (\E k \in Creates : CreateFails(k)) \/ (\E k \in Creates : CreateLoads(k)) \/
         RereadApplied \/ RereadFails \/ HeadTimerFires \/ ReconGivesUp \/ ReconFindsNothing \/
         ReconAsks
  BY <1>4 DEF CreateFails, Answer, CreateLoads, WatchFiles, RereadApplied, MutTo, RereadFails,
    HeadTimerFires, ReconGivesUp, EndRecon, ReconFindsNothing, Claims, ClearProject, Discard,
    ReconAsks
<1>5. CASE (\E c \in Calls, p \in Projects : ReconKeeps(c, p)) \/ ReconDone
  BY <1>5 DEF ReconKeeps, Claims, ReconReloads, StartCall, Discard, ReconDone, EndRecon
<1>6. CASE UNCHANGED vars
  BY <1>6 DEF vars
<1>. QED
  BY <1>1, <1>2, <1>3, <1>4, <1>5, <1>6 DEF Next, Requests, DrainStep, CallStep, CreateStep,
    RereadStep, ReconStep

\* A reread or a call that goes on with its scan is the same otherwise.
LEMMA ScansFollow ==
  ASSUME TypesOK
  PROVE  /\ DrainRead =>
              /\ drain'.work.stage = "scanning" /\ drain'.by = drain.by
              /\ drain'.work.gen = drain.work.gen /\ drain'.work.cand = drain.work.cand
              /\ drain'.work.seen = drain.work.seen
         /\ \A c \in Calls, stage \in Stages : CallTo(c, stage) =>
              /\ call'[c].work.stage = stage /\ call'[c].same = call[c].same /\ call'[c].by = call[c].by
              /\ call'[c].work.gen = call[c].work.gen /\ call'[c].work.cand = call[c].work.cand
              /\ call'[c].work.seen = call[c].work.seen
              /\ \A d \in Calls \ {c} : call'[d] = call[d]
<1>1. ASSUME DrainRead
      PROVE  /\ drain'.work.stage = "scanning" /\ drain'.by = drain.by
             /\ drain'.work.gen = drain.work.gen /\ drain'.work.cand = drain.work.cand
             /\ drain'.work.seen = drain.work.seen
  BY <1>1 DEF TypesOK, DrainOK, AwaitType, DrainRead
<1>2. ASSUME NEW c \in Calls, NEW stage \in Stages, CallTo(c, stage)
      PROVE  /\ call'[c].work.stage = stage /\ call'[c].same = call[c].same /\ call'[c].by = call[c].by
             /\ call'[c].work.gen = call[c].work.gen /\ call'[c].work.cand = call[c].work.cand
             /\ call'[c].work.seen = call[c].work.seen
             /\ \A d \in Calls \ {c} : call'[d] = call[d]
  BY <1>2 DEF TypesOK, CallOK, CallType, AwaitType, CallTo
<1>. QED
  BY <1>1, <1>2

\* What returns, or settles, awaits nothing.
LEMMA NothingAwaited ==
  /\ Inactive.stage = "none" /\ Inactive.gen = NoGen /\ Inactive.seen = 0
  /\ Returned.work.stage = "done" /\ Returned.work.gen = NoGen /\ Returned.work.seen = 0
  BY DEF Inactive, Returned, NoCall, At, Await

\* A call that flushes waits for its burst only.
LEMMA FlushFollows ==
  ASSUME TypesOK, NEW c \in Calls, CallScanned(c)
  PROVE  /\ call'[c].work.stage \in {"done", "flushing"}
         /\ call'[c].work.gen = NoGen /\ call'[c].work.seen = 0
         /\ \A d \in Calls \ {c} : call'[d] = call[d]
<1>. USE DEF TypesOK, CallOK
<1>1. CASE CallReturns(c)
  BY <1>1, NothingAwaited DEF CallReturns
<1>2. CASE call' = [call EXCEPT ![c].work = At("flushing")]
  BY <1>2 DEF CallType, At, Await
<1>. QED
  BY <1>1, <1>2 DEF CallScanned

\* A turn of the drain hears of no later event than the panel.
LEMMA SettledEvents ==
  ASSUME TypesOK, EventsCounted, NEW gen, NEW by, TakeTurns(gen, by), UNCHANGED noticed
  PROVE  /\ drain'.work.seen <= noticed'
         /\ \A c \in Calls : call'[c].work.seen <= noticed'
<1>. USE AwaitFields, AwaitTypes DEF TypesOK, EventsCounted, NumbersOK, CallOK
<1>1. CASE Settle(by)
  BY <1>1 DEF Settle, Inactive, Returned, NoCall, At, Await
<1>2. CASE \E g \in {gen, pendingGen} : StartReading(g, by)
  BY <1>2 DEF StartReading, Await
<1>. QED
  BY <1>1, <1>2 DEF TakeTurns

\* No step answers, or reads, after events that were not noticed.
LEMMA EventsStep == TypesOK /\ EventsCounted /\ [Next]_vars => EventsCounted'
<1>. SUFFICES ASSUME TypesOK, EventsCounted, [Next]_vars PROVE EventsCounted'
  OBVIOUS
<1>. USE AwaitFields, AwaitTypes, Bounds
<1>. USE DEF TypesOK, EventsCounted, NumbersOK, RestOK, DrainOK, CallOK, CreateOK, panel, bursts,
  files, creation, mutation, head, events
<1>1. CASE FileEvent
  BY <1>1 DEF FileEvent, Await, At, Inactive, NoCall, Returned
<1>2. CASE HeadChange
  BY <1>2 DEF HeadChange, Discard, Await, At, Inactive, NoCall, Returned
<1>3. ASSUME NEW c \in Calls, Refresh(c) PROVE EventsCounted'
  BY <1>3 DEF Refresh, StartCall, Discard, Await, At, Inactive, NoCall, Returned
<1>4. ASSUME NEW c \in Calls, NEW p \in Projects, ChangeProject(c, p) PROVE EventsCounted'
  BY <1>4 DEF ChangeProject, StartCall, Discard, Await, At, Inactive, NoCall, Returned
<1>5. ASSUME NEW k \in Creates, Ready(k) PROVE EventsCounted'
  BY <1>5 DEF Ready, Await, At, Inactive, NoCall, Returned
<1>6. CASE BeginMutation
  BY <1>6 DEF BeginMutation, MutTo, Await, At, Inactive, NoCall, Returned
<1>7. CASE Reread
  BY <1>7 DEF Reread, Discard, Await, At, Inactive, NoCall, Returned
<1>8. CASE ReleaseMutation
  BY <1>8 DEF ReleaseMutation, FlushAll, Enqueue, Discard, Await, At, Inactive, NoCall, Returned
<1>9. CASE ReleaseReview
  BY <1>9 DEF ReleaseReview, FlushAll, Enqueue, Discard, Await, At, Inactive, NoCall, Returned
<1>10. ASSUME NEW c \in Calls, ReloadFinalState(c) PROVE EventsCounted'
  BY <1>10 DEF ReloadFinalState, StartCall, Discard, MutTo, Await, At, Inactive, NoCall, Returned
<1>11. CASE PickedNothing
  BY <1>11 DEF PickedNothing, EndRecon, Await, At, Inactive, NoCall, Returned
<1>12. CASE PickedDuringMutation
  BY <1>12 DEF PickedDuringMutation, EndRecon, Await, At, Inactive, NoCall, Returned
<1>13. ASSUME NEW c \in Calls, NEW p \in Projects, PickedProject(c, p) PROVE EventsCounted'
  BY <1>13 DEF PickedProject, ReconReloads, StartCall, Discard, Await, At, Inactive, NoCall,
    Returned
<1>14. CASE DebounceEnds
  BY <1>14 DEF DebounceEnds, Enqueue, Await, At, Inactive, NoCall, Returned
<1>15. CASE StartDrain
  <2>1. /\ drain'.work.seen <= noticed'
        /\ \A c \in Calls : call'[c].work.seen <= noticed'
    BY <1>15, SettledEvents DEF StartDrain
  <2>. QED
    BY <1>15, <2>1 DEF StartDrain
<1>16. CASE DrainSuperseded
  BY <1>16 DEF DrainSuperseded, TakeTurns, StartReading, Settle, Await, At, Inactive, NoCall,
    Returned
<1>17. CASE DrainFails
  BY <1>17 DEF DrainFails, TakeTurns, StartReading, Settle, Answer, Await, At, Inactive, NoCall,
    Returned
<1>18. CASE DrainRead
  BY <1>18, ScansFollow DEF DrainRead, Answer
<1>19. CASE DrainScanned
  BY <1>19 DEF DrainScanned, TakeTurns, StartReading, Settle, WatchFiles, Await, At, Inactive,
    NoCall, Returned
<1>20. ASSUME NEW c \in Calls, CallSuperseded(c) PROVE EventsCounted'
  BY <1>20 DEF CallSuperseded, CallReturns, Await, At, Inactive, NoCall, Returned
<1>21. ASSUME NEW c \in Calls, CallFails(c) PROVE EventsCounted'
  BY <1>21 DEF CallFails, CallReturns, ClearProject, Discard, Answer, Await, At, Inactive, NoCall,
    Returned
<1>22. ASSUME NEW c \in Calls, CallLoads(c) PROVE EventsCounted'
  BY <1>22 DEF CallLoads, CallTo, WatchFiles, Answer, Discard, Await, At, Inactive, NoCall,
    Returned
<1>23. ASSUME NEW c \in Calls, CallScanned(c) PROVE EventsCounted'
  BY <1>23, FlushFollows, NothingAwaited DEF CallScanned
<1>24. ASSUME NEW k \in Creates, NEW p \in Projects, SelectProject(k, p) PROVE EventsCounted'
  BY <1>24 DEF SelectProject, Await, At, Inactive, NoCall, Returned
<1>25. ASSUME NEW k \in Creates, CreateFails(k) PROVE EventsCounted'
  BY <1>25 DEF CreateFails, Answer, Await, At, Inactive, NoCall, Returned
<1>26. ASSUME NEW k \in Creates, CreateLoads(k) PROVE EventsCounted'
  BY <1>26 DEF CreateLoads, WatchFiles, Answer, Await, At, Inactive, NoCall, Returned
<1>27. CASE RereadApplied
  BY <1>27 DEF RereadApplied, MutTo, WatchFiles, Answer, Await, At, Inactive, NoCall, Returned
<1>28. CASE RereadFails
  BY <1>28 DEF RereadFails, MutTo, Answer, Await, At, Inactive, NoCall, Returned
<1>29. CASE HeadTimerFires
  BY <1>29 DEF HeadTimerFires, Await, At, Inactive, NoCall, Returned
<1>30. CASE ReconGivesUp
  BY <1>30 DEF ReconGivesUp, EndRecon, Await, At, Inactive, NoCall, Returned
<1>31. CASE ReconFindsNothing
  BY <1>31 DEF ReconFindsNothing, Claims, ClearProject, Discard, EndRecon, Await, At, Inactive,
    NoCall, Returned
<1>32. CASE ReconAsks
  BY <1>32 DEF ReconAsks, Claims, ClearProject, Discard, Await, At, Inactive, NoCall, Returned
<1>33. ASSUME NEW c \in Calls, NEW p \in Projects, ReconKeeps(c, p) PROVE EventsCounted'
  BY <1>33 DEF ReconKeeps, Claims, ReconReloads, StartCall, Discard, Await, At, Inactive, NoCall,
    Returned
<1>34. CASE ReconDone
  BY <1>34 DEF ReconDone, EndRecon, Await, At, Inactive, NoCall, Returned
<1>35. CASE UNCHANGED vars
  BY <1>35 DEF vars
<1>. QED
  BY <1>1, <1>2, <1>3, <1>4, <1>5, <1>6, <1>7, <1>8, <1>9, <1>10, <1>11, <1>12, <1>13, <1>14,
    <1>15, <1>16, <1>17, <1>18, <1>19, <1>20, <1>21, <1>22, <1>23, <1>24, <1>25, <1>26, <1>27,
    <1>28, <1>29, <1>30, <1>31, <1>32, <1>33, <1>34, <1>35 DEF Next, Requests, DrainStep, CallStep,
    CreateStep, RereadStep, ReconStep

\* A turn of the drain is of a generation that the panel has reached.
LEMMA SettledGens ==
  ASSUME TypesOK, GensReached, NEW gen, gen <= reloadGen, NEW by, TakeTurns(gen, by), UNCHANGED reloadGen
  PROVE  /\ drain'.work.gen <= reloadGen'
         /\ \A c \in Calls : call'[c].work.gen <= reloadGen'
<1>. USE AwaitFields, AwaitTypes DEF TypesOK, GensReached, NumbersOK, CallOK, PendingOK, NoGen
<1>1. CASE Settle(by)
  BY <1>1 DEF Settle, Inactive, Returned, NoCall, At, Await
<1>2. CASE \E g \in {gen, pendingGen} : StartReading(g, by)
  BY <1>2 DEF StartReading, Await
<1>. QED
  BY <1>1, <1>2 DEF TakeTurns

\* No step takes a generation from the future.
LEMMA GensStep == TypesOK /\ GensReached /\ [Next]_vars => GensReached'
<1>. SUFFICES ASSUME TypesOK, GensReached, [Next]_vars PROVE GensReached'
  OBVIOUS
<1>. USE AwaitFields, AwaitTypes, Bounds
<1>. USE DEF TypesOK, GensReached, NumbersOK, RestOK, PendingOK, DrainOK, CallOK, CreateOK, NoGen,
  panel, bursts, files, creation, mutation, head, events
<1>1. CASE FileEvent
  BY <1>1 DEF FileEvent, Await, At, Inactive, NoCall, Returned
<1>2. CASE HeadChange
  BY <1>2 DEF HeadChange, Discard, Await, At, Inactive, NoCall, Returned
<1>3. ASSUME NEW c \in Calls, Refresh(c) PROVE GensReached'
  BY <1>3 DEF Refresh, StartCall, Discard, Await, At, Inactive, NoCall, Returned
<1>4. ASSUME NEW c \in Calls, NEW p \in Projects, ChangeProject(c, p) PROVE GensReached'
  BY <1>4 DEF ChangeProject, StartCall, Discard, Await, At, Inactive, NoCall, Returned
<1>5. ASSUME NEW k \in Creates, Ready(k) PROVE GensReached'
  BY <1>5 DEF Ready, Await, At, Inactive, NoCall, Returned
<1>6. CASE BeginMutation
  BY <1>6 DEF BeginMutation, MutTo, Await, At, Inactive, NoCall, Returned
<1>7. CASE Reread
  BY <1>7 DEF Reread, Discard, Await, At, Inactive, NoCall, Returned
<1>8. CASE ReleaseMutation
  BY <1>8 DEF ReleaseMutation, FlushAll, Enqueue, Discard, Await, At, Inactive, NoCall, Returned
<1>9. CASE ReleaseReview
  BY <1>9 DEF ReleaseReview, FlushAll, Enqueue, Discard, Await, At, Inactive, NoCall, Returned
<1>10. ASSUME NEW c \in Calls, ReloadFinalState(c) PROVE GensReached'
  BY <1>10 DEF ReloadFinalState, StartCall, Discard, MutTo, Await, At, Inactive, NoCall, Returned
<1>11. CASE PickedNothing
  BY <1>11 DEF PickedNothing, EndRecon, Await, At, Inactive, NoCall, Returned
<1>12. CASE PickedDuringMutation
  BY <1>12 DEF PickedDuringMutation, EndRecon, Await, At, Inactive, NoCall, Returned
<1>13. ASSUME NEW c \in Calls, NEW p \in Projects, PickedProject(c, p) PROVE GensReached'
  BY <1>13 DEF PickedProject, ReconReloads, StartCall, Discard, Await, At, Inactive, NoCall,
    Returned
<1>14. CASE DebounceEnds
  BY <1>14 DEF DebounceEnds, Enqueue, Await, At, Inactive, NoCall, Returned
<1>15. CASE StartDrain
  <2>1. /\ drain'.work.gen <= reloadGen'
        /\ \A c \in Calls : call'[c].work.gen <= reloadGen'
    <3>1. Head(chain) \in Bursts(reloadGen)
      BY <1>15, ChainTypes DEF StartDrain
    <3>2. Head(chain).gen <= reloadGen
      BY <3>1 DEF Bursts
    <3>. QED
      BY <1>15, <3>2, SettledGens DEF StartDrain, panel
  <2>. QED
    BY <1>15, <2>1 DEF StartDrain
<1>16. CASE DrainSuperseded
  BY <1>16 DEF DrainSuperseded, TakeTurns, StartReading, Settle, Await, At, Inactive, NoCall,
    Returned
<1>17. CASE DrainFails
  BY <1>17 DEF DrainFails, TakeTurns, StartReading, Settle, Answer, Await, At, Inactive, NoCall,
    Returned
<1>18. CASE DrainRead
  BY <1>18, ScansFollow DEF DrainRead
<1>19. CASE DrainScanned
  BY <1>19 DEF DrainScanned, TakeTurns, StartReading, Settle, WatchFiles, Await, At, Inactive,
    NoCall, Returned
<1>20. ASSUME NEW c \in Calls, CallSuperseded(c) PROVE GensReached'
  BY <1>20 DEF CallSuperseded, CallReturns, Await, At, Inactive, NoCall, Returned
<1>21. ASSUME NEW c \in Calls, CallFails(c) PROVE GensReached'
  BY <1>21 DEF CallFails, CallReturns, ClearProject, Discard, Answer, Await, At, Inactive, NoCall,
    Returned
<1>22. ASSUME NEW c \in Calls, CallLoads(c) PROVE GensReached'
  BY <1>22 DEF CallLoads, CallTo, WatchFiles, Answer, Discard, Await, At, Inactive, NoCall,
    Returned
<1>23. ASSUME NEW c \in Calls, CallScanned(c) PROVE GensReached'
  <2>1. reloadGen' = reloadGen /\ NoGen <= reloadGen
    BY <1>23 DEF CallScanned
  <2>2. call'[c].work.gen <= reloadGen' /\ \A d \in Calls \ {c} : call'[d] = call[d]
    BY <1>23, <2>1, FlushFollows
  <2>. QED
    BY <1>23, <2>1, <2>2 DEF CallScanned
<1>24. ASSUME NEW k \in Creates, NEW p \in Projects, SelectProject(k, p) PROVE GensReached'
  BY <1>24 DEF SelectProject, Await, At, Inactive, NoCall, Returned
<1>25. ASSUME NEW k \in Creates, CreateFails(k) PROVE GensReached'
  BY <1>25 DEF CreateFails, Answer, Await, At, Inactive, NoCall, Returned
<1>26. ASSUME NEW k \in Creates, CreateLoads(k) PROVE GensReached'
  BY <1>26 DEF CreateLoads, WatchFiles, Answer, Await, At, Inactive, NoCall, Returned
<1>27. CASE RereadApplied
  BY <1>27 DEF RereadApplied, MutTo, WatchFiles, Answer, Await, At, Inactive, NoCall, Returned
<1>28. CASE RereadFails
  BY <1>28 DEF RereadFails, MutTo, Answer, Await, At, Inactive, NoCall, Returned
<1>29. CASE HeadTimerFires
  BY <1>29 DEF HeadTimerFires, Await, At, Inactive, NoCall, Returned
<1>30. CASE ReconGivesUp
  BY <1>30 DEF ReconGivesUp, EndRecon, Await, At, Inactive, NoCall, Returned
<1>31. CASE ReconFindsNothing
  BY <1>31 DEF ReconFindsNothing, Claims, ClearProject, Discard, EndRecon, Await, At, Inactive,
    NoCall, Returned
<1>32. CASE ReconAsks
  BY <1>32 DEF ReconAsks, Claims, ClearProject, Discard, Await, At, Inactive, NoCall, Returned
<1>33. ASSUME NEW c \in Calls, NEW p \in Projects, ReconKeeps(c, p) PROVE GensReached'
  BY <1>33 DEF ReconKeeps, Claims, ReconReloads, StartCall, Discard, Await, At, Inactive, NoCall,
    Returned
<1>34. CASE ReconDone
  BY <1>34 DEF ReconDone, EndRecon, Await, At, Inactive, NoCall, Returned
<1>35. CASE UNCHANGED vars
  BY <1>35 DEF vars
<1>. QED
  BY <1>1, <1>2, <1>3, <1>4, <1>5, <1>6, <1>7, <1>8, <1>9, <1>10, <1>11, <1>12, <1>13, <1>14,
    <1>15, <1>16, <1>17, <1>18, <1>19, <1>20, <1>21, <1>22, <1>23, <1>24, <1>25, <1>26, <1>27,
    <1>28, <1>29, <1>30, <1>31, <1>32, <1>33, <1>34, <1>35 DEF Next, Requests, DrainStep, CallStep,
    CreateStep, RereadStep, ReconStep

\* What the recon is about, the mutations and the answers stay in their bounds.

\* The numbers of mutations, HEADs and answers keep their bounds.
LEMMA RestStep == TypesOK /\ EventsCounted /\ [Next]_vars => RestOK'
<1>. SUFFICES ASSUME TypesOK, EventsCounted, [Next]_vars PROVE RestOK'
  OBVIOUS
<1>. USE AwaitFields, AwaitTypes, Bounds
<1>. USE DEF TypesOK, EventsCounted, RestOK, NumbersOK, panel, bursts, files, creation, mutation,
  head, events
<1>1. CASE StartDrain
  BY <1>1 DEF StartDrain
<1>2. CASE DrainSuperseded
  BY <1>2 DEF DrainSuperseded
<1>3. CASE DrainFails
  BY <1>3 DEF DrainFails, Answer
<1>4. CASE DrainScanned
  BY <1>4 DEF DrainScanned, WatchFiles
<1>5. ASSUME NEW c \in Calls, CallSuperseded(c) PROVE RestOK'
  BY <1>5 DEF CallSuperseded
<1>6. ASSUME NEW c \in Calls, CallFails(c) PROVE RestOK'
  BY <1>6 DEF CallFails, ClearProject, Discard, Answer
<1>7. ASSUME NEW c \in Calls, CallLoads(c) PROVE RestOK'
  BY <1>7 DEF CallLoads, WatchFiles, Answer, Discard
<1>8. ASSUME NEW c \in Calls, CallScanned(c) PROVE RestOK'
  BY <1>8 DEF CallScanned
<1>9. ASSUME NEW k \in Creates, CreateFails(k) PROVE RestOK'
  BY <1>9 DEF CreateFails, Answer
<1>10. ASSUME NEW k \in Creates, CreateLoads(k) PROVE RestOK'
  BY <1>10 DEF CreateLoads, WatchFiles, Answer
<1>11. CASE RereadApplied
  BY <1>11 DEF RereadApplied, WatchFiles, Answer
<1>12. CASE RereadFails
  BY <1>12 DEF RereadFails, Answer
<1>13. CASE HeadTimerFires
  BY <1>13 DEF HeadTimerFires
<1>14. CASE ReconGivesUp
  BY <1>14 DEF ReconGivesUp, EndRecon
<1>15. CASE ReconFindsNothing
  BY <1>15 DEF ReconFindsNothing, Claims, ClearProject, Discard, EndRecon
<1>16. CASE ReconAsks
  BY <1>16 DEF ReconAsks, Claims, ClearProject, Discard
<1>17. ASSUME NEW c \in Calls, NEW p \in Projects, ReconKeeps(c, p) PROVE RestOK'
  BY <1>17 DEF ReconKeeps, Claims, ReconReloads, StartCall, Discard
<1>18. CASE ReconDone
  BY <1>18 DEF ReconDone, EndRecon
<1>19. CASE PickedNothing
  BY <1>19 DEF PickedNothing, EndRecon
<1>20. CASE PickedDuringMutation
  BY <1>20 DEF PickedDuringMutation, EndRecon
<1>21. ASSUME NEW c \in Calls, NEW p \in Projects, PickedProject(c, p) PROVE RestOK'
  BY <1>21 DEF PickedProject, ReconReloads, StartCall, Discard
<1>22. CASE DrainRead
  BY <1>22 DEF DrainRead, Answer
<1>23. CASE FileEvent \/ HeadChange \/ (\E c \in Calls : Refresh(c)) \/
         (\E c \in Calls, p \in Projects : ChangeProject(c, p)) \/ (\E k \in Creates : Ready(k))
  BY <1>23 DEF FileEvent, HeadChange, Discard, Refresh, StartCall, ChangeProject, Ready
<1>24. CASE BeginMutation \/ Reread \/ ReleaseMutation \/ ReleaseReview \/
         (\E c \in Calls : ReloadFinalState(c))
  BY <1>24 DEF BeginMutation, MutTo, Reread, Discard, ReleaseMutation, FlushAll, Enqueue,
    ReleaseReview, ReloadFinalState, StartCall
<1>25. CASE DebounceEnds \/ (\E k \in Creates, p \in Projects : SelectProject(k, p))
  BY <1>25 DEF DebounceEnds, Enqueue, SelectProject
<1>26. CASE UNCHANGED vars
  BY <1>26 DEF vars
<1>. QED
  BY <1>1, <1>2, <1>3, <1>4, <1>5, <1>6, <1>7, <1>8, <1>9, <1>10, <1>11, <1>12, <1>13, <1>14,
    <1>15, <1>16, <1>17, <1>18, <1>19, <1>20, <1>21, <1>22, <1>23, <1>24, <1>25, <1>26 DEF Next,
    Requests, DrainStep, CallStep, CreateStep, RereadStep, ReconStep

\* The generation and the number of events keep their types.
LEMMA NumbersStep == NumbersOK /\ [Next]_vars => NumbersOK'
<1>. SUFFICES ASSUME NumbersOK, [Next]_vars PROVE NumbersOK'
  OBVIOUS
<1>. USE Bounds
<1>. USE DEF NumbersOK, panel, bursts, files, creation, mutation, head, events
<1>1. CASE StartDrain
  BY <1>1 DEF StartDrain
<1>2. CASE DrainSuperseded
  BY <1>2 DEF DrainSuperseded
<1>3. CASE DrainFails
  BY <1>3 DEF DrainFails, Answer
<1>4. CASE DrainScanned
  BY <1>4 DEF DrainScanned, WatchFiles
<1>5. ASSUME NEW c \in Calls, CallSuperseded(c) PROVE NumbersOK'
  BY <1>5 DEF CallSuperseded
<1>6. ASSUME NEW c \in Calls, CallFails(c) PROVE NumbersOK'
  BY <1>6 DEF CallFails, ClearProject, Discard, Answer
<1>7. ASSUME NEW c \in Calls, CallLoads(c) PROVE NumbersOK'
  BY <1>7 DEF CallLoads, WatchFiles, Answer, Discard
<1>8. ASSUME NEW c \in Calls, CallScanned(c) PROVE NumbersOK'
  BY <1>8 DEF CallScanned
<1>9. ASSUME NEW k \in Creates, CreateFails(k) PROVE NumbersOK'
  BY <1>9 DEF CreateFails, Answer
<1>10. ASSUME NEW k \in Creates, CreateLoads(k) PROVE NumbersOK'
  BY <1>10 DEF CreateLoads, WatchFiles, Answer
<1>11. CASE RereadApplied
  BY <1>11 DEF RereadApplied, WatchFiles, Answer
<1>12. CASE RereadFails
  BY <1>12 DEF RereadFails, Answer
<1>13. CASE FileEvent \/ HeadChange \/ (\E c \in Calls : Refresh(c)) \/
         (\E c \in Calls, p \in Projects : ChangeProject(c, p)) \/ (\E k \in Creates : Ready(k)) \/
         BeginMutation \/ Reread \/ ReleaseMutation
  BY <1>13 DEF FileEvent, HeadChange, Discard, Refresh, StartCall, ChangeProject, Ready,
    BeginMutation, MutTo, Reread, ReleaseMutation, FlushAll, Enqueue
<1>14. CASE ReleaseReview \/ (\E c \in Calls : ReloadFinalState(c)) \/ PickedNothing \/
         PickedDuringMutation \/ (\E c \in Calls, p \in Projects : PickedProject(c, p)) \/
         DebounceEnds \/ DrainRead \/ (\E k \in Creates, p \in Projects : SelectProject(k, p))
  BY <1>14 DEF ReleaseReview, FlushAll, Enqueue, Discard, ReloadFinalState, StartCall, MutTo,
    PickedNothing, EndRecon, PickedDuringMutation, PickedProject, ReconReloads, DebounceEnds,
    DrainRead, Answer, SelectProject
<1>15. CASE HeadTimerFires \/ ReconGivesUp \/ ReconFindsNothing \/ ReconAsks \/
         (\E c \in Calls, p \in Projects : ReconKeeps(c, p)) \/ ReconDone
  BY <1>15 DEF HeadTimerFires, ReconGivesUp, EndRecon, ReconFindsNothing, Claims, ClearProject,
    Discard, ReconAsks, ReconKeeps, ReconReloads, StartCall, ReconDone
<1>16. CASE UNCHANGED vars
  BY <1>16 DEF vars
<1>. QED
  BY <1>1, <1>2, <1>3, <1>4, <1>5, <1>6, <1>7, <1>8, <1>9, <1>10, <1>11, <1>12, <1>13, <1>14,
    <1>15, <1>16 DEF Next, Requests, DrainStep, CallStep, CreateStep, RereadStep, ReconStep

\* The parts are the type invariant of the panel.
LEMMA TypesAreRight == TypesOK => TypeOK
<1>. SUFFICES ASSUME TypesOK PROVE TypeOK
  OBVIOUS
<1>. USE DEF TypesOK, NumbersOK
<1>1. {selected, controller, watched} \subseteq Projects \cup {NoProject}
  BY DEF PanelOK, MaybeProject
<1>2. pendingGen \in 0 .. reloadGen
  BY DEF PendingOK, NoGen
<1>3. chain \in Seq([gen : 1 .. reloadGen, by : 0 .. NCalls + 1])
  BY DEF ChainOK, Bursts
<1>4. call \in [Calls -> [work : AwaitType, same : BOOLEAN, by : {"user", "mutation", "head"}]]
  BY DEF CallOK, CallType
<1>. QED
  BY <1>1, <1>2, <1>3, <1>4 DEF TypeOK, DrainOK, CreateOK, MutOK, FlagsOK, RestOK

-----------------------------------------------------------------------------
(* What begins, goes on and ends.                                          *)

\* A call that begins takes the next generation and has heard of every event so far.
LEMMA StartFollows ==
  ASSUME TypesOK, NEW c \in Calls, NEW p, NEW who, StartCall(c, p, who)
  PROVE  /\ call'[c].work.stage = "loading" /\ call'[c].work.gen = reloadGen' /\ call'[c].work.cand = p
         /\ call'[c].work.seen = noticed /\ call'[c].by = who
         /\ \A d \in Calls \ {c} : call'[d] = call[d]
         /\ reloadGen' = reloadGen + 1
  BY DEF StartCall, TypesOK, CallOK, Await

\* A call that returns is done, and the others go on.
LEMMA ReturnFollows ==
  ASSUME TypesOK, NEW c \in Calls, CallReturns(c)
  PROVE  /\ call'[c].work.stage = "done"
         /\ \A d \in Calls \ {c} : call'[d] = call[d]
  BY NothingAwaited DEF CallReturns, TypesOK, CallOK

\* After a turn the drain is over, or reads the selected project anew.
LEMMA TurnFollows ==
  ASSUME TypesOK, NEW gen, NEW by, TakeTurns(gen, by)
  PROVE  /\ \/ drain'.work.stage = "none"
            \/ /\ Reloads(reloadGen)
               /\ drain'.work.stage = "reading" /\ drain'.work.gen = reloadGen
               /\ drain'.work.cand = selected /\ drain'.work.seen = noticed
         /\ \A d \in Calls : call'[d] = call[d] \/ call'[d].work.stage = "done"
<1>1. CASE Settle(by)
  BY <1>1, NothingAwaited DEF Settle, TypesOK, CallOK
<1>2. ASSUME NEW g, Reloads(g), StartReading(g, by)
      PROVE  /\ Reloads(reloadGen) /\ UNCHANGED call
             /\ drain'.work.stage = "reading" /\ drain'.work.gen = reloadGen
             /\ drain'.work.cand = selected /\ drain'.work.seen = noticed
  BY <1>2 DEF StartReading, Await, Reloads
<1>. QED
  BY <1>1, <1>2 DEF TakeTurns

\* Who begins to load has a project to load.
LEMMA CandidatesStep == TypesOK /\ CandidatesKnown /\ [Next]_vars => CandidatesKnown'
<1>. SUFFICES ASSUME TypesOK, CandidatesKnown, [Next]_vars PROVE CandidatesKnown'
  OBVIOUS
<1>. USE DEF TypesOK, CandidatesKnown, PanelOK, CreateOK, CallOK, MaybeProject, panel, bursts,
  files, creation, mutation, head, events
<1>1. CASE StartDrain
  BY <1>1, TurnFollows DEF StartDrain, Reloads
<1>2. CASE DrainSuperseded
  BY <1>2, TurnFollows DEF DrainSuperseded, Reloads
<1>3. CASE DrainFails
  BY <1>3, TurnFollows DEF DrainFails, Answer, Reloads
<1>4. CASE DrainScanned
  BY <1>4, TurnFollows DEF DrainScanned, WatchFiles, Reloads
<1>5. CASE DrainRead
  BY <1>5, ScansFollow DEF DrainRead, Answer
<1>6. ASSUME NEW c \in Calls, CallSuperseded(c) PROVE CandidatesKnown'
  BY <1>6, ReturnFollows DEF CallSuperseded
<1>7. ASSUME NEW c \in Calls, CallFails(c) PROVE CandidatesKnown'
  BY <1>7, ReturnFollows DEF CallFails
<1>8. ASSUME NEW c \in Calls, CallScanned(c) PROVE CandidatesKnown'
  BY <1>8, FlushFollows DEF CallScanned
<1>9. ASSUME NEW c \in Calls, CallLoads(c) PROVE CandidatesKnown'
  BY <1>9, ScansFollow DEF CallLoads, Stages
<1>10. ASSUME NEW c \in Calls, Refresh(c) PROVE CandidatesKnown'
  BY <1>10, StartFollows DEF Refresh
<1>11. ASSUME NEW c \in Calls, NEW p \in Projects, ChangeProject(c, p) PROVE CandidatesKnown'
  BY <1>11, StartFollows DEF ChangeProject
<1>12. ASSUME NEW c \in Calls, NEW p \in Projects, PickedProject(c, p) PROVE CandidatesKnown'
  BY <1>12, StartFollows DEF PickedProject, ReconReloads
<1>13. ASSUME NEW c \in Calls, NEW p \in Projects, ReconKeeps(c, p) PROVE CandidatesKnown'
  BY <1>13, StartFollows DEF ReconKeeps, Claims, ReconReloads
<1>14. ASSUME NEW c \in Calls, ReloadFinalState(c) PROVE CandidatesKnown'
  BY <1>14, StartFollows DEF ReloadFinalState, MutTo, At, Await
<1>15. ASSUME NEW k \in Creates, NEW p \in Projects, SelectProject(k, p) PROVE CandidatesKnown'
  BY <1>15 DEF SelectProject, At, Await
<1>16. ASSUME NEW k \in Creates, CreateFails(k) PROVE CandidatesKnown'
  BY <1>16 DEF CreateFails, Answer, At, Await
<1>17. ASSUME NEW k \in Creates, CreateLoads(k) PROVE CandidatesKnown'
  BY <1>17 DEF CreateLoads, WatchFiles, Answer, At, Await
<1>18. ASSUME NEW k \in Creates, Ready(k) PROVE CandidatesKnown'
  BY <1>18 DEF Ready, At, Await
<1>19. CASE Reread
  BY <1>19 DEF Reread, Discard, At, Await, Inactive
<1>20. CASE RereadApplied
  BY <1>20 DEF RereadApplied, MutTo, WatchFiles, Answer, At, Await, Inactive
<1>21. CASE RereadFails
  BY <1>21 DEF RereadFails, MutTo, Answer, At, Await, Inactive
<1>22. CASE BeginMutation
  BY <1>22 DEF BeginMutation, MutTo, At, Await, Inactive
<1>23. CASE ReleaseMutation
  BY <1>23 DEF ReleaseMutation, FlushAll, Enqueue, Discard, At, Await, Inactive
<1>24. CASE FileEvent \/ HeadChange \/ ReleaseReview \/ PickedNothing \/ PickedDuringMutation \/
         DebounceEnds \/ HeadTimerFires \/ ReconGivesUp \/ ReconFindsNothing \/ ReconAsks \/
         ReconDone
  BY <1>24 DEF FileEvent, HeadChange, Discard, ReleaseReview, FlushAll, Enqueue, PickedNothing,
    EndRecon, PickedDuringMutation, DebounceEnds, HeadTimerFires, ReconGivesUp, ReconFindsNothing,
    Claims, ClearProject, ReconAsks, ReconDone
<1>25. CASE UNCHANGED vars
  BY <1>25 DEF vars
<1>. QED
  BY <1>1, <1>2, <1>3, <1>4, <1>5, <1>6, <1>7, <1>8, <1>9, <1>10, <1>11, <1>12, <1>13, <1>14,
    <1>15, <1>16, <1>17, <1>18, <1>19, <1>20, <1>21, <1>22, <1>23, <1>24, <1>25 DEF Next, Requests,
    DrainStep, CallStep, CreateStep, RereadStep, ReconStep

\* Generations of calls are numbers the panel has reached.
LEMMA CallGens ==
  ASSUME TypesOK, GensReached
  PROVE  reloadGen \in Nat /\ \A c \in Calls : call[c].work.gen \in Nat /\ call[c].work.gen <= reloadGen
  BY AwaitFields, AwaitTypes DEF TypesOK, NumbersOK, GensReached

\* A call that begins supersedes all others, and none comes back.
LEMMA LeaderStep == TypesOK /\ GensReached /\ OneCallLeads /\ [Next]_vars => OneCallLeads'
<1>. SUFFICES ASSUME TypesOK, GensReached, OneCallLeads, [Next]_vars PROVE OneCallLeads'
  OBVIOUS
<1>. USE CallGens
<1>. USE DEF OneCallLeads, Superseded, panel, bursts, files, creation, mutation, head, events
<1>1. CASE StartDrain
  BY <1>1, TurnFollows DEF StartDrain, Reloads
<1>2. CASE DrainSuperseded
  BY <1>2, TurnFollows DEF DrainSuperseded, Reloads
<1>3. CASE DrainFails
  BY <1>3, TurnFollows DEF DrainFails, Answer, Reloads
<1>4. CASE DrainScanned
  BY <1>4, TurnFollows DEF DrainScanned, WatchFiles, Reloads
<1>5. ASSUME NEW c \in Calls, CallSuperseded(c) PROVE OneCallLeads'
  BY <1>5, ReturnFollows DEF CallSuperseded
<1>6. ASSUME NEW c \in Calls, CallFails(c) PROVE OneCallLeads'
  BY <1>6, ReturnFollows DEF CallFails, ClearProject
<1>7. ASSUME NEW c \in Calls, CallScanned(c) PROVE OneCallLeads'
  BY <1>7, FlushFollows DEF CallScanned
<1>8. ASSUME NEW c \in Calls, CallLoads(c) PROVE OneCallLeads'
  BY <1>8, ScansFollow DEF CallLoads, Stages
<1>9. ASSUME NEW c \in Calls, Refresh(c) PROVE OneCallLeads'
  BY <1>9, StartFollows DEF Refresh
<1>10. ASSUME NEW c \in Calls, NEW p \in Projects, ChangeProject(c, p) PROVE OneCallLeads'
  BY <1>10, StartFollows DEF ChangeProject
<1>11. ASSUME NEW c \in Calls, NEW p \in Projects, PickedProject(c, p) PROVE OneCallLeads'
  BY <1>11, StartFollows DEF PickedProject, ReconReloads
<1>12. ASSUME NEW c \in Calls, NEW p \in Projects, ReconKeeps(c, p) PROVE OneCallLeads'
  BY <1>12, StartFollows DEF ReconKeeps, Claims, ReconReloads
<1>13. ASSUME NEW c \in Calls, ReloadFinalState(c) PROVE OneCallLeads'
  BY <1>13, StartFollows DEF ReloadFinalState, MutTo
<1>14. CASE FileEvent \/ HeadChange \/ (\E k \in Creates : Ready(k)) \/ BeginMutation \/ Reread \/
         ReleaseMutation \/ ReleaseReview
  BY <1>14 DEF FileEvent, HeadChange, Discard, Ready, BeginMutation, MutTo, Reread,
    ReleaseMutation, FlushAll, Enqueue, ReleaseReview
<1>15. CASE PickedNothing \/ PickedDuringMutation \/ DebounceEnds \/ DrainRead \/
         (\E k \in Creates, p \in Projects : SelectProject(k, p)) \/
         (\E k \in Creates : CreateFails(k)) \/ (\E k \in Creates : CreateLoads(k))
  BY <1>15 DEF PickedNothing, EndRecon, PickedDuringMutation, DebounceEnds, Enqueue, DrainRead,
    Answer, SelectProject, CreateFails, CreateLoads, WatchFiles
<1>16. CASE RereadApplied \/ RereadFails \/ HeadTimerFires \/ ReconGivesUp \/ ReconFindsNothing \/
         ReconAsks \/ ReconDone
  BY <1>16 DEF RereadApplied, MutTo, WatchFiles, Answer, RereadFails, HeadTimerFires, ReconGivesUp,
    EndRecon, ReconFindsNothing, Claims, ClearProject, Discard, ReconAsks, ReconDone
<1>17. CASE UNCHANGED vars
  BY <1>17 DEF vars
<1>. QED
  BY <1>1, <1>2, <1>3, <1>4, <1>5, <1>6, <1>7, <1>8, <1>9, <1>10, <1>11, <1>12, <1>13, <1>14,
    <1>15, <1>16, <1>17 DEF Next, Requests, DrainStep, CallStep, CreateStep, RereadStep, ReconStep

-----------------------------------------------------------------------------
(* What is shown.                                                          *)

\* A call is one of the same project only if that is selected as it begins.
LEMMA StartSame ==
  ASSUME TypesOK, NEW c \in Calls, NEW p, NEW who, StartCall(c, p, who)
  PROVE  call'[c].same => selected = p
  BY DEF StartCall, TypesOK, CallOK

\* A turn takes what is pending or leaves it, and defers only behind a mutation.
LEMMA TurnWaits ==
  ASSUME TypesOK, NEW gen, NEW by, TakeTurns(gen, by)
  PROVE  /\ pendingGen' \in {pendingGen, NoGen}
         /\ deferred' => deferred \/ (busy /\ reloadGen \in {gen, pendingGen})
  BY DEF TakeTurns, bursts, Defers, TypesOK, FlagsOK

\* The reload chain, its head, its tail and what joins it, element by element.
LEMMA ChainGens ==
  ASSUME TypesOK
  PROVE  /\ Len(chain) \in Nat
         /\ \A i \in 1 .. Len(chain) :
              chain[i].gen \in Nat /\ chain[i].gen <= reloadGen /\ chain[i].gen # NoGen
         /\ chain # <<>> => Head(chain) = chain[1] /\ 1 \in 1 .. Len(chain)
         /\ chain # <<>> =>
              /\ Len(Tail(chain)) \in Nat /\ Len(Tail(chain)) <= Len(chain)
              /\ \A i \in 1 .. Len(Tail(chain)) :
                   i + 1 \in 1 .. Len(chain) /\ Tail(chain)[i] = chain[i + 1]
         /\ \A e : Len(Append(chain, e)) = Len(chain) + 1 /\ Append(chain, e)[Len(chain) + 1] = e
                   /\ \A i \in 1 .. Len(chain) : Append(chain, e)[i] = chain[i]
<1>1. chain \in Seq(Bursts(reloadGen)) /\ reloadGen \in Nat
  BY DEF TypesOK, ChainOK, NumbersOK
<1>2. \A i \in 1 .. Len(chain) : chain[i] \in Bursts(reloadGen)
  BY <1>1
<1>3. \A i \in 1 .. Len(chain) :
        chain[i].gen \in Nat /\ chain[i].gen <= reloadGen /\ chain[i].gen # NoGen
  BY <1>1, <1>2 DEF Bursts, NoGen
<1>. QED
  BY <1>1, <1>3

\* Generations of reads and first loads are numbers the panel has reached.
LEMMA OtherGens ==
  ASSUME TypesOK, GensReached
  PROVE  /\ reloadGen \in Nat /\ reloadGen # NoGen
         /\ drain.work.gen \in Nat /\ drain.work.gen <= reloadGen
         /\ mut.gen \in Nat /\ mut.gen <= reloadGen
         /\ \A k \in Creates : create[k].gen \in Nat /\ create[k].gen <= reloadGen
  BY AwaitFields, AwaitTypes DEF TypesOK, NumbersOK, GensReached, NoGen

\* A reread goes on with its project shown, or superseded.
LEMMA RereadsStep == TypesOK /\ GensReached /\ CandidatesKnown /\ RereadsAreOfShown /\ [Next]_vars
  => RereadsAreOfShown'
<1>. SUFFICES ASSUME TypesOK, GensReached, CandidatesKnown, RereadsAreOfShown, [Next]_vars PROVE
  RereadsAreOfShown'
  OBVIOUS
<1>. USE OtherGens, NoProjectAssumption
<1>. USE DEF CandidatesKnown, RereadsAreOfShown, panel, bursts, files, creation, mutation, head,
  events
<1>1. CASE StartDrain
  BY <1>1, TurnFollows DEF StartDrain, Reloads
<1>2. CASE DrainSuperseded
  BY <1>2, TurnFollows DEF DrainSuperseded, Reloads
<1>3. CASE DrainFails
  BY <1>3, TurnFollows DEF DrainFails, Answer, Reloads
<1>4. CASE DrainScanned
  BY <1>4, TurnFollows DEF DrainScanned, WatchFiles, Reloads
<1>5. CASE DrainRead
  BY <1>5, ScansFollow DEF DrainRead, Answer
<1>6. CASE Reread
  BY <1>6 DEF Reread, Discard, At, Await, Inactive
<1>7. CASE RereadApplied
  BY <1>7 DEF RereadApplied, MutTo, WatchFiles, Answer, At, Await, Inactive
<1>8. CASE RereadFails
  BY <1>8 DEF RereadFails, MutTo, Answer, At, Await, Inactive
<1>9. CASE BeginMutation
  BY <1>9 DEF BeginMutation, MutTo, At, Await, Inactive
<1>10. CASE ReleaseMutation
  BY <1>10 DEF ReleaseMutation, FlushAll, Enqueue, Discard, At, Await, Inactive
<1>11. ASSUME NEW c \in Calls, ReloadFinalState(c) PROVE RereadsAreOfShown'
  BY <1>11 DEF ReloadFinalState, StartCall, Discard, MutTo, At, Await
<1>12. ASSUME NEW c \in Calls, CallFails(c) PROVE RereadsAreOfShown'
  BY <1>12 DEF CallFails, CallReturns, ClearProject, Discard, Answer
<1>13. ASSUME NEW c \in Calls, CallLoads(c) PROVE RereadsAreOfShown'
  BY <1>13 DEF CallLoads, CallTo, WatchFiles, Answer, Discard
<1>14. CASE ReconFindsNothing
  BY <1>14 DEF ReconFindsNothing, Claims, ClearProject, Discard, EndRecon
<1>15. CASE ReconAsks
  BY <1>15 DEF ReconAsks, Claims, ClearProject, Discard
<1>16. CASE FileEvent \/ HeadChange \/ (\E c \in Calls : Refresh(c)) \/
         (\E c \in Calls, p \in Projects : ChangeProject(c, p)) \/ (\E k \in Creates : Ready(k))
  BY <1>16 DEF FileEvent, HeadChange, Discard, Refresh, StartCall, ChangeProject, Ready
<1>17. CASE ReleaseReview \/ PickedNothing \/ PickedDuringMutation \/
         (\E c \in Calls, p \in Projects : PickedProject(c, p)) \/ DebounceEnds
  BY <1>17 DEF ReleaseReview, FlushAll, Enqueue, Discard, PickedNothing, EndRecon,
    PickedDuringMutation, PickedProject, ReconReloads, StartCall, DebounceEnds
<1>18. CASE (\E c \in Calls : CallSuperseded(c)) \/ (\E c \in Calls : CallScanned(c)) \/
         (\E k \in Creates, p \in Projects : SelectProject(k, p)) \/
         (\E k \in Creates : CreateFails(k)) \/ (\E k \in Creates : CreateLoads(k))
  BY <1>18 DEF CallSuperseded, CallReturns, CallScanned, Enqueue, SelectProject, CreateFails,
    Answer, CreateLoads, WatchFiles
<1>19. CASE HeadTimerFires \/ ReconGivesUp \/ (\E c \in Calls, p \in Projects : ReconKeeps(c, p)) \/
         ReconDone
  BY <1>19 DEF HeadTimerFires, ReconGivesUp, EndRecon, ReconKeeps, Claims, ReconReloads, StartCall,
    Discard, ReconDone
<1>20. CASE UNCHANGED vars
  BY <1>20 DEF vars
<1>. QED
  BY <1>1, <1>2, <1>3, <1>4, <1>5, <1>6, <1>7, <1>8, <1>9, <1>10, <1>11, <1>12, <1>13, <1>14,
    <1>15, <1>16, <1>17, <1>18, <1>19, <1>20 DEF Next, Requests, DrainStep, CallStep, CreateStep,
    RereadStep, ReconStep

\* A call of the selected project is superseded before another is selected.
LEMMA SameStep == TypesOK /\ GensReached /\ OneCallLeads /\ SameStays /\ [Next]_vars => SameStays'
<1>. SUFFICES ASSUME TypesOK, GensReached, OneCallLeads, SameStays, [Next]_vars PROVE SameStays'
  OBVIOUS
<1>. USE CallGens
<1>. USE DEF OneCallLeads, SameStays, Superseded, panel, bursts, files, creation, mutation, head,
  events
<1>1. ASSUME NEW c \in Calls, Refresh(c) PROVE SameStays'
  BY <1>1, StartFollows, StartSame DEF Refresh
<1>2. ASSUME NEW c \in Calls, NEW p \in Projects, ChangeProject(c, p) PROVE SameStays'
  BY <1>2, StartFollows, StartSame DEF ChangeProject
<1>3. ASSUME NEW c \in Calls, NEW p \in Projects, PickedProject(c, p) PROVE SameStays'
  BY <1>3, StartFollows, StartSame DEF PickedProject, ReconReloads
<1>4. ASSUME NEW c \in Calls, NEW p \in Projects, ReconKeeps(c, p) PROVE SameStays'
  BY <1>4, StartFollows, StartSame DEF ReconKeeps, Claims, ReconReloads
<1>5. ASSUME NEW c \in Calls, ReloadFinalState(c) PROVE SameStays'
  BY <1>5, StartFollows, StartSame DEF ReloadFinalState, MutTo
<1>6. CASE StartDrain
  BY <1>6, TurnFollows DEF StartDrain
<1>7. CASE DrainSuperseded
  BY <1>7, TurnFollows DEF DrainSuperseded
<1>8. CASE DrainFails
  BY <1>8, TurnFollows DEF DrainFails, Answer
<1>9. CASE DrainScanned
  BY <1>9, TurnFollows DEF DrainScanned, WatchFiles
<1>10. ASSUME NEW c \in Calls, CallSuperseded(c) PROVE SameStays'
  BY <1>10, ReturnFollows DEF CallSuperseded
<1>11. ASSUME NEW c \in Calls, CallFails(c) PROVE SameStays'
  BY <1>11, ReturnFollows DEF CallFails, ClearProject
<1>12. ASSUME NEW c \in Calls, CallScanned(c) PROVE SameStays'
  BY <1>12, FlushFollows DEF CallScanned
<1>13. ASSUME NEW c \in Calls, CallLoads(c) PROVE SameStays'
  BY <1>13, ScansFollow DEF CallLoads, Stages
<1>14. ASSUME NEW k \in Creates, NEW p \in Projects, SelectProject(k, p) PROVE SameStays'
  BY <1>14 DEF SelectProject, Overtakes
<1>15. CASE FileEvent \/ HeadChange \/ (\E k \in Creates : Ready(k)) \/ BeginMutation \/ Reread \/
         ReleaseMutation \/ ReleaseReview
  BY <1>15 DEF FileEvent, HeadChange, Discard, Ready, BeginMutation, MutTo, Reread,
    ReleaseMutation, FlushAll, Enqueue, ReleaseReview
<1>16. CASE PickedNothing \/ PickedDuringMutation \/ DebounceEnds \/ DrainRead \/
         (\E k \in Creates : CreateFails(k)) \/ (\E k \in Creates : CreateLoads(k)) \/ RereadApplied
  BY <1>16 DEF PickedNothing, EndRecon, PickedDuringMutation, DebounceEnds, Enqueue, DrainRead,
    Answer, CreateFails, CreateLoads, WatchFiles, RereadApplied, MutTo
<1>17. CASE RereadFails \/ HeadTimerFires \/ ReconGivesUp \/ ReconFindsNothing \/ ReconAsks \/
         ReconDone
  BY <1>17 DEF RereadFails, MutTo, Answer, HeadTimerFires, ReconGivesUp, EndRecon,
    ReconFindsNothing, Claims, ClearProject, Discard, ReconAsks, ReconDone
<1>18. CASE UNCHANGED vars
  BY <1>18 DEF vars
<1>. QED
  BY <1>1, <1>2, <1>3, <1>4, <1>5, <1>6, <1>7, <1>8, <1>9, <1>10, <1>11, <1>12, <1>13, <1>14,
    <1>15, <1>16, <1>17, <1>18 DEF Next, Requests, DrainStep, CallStep, CreateStep, RereadStep,
    ReconStep

\* A first load that is ahead of everybody keeps what it selected.
LEMMA FirstLoadStep == TypesOK /\ GensReached /\ CandidatesKnown /\ FirstLoadSelected /\
  [Next]_vars => FirstLoadSelected'
<1>. SUFFICES ASSUME TypesOK, GensReached, CandidatesKnown, FirstLoadSelected, [Next]_vars PROVE
  FirstLoadSelected'
  OBVIOUS
<1>. USE OtherGens, NoProjectAssumption
<1>. USE DEF CandidatesKnown, FirstLoadSelected, panel, bursts, files, creation, mutation, head,
  events
<1>1. ASSUME NEW k \in Creates, NEW p \in Projects, SelectProject(k, p) PROVE FirstLoadSelected'
  BY <1>1 DEF SelectProject, Overtakes, Await, TypesOK, CreateOK
<1>2. ASSUME NEW k \in Creates, CreateFails(k) PROVE FirstLoadSelected'
  BY <1>2 DEF CreateFails, Answer, At, Await, TypesOK, CreateOK
<1>3. ASSUME NEW k \in Creates, CreateLoads(k) PROVE FirstLoadSelected'
  BY <1>3 DEF CreateLoads, WatchFiles, Answer, At, Await, TypesOK, CreateOK
<1>4. ASSUME NEW k \in Creates, Ready(k) PROVE FirstLoadSelected'
  BY <1>4 DEF Ready, At, Await, TypesOK, CreateOK
<1>5. CASE FileEvent \/ HeadChange \/ (\E c \in Calls : Refresh(c)) \/
         (\E c \in Calls, p \in Projects : ChangeProject(c, p)) \/ BeginMutation
  BY <1>5 DEF FileEvent, HeadChange, Discard, Refresh, StartCall, ChangeProject, BeginMutation,
    MutTo
<1>6. CASE Reread \/ ReleaseMutation \/ ReleaseReview \/ (\E c \in Calls : ReloadFinalState(c)) \/
         PickedNothing
  BY <1>6 DEF Reread, Discard, ReleaseMutation, FlushAll, Enqueue, ReleaseReview, ReloadFinalState,
    StartCall, MutTo, PickedNothing, EndRecon
<1>7. CASE PickedDuringMutation \/ (\E c \in Calls, p \in Projects : PickedProject(c, p)) \/
         DebounceEnds \/ StartDrain \/ DrainSuperseded
  BY <1>7 DEF PickedDuringMutation, EndRecon, PickedProject, ReconReloads, StartCall, Discard,
    DebounceEnds, Enqueue, StartDrain, TakeTurns, StartReading, Settle, DrainSuperseded
<1>8. CASE DrainFails \/ DrainRead \/ DrainScanned \/ (\E c \in Calls : CallSuperseded(c)) \/
         (\E c \in Calls : CallFails(c))
  BY <1>8 DEF DrainFails, TakeTurns, StartReading, Settle, Answer, DrainRead, DrainScanned,
    WatchFiles, CallSuperseded, CallReturns, CallFails, ClearProject, Discard
<1>9. CASE (\E c \in Calls : CallLoads(c)) \/ (\E c \in Calls : CallScanned(c)) \/ RereadApplied \/
         RereadFails \/ HeadTimerFires
  BY <1>9 DEF CallLoads, CallTo, WatchFiles, Answer, Discard, CallScanned, CallReturns, Enqueue,
    RereadApplied, MutTo, RereadFails, HeadTimerFires
<1>10. CASE ReconGivesUp \/ ReconFindsNothing \/ ReconAsks \/
         (\E c \in Calls, p \in Projects : ReconKeeps(c, p)) \/ ReconDone
  BY <1>10 DEF ReconGivesUp, EndRecon, ReconFindsNothing, Claims, ClearProject, Discard, ReconAsks,
    ReconKeeps, ReconReloads, StartCall, ReconDone
<1>11. CASE UNCHANGED vars
  BY <1>11 DEF vars
<1>. QED
  BY <1>1, <1>2, <1>3, <1>4, <1>5, <1>6, <1>7, <1>8, <1>9, <1>10, <1>11 DEF Next, Requests,
    DrainStep, CallStep, CreateStep, RereadStep, ReconStep

\* What the reload chain owes is what joined it, unless the panel moves on.
LEMMA ChainOwes ==
  ASSUME TypesOK
  PROVE  /\ UNCHANGED <<chain, reloadGen>> => (OwedOnChain' <=> OwedOnChain)
         /\ UNCHANGED chain /\ reloadGen' = reloadGen + 1 => ~OwedOnChain'
         /\ UNCHANGED reloadGen /\ chain # <<>> /\ chain' = Tail(chain) =>
              (OwedOnChain <=> OwedOnChain' \/ Head(chain).gen = reloadGen)
         /\ UNCHANGED reloadGen =>
              \A gen, by : Enqueue(gen, by) => (OwedOnChain' <=> OwedOnChain \/ gen = reloadGen)
<1>. USE ChainGens DEF OwedOnChain
<1>0. reloadGen \in Nat
  BY DEF TypesOK, NumbersOK
<1>1. UNCHANGED chain /\ reloadGen' = reloadGen + 1 => ~OwedOnChain'
  BY <1>0
<1>2. ASSUME UNCHANGED reloadGen, chain # <<>>, chain' = Tail(chain)
      PROVE  OwedOnChain <=> OwedOnChain' \/ Head(chain).gen = reloadGen
  <2>1. ASSUME NEW i \in 1 .. Len(chain), chain[i].gen = reloadGen, i # 1 PROVE OwedOnChain'
    <3>1. i - 1 \in 1 .. Len(Tail(chain)) /\ chain'[i - 1] = chain[i]
      BY <1>2, <2>1 DEF TypesOK, ChainOK
    <3>. QED
      BY <1>2, <2>1, <3>1
  <2>2. OwedOnChain' => OwedOnChain
    BY <1>2
  <2>. QED
    BY <1>2, <2>1, <2>2
<1>3. ASSUME UNCHANGED reloadGen, NEW gen, NEW by, Enqueue(gen, by)
      PROVE  OwedOnChain' <=> OwedOnChain \/ gen = reloadGen
  <2>. DEFINE e == [gen |-> gen, by |-> by]
  <2>1. /\ Len(chain') = Len(chain) + 1 /\ chain'[Len(chain) + 1] = e /\ Len(chain) \in Nat
        /\ \A i \in 1 .. Len(chain) : chain'[i] = chain[i]
    BY <1>3 DEF Enqueue
  <2>2. e.gen = gen
    OBVIOUS
  <2>3. gen = reloadGen => OwedOnChain'
    <3>1. Len(chain) + 1 \in 1 .. Len(chain')
      BY <2>1
    <3>. QED
      BY <1>3, <2>1, <2>2, <3>1
  <2>4. OwedOnChain => OwedOnChain'
    <3>1. \A i \in 1 .. Len(chain) : i \in 1 .. Len(chain')
      BY <2>1
    <3>. QED
      BY <1>3, <2>1, <3>1
  <2>5. OwedOnChain' => OwedOnChain \/ gen = reloadGen
    <3>1. \A i \in 1 .. Len(chain') : i \in 1 .. Len(chain) \/ i = Len(chain) + 1
      BY <2>1
    <3>. QED
      BY <1>3, <2>1, <2>2, <3>1
  <2>. QED
    BY <2>3, <2>4, <2>5
<1>. QED
  BY <1>1, <1>2, <1>3

\* Nothing is owed before a project is shown, nor after one is cleared.
LEMMA OwedStep == TypesOK /\ GensReached /\ CandidatesKnown /\ RereadsAreOfShown /\
  NothingShownNothingOwed /\ [Next]_vars => NothingShownNothingOwed'
<1>. SUFFICES ASSUME TypesOK, GensReached, CandidatesKnown, RereadsAreOfShown,
  NothingShownNothingOwed, [Next]_vars PROVE NothingShownNothingOwed'
  OBVIOUS
<1>. USE ChainOwes, NoProjectAssumption
<1>. USE DEF CandidatesKnown, RereadsAreOfShown, NothingShownNothingOwed, panel, bursts, files,
  creation, mutation, head, events
<1>1. CASE StartDrain
  <2>1. /\ pendingGen' \in {pendingGen, NoGen}
        /\ deferred' => deferred \/ reloadGen \in {Head(chain).gen, pendingGen}
    BY <1>1, TurnWaits DEF StartDrain
  <2>2. /\ UNCHANGED <<reloadGen, controller, watched, timer, raced>>
        /\ chain # <<>> /\ chain' = Tail(chain)
    BY <1>1 DEF StartDrain, panel, events
  <2>. QED
    BY <2>1, <2>2, OtherGens
<1>2. CASE DrainSuperseded
  BY <1>2, TurnWaits, OtherGens DEF DrainSuperseded, NoGen
<1>3. CASE DrainFails
  BY <1>3, TurnWaits, OtherGens DEF DrainFails, Answer, NoGen
<1>4. CASE DrainScanned
  BY <1>4, TurnWaits, OtherGens DEF DrainScanned, WatchFiles, Current, NoGen
<1>5. CASE ReleaseMutation
  BY <1>5 DEF ReleaseMutation, FlushAll, Enqueue, Discard, NoGen
<1>6. CASE ReleaseReview
  BY <1>6 DEF ReleaseReview, FlushAll, Enqueue, Discard, NoGen
<1>7. CASE FileEvent \/ HeadChange \/ (\E c \in Calls : Refresh(c)) \/
         (\E c \in Calls, p \in Projects : ChangeProject(c, p)) \/ (\E k \in Creates : Ready(k))
  BY <1>7 DEF FileEvent, HeadChange, Discard, Refresh, StartCall, ChangeProject, Ready
<1>8. CASE BeginMutation \/ Reread \/ (\E c \in Calls : ReloadFinalState(c)) \/ PickedNothing \/
         PickedDuringMutation
  BY <1>8 DEF BeginMutation, MutTo, Reread, Discard, ReloadFinalState, StartCall, PickedNothing,
    EndRecon, PickedDuringMutation
<1>9. CASE (\E c \in Calls, p \in Projects : PickedProject(c, p)) \/ DebounceEnds \/ DrainRead \/
         (\E c \in Calls : CallSuperseded(c)) \/ (\E c \in Calls : CallFails(c))
  BY <1>9 DEF PickedProject, ReconReloads, StartCall, Discard, DebounceEnds, Enqueue, DrainRead,
    Answer, CallSuperseded, CallReturns, CallFails, ClearProject
<1>10. CASE (\E c \in Calls : CallLoads(c)) \/ (\E c \in Calls : CallScanned(c)) \/
         (\E k \in Creates, p \in Projects : SelectProject(k, p)) \/
         (\E k \in Creates : CreateFails(k)) \/ (\E k \in Creates : CreateLoads(k))
  BY <1>10 DEF CallLoads, CallTo, WatchFiles, Answer, Discard, CallScanned, CallReturns, Enqueue,
    SelectProject, CreateFails, CreateLoads
<1>11. CASE RereadApplied \/ RereadFails \/ HeadTimerFires \/ ReconGivesUp \/ ReconFindsNothing
  BY <1>11 DEF RereadApplied, MutTo, WatchFiles, Answer, RereadFails, HeadTimerFires, ReconGivesUp,
    EndRecon, ReconFindsNothing, Claims, ClearProject, Discard
<1>12. CASE ReconAsks \/ (\E c \in Calls, p \in Projects : ReconKeeps(c, p)) \/ ReconDone
  BY <1>12 DEF ReconAsks, Claims, ClearProject, Discard, ReconKeeps, ReconReloads, StartCall,
    ReconDone, EndRecon
<1>13. CASE UNCHANGED vars
  BY <1>13 DEF vars
<1>. QED
  BY <1>1, <1>2, <1>3, <1>4, <1>5, <1>6, <1>7, <1>8, <1>9, <1>10, <1>11, <1>12, <1>13 DEF Next,
    Requests, DrainStep, CallStep, CreateStep, RereadStep, ReconStep

\* Whoever shows a project has it selected, and watches its files.
LEMMA SelectedStep == TypesOK /\ GensReached /\ CandidatesKnown /\ RereadsAreOfShown /\
  FirstLoadSelected /\ ShownIsSelected /\ [Next]_vars => ShownIsSelected'
<1>. SUFFICES ASSUME TypesOK, GensReached, CandidatesKnown, RereadsAreOfShown, FirstLoadSelected,
  ShownIsSelected, [Next]_vars PROVE ShownIsSelected'
  OBVIOUS
<1>. USE OtherGens, NoProjectAssumption
<1>. USE DEF CandidatesKnown, RereadsAreOfShown, FirstLoadSelected, ShownIsSelected, panel, bursts,
  files, creation, mutation, head, events
<1>1. CASE StartDrain
  BY <1>1 DEF StartDrain
<1>2. CASE DrainSuperseded
  BY <1>2 DEF DrainSuperseded
<1>3. CASE DrainFails
  BY <1>3 DEF DrainFails, Answer
<1>4. CASE DrainRead
  BY <1>4 DEF DrainRead, Answer, Current
<1>5. CASE DrainScanned
  BY <1>5 DEF DrainScanned, WatchFiles, Current
<1>6. CASE RereadApplied
  BY <1>6 DEF RereadApplied, MutTo, WatchFiles, Answer, RereadCurrent
<1>7. ASSUME NEW k \in Creates, CreateLoads(k) PROVE ShownIsSelected'
  BY <1>7 DEF CreateLoads, WatchFiles, Answer, Overtakes
<1>8. ASSUME NEW k \in Creates, NEW p \in Projects, SelectProject(k, p) PROVE ShownIsSelected'
  BY <1>8 DEF SelectProject, Overtakes
<1>9. CASE FileEvent \/ HeadChange \/ (\E c \in Calls : Refresh(c)) \/
         (\E c \in Calls, p \in Projects : ChangeProject(c, p)) \/ (\E k \in Creates : Ready(k))
  BY <1>9 DEF FileEvent, HeadChange, Discard, Refresh, StartCall, ChangeProject, Ready
<1>10. CASE BeginMutation \/ Reread \/ ReleaseMutation \/ ReleaseReview \/
         (\E c \in Calls : ReloadFinalState(c))
  BY <1>10 DEF BeginMutation, MutTo, Reread, Discard, ReleaseMutation, FlushAll, Enqueue,
    ReleaseReview, ReloadFinalState, StartCall
<1>11. CASE PickedNothing \/ PickedDuringMutation \/
         (\E c \in Calls, p \in Projects : PickedProject(c, p)) \/ DebounceEnds \/
         (\E c \in Calls : CallSuperseded(c))
  BY <1>11 DEF PickedNothing, EndRecon, PickedDuringMutation, PickedProject, ReconReloads,
    StartCall, Discard, DebounceEnds, Enqueue, CallSuperseded, CallReturns
<1>12. CASE (\E c \in Calls : CallFails(c)) \/ (\E c \in Calls : CallLoads(c)) \/
         (\E c \in Calls : CallScanned(c)) \/ (\E k \in Creates : CreateFails(k)) \/ RereadFails
  BY <1>12 DEF CallFails, CallReturns, ClearProject, Discard, Answer, CallLoads, CallTo,
    WatchFiles, CallScanned, Enqueue, CreateFails, RereadFails, MutTo
<1>13. CASE HeadTimerFires \/ ReconGivesUp \/ ReconFindsNothing \/ ReconAsks \/
         (\E c \in Calls, p \in Projects : ReconKeeps(c, p))
  BY <1>13 DEF HeadTimerFires, ReconGivesUp, EndRecon, ReconFindsNothing, Claims, ClearProject,
    Discard, ReconAsks, ReconKeeps, ReconReloads, StartCall
<1>14. CASE ReconDone
  BY <1>14 DEF ReconDone, EndRecon
<1>15. CASE UNCHANGED vars
  BY <1>15 DEF vars
<1>. QED
  BY <1>1, <1>2, <1>3, <1>4, <1>5, <1>6, <1>7, <1>8, <1>9, <1>10, <1>11, <1>12, <1>13, <1>14, <1>15
    DEF Next, Requests, DrainStep, CallStep, CreateStep, RereadStep, ReconStep

-----------------------------------------------------------------------------
(* What waits.                                                             *)

\* A turn that does not read anything leaves nothing pending, and the drain to nobody.
LEMMA TurnHolds ==
  ASSUME NEW gen, NEW by, TakeTurns(gen, by)
  PROVE  \/ /\ drain'.work = Inactive /\ drain'.by = Nobody /\ pendingGen' = NoGen
            /\ headTimer \/ (by = Releaser /\ headPending) => headTimer'
         \/ drain'.work.stage = "reading" /\ drain'.by = by /\ (headTimer => headTimer')
<1>1. ASSUME Settle(by) PROVE headTimer \/ (by = Releaser /\ headPending) => headTimer'
  <2>1. headTimer' = (headTimer \/ (by = Releaser /\ headPending))
    BY <1>1 DEF Settle
  <2>. QED
    BY <2>1, Zenon
<1>2. ASSUME Settle(by) PROVE drain'.work = Inactive /\ drain'.by = Nobody
  BY <1>2 DEF Settle
<1>3. ASSUME NEW g, StartReading(g, by)
      PROVE  drain'.work.stage = "reading" /\ drain'.by = by /\ (headTimer => headTimer')
  BY <1>3 DEF StartReading, Await
<1>. QED
  BY <1>1, <1>2, <1>3 DEF TakeTurns

\* Who awaits a burst joined the reload chain with it.
LEMMA ChainAwaits ==
  ASSUME TypesOK, NEW who
  PROVE  /\ UNCHANGED chain => (Awaits(who)' <=> Awaits(who))
         /\ chain # <<>> /\ chain' = Tail(chain) =>
              (Awaits(who) <=> Awaits(who)' \/ Head(chain).by = who)
         /\ \A gen, by : Enqueue(gen, by) => chain' # <<>> /\ (Awaits(who)' <=> Awaits(who) \/ by = who)
<1>. USE ChainGens DEF Awaits
<1>1. ASSUME chain # <<>>, chain' = Tail(chain)
      PROVE  Awaits(who) <=> Awaits(who)' \/ Head(chain).by = who
  <2>1. ASSUME NEW i \in 1 .. Len(chain), chain[i].by = who, i # 1 PROVE Awaits(who)'
    <3>1. i - 1 \in 1 .. Len(Tail(chain)) /\ chain'[i - 1] = chain[i]
      BY <1>1, <2>1 DEF TypesOK, ChainOK
    <3>. QED
      BY <1>1, <2>1, <3>1
  <2>2. Awaits(who)' => Awaits(who)
    BY <1>1
  <2>. QED
    BY <1>1, <2>1, <2>2
<1>2. ASSUME NEW gen, NEW by, Enqueue(gen, by)
      PROVE  chain' # <<>> /\ (Awaits(who)' <=> Awaits(who) \/ by = who)
  <2>. DEFINE e == [gen |-> gen, by |-> by]
  <2>1. /\ Len(chain') = Len(chain) + 1 /\ chain'[Len(chain) + 1] = e /\ Len(chain) \in Nat
        /\ \A i \in 1 .. Len(chain) : chain'[i] = chain[i]
        /\ chain' # <<>>
    BY <1>2 DEF Enqueue, TypesOK, ChainOK
  <2>2. e.by = by
    OBVIOUS
  <2>3. by = who => Awaits(who)'
    <3>1. Len(chain) + 1 \in 1 .. Len(chain')
      BY <2>1
    <3>. QED
      BY <2>1, <2>2, <3>1
  <2>4. Awaits(who) => Awaits(who)'
    <3>1. \A i \in 1 .. Len(chain) : i \in 1 .. Len(chain')
      BY <2>1
    <3>. QED
      BY <2>1, <2>2, <3>1
  <2>5. Awaits(who)' => Awaits(who) \/ by = who
    <3>1. \A i \in 1 .. Len(chain') : i \in 1 .. Len(chain) \/ i = Len(chain) + 1
      BY <2>1
    <3>. QED
      BY <2>1, <2>2, <3>1
  <2>. QED
    BY <2>1, <2>3, <2>4, <2>5
<1>. QED
  BY <1>1, <1>2

\* The same of the release of a mutation.
LEMMA ReleaseAwaits ==
  ASSUME TypesOK
  PROVE  /\ UNCHANGED chain => (Awaits(Releaser)' <=> Awaits(Releaser))
         /\ chain # <<>> /\ chain' = Tail(chain) =>
              (Awaits(Releaser) <=> Awaits(Releaser)' \/ Head(chain).by = Releaser)
         /\ \A gen, by : Enqueue(gen, by) =>
              (Awaits(Releaser)' <=> Awaits(Releaser) \/ by = Releaser)
  BY ChainAwaits, Releaser' = Releaser

\* Whoever cancels the timer of a pending event, or takes its turn, flushes it or stands by.
LEMMA PendingFlushedStep == TypesOK /\ NothingShownNothingOwed /\ PendingIsFlushed /\ [Next]_vars
  => PendingIsFlushed'
<1>. SUFFICES ASSUME TypesOK, NothingShownNothingOwed, PendingIsFlushed, [Next]_vars PROVE
  PendingIsFlushed'
  OBVIOUS
<1>. USE DEF PendingIsFlushed, busy, Superseded, panel, bursts, files, creation, mutation, head,
  events
<1>1. CASE StartDrain
  BY <1>1, NothingAwaited, TurnHolds DEF StartDrain
<1>2. CASE DrainSuperseded
  BY <1>2, NothingAwaited, TurnHolds DEF DrainSuperseded
<1>3. CASE DrainFails
  BY <1>3, NothingAwaited, TurnHolds DEF DrainFails, Answer
<1>4. CASE DrainScanned
  BY <1>4, NothingAwaited, TurnHolds DEF DrainScanned, WatchFiles
<1>5. CASE DrainRead
  BY <1>5, ScansFollow, NothingAwaited DEF DrainRead, Answer
<1>6. ASSUME NEW c \in Calls, Refresh(c) PROVE PendingIsFlushed'
  BY <1>6 DEF Refresh, StartCall, Discard, StartCall
<1>7. ASSUME NEW c \in Calls, NEW p \in Projects, ChangeProject(c, p) PROVE PendingIsFlushed'
  BY <1>7 DEF ChangeProject, StartCall, Discard, StartCall
<1>8. ASSUME NEW c \in Calls, NEW p \in Projects, PickedProject(c, p) PROVE PendingIsFlushed'
  BY <1>8 DEF PickedProject, ReconReloads, StartCall, Discard, StartCall
<1>9. ASSUME NEW c \in Calls, NEW p \in Projects, ReconKeeps(c, p) PROVE PendingIsFlushed'
  BY <1>9 DEF ReconKeeps, Claims, ReconReloads, StartCall, Discard, StartCall
<1>10. ASSUME NEW c \in Calls, ReloadFinalState(c) PROVE PendingIsFlushed'
  BY <1>10 DEF ReloadFinalState, StartCall, Discard, MutTo, At, Await
<1>11. ASSUME NEW c \in Calls, CallSuperseded(c) PROVE PendingIsFlushed'
  BY <1>11, ReturnFollows DEF CallSuperseded, Superseded
<1>12. ASSUME NEW c \in Calls, CallFails(c) PROVE PendingIsFlushed'
  BY <1>12, ReturnFollows DEF CallFails, ClearProject, Discard, Answer, Superseded
<1>13. ASSUME NEW c \in Calls, CallLoads(c) PROVE PendingIsFlushed'
  BY <1>13, ScansFollow DEF CallLoads, WatchFiles, Discard, Stages, Superseded
<1>14. ASSUME NEW c \in Calls, CallScanned(c) PROVE PendingIsFlushed'
  BY <1>14, ReturnFollows DEF CallScanned
<1>15. CASE RereadApplied
  BY <1>15 DEF RereadApplied, MutTo, WatchFiles, Answer, At, Await
<1>16. CASE RereadFails
  BY <1>16 DEF RereadFails, MutTo, Answer, At, Await
<1>17. CASE BeginMutation
  BY <1>17 DEF BeginMutation, MutTo, At, Await
<1>18. CASE Reread
  BY <1>18 DEF Reread, Discard, At, Await
<1>19. ASSUME NEW k \in Creates, CreateLoads(k) PROVE PendingIsFlushed'
  BY <1>19 DEF CreateLoads, WatchFiles, Answer, Overtakes, NothingShownNothingOwed
<1>20. CASE DebounceEnds
  BY <1>20 DEF DebounceEnds
<1>21. CASE ReleaseMutation
  BY <1>21 DEF ReleaseMutation, FlushAll, Discard
<1>22. CASE ReleaseReview
  BY <1>22 DEF ReleaseReview, FlushAll, Discard
<1>23. CASE FileEvent \/ HeadChange \/ (\E k \in Creates : Ready(k)) \/ PickedNothing \/
         PickedDuringMutation
  BY <1>23 DEF FileEvent, HeadChange, Discard, Ready, PickedNothing, EndRecon, PickedDuringMutation
<1>24. CASE (\E k \in Creates, p \in Projects : SelectProject(k, p)) \/
         (\E k \in Creates : CreateFails(k)) \/ HeadTimerFires \/ ReconGivesUp \/ ReconFindsNothing
  BY <1>24 DEF SelectProject, CreateFails, Answer, HeadTimerFires, ReconGivesUp, EndRecon,
    ReconFindsNothing, Claims, ClearProject, Discard
<1>25. CASE ReconAsks \/ ReconDone
  BY <1>25 DEF ReconAsks, Claims, ClearProject, Discard, ReconDone, EndRecon
<1>26. CASE UNCHANGED vars
  BY <1>26 DEF vars
<1>. QED
  BY <1>1, <1>2, <1>3, <1>4, <1>5, <1>6, <1>7, <1>8, <1>9, <1>10, <1>11, <1>12, <1>13, <1>14,
    <1>15, <1>16, <1>17, <1>18, <1>19, <1>20, <1>21, <1>22, <1>23, <1>24, <1>25, <1>26 DEF Next,
    Requests, DrainStep, CallStep, CreateStep, RereadStep, ReconStep

\* A release takes what is deferred.
LEMMA DeferredStep == TypesOK /\ DeferredWaits /\ [Next]_vars => DeferredWaits'
<1>. SUFFICES ASSUME TypesOK, DeferredWaits, [Next]_vars PROVE DeferredWaits'
  OBVIOUS
<1>. USE DEF DeferredWaits, busy, panel, bursts, files, creation, mutation, head, events
<1>1. CASE StartDrain
  BY <1>1, TurnWaits DEF StartDrain
<1>2. CASE DrainSuperseded
  BY <1>2, TurnWaits DEF DrainSuperseded
<1>3. CASE DrainFails
  BY <1>3, TurnWaits DEF DrainFails, Answer
<1>4. CASE DrainScanned
  BY <1>4, TurnWaits DEF DrainScanned, WatchFiles
<1>5. CASE BeginMutation
  BY <1>5 DEF BeginMutation, MutTo, At, Await
<1>6. CASE Reread
  BY <1>6 DEF Reread, Discard, At, Await
<1>7. ASSUME NEW c \in Calls, ReloadFinalState(c) PROVE DeferredWaits'
  BY <1>7 DEF ReloadFinalState, StartCall, Discard, MutTo, At, Await
<1>8. CASE RereadApplied
  BY <1>8 DEF RereadApplied, MutTo, WatchFiles, Answer, At, Await
<1>9. CASE RereadFails
  BY <1>9 DEF RereadFails, MutTo, Answer, At, Await
<1>10. CASE ReleaseMutation
  BY <1>10 DEF ReleaseMutation, FlushAll, Discard
<1>11. CASE FileEvent \/ HeadChange \/ (\E c \in Calls : Refresh(c)) \/
         (\E c \in Calls, p \in Projects : ChangeProject(c, p)) \/ (\E k \in Creates : Ready(k)) \/
         ReleaseReview \/ PickedNothing \/ PickedDuringMutation
  BY <1>11 DEF FileEvent, HeadChange, Discard, Refresh, StartCall, ChangeProject, Ready,
    ReleaseReview, FlushAll, Enqueue, PickedNothing, EndRecon, PickedDuringMutation
<1>12. CASE (\E c \in Calls, p \in Projects : PickedProject(c, p)) \/ DebounceEnds \/ DrainRead \/
         (\E c \in Calls : CallSuperseded(c)) \/ (\E c \in Calls : CallFails(c)) \/
         (\E c \in Calls : CallLoads(c)) \/ (\E c \in Calls : CallScanned(c)) \/
         (\E k \in Creates, p \in Projects : SelectProject(k, p))
  BY <1>12 DEF PickedProject, ReconReloads, StartCall, Discard, DebounceEnds, Enqueue, DrainRead,
    Answer, CallSuperseded, CallReturns, CallFails, ClearProject, CallLoads, CallTo, WatchFiles,
    CallScanned, SelectProject
<1>13. CASE (\E k \in Creates : CreateFails(k)) \/ (\E k \in Creates : CreateLoads(k)) \/
         HeadTimerFires \/ ReconGivesUp \/ ReconFindsNothing \/ ReconAsks \/
         (\E c \in Calls, p \in Projects : ReconKeeps(c, p)) \/ ReconDone
  BY <1>13 DEF CreateFails, Answer, CreateLoads, WatchFiles, HeadTimerFires, ReconGivesUp,
    EndRecon, ReconFindsNothing, Claims, ClearProject, Discard, ReconAsks, ReconKeeps,
    ReconReloads, StartCall, ReconDone
<1>14. CASE UNCHANGED vars
  BY <1>14 DEF vars
<1>. QED
  BY <1>1, <1>2, <1>3, <1>4, <1>5, <1>6, <1>7, <1>8, <1>9, <1>10, <1>11, <1>12, <1>13, <1>14
    DEF Next, Requests, DrainStep, CallStep, CreateStep, RereadStep, ReconStep

\* Generations of HEADs are numbers that were reached.
LEMMA HeadGens ==
  ASSUME TypesOK, GensReached
  PROVE  recon.gen \in Nat /\ headGen \in Nat /\ recon.gen <= headGen
  BY Bounds DEF TypesOK, RestOK, GensReached

\* A reconciliation that goes on is of the same HEAD.
LEMMA ReconFields ==
  ASSUME TypesOK, NEW stage
  PROVE  /\ [recon EXCEPT !.stage = stage].stage = stage
         /\ [recon EXCEPT !.stage = stage].gen = recon.gen
  BY DEF TypesOK, RestOK

\* A claimed HEAD becomes pending only with a newer one, and a drain that is over is nobody's.
LEMMA ClaimStep == TypesOK /\ GensReached /\ HeadIsClaimed /\ [Next]_vars => HeadIsClaimed'
<1>. SUFFICES ASSUME TypesOK, GensReached, HeadIsClaimed, [Next]_vars PROVE HeadIsClaimed'
  OBVIOUS
<1>. USE HeadGens, ReconFields
<1>. USE DEF HeadIsClaimed, ReconIsCurrent, panel, bursts, files, creation, mutation, head, events
<1>1. CASE StartDrain
  BY <1>1, TurnHolds, NothingAwaited DEF StartDrain
<1>2. CASE DrainSuperseded
  BY <1>2, TurnHolds, NothingAwaited DEF DrainSuperseded
<1>3. CASE DrainFails
  BY <1>3, TurnHolds, NothingAwaited DEF DrainFails, Answer
<1>4. CASE DrainScanned
  BY <1>4, TurnHolds, NothingAwaited DEF DrainScanned, WatchFiles
<1>5. ASSUME NEW c \in Calls, CallFails(c) PROVE HeadIsClaimed'
  BY <1>5 DEF CallFails, ClearProject, Discard, Answer
<1>6. ASSUME NEW c \in Calls, CallLoads(c) PROVE HeadIsClaimed'
  BY <1>6 DEF CallLoads, WatchFiles, Answer, Discard
<1>7. ASSUME NEW c \in Calls, CallScanned(c) PROVE HeadIsClaimed'
  BY <1>7 DEF CallScanned
<1>8. ASSUME NEW k \in Creates, NEW p \in Projects, SelectProject(k, p) PROVE HeadIsClaimed'
  BY <1>8 DEF SelectProject
<1>9. ASSUME NEW k \in Creates, CreateFails(k) PROVE HeadIsClaimed'
  BY <1>9 DEF CreateFails, Answer
<1>10. ASSUME NEW c \in Calls, CallSuperseded(c) PROVE HeadIsClaimed'
  BY <1>10 DEF CallSuperseded
<1>11. ASSUME NEW k \in Creates, CreateLoads(k) PROVE HeadIsClaimed'
  BY <1>11 DEF CreateLoads, WatchFiles, Answer
<1>12. CASE DrainRead
  BY <1>12, ScansFollow, NothingAwaited DEF DrainRead, Answer
<1>13. CASE FileEvent \/ HeadChange \/ (\E c \in Calls : Refresh(c)) \/
         (\E c \in Calls, p \in Projects : ChangeProject(c, p)) \/ (\E k \in Creates : Ready(k))
  BY <1>13 DEF FileEvent, HeadChange, Discard, Refresh, StartCall, ChangeProject, Ready
<1>14. CASE BeginMutation \/ Reread \/ ReleaseMutation \/ ReleaseReview \/
         (\E c \in Calls : ReloadFinalState(c))
  BY <1>14 DEF BeginMutation, MutTo, Reread, Discard, ReleaseMutation, FlushAll, Enqueue,
    ReleaseReview, ReloadFinalState, StartCall
<1>15. CASE PickedNothing \/ PickedDuringMutation \/
         (\E c \in Calls, p \in Projects : PickedProject(c, p)) \/ DebounceEnds \/ RereadApplied
  BY <1>15 DEF PickedNothing, EndRecon, PickedDuringMutation, PickedProject, ReconReloads,
    StartCall, Discard, DebounceEnds, Enqueue, RereadApplied, MutTo, WatchFiles, Answer
<1>16. CASE RereadFails \/ HeadTimerFires \/ ReconGivesUp \/ ReconFindsNothing \/ ReconAsks
  BY <1>16 DEF RereadFails, MutTo, Answer, HeadTimerFires, ReconGivesUp, EndRecon,
    ReconFindsNothing, Claims, ClearProject, Discard, ReconAsks
<1>17. CASE (\E c \in Calls, p \in Projects : ReconKeeps(c, p)) \/ ReconDone
  BY <1>17 DEF ReconKeeps, Claims, ReconReloads, StartCall, Discard, ReconDone, EndRecon
<1>18. CASE UNCHANGED vars
  BY <1>18 DEF vars
<1>. QED
  BY <1>1, <1>2, <1>3, <1>4, <1>5, <1>6, <1>7, <1>8, <1>9, <1>10, <1>11, <1>12, <1>13, <1>14,
    <1>15, <1>16, <1>17, <1>18 DEF Next, Requests, DrainStep, CallStep, CreateStep, RereadStep,
    ReconStep

\* Whoever gives up a pending HEAD hands it to a timer, a mutation or its release.
LEMMA HeadAwaitedStep == TypesOK /\ GensReached /\ HeadIsClaimed /\ HeadIsAwaited /\ [Next]_vars =>
  HeadIsAwaited'
<1>. SUFFICES ASSUME TypesOK, GensReached, HeadIsClaimed, HeadIsAwaited, [Next]_vars PROVE
  HeadIsAwaited'
  OBVIOUS
<1>. USE HeadGens, ReconFields, ReleaseAwaits
<1>. USE DEF HeadIsClaimed, HeadIsAwaited, ReconIsCurrent, busy, panel, bursts, files, creation,
  mutation, head, events
<1>1. CASE StartDrain
  <2>1. UNCHANGED <<mut, recon, headGen, headPending>>
    BY <1>1 DEF StartDrain, mutation
  <2>2. headPending /\ (drain.by = Releaser \/ Awaits(Releaser)) =>
          headTimer' \/ drain'.by = Releaser \/ Awaits(Releaser)'
    BY <1>1, <2>1, TurnHolds, ReleaseAwaits, Awaiters DEF StartDrain, HeadIsAwaited, HeadIsClaimed
  <2>3. headTimer => headTimer'
    BY <1>1, TurnHolds DEF StartDrain
  <2>. QED
    BY <2>1, <2>2, <2>3
<1>2. CASE DrainSuperseded
  <2>1. UNCHANGED <<mut, recon, headGen, headPending>>
    BY <1>2 DEF DrainSuperseded, mutation
  <2>2. headPending /\ (drain.by = Releaser \/ Awaits(Releaser)) =>
          headTimer' \/ drain'.by = Releaser \/ Awaits(Releaser)'
    BY <1>2, <2>1, TurnHolds, ReleaseAwaits, Awaiters DEF DrainSuperseded, HeadIsAwaited, HeadIsClaimed
  <2>3. headTimer => headTimer'
    BY <1>2, TurnHolds DEF DrainSuperseded
  <2>. QED
    BY <2>1, <2>2, <2>3
<1>3. CASE DrainFails
  <2>1. UNCHANGED <<mut, recon, headGen, headPending>>
    BY <1>3 DEF DrainFails, mutation
  <2>2. headPending /\ (drain.by = Releaser \/ Awaits(Releaser)) =>
          headTimer' \/ drain'.by = Releaser \/ Awaits(Releaser)'
    BY <1>3, <2>1, TurnHolds, ReleaseAwaits, Awaiters DEF DrainFails, HeadIsAwaited, HeadIsClaimed
  <2>3. headTimer => headTimer'
    BY <1>3, TurnHolds DEF DrainFails
  <2>. QED
    BY <2>1, <2>2, <2>3
<1>4. CASE DrainScanned
  <2>1. UNCHANGED <<mut, recon, headGen, headPending>>
    BY <1>4 DEF DrainScanned, mutation
  <2>2. headPending /\ (drain.by = Releaser \/ Awaits(Releaser)) =>
          headTimer' \/ drain'.by = Releaser \/ Awaits(Releaser)'
    BY <1>4, <2>1, TurnHolds, ReleaseAwaits, Awaiters DEF DrainScanned, HeadIsAwaited, HeadIsClaimed
  <2>3. headTimer => headTimer'
    BY <1>4, TurnHolds DEF DrainScanned
  <2>. QED
    BY <2>1, <2>2, <2>3
<1>5. CASE DrainRead
  BY <1>5, ScansFollow, ReleaseAwaits DEF DrainRead, Answer
<1>6. CASE BeginMutation
  BY <1>6, ReleaseAwaits DEF BeginMutation, MutTo, At, Await
<1>7. CASE Reread
  BY <1>7, ReleaseAwaits DEF Reread, Discard, At, Await
<1>8. ASSUME NEW c \in Calls, ReloadFinalState(c) PROVE HeadIsAwaited'
  BY <1>8, ReleaseAwaits DEF ReloadFinalState, StartCall, Discard, MutTo, At, Await
<1>9. CASE RereadApplied
  BY <1>9, ReleaseAwaits DEF RereadApplied, MutTo, WatchFiles, Answer, At, Await
<1>10. CASE RereadFails
  BY <1>10, ReleaseAwaits DEF RereadFails, MutTo, Answer, At, Await
<1>11. CASE ReleaseMutation
  BY <1>11, ReleaseAwaits DEF ReleaseMutation, FlushAll, Discard
<1>12. CASE ReleaseReview
  BY <1>12, ReleaseAwaits DEF ReleaseReview, FlushAll, Discard
<1>13. CASE DebounceEnds
  BY <1>13, ReleaseAwaits DEF DebounceEnds
<1>14. ASSUME NEW c \in Calls, CallScanned(c) PROVE HeadIsAwaited'
  BY <1>14, ReleaseAwaits DEF CallScanned
<1>15. CASE HeadTimerFires
  <2>1. UNCHANGED <<mut, drain, headPending, headGen>> /\ (Awaits(Releaser)' <=> Awaits(Releaser))
    BY <1>15, ReleaseAwaits DEF HeadTimerFires, files, mutation
  <2>2. /\ headPending /\ ~busy /\ recon.stage = "idle" => recon'.stage = "discovering"
        /\ recon.stage # "idle" => recon' = recon
    BY <1>15 DEF HeadTimerFires
  <2>. QED
    BY <1>15, <2>1, <2>2 DEF TypesOK, RestOK
<1>16. CASE ReconGivesUp
  BY <1>16, ReleaseAwaits DEF ReconGivesUp, EndRecon
<1>17. CASE ReconFindsNothing
  BY <1>17, ReleaseAwaits DEF ReconFindsNothing, Claims, ClearProject, Discard, EndRecon
<1>18. CASE ReconAsks
  BY <1>18, ReleaseAwaits DEF ReconAsks, Claims, ClearProject, Discard
<1>19. ASSUME NEW c \in Calls, NEW p \in Projects, ReconKeeps(c, p) PROVE HeadIsAwaited'
  BY <1>19, ReleaseAwaits DEF ReconKeeps, Claims, ReconReloads, StartCall, Discard
<1>20. ASSUME NEW c \in Calls, NEW p \in Projects, PickedProject(c, p) PROVE HeadIsAwaited'
  BY <1>20, ReleaseAwaits DEF PickedProject, ReconReloads, StartCall, Discard
<1>21. CASE PickedNothing
  BY <1>21, ReleaseAwaits DEF PickedNothing, EndRecon
<1>22. CASE PickedDuringMutation
  BY <1>22, ReleaseAwaits DEF PickedDuringMutation, EndRecon
<1>23. CASE ReconDone
  BY <1>23, ReleaseAwaits DEF ReconDone, EndRecon
<1>24. CASE FileEvent \/ HeadChange \/ (\E c \in Calls : Refresh(c)) \/
         (\E c \in Calls, p \in Projects : ChangeProject(c, p)) \/ (\E k \in Creates : Ready(k))
  BY <1>24 DEF FileEvent, HeadChange, Discard, Refresh, StartCall, ChangeProject, Ready
<1>25. CASE (\E c \in Calls : CallSuperseded(c)) \/ (\E c \in Calls : CallFails(c)) \/
         (\E c \in Calls : CallLoads(c)) \/ (\E k \in Creates, p \in Projects : SelectProject(k, p)) \/
         (\E k \in Creates : CreateFails(k))
  BY <1>25 DEF CallSuperseded, CallReturns, CallFails, ClearProject, Discard, Answer, CallLoads,
    CallTo, WatchFiles, SelectProject, CreateFails
<1>26. CASE (\E k \in Creates : CreateLoads(k))
  BY <1>26 DEF CreateLoads, WatchFiles, Answer
<1>27. CASE UNCHANGED vars
  BY <1>27 DEF vars
<1>. QED
  BY <1>1, <1>2, <1>3, <1>4, <1>5, <1>6, <1>7, <1>8, <1>9, <1>10, <1>11, <1>12, <1>13, <1>14,
    <1>15, <1>16, <1>17, <1>18, <1>19, <1>20, <1>21, <1>22, <1>23, <1>24, <1>25, <1>26, <1>27
    DEF Next, Requests, DrainStep, CallStep, CreateStep, RereadStep, ReconStep

\* Together that is the promise.
LEMMA NobodyWaitsAlone == WaitInv => NothingWaitsAlone
  BY DEF WaitInv, PendingIsFlushed, DeferredWaits, HeadIsAwaited, NothingWaitsAlone, Awaits

\* What a call has left behind, it does not take up again.
LEMMA NotBegunBefore ==
  ASSUME NEW c \in Calls, NEW p, NEW who, StartCall(c, p, who)
  PROVE  call[c].work.stage = "none"
  BY NothingAwaited DEF StartCall

\* Whom a turn settles awaited its burst.
LEMMA TurnSettles ==
  ASSUME TypesOK, NEW gen, NEW by, TakeTurns(gen, by)
  PROVE  /\ drain'.by \in {by, Nobody}
         /\ \A c \in Calls : call'[c] = call[c] \/ (by = c /\ call'[c].work.stage = "done")
<1>1. CASE Settle(by)
  BY <1>1, NothingAwaited DEF Settle, TypesOK, CallOK
<1>2. ASSUME NEW g, StartReading(g, by) PROVE drain'.by = by /\ UNCHANGED call
  BY <1>2 DEF StartReading
<1>. QED
  BY <1>1, <1>2 DEF TakeTurns

\* Neither the release of a mutation nor nobody is a call.
LEMMA CallsAwait == Nobody \notin Calls /\ Releaser \notin Calls
  BY Bounds DEF Nobody, Releaser, Calls

\* Calls wait for bursts only after their reload.
LEMMA FlushStep == TypesOK /\ AwaitersFlush /\ [Next]_vars => AwaitersFlush'
<1>. SUFFICES ASSUME TypesOK, AwaitersFlush, [Next]_vars PROVE AwaitersFlush'
  OBVIOUS
<1>. USE ChainAwaits
<1>. USE DEF AwaitersFlush, panel, bursts, files, creation, mutation, head, events
<1>1. CASE StartDrain
  BY <1>1, TurnSettles, CallsAwait DEF StartDrain
<1>2. CASE DrainSuperseded
  BY <1>2, TurnSettles, CallsAwait DEF DrainSuperseded
<1>3. CASE DrainFails
  BY <1>3, TurnSettles, CallsAwait DEF DrainFails, Answer
<1>4. CASE DrainScanned
  BY <1>4, TurnSettles, CallsAwait DEF DrainScanned, WatchFiles
<1>5. CASE DrainRead
  BY <1>5, ScansFollow DEF DrainRead, Answer
<1>6. ASSUME NEW c \in Calls, Refresh(c) PROVE AwaitersFlush'
  BY <1>6, StartFollows, NotBegunBefore DEF Refresh
<1>7. ASSUME NEW c \in Calls, NEW p \in Projects, ChangeProject(c, p) PROVE AwaitersFlush'
  BY <1>7, StartFollows, NotBegunBefore DEF ChangeProject
<1>8. ASSUME NEW c \in Calls, NEW p \in Projects, PickedProject(c, p) PROVE AwaitersFlush'
  BY <1>8, StartFollows, NotBegunBefore DEF PickedProject, ReconReloads
<1>9. ASSUME NEW c \in Calls, NEW p \in Projects, ReconKeeps(c, p) PROVE AwaitersFlush'
  BY <1>9, StartFollows, NotBegunBefore DEF ReconKeeps, Claims, ReconReloads
<1>10. ASSUME NEW c \in Calls, ReloadFinalState(c) PROVE AwaitersFlush'
  BY <1>10, StartFollows, NotBegunBefore DEF ReloadFinalState, MutTo
<1>11. ASSUME NEW c \in Calls, CallSuperseded(c) PROVE AwaitersFlush'
  BY <1>11, ReturnFollows DEF CallSuperseded
<1>12. ASSUME NEW c \in Calls, CallFails(c) PROVE AwaitersFlush'
  BY <1>12, ReturnFollows DEF CallFails, ClearProject
<1>13. ASSUME NEW c \in Calls, CallLoads(c) PROVE AwaitersFlush'
  BY <1>13, ScansFollow DEF CallLoads, WatchFiles, Stages
<1>14. ASSUME NEW c \in Calls, CallScanned(c) PROVE AwaitersFlush'
  BY <1>14, FlushFollows DEF CallScanned
<1>15. CASE ReleaseMutation
  BY <1>15, CallsAwait DEF ReleaseMutation, FlushAll, Discard
<1>16. CASE ReleaseReview
  BY <1>16, CallsAwait DEF ReleaseReview, FlushAll, Discard
<1>17. CASE DebounceEnds
  BY <1>17, CallsAwait DEF DebounceEnds
<1>18. CASE FileEvent \/ HeadChange \/ (\E k \in Creates : Ready(k)) \/ BeginMutation \/ Reread
  BY <1>18 DEF FileEvent, HeadChange, Discard, Ready, BeginMutation, MutTo, Reread
<1>19. CASE PickedNothing \/ PickedDuringMutation \/
         (\E k \in Creates, p \in Projects : SelectProject(k, p)) \/
         (\E k \in Creates : CreateFails(k)) \/ (\E k \in Creates : CreateLoads(k))
  BY <1>19 DEF PickedNothing, EndRecon, PickedDuringMutation, SelectProject, CreateFails, Answer,
    CreateLoads, WatchFiles
<1>20. CASE RereadApplied \/ RereadFails \/ HeadTimerFires \/ ReconGivesUp \/ ReconFindsNothing
  BY <1>20 DEF RereadApplied, MutTo, WatchFiles, Answer, RereadFails, HeadTimerFires, ReconGivesUp,
    EndRecon, ReconFindsNothing, Claims, ClearProject, Discard
<1>21. CASE ReconAsks \/ ReconDone
  BY <1>21 DEF ReconAsks, Claims, ClearProject, Discard, ReconDone, EndRecon
<1>22. CASE UNCHANGED vars
  BY <1>22 DEF vars
<1>. QED
  BY <1>1, <1>2, <1>3, <1>4, <1>5, <1>6, <1>7, <1>8, <1>9, <1>10, <1>11, <1>12, <1>13, <1>14,
    <1>15, <1>16, <1>17, <1>18, <1>19, <1>20, <1>21, <1>22 DEF Next, Requests, DrainStep, CallStep,
    CreateStep, RereadStep, ReconStep

\* The panel's project is known while the panel owes a reload.
LEMMA OwedIsShown ==
  ASSUME TypesOK, ShownInv, CandidatesKnown, ~raced,
         deferred \/ pendingGen # NoGen \/ OwedOnChain
  PROVE  selected # NoProject /\ controller # NoProject
  BY DEF ShownInv, NothingShownNothingOwed, ShownIsSelected

\* A turn of the drain, taken for a burst of the panel's generation or with events pending,
\* reads the files after the last event or defers that.
LEMMA TurnCovers ==
  ASSUME TypesOK, ShownInv, CandidatesKnown, ~raced, NEW gen, NEW by, TakeTurns(gen, by),
         UNCHANGED <<reloadGen, selected, noticed>>, gen = reloadGen => OwedOnChain,
         deferred \/ pendingGen # NoGen \/ gen = reloadGen
  PROVE  \/ deferred' \/ pendingGen' # NoGen
         \/ drain'.work.stage = "reading" /\ Current' /\ drain'.work.seen = noticed'
<1>1. selected # NoProject /\ controller # NoProject
  BY OwedIsShown
<1>2. pendingGen = NoGen \/ pendingGen = reloadGen
  BY DEF TypesOK, PendingOK
<1>3. ASSUME NEW g, Reloads(g), StartReading(g, by)
      PROVE  drain'.work.stage = "reading" /\ Current' /\ drain'.work.seen = noticed'
  BY <1>3 DEF StartReading, Await, Reloads, Current
<1>4. ASSUME ~Reloads(gen), ~Reloads(pendingGen), gen = reloadGen \/ pendingGen # NoGen
      PROVE  Defers(gen) \/ Defers(pendingGen)
  BY <1>1, <1>2, <1>4 DEF Reloads, Defers
<1>5. ASSUME deferred' = (deferred \/ Defers(gen) \/ Defers(pendingGen)),
             deferred \/ Defers(gen) \/ Defers(pendingGen)
      PROVE  deferred'
  BY <1>5, Zenon
<1>. QED
  BY <1>3, <1>4, <1>5 DEF TakeTurns

\* What is answered from a reading after the last event answers all of them.
LEMMA Answers ==
  ASSUME TypesOK, EventsCounted, UNCHANGED noticed, NEW n \in Nat, n <= noticed, Answer(n)
  PROVE  /\ n = noticed => noticed' = answered'
         /\ noticed = answered => noticed' = answered'
  BY Bounds DEF TypesOK, NumbersOK, RestOK, EventsCounted, Answer

\* Whatever is under way has heard of events that were noticed.
LEMMA SeenBefore ==
  ASSUME TypesOK, EventsCounted
  PROVE  /\ noticed \in Nat /\ drain.work.seen \in Nat /\ drain.work.seen <= noticed
         /\ mut.seen \in Nat /\ mut.seen <= noticed
         /\ \A c \in Calls : call[c].work.seen \in Nat /\ call[c].work.seen <= noticed
         /\ \A k \in Creates : create[k].seen \in Nat /\ create[k].seen <= noticed
  BY AwaitFields, AwaitTypes, Bounds DEF EventsCounted, TypesOK, NumbersOK

\* Who awaits the first burst awaits one of them.
LEMMA HeadAwaits ==
  ASSUME TypesOK, chain # <<>>
  PROVE  Awaits(Head(chain).by)
  BY ChainGens DEF Awaits

\* What is pending is of the panel's generation.
LEMMA PendingGens ==
  ASSUME TypesOK
  PROVE  (pendingGen = NoGen \/ pendingGen = reloadGen) /\ reloadGen # NoGen
  BY DEF TypesOK, PendingOK, NumbersOK, NoGen

\* The end of a drain's burst, read, skipped or failed, leaves the last event covered.
LEMMA DrainCovers ==
  ASSUME TypesOK, ShownInv, CandidatesKnown, AwaitersFlush, LastEventIsCovered,
         NEW gen, NEW by, TakeTurns(gen, by), drain.by = by \/ Awaits(by),
         UNCHANGED <<reloadGen, selected, noticed, headPending, mut, raced>>,
         OwedOnChain => OwedOnChain' \/ gen = reloadGen, gen = reloadGen => OwedOnChain,
         noticed' # answered' =>
           noticed # answered /\ ~(drain.work.stage = "reading" /\ Current /\ drain.work.seen = noticed)
  PROVE  LastEventIsCovered'
<1>1. \A c \in Calls : call[c].work.stage = "loading" => call'[c] = call[c]
  BY TurnSettles DEF AwaitersFlush
<1>2. SUFFICES ASSUME ~raced, noticed' # answered' PROVE LastEventIsCovered'
  BY DEF LastEventIsCovered
<1>3. \/ deferred' \/ pendingGen' # NoGen
      \/ drain'.work.stage = "reading" /\ Current' /\ drain'.work.seen = noticed'
      \/ ~(deferred \/ pendingGen # NoGen \/ gen = reloadGen)
  BY <1>2, TurnCovers
<1>. QED
  BY <1>1, <1>2, <1>3 DEF LastEventIsCovered, RereadCurrent, Superseded

\* Whoever drops a reading after the last event has answered it, or left it to another.
LEMMA CoverStep == TypesOK /\ EventsCounted /\ GensReached /\ CandidatesKnown /\ OneCallLeads /\
  ShownInv /\ AwaitersFlush /\ LastEventIsCovered /\ [Next]_vars => LastEventIsCovered'
<1>. SUFFICES ASSUME TypesOK, EventsCounted, GensReached, CandidatesKnown, OneCallLeads, ShownInv,
  AwaitersFlush, LastEventIsCovered, [Next]_vars PROVE LastEventIsCovered'
  OBVIOUS
<1>. USE DEF panel, bursts, files, creation, mutation, head, events
<1>1. ASSUME NEW c \in Calls, Refresh(c) PROVE LastEventIsCovered'
  BY <1>1, StartFollows, SeenBefore DEF Refresh, LastEventIsCovered, Superseded
<1>2. ASSUME NEW c \in Calls, NEW p \in Projects, ChangeProject(c, p) PROVE LastEventIsCovered'
  BY <1>2, StartFollows, SeenBefore DEF ChangeProject, LastEventIsCovered, Superseded
<1>3. ASSUME NEW c \in Calls, NEW p \in Projects, PickedProject(c, p) PROVE LastEventIsCovered'
  BY <1>3, StartFollows, SeenBefore DEF PickedProject, ReconReloads, LastEventIsCovered, Superseded
<1>4. ASSUME NEW c \in Calls, NEW p \in Projects, ReconKeeps(c, p) PROVE LastEventIsCovered'
  BY <1>4, StartFollows, SeenBefore DEF ReconKeeps, Claims, ReconReloads, LastEventIsCovered,
    Superseded
<1>5. ASSUME NEW c \in Calls, ReloadFinalState(c) PROVE LastEventIsCovered'
  BY <1>5, StartFollows, SeenBefore DEF ReloadFinalState, MutTo, LastEventIsCovered, Superseded
<1>6. CASE StartDrain
  <2>1. /\ chain # <<>> /\ chain' = Tail(chain)
        /\ UNCHANGED <<reloadGen, selected, noticed, headPending, mut, raced>>
    BY <1>6 DEF StartDrain, panel, mutation, events
  <2>2. /\ OwedOnChain => OwedOnChain' \/ Head(chain).gen = reloadGen
        /\ (Head(chain).gen = reloadGen => OwedOnChain)
    BY <2>1, ChainOwes, OtherGens
  <2>3. noticed' # answered' =>
          noticed # answered /\ ~(drain.work.stage = "reading" /\ Current /\ drain.work.seen = noticed)
    BY <1>6, <2>1, NothingAwaited DEF StartDrain, events
  <2>. QED
    BY <1>6, <2>1, <2>2, <2>3, DrainCovers, HeadAwaits DEF StartDrain
<1>7. CASE DrainSuperseded
  <2>1. /\ UNCHANGED chain
        /\ UNCHANGED <<reloadGen, selected, noticed, headPending, mut, raced>>
    BY <1>7 DEF DrainSuperseded, panel, mutation, events
  <2>2. (OwedOnChain => OwedOnChain') /\ (NoGen = reloadGen => OwedOnChain)
    BY <2>1, ChainOwes, OtherGens
  <2>3. noticed' # answered' =>
          noticed # answered /\ ~(drain.work.stage = "reading" /\ Current /\ drain.work.seen = noticed)
    BY <1>7, <2>1, NothingAwaited DEF DrainSuperseded, events
  <2>. QED
    BY <1>7, <2>1, <2>2, <2>3, DrainCovers DEF DrainSuperseded
<1>8. CASE DrainFails
  <2>1. /\ UNCHANGED chain
        /\ UNCHANGED <<reloadGen, selected, noticed, headPending, mut, raced>>
    BY <1>8 DEF DrainFails, panel, mutation, events
  <2>2. (OwedOnChain => OwedOnChain') /\ (NoGen = reloadGen => OwedOnChain)
    BY <2>1, ChainOwes, OtherGens
  <2>3. noticed' # answered' =>
          noticed # answered /\ ~(drain.work.stage = "reading" /\ Current /\ drain.work.seen = noticed)
    BY <1>8, <2>1, NothingAwaited, Answers, SeenBefore DEF DrainFails, events
  <2>. QED
    BY <1>8, <2>1, <2>2, <2>3, DrainCovers DEF DrainFails
<1>9. CASE DrainScanned
  <2>1. /\ UNCHANGED chain
        /\ UNCHANGED <<reloadGen, selected, noticed, headPending, mut, raced>>
    BY <1>9 DEF DrainScanned, panel, mutation, events
  <2>2. (OwedOnChain => OwedOnChain') /\ (NoGen = reloadGen => OwedOnChain)
    BY <2>1, ChainOwes, OtherGens
  <2>3. noticed' # answered' =>
          noticed # answered /\ ~(drain.work.stage = "reading" /\ Current /\ drain.work.seen = noticed)
    BY <1>9, <2>1, NothingAwaited DEF DrainScanned, events
  <2>. QED
    BY <1>9, <2>1, <2>2, <2>3, DrainCovers DEF DrainScanned
<1>10. CASE FileEvent
  BY <1>10, PendingGens DEF FileEvent, LastEventIsCovered, Current, RereadCurrent, Superseded
<1>11. CASE DrainRead
  BY <1>11, ScansFollow, Answers, SeenBefore, ChainOwes DEF DrainRead, LastEventIsCovered, Current,
    RereadCurrent, Superseded
<1>12. ASSUME NEW c \in Calls, CallSuperseded(c) PROVE LastEventIsCovered'
  BY <1>12, ReturnFollows, ChainOwes DEF CallSuperseded, LastEventIsCovered, Current,
    RereadCurrent, Superseded
<1>13. ASSUME NEW c \in Calls, CallFails(c) PROVE LastEventIsCovered'
  BY <1>13, ReturnFollows, Answers, SeenBefore, ChainOwes DEF CallFails, ClearProject,
    LastEventIsCovered, Current, RereadCurrent, Superseded
<1>14. ASSUME NEW c \in Calls, CallLoads(c) PROVE LastEventIsCovered'
  <2>. DEFINE load == call[c].work
  <2>1. SUFFICES ASSUME ~raced, noticed' # answered' PROVE LastEventIsCovered'
    BY <1>14 DEF LastEventIsCovered, CallLoads
  <2>2. /\ call[c].same /\ Answer(load.seen) /\ selected' = load.cand
        /\ UNCHANGED <<bursts, reloadGen, chain, drain, mut, headPending, noticed, raced>>
    BY <1>14, <2>1 DEF CallLoads, mutation, head
  <2>3. selected' = selected
    BY <1>14, <2>1, <2>2 DEF CallLoads, ShownInv, SameStays
  <2>4. noticed # answered /\ load.seen # noticed
    BY <2>1, <2>2, Answers, SeenBefore
  <2>5. \A d \in Calls \ {c} : call'[d] = call[d]
    BY <1>14, ScansFollow DEF CallLoads, Stages
  <2>6. OwedOnChain => OwedOnChain'
    BY <2>2, ChainOwes
  <2>. QED
    BY <2>1, <2>2, <2>3, <2>4, <2>5, <2>6
       DEF LastEventIsCovered, Current, RereadCurrent, Superseded, bursts
<1>15. ASSUME NEW c \in Calls, CallScanned(c) PROVE LastEventIsCovered'
  BY <1>15, FlushFollows, PendingGens, ChainOwes DEF CallScanned, LastEventIsCovered, Current,
    RereadCurrent, Superseded
<1>16. CASE ReleaseMutation
  BY <1>16, PendingGens, ChainOwes DEF ReleaseMutation, FlushAll, Discard, LastEventIsCovered,
    Current, RereadCurrent, Superseded
<1>17. CASE ReleaseReview
  BY <1>17, PendingGens, ChainOwes DEF ReleaseReview, FlushAll, Discard, LastEventIsCovered,
    Current, RereadCurrent, Superseded
<1>18. CASE DebounceEnds
  BY <1>18, PendingGens, ChainOwes DEF DebounceEnds, LastEventIsCovered, Current, RereadCurrent,
    Superseded
<1>19. ASSUME NEW k \in Creates, NEW p \in Projects, SelectProject(k, p) PROVE LastEventIsCovered'
  BY <1>19, ChainOwes DEF SelectProject, Overtakes, ShownInv, RereadsAreOfShown,
    LastEventIsCovered, Current, RereadCurrent, Superseded
<1>20. ASSUME NEW k \in Creates, CreateFails(k) PROVE LastEventIsCovered'
  BY <1>20, Answers, SeenBefore, ChainOwes DEF CreateFails, LastEventIsCovered, Current,
    RereadCurrent, Superseded
<1>21. ASSUME NEW k \in Creates, CreateLoads(k) PROVE LastEventIsCovered'
  BY <1>21, Answers, SeenBefore, ChainOwes DEF CreateLoads, WatchFiles, LastEventIsCovered,
    Current, RereadCurrent, Superseded
<1>22. CASE RereadApplied
  BY <1>22, Answers, SeenBefore, ChainOwes DEF RereadApplied, MutTo, WatchFiles,
    LastEventIsCovered, Current, RereadCurrent, Superseded
<1>23. CASE RereadFails
  BY <1>23, Answers, SeenBefore, ChainOwes DEF RereadFails, MutTo, LastEventIsCovered, Current,
    RereadCurrent, Superseded
<1>24. CASE Reread
  BY <1>24, SeenBefore DEF Reread, Discard, Await, LastEventIsCovered, Current, RereadCurrent,
    Superseded
<1>25. CASE BeginMutation
  BY <1>25, ChainOwes DEF BeginMutation, MutTo, busy, LastEventIsCovered, Current, RereadCurrent,
    Superseded
<1>26. CASE HeadChange \/ (\E k \in Creates : Ready(k)) \/ PickedNothing \/ PickedDuringMutation \/
         HeadTimerFires
  BY <1>26, ChainOwes DEF HeadChange, Discard, Ready, PickedNothing, EndRecon,
    PickedDuringMutation, HeadTimerFires, LastEventIsCovered, Current, RereadCurrent, Superseded
<1>27. CASE ReconGivesUp \/ ReconFindsNothing \/ ReconAsks \/ ReconDone
  BY <1>27, ChainOwes DEF ReconGivesUp, EndRecon, ReconFindsNothing, Claims, ClearProject, Discard,
    ReconAsks, ReconDone, LastEventIsCovered, Current, RereadCurrent, Superseded
<1>28. CASE UNCHANGED vars
  BY <1>28, ChainOwes DEF vars, LastEventIsCovered, Current, RereadCurrent, Superseded
<1>. QED
  BY <1>1, <1>2, <1>3, <1>4, <1>5, <1>6, <1>7, <1>8, <1>9, <1>10, <1>11, <1>12, <1>13, <1>14,
    <1>15, <1>16, <1>17, <1>18, <1>19, <1>20, <1>21, <1>22, <1>23, <1>24, <1>25, <1>26, <1>27,
    <1>28 DEF Next, Requests, DrainStep, CallStep, CreateStep, RereadStep, ReconStep

-----------------------------------------------------------------------------
(* The invariants.                                                         *)

\* The inductive invariant holds when the panel opens.
LEMMA InitIInv == Init => IInv
<1>. SUFFICES ASSUME Init PROVE IInv
  OBVIOUS
<1>. USE Bounds DEF Init
<1>1. Inactive \in AwaitType /\ NoCall \in CallType
  BY AwaitTypes, CallTypes DEF Inactive, Stages
<1>2. PanelOK /\ NumbersOK /\ PendingOK /\ FlagsOK /\ RestOK
  <2>1. PanelOK
    BY DEF PanelOK, MaybeProject
  <2>2. NumbersOK /\ PendingOK
    BY DEF NumbersOK, PendingOK
  <2>3. FlagsOK
    BY DEF FlagsOK
  <2>4. RestOK
    BY DEF RestOK
  <2>. QED
    BY <2>1, <2>2, <2>3, <2>4
<1>3. DrainOK /\ CallOK /\ CreateOK /\ MutOK
  BY <1>1, Awaiters DEF DrainOK, CallOK, CreateOK, MutOK
<1>4. ChainOK
  BY DEF ChainOK
<1>5. TypesOK
  BY <1>2, <1>3, <1>4 DEF TypesOK
<1>6. EventsCounted /\ GensReached
  BY NothingAwaited DEF EventsCounted, GensReached, NoCall, NoGen
<1>7. CandidatesKnown /\ OneCallLeads
  BY NothingAwaited DEF CandidatesKnown, OneCallLeads, NoCall
<1>8. ShownInv
  BY NothingAwaited DEF ShownInv, RereadsAreOfShown, SameStays, FirstLoadSelected,
     NothingShownNothingOwed, ShownIsSelected, OwedOnChain, NoCall, NoGen
<1>9. WaitInv
  BY NothingAwaited DEF WaitInv, PendingIsFlushed, DeferredWaits, HeadIsClaimed, HeadIsAwaited, NoGen
<1>10. AwaitersFlush /\ LastEventIsCovered
  BY CallsAwait DEF AwaitersFlush, LastEventIsCovered, Awaits
<1>. QED
  BY <1>5, <1>6, <1>7, <1>8, <1>9, <1>10 DEF IInv

\* Every step keeps the inductive invariant.
LEMMA StepIInv == IInv /\ [Next]_vars => IInv'
<1>. SUFFICES ASSUME IInv, [Next]_vars PROVE IInv'
  OBVIOUS
<1>. USE DEF IInv
<1>1. TypesOK'
  BY PanelTypeStep, NumbersStep, DrainTypeStep, CallTypeStep, CreateTypeStep, MutTypeStep, ChainStep,
     PendingStep, FlagsStep, RestStep DEF TypesOK
<1>2. EventsCounted' /\ GensReached' /\ CandidatesKnown' /\ OneCallLeads'
  BY EventsStep, GensStep, CandidatesStep, LeaderStep
<1>3. ShownInv'
  BY RereadsStep, SameStep, FirstLoadStep, OwedStep, SelectedStep DEF ShownInv
<1>4. WaitInv'
  BY PendingFlushedStep, DeferredStep, ClaimStep, HeadAwaitedStep DEF WaitInv, ShownInv
<1>5. AwaitersFlush' /\ LastEventIsCovered'
  BY FlushStep, CoverStep
<1>. QED
  BY <1>1, <1>2, <1>3, <1>4, <1>5

\* The inductive invariant holds in every state.
THEOREM PanelInvariant == Spec => []IInv
  BY InitIInv, StepIInv, PTL DEF Spec

\* Every variable keeps its type, and no burst on the reload chain is of a generation the
\* panel has not reached.
THEOREM TypesAreKept == Spec => []TypeOK
<1>1. IInv => TypeOK
  BY TypesAreRight DEF IInv
<1>. QED
  BY <1>1, PanelInvariant, PTL

\* What the panel shows is the selected project, whose files are watched, unless a first
\* load went on beside another load.
THEOREM SelectedIsShown == Spec => []ShownIsSelected
<1>1. IInv => ShownIsSelected
  BY DEF IInv, ShownInv
<1>. QED
  BY <1>1, PanelInvariant, PTL

\* Nothing that waits is forgotten: not a pending event, not a deferred one, not a HEAD.
THEOREM WaitersAreServed == Spec => []NothingWaitsAlone
<1>1. IInv => NothingWaitsAlone
  BY NobodyWaitsAlone DEF IInv
<1>. QED
  BY <1>1, PanelInvariant, PTL

\* When nothing is under way, nothing waits, and what covers the last event can only be that
\* it was answered.
LEMMA RestIsCovered == IInv => NoEventLost
<1>. SUFFICES ASSUME IInv, Quiet, ~raced
     PROVE  noticed = answered /\ pendingGen = NoGen /\ ~deferred /\ ~headPending
  BY DEF NoEventLost
<1>1. drain.work.stage = "none" /\ drain.by = Nobody /\ Nobody # Releaser /\ mut.stage = "none"
  BY NothingAwaited, Awaiters DEF IInv, WaitInv, HeadIsClaimed, Quiet, busy
<1>2. ~Awaits(Releaser) /\ ~OwedOnChain
  BY DEF Quiet, Awaits, OwedOnChain
<1>3. pendingGen = NoGen /\ ~deferred
  BY DEF IInv, WaitInv, PendingIsFlushed, DeferredWaits, Quiet
<1>4. ~headPending
  BY <1>1, <1>2 DEF IInv, WaitInv, HeadIsAwaited, Quiet
<1>. QED
  BY <1>1, <1>2, <1>3, <1>4 DEF IInv, LastEventIsCovered, Quiet

\* No event the panel was told of is lost: at rest, each has been answered by a reload that
\* began after it.
THEOREM EventsAreAnswered == Spec => []NoEventLost
  BY RestIsCovered, PanelInvariant, PTL

=============================================================================
