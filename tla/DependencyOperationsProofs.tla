--------------------- MODULE DependencyOperationsProofs ---------------------
(***************************************************************************)
(* Safety of the panel's dependency operations for every number of         *)
(* reviews, every set of packages and any number of edits and watcher      *)
(* events.                                                                 *)
(***************************************************************************)
EXTENDS DependencyOperations, TLAPS

(* The inductive invariant.  What holds as long as packages are distinct   *)
(* rests on what always holds; the last is also what fails first when two  *)
(* reviews share a name.                                                   *)

\* A flow is nothing before it is requested, has a package from then on, and is
\* executed only after its review was stored.
FlowsStarted ==
  \A f \in Flows :
    /\ kind[f] = "none" => ana[f] = "idle" /\ exe[f] = "none"
    /\ kind[f] # "none" => pkg[f] \in Pkgs
    /\ exe[f] # "none" => ana[f] \in {"settling", "flushing", "done"}

\* What the shared slots point at.
SlotsHeld ==
  /\ analysis # NoFlow =>
       /\ kind[analysis] = "upgrade" /\ exe[analysis] = "none"
       /\ ana[analysis] \in {"settling", "flushing", "done"}
  /\ removal # NoFlow =>
       kind[removal] = "removal" /\ exe[removal] = "none" /\ ana[removal] = "done"
  /\ pendingRemoval # NoFlow => RemovalInFlight(pendingRemoval)
  /\ \A f \in plans : kind[f] = "fix" /\ ana[f] = "done"
  /\ \A f \in freed : kind[f] = "removal" /\ ana[f] # "validating"

\* The generations and versions a flow carries are past ones.
CapturesArePast ==
  /\ \A f \in Flows : gen[f] <= sourceGen
  /\ noticed <= disk

\* What flows and shared slots record, whatever packages the reviews are for.
Recorded == FlowsStarted /\ SlotsHeld /\ CapturesArePast

\* What always holds of the reservation.
Reserved == LockHasOwner /\ BusyFlagHasWriter

\* Whoever was dismissed is aborted, and an analysis or fix that is not aborted
\* is the one the slots and the reservation belong to.
SlotsByPackage ==
  /\ dismissed \subseteq aborted
  /\ \A f \in Flows :
       /\ UpgradeInFlight(f) /\ f \notin aborted =>
            pendingAnalyze = pkg[f] /\ activeAbort = f /\ held = pkg[f]
       /\ RemovalInFlight(f) /\ f \notin aborted => pendingRemoval = f
       /\ kind[f] = "fix" /\ exe[f] \in {"starting", "checked"} /\ f \notin aborted =>
            f \in plans /\ fixAbort = f /\ held = pkg[f]

\* An upgrade review that is stored before its analysis has settled still holds
\* the reservation, so what is executed has released its analysis's hold.
ReleasesByPackage ==
  \A f \in Flows :
    /\ analysis = f /\ ana[f] = "settling" => held = pkg[f]
    /\ exe[f] # "none" => ana[f] # "settling"

\* A checked review is still the reviewed one unless the last checks will notice.
CheckedByPackage ==
  \A f \in Flows :
    exe[f] = "checked" =>
      \/ noticed <= snap[f]
      \/ kind[f] # "fix" /\ gen[f] # sourceGen
      \/ kind[f] = "fix" /\ f \in stale \cup aborted

\* A writer holds the reservation, and the busy flag is set.
WritersByPackage == \A f \in Writers : held = pkg[f] /\ mutating

\* Slots, reservation and flags belong to the flow whose package they name.
BelongsByPackage ==
  /\ SlotsByPackage /\ ReleasesByPackage /\ CheckedByPackage /\ WritersByPackage
  /\ DismissedNeverReviewed

\* That much only as long as no two reviews share a package name.
ByPackage == DistinctPackages => BelongsByPackage

\* The inductive invariant.
IInv == TypeOK /\ Recorded /\ Reserved /\ ByPackage

-----------------------------------------------------------------------------
(* The invariant holds at first and every step keeps it: one lemma per group *)
(* of conjuncts, one step per action.                                        *)

\* Nothing is requested, held, stored or noticed at first.
LEMMA InitIInv == Init => IInv
<1>. SUFFICES ASSUME Init PROVE IInv
  OBVIOUS
<1>. USE DEF Init, NoFlow
<1>1. TypeOK
  <2>1. 0 \in 0 .. MaxEvents /\ 0 \in 0 .. MaxEdits
    BY BoundsAssumption
  <2>. QED BY <2>1 DEF TypeOK
<1>2. Recorded
  BY DEF Recorded, FlowsStarted, SlotsHeld, CapturesArePast
<1>3. Reserved
  BY DEF Reserved, LockHasOwner, BusyFlagHasWriter
<1>4. ByPackage
  BY NFlowsAssumption DEF ByPackage, BelongsByPackage, SlotsByPackage,
    ReleasesByPackage, CheckedByPackage, WritersByPackage, Writers, DismissedNeverReviewed,
    UpgradeInFlight, RemovalInFlight
<1>. QED
  BY <1>1, <1>2, <1>3, <1>4 DEF IInv

\* Whatever names are released, the reservation keeps its type.
LEMMA ReleaseType ==
  ASSUME TypeOK, NEW names, Release(names)
  PROVE  held' \in Pkgs \cup {NoPkg} /\ mutating' \in BOOLEAN /\ draining' \in BOOLEAN
  BY DEF TypeOK, Release, lock

\* Every step keeps the types.
LEMMA TypeStep == IInv /\ [Next]_vars => TypeOK'
<1>. SUFFICES ASSUME IInv, [Next]_vars PROVE TypeOK'
  OBVIOUS
<1>. USE DEF IInv, TypeOK, vars, lock, flow, reviews, flags, source, panel, upgradeFlags,
           AnaTo, ExeTo
<1>1. ASSUME NEW f \in Flows, NEW p \in Pkgs, AnalyzeUpgrade(f, p) PROVE TypeOK'
  BY <1>1, ReleaseType DEF AnalyzeUpgrade, Requested, Reclaim
<1>2. ASSUME NEW f \in Flows, NEW p \in Pkgs, AnalyzeRemoval(f, p) PROVE TypeOK'
  BY <1>2, ReleaseType DEF AnalyzeRemoval, Requested, Reclaim
<1>3. ASSUME NEW f \in Flows, NEW p \in Pkgs, AnalyzeFix(f, p) PROVE TypeOK'
  BY <1>3 DEF AnalyzeFix, Requested
<1>4. ASSUME NEW f \in Flows, NEW q \in Flows, RetryFix(f, q) PROVE TypeOK'
  BY <1>4 DEF RetryFix, Requested
<1>5. ASSUME NEW f \in Flows, ConfirmReview(f) PROVE TypeOK'
  BY <1>5 DEF ConfirmReview, Reserve
<1>6. ASSUME NEW f \in Flows, ConfirmExpired(f) PROVE TypeOK'
  BY <1>6, ReleaseType DEF ConfirmExpired
<1>7. ASSUME NEW f \in Flows, ConfirmFix(f) PROVE TypeOK'
  BY <1>7 DEF ConfirmFix, Reserve
<1>8. ASSUME NEW f \in Flows, CancelPlan(f) PROVE TypeOK'
  BY <1>8 DEF CancelPlan
<1>9. ASSUME NEW f \in Flows, ReserveUpgrade(f) PROVE TypeOK'
  BY <1>9 DEF ReserveUpgrade, Reserve
<1>10. ASSUME NEW f \in Flows, UpgradeRejected(f) PROVE TypeOK'
  BY <1>10 DEF UpgradeRejected
<1>11. ASSUME NEW f \in Flows, UpgradeStored(f) PROVE TypeOK'
  BY <1>11 DEF UpgradeStored
<1>12. ASSUME NEW f \in Flows, UpgradeDropped(f) PROVE TypeOK'
  BY <1>12 DEF UpgradeDropped
<1>13. ASSUME NEW f \in Flows, UpgradeSettled(f) PROVE TypeOK'
  BY <1>13, ReleaseType DEF UpgradeSettled
<1>14. ASSUME NEW f \in Flows, UpgradeFinished(f) PROVE TypeOK'
  BY <1>14 DEF UpgradeFinished
<1>15. ASSUME NEW f \in Flows, ReserveRemoval(f) PROVE TypeOK'
  BY <1>15 DEF ReserveRemoval, Reserve
<1>16. ASSUME NEW f \in Flows, RemovalRejected(f) PROVE TypeOK'
  BY <1>16 DEF RemovalRejected, LeaveSlot
<1>17. ASSUME NEW f \in Flows, RemovalRead(f) PROVE TypeOK'
  BY <1>17 DEF RemovalRead
<1>18. ASSUME NEW f \in Flows, RemovalStored(f) PROVE TypeOK'
  BY <1>18, ReleaseType DEF RemovalStored, RemovalEnds, LeaveSlot
<1>19. ASSUME NEW f \in Flows, RemovalDropped(f) PROVE TypeOK'
  BY <1>19, ReleaseType DEF RemovalDropped, RemovalEnds, LeaveSlot
<1>20. ASSUME NEW f \in Flows, FixRead(f) PROVE TypeOK'
  BY <1>20 DEF FixRead
<1>21. ASSUME NEW f \in Flows, FixStored(f) PROVE TypeOK'
  <2>. USE <1>21 DEF FixStored, LeaveFix
  <2>1. plans' \subseteq Flows
    OBVIOUS
  <2>2. fixAbort' \in Flows \cup {NoFlow}
    OBVIOUS
  <2>. QED BY <2>1, <2>2
<1>22. ASSUME NEW f \in Flows, FixDropped(f) PROVE TypeOK'
  BY <1>22 DEF FixDropped, LeaveFix
<1>23. ASSUME NEW f \in Flows, Recheck(f) PROVE TypeOK'
  BY <1>23 DEF Recheck
<1>24. ASSUME NEW f \in Flows, Begin(f) PROVE TypeOK'
  BY <1>24 DEF Begin
<1>25. ASSUME NEW f \in Flows, ExecutionFails(f) PROVE TypeOK'
  BY <1>25, ReleaseType DEF ExecutionFails, EndExecution, LeaveFix
<1>26. ASSUME NEW f \in Flows, MutationEnds(f) PROVE TypeOK'
  BY <1>26, ReleaseType DEF MutationEnds, EndExecution, LeaveFix
<1>27. ASSUME NEW f \in Flows, Expire(f) PROVE TypeOK'
  BY <1>27 DEF Expire
<1>28. ASSUME CancelUpgrade PROVE TypeOK'
  BY <1>28 DEF CancelUpgrade, CancelPendingUpgrade, PendingSignal
<1>29. ASSUME CancelReview PROVE TypeOK'
  BY <1>29, ReleaseType DEF CancelReview
<1>30. ASSUME CancelRemoval PROVE TypeOK'
  BY <1>30, ReleaseType DEF CancelRemoval
<1>31. ASSUME CancelRemovalReview PROVE TypeOK'
  BY <1>31, ReleaseType DEF CancelRemovalReview
<1>32. ASSUME CancelFix PROVE TypeOK'
  BY <1>32 DEF CancelFix
<1>33. ASSUME WebviewReady PROVE TypeOK'
  <2>. USE <1>33 DEF WebviewReady, CancelPendingUpgrade, PendingSignal
  <2>1. aborted' \subseteq Flows /\ dismissed' \subseteq Flows
    OBVIOUS
  <2>2. freed' \subseteq Flows
    BY DEF Holds
  <2>3. cancelFor' \in Pkgs \cup {NoPkg}
    OBVIOUS
  <2>. QED BY <2>1, <2>2, <2>3, ReleaseType
<1>34. ASSUME Dispose PROVE TypeOK'
  BY <1>34, ReleaseType DEF Dispose
<1>35. ASSUME Drained PROVE TypeOK'
  BY <1>35 DEF Drained
<1>36. ASSUME Edit PROVE TypeOK'
  BY <1>36, BoundsAssumption DEF Edit
<1>37. ASSUME NEW d \in BOOLEAN, SourceChanged(d) PROVE TypeOK'
  <2>. USE <1>37 DEF SourceChanged, CancelPendingUpgrade, PendingSignal
  <2>1. sourceGen' \in 0 .. MaxEvents /\ noticed' \in 0 .. MaxEdits
    BY BoundsAssumption
  <2>2. CASE mutating
    BY <2>1, <2>2
  <2>3. CASE ~mutating
    BY <2>1, <2>3, ReleaseType
  <2>. QED BY <2>2, <2>3
<1>38. ASSUME ReviewFoundStale PROVE TypeOK'
  BY <1>38, ReleaseType DEF ReviewFoundStale
<1>39. ASSUME UNCHANGED vars PROVE TypeOK'
  BY <1>39
<1>. QED
  BY <1>1, <1>2, <1>3, <1>4, <1>5, <1>6, <1>7, <1>8, <1>9, <1>10, <1>11, <1>12,
     <1>13, <1>14, <1>15, <1>16, <1>17, <1>18, <1>19, <1>20, <1>21, <1>22, <1>23, <1>24,
     <1>25, <1>26, <1>27, <1>28, <1>29, <1>30, <1>31, <1>32, <1>33, <1>34, <1>35, <1>36,
     <1>37, <1>38, <1>39
  DEF Next, Request, Advance, Cancel

\* Every step keeps what flows and slots record.
LEMMA FlowStep == IInv /\ [Next]_vars => Recorded'
<1>. SUFFICES ASSUME IInv, [Next]_vars PROVE Recorded'
  OBVIOUS
<1>. USE DEF IInv, TypeOK, Recorded, Reserved, NoFlow, FlowsStarted, SlotsHeld,
           CapturesArePast, RemovalInFlight, vars, lock, flow, reviews, flags, source,
           panel, upgradeFlags, AnaTo, ExeTo
<1>1. ASSUME NEW f \in Flows, NEW p \in Pkgs, AnalyzeUpgrade(f, p) PROVE Recorded'
  BY <1>1 DEF AnalyzeUpgrade, Requested, Reclaim, Release, Holds
<1>2. ASSUME NEW f \in Flows, NEW p \in Pkgs, AnalyzeRemoval(f, p) PROVE Recorded'
  BY <1>2 DEF AnalyzeRemoval, Requested, Reclaim, Release, Holds
<1>3. ASSUME NEW f \in Flows, NEW p \in Pkgs, AnalyzeFix(f, p) PROVE Recorded'
  BY <1>3 DEF AnalyzeFix, Requested, Release, Holds
<1>4. ASSUME NEW f \in Flows, NEW q \in Flows, RetryFix(f, q) PROVE Recorded'
  BY <1>4 DEF RetryFix, Requested, Release, Holds
<1>5. ASSUME NEW f \in Flows, ConfirmReview(f) PROVE Recorded'
  <2>. USE <1>5 DEF ConfirmReview, Reserve
  <2>1. f # NoFlow
    BY NFlowsAssumption DEF Flows
  <2>2. CASE analysis = f
    BY <2>1, <2>2
  <2>3. CASE removal = f
    BY <2>1, <2>3
  <2>. QED BY <2>2, <2>3
<1>6. ASSUME NEW f \in Flows, ConfirmExpired(f) PROVE Recorded'
  BY <1>6 DEF ConfirmExpired, Release, Holds
<1>7. ASSUME NEW f \in Flows, ConfirmFix(f) PROVE Recorded'
  BY <1>7 DEF ConfirmFix, Reserve, Release, Holds
<1>8. ASSUME NEW f \in Flows, CancelPlan(f) PROVE Recorded'
  BY <1>8 DEF CancelPlan, Release, Holds
<1>9. ASSUME NEW f \in Flows, ReserveUpgrade(f) PROVE Recorded'
  BY <1>9 DEF ReserveUpgrade, Reserve, Release, Holds
<1>10. ASSUME NEW f \in Flows, UpgradeRejected(f) PROVE Recorded'
  BY <1>10 DEF UpgradeRejected, Release, Holds
<1>11. ASSUME NEW f \in Flows, UpgradeStored(f) PROVE Recorded'
  BY <1>11 DEF UpgradeStored, Release, Holds
<1>12. ASSUME NEW f \in Flows, UpgradeDropped(f) PROVE Recorded'
  BY <1>12 DEF UpgradeDropped, Release, Holds
<1>13. ASSUME NEW f \in Flows, UpgradeSettled(f) PROVE Recorded'
  BY <1>13 DEF UpgradeSettled, Release, Holds
<1>14. ASSUME NEW f \in Flows, UpgradeFinished(f) PROVE Recorded'
  BY <1>14 DEF UpgradeFinished, Release, Holds
<1>15. ASSUME NEW f \in Flows, ReserveRemoval(f) PROVE Recorded'
  BY <1>15 DEF ReserveRemoval, Reserve, Release, Holds
<1>16. ASSUME NEW f \in Flows, RemovalRejected(f) PROVE Recorded'
  BY <1>16 DEF RemovalRejected, LeaveSlot, Release, Holds
<1>17. ASSUME NEW f \in Flows, RemovalRead(f) PROVE Recorded'
  BY <1>17 DEF RemovalRead, Release, Holds
<1>18. ASSUME NEW f \in Flows, RemovalStored(f) PROVE Recorded'
  BY <1>18 DEF RemovalStored, RemovalEnds, LeaveSlot, Release, Holds
<1>19. ASSUME NEW f \in Flows, RemovalDropped(f) PROVE Recorded'
  BY <1>19 DEF RemovalDropped, RemovalEnds, LeaveSlot, Release, Holds
<1>20. ASSUME NEW f \in Flows, FixRead(f) PROVE Recorded'
  BY <1>20 DEF FixRead, Release, Holds
<1>21. ASSUME NEW f \in Flows, FixStored(f) PROVE Recorded'
  BY <1>21 DEF FixStored, LeaveFix, Release, Holds
<1>22. ASSUME NEW f \in Flows, FixDropped(f) PROVE Recorded'
  BY <1>22 DEF FixDropped, LeaveFix, Release, Holds
<1>23. ASSUME NEW f \in Flows, Recheck(f) PROVE Recorded'
  BY <1>23 DEF Recheck, Release, Holds
<1>24. ASSUME NEW f \in Flows, Begin(f) PROVE Recorded'
  BY <1>24 DEF Begin, Release, Holds
<1>25. ASSUME NEW f \in Flows, ExecutionFails(f) PROVE Recorded'
  BY <1>25 DEF ExecutionFails, EndExecution, LeaveFix, Release, Holds
<1>26. ASSUME NEW f \in Flows, MutationEnds(f) PROVE Recorded'
  BY <1>26 DEF MutationEnds, EndExecution, LeaveFix, Release, Holds
<1>27. ASSUME NEW f \in Flows, Expire(f) PROVE Recorded'
  BY <1>27 DEF Expire, Release, Holds
<1>28. ASSUME CancelUpgrade PROVE Recorded'
  BY <1>28 DEF CancelUpgrade, CancelPendingUpgrade, PendingSignal, Release, Holds
<1>29. ASSUME CancelReview PROVE Recorded'
  BY <1>29 DEF CancelReview, Release, Holds
<1>30. ASSUME CancelRemoval PROVE Recorded'
  BY <1>30 DEF CancelRemoval, Release, Holds
<1>31. ASSUME CancelRemovalReview PROVE Recorded'
  BY <1>31 DEF CancelRemovalReview, Release, Holds
<1>32. ASSUME CancelFix PROVE Recorded'
  BY <1>32 DEF CancelFix, Release, Holds
<1>33. ASSUME WebviewReady PROVE Recorded'
  BY <1>33 DEF WebviewReady, CancelPendingUpgrade, PendingSignal, Release, Holds
<1>34. ASSUME Dispose PROVE Recorded'
  BY <1>34 DEF Dispose, Release, Holds
<1>35. ASSUME Drained PROVE Recorded'
  BY <1>35 DEF Drained, Release, Holds
<1>36. ASSUME Edit PROVE Recorded'
  BY <1>36 DEF Edit, Release, Holds
<1>37. ASSUME NEW d \in BOOLEAN, SourceChanged(d) PROVE Recorded'
  BY <1>37 DEF SourceChanged, CancelPendingUpgrade, PendingSignal, Release, Holds
<1>38. ASSUME ReviewFoundStale PROVE Recorded'
  BY <1>38 DEF ReviewFoundStale, Release, Holds
<1>39. ASSUME UNCHANGED vars PROVE Recorded'
  BY <1>39 DEF Release, Holds
<1>. QED
  BY <1>1, <1>2, <1>3, <1>4, <1>5, <1>6, <1>7, <1>8, <1>9, <1>10, <1>11, <1>12,
     <1>13, <1>14, <1>15, <1>16, <1>17, <1>18, <1>19, <1>20, <1>21, <1>22, <1>23, <1>24,
     <1>25, <1>26, <1>27, <1>28, <1>29, <1>30, <1>31, <1>32, <1>33, <1>34, <1>35, <1>36,
     <1>37, <1>38, <1>39
  DEF Next, Request, Advance, Cancel

\* Every step keeps an owner of the held name and a writer behind the busy flag.
LEMMA ReservationStep == IInv /\ [Next]_vars => Reserved'
<1>. SUFFICES ASSUME IInv, [Next]_vars PROVE Reserved'
  OBVIOUS
<1>. USE DEF IInv, TypeOK, Recorded, Reserved, NoFlow, FlowsStarted, SlotsHeld,
           RemovalInFlight, LockHasOwner, BusyFlagHasWriter, Writers, WillRelease, vars,
           lock, flow, reviews, flags, source, panel, upgradeFlags, AnaTo, ExeTo
<1>1. ASSUME NEW f \in Flows, NEW p \in Pkgs, AnalyzeUpgrade(f, p) PROVE Reserved'
  BY <1>1 DEF AnalyzeUpgrade, Requested, Reclaim, Release, Holds
<1>2. ASSUME NEW f \in Flows, NEW p \in Pkgs, AnalyzeRemoval(f, p) PROVE Reserved'
  BY <1>2 DEF AnalyzeRemoval, Requested, Reclaim, Release, Holds
<1>3. ASSUME NEW f \in Flows, NEW p \in Pkgs, AnalyzeFix(f, p) PROVE Reserved'
  BY <1>3 DEF AnalyzeFix, Requested, Release, Holds
<1>4. ASSUME NEW f \in Flows, NEW q \in Flows, RetryFix(f, q) PROVE Reserved'
  BY <1>4 DEF RetryFix, Requested, Release, Holds
<1>5. ASSUME NEW f \in Flows, ConfirmReview(f) PROVE Reserved'
  <2>. USE <1>5 DEF ConfirmReview, Reserve
  <2>1. ~mutating
    BY NoPkgAssumption
  <2>2. pkg'[f] = held' /\ WillRelease(f)'
    BY DEF Holds
  <2>. QED BY <2>1, <2>2
<1>6. ASSUME NEW f \in Flows, ConfirmExpired(f) PROVE Reserved'
  BY <1>6 DEF ConfirmExpired, Release, Holds
<1>7. ASSUME NEW f \in Flows, ConfirmFix(f) PROVE Reserved'
  <2>. USE <1>7 DEF ConfirmFix, Reserve
  <2>1. ~mutating
    BY NoPkgAssumption
  <2>2. pkg'[f] = held' /\ WillRelease(f)'
    BY DEF Holds
  <2>. QED BY <2>1, <2>2
<1>8. ASSUME NEW f \in Flows, CancelPlan(f) PROVE Reserved'
  BY <1>8 DEF CancelPlan, Release, Holds
<1>9. ASSUME NEW f \in Flows, ReserveUpgrade(f) PROVE Reserved'
  <2>. USE <1>9 DEF ReserveUpgrade, Reserve
  <2>1. ~mutating
    BY NoPkgAssumption
  <2>2. pkg'[f] = held' /\ WillRelease(f)'
    BY DEF Holds
  <2>. QED BY <2>1, <2>2
<1>10. ASSUME NEW f \in Flows, UpgradeRejected(f) PROVE Reserved'
  BY <1>10 DEF UpgradeRejected, Release, Holds
<1>11. ASSUME NEW f \in Flows, UpgradeStored(f) PROVE Reserved'
  BY <1>11 DEF UpgradeStored, Release, Holds
<1>12. ASSUME NEW f \in Flows, UpgradeDropped(f) PROVE Reserved'
  BY <1>12 DEF UpgradeDropped, Release, Holds
<1>13. ASSUME NEW f \in Flows, UpgradeSettled(f) PROVE Reserved'
  BY <1>13 DEF UpgradeSettled, Release, Holds
<1>14. ASSUME NEW f \in Flows, UpgradeFinished(f) PROVE Reserved'
  BY <1>14 DEF UpgradeFinished, Release, Holds
<1>15. ASSUME NEW f \in Flows, ReserveRemoval(f) PROVE Reserved'
  <2>. USE <1>15 DEF ReserveRemoval, Reserve
  <2>1. ~mutating
    BY NoPkgAssumption
  <2>2. pkg'[f] = held' /\ WillRelease(f)'
    BY DEF Holds
  <2>. QED BY <2>1, <2>2
<1>16. ASSUME NEW f \in Flows, RemovalRejected(f) PROVE Reserved'
  BY <1>16 DEF RemovalRejected, LeaveSlot, Release, Holds
<1>17. ASSUME NEW f \in Flows, RemovalRead(f) PROVE Reserved'
  BY <1>17 DEF RemovalRead, Release, Holds
<1>18. ASSUME NEW f \in Flows, RemovalStored(f) PROVE Reserved'
  BY <1>18 DEF RemovalStored, RemovalEnds, LeaveSlot, Release, Holds
<1>19. ASSUME NEW f \in Flows, RemovalDropped(f) PROVE Reserved'
  BY <1>19 DEF RemovalDropped, RemovalEnds, LeaveSlot, Release, Holds
<1>20. ASSUME NEW f \in Flows, FixRead(f) PROVE Reserved'
  BY <1>20 DEF FixRead, Release, Holds
<1>21. ASSUME NEW f \in Flows, FixStored(f) PROVE Reserved'
  BY <1>21 DEF FixStored, LeaveFix, Release, Holds
<1>22. ASSUME NEW f \in Flows, FixDropped(f) PROVE Reserved'
  BY <1>22 DEF FixDropped, LeaveFix, Release, Holds
<1>23. ASSUME NEW f \in Flows, Recheck(f) PROVE Reserved'
  BY <1>23 DEF Recheck, Release, Holds
<1>24. ASSUME NEW f \in Flows, Begin(f) PROVE Reserved'
  BY <1>24 DEF Begin, Release, Holds
<1>25. ASSUME NEW f \in Flows, ExecutionFails(f) PROVE Reserved'
  BY <1>25 DEF ExecutionFails, EndExecution, LeaveFix, Release, Holds
<1>26. ASSUME NEW f \in Flows, MutationEnds(f) PROVE Reserved'
  BY <1>26 DEF MutationEnds, EndExecution, LeaveFix, Release, Holds
<1>27. ASSUME NEW f \in Flows, Expire(f) PROVE Reserved'
  BY <1>27 DEF Expire, Release, Holds
<1>28. ASSUME CancelUpgrade PROVE Reserved'
  BY <1>28 DEF CancelUpgrade, CancelPendingUpgrade, PendingSignal, Release, Holds
<1>29. ASSUME CancelReview PROVE Reserved'
  BY <1>29 DEF CancelReview, Release, Holds
<1>30. ASSUME CancelRemoval PROVE Reserved'
  BY <1>30 DEF CancelRemoval, Release, Holds
<1>31. ASSUME CancelRemovalReview PROVE Reserved'
  BY <1>31 DEF CancelRemovalReview, Release, Holds
<1>32. ASSUME CancelFix PROVE Reserved'
  BY <1>32 DEF CancelFix, Release, Holds
<1>33. ASSUME WebviewReady PROVE Reserved'
  BY <1>33 DEF WebviewReady, CancelPendingUpgrade, PendingSignal, Release, Holds
<1>34. ASSUME Dispose PROVE Reserved'
  BY <1>34 DEF Dispose, Release, Holds
<1>35. ASSUME Drained PROVE Reserved'
  BY <1>35 DEF Drained, Release, Holds
<1>36. ASSUME Edit PROVE Reserved'
  BY <1>36 DEF Edit, Release, Holds
<1>37. ASSUME NEW d \in BOOLEAN, SourceChanged(d) PROVE Reserved'
  BY <1>37 DEF SourceChanged, CancelPendingUpgrade, PendingSignal, Release, Holds
<1>38. ASSUME ReviewFoundStale PROVE Reserved'
  BY <1>38 DEF ReviewFoundStale, Release, Holds
<1>39. ASSUME UNCHANGED vars PROVE Reserved'
  BY <1>39 DEF Release, Holds
<1>. QED
  BY <1>1, <1>2, <1>3, <1>4, <1>5, <1>6, <1>7, <1>8, <1>9, <1>10, <1>11, <1>12,
     <1>13, <1>14, <1>15, <1>16, <1>17, <1>18, <1>19, <1>20, <1>21, <1>22, <1>23, <1>24,
     <1>25, <1>26, <1>27, <1>28, <1>29, <1>30, <1>31, <1>32, <1>33, <1>34, <1>35, <1>36,
     <1>37, <1>38, <1>39
  DEF Next, Request, Advance, Cancel

\* A flow keeps what it reviews, so packages that are distinct after a step
\* were distinct before it.
LEMMA DistinctStep == IInv /\ [Next]_vars => (DistinctPackages' => DistinctPackages)
<1>. SUFFICES ASSUME IInv, [Next]_vars
     PROVE \A g \in Flows : kind[g] # "none" => kind'[g] = kind[g] /\ pkg'[g] = pkg[g]
  BY DEF DistinctPackages, IInv, TypeOK
<1>. DEFINE Kept == UNCHANGED <<kind, pkg>>
<1>1. ASSUME NEW f \in Flows, NEW k \in {"upgrade", "removal", "fix"}, NEW p, Requested(f, k, p)
      PROVE \A g \in Flows : kind[g] # "none" => kind'[g] = kind[g] /\ pkg'[g] = pkg[g]
  BY <1>1 DEF Requested, IInv, TypeOK
<1>2. ASSUME NEW f \in Flows, Request(f)
      PROVE Kept \/ \E k \in {"upgrade", "removal", "fix"}, p \in Pkgs \cup {NoPkg} : Requested(f, k, p)
  BY <1>2 DEF Request, AnalyzeUpgrade, AnalyzeRemoval, AnalyzeFix, RetryFix, ConfirmReview,
              ConfirmExpired, ConfirmFix, CancelPlan, flow, IInv, TypeOK
<1>3. ASSUME NEW f \in Flows, Advance(f) PROVE Kept
  BY <1>3 DEF Advance, ReserveUpgrade, UpgradeRejected, UpgradeStored, UpgradeDropped,
              UpgradeSettled, UpgradeFinished, ReserveRemoval, RemovalRejected, RemovalRead,
              RemovalStored, RemovalDropped, RemovalEnds, FixRead, FixStored, FixDropped,
              Recheck, Begin, ExecutionFails, EndExecution
<1>4. ASSUME NEW f \in Flows, MutationEnds(f) \/ Expire(f) PROVE Kept
  BY <1>4 DEF MutationEnds, EndExecution, Expire, flow
<1>5. ASSUME Cancel PROVE Kept
  BY <1>5 DEF Cancel, CancelUpgrade, CancelReview, CancelRemoval, CancelRemovalReview,
              CancelFix, flow
<1>6. ASSUME NEW d \in BOOLEAN, \/ WebviewReady \/ Dispose \/ Drained \/ Edit
                               \/ SourceChanged(d) \/ ReviewFoundStale \/ UNCHANGED vars
      PROVE Kept
  BY <1>6 DEF WebviewReady, Dispose, Drained, Edit, SourceChanged, ReviewFoundStale, vars, flow
<1>. QED
  BY <1>1, <1>2, <1>3, <1>4, <1>5, <1>6 DEF Next

\* While packages are distinct, every step keeps what belongs together by package.
LEMMA ByPackageStep == IInv /\ [Next]_vars => (DistinctPackages => BelongsByPackage)'
<1>. SUFFICES ASSUME IInv, [Next]_vars, DistinctPackages' PROVE BelongsByPackage'
  OBVIOUS
<1>. DistinctPackages /\ BelongsByPackage
  BY DistinctStep DEF IInv, ByPackage
<1>. NoFlow \notin Flows
  BY NFlowsAssumption DEF Flows, NoFlow
<1>. USE NoPkgAssumption
<1>. USE DEF IInv, TypeOK, Recorded, Reserved, FlowsStarted, SlotsHeld, DistinctPackages,
           BelongsByPackage, SlotsByPackage, UpgradeInFlight, RemovalInFlight,
           CapturesArePast, CheckedByPackage, ReleasesByPackage, WritersByPackage,
           Writers, BusyFlagHasWriter, DismissedNeverReviewed, Reviewed, vars, lock,
           flow, reviews, flags, source, panel, upgradeFlags, AnaTo, ExeTo
<1>1. ASSUME NEW f \in Flows, NEW p \in Pkgs, AnalyzeUpgrade(f, p) PROVE BelongsByPackage'
  BY <1>1 DEF AnalyzeUpgrade, Requested, Reclaim, Release, Holds
<1>2. ASSUME NEW f \in Flows, NEW p \in Pkgs, AnalyzeRemoval(f, p) PROVE BelongsByPackage'
  BY <1>2 DEF AnalyzeRemoval, Requested, Reclaim, Release, Holds
<1>3. ASSUME NEW f \in Flows, NEW p \in Pkgs, AnalyzeFix(f, p) PROVE BelongsByPackage'
  BY <1>3 DEF AnalyzeFix, Requested, Release, Holds
<1>4. ASSUME NEW f \in Flows, NEW q \in Flows, RetryFix(f, q) PROVE BelongsByPackage'
  BY <1>4 DEF RetryFix, Requested, Release, Holds
<1>5. ASSUME NEW f \in Flows, ConfirmReview(f) PROVE BelongsByPackage'
  BY <1>5 DEF ConfirmReview, Reserve, Release, Holds
<1>6. ASSUME NEW f \in Flows, ConfirmExpired(f) PROVE BelongsByPackage'
  BY <1>6 DEF ConfirmExpired, Release, Holds
<1>7. ASSUME NEW f \in Flows, ConfirmFix(f) PROVE BelongsByPackage'
  BY <1>7 DEF ConfirmFix, Reserve, Release, Holds
<1>8. ASSUME NEW f \in Flows, CancelPlan(f) PROVE BelongsByPackage'
  BY <1>8 DEF CancelPlan, Release, Holds
<1>9. ASSUME NEW f \in Flows, ReserveUpgrade(f) PROVE BelongsByPackage'
  BY <1>9 DEF ReserveUpgrade, Reserve, Release, Holds
<1>10. ASSUME NEW f \in Flows, UpgradeRejected(f) PROVE BelongsByPackage'
  BY <1>10 DEF UpgradeRejected, Release, Holds
<1>11. ASSUME NEW f \in Flows, UpgradeStored(f) PROVE BelongsByPackage'
  BY <1>11 DEF UpgradeStored, Release, Holds
<1>12. ASSUME NEW f \in Flows, UpgradeDropped(f) PROVE BelongsByPackage'
  BY <1>12 DEF UpgradeDropped, Release, Holds
<1>13. ASSUME NEW f \in Flows, UpgradeSettled(f) PROVE BelongsByPackage'
  BY <1>13 DEF UpgradeSettled, Release, Holds
<1>14. ASSUME NEW f \in Flows, UpgradeFinished(f) PROVE BelongsByPackage'
  BY <1>14 DEF UpgradeFinished, Release, Holds
<1>15. ASSUME NEW f \in Flows, ReserveRemoval(f) PROVE BelongsByPackage'
  BY <1>15 DEF ReserveRemoval, Reserve, Release, Holds
<1>16. ASSUME NEW f \in Flows, RemovalRejected(f) PROVE BelongsByPackage'
  BY <1>16 DEF RemovalRejected, LeaveSlot, Release, Holds
<1>17. ASSUME NEW f \in Flows, RemovalRead(f) PROVE BelongsByPackage'
  BY <1>17 DEF RemovalRead, Release, Holds
<1>18. ASSUME NEW f \in Flows, RemovalStored(f) PROVE BelongsByPackage'
  BY <1>18 DEF RemovalStored, RemovalEnds, LeaveSlot, Release, Holds
<1>19. ASSUME NEW f \in Flows, RemovalDropped(f) PROVE BelongsByPackage'
  BY <1>19 DEF RemovalDropped, RemovalEnds, LeaveSlot, Release, Holds
<1>20. ASSUME NEW f \in Flows, FixRead(f) PROVE BelongsByPackage'
  BY <1>20 DEF FixRead, Release, Holds
<1>21. ASSUME NEW f \in Flows, FixStored(f) PROVE BelongsByPackage'
  BY <1>21 DEF FixStored, LeaveFix, Release, Holds
<1>22. ASSUME NEW f \in Flows, FixDropped(f) PROVE BelongsByPackage'
  BY <1>22 DEF FixDropped, LeaveFix, Release, Holds
<1>23. ASSUME NEW f \in Flows, Recheck(f) PROVE BelongsByPackage'
  BY <1>23 DEF Recheck, Release, Holds
<1>24. ASSUME NEW f \in Flows, Begin(f) PROVE BelongsByPackage'
  BY <1>24 DEF Begin, Release, Holds
<1>25. ASSUME NEW f \in Flows, ExecutionFails(f) PROVE BelongsByPackage'
  BY <1>25 DEF ExecutionFails, EndExecution, LeaveFix, Release, Holds
<1>26. ASSUME NEW f \in Flows, MutationEnds(f) PROVE BelongsByPackage'
  BY <1>26 DEF MutationEnds, EndExecution, LeaveFix, Release, Holds
<1>27. ASSUME NEW f \in Flows, Expire(f) PROVE BelongsByPackage'
  BY <1>27 DEF Expire, Release, Holds
<1>28. ASSUME CancelUpgrade PROVE BelongsByPackage'
  BY <1>28 DEF CancelUpgrade, CancelPendingUpgrade, PendingSignal, Release, Holds
<1>29. ASSUME CancelReview PROVE BelongsByPackage'
  BY <1>29 DEF CancelReview, Release, Holds
<1>30. ASSUME CancelRemoval PROVE BelongsByPackage'
  BY <1>30 DEF CancelRemoval, Release, Holds
<1>31. ASSUME CancelRemovalReview PROVE BelongsByPackage'
  BY <1>31 DEF CancelRemovalReview, Release, Holds
<1>32. ASSUME CancelFix PROVE BelongsByPackage'
  BY <1>32 DEF CancelFix, Release, Holds
<1>33. ASSUME WebviewReady PROVE BelongsByPackage'
  BY <1>33 DEF WebviewReady, CancelPendingUpgrade, PendingSignal, Release, Holds
<1>34. ASSUME Dispose PROVE BelongsByPackage'
  BY <1>34 DEF Dispose, Release, Holds
<1>35. ASSUME Drained PROVE BelongsByPackage'
  BY <1>35 DEF Drained, Release, Holds
<1>36. ASSUME Edit PROVE BelongsByPackage'
  BY <1>36 DEF Edit, Release, Holds
<1>37. ASSUME NEW d \in BOOLEAN, SourceChanged(d) PROVE BelongsByPackage'
  BY <1>37 DEF SourceChanged, CancelPendingUpgrade, PendingSignal, Release, Holds
<1>38. ASSUME ReviewFoundStale PROVE BelongsByPackage'
  BY <1>38 DEF ReviewFoundStale, Release, Holds
<1>39. ASSUME UNCHANGED vars PROVE BelongsByPackage'
  BY <1>39 DEF Release, Holds
<1>. QED
  BY <1>1, <1>2, <1>3, <1>4, <1>5, <1>6, <1>7, <1>8, <1>9, <1>10, <1>11, <1>12,
     <1>13, <1>14, <1>15, <1>16, <1>17, <1>18, <1>19, <1>20, <1>21, <1>22, <1>23, <1>24,
     <1>25, <1>26, <1>27, <1>28, <1>29, <1>30, <1>31, <1>32, <1>33, <1>34, <1>35, <1>36,
     <1>37, <1>38, <1>39
  DEF Next, Request, Advance, Cancel

-----------------------------------------------------------------------------
\* The invariant holds in every reachable state.
THEOREM Invariance == Spec => []IInv
<1>1. IInv /\ [Next]_vars => IInv'
  BY TypeStep, FlowStep, ReservationStep, ByPackageStep
  DEF IInv, ByPackage
<1>. QED
  BY InitIInv, <1>1, PTL DEF Spec

\* Type correctness of the coordinator's and the reservation's state.
THEOREM OperationsTypeCorrect == Spec => []TypeOK
  BY Invariance, PTL DEF IInv

\* The one reservation (OperationReservation.reserve and release) is never leaked:
\* a held name belongs to a flow that is still going to release it.
THEOREM ReservationHasOwner == Spec => []LockHasOwner
  BY Invariance, PTL DEF IInv, Reserved

\* isMutationBusy is never left set without a transaction that is writing.
THEOREM BusyMeansWriting == Spec => []BusyFlagHasWriter
  BY Invariance, PTL DEF IInv, Reserved

\* While the reviews are for different packages the reservation excludes: a
\* transaction that writes holds it, with the busy flag set.
THEOREM ReservationExcludes == Spec => []ExclusiveByPackage
<1>1. IInv => ExclusiveByPackage
  BY DEF IInv, ByPackage, BelongsByPackage, WritersByPackage, ExclusiveByPackage
<1>. QED
  BY Invariance, <1>1, PTL

\* While the reviews are for different packages, an analysis that its user
\* cancelled or remounted away never becomes a review that can be confirmed.
THEOREM DismissedStaysDismissed == Spec => []DismissedByPackage
<1>1. IInv => DismissedByPackage
  BY DEF IInv, ByPackage, BelongsByPackage, DismissedByPackage
<1>. QED
  BY Invariance, <1>1, PTL

-----------------------------------------------------------------------------
\* A transaction starts writing by beginMutation only.
LEMMA NewWriter ==
  ASSUME IInv, [Next]_vars, NEW f \in Writers', f \notin Writers
  PROVE  Begin(f)
<1>. USE DEF Writers, IInv, TypeOK
<1>1. ASSUME NEW g \in Flows, Request(g) PROVE exe'[f] = exe[f] \/ exe'[f] = "starting"
  BY <1>1 DEF Request, AnalyzeUpgrade, AnalyzeRemoval, AnalyzeFix, RetryFix, Requested,
              ConfirmReview, ConfirmExpired, ConfirmFix, CancelPlan, flow, ExeTo
<1>2. ASSUME NEW g \in Flows, Advance(g), ~Begin(g)
      PROVE exe'[f] = exe[f] \/ exe'[f] \in {"checked", "done"}
  BY <1>2 DEF Advance, ReserveUpgrade, UpgradeRejected, UpgradeStored, UpgradeDropped,
              UpgradeSettled, UpgradeFinished, ReserveRemoval, RemovalRejected, RemovalRead,
              RemovalStored, RemovalDropped, RemovalEnds, FixRead, FixStored, FixDropped,
              Recheck, ExecutionFails, EndExecution, ExeTo
<1>3. ASSUME NEW g \in Flows, MutationEnds(g) \/ Expire(g)
      PROVE exe'[f] = exe[f] \/ exe'[f] = "done"
  BY <1>3 DEF MutationEnds, EndExecution, Expire, flow, ExeTo
<1>4. ASSUME Cancel PROVE exe' = exe
  BY <1>4 DEF Cancel, CancelUpgrade, CancelReview, CancelRemoval, CancelRemovalReview,
              CancelFix, flow
<1>5. ASSUME NEW d \in BOOLEAN, \/ WebviewReady \/ Dispose \/ Drained \/ Edit
                               \/ SourceChanged(d) \/ ReviewFoundStale \/ UNCHANGED vars
      PROVE exe' = exe
  BY <1>5 DEF WebviewReady, Dispose, Drained, Edit, SourceChanged, ReviewFoundStale, vars, flow
<1>6. ASSUME NEW g \in Flows, Begin(g), g # f PROVE exe'[f] = exe[f]
  BY <1>6 DEF Begin, ExeTo
<1>. QED
  BY <1>1, <1>2, <1>3, <1>4, <1>5, <1>6 DEF Next

\* While the reviews are for different packages, no transaction starts from a
\* review that a watcher event already contradicts.
THEOREM StartsAreReviewed == Spec => StartsFromReviewed
<1>1. IInv /\ [Next]_vars => [StartsReviewed]_vars
  <2>. SUFFICES ASSUME IInv, [Next]_vars, DistinctPackages, NEW f \in Writers' \ Writers
                PROVE  noticed <= snap[f]
    BY DEF StartsReviewed
  <2>1. Begin(f) /\ f \in Flows
    BY NewWriter DEF Writers
  <2>2. CheckedByPackage
    BY DEF IInv, ByPackage, BelongsByPackage
  <2>. QED
    BY <2>1, <2>2 DEF Begin, CheckedByPackage
<1>. QED
  BY <1>1, Invariance, PTL DEF Spec, StartsFromReviewed

=============================================================================
