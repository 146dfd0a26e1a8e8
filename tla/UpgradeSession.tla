---------------------------- MODULE UpgradeSession ----------------------------
(***************************************************************************)
(* host/upgradeRunner.ts with host/upgradeTracker.ts: the session of one   *)
(* panel that runs package-manager tasks.  An upgrade runs one task, a     *)
(* prepared reconciliation none, one or two, a verification one for each   *)
(* script.  The end of a task, its failure to start and the disposal of    *)
(* the session race to settle a call.  VS Code runs the tasks: it answers  *)
(* executeTask before it reports the end of the task.                      *)
(***************************************************************************)
EXTENDS Integers, FiniteSets

CONSTANTS
  Calls,     \* calls of run, of a prepared execute and of verify
  MaxTasks   \* bound: tasks of one call

ASSUME SessionAssumption == MaxTasks \in Nat \ {0}

VARIABLES
  workspaceTrusted,          \* workspace.isTrusted
  sessionDisposed,
  callKind,         \* what each call is
  length,           \* how many tasks it has to run
  done,             \* how many of them have succeeded
  outcome,          \* "new", "pending", or how the call was settled
  prepared,         \* the prepared reconciliation
  listeners,        \* calls with an onDidEndTaskProcess listener
  pendingRuns,      \* PendingUpgradeRuns.callbacks
  tasks,            \* VS Code: what became of each task
  signalled         \* params.signal of the verifications

sessionVars == <<workspaceTrusted, sessionDisposed, callKind, length, done, outcome, prepared, listeners,
                 pendingRuns, tasks, signalled>>

Kinds == {"run", "reconcile", "verify"}
Failures == {"UNTRUSTED_WORKSPACE", "PACKAGE_MANAGER_NOT_FOUND", "ALREADY_EXECUTED", "TASK_FAILED",
             "TASK_START_FAILED", "DISPOSED", "cancelled"}
Task == Calls \X (1..MaxTasks)

SessionInit ==
  /\ workspaceTrusted \in BOOLEAN
  /\ callKind \in [Calls -> Kinds]
  /\ length \in [Calls -> 0..MaxTasks]
  /\ \A c \in Calls : callKind[c] = "run" => length[c] = 1
  /\ done = [c \in Calls |-> 0]
  /\ outcome = [c \in Calls |-> "new"]
  /\ prepared = "no" /\ sessionDisposed = FALSE /\ signalled = FALSE
  /\ listeners = {} /\ pendingRuns = {}
  /\ tasks = [t \in Task |-> "none"]

-----------------------------------------------------------------------------
Current(c) == <<c, done[c] + 1>>
Settled(c) == outcome[c] \notin {"new", "pending"}

\* A call returns.
Settles(c, result) == outcome' = [outcome EXCEPT ![c] = result]

\* executeTask: the call waits, and disposal can settle it.
ExecuteTask(c) ==
  /\ outcome' = [outcome EXCEPT ![c] = "pending"]
  /\ pendingRuns' = pendingRuns \cup {c}

\* A verification looks at its signal before and after every script.
Cancelled(c) == callKind[c] = "verify" /\ signalled /\ length[c] > 0

\* After n of its tasks a call ends, or starts the next; ts: the tasks so far.
Proceeds(c, n, ts) ==
  /\ done' = [done EXCEPT ![c] = n]
  /\ IF Cancelled(c) \/ n = length[c]
     THEN /\ Settles(c, IF Cancelled(c) THEN "cancelled" ELSE "ok")
          /\ pendingRuns' = pendingRuns \ {c}
          /\ tasks' = ts
     ELSE ExecuteTask(c) /\ tasks' = [ts EXCEPT ![<<c, n + 1>>] = "requested"]

\* Its task failed: the call fails.
Fails(c, result, ts) ==
  /\ Settles(c, IF Cancelled(c) THEN "cancelled" ELSE result)
  /\ pendingRuns' = pendingRuns \ {c}
  /\ tasks' = ts
  /\ UNCHANGED done

\* The trust check and the search for the package manager, which may fail.
Authorized(c, result) ==
  \/ ~workspaceTrusted /\ result = "UNTRUSTED_WORKSPACE"
  \/ workspaceTrusted /\ result \in {"ok", "PACKAGE_MANAGER_NOT_FOUND"}

\* run and verify.
StartCall(c) ==
  /\ outcome[c] = "new" /\ callKind[c] # "reconcile"
  /\ \E result \in {"ok"} \cup Failures :
       /\ Authorized(c, result)
       /\ IF result = "ok" THEN Proceeds(c, 0, tasks)
          ELSE Settles(c, result) /\ UNCHANGED <<done, pendingRuns, tasks>>
  /\ UNCHANGED <<workspaceTrusted, sessionDisposed, callKind, length, prepared, listeners, signalled>>

\* prepareManifestReconciliation and prepareLockfileReconciliation, before the files
\* are staged.
PrepareReconciliation ==
  /\ prepared = "no"
  /\ \E c \in Calls : callKind[c] = "reconcile"
  /\ \E result \in {"ok"} \cup Failures :
       /\ Authorized(CHOOSE c \in Calls : TRUE, result)
       /\ prepared' = IF result = "ok" THEN "ready" ELSE "refused"
  /\ UNCHANGED <<workspaceTrusted, sessionDisposed, callKind, length, done, outcome, listeners, pendingRuns,
                 tasks, signalled>>

\* execute: once, and only while the workspace is trusted.
ExecutePrepared(c) ==
  /\ outcome[c] = "new" /\ callKind[c] = "reconcile"
  /\ prepared \in {"ready", "executed"}
  /\ prepared' = "executed"
  /\ IF prepared = "executed"
     THEN Settles(c, "ALREADY_EXECUTED") /\ UNCHANGED <<done, pendingRuns, tasks>>
     ELSE IF ~workspaceTrusted
     THEN Settles(c, "UNTRUSTED_WORKSPACE") /\ UNCHANGED <<done, pendingRuns, tasks>>
     ELSE Proceeds(c, 0, tasks)
  /\ UNCHANGED <<workspaceTrusted, sessionDisposed, callKind, length, listeners, signalled>>

-----------------------------------------------------------------------------
\* Mutant: a task is listened to although its call has been settled.
TaskStartsAnyway(t) ==
  /\ tasks[t] = "requested"
  /\ tasks' = [tasks EXCEPT ![t] = "live"]
  /\ listeners' = listeners \cup {t[1]}
  /\ UNCHANGED <<workspaceTrusted, sessionDisposed, callKind, length, done, outcome, prepared,
                 pendingRuns, signalled>>

\* executeTask answers.  Nobody listens to a task whose call was disposed meanwhile.
TaskStarts(t) ==
  /\ tasks[t] = "requested"
  /\ tasks' = [tasks EXCEPT ![t] = "live"]
  /\ listeners' = IF outcome[t[1]] = "pending" THEN listeners \cup {t[1]} ELSE listeners
  /\ UNCHANGED <<workspaceTrusted, sessionDisposed, callKind, length, done, outcome, prepared, pendingRuns,
                 signalled>>

TaskStartFails(t) ==
  /\ tasks[t] = "requested"
  /\ LET ts == [tasks EXCEPT ![t] = "failed"] IN
     IF outcome[t[1]] = "pending" THEN Fails(t[1], "TASK_START_FAILED", ts)
     ELSE tasks' = ts /\ UNCHANGED <<done, outcome, pendingRuns>>
  /\ UNCHANGED <<workspaceTrusted, sessionDisposed, callKind, length, prepared, listeners, signalled>>

\* Only exit code 0 is a success.  Every listener hears of the end of every task,
\* and takes only that of its own.
TaskEnds(t, code) ==
  /\ tasks[t] = "live"
  /\ LET c == t[1]
         ts == [tasks EXCEPT ![t] = code] IN
     IF c \in listeners /\ t = Current(c)
     THEN /\ listeners' = listeners \ {c}
          /\ IF code = "succeeded" THEN Proceeds(c, done[c] + 1, ts) ELSE Fails(c, "TASK_FAILED", ts)
     ELSE tasks' = ts /\ UNCHANGED <<done, outcome, listeners, pendingRuns>>
  /\ UNCHANGED <<workspaceTrusted, sessionDisposed, callKind, length, prepared, signalled>>

\* The workspace may become trusted, a verification may be cancelled.
Surroundings ==
  /\ \/ ~workspaceTrusted /\ workspaceTrusted' = TRUE /\ UNCHANGED signalled
     \/ ~signalled /\ signalled' = TRUE /\ UNCHANGED workspaceTrusted
  /\ UNCHANGED <<sessionDisposed, callKind, length, done, outcome, prepared, listeners, pendingRuns,
                 tasks>>

\* dispose: the listeners go, every pending run is settled; the tasks go on.
DisposeSession ==
  /\ ~sessionDisposed
  /\ sessionDisposed' = TRUE
  /\ listeners' = {} /\ pendingRuns' = {}
  /\ outcome' = [c \in Calls |->
       IF c \notin pendingRuns THEN outcome[c] ELSE IF Cancelled(c) THEN "cancelled" ELSE "DISPOSED"]
  /\ UNCHANGED <<workspaceTrusted, callKind, length, done, prepared, tasks, signalled>>

SessionNext ==
  \/ (\E c \in Calls : StartCall(c) \/ ExecutePrepared(c))
  \/ PrepareReconciliation
  \/ (\E t \in Task : TaskStarts(t) \/ TaskStartFails(t) \/ (\E code \in {"succeeded", "failed"} : TaskEnds(t, code)))
  \/ Surroundings \/ DisposeSession

SessionSpec == SessionInit /\ [][SessionNext]_sessionVars

\* VS Code answers every request for a task and reports the end of every task.
SessionFairness ==
  \A t \in Task :
    /\ WF_sessionVars(TaskStarts(t) \/ TaskStartFails(t))
    /\ WF_sessionVars(\E code \in {"succeeded", "failed"} : TaskEnds(t, code))

-----------------------------------------------------------------------------
(* What the session promises *)

\* A call that reports success ran all its tasks, in order, each to exit code 0; one
\* that reports the failure of a task had the last one it started fail.  No call
\* takes the end of another call's task for its own.
OutcomeIsOfOwnTasks ==
  \A c \in Calls :
    /\ outcome[c] = "ok" => \A i \in 1..length[c] : tasks[<<c, i>>] = "succeeded"
    /\ outcome[c] \in {"TASK_FAILED", "TASK_START_FAILED"} => tasks[Current(c)] = "failed"
    /\ \A i \in 2..length[c] : tasks[<<c, i>>] # "none" => tasks[<<c, i - 1>>] = "succeeded"

\* A call that waits can still be settled, by disposal and by its task: it is tracked,
\* and its task is not over unless its answer is still to come.  A call that does not
\* wait is tracked no more and holds no listener.
WaitingIsTracked ==
  \A c \in Calls :
    /\ (outcome[c] = "pending") <=> c \in pendingRuns
    /\ c \in listeners <=> c \in pendingRuns /\ tasks[Current(c)] = "live"

\* One prepared reconciliation runs its tasks once, however often it is executed.
ExecutedOnce ==
  \A c, d \in Calls :
    callKind[c] = "reconcile" /\ callKind[d] = "reconcile" /\ c # d
      => tasks[<<c, 1>>] = "none" \/ tasks[<<d, 1>>] = "none"

\* Every call settles: no answer is awaited for ever.
CallsSettle == \A c \in Calls : (outcome[c] = "pending") ~> Settled(c)

\* What a call reports is what its own tasks did, and every call can still report.
CallsReportTheirTasks == OutcomeIsOfOwnTasks /\ WaitingIsTracked /\ ExecutedOnce
=============================================================================
