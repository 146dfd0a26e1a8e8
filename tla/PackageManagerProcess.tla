------------------------ MODULE PackageManagerProcess ------------------------
(***************************************************************************)
(* host/packageManagerProcessRunner.ts: one child process of an analysis.  *)
(* A deadline, an abort and an oversized answer stop it with SIGTERM, and  *)
(* after a grace period with SIGKILL; it may end by itself at any moment,  *)
(* and leave a descendant behind that ignored SIGTERM.  This is what the   *)
(* runner does where there are process groups; on Windows it has taskkill  *)
(* end the tree instead, and if that fails only the child itself is killed *)
(* (lines 55-70), which is not modelled.                                   *)
(***************************************************************************)
EXTENDS Integers, FiniteSets

VARIABLES
  deadline,     \* whether the runner has a timeoutMs
  leader,       \* the child: "none", "alive", "dead"
  descendants,  \* processes of its group: "none", "alive"
  deaf,         \* whether the group ignores SIGTERM
  pipes,        \* stdout and stderr are held open by somebody
  failure,      \* the first error of the run
  grace,        \* terminationTimer: "unset", "set", "fired"
  signal,       \* the caller's signal is aborted
  answer        \* how the promise was settled

processVars == <<deadline, leader, descendants, deaf, pipes, failure, grace, signal, answer>>

ProcessInit ==
  /\ deadline \in BOOLEAN /\ deaf \in BOOLEAN /\ signal \in BOOLEAN
  /\ descendants = "none" /\ leader = "none"
  /\ pipes = FALSE /\ failure = "none" /\ grace = "unset" /\ answer = "none"

-----------------------------------------------------------------------------
\* A signal to the group: SIGTERM may be ignored, SIGKILL not.
Terminated(who, hard) == IF who = "alive" /\ (hard \/ ~deaf) THEN "dead" ELSE who

\* stop: only the first reason counts.
Stop(reason) ==
  IF failure # "none" THEN UNCHANGED <<leader, descendants, failure, grace>>
  ELSE /\ failure' = reason
       /\ grace' = "set"
       /\ leader' = Terminated(leader, FALSE) /\ descendants' = Terminated(descendants, FALSE)

Spawn ==
  /\ leader = "none" /\ answer = "none"
  /\ IF signal THEN answer' = "AbortError" /\ UNCHANGED <<leader, pipes, failure>>
     ELSE \/ leader' = "alive" /\ pipes' = TRUE /\ UNCHANGED <<failure, answer>>
          \* the error event of a spawn that failed
          \/ leader' = "dead" /\ failure' = "SpawnError" /\ UNCHANGED <<pipes, answer>>
  /\ UNCHANGED <<deadline, descendants, deaf, grace, signal>>

\* The child starts a process of its own.
Forks ==
  /\ leader = "alive" /\ descendants = "none"
  /\ descendants' = "alive"
  /\ UNCHANGED <<deadline, leader, deaf, pipes, failure, grace, signal, answer>>

Exits ==
  /\ leader = "alive" /\ leader' = "dead"
  /\ UNCHANGED <<deadline, descendants, deaf, pipes, failure, grace, signal, answer>>

\* The last holder of the pipes is gone, or has closed them.
PipesClose ==
  /\ pipes /\ leader = "dead"
  /\ pipes' = FALSE
  /\ UNCHANGED <<deadline, leader, descendants, deaf, failure, grace, signal, answer>>

\* The listeners and timers that are there until close.
Aborts ==
  /\ ~signal /\ signal' = TRUE
  /\ IF leader # "none" /\ answer = "none" THEN Stop("AbortError")
     ELSE UNCHANGED <<leader, descendants, failure, grace>>
  /\ UNCHANGED <<deadline, deaf, pipes, answer>>

DeadlinePasses ==
  /\ deadline /\ leader # "none" /\ answer = "none"
  /\ deadline' = FALSE
  /\ Stop("TimeoutError")
  /\ UNCHANGED <<deaf, pipes, signal, answer>>

AnswerTooLong ==
  /\ pipes /\ failure = "none"
  /\ Stop("Oversized")
  /\ UNCHANGED <<deadline, deaf, pipes, signal, answer>>

GraceEnds ==
  /\ grace = "set" /\ answer = "none"
  /\ grace' = "fired"
  /\ leader' = Terminated(leader, TRUE) /\ descendants' = Terminated(descendants, TRUE)
  /\ UNCHANGED <<deadline, deaf, pipes, failure, signal, answer>>

\* Mutant: the rest of the group is left to itself.
ClosesOnly ==
  /\ leader = "dead" /\ ~pipes /\ answer = "none"
  /\ answer' = IF failure = "none" THEN "result" ELSE failure
  /\ UNCHANGED <<deadline, leader, descendants, deaf, pipes, failure, grace, signal>>

\* close: the process is gone and its pipes are closed.  A run that was stopped kills
\* the rest of the group before it rejects.
Closes ==
  /\ leader = "dead" /\ ~pipes /\ answer = "none"
  /\ answer' = IF failure = "none" THEN "result" ELSE failure
  /\ descendants' = IF failure # "none" /\ grace # "unset" THEN Terminated(descendants, TRUE) ELSE descendants
  /\ UNCHANGED <<deadline, leader, deaf, pipes, failure, grace, signal>>

ProcessNext ==
  Spawn \/ Forks \/ Exits \/ PipesClose \/ Aborts \/ DeadlinePasses \/ AnswerTooLong \/ GraceEnds \/ Closes

ProcessSpec == ProcessInit /\ [][ProcessNext]_processVars

\* Timers fire, the pipes of a group that is gone are closed, and the end of the
\* child is reported.  A descendant may hold the pipes as long as it lives.
ProcessFairness ==
  /\ WF_processVars(DeadlinePasses) /\ WF_processVars(GraceEnds)
  /\ WF_processVars(descendants # "alive" /\ PipesClose) /\ WF_processVars(Closes)

-----------------------------------------------------------------------------
(* What an analysis relies on *)

\* A run that was stopped is settled only when nothing of it runs any more, so that
\* its temporary directory can go; and it rejects with the first reason, never with
\* the answer of a process that was cut short.
StoppedIsGone ==
  answer # "none" /\ failure \in {"AbortError", "TimeoutError", "Oversized"} =>
    answer = failure /\ leader = "dead" /\ descendants # "alive"

\* A run that is stopped, or has a deadline, settles.
StoppedRunEnds ==
  /\ (failure # "none") ~> (answer # "none")
  /\ (deadline /\ leader = "alive") ~> (answer # "none")
=============================================================================
