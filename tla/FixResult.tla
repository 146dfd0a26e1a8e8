------------------------------ MODULE FixResult ------------------------------
(***************************************************************************)
(* What executeStoredRemediation (upgradeAssistantCoordinator.ts) makes of *)
(* the end of the transaction that writes a transitive fix, and what       *)
(* isTransitiveRemediationApplyResult (webviewProtocol.ts) lets through.   *)
(* The transaction stages the lockfile, is verified, asks about a failed   *)
(* verification and can be cancelled.                                      *)
(***************************************************************************)
EXTENDS UpgradeTransaction

IsFixTransaction ==
  /\ opt.verifier /\ opt.decider /\ opt.signal
  /\ opt.stages # <<>> /\ \A i \in 1..Len(opt.stages) : opt.stages[i].kind = "file"

\* How many findings a plan lists: only whether there are any matters.
Findings(resolved, remaining, introduced) ==
  [resolved |-> resolved, remaining |-> remaining, introduced |-> introduced]
NoFindings == Findings(FALSE, FALSE, FALSE)
FindingsOfPlan(class) == Findings(TRUE, class = "partial", FALSE)

\* RollbackResult.status of the transaction.
TransactionRollback ==
  IF cause = "none" THEN "not-needed"
  ELSE IF \E p \in Paths : restored[p] = "failed" THEN "failed"
  ELSE IF \E p \in Paths : restored[p] = "conflict" THEN "conflict"
  ELSE "succeeded"

\* After a rollback the package manager puts node_modules back, too.
Reconciles == completion = "rolled-back" /\ TransactionRollback = "succeeded" /\ install # "not-run"

\* Mutant: the outcome is that of the transaction alone.
OutcomeOfTransaction(reconciled, class) ==
  CASE completion = "rolled-back" -> IF reason = "cancelled" THEN "cancelled" ELSE "rolled-back"
    [] completion = "incomplete" -> "recovery-required"
    [] completion = "kept" /\ reason = "verified" -> IF class = "full" THEN "verified" ELSE "partial"
    [] OTHER -> IF reason = "cancelled" THEN "cancelled" ELSE "unverified"

\* TransitiveRemediationApplyResult.outcome; `class` is what the last comparison of the graphs said.
ApplyOutcome(reconciled, class) ==
  CASE ~reconciled -> "recovery-required"
    [] reconciled /\ completion = "rolled-back" -> IF reason = "cancelled" THEN "cancelled" ELSE "rolled-back"
    [] reconciled /\ completion = "incomplete" -> "recovery-required"
    [] completion = "kept" /\ reason = "verified" -> IF class = "full" THEN "verified" ELSE "partial"
    [] OTHER -> IF reason = "cancelled" THEN "cancelled" ELSE "unverified"

\* The message; a fix that is not kept leaves all that was reviewed.
ApplyResult(reconciled, class) ==
  LET outcome == ApplyOutcome(reconciled, class)
      shown == FindingsOfPlan(class)
  IN [outcome |-> outcome,
      verification |-> CASE reason = "verified" -> "passed"
                         [] cause = "verification-failed" \/ (completion = "kept" /\ reason = "verification-failed") -> "failed"
                         [] OTHER -> "not-run",
      rollback |-> IF reconciled THEN TransactionRollback ELSE "failed",
      findings |-> CASE outcome = "recovery-required" -> NoFindings
                     [] outcome # "recovery-required" /\ completion = "kept" -> shown
                     [] OTHER -> Findings(FALSE, TRUE, FALSE)]

\* Anything else is not a result but an error, or a plan out of date.
PostsResult == pc = "done" /\ IsFixTransaction /\ ~(completion = "not-started" /\ reason # "cancelled")

\* isTransitiveRemediationApplyResult
ResultAccepted(r) ==
  /\ r.outcome = "verified" => r.verification = "passed" /\ r.rollback = "not-needed" /\ r.findings = Findings(TRUE, FALSE, FALSE)
  /\ r.outcome = "partial" => r.verification = "passed" /\ r.rollback = "not-needed" /\ r.findings = Findings(TRUE, TRUE, FALSE)
  /\ r.outcome = "rolled-back" => r.rollback = "succeeded" /\ ~r.findings.resolved /\ ~r.findings.introduced
  /\ r.outcome = "cancelled" => r.rollback \in {"not-needed", "succeeded"} /\ ~r.findings.resolved /\ ~r.findings.introduced
  /\ r.outcome = "recovery-required" => r.rollback \in {"failed", "conflict"} /\ r.findings = NoFindings
  /\ r.outcome = "unverified" => r.rollback = "not-needed"

\* However the transaction ended, the user is told: the webview accepts the result.  The files are
\* what it says: a fix that is not reported as kept or in need of recovery has left nothing behind,
\* one that was never undone is reported as what it is, and only a verified one as verified.
ResultsAreTold ==
  PostsResult =>
    \A reconciled \in (IF Reconciles THEN BOOLEAN ELSE {TRUE}), class \in {"full", "partial"} :
      LET r == ApplyResult(reconciled, class)
      IN /\ ResultAccepted(r)
         /\ r.outcome \in {"rolled-back", "cancelled"} => Mine = {} /\ reconciled
         /\ Mine # {} => r.outcome \in {"verified", "partial", "unverified", "recovery-required"}
         /\ r.outcome \in {"verified", "partial"} => install = "succeeded" /\ ~aborted
         /\ r.outcome = "recovery-required" => ~reconciled \/ \E p \in Paths : restored[p] \in {"conflict", "failed"}
=============================================================================
