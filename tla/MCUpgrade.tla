------------------------------ MODULE MCUpgrade ------------------------------
(***************************************************************************)
(* What an upgrade, a fix or a removal rests on: each decision of the core *)
(* library, over the questions of MCDecisions, and the transaction that    *)
(* carries it out.  Every behaviour is one search for a plan, one          *)
(* transaction, or one question to another decision; the rest stands still.*)
(***************************************************************************)
EXTENDS MCUpgradeTransaction, MCDecisions

VARIABLE running   \* what the behaviour is about
Parts == {"transaction", "plan", "choice", "fixes", "security", "evidence", "lockfile"}

decisionVars == <<choice, fix, asked, evidenceAsked, lockAsked>>
upgradeVars == <<vars, searchVars, decisionVars, running>>

\* The initial state a part stands still in.
Still(p, standing) == running # p => standing

NothingAsked == "nothing"

UpgradeInit ==
  /\ running \in Parts
  /\ Init
  /\ Still("transaction", ~aborted /\ opt = (CHOOSE o \in Options : ~o.signal) /\ disk = [p \in Paths |-> old])
  /\ Still("plan", problem = StillProblem) /\ SearchInit
  /\ IF running = "choice" THEN ChoiceInit ELSE choice = NothingAsked
  /\ IF running = "fixes" THEN FixInit ELSE fix = NothingAsked
  /\ IF running = "security" THEN SecurityInit ELSE asked = NothingAsked
  /\ IF running = "evidence" THEN EvidenceInit ELSE evidenceAsked = NothingAsked
  /\ IF running = "lockfile" THEN LockInit ELSE lockAsked = NothingAsked

Transacts == running = "transaction" /\ Next /\ UNCHANGED <<searchVars, decisionVars, running>>
Searches == running = "plan" /\ SearchNext /\ UNCHANGED <<vars, decisionVars, running>>
\* A question is answered, a search has ended.
Answered == running # "transaction" /\ (running = "plan" => ~Searching) /\ UNCHANGED upgradeVars
UpgradeNext == Transacts \/ Searches \/ Answered

\* The transaction's own fairness.
UpgradeSpec ==
  /\ UpgradeInit /\ [][UpgradeNext]_upgradeVars
  /\ WF_vars(running = "transaction" /\ Own)
  /\ WF_vars(running = "transaction" /\ InstallEnd)
  /\ WF_vars(running = "transaction" /\ VerificationEnd)

-----------------------------------------------------------------------------
\* Each of the next is asked of the states in which its decision is made.

\* A plan moves only what it may and is the smallest; an impossible one does not exist.  A transitive
\* fix is one: it is verified against the graph it leaves.
PlansAreSound == (running = "plan" => PlansAreRight) /\ (running = "fixes" => FixesAreSafe)

\* What is offered is ahead of what is installed, and what is confirmed was installed.
ChoicesAreSound == running = "choice" => OffersAreHonoured

\* What is said about the vulnerabilities that an upgrade removes or leaves is true.
SecurityIsHonest == running = "security" => SecurityIsTrue

\* What may be removed or deduplicated is judged by what the graph says, and the graph by the lockfile.
EvidenceIsRight == (running = "evidence" => EvidenceIsSound) /\ (running = "lockfile" => LockfilesAreRead)
=============================================================================
