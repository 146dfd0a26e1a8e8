----------------------- MODULE MCDependencyOperations -----------------------
(* Two reviews of the same or of different packages cover the shared        *)
(* package names; a third is needed only for a second writer.               *)
EXTENDS DependencyOperations, TLC

CONSTANTS p, q

MCPkgs == {p, q}

\* Packages only name what they are about.
MCSymmetry == Permutations(MCPkgs)

(* The counterexamples are looked for where nothing unusual happens besides *)
(* what they are about.                                                     *)

\* One removal runs while an upgrade review is still stored; nothing fails, is
\* cancelled, expires, is remounted or closed.
RetainedReview ==
  \/ \E f \in Flows :
       \/ AnalyzeUpgrade(f, p) /\ f = 1
       \/ f > 1 /\ \E k \in Pkgs : AnalyzeRemoval(f, k)
       \/ ReserveUpgrade(f) \/ UpgradeStored(f) \/ UpgradeSettled(f) \/ UpgradeFinished(f)
       \/ ReserveRemoval(f) \/ RemovalRead(f) \/ RemovalStored(f)
       \/ kind[f] = "removal" /\ ConfirmReview(f)
       \/ Recheck(f) \/ Begin(f)
  \/ Edit \/ ReviewFoundStale

RetainedReviewSpec == Init /\ [][RetainedReview]_vars

\* The webview remounts during an analysis; no flush takes long enough for a
\* message to arrive in it, and the panel stays open.
Remount ==
  /\ Next
  /\ ~disposed'
  /\ \A f \in Flows : ana[f] = "flushing" => UpgradeFinished(f)

RemountSpec == Init /\ [][Remount]_vars
=============================================================================
