------------------------ MODULE MCUpgradeTransaction ------------------------
(* Two allowlisted files, as every caller passes them: path 1 is           *)
(* package.json, path 2 the lockfile.                                      *)
EXTENDS FixResult

CONSTANTS old, new, installed, theirs

MCPresent == {old, new, installed, theirs}
MCInitialStates == {old, Absent}
MCInstallStates == {installed}
MCUserStates == {theirs, Absent}

ManifestStage == [kind |-> "manifest", path |-> 1, from |-> old, to |-> new]
LockfileStage == [kind |-> "file", path |-> 2, from |-> old, to |-> new]
\* A stage for a file the transaction does not own.
ForeignStage == [kind |-> "file", path |-> 3, from |-> old, to |-> new]

\* Nothing staged and nothing verified, as an install without a review; a
\* manifest stage that is verified with nobody to ask about a failure; and
\* everything configured, with and without a signal.
Partly == [stages : {<<>>}, verifier : {FALSE}, decider : {FALSE}, signal : {TRUE}]
          \cup [stages : {<<ManifestStage>>}, verifier : {TRUE},
                decider : {FALSE}, signal : {TRUE}]
Full(stages, signals) ==
  [stages : stages, verifier : {TRUE}, decider : {TRUE}, signal : signals]

MCOptions ==
  Partly \cup Full({<<ManifestStage>>}, {FALSE})
       \cup Full({<<LockfileStage>>, <<ManifestStage, LockfileStage>>,
                  <<ManifestStage, ForeignStage>>}, {TRUE})
=============================================================================
