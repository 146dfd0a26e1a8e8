---------------------------- MODULE UpgradeFiles ----------------------------
(***************************************************************************)
(* host/nodeUpgradeTransactionFiles.ts: compareAndSwap of the node file    *)
(* adapter, file operation by file operation, while others edit the file.  *)
(* A replacement is prepared in a temporary file of the same directory and *)
(* takes the name in one rename or, when the file is expected to be        *)
(* absent, in one link.  The process may die anywhere.                     *)
(***************************************************************************)
CONSTANTS
  Contents,   \* what a file may hold
  Gone,       \* no file
  Partial,    \* a file that is being written
  Modes,      \* permission bits of the file
  Private     \* 0600, the mode a temporary file is created with

ASSUME FilesAssumption ==
  /\ Gone \notin Contents /\ Partial \notin Contents /\ Gone # Partial
  /\ Private \notin Modes /\ Modes # {}

VARIABLES
  file, fileMode,      \* the file and its permissions
  temp, tempMode,      \* the temporary file
  expected, wanted,    \* arguments of the call
  late,                \* history: somebody else's change came after the last comparison
  keepMode,            \* permissions found by the second comparison
  replacedMode,        \* history: the permissions of the file a rename replaced, at that moment
  step,                  \* where the call is
  swapOutcome              \* what it decided

filesVars == <<file, fileMode, temp, tempMode, expected, wanted, late, keepMode,
             replacedMode, step, swapOutcome>>
call == <<expected, wanted>>

FilesInit ==
  /\ file \in Contents \cup {Gone} /\ fileMode \in Modes
  /\ temp = Gone /\ tempMode = Private
  /\ expected \in Contents \cup {Gone} /\ wanted \in Contents \cup {Gone}
  /\ late = FALSE /\ keepMode = Private /\ replacedMode = Private
  /\ step = "comparing" /\ swapOutcome = "pending"

\* An editor, git or a package manager writes the file, removes it or sets its permissions.
Overwrite ==
  /\ file' \in Contents \cup {Gone} /\ fileMode' \in Modes \cup {fileMode}
  /\ file' # file \/ (file # Gone /\ fileMode' # fileMode)
  /\ late' = TRUE
  /\ UNCHANGED <<temp, tempMode, call, keepMode, replacedMode, step, swapOutcome>>

\* The call has its answer and still has its temporary file.
Decide(answer) ==
  /\ swapOutcome' = answer
  /\ step' = "cleaning"

\* resolveAllowed and read; anything but what is expected is a conflict.
CompareFirst ==
  /\ step = "comparing"
  /\ late' = (late /\ file # expected)
  /\ IF file # expected THEN Decide("conflict")
     ELSE IF wanted # Gone THEN step' = "creating" /\ UNCHANGED swapOutcome
     ELSE IF expected = Gone THEN Decide("restored")
     ELSE step' = "recomparing" /\ UNCHANGED swapOutcome
  /\ UNCHANGED <<file, fileMode, temp, tempMode, call, keepMode, replacedMode>>

CreateTemp ==
  /\ step = "creating"
  /\ temp' = Partial /\ tempMode' = Private
  /\ step' = "writing"
  /\ UNCHANGED <<file, fileMode, call, late, keepMode, replacedMode, swapOutcome>>

WriteTemp ==
  /\ step = "writing"
  /\ temp' = wanted
  /\ step' = "recomparing"
  /\ UNCHANGED <<file, fileMode, tempMode, call, late, keepMode, replacedMode, swapOutcome>>

\* The second comparison, just before the file is replaced or removed.
CompareAgain ==
  /\ step = "recomparing"
  /\ late' = (late /\ file # expected)
  /\ IF file # expected
     THEN Decide("conflict") /\ UNCHANGED keepMode
     ELSE /\ step' = IF wanted = Gone THEN "unlinking" ELSE "finishing"
          /\ keepMode' = IF file = Gone THEN Private ELSE fileMode
          /\ UNCHANGED swapOutcome
  /\ UNCHANGED <<file, fileMode, temp, tempMode, call, replacedMode>>

\* Mutant: every replacement gets the same ordinary permissions.
FinishWithFixedMode ==
  /\ step = "finishing"
  /\ tempMode' = IF expected = Gone THEN tempMode ELSE CHOOSE m \in Modes : TRUE
  /\ step' = "installing"
  /\ UNCHANGED <<file, fileMode, temp, call, late, keepMode, replacedMode, swapOutcome>>

\* chmod to the permissions just read, sync and close.
FinishTemp ==
  /\ step = "finishing"
  /\ tempMode' = IF expected = Gone THEN tempMode ELSE keepMode
  /\ step' = "installing"
  /\ UNCHANGED <<file, fileMode, temp, call, late, keepMode, replacedMode, swapOutcome>>

\* rename replaces whatever is there.
Rename ==
  /\ step = "installing" /\ expected # Gone
  /\ file' = temp /\ fileMode' = tempMode /\ replacedMode' = fileMode
  /\ temp' = Gone
  /\ Decide("restored")
  /\ UNCHANGED <<tempMode, call, late, keepMode>>

\* Mutant: a rename where a link is needed.
LinkReplacing ==
  /\ step = "installing" /\ expected = Gone
  /\ file' = temp /\ fileMode' = tempMode /\ Decide("restored")
  /\ UNCHANGED <<temp, tempMode, call, late, keepMode, replacedMode>>

\* link refuses to replace a file that appeared.
Link ==
  /\ step = "installing" /\ expected = Gone
  /\ IF file = Gone
     THEN file' = temp /\ fileMode' = tempMode /\ Decide("restored")
     ELSE Decide("conflict") /\ UNCHANGED <<file, fileMode>>
  /\ UNCHANGED <<temp, tempMode, call, late, keepMode, replacedMode>>

\* A file that has disappeared is a conflict, not a failure.
Unlink ==
  /\ step = "unlinking"
  /\ file' = Gone
  /\ Decide(IF file = Gone THEN "conflict" ELSE "restored")
  /\ UNCHANGED <<fileMode, temp, tempMode, call, late, keepMode, replacedMode>>

\* Any file operation may throw.
OperationFails ==
  /\ step \notin {"cleaning", "returned", "died"}
  /\ Decide("failed")
  /\ UNCHANGED <<file, fileMode, temp, tempMode, call, late, keepMode, replacedMode>>

\* finally: the temporary file is removed, and an error of that is swallowed.
Clean ==
  /\ step = "cleaning"
  /\ step' = "returned"
  /\ temp' \in {Gone, temp}
  /\ UNCHANGED <<file, fileMode, tempMode, call, late, keepMode, replacedMode, swapOutcome>>

Die ==
  /\ step \notin {"returned", "died"}
  /\ step' = "died"
  /\ UNCHANGED <<file, fileMode, temp, tempMode, call, late, keepMode, replacedMode, swapOutcome>>

FilesNext ==
  \/ Overwrite \/ CompareFirst \/ CreateTemp \/ WriteTemp \/ CompareAgain \/ FinishTemp
  \/ Rename \/ Link \/ Unlink \/ OperationFails \/ Clean \/ Die

FilesSpec == FilesInit /\ [][FilesNext]_filesVars

-----------------------------------------------------------------------------
(* What the adapter promises *)

Atomic == INSTANCE AtomicSwap WITH outcome <- swapOutcome

\* compareAndSwap is the swap UpgradeTransaction takes it for, up to an edit that
\* comes between the second comparison and a rename or unlink: a conflict or a
\* failure has left the file alone, and a link has replaced nothing.
SwapsAtomically == Atomic!SwapSpec

\* Whatever is on disk under the file's name is whole, even if the process died, and a
\* replacement has exactly the permissions of the file it replaced, unless somebody else
\* changed that file after the second comparison: neither the private mode of the temporary
\* file, nor any fixed mode, nor what the file had when it was compared first.
ReplacementIsWhole ==
  /\ file # Partial
  /\ swapOutcome = "restored" /\ ~late /\ expected # Gone /\ wanted # Gone => fileMode = replacedMode
=============================================================================
