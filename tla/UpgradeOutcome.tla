--------------------------- MODULE UpgradeOutcome ---------------------------
(***************************************************************************)
(* What an upgrade promises about the allowlisted files, with no word      *)
(* about how: an upgrade is untouched, changing, undoing or settled.       *)
(* `mine` is the set of files that hold something the upgrade put there    *)
(* in place of what it found.                                              *)
(***************************************************************************)
CONSTANT Paths

VARIABLES phase, mine, aborted

outcomeVars == <<phase, mine, aborted>>

OutcomeInit ==
  /\ phase = "untouched" /\ mine = {}
  /\ aborted \in BOOLEAN

Start ==
  /\ phase = "untouched" /\ ~aborted
  /\ phase' = "changing"
  /\ UNCHANGED <<mine, aborted>>

\* Staged bytes and the package manager's writes.
Change ==
  /\ phase = "changing"
  /\ mine' \in SUBSET Paths
  /\ UNCHANGED <<phase, aborted>>

Undo ==
  /\ phase = "changing"
  /\ phase' = "undoing"
  /\ UNCHANGED <<mine, aborted>>

\* Undoing only ever takes files back.
Restore ==
  /\ phase = "undoing"
  /\ mine' \in SUBSET mine
  /\ UNCHANGED <<phase, aborted>>

\* The user's cancellation is never forgotten.
Cancel ==
  /\ phase \in {"untouched", "changing", "undoing"}
  /\ ~aborted /\ aborted' = TRUE
  /\ UNCHANGED <<phase, mine>>

\* Cancelling while the user is asked about a failed verification answers.
CancelAndUndo ==
  /\ phase = "changing" /\ ~aborted /\ aborted' = TRUE
  /\ phase' = "undoing"
  /\ UNCHANGED mine

\* "not started" and "rolled back" leave nothing behind; an upgrade is kept
\* only while it is not cancelled, and never once undoing has begun.
Settle(outcome) ==
  /\ \/ outcome = "not-started" /\ phase \in {"untouched", "changing"} /\ mine = {}
     \/ outcome = "kept" /\ phase = "changing" /\ ~aborted
     \/ outcome = "rolled-back" /\ phase = "undoing" /\ mine = {}
     \/ outcome = "incomplete" /\ phase = "undoing"
  /\ phase' = outcome
  /\ UNCHANGED <<mine, aborted>>

OutcomeNext ==
  \/ Start \/ Change \/ Undo \/ Restore \/ Cancel \/ CancelAndUndo
  \/ \E o \in {"not-started", "kept", "rolled-back", "incomplete"} : Settle(o)

OutcomeSpec == OutcomeInit /\ [][OutcomeNext]_outcomeVars
=============================================================================
