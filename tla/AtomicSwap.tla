----------------------------- MODULE AtomicSwap -----------------------------
(***************************************************************************)
(* What compareAndSwap of UpgradeTransactionFileAdapter                    *)
(* (host/upgradeTransaction.ts) promises of one file: a call replaces what *)
(* it expected, or reports a conflict, or fails, and touches the file only *)
(* in the first case.  Where the file is expected to exist the host system *)
(* has no conditional rename, so an edit that comes after the last         *)
(* comparison may be replaced too; where it is expected to be absent       *)
(* nothing is ever replaced.                                               *)
(***************************************************************************)
CONSTANTS Contents, Gone

VARIABLES
  file,      \* what is on disk
  expected,  \* of the call
  wanted,    \* of the call: the replacement
  late,      \* an edit came after the last comparison of the call
  outcome    \* what the call decided

swapVars == <<file, expected, wanted, late, outcome>>

States == Contents \cup {Gone}

SwapInit ==
  /\ file \in States /\ expected \in States /\ wanted \in States
  /\ late = FALSE /\ outcome = "pending"

\* Somebody else writes or removes the file.
Others ==
  /\ file' \in States
  /\ late' \in BOOLEAN
  /\ UNCHANGED <<expected, wanted, outcome>>

Compare ==
  /\ file = expected
  /\ late' = FALSE
  /\ UNCHANGED <<file, expected, wanted, outcome>>

Swap ==
  /\ outcome = "pending"
  /\ file = expected \/ (late /\ expected # Gone)
  /\ file' = wanted /\ outcome' = "restored"
  /\ late' \in {late, FALSE}
  /\ UNCHANGED <<expected, wanted>>

Conflict ==
  /\ outcome = "pending"
  /\ file # expected
  /\ outcome' = "conflict"
  /\ UNCHANGED <<file, expected, wanted, late>>

Fail ==
  /\ outcome = "pending"
  /\ outcome' = "failed"
  /\ UNCHANGED <<file, expected, wanted, late>>

SwapNext == Others \/ Compare \/ Swap \/ Conflict \/ Fail

SwapSpec == SwapInit /\ [][SwapNext]_swapVars
=============================================================================
