------------------------------- MODULE WorkPool -------------------------------
(***************************************************************************)
(* core/registry/pool.ts: at most Limit workers take the items in order    *)
(* and settle each of them, whatever fails and whenever the signal comes.  *)
(* core/async/sequentialBatch.ts is the batch that checks the signal       *)
(* around every item instead: Sequential.                                  *)
(***************************************************************************)
EXTENDS Integers, FiniteSets

CONSTANTS
  NItems,   \* bound: items of a pool
  Limit     \* options.limit

ASSUME PoolAssumption == NItems \in Nat /\ Limit \in Nat \ {0}

VARIABLES
  sequential,   \* runSequentialBatch instead of runPool
  next,         \* the index the next drain takes
  holds,          \* what each drain is doing: an index, 0 before the next one, or NoItem
  results,
  nSettled,     \* history: how often each item was settled
  poolAborted,
  dispatched,   \* history: items given to a worker after the signal
  completed     \* the count runSequentialBatch returns

poolVars == <<sequential, next, holds, results, nSettled, poolAborted, dispatched, completed>>

Items == 1..NItems
NoItem == NItems + 1
Drains == 1..(IF Limit < NItems THEN Limit ELSE NItems)
Started == {d \in Drains : sequential => d = 1}

PoolInit ==
  /\ sequential \in BOOLEAN
  /\ next = 1 /\ completed = 0 /\ poolAborted = FALSE /\ dispatched = {}
  /\ holds = [d \in Drains |-> IF d \in Started THEN 0 ELSE NoItem]
  /\ results = [i \in Items |-> "none"]
  /\ nSettled = [i \in Items |-> 0]

-----------------------------------------------------------------------------
SettleItem(i, result) ==
  /\ results' = [results EXCEPT ![i] = result]
  /\ nSettled' = [nSettled EXCEPT ![i] = @ + 1]

\* Mutant: the signal is not looked at before an item is given to the worker.
TakeItemAnyway(d) ==
  /\ ~sequential /\ holds[d] = 0
  /\ next' = next + 1
  /\ holds' = [holds EXCEPT ![d] = IF next > NItems THEN NoItem ELSE next]
  /\ UNCHANGED <<sequential, results, nSettled, poolAborted, dispatched, completed>>

\* drain: the next index.  An aborted pool still settles the item, without a worker.
TakeItem(d) ==
  /\ ~sequential /\ holds[d] = 0
  /\ next' = next + 1
  /\ IF next > NItems THEN holds' = [holds EXCEPT ![d] = NoItem] /\ UNCHANGED <<results, nSettled, dispatched>>
     ELSE IF poolAborted THEN SettleItem(next, "CANCELLED") /\ UNCHANGED <<holds, dispatched>>
     ELSE holds' = [holds EXCEPT ![d] = next] /\ UNCHANGED <<results, nSettled, dispatched>>
  /\ UNCHANGED <<sequential, poolAborted, completed>>

\* The worker ends; an aborted fetch fails as CANCELLED, but may also have won the race.
WorkerEnds(d, result) ==
  /\ ~sequential /\ holds[d] \in Items
  /\ result = "CANCELLED" => poolAborted
  /\ SettleItem(holds[d], result)
  /\ holds' = [holds EXCEPT ![d] = 0]
  /\ UNCHANGED <<sequential, next, poolAborted, dispatched, completed>>

\* runSequentialBatch: the signal is looked at before an item and after it.
NextInBatch ==
  /\ sequential /\ holds[1] = 0
  /\ IF poolAborted \/ next > NItems THEN holds' = [holds EXCEPT ![1] = NoItem] /\ UNCHANGED next
     ELSE holds' = [holds EXCEPT ![1] = next] /\ next' = next + 1
  /\ UNCHANGED <<sequential, results, nSettled, poolAborted, dispatched, completed>>

BatchItemEnds(result) ==
  /\ sequential /\ holds[1] \in Items
  /\ result = "CANCELLED" => poolAborted
  /\ holds' = [holds EXCEPT ![1] = IF poolAborted THEN NoItem ELSE 0]
  /\ IF result = "ok" \/ ~poolAborted THEN SettleItem(holds[1], result) ELSE UNCHANGED <<results, nSettled>>
  /\ completed' = IF poolAborted THEN completed ELSE completed + 1
  /\ UNCHANGED <<sequential, next, poolAborted, dispatched>>

AbortPool ==
  /\ ~poolAborted
  /\ poolAborted' = TRUE
  /\ dispatched' = {holds[d] : d \in Drains} \cap Items
  /\ UNCHANGED <<sequential, next, holds, results, nSettled, completed>>

PoolNext ==
  \/ \E d \in Drains : TakeItem(d) \/ (\E r \in {"ok", "failed", "CANCELLED"} : WorkerEnds(d, r))
  \/ NextInBatch \/ (\E r \in {"ok", "failed", "CANCELLED"} : BatchItemEnds(r))
  \/ AbortPool

PoolSpec == PoolInit /\ [][PoolNext]_poolVars

\* Workers settle and the loops go on.
PoolFairness ==
  /\ \A d \in Drains :
       WF_poolVars(TakeItem(d)) /\ WF_poolVars(\E r \in {"ok", "failed", "CANCELLED"} : WorkerEnds(d, r))
  /\ WF_poolVars(NextInBatch) /\ WF_poolVars(\E r \in {"ok", "failed", "CANCELLED"} : BatchItemEnds(r))

-----------------------------------------------------------------------------
(* What callers rely on *)

PoolDone == \A d \in Drains : holds[d] = NoItem

\* When a pool resolves, every item has been settled, and exactly once; no item is
\* settled while two drains hold it, and an item without a result is not behind one
\* that no drain will take any more.
EachSettledOnce ==
  /\ \A i \in Items : nSettled[i] <= 1 /\ (nSettled[i] = 1 <=> results[i] # "none")
  /\ \A d, e \in Drains : d # e /\ holds[d] \in Items => holds[d] # holds[e]
  /\ PoolDone /\ ~sequential => \A i \in Items : nSettled[i] = 1

\* After the signal no worker is started: what has a result other than CANCELLED had
\* been given to a worker before.  A batch that reports n completed items has settled
\* the first n, and one that was not aborted all of them.
SignalStopsWork ==
  /\ poolAborted => \A d \in Drains : holds[d] \in Items => holds[d] \in dispatched
  /\ sequential => \A i \in 1..completed : results[i] # "none"
  /\ sequential /\ PoolDone /\ ~poolAborted => completed = NItems

\* The pool resolves.
PoolResolves == <>PoolDone

\* Items are neither lost, nor settled twice, nor begun after the signal.
ItemsAreAccountedFor == EachSettledOnce /\ SignalStopsWork
=============================================================================
