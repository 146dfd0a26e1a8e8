--------------------------- MODULE WriteBackCache ---------------------------
(***************************************************************************)
(* core/cache/writeBackCache.ts, the cache under the project cache         *)
(* (core/cache/projectCacheStore.ts, which writes at once) and under the   *)
(* ETag store (core/cache/persistentEtagStore.ts, which batches its        *)
(* writes).  Reads and writes are synchronous; a chain of promises hands   *)
(* whole snapshots to a store that may fail.                               *)
(***************************************************************************)
EXTENDS Integers, Sequences, SequencesExt

CONSTANTS
  CacheKeys,
  MaxEntries,   \* maxEntries
  Trailing,     \* trailingDelayMs
  MaxDelay,     \* maxDelayMs
  MaxWrites     \* bound: set calls

ASSUME CacheAssumption == {MaxEntries, Trailing, MaxDelay, MaxWrites} \subseteq Nat

VARIABLES
  batching,      \* whether the store has batching options
  entries,       \* the Map in insertion order, <<key, value>>
  dirty,         \* a write is not in a snapshot yet
  cacheDisposed,
  batchAge,      \* time since batchStartedAt, counted up to MaxDelay
  due,           \* time until the scheduled flush
  queue,         \* writeQueue: a flush, or the final snapshot of dispose
  writing,       \* the snapshot being persisted, none or one
  persisted,     \* what the store holds
  failed,        \* history: the last snapshot was not persisted
  dirtyAge,      \* history: the age of the oldest write not in a snapshot
  kept,          \* history: the entries when the cache was disposed
  nWrites        \* set calls so far

cacheVars == <<batching, entries, dirty, cacheDisposed, batchAge, due, queue,
               writing, persisted, failed, dirtyAge, kept, nWrites>>

NoTime == -1
Flush == [final |-> FALSE, snapshot |-> <<>>]
Final(s) == [final |-> TRUE, snapshot |-> s]

CacheInit ==
  /\ batching \in BOOLEAN
  /\ entries = <<>> /\ persisted = <<>>
  /\ dirty = FALSE /\ cacheDisposed = FALSE
  /\ batchAge = NoTime /\ due = NoTime
  /\ queue = <<>> /\ writing = <<>>
  /\ failed = FALSE /\ dirtyAge = NoTime /\ kept = <<>>
  /\ nWrites = 0

-----------------------------------------------------------------------------
KeysOf(es) == {es[i][1] : i \in DOMAIN es}
Without(es, ks) == SelectSeq(es, LAMBDA e : e[1] \notin ks)

\* evictIfNeeded: the entries that were written longest ago go.
Evicted(es) == IF Len(es) > MaxEntries THEN SubSeq(es, Len(es) - MaxEntries + 1, Len(es)) ELSE es

Smallest(s, t) == IF s < t THEN s ELSE t
Older(age) == IF age = NoTime THEN NoTime ELSE Smallest(age + 1, MaxDelay)

\* Mutant: every write puts the flush off again.
ScheduleTrailingFlush ==
  IF cacheDisposed THEN UNCHANGED <<dirty, dirtyAge, queue, batchAge, due>>
  ELSE /\ dirty' = TRUE
       /\ dirtyAge' = IF dirty THEN dirtyAge ELSE 0
       /\ IF batching
          THEN /\ batchAge' = IF batchAge = NoTime THEN 0 ELSE batchAge
               /\ due' = Trailing
               /\ UNCHANGED queue
          ELSE queue' = Append(queue, Flush) /\ UNCHANGED <<batchAge, due>>

\* scheduleFlush: nothing any more once disposed, at once, or after the writes have
\* been quiet, but no later than MaxDelay after the first of them.
ScheduleFlush ==
  IF cacheDisposed THEN UNCHANGED <<dirty, dirtyAge, queue, batchAge, due>>
  ELSE /\ dirty' = TRUE
       /\ dirtyAge' = IF dirty THEN dirtyAge ELSE 0
       /\ IF batching
          THEN /\ batchAge' = IF batchAge = NoTime THEN 0 ELSE batchAge
               /\ due' = Smallest(Trailing, MaxDelay - batchAge')
               /\ UNCHANGED queue
          ELSE queue' = Append(queue, Flush) /\ UNCHANGED <<batchAge, due>>

\* set: the key moves to the recently written end.
Set(k) ==
  /\ nWrites < MaxWrites
  /\ nWrites' = nWrites + 1
  /\ entries' = Evicted(Append(Without(entries, {k}), <<k, nWrites + 1>>))
  /\ ScheduleFlush
  /\ UNCHANGED <<batching, cacheDisposed, writing, persisted, failed, kept>>

\* delete of a key, and deleteWhere of all that match: only a change is written.
Delete(ks) ==
  /\ ks \cap KeysOf(entries) # {}
  /\ entries' = Without(entries, ks)
  /\ ScheduleFlush
  /\ UNCHANGED <<batching, cacheDisposed, writing, persisted, failed, kept, nWrites>>

TimePasses ==
  /\ due # NoTime
  /\ due' = IF due = 0 THEN 0 ELSE due - 1
  /\ batchAge' = Older(batchAge) /\ dirtyAge' = Older(dirtyAge)
  /\ <<due, batchAge, dirtyAge>>' # <<due, batchAge, dirtyAge>>
  /\ UNCHANGED <<batching, entries, dirty, cacheDisposed, queue, writing, persisted, failed, kept,
                 nWrites>>

BatchEnds ==
  /\ due = 0
  /\ due' = NoTime /\ batchAge' = NoTime
  /\ queue' = Append(queue, Flush)
  /\ UNCHANGED <<batching, entries, dirty, cacheDisposed, writing, persisted, failed, dirtyAge,
                 kept, nWrites>>

\* The next flush in the queue takes the entries as they are now; one with nothing
\* new to write is over at once.
StartFlush ==
  /\ writing = <<>> /\ queue # <<>>
  /\ queue' = Tail(queue)
  /\ IF Head(queue).final THEN writing' = <<Head(queue).snapshot>> /\ UNCHANGED <<dirty, dirtyAge>>
     ELSE IF dirty
     THEN writing' = <<entries>> /\ dirty' = FALSE /\ dirtyAge' = NoTime
     ELSE UNCHANGED <<writing, dirty, dirtyAge>>
  /\ UNCHANGED <<batching, entries, cacheDisposed, batchAge, due, persisted, failed,
                 kept, nWrites>>

\* persistSnapshot ends; a failure is swallowed and the queue goes on.
FlushEnds ==
  /\ writing # <<>>
  /\ writing' = <<>>
  /\ failed' \in BOOLEAN
  /\ persisted' = IF failed' THEN persisted ELSE writing[1]
  /\ UNCHANGED <<batching, entries, dirty, cacheDisposed, batchAge, due, queue,
                 dirtyAge, kept, nWrites>>

\* dispose: what is dirty is captured now as one last snapshot.
DisposeCache ==
  /\ ~cacheDisposed
  /\ cacheDisposed' = TRUE
  /\ kept' = entries
  /\ due' = NoTime /\ batchAge' = NoTime
  /\ dirty' = FALSE /\ dirtyAge' = NoTime
  /\ queue' = IF dirty THEN Append(queue, Final(entries)) ELSE queue
  /\ UNCHANGED <<batching, entries, writing, persisted, failed, nWrites>>

CacheNext ==
  \/ (\E k \in CacheKeys : Set(k)) \/ (\E ks \in SUBSET CacheKeys : Delete(ks))
  \/ TimePasses \/ BatchEnds \/ StartFlush \/ FlushEnds \/ DisposeCache

CacheSpec == CacheInit /\ [][CacheNext]_cacheVars

\* Time passes, timers fire, promises settle.
CacheFairness ==
  WF_cacheVars(TimePasses) /\ WF_cacheVars(BatchEnds) /\ WF_cacheVars(StartFlush) /\ WF_cacheVars(FlushEnds)

-----------------------------------------------------------------------------
(* What the cache promises *)

\* A write that is in no snapshot yet has a flush coming: in the queue, or due no
\* later than MaxDelay after it, however long the burst of writes goes on.
DirtyHasFlush ==
  dirty =>
    \/ Flush \in Range(queue)
    \/ due # NoTime /\ dirtyAge + due <= MaxDelay

\* When everything has been flushed, the store holds the last entries, or those of
\* the moment of disposal, unless the last attempt failed: no write is lost to a
\* flush that ran beside it, to an earlier failure or to disposal, and none made
\* after disposal leaks into it.
SettledIsLatest ==
  queue = <<>> /\ writing = <<>> /\ due = NoTime /\ ~failed =>
    persisted = IF cacheDisposed THEN kept ELSE entries

\* Every write is answered by an attempt to persist it.
WritesReachStore ==
  (entries # persisted /\ ~cacheDisposed) ~> (entries = persisted \/ failed \/ cacheDisposed)

\* No write is forgotten before or after it is flushed.
WritesAreKept == DirtyHasFlush /\ SettledIsLatest
=============================================================================
