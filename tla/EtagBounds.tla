------------------------------ MODULE EtagBounds ------------------------------
(***************************************************************************)
(* boundPersistedEtagEntries of core/cache/persistentEtagStore.ts and the  *)
(* constructor that repairs a store which exceeds the bounds: two byte     *)
(* budgets and a count, filled from the newest entry back.  An entry is    *)
(* [key, size, github, secret], size its serialized bytes; the state       *)
(* machine loads one stored sequence.                                      *)
(***************************************************************************)
EXTENDS Integers, Sequences, SequencesExt, FiniteSetsExt

CONSTANTS
  EtagEntries,     \* the entries that may be stored
  MaxStored,       \* bound: entries of a stored sequence
  EtagBudget,      \* maxBytes
  GithubBudget,    \* MAX_GITHUB_ADVISORY_CACHE_SERIALIZED_BYTES
  EtagLimit,       \* maxEntries
  EmptyBytes       \* serializedEtagCacheBytes([])

ASSUME EtagAssumption == {MaxStored, EtagBudget, GithubBudget, EtagLimit, EmptyBytes} \subseteq Nat

VARIABLES storedEntries, loaded, memory, rewritten
etagVars == <<storedEntries, loaded, memory, rewritten>>

-----------------------------------------------------------------------------
\* The last occurrence of every key that carries no credentials, newest first, up to
\* the count.
NewestFirst(es) ==
  LET LastOfKey(i) == ~\E j \in (i + 1)..Len(es) : es[j].key = es[i].key
      distinct == [i \in 1..Len(es) |-> [entry |-> es[i], last |-> LastOfKey(i)]]
      kept == SelectSeq(Reverse(distinct), LAMBDA d : d.last /\ ~d.entry.secret)
  IN  [i \in 1..(IF Len(kept) < EtagLimit THEN Len(kept) ELSE EtagLimit) |-> kept[i].entry]

Separator(st) == IF st.keys = {} THEN 0 ELSE 1
FitsAlone(e) == EmptyBytes + e.size <= EtagBudget

\* retain: whether an entry fits what has been retained, and what is retained then.
Retains(st, e) ==
  /\ FitsAlone(e)
  /\ e.github => st.github + e.size + Separator(st) <= GithubBudget
  /\ st.total + e.size + Separator(st) <= EtagBudget
With(st, e) ==
  [st EXCEPT !.keys = @ \cup {e.key},
             !.total = @ + e.size + Separator(st),
             !.github = IF e.github THEN @ + e.size + Separator(st) ELSE @]

\* First the advisory aliases, each that fits; then the others, until one that could
\* have been stored does not fit any more.
RetainGithub(st, e) == IF e.github /\ Retains(st, e) THEN With(st, e) ELSE st
\* Mutant: an older entry takes the place a newer one could not have.
RetainAnyOther(st, e) == IF ~e.github /\ Retains(st, e) THEN With(st, e) ELSE st

RetainOther(st, e) ==
  IF e.github \/ st.full \/ ~FitsAlone(e) THEN st
  ELSE IF Retains(st, e) THEN With(st, e) ELSE [st EXCEPT !.full = TRUE]

Retained(es) ==
  LET nothing == [keys |-> {}, total |-> EmptyBytes, github |-> 0, full |-> FALSE]
      aliases == FoldLeft(RetainGithub, nothing, NewestFirst(es))
  IN  FoldLeft(RetainOther, aliases, NewestFirst(es)).keys

\* boundPersistedEtagEntries
Bounded(es) ==
  LET keys == Retained(es) IN Reverse(SelectSeq(NewestFirst(es), LAMBDA e : e.key \in keys))

-----------------------------------------------------------------------------
KeysIn(es) == {es[i].key : i \in DOMAIN es}
Sized(es) == EmptyBytes + FoldLeft(LAMBDA n, e : n + e.size, 0, es) + (IF es = <<>> THEN 0 ELSE Len(es) - 1)

\* The Map of a WriteBackCache: the first place of a key, its last value, and the
\* entries at the front evicted.
AsMap(es) ==
  LET first == SelectSeq([i \in 1..Len(es) |-> i], LAMBDA i : ~\E j \in 1..(i - 1) : es[j].key = es[i].key)
      Latest(k) == es[Max({i \in 1..Len(es) : es[i].key = k})]
      all == [n \in 1..Len(first) |-> Latest(es[first[n]].key)]
  IN  IF Len(all) > EtagLimit THEN SubSeq(all, Len(all) - EtagLimit + 1, Len(all)) ELSE all

EtagInit ==
  /\ storedEntries \in UNION {[1..n -> EtagEntries] : n \in 0..MaxStored}
  /\ loaded = "no" /\ memory = <<>> /\ rewritten = FALSE

\* The constructor: what is not retained goes from memory, and if that changed
\* anything the newest entry is set again so that the store is rewritten.
LoadStore ==
  /\ loaded = "no" /\ loaded' = "yes"
  /\ LET bounded == Bounded(storedEntries)
         left == SelectSeq(AsMap(storedEntries), LAMBDA e : e.key \in KeysIn(bounded))
         changed == storedEntries # bounded
     IN /\ memory' = IF changed /\ bounded # <<>>
                     THEN Append(SelectSeq(left, LAMBDA e : e.key # Last(bounded).key), Last(bounded))
                     ELSE left
        /\ rewritten' = (Len(left) < Len(AsMap(storedEntries)) \/ (changed /\ bounded # <<>>))
  /\ UNCHANGED storedEntries

EtagNext == LoadStore
EtagSpec == EtagInit /\ [][EtagNext]_etagVars

-----------------------------------------------------------------------------
(* What the bounds promise *)

\* Every sequence the store is given leaves one within both budgets and the count, in
\* the order of the writes and free of credentials, and a second pass leaves it as
\* it is.  The aliases kept are those that would be kept had nothing else been
\* stored, and an ordinary entry goes only if it never fitted or every older one
\* goes too.
BoundsHold ==
  LET b == Bounded(storedEntries)
      aliases == SelectSeq(storedEntries, LAMBDA e : e.github)
      Ordinary(e) == ~e.github /\ FitsAlone(e)
  IN  /\ b # <<>> => Sized(b) <= EtagBudget
      /\ Len(b) <= EtagLimit
      /\ \A i \in DOMAIN b : ~b[i].secret
      /\ IsInjective([i \in DOMAIN b |-> b[i].key])
      /\ Bounded(b) = b
      /\ Len(NewestFirst(storedEntries)) < EtagLimit =>
           SelectSeq(b, LAMBDA e : e.github) = Bounded(aliases)
      /\ \A i, j \in DOMAIN NewestFirst(storedEntries) :
           LET newer == NewestFirst(storedEntries)[i]
               older == NewestFirst(storedEntries)[j]
           IN  i < j /\ Ordinary(newer) /\ Ordinary(older) /\ older.key \in KeysIn(b) => newer.key \in KeysIn(b)

\* After the repair, memory holds nothing but bounded entries, their newest one among
\* them, and whatever the store held beyond the bounds is written over.
RepairHolds ==
  loaded = "yes" =>
    /\ KeysIn(memory) \subseteq KeysIn(Bounded(storedEntries))
    /\ Len(memory) <= EtagLimit
    /\ Bounded(storedEntries) # <<>> => Last(Bounded(storedEntries)).key \in KeysIn(memory)
    /\ \A i \in DOMAIN storedEntries : storedEntries[i].key \notin KeysIn(Bounded(storedEntries)) => rewritten

\* The store stays within its bounds, on disk and after a repair in memory.
StoreStaysBounded == BoundsHold /\ RepairHolds
=============================================================================
