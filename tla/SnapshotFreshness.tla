-------------------------- MODULE SnapshotFreshness --------------------------
(***************************************************************************)
(* core/cache/freshness.ts and core/cache/backgroundRefreshTimer.ts as     *)
(* host/dashboardPanel.ts uses them: how long the timer of an open panel   *)
(* leaves a snapshot alone, on a wall clock that may be set forward and    *)
(* back.  One unit of time is one interval of the timer.                   *)
(***************************************************************************)
EXTENDS Integers

CONSTANTS
  Skew,     \* MAX_FUTURE_SKEW_MS
  MaxTtl,   \* bound: cacheTtlMinutes
  MaxJump   \* bound: how far the clock is set, and how old a snapshot gets

ASSUME FreshnessAssumption == {Skew, MaxTtl, MaxJump} \subseteq Nat /\ MaxTtl <= MaxJump

VARIABLES
  ttl,           \* the cacheTtlMinutes setting, possibly negative
  age,           \* now minus generatedAt, or NoTimestamp
  timerRunning,
  trustedTicks        \* history: ticks in a row that found the snapshot fresh

freshnessVars == <<ttl, age, timerRunning, trustedTicks>>

NoTimestamp == MaxJump + 1

\* effectiveTtlMinutes, with MaxTtl for the default.
EffectiveTtl == IF ttl < 0 THEN MaxTtl ELSE ttl

\* Mutant: a timestamp of the future is as good as any.
FreshnessOfFuture ==
  IF age = NoTimestamp THEN "unknown"
  ELSE IF EffectiveTtl <= 0 THEN "stale"
  ELSE IF age < EffectiveTtl THEN "fresh" ELSE "stale"

\* classifyFreshness
Freshness ==
  IF age = NoTimestamp THEN "unknown"
  ELSE IF EffectiveTtl <= 0 THEN "stale"
  ELSE IF age < -Skew THEN "unknown"
  ELSE IF age < 0 \/ age < EffectiveTtl THEN "fresh" ELSE "stale"

FreshnessInit ==
  /\ ttl \in -1..MaxTtl
  /\ age \in -MaxJump..NoTimestamp
  /\ timerRunning = FALSE /\ trustedTicks = 0

\* start and stop; starting twice is one timer.
StartTimer == ~timerRunning /\ timerRunning' = TRUE /\ UNCHANGED <<ttl, age, trustedTicks>>
StopTimer  == timerRunning /\ timerRunning' = FALSE /\ trustedTicks' = 0 /\ UNCHANGED <<ttl, age>>

Aged(a) == IF a >= MaxJump THEN a ELSE a + 1

\* onBackgroundTick after an interval: a snapshot that is not fresh is scanned again,
\* unless the panel is busy; the scan may fail.
Interval(busy, succeeds) ==
  /\ timerRunning
  /\ IF Freshness = "fresh"
     THEN trustedTicks' = trustedTicks + 1 /\ age' = Aged(age)
     ELSE trustedTicks' = 0 /\ age' = IF ~busy /\ succeeds THEN 0 ELSE Aged(age)
  /\ UNCHANGED <<ttl, timerRunning>>

\* The clock of the machine is set.
ClockSet(a) ==
  /\ age # NoTimestamp
  /\ age' = a /\ trustedTicks' = 0
  /\ UNCHANGED <<ttl, timerRunning>>

FreshnessNext ==
  \/ StartTimer \/ StopTimer
  \/ (\E busy, succeeds \in BOOLEAN : Interval(busy, succeeds))
  \/ (\E a \in -MaxJump..MaxJump : ClockSet(a))

FreshnessSpec == FreshnessInit /\ [][FreshnessNext]_freshnessVars

\* However the clock is set, and whatever timestamp a snapshot carries, the timer
\* trusts it for no longer than the time to live and the tolerated skew, and with a
\* time to live of zero never.
TrustIsBounded == trustedTicks <= IF EffectiveTtl = 0 THEN 0 ELSE EffectiveTtl + Skew
=============================================================================
