--------------------------- MODULE FixReviewProofs ---------------------------
(***************************************************************************)
(* The two sides of the review of a fix agree, for any number of plans, of *)
(* edits and of messages on their way.  What is on its way is spoken of    *)
(* through what it will end: a message counts as long as none that ends    *)
(* what it says is behind it.                                              *)
(***************************************************************************)
EXTENDS FixReview, SequenceTheorems, TLAPS

-----------------------------------------------------------------------------
(* Types *)

FixTypes == {"analyzing", "error", "dashboard", "plan", "applying", "stale", "result"}
FixOutcomes == {"none", "kept", "undone", "cancelled", "recovery-required"}
FixIds == Fixes \cup {NoFix}
Carrying == {"rereading", "preparing", "writing"}

FixViewOK ==
  /\ fixView \in [phase : {"none", "analyzing", "error", "plan", "applying", "stale", "result"}, id : FixIds,
                  reviewed : BOOLEAN, cancelRequested : BOOLEAN, outcome : FixOutcomes]
  /\ fixView.id # NoFix <=> fixView.phase \in {"plan", "applying", "stale", "result"}
  /\ fixView.reviewed => fixView.phase = "plan" /\ fixKind[fixView.id] = "actionable"

FixPlansOK ==
  /\ fixKind \in [Fixes -> {"none", "actionable", "blocked", "unshown"}] /\ fixBasis \in [Fixes -> Nat]
  /\ fixStored \in FixIds /\ fixStale \in BOOLEAN /\ fixUnanswered \in BOOLEAN
  /\ fixEdits \in Nat /\ fixSeen \in Nat /\ fixSeen <= fixEdits /\ fixEdits <= MaxFixEdits
  /\ fixWritten \in Seq(Fixes)

\* What is under way is a check, of no plan yet, or carries a plan out.
FixJobOK ==
  /\ fixJob \in [kind : Carrying \cup {"none", "analysis"}, id : FixIds, aborted : BOOLEAN, named : BOOLEAN,
                 basis : Nat]
  /\ fixJob.kind = "none" => fixJob = IdleFix
  /\ fixJob.kind = "analysis" => fixJob.id = NoFix /\ (fixJob.named \/ fixJob.aborted)
  /\ fixJob.kind \in Carrying => /\ fixJob.id \in Fixes /\ fixKind[fixJob.id] = "actionable"
                                 /\ fixStored \in {NoFix, fixJob.id}

\* Nothing is about a plan that was not made, and only what can be applied is confirmed.
Made(id) == id # NoFix => id \in Fixes /\ fixKind[id] # "none"
HostFixMessages ==
  {m \in [type : {"analyze", "retry", "confirm", "cancel", "ready"}, id : FixIds] :
     /\ Made(m.id)
     /\ m.type \in {"retry", "confirm", "cancel"} => m.id # NoFix
     /\ m.type = "confirm" => fixKind[m.id] = "actionable"}
ViewFixMessages ==
  {m \in [type : FixTypes, id : FixIds, outcome : FixOutcomes] :
     Made(m.id) /\ (m.type \in {"plan", "applying", "stale", "result"} => m.id # NoFix)}

FixQueuesOK ==
  /\ fixToHost \in Seq(HostFixMessages) /\ fixToView \in Seq(ViewFixMessages)
  /\ Made(fixView.id) /\ Made(fixStored)

-----------------------------------------------------------------------------
(* What is on its way *)

Some(s, X) == \E i \in 1 .. Len(s) : s[i] \in X
NoneOf(s, X) == \A i \in 1 .. Len(s) : s[i] \notin X
Repeats(s, X) == \E i, j \in 1 .. Len(s) : i < j /\ s[i] \in X /\ s[j] \in X
\* A message of X with none of Y behind it.
Standing(s, X, Y) == \E i \in 1 .. Len(s) : s[i] \in X /\ \A j \in 1 .. Len(s) : i < j => s[j] \notin Y

AsksAny(types) == [type : types, id : FixIds]
AsksOf(types, f) == [type : types, id : {f}]
Says(types) == [type : types, id : FixIds, outcome : FixOutcomes]
SaysOf(types, f) == [type : types, id : {f}, outcome : FixOutcomes]

\* Of a queue to the host: plan f is answered, is confirmed, a check or the state is asked for.
AnswerWaits(q, f) == Some(q, AsksOf({"retry", "confirm", "cancel"}, f))
ConfirmWaits(q, f) == Some(q, AsksOf({"confirm"}, f))
CheckWaits(q) == Some(q, AsksAny({"analyze", "retry", "ready"}))

\* Of a queue to the webview: plan f, or that it is stale, is among it.
PlanComes(q, f) == Some(q, SaysOf({"plan"}, f))
PlanRepeats(q, f) == Repeats(q, SaysOf({"plan"}, f))
StaleComes(q, f) == Some(q, SaysOf({"stale"}, f))

\* What shows plan f goes on doing so; plan f comes and is then shown for good.
TakesOff(f) == Says({"analyzing", "error", "dashboard"}) \cup SaysOf({"applying", "stale", "result"}, f)
StaysShown(q, f) == NoneOf(q, TakesOff(f))
ComesToShow(q, f) == Standing(q, SaysOf({"plan"}, f), TakesOff(f))

\* What has a plan keeps it, whatever becomes of it; plan f comes and is then kept.
StaysHeld(q) == NoneOf(q, Says({"analyzing", "error"}))
ComesToHold(q, f) == Standing(q, SaysOf({"plan"}, f), Says({"analyzing", "error"}))

\* A check is not over; one begins and is not over.
StaysChecking(q) == NoneOf(q, Says({"error", "dashboard", "plan"}))
ComesToCheck(q) == Standing(q, Says({"analyzing"}), Says({"error", "dashboard", "plan"}))

\* Applying f is not over; it begins and is not over.
EndsApplying(f) == Says({"analyzing", "error", "plan"}) \cup SaysOf({"stale", "result"}, f)
StaysApplying(q, f) == NoneOf(q, EndsApplying(f))
ComesToApply(q, f) == Standing(q, SaysOf({"applying"}, f), EndsApplying(f))

\* The webview will show plan f, or hold it in whatever phase, when it has heard everything.
WillShow(f) ==
  /\ fixKind[f] # "unshown"
  /\ (fixView.phase = "plan" /\ fixView.id = f /\ StaysShown(fixToView, f)) \/ ComesToShow(fixToView, f)
WillHold(f) == (fixView.id = f /\ StaysHeld(fixToView)) \/ ComesToHold(fixToView, f)

CheckRuns == fixJob.kind = "analysis" /\ ~fixJob.aborted
Carries(f) == fixJob.kind \in Carrying /\ fixJob.id = f

-----------------------------------------------------------------------------
(* The inductive invariant *)

\* A plan is shown once: what was answered about it, or moved on from it, is not shown again.
PlansAreShownOnce ==
  \A f \in Fixes :
    /\ fixView.id = f => ~PlanComes(fixToView, f)
    /\ ~PlanRepeats(fixToView, f)
    /\ AnswerWaits(fixToHost, f) \/ Carries(f) => /\ ~PlanComes(fixToView, f)
                                                  /\ ~(fixView.phase = "plan" /\ fixView.id = f)

\* What will be shown is kept, and of the files as far as they were reported.
ShownIsKept ==
  \A f \in Fixes :
    WillShow(f) => /\ fixStored = f /\ ~fixStale /\ fixJob = IdleFix
                   /\ fixSeen = fixEdits => fixBasis[f] = fixEdits

\* What will be held is kept or given up, and never replaced.
HeldIsNotReplaced == \A f \in Fixes : WillHold(f) => fixStored \in {NoFix, f} /\ fixJob.kind # "analysis"

\* What is called stale is not carried out.
StaleIsStale ==
  \A f \in Fixes :
    fixStored = f /\ ((fixView.phase = "stale" /\ fixView.id = f) \/ StaleComes(fixToView, f)) => fixStale

\* Whoever will wait for a check is going to be answered.
CheckingIsServed ==
  /\ ComesToCheck(fixToView) => CheckRuns
  /\ fixView.phase = "analyzing" /\ StaysChecking(fixToView) => fixUnanswered \/ CheckRuns \/ CheckWaits(fixToHost)

\* Whoever will wait for a plan to be applied is going to be answered.
ApplyingIsServed ==
  \A f \in Fixes :
    /\ ComesToApply(fixToView, f) => fixJob.kind = "writing" /\ fixJob.id = f
    /\ fixView.phase = "applying" /\ fixView.id = f /\ StaysApplying(fixToView, f) =>
         fixUnanswered \/ Carries(f) \/ ConfirmWaits(fixToHost, f)

\* A plan that was written is let go of when that ends, and is not carried out again.
WritesHappenOnce ==
  \A f \in Fixes :
    /\ ~Repeats(fixWritten, {f})
    /\ Some(fixWritten, {f}) => /\ fixKind[f] = "actionable"
                                /\ fixStored # f \/ (fixJob.kind = "writing" /\ fixJob.id = f)
                                /\ fixJob.kind \in {"rereading", "preparing"} => fixJob.id # f

\* A check that goes on has read what was reported.
ChecksAreCurrent == CheckRuns /\ fixJob.basis # Unread /\ fixSeen = fixEdits => fixJob.basis = fixEdits

FixIInv ==
  /\ FixViewOK /\ FixPlansOK /\ FixJobOK /\ FixQueuesOK
  /\ PlansAreShownOnce /\ ShownIsKept /\ HeldIsNotReplaced /\ StaleIsStale /\ CheckingIsServed /\ ApplyingIsServed
  /\ WritesHappenOnce /\ ChecksAreCurrent

-----------------------------------------------------------------------------
(* Queues *)

\* A sequence with nothing in it, and one with one more at its end.
LEMMA NothingWaits ==
  /\ \A X : ~Some(<<>>, X) /\ NoneOf(<<>>, X) /\ ~Repeats(<<>>, X)
  /\ \A X, Y : ~Standing(<<>>, X, Y)
BY DEF Some, NoneOf, Repeats, Standing

LEMMA Joining ==
  ASSUME NEW S, NEW s \in Seq(S), NEW m \in S
  PROVE  /\ s \o <<m>> \in Seq(S) /\ Append(s, m) = s \o <<m>>
         /\ \A X : /\ Some(s \o <<m>>, X) <=> Some(s, X) \/ m \in X
                   /\ NoneOf(s \o <<m>>, X) <=> NoneOf(s, X) /\ m \notin X
                   /\ Repeats(s \o <<m>>, X) <=> Repeats(s, X) \/ (Some(s, X) /\ m \in X)
         /\ \A X, Y : Standing(s \o <<m>>, X, Y) <=> m \in X \/ (Standing(s, X, Y) /\ m \notin Y)
<1> DEFINE t == s \o <<m>>
<1>1. <<m>> \in Seq(S) /\ Len(<<m>>) = 1 /\ <<m>>[1] = m
  OBVIOUS
<1>2. /\ t \in Seq(S) /\ Len(t) = Len(s) + 1 /\ \A i \in 1 .. Len(s) : t[i] = s[i]
      /\ t[Len(s) + 1] = m
  BY <1>1, ConcatProperties
<1>3. Append(s, m) = t
  BY <1>2, AppendProperties
<1>4. Len(s) \in Nat
  OBVIOUS
<1> HIDE DEF t
<1>5. ASSUME NEW X
      PROVE  /\ Some(t, X) <=> Some(s, X) \/ m \in X
             /\ NoneOf(t, X) <=> NoneOf(s, X) /\ m \notin X
             /\ Repeats(t, X) <=> Repeats(s, X) \/ (Some(s, X) /\ m \in X)
  BY <1>2, <1>4 DEF Some, NoneOf, Repeats
<1>6. ASSUME NEW X, NEW Y
      PROVE  Standing(t, X, Y) <=> m \in X \/ (Standing(s, X, Y) /\ m \notin Y)
  BY <1>2, <1>4 DEF Standing
<1> QED BY <1>2, <1>3, <1>5, <1>6 DEF t

\* A sequence whose head is taken.
LEMMA Taking ==
  ASSUME NEW S, NEW s \in Seq(S), s # <<>>
  PROVE  /\ Tail(s) \in Seq(S) /\ Head(s) \in S
         /\ \A X : /\ Some(s, X) <=> Some(Tail(s), X) \/ Head(s) \in X
                   /\ NoneOf(s, X) <=> NoneOf(Tail(s), X) /\ Head(s) \notin X
                   /\ Repeats(s, X) <=> Repeats(Tail(s), X) \/ (Some(Tail(s), X) /\ Head(s) \in X)
         /\ \A X, Y : Standing(s, X, Y) <=> Standing(Tail(s), X, Y) \/ (Head(s) \in X /\ NoneOf(Tail(s), Y))
<1> DEFINE t == Tail(s)
<1>1. /\ t \in Seq(S) /\ Len(s) \in Nat \ {0} /\ Len(t) = Len(s) - 1 /\ \A i \in 1 .. Len(s) - 1 : t[i] = s[i + 1]
      /\ Head(s) = s[1] /\ s[1] \in S
  BY HeadTailProperties
<1>2. \A i \in 2 .. Len(s) : i - 1 \in 1 .. Len(t) /\ t[i - 1] = s[i]
  BY <1>1
<1>3. \A i \in 1 .. Len(t) : i + 1 \in 1 .. Len(s) /\ t[i] = s[i + 1]
  BY <1>1
<1>4. 1 \in 1 .. Len(s) /\ \A i \in 1 .. Len(s) : i = 1 \/ i \in 2 .. Len(s)
  BY <1>1
<1> HIDE DEF t
<1>5. ASSUME NEW X
      PROVE  /\ Some(s, X) <=> Some(t, X) \/ Head(s) \in X
             /\ NoneOf(s, X) <=> NoneOf(t, X) /\ Head(s) \notin X
  <2>1. ASSUME NEW i \in 1 .. Len(s), s[i] \in X
        PROVE  Some(t, X) \/ Head(s) \in X
    BY <1>1, <1>2, <1>4, <2>1 DEF Some
  <2>2. ASSUME NEW i \in 1 .. Len(t), t[i] \in X
        PROVE  Some(s, X)
    BY <1>3, <2>2 DEF Some
  <2>3. Head(s) \in X => Some(s, X)
    BY <1>1, <1>4 DEF Some
  <2>4. (NoneOf(s, X) <=> ~Some(s, X)) /\ (NoneOf(t, X) <=> ~Some(t, X))
    BY DEF NoneOf, Some
  <2> QED BY <2>1, <2>2, <2>3, <2>4 DEF Some
<1>6. ASSUME NEW X
      PROVE  Repeats(s, X) <=> Repeats(t, X) \/ (Some(t, X) /\ Head(s) \in X)
  <2>1. ASSUME NEW i \in 1 .. Len(s), NEW j \in 1 .. Len(s), i < j, s[i] \in X, s[j] \in X
        PROVE  Repeats(t, X) \/ (Some(t, X) /\ Head(s) \in X)
    <3>1. j \in 2 .. Len(s)
      BY <1>1, <2>1
    <3>2. CASE i = 1
      BY <1>1, <1>2, <2>1, <3>1, <3>2 DEF Some
    <3>3. CASE i # 1
      <4>1. i \in 2 .. Len(s) /\ i - 1 < j - 1
        BY <1>1, <2>1, <3>1, <3>3
      <4> QED BY <1>2, <2>1, <3>1, <4>1 DEF Repeats
    <3> QED BY <3>2, <3>3
  <2>2. ASSUME NEW i \in 1 .. Len(t), NEW j \in 1 .. Len(t), i < j, t[i] \in X, t[j] \in X
        PROVE  Repeats(s, X)
    <3>1. i + 1 < j + 1
      BY <2>2
    <3> QED BY <1>3, <2>2, <3>1 DEF Repeats
  <2>3. ASSUME NEW j \in 1 .. Len(t), t[j] \in X, Head(s) \in X
        PROVE  Repeats(s, X)
    <3>1. 1 \in 1 .. Len(s) /\ 1 < j + 1
      BY <1>1, <2>3
    <3> QED BY <1>1, <1>3, <2>3, <3>1 DEF Repeats
  <2> QED BY <2>1, <2>2, <2>3 DEF Repeats, Some
<1>7. ASSUME NEW X, NEW Y
      PROVE  Standing(s, X, Y) <=> Standing(t, X, Y) \/ (Head(s) \in X /\ NoneOf(t, Y))
  <2>1. ASSUME NEW i \in 1 .. Len(s), s[i] \in X, \A j \in 1 .. Len(s) : i < j => s[j] \notin Y
        PROVE  Standing(t, X, Y) \/ (Head(s) \in X /\ NoneOf(t, Y))
    <3>1. CASE i = 1
      <4>1. \A j \in 1 .. Len(t) : j + 1 \in 1 .. Len(s) /\ 1 < j + 1
        BY <1>1, <1>3
      <4> QED BY <1>1, <1>3, <2>1, <3>1, <4>1 DEF NoneOf
    <3>2. CASE i # 1
      <4>1. i \in 2 .. Len(s)
        BY <1>1, <2>1, <3>2
      <4>2. i - 1 \in 1 .. Len(t) /\ t[i - 1] \in X
        BY <1>2, <2>1, <4>1
      <4>3. ASSUME NEW j \in 1 .. Len(t), i - 1 < j
            PROVE  t[j] \notin Y
        <5>1. j + 1 \in 1 .. Len(s) /\ i < j + 1
          BY <1>3, <4>1, <4>3
        <5> QED BY <1>3, <2>1, <5>1
      <4> QED BY <4>2, <4>3 DEF Standing
    <3> QED BY <3>1, <3>2
  <2>2. ASSUME NEW i \in 1 .. Len(t), t[i] \in X, \A j \in 1 .. Len(t) : i < j => t[j] \notin Y
        PROVE  Standing(s, X, Y)
    <3>1. i + 1 \in 1 .. Len(s) /\ s[i + 1] \in X
      BY <1>3, <2>2
    <3>2. ASSUME NEW j \in 1 .. Len(s), i + 1 < j
          PROVE  s[j] \notin Y
      <4>1. j \in 2 .. Len(s) /\ i < j - 1
        BY <1>1, <2>2, <3>2
      <4> QED BY <1>2, <2>2, <4>1
    <3> QED BY <3>1, <3>2 DEF Standing
  <2>3. ASSUME Head(s) \in X, NoneOf(t, Y)
        PROVE  Standing(s, X, Y)
    <3>1. 1 \in 1 .. Len(s) /\ s[1] \in X
      BY <1>1, <2>3
    <3>2. \A j \in 1 .. Len(s) : 1 < j => s[j] \notin Y
      <4>1. \A j \in 1 .. Len(s) : 1 < j => j \in 2 .. Len(s)
        BY <1>1
      <4> QED BY <1>2, <2>3, <4>1 DEF NoneOf
    <3> QED BY <3>1, <3>2 DEF Standing
  <2> QED BY <2>1, <2>2, <2>3 DEF Standing
<1> QED BY <1>1, <1>5, <1>6, <1>7 DEF t

-----------------------------------------------------------------------------
(* Messages *)

ToHostMessages == [type : {"analyze", "retry", "confirm", "cancel", "ready"}, id : FixIds]
ToViewMessages == [type : FixTypes, id : FixIds, outcome : FixOutcomes]

\* What a message does to a plan that is shown, and to one that is applied.
FixOff(m, f) == m.type \in {"analyzing", "error", "dashboard"} \/ (m.type \in {"applying", "stale", "result"} /\ m.id = f)
FixOver(m, f) == m.type \in {"analyzing", "error", "plan"} \/ (m.type \in {"stale", "result"} /\ m.id = f)
IsFix(m, type, f) == m.type = type /\ m.id = f

\* Queue r to the webview is q and message m behind it.
ToldMore(q, r, m) ==
  /\ \A f : /\ PlanComes(r, f) <=> PlanComes(q, f) \/ IsFix(m, "plan", f)
            /\ PlanRepeats(r, f) <=> PlanRepeats(q, f) \/ (PlanComes(q, f) /\ IsFix(m, "plan", f))
            /\ StaleComes(r, f) <=> StaleComes(q, f) \/ IsFix(m, "stale", f)
            /\ StaysShown(r, f) <=> StaysShown(q, f) /\ ~FixOff(m, f)
            /\ ComesToShow(r, f) <=> IsFix(m, "plan", f) \/ (ComesToShow(q, f) /\ ~FixOff(m, f))
            /\ ComesToHold(r, f) <=> IsFix(m, "plan", f) \/ (ComesToHold(q, f) /\ m.type \notin {"analyzing", "error"})
            /\ StaysApplying(r, f) <=> StaysApplying(q, f) /\ ~FixOver(m, f)
            /\ ComesToApply(r, f) <=> IsFix(m, "applying", f) \/ (ComesToApply(q, f) /\ ~FixOver(m, f))
  /\ StaysHeld(r) <=> StaysHeld(q) /\ m.type \notin {"analyzing", "error"}
  /\ StaysChecking(r) <=> StaysChecking(q) /\ m.type \notin {"error", "dashboard", "plan"}
  /\ ComesToCheck(r) <=> m.type = "analyzing" \/ (ComesToCheck(q) /\ m.type \notin {"error", "dashboard", "plan"})

\* Queue q to the webview is message m and r behind it.
HeardFirst(q, r, m) ==
  /\ \A f : /\ PlanComes(q, f) <=> PlanComes(r, f) \/ IsFix(m, "plan", f)
            /\ PlanRepeats(q, f) <=> PlanRepeats(r, f) \/ (PlanComes(r, f) /\ IsFix(m, "plan", f))
            /\ StaleComes(q, f) <=> StaleComes(r, f) \/ IsFix(m, "stale", f)
            /\ StaysShown(q, f) <=> StaysShown(r, f) /\ ~FixOff(m, f)
            /\ ComesToShow(q, f) <=> ComesToShow(r, f) \/ (IsFix(m, "plan", f) /\ StaysShown(r, f))
            /\ ComesToHold(q, f) <=> ComesToHold(r, f) \/ (IsFix(m, "plan", f) /\ StaysHeld(r))
            /\ StaysApplying(q, f) <=> StaysApplying(r, f) /\ ~FixOver(m, f)
            /\ ComesToApply(q, f) <=> ComesToApply(r, f) \/ (IsFix(m, "applying", f) /\ StaysApplying(r, f))
  /\ StaysHeld(q) <=> StaysHeld(r) /\ m.type \notin {"analyzing", "error"}
  /\ StaysChecking(q) <=> StaysChecking(r) /\ m.type \notin {"error", "dashboard", "plan"}
  /\ ComesToCheck(q) <=> ComesToCheck(r) \/ (m.type = "analyzing" /\ StaysChecking(r))

\* Queue r to the host is q and one message m more, at either end.
AskedMore(q, r, m) ==
  /\ \A f : /\ AnswerWaits(r, f) <=> AnswerWaits(q, f) \/ (m.type \in {"retry", "confirm", "cancel"} /\ m.id = f)
            /\ ConfirmWaits(r, f) <=> ConfirmWaits(q, f) \/ IsFix(m, "confirm", f)
  /\ CheckWaits(r) <=> CheckWaits(q) \/ m.type \in {"analyze", "retry", "ready"}

\* What a message is among.
LEMMA MessageSets ==
  /\ \A T : \A m \in ToViewMessages : m \in Says(T) <=> m.type \in T
  /\ \A T, f : \A m \in ToViewMessages : m \in SaysOf(T, f) <=> m.type \in T /\ m.id = f
  /\ \A T : \A m \in ToHostMessages : m \in AsksAny(T) <=> m.type \in T
  /\ \A T, f : \A m \in ToHostMessages : m \in AsksOf(T, f) <=> m.type \in T /\ m.id = f
BY DEF ToViewMessages, ToHostMessages, Says, SaysOf, AsksAny, AsksOf

LEMMA ViewSets ==
  ASSUME NEW m \in ToViewMessages
  PROVE  /\ \A f : /\ m \in TakesOff(f) <=> FixOff(m, f)
                   /\ m \in EndsApplying(f) <=> FixOver(m, f)
                   /\ m \in SaysOf({"plan"}, f) <=> IsFix(m, "plan", f)
                   /\ m \in SaysOf({"stale"}, f) <=> IsFix(m, "stale", f)
                   /\ m \in SaysOf({"applying"}, f) <=> IsFix(m, "applying", f)
         /\ m \in Says({"analyzing", "error"}) <=> m.type \in {"analyzing", "error"}
         /\ m \in Says({"error", "dashboard", "plan"}) <=> m.type \in {"error", "dashboard", "plan"}
         /\ m \in Says({"analyzing"}) <=> m.type = "analyzing"
<1>1. /\ \A T : m \in Says(T) <=> m.type \in T
      /\ \A T, f : m \in SaysOf(T, f) <=> m.type \in T /\ m.id = f
  BY MessageSets
<1> QED BY <1>1 DEF TakesOff, EndsApplying, FixOff, FixOver, IsFix

LEMMA HostSets ==
  ASSUME NEW m \in ToHostMessages
  PROVE  /\ \A f : /\ m \in AsksOf({"retry", "confirm", "cancel"}, f)
                        <=> m.type \in {"retry", "confirm", "cancel"} /\ m.id = f
                   /\ m \in AsksOf({"confirm"}, f) <=> IsFix(m, "confirm", f)
         /\ m \in AsksAny({"analyze", "retry", "ready"}) <=> m.type \in {"analyze", "retry", "ready"}
<1>1. /\ \A T : m \in AsksAny(T) <=> m.type \in T
      /\ \A T, f : m \in AsksOf(T, f) <=> m.type \in T /\ m.id = f
  BY MessageSets
<1> QED BY <1>1 DEF IsFix

LEMMA Telling ==
  ASSUME NEW q \in Seq(ToViewMessages), NEW m \in ToViewMessages
  PROVE  q \o <<m>> \in Seq(ToViewMessages) /\ ToldMore(q, q \o <<m>>, m)
<1> DEFINE r == q \o <<m>>
<1>1. /\ r \in Seq(ToViewMessages)
      /\ \A X : /\ Some(r, X) <=> Some(q, X) \/ m \in X
                /\ NoneOf(r, X) <=> NoneOf(q, X) /\ m \notin X
                /\ Repeats(r, X) <=> Repeats(q, X) \/ (Some(q, X) /\ m \in X)
      /\ \A X, Y : Standing(r, X, Y) <=> m \in X \/ (Standing(q, X, Y) /\ m \notin Y)
  BY Joining
<1> HIDE DEF r
<1>2. ToldMore(q, r, m)
  BY <1>1, ViewSets DEF ToldMore, PlanComes, PlanRepeats, StaleComes, StaysShown, ComesToShow, StaysHeld,
       ComesToHold, StaysChecking, ComesToCheck, StaysApplying, ComesToApply
<1> QED BY <1>1, <1>2 DEF r

LEMMA Hearing ==
  ASSUME NEW q \in Seq(ToViewMessages), q # <<>>
  PROVE  /\ Tail(q) \in Seq(ToViewMessages) /\ Head(q) \in ToViewMessages
         /\ HeardFirst(q, Tail(q), Head(q))
<1> DEFINE r == Tail(q)  m == Head(q)
<1>1. /\ r \in Seq(ToViewMessages) /\ m \in ToViewMessages
      /\ \A X : /\ Some(q, X) <=> Some(r, X) \/ m \in X
                /\ NoneOf(q, X) <=> NoneOf(r, X) /\ m \notin X
                /\ Repeats(q, X) <=> Repeats(r, X) \/ (Some(r, X) /\ m \in X)
      /\ \A X, Y : Standing(q, X, Y) <=> Standing(r, X, Y) \/ (m \in X /\ NoneOf(r, Y))
  BY Taking
<1> HIDE DEF r, m
<1>2. HeardFirst(q, r, m)
  BY <1>1, ViewSets DEF HeardFirst, PlanComes, PlanRepeats, StaleComes, StaysShown, ComesToShow, StaysHeld,
       ComesToHold, StaysChecking, ComesToCheck, StaysApplying, ComesToApply
<1> QED BY <1>1, <1>2 DEF r, m

LEMMA Asking ==
  ASSUME NEW q \in Seq(ToHostMessages), NEW m \in ToHostMessages
  PROVE  AskedMore(q, Append(q, m), m)
<1> DEFINE r == Append(q, m)
<1>0. r = q \o <<m>>
  BY Joining
<1>1. \A X : Some(r, X) <=> Some(q, X) \/ m \in X
  BY <1>0, Joining
<1> HIDE DEF r
<1>2. AskedMore(q, r, m)
  BY <1>1, HostSets DEF AskedMore, AnswerWaits, ConfirmWaits, CheckWaits
<1> QED BY <1>2 DEF r

LEMMA Handling ==
  ASSUME NEW q \in Seq(ToHostMessages), q # <<>>
  PROVE  AskedMore(Tail(q), q, Head(q))
<1> DEFINE r == Tail(q)  m == Head(q)
<1>1. m \in ToHostMessages /\ \A X : Some(q, X) <=> Some(r, X) \/ m \in X
  BY Taking
<1> HIDE DEF r, m
<1>2. AskedMore(r, q, m)
  BY <1>1, HostSets DEF AskedMore, AnswerWaits, ConfirmWaits, CheckWaits
<1> QED BY <1>2 DEF r, m

\* What the constants are.
LEMMA FixConstants == NoFix \notin Fixes /\ MaxFixEdits \in Nat /\ Unread \in Nat /\ Unread > MaxFixEdits
BY FixAssumption DEF NoFix, Fixes, Unread

\* What is under way.
LEMMA JobKinds ==
  ASSUME FixJobOK
  PROVE  /\ fixJob.kind = "none" <=> fixJob = IdleFix
         /\ fixJob.kind \in {"none", "analysis", "rereading", "preparing", "writing"}
         /\ [IdleFix EXCEPT !.aborted = FALSE] = IdleFix
<1>1. fixJob.kind = "none" <=> fixJob = IdleFix
  BY DEF FixJobOK, IdleFix
<1>2. fixJob.kind \in {"none", "analysis", "rereading", "preparing", "writing"}
  BY DEF FixJobOK, Carrying
<1>3. [IdleFix EXCEPT !.aborted = FALSE] = IdleFix
  <2> SUFFICES ASSUME NEW r, r = IdleFix
               PROVE  [r EXCEPT !.aborted = FALSE] = r
    OBVIOUS
  <2>1. [r EXCEPT !.aborted = FALSE] = [x \in DOMAIN r |-> IF x = "aborted" THEN FALSE ELSE r[x]]
    OBVIOUS
  <2>2. r = [x \in DOMAIN r |-> r[x]] /\ r["aborted"] = FALSE
    BY DEF IdleFix
  <2> QED BY <2>1, <2>2
<1> QED BY <1>1, <1>2, <1>3

\* What comes to be shown or held comes.
LEMMA ComingPlans == \A q, f : ComesToShow(q, f) \/ ComesToHold(q, f) => PlanComes(q, f)
BY DEF ComesToShow, ComesToHold, PlanComes, Standing, Some

-----------------------------------------------------------------------------
(* Steps of the queues *)

\* A plan that was made stays what it is.
PlansStay ==
  /\ fixKind' \in [Fixes -> {"none", "actionable", "blocked", "unshown"}]
  /\ \A f \in Fixes : fixKind[f] # "none" => fixKind'[f] = fixKind[f]

\* What the two queues may hold grows with the plans that are made.
LEMMA MadeStays ==
  ASSUME FixPlansOK, PlansStay
  PROVE  /\ HostFixMessages \subseteq HostFixMessages' /\ ViewFixMessages \subseteq ViewFixMessages'
         /\ \A id \in FixIds : Made(id) => Made(id)'
         /\ HostFixMessages \subseteq ToHostMessages /\ ViewFixMessages \subseteq ToViewMessages
         /\ ViewFixMessages' \subseteq ToViewMessages
BY DEF PlansStay, FixPlansOK, HostFixMessages, ViewFixMessages, ToHostMessages, ToViewMessages, Made, FixIds, Fixes, NoFix

\* Both queues hold what they may after such a step, if they are left alone.
LEMMA QueuesStay ==
  ASSUME FixQueuesOK, FixPlansOK, PlansStay
  PROVE  /\ fixToHost' = fixToHost => fixToHost' \in Seq(HostFixMessages)'
         /\ fixToView' = fixToView => fixToView' \in Seq(ViewFixMessages)'
         /\ fixToHost \in Seq(ToHostMessages) /\ fixToView \in Seq(ToViewMessages)
BY MadeStays, SeqMonotonic DEF FixQueuesOK

\* What a queue to the webview holds is what it may hold after such a step.
LEMMA QueueMayStay == ASSUME FixQueuesOK, FixPlansOK, PlansStay PROVE fixToView \in Seq(ViewFixMessages')
BY MadeStays, SeqMonotonic DEF FixQueuesOK

\* One more message behind a queue to the webview.
LEMMA ToldTo ==
  ASSUME FixPlansOK, PlansStay, NEW q \in Seq(ViewFixMessages'), NEW m, m \in ViewFixMessages'
  PROVE  q \o <<m>> \in Seq(ViewFixMessages') /\ q \in Seq(ToViewMessages) /\ ToldMore(q, q \o <<m>>, m)
<1>1. q \in Seq(ToViewMessages) /\ m \in ToViewMessages
  BY MadeStays, SeqMonotonic
<1> QED BY <1>1, Joining, Telling

\* The host tells the webview something.
LEMMA HostHasTold ==
  ASSUME FixQueuesOK, FixPlansOK, PlansStay, NEW m, m \in ViewFixMessages', fixToView' = fixToView \o <<m>>
  PROVE  fixToView' \in Seq(ViewFixMessages)' /\ ToldMore(fixToView, fixToView', m)
BY QueueMayStay, ToldTo

LEMMA HostTells ==
  ASSUME FixQueuesOK, FixPlansOK, PlansStay, NEW m, m \in ViewFixMessages', FixTells(<<m>>)
  PROVE  fixToView' \in Seq(ViewFixMessages)' /\ ToldMore(fixToView, fixToView', m)
BY HostHasTold DEF FixTells

\* What it may say.
LEMMA SaysOK ==
  ASSUME NEW t \in FixTypes, NEW n \in FixIds, NEW o \in FixOutcomes, Made(n)',
         t \in {"plan", "applying", "stale", "result"} => n # NoFix,
         NEW m, m = [type |-> t, id |-> n, outcome |-> o]
  PROVE  m \in ViewFixMessages' /\ m.type = t /\ m.id = n /\ m.outcome = o
BY DEF ViewFixMessages, Made

\* The webview hears something.
LEMMA ViewHears ==
  ASSUME FixQueuesOK, FixPlansOK, PlansStay, fixToView # <<>>, fixToView' = Tail(fixToView)
  PROVE  /\ fixToView' \in Seq(ViewFixMessages)' /\ HeardFirst(fixToView, fixToView', Head(fixToView))
         /\ Head(fixToView) \in ViewFixMessages
<1>1. Tail(fixToView) \in Seq(ViewFixMessages) /\ Head(fixToView) \in ViewFixMessages
  BY Taking DEF FixQueuesOK
<1>2. Tail(fixToView) \in Seq(ViewFixMessages')
  BY <1>1, MadeStays, SeqMonotonic
<1> QED BY <1>1, <1>2, QueuesStay, Hearing

\* The webview asks for something.
LEMMA ViewAsks ==
  ASSUME FixQueuesOK, FixPlansOK, PlansStay, NEW t, NEW n, [type |-> t, id |-> n] \in HostFixMessages, SendFix(t, n)
  PROVE  fixToHost' \in Seq(HostFixMessages)' /\ AskedMore(fixToHost, fixToHost', [type |-> t, id |-> n])
<1> DEFINE m == [type |-> t, id |-> n]
<1>1. fixToHost' = Append(fixToHost, m) /\ m \in HostFixMessages /\ m \in ToHostMessages
  BY MadeStays DEF SendFix
<1> HIDE DEF m
<1>2. Append(fixToHost, m) \in Seq(HostFixMessages)
  BY <1>1 DEF FixQueuesOK
<1>3. Append(fixToHost, m) \in Seq(HostFixMessages')
  BY <1>2, MadeStays, SeqMonotonic
<1>4. AskedMore(fixToHost, Append(fixToHost, m), m)
  BY <1>1, QueuesStay, Asking
<1> QED BY <1>1, <1>3, <1>4 DEF m

\* The host takes up what it is asked for.
LEMMA HostTakes ==
  ASSUME FixQueuesOK, FixPlansOK, PlansStay, fixToHost # <<>>, fixToHost' = Tail(fixToHost)
  PROVE  /\ fixToHost' \in Seq(HostFixMessages)' /\ AskedMore(fixToHost', fixToHost, Head(fixToHost))
         /\ Head(fixToHost) \in HostFixMessages
<1>1. Tail(fixToHost) \in Seq(HostFixMessages) /\ Head(fixToHost) \in HostFixMessages
  BY Taking DEF FixQueuesOK
<1>2. Tail(fixToHost) \in Seq(HostFixMessages')
  BY <1>1, MadeStays, SeqMonotonic
<1> QED BY <1>1, <1>2, QueuesStay, Handling

-----------------------------------------------------------------------------
(* The actions *)

\* A check is asked for.
LEMMA AskForFixKeeps ==
  ASSUME FixIInv, AskForFix
  PROVE  FixIInv'
<1>1. /\ SendFix("analyze", NoFix) /\ fixView' = FixPhase("analyzing") /\ fixUnanswered' = FALSE
      /\ UNCHANGED <<fixStored, fixStale, fixKind, fixJob, fixToView, fixEdits, fixSeen, fixBasis, fixWritten>>
  BY DEF FixIInv, AskForFix, fixHost, fixWorld
<1>2. PlansStay /\ FixQueuesOK /\ FixPlansOK
  BY <1>1 DEF FixIInv, FixPlansOK, PlansStay
<1> DEFINE a == [type |-> "analyze", id |-> NoFix]
<1>3. a \in HostFixMessages /\ a.type = "analyze" /\ a.id = NoFix
  BY <1>1, FixConstants DEF FixIInv, HostFixMessages, Made, FixIds, NoFix, NoFix
<1> HIDE DEF a
<1>4. fixToHost' \in Seq(HostFixMessages)' /\ AskedMore(fixToHost, fixToHost', a)
  BY <1>1, <1>2, <1>3, ViewAsks DEF a
<1>5. /\ fixToHost' = fixToHost => fixToHost' \in Seq(HostFixMessages)'
      /\ fixToView' = fixToView => fixToView' \in Seq(ViewFixMessages)'
  BY <1>2, QueuesStay
<1>6. FixViewOK'
  BY <1>1, <1>2, FixConstants, <1>3, <1>4, <1>5 DEF FixIInv, FixViewOK, NoFixView, WithPlan, FixPhase, FixIds, NoFix, FixOutcomes
<1>7. FixPlansOK'
  BY <1>1, <1>2, FixConstants, <1>3, <1>4, <1>5 DEF FixIInv, FixPlansOK, FixIds
<1>8. FixJobOK'
  BY <1>1, <1>2, FixConstants, <1>3, <1>4, <1>5 DEF FixIInv, FixPlansOK, FixJobOK, IdleFix, Carrying, FixIds
<1>9. FixQueuesOK'
  BY <1>1, <1>2, FixConstants, <1>3, <1>4, <1>5 DEF FixIInv, FixQueuesOK, Made, NoFixView, WithPlan, FixPhase, NoFix
<1>10. PlansAreShownOnce'
  BY <1>1, <1>2, FixConstants, <1>3, <1>4, <1>5 DEF FixIInv, PlansAreShownOnce, FixJobOK, Carries, Carrying, IsFix, IdleFix, NoFixView, WithPlan, FixPhase, AskedMore, IsFix
<1>11. ShownIsKept'
  BY <1>1, <1>2, FixConstants, <1>3, <1>4, <1>5 DEF FixIInv, FixPlansOK, ShownIsKept, WillShow, IsFix, FixOff, IdleFix, NoFixView, WithPlan, FixPhase
<1>12. HeldIsNotReplaced'
  BY <1>1, <1>2, FixConstants, <1>3, <1>4, <1>5 DEF FixIInv, HeldIsNotReplaced, FixJobOK, WillHold, IsFix, NoFixView, WithPlan, FixPhase, IdleFix
<1>13. StaleIsStale'
  BY <1>1, <1>2, FixConstants, <1>3, <1>4, <1>5 DEF FixIInv, StaleIsStale, IsFix, NoFixView, WithPlan, FixPhase
<1>14. CheckingIsServed'
  BY <1>1, <1>2, FixConstants, <1>3, <1>4, <1>5 DEF FixIInv, CheckingIsServed, FixJobOK, CheckRuns, NoFixView, WithPlan, FixPhase, IdleFix, AskedMore, IsFix
<1>15. ApplyingIsServed'
  BY <1>1, <1>2, FixConstants, <1>3, <1>4, <1>5 DEF FixIInv, ApplyingIsServed, FixJobOK, Carries, Carrying, IsFix, FixOver, NoFixView, WithPlan, FixPhase, IdleFix, AskedMore, IsFix
<1>16. WritesHappenOnce'
  BY <1>1, <1>2, FixConstants, <1>3, <1>4, <1>5 DEF FixIInv, WritesHappenOnce, FixJobOK, IdleFix
<1>17. ChecksAreCurrent'
  BY <1>1, <1>2, FixConstants, <1>3, <1>4, <1>5 DEF FixIInv, ChecksAreCurrent, FixJobOK, CheckRuns, FixPlansOK, IdleFix
<1> QED BY <1>6, <1>7, <1>8, <1>9, <1>10, <1>11, <1>12, <1>13, <1>14, <1>15, <1>16, <1>17 DEF FixIInv

\* A plan is reviewed.
LEMMA ReviewTheFixKeeps ==
  ASSUME FixIInv, ReviewTheFix
  PROVE  FixIInv'
<1>1. /\ fixView.phase = "plan" /\ fixKind[fixView.id] = "actionable"
      /\ fixView' = [fixView EXCEPT !.reviewed = TRUE]
      /\ UNCHANGED <<fixStored, fixStale, fixKind, fixJob, fixToHost, fixToView, fixEdits, fixSeen, fixBasis, fixWritten, fixUnanswered>>
  BY DEF FixIInv, ReviewTheFix, fixHost, fixWorld
<1>2. PlansStay /\ FixQueuesOK /\ FixPlansOK
  BY <1>1 DEF FixIInv, FixPlansOK, PlansStay
<1>3. /\ fixToHost' = fixToHost => fixToHost' \in Seq(HostFixMessages)'
      /\ fixToView' = fixToView => fixToView' \in Seq(ViewFixMessages)'
  BY <1>2, QueuesStay
<1>4. FixViewOK'
  BY <1>1, <1>2, FixConstants, <1>3 DEF FixIInv, FixViewOK, NoFixView, WithPlan, FixPhase, FixIds, NoFix, FixOutcomes
<1>5. FixPlansOK'
  BY <1>1, <1>2, FixConstants, <1>3 DEF FixIInv, FixPlansOK, FixIds
<1>6. FixJobOK'
  BY <1>1, <1>2, FixConstants, <1>3 DEF FixIInv, FixPlansOK, FixJobOK, IdleFix, Carrying, FixIds
<1>7. FixQueuesOK'
  BY <1>1, <1>2, FixConstants, <1>3 DEF FixIInv, FixQueuesOK, Made, NoFixView, WithPlan, FixPhase, NoFix
<1>8. PlansAreShownOnce'
  BY <1>1, <1>2, FixConstants, <1>3 DEF FixIInv, PlansAreShownOnce, FixJobOK, Carries, Carrying, IsFix, IdleFix, NoFixView, WithPlan, FixPhase
<1>9. ShownIsKept'
  BY <1>1, <1>2, FixConstants, <1>3 DEF FixIInv, FixPlansOK, ShownIsKept, WillShow, IsFix, FixOff, IdleFix, NoFixView, WithPlan, FixPhase
<1>10. HeldIsNotReplaced'
  BY <1>1, <1>2, FixConstants, <1>3 DEF FixIInv, HeldIsNotReplaced, FixJobOK, WillHold, IsFix, NoFixView, WithPlan, FixPhase, IdleFix
<1>11. StaleIsStale'
  BY <1>1, <1>2, FixConstants, <1>3 DEF FixIInv, StaleIsStale, IsFix, NoFixView, WithPlan, FixPhase
<1>12. CheckingIsServed'
  BY <1>1, <1>2, FixConstants, <1>3 DEF FixIInv, CheckingIsServed, FixJobOK, CheckRuns, NoFixView, WithPlan, FixPhase, IdleFix
<1>13. ApplyingIsServed'
  BY <1>1, <1>2, FixConstants, <1>3 DEF FixIInv, ApplyingIsServed, FixJobOK, Carries, Carrying, IsFix, FixOver, NoFixView, WithPlan, FixPhase, IdleFix
<1>14. WritesHappenOnce'
  BY <1>1, <1>2, FixConstants, <1>3 DEF FixIInv, WritesHappenOnce, FixJobOK, IdleFix
<1>15. ChecksAreCurrent'
  BY <1>1, <1>2, FixConstants, <1>3 DEF FixIInv, ChecksAreCurrent, FixJobOK, CheckRuns, FixPlansOK, IdleFix
<1> QED BY <1>4, <1>5, <1>6, <1>7, <1>8, <1>9, <1>10, <1>11, <1>12, <1>13, <1>14, <1>15 DEF FixIInv

\* It is applied.
LEMMA ApplyFixKeeps ==
  ASSUME FixIInv, ApplyFix
  PROVE  FixIInv'
<1>1. /\ fixView.phase = "plan" /\ fixView.reviewed /\ fixView.id \in Fixes /\ fixKind[fixView.id] = "actionable"
      /\ SendFix("confirm", fixView.id) /\ fixView' = WithPlan("applying", fixView.id) /\ fixUnanswered' = FALSE
      /\ UNCHANGED <<fixStored, fixStale, fixKind, fixJob, fixToView, fixEdits, fixSeen, fixBasis, fixWritten>>
  BY DEF FixIInv, ApplyFix, FixViewOK, FixIds, NoFix, fixHost, fixWorld
<1>2. PlansStay /\ FixQueuesOK /\ FixPlansOK
  BY <1>1 DEF FixIInv, FixPlansOK, PlansStay
<1> DEFINE a == [type |-> "confirm", id |-> fixView.id]
<1>3. a \in HostFixMessages /\ a.type = "confirm" /\ a.id = fixView.id
  BY <1>1, FixConstants DEF FixIInv, HostFixMessages, Made, FixIds, NoFix, NoFix
<1> HIDE DEF a
<1>4. fixToHost' \in Seq(HostFixMessages)' /\ AskedMore(fixToHost, fixToHost', a)
  BY <1>1, <1>2, <1>3, ViewAsks DEF a
<1>5. /\ fixToHost' = fixToHost => fixToHost' \in Seq(HostFixMessages)'
      /\ fixToView' = fixToView => fixToView' \in Seq(ViewFixMessages)'
  BY <1>2, QueuesStay
<1>6. FixViewOK'
  BY <1>1, <1>2, FixConstants, <1>3, <1>4, <1>5 DEF FixIInv, FixViewOK, NoFixView, WithPlan, FixPhase, FixIds, NoFix, FixOutcomes
<1>7. FixPlansOK'
  BY <1>1, <1>2, FixConstants, <1>3, <1>4, <1>5 DEF FixIInv, FixPlansOK, FixIds
<1>8. FixJobOK'
  BY <1>1, <1>2, FixConstants, <1>3, <1>4, <1>5 DEF FixIInv, FixPlansOK, FixJobOK, IdleFix, Carrying, FixIds
<1>9. FixQueuesOK'
  BY <1>1, <1>2, FixConstants, <1>3, <1>4, <1>5 DEF FixIInv, FixQueuesOK, Made, NoFixView, WithPlan, FixPhase, NoFix
<1>10. PlansAreShownOnce'
  BY <1>1, <1>2, FixConstants, <1>3, <1>4, <1>5 DEF FixIInv, PlansAreShownOnce, FixJobOK, Carries, Carrying, IsFix, IdleFix, NoFixView, WithPlan, FixPhase, AskedMore, IsFix
<1>11. ShownIsKept'
  BY <1>1, <1>2, FixConstants, <1>3, <1>4, <1>5 DEF FixIInv, FixPlansOK, ShownIsKept, WillShow, IsFix, FixOff, IdleFix, NoFixView, WithPlan, FixPhase
<1>12. HeldIsNotReplaced'
  BY <1>1, <1>2, FixConstants, <1>3, <1>4, <1>5 DEF FixIInv, HeldIsNotReplaced, FixJobOK, WillHold, IsFix, NoFixView, WithPlan, FixPhase, IdleFix
<1>13. StaleIsStale'
  BY <1>1, <1>2, FixConstants, <1>3, <1>4, <1>5 DEF FixIInv, StaleIsStale, IsFix, NoFixView, WithPlan, FixPhase
<1>14. CheckingIsServed'
  BY <1>1, <1>2, FixConstants, <1>3, <1>4, <1>5 DEF FixIInv, CheckingIsServed, FixJobOK, CheckRuns, NoFixView, WithPlan, FixPhase, IdleFix, AskedMore, IsFix
<1>15. ApplyingIsServed'
  BY <1>1, <1>2, FixConstants, <1>3, <1>4, <1>5 DEF FixIInv, ApplyingIsServed, FixJobOK, Carries, Carrying, IsFix, FixOver, NoFixView, WithPlan, FixPhase, IdleFix, AskedMore, IsFix
<1>16. WritesHappenOnce'
  BY <1>1, <1>2, FixConstants, <1>3, <1>4, <1>5 DEF FixIInv, WritesHappenOnce, FixJobOK, IdleFix
<1>17. ChecksAreCurrent'
  BY <1>1, <1>2, FixConstants, <1>3, <1>4, <1>5 DEF FixIInv, ChecksAreCurrent, FixJobOK, CheckRuns, FixPlansOK, IdleFix
<1> QED BY <1>6, <1>7, <1>8, <1>9, <1>10, <1>11, <1>12, <1>13, <1>14, <1>15, <1>16, <1>17 DEF FixIInv

\* It is cancelled.
LEMMA CancelTheFixKeeps ==
  ASSUME FixIInv, CancelTheFix
  PROVE  FixIInv'
<1>1. /\ fixView.phase = "applying" /\ fixView.id \in Fixes
      /\ SendFix("cancel", fixView.id) /\ fixView' = [fixView EXCEPT !.cancelRequested = TRUE]
      /\ UNCHANGED <<fixStored, fixStale, fixKind, fixJob, fixToView, fixEdits, fixSeen, fixBasis, fixWritten, fixUnanswered>>
  BY DEF FixIInv, CancelTheFix, FixViewOK, FixIds, NoFix, fixHost, fixWorld
<1>2. PlansStay /\ FixQueuesOK /\ FixPlansOK
  BY <1>1 DEF FixIInv, FixPlansOK, PlansStay
<1> DEFINE a == [type |-> "cancel", id |-> fixView.id]
<1>3. a \in HostFixMessages /\ a.type = "cancel" /\ a.id = fixView.id
  BY <1>1, FixConstants DEF FixIInv, HostFixMessages, Made, FixIds, NoFix, FixQueuesOK
<1> HIDE DEF a
<1>4. fixToHost' \in Seq(HostFixMessages)' /\ AskedMore(fixToHost, fixToHost', a)
  BY <1>1, <1>2, <1>3, ViewAsks DEF a
<1>5. /\ fixToHost' = fixToHost => fixToHost' \in Seq(HostFixMessages)'
      /\ fixToView' = fixToView => fixToView' \in Seq(ViewFixMessages)'
  BY <1>2, QueuesStay
<1>6. FixViewOK'
  BY <1>1, <1>2, FixConstants, <1>3, <1>4, <1>5 DEF FixIInv, FixViewOK, NoFixView, WithPlan, FixPhase, FixIds, NoFix, FixOutcomes
<1>7. FixPlansOK'
  BY <1>1, <1>2, FixConstants, <1>3, <1>4, <1>5 DEF FixIInv, FixPlansOK, FixIds
<1>8. FixJobOK'
  BY <1>1, <1>2, FixConstants, <1>3, <1>4, <1>5 DEF FixIInv, FixPlansOK, FixJobOK, IdleFix, Carrying, FixIds
<1>9. FixQueuesOK'
  BY <1>1, <1>2, FixConstants, <1>3, <1>4, <1>5 DEF FixIInv, FixQueuesOK, Made, NoFixView, WithPlan, FixPhase, NoFix
<1>10. PlansAreShownOnce'
  BY <1>1, <1>2, FixConstants, <1>3, <1>4, <1>5 DEF FixIInv, PlansAreShownOnce, FixJobOK, Carries, Carrying, IsFix, IdleFix, NoFixView, WithPlan, FixPhase, AskedMore, IsFix
<1>11. ShownIsKept'
  BY <1>1, <1>2, FixConstants, <1>3, <1>4, <1>5 DEF FixIInv, FixPlansOK, ShownIsKept, WillShow, IsFix, FixOff, IdleFix, NoFixView, WithPlan, FixPhase
<1>12. HeldIsNotReplaced'
  BY <1>1, <1>2, FixConstants, <1>3, <1>4, <1>5 DEF FixIInv, HeldIsNotReplaced, FixJobOK, WillHold, IsFix, NoFixView, WithPlan, FixPhase, IdleFix
<1>13. StaleIsStale'
  BY <1>1, <1>2, FixConstants, <1>3, <1>4, <1>5 DEF FixIInv, StaleIsStale, IsFix, NoFixView, WithPlan, FixPhase
<1>14. CheckingIsServed'
  BY <1>1, <1>2, FixConstants, <1>3, <1>4, <1>5 DEF FixIInv, CheckingIsServed, FixJobOK, CheckRuns, NoFixView, WithPlan, FixPhase, IdleFix, AskedMore, IsFix
<1>15. ApplyingIsServed'
  BY <1>1, <1>2, FixConstants, <1>3, <1>4, <1>5 DEF FixIInv, ApplyingIsServed, FixJobOK, Carries, Carrying, IsFix, FixOver, NoFixView, WithPlan, FixPhase, IdleFix, AskedMore, IsFix
<1>16. WritesHappenOnce'
  BY <1>1, <1>2, FixConstants, <1>3, <1>4, <1>5 DEF FixIInv, WritesHappenOnce, FixJobOK, IdleFix
<1>17. ChecksAreCurrent'
  BY <1>1, <1>2, FixConstants, <1>3, <1>4, <1>5 DEF FixIInv, ChecksAreCurrent, FixJobOK, CheckRuns, FixPlansOK, IdleFix
<1> QED BY <1>6, <1>7, <1>8, <1>9, <1>10, <1>11, <1>12, <1>13, <1>14, <1>15, <1>16, <1>17 DEF FixIInv

\* It is checked again.
LEMMA CheckFixAgainKeeps ==
  ASSUME FixIInv, CheckFixAgain
  PROVE  FixIInv'
<1>1. /\ fixView.phase \in {"plan", "stale"} /\ fixView.id \in Fixes
      /\ SendFix("retry", fixView.id) /\ fixView' = FixPhase("analyzing") /\ fixUnanswered' = FALSE
      /\ UNCHANGED <<fixStored, fixStale, fixKind, fixJob, fixToView, fixEdits, fixSeen, fixBasis, fixWritten>>
  BY DEF FixIInv, CheckFixAgain, FixViewOK, FixIds, NoFix, fixHost, fixWorld
<1>2. PlansStay /\ FixQueuesOK /\ FixPlansOK
  BY <1>1 DEF FixIInv, FixPlansOK, PlansStay
<1> DEFINE a == [type |-> "retry", id |-> fixView.id]
<1>3. a \in HostFixMessages /\ a.type = "retry" /\ a.id = fixView.id
  BY <1>1, FixConstants DEF FixIInv, HostFixMessages, Made, FixIds, NoFix, FixQueuesOK
<1> HIDE DEF a
<1>4. fixToHost' \in Seq(HostFixMessages)' /\ AskedMore(fixToHost, fixToHost', a)
  BY <1>1, <1>2, <1>3, ViewAsks DEF a
<1>5. /\ fixToHost' = fixToHost => fixToHost' \in Seq(HostFixMessages)'
      /\ fixToView' = fixToView => fixToView' \in Seq(ViewFixMessages)'
  BY <1>2, QueuesStay
<1>6. FixViewOK'
  BY <1>1, <1>2, FixConstants, <1>3, <1>4, <1>5 DEF FixIInv, FixViewOK, NoFixView, WithPlan, FixPhase, FixIds, NoFix, FixOutcomes
<1>7. FixPlansOK'
  BY <1>1, <1>2, FixConstants, <1>3, <1>4, <1>5 DEF FixIInv, FixPlansOK, FixIds
<1>8. FixJobOK'
  BY <1>1, <1>2, FixConstants, <1>3, <1>4, <1>5 DEF FixIInv, FixPlansOK, FixJobOK, IdleFix, Carrying, FixIds
<1>9. FixQueuesOK'
  BY <1>1, <1>2, FixConstants, <1>3, <1>4, <1>5 DEF FixIInv, FixQueuesOK, Made, NoFixView, WithPlan, FixPhase, NoFix
<1>10. PlansAreShownOnce'
  BY <1>1, <1>2, FixConstants, <1>3, <1>4, <1>5 DEF FixIInv, PlansAreShownOnce, FixJobOK, Carries, Carrying, IsFix, IdleFix, NoFixView, WithPlan, FixPhase, AskedMore, IsFix
<1>11. ShownIsKept'
  BY <1>1, <1>2, FixConstants, <1>3, <1>4, <1>5 DEF FixIInv, FixPlansOK, ShownIsKept, WillShow, IsFix, FixOff, IdleFix, NoFixView, WithPlan, FixPhase
<1>12. HeldIsNotReplaced'
  BY <1>1, <1>2, FixConstants, <1>3, <1>4, <1>5 DEF FixIInv, HeldIsNotReplaced, FixJobOK, WillHold, IsFix, NoFixView, WithPlan, FixPhase, IdleFix
<1>13. StaleIsStale'
  BY <1>1, <1>2, FixConstants, <1>3, <1>4, <1>5 DEF FixIInv, StaleIsStale, IsFix, NoFixView, WithPlan, FixPhase
<1>14. CheckingIsServed'
  BY <1>1, <1>2, FixConstants, <1>3, <1>4, <1>5 DEF FixIInv, CheckingIsServed, FixJobOK, CheckRuns, NoFixView, WithPlan, FixPhase, IdleFix, AskedMore, IsFix
<1>15. ApplyingIsServed'
  BY <1>1, <1>2, FixConstants, <1>3, <1>4, <1>5 DEF FixIInv, ApplyingIsServed, FixJobOK, Carries, Carrying, IsFix, FixOver, NoFixView, WithPlan, FixPhase, IdleFix, AskedMore, IsFix
<1>16. WritesHappenOnce'
  BY <1>1, <1>2, FixConstants, <1>3, <1>4, <1>5 DEF FixIInv, WritesHappenOnce, FixJobOK, IdleFix
<1>17. ChecksAreCurrent'
  BY <1>1, <1>2, FixConstants, <1>3, <1>4, <1>5 DEF FixIInv, ChecksAreCurrent, FixJobOK, CheckRuns, FixPlansOK, IdleFix
<1> QED BY <1>6, <1>7, <1>8, <1>9, <1>10, <1>11, <1>12, <1>13, <1>14, <1>15, <1>16, <1>17 DEF FixIInv

\* A dashboard message drops it.
LEMMA DashboardRefreshesKeeps ==
  ASSUME FixIInv, DashboardRefreshes
  PROVE  FixIInv'
<1>1. /\ fixView' = NoFixView /\ fixUnanswered' = FALSE
      /\ UNCHANGED <<fixStored, fixStale, fixKind, fixJob, fixToHost, fixToView, fixEdits, fixSeen, fixBasis, fixWritten>>
  BY DEF FixIInv, DashboardRefreshes, fixHost, fixWorld
<1>2. PlansStay /\ FixQueuesOK /\ FixPlansOK
  BY <1>1 DEF FixIInv, FixPlansOK, PlansStay
<1>3. /\ fixToHost' = fixToHost => fixToHost' \in Seq(HostFixMessages)'
      /\ fixToView' = fixToView => fixToView' \in Seq(ViewFixMessages)'
  BY <1>2, QueuesStay
<1>4. FixViewOK'
  BY <1>1, <1>2, FixConstants, <1>3 DEF FixIInv, FixViewOK, NoFixView, WithPlan, FixPhase, FixIds, NoFix, FixOutcomes
<1>5. FixPlansOK'
  BY <1>1, <1>2, FixConstants, <1>3 DEF FixIInv, FixPlansOK, FixIds
<1>6. FixJobOK'
  BY <1>1, <1>2, FixConstants, <1>3 DEF FixIInv, FixPlansOK, FixJobOK, IdleFix, Carrying, FixIds
<1>7. FixQueuesOK'
  BY <1>1, <1>2, FixConstants, <1>3 DEF FixIInv, FixQueuesOK, Made, NoFixView, WithPlan, FixPhase, NoFix
<1>8. PlansAreShownOnce'
  BY <1>1, <1>2, FixConstants, <1>3 DEF FixIInv, PlansAreShownOnce, FixJobOK, Carries, Carrying, IsFix, IdleFix, NoFixView, WithPlan, FixPhase
<1>9. ShownIsKept'
  BY <1>1, <1>2, FixConstants, <1>3 DEF FixIInv, FixPlansOK, ShownIsKept, WillShow, IsFix, FixOff, IdleFix, NoFixView, WithPlan, FixPhase
<1>10. HeldIsNotReplaced'
  BY <1>1, <1>2, FixConstants, <1>3 DEF FixIInv, HeldIsNotReplaced, FixJobOK, WillHold, IsFix, NoFixView, WithPlan, FixPhase, IdleFix
<1>11. StaleIsStale'
  BY <1>1, <1>2, FixConstants, <1>3 DEF FixIInv, StaleIsStale, IsFix, NoFixView, WithPlan, FixPhase
<1>12. CheckingIsServed'
  BY <1>1, <1>2, FixConstants, <1>3 DEF FixIInv, CheckingIsServed, FixJobOK, CheckRuns, NoFixView, WithPlan, FixPhase, IdleFix
<1>13. ApplyingIsServed'
  BY <1>1, <1>2, FixConstants, <1>3 DEF FixIInv, ApplyingIsServed, FixJobOK, Carries, Carrying, IsFix, FixOver, NoFixView, WithPlan, FixPhase, IdleFix
<1>14. WritesHappenOnce'
  BY <1>1, <1>2, FixConstants, <1>3 DEF FixIInv, WritesHappenOnce, FixJobOK, IdleFix
<1>15. ChecksAreCurrent'
  BY <1>1, <1>2, FixConstants, <1>3 DEF FixIInv, ChecksAreCurrent, FixJobOK, CheckRuns, FixPlansOK, IdleFix
<1> QED BY <1>4, <1>5, <1>6, <1>7, <1>8, <1>9, <1>10, <1>11, <1>12, <1>13, <1>14, <1>15 DEF FixIInv

\* The files are edited.
LEMMA EditDependencyFilesKeeps ==
  ASSUME FixIInv, EditDependencyFiles
  PROVE  FixIInv'
<1>1. /\ fixEdits < MaxFixEdits /\ fixEdits' = fixEdits + 1 /\ MaxFixEdits \in Nat
      /\ UNCHANGED <<fixView, fixStored, fixStale, fixKind, fixJob, fixToHost, fixToView, fixSeen, fixBasis, fixWritten, fixUnanswered>>
  BY FixAssumption DEF FixIInv, EditDependencyFiles, fixHost, fixWorld
<1>2. PlansStay /\ FixQueuesOK /\ FixPlansOK
  BY <1>1 DEF FixIInv, FixPlansOK, PlansStay
<1>3. /\ fixToHost' = fixToHost => fixToHost' \in Seq(HostFixMessages)'
      /\ fixToView' = fixToView => fixToView' \in Seq(ViewFixMessages)'
  BY <1>2, QueuesStay
<1>4. FixViewOK'
  BY <1>1, <1>2, FixConstants, <1>3 DEF FixIInv, FixViewOK, NoFixView, WithPlan, FixPhase, FixIds, NoFix, FixOutcomes
<1>5. FixPlansOK'
  BY <1>1, <1>2, FixConstants, <1>3 DEF FixIInv, FixPlansOK, FixIds
<1>6. FixJobOK'
  BY <1>1, <1>2, FixConstants, <1>3 DEF FixIInv, FixPlansOK, FixJobOK, IdleFix, Carrying, FixIds
<1>7. FixQueuesOK'
  BY <1>1, <1>2, FixConstants, <1>3 DEF FixIInv, FixQueuesOK, Made, NoFixView, WithPlan, FixPhase, NoFix
<1>8. PlansAreShownOnce'
  BY <1>1, <1>2, FixConstants, <1>3 DEF FixIInv, PlansAreShownOnce, FixJobOK, Carries, Carrying, IsFix, IdleFix, NoFixView, WithPlan, FixPhase
<1>9. ShownIsKept'
  BY <1>1, <1>2, FixConstants, <1>3 DEF FixIInv, FixPlansOK, ShownIsKept, WillShow, IsFix, FixOff, IdleFix, NoFixView, WithPlan, FixPhase
<1>10. HeldIsNotReplaced'
  BY <1>1, <1>2, FixConstants, <1>3 DEF FixIInv, HeldIsNotReplaced, FixJobOK, WillHold, IsFix, NoFixView, WithPlan, FixPhase, IdleFix
<1>11. StaleIsStale'
  BY <1>1, <1>2, FixConstants, <1>3 DEF FixIInv, StaleIsStale, IsFix, NoFixView, WithPlan, FixPhase
<1>12. CheckingIsServed'
  BY <1>1, <1>2, FixConstants, <1>3 DEF FixIInv, CheckingIsServed, FixJobOK, CheckRuns, NoFixView, WithPlan, FixPhase, IdleFix
<1>13. ApplyingIsServed'
  BY <1>1, <1>2, FixConstants, <1>3 DEF FixIInv, ApplyingIsServed, FixJobOK, Carries, Carrying, IsFix, FixOver, NoFixView, WithPlan, FixPhase, IdleFix
<1>14. WritesHappenOnce'
  BY <1>1, <1>2, FixConstants, <1>3 DEF FixIInv, WritesHappenOnce, FixJobOK, IdleFix
<1>15. ChecksAreCurrent'
  BY <1>1, <1>2, FixConstants, <1>3 DEF FixIInv, ChecksAreCurrent, FixJobOK, CheckRuns, FixPlansOK, IdleFix
<1> QED BY <1>4, <1>5, <1>6, <1>7, <1>8, <1>9, <1>10, <1>11, <1>12, <1>13, <1>14, <1>15 DEF FixIInv

\* A check reads the project.
LEMMA FixReadsKeeps ==
  ASSUME FixIInv, FixReads
  PROVE  FixIInv'
<1>1. /\ fixJob.kind = "analysis" /\ fixJob' = [fixJob EXCEPT !.basis = fixEdits]
      /\ UNCHANGED <<fixView, fixStored, fixStale, fixKind, fixToHost, fixToView, fixEdits, fixSeen, fixBasis, fixWritten, fixUnanswered>>
  BY DEF FixIInv, FixReads, fixHost, fixWorld
<1>2. PlansStay /\ FixQueuesOK /\ FixPlansOK
  BY <1>1 DEF FixIInv, FixPlansOK, PlansStay
<1>3. /\ fixToHost' = fixToHost => fixToHost' \in Seq(HostFixMessages)'
      /\ fixToView' = fixToView => fixToView' \in Seq(ViewFixMessages)'
  BY <1>2, QueuesStay
<1>4. FixViewOK'
  BY <1>1, <1>2, FixConstants, <1>3 DEF FixIInv, FixViewOK, NoFixView, WithPlan, FixPhase, FixIds, NoFix, FixOutcomes
<1>5. FixPlansOK'
  BY <1>1, <1>2, FixConstants, <1>3 DEF FixIInv, FixPlansOK, FixIds
<1>6. FixJobOK'
  BY <1>1, <1>2, FixConstants, <1>3 DEF FixIInv, FixPlansOK, FixJobOK, IdleFix, Carrying, FixIds
<1>7. FixQueuesOK'
  BY <1>1, <1>2, FixConstants, <1>3 DEF FixIInv, FixQueuesOK, Made, NoFixView, WithPlan, FixPhase, NoFix
<1>8. PlansAreShownOnce'
  BY <1>1, <1>2, FixConstants, <1>3 DEF FixIInv, PlansAreShownOnce, FixJobOK, Carries, Carrying, IsFix, IdleFix, NoFixView, WithPlan, FixPhase
<1>9. ShownIsKept'
  BY <1>1, <1>2, FixConstants, <1>3 DEF FixIInv, FixPlansOK, ShownIsKept, WillShow, IsFix, FixOff, IdleFix, NoFixView, WithPlan, FixPhase
<1>10. HeldIsNotReplaced'
  BY <1>1, <1>2, FixConstants, <1>3 DEF FixIInv, HeldIsNotReplaced, FixJobOK, WillHold, IsFix, NoFixView, WithPlan, FixPhase, IdleFix
<1>11. StaleIsStale'
  BY <1>1, <1>2, FixConstants, <1>3 DEF FixIInv, StaleIsStale, IsFix, NoFixView, WithPlan, FixPhase
<1>12. CheckingIsServed'
  BY <1>1, <1>2, FixConstants, <1>3 DEF FixIInv, CheckingIsServed, FixJobOK, CheckRuns, NoFixView, WithPlan, FixPhase, IdleFix
<1>13. ApplyingIsServed'
  BY <1>1, <1>2, FixConstants, <1>3 DEF FixIInv, ApplyingIsServed, FixJobOK, Carries, Carrying, IsFix, FixOver, NoFixView, WithPlan, FixPhase, IdleFix
<1>14. WritesHappenOnce'
  BY <1>1, <1>2, FixConstants, <1>3 DEF FixIInv, WritesHappenOnce, FixJobOK, IdleFix
<1>15. ChecksAreCurrent'
  BY <1>1, <1>2, FixConstants, <1>3 DEF FixIInv, ChecksAreCurrent, FixJobOK, CheckRuns, FixPlansOK, IdleFix
<1> QED BY <1>4, <1>5, <1>6, <1>7, <1>8, <1>9, <1>10, <1>11, <1>12, <1>13, <1>14, <1>15 DEF FixIInv

\* A check fails.
LEMMA FixCheckFailsKeeps ==
  ASSUME FixIInv, FixCheckFails
  PROVE  FixIInv'
<1>1. /\ fixJob.kind = "analysis" /\ fixJob' = IdleFix /\ FixTells(<<FixSays("error", NoFix)>>)
      /\ UNCHANGED <<fixView, fixStored, fixStale, fixKind, fixToHost, fixEdits, fixSeen, fixBasis, fixWritten, fixUnanswered>>
  BY DEF FixIInv, FixCheckFails, fixHost, fixWorld
<1>2. PlansStay /\ FixQueuesOK /\ FixPlansOK
  BY <1>1 DEF FixIInv, FixPlansOK, PlansStay
<1> DEFINE m == [type |-> "error", id |-> NoFix, outcome |-> "none"]
<1>3. m \in ViewFixMessages' /\ m.type = "error" /\ m.id = NoFix /\ FixTells(<<m>>)
  BY <1>1, <1>2, SaysOK, FixConstants DEF FixIInv, FixSays, FixTypes, FixIds, FixOutcomes, Made
<1> HIDE DEF m
<1>4. fixToView' \in Seq(ViewFixMessages)' /\ ToldMore(fixToView, fixToView', m)
  BY <1>2, <1>3, HostTells
<1>5. /\ fixToHost' = fixToHost => fixToHost' \in Seq(HostFixMessages)'
      /\ fixToView' = fixToView => fixToView' \in Seq(ViewFixMessages)'
  BY <1>2, QueuesStay
<1>6. FixViewOK'
  BY <1>1, <1>2, FixConstants, <1>3, <1>4, <1>5 DEF FixIInv, FixViewOK, NoFixView, WithPlan, FixPhase, FixIds, NoFix, FixOutcomes
<1>7. FixPlansOK'
  BY <1>1, <1>2, FixConstants, <1>3, <1>4, <1>5 DEF FixIInv, FixPlansOK, FixIds
<1>8. FixJobOK'
  BY <1>1, <1>2, FixConstants, <1>3, <1>4, <1>5 DEF FixIInv, FixPlansOK, FixJobOK, IdleFix, Carrying, FixIds
<1>9. FixQueuesOK'
  BY <1>1, <1>2, FixConstants, <1>3, <1>4, <1>5 DEF FixIInv, FixQueuesOK, Made, NoFixView, WithPlan, FixPhase, NoFix
<1>10. PlansAreShownOnce'
  BY <1>1, <1>2, FixConstants, <1>3, <1>4, <1>5 DEF FixIInv, PlansAreShownOnce, FixJobOK, Carries, Carrying, IsFix, IdleFix, NoFixView, WithPlan, FixPhase, ToldMore
<1>11. ShownIsKept'
  BY <1>1, <1>2, FixConstants, <1>3, <1>4, <1>5 DEF FixIInv, FixPlansOK, ShownIsKept, WillShow, IsFix, FixOff, IdleFix, NoFixView, WithPlan, FixPhase, ToldMore
<1>12. HeldIsNotReplaced'
  BY <1>1, <1>2, FixConstants, <1>3, <1>4, <1>5 DEF FixIInv, HeldIsNotReplaced, FixJobOK, WillHold, IsFix, NoFixView, WithPlan, FixPhase, IdleFix, ToldMore
<1>13. StaleIsStale'
  BY <1>1, <1>2, FixConstants, <1>3, <1>4, <1>5 DEF FixIInv, StaleIsStale, IsFix, NoFixView, WithPlan, FixPhase, ToldMore
<1>14. CheckingIsServed'
  BY <1>1, <1>2, FixConstants, <1>3, <1>4, <1>5 DEF FixIInv, CheckingIsServed, FixJobOK, CheckRuns, NoFixView, WithPlan, FixPhase, IdleFix, ToldMore
<1>15. ApplyingIsServed'
  BY <1>1, <1>2, FixConstants, <1>3, <1>4, <1>5 DEF FixIInv, ApplyingIsServed, FixJobOK, Carries, Carrying, IsFix, FixOver, NoFixView, WithPlan, FixPhase, IdleFix, ToldMore
<1>16. WritesHappenOnce'
  BY <1>1, <1>2, FixConstants, <1>3, <1>4, <1>5 DEF FixIInv, WritesHappenOnce, FixJobOK, IdleFix
<1>17. ChecksAreCurrent'
  BY <1>1, <1>2, FixConstants, <1>3, <1>4, <1>5 DEF FixIInv, ChecksAreCurrent, FixJobOK, CheckRuns, FixPlansOK, IdleFix
<1> QED BY <1>6, <1>7, <1>8, <1>9, <1>10, <1>11, <1>12, <1>13, <1>14, <1>15, <1>16, <1>17 DEF FixIInv

\* A check that was aborted is dropped.
LEMMA FixCheckDroppedKeeps ==
  ASSUME FixIInv, FixCheckDropped
  PROVE  FixIInv'
<1>1. /\ fixJob.kind = "analysis" /\ fixJob.aborted /\ fixJob' = IdleFix
      /\ UNCHANGED <<fixView, fixStored, fixStale, fixKind, fixToHost, fixToView, fixEdits, fixSeen, fixBasis, fixWritten, fixUnanswered>>
  BY DEF FixIInv, FixCheckDropped, fixHost, fixWorld
<1>2. PlansStay /\ FixQueuesOK /\ FixPlansOK
  BY <1>1 DEF FixIInv, FixPlansOK, PlansStay
<1>3. /\ fixToHost' = fixToHost => fixToHost' \in Seq(HostFixMessages)'
      /\ fixToView' = fixToView => fixToView' \in Seq(ViewFixMessages)'
  BY <1>2, QueuesStay
<1>4. FixViewOK'
  BY <1>1, <1>2, FixConstants, <1>3 DEF FixIInv, FixViewOK, NoFixView, WithPlan, FixPhase, FixIds, NoFix, FixOutcomes
<1>5. FixPlansOK'
  BY <1>1, <1>2, FixConstants, <1>3 DEF FixIInv, FixPlansOK, FixIds
<1>6. FixJobOK'
  BY <1>1, <1>2, FixConstants, <1>3 DEF FixIInv, FixPlansOK, FixJobOK, IdleFix, Carrying, FixIds
<1>7. FixQueuesOK'
  BY <1>1, <1>2, FixConstants, <1>3 DEF FixIInv, FixQueuesOK, Made, NoFixView, WithPlan, FixPhase, NoFix
<1>8. PlansAreShownOnce'
  BY <1>1, <1>2, FixConstants, <1>3 DEF FixIInv, PlansAreShownOnce, FixJobOK, Carries, Carrying, IsFix, IdleFix, NoFixView, WithPlan, FixPhase
<1>9. ShownIsKept'
  BY <1>1, <1>2, FixConstants, <1>3 DEF FixIInv, FixPlansOK, ShownIsKept, WillShow, IsFix, FixOff, IdleFix, NoFixView, WithPlan, FixPhase
<1>10. HeldIsNotReplaced'
  BY <1>1, <1>2, FixConstants, <1>3 DEF FixIInv, HeldIsNotReplaced, FixJobOK, WillHold, IsFix, NoFixView, WithPlan, FixPhase, IdleFix
<1>11. StaleIsStale'
  BY <1>1, <1>2, FixConstants, <1>3 DEF FixIInv, StaleIsStale, IsFix, NoFixView, WithPlan, FixPhase
<1>12. CheckingIsServed'
  BY <1>1, <1>2, FixConstants, <1>3 DEF FixIInv, CheckingIsServed, FixJobOK, CheckRuns, NoFixView, WithPlan, FixPhase, IdleFix
<1>13. ApplyingIsServed'
  BY <1>1, <1>2, FixConstants, <1>3 DEF FixIInv, ApplyingIsServed, FixJobOK, Carries, Carrying, IsFix, FixOver, NoFixView, WithPlan, FixPhase, IdleFix
<1>14. WritesHappenOnce'
  BY <1>1, <1>2, FixConstants, <1>3 DEF FixIInv, WritesHappenOnce, FixJobOK, IdleFix
<1>15. ChecksAreCurrent'
  BY <1>1, <1>2, FixConstants, <1>3 DEF FixIInv, ChecksAreCurrent, FixJobOK, CheckRuns, FixPlansOK, IdleFix
<1> QED BY <1>4, <1>5, <1>6, <1>7, <1>8, <1>9, <1>10, <1>11, <1>12, <1>13, <1>14, <1>15 DEF FixIInv

\* The project is the one the plan was made from.
LEMMA FixRereadsKeeps ==
  ASSUME FixIInv, FixRereads
  PROVE  FixIInv'
<1>1. /\ fixJob.kind = "rereading" /\ fixJob' = [fixJob EXCEPT !.kind = "preparing"]
      /\ UNCHANGED <<fixView, fixStored, fixStale, fixKind, fixToHost, fixToView, fixEdits, fixSeen, fixBasis, fixWritten, fixUnanswered>>
  BY DEF FixIInv, FixRereads, fixHost, fixWorld
<1>2. PlansStay /\ FixQueuesOK /\ FixPlansOK
  BY <1>1 DEF FixIInv, FixPlansOK, PlansStay
<1>3. /\ fixToHost' = fixToHost => fixToHost' \in Seq(HostFixMessages)'
      /\ fixToView' = fixToView => fixToView' \in Seq(ViewFixMessages)'
  BY <1>2, QueuesStay
<1>4. FixViewOK'
  BY <1>1, <1>2, FixConstants, <1>3 DEF FixIInv, FixViewOK, NoFixView, WithPlan, FixPhase, FixIds, NoFix, FixOutcomes
<1>5. FixPlansOK'
  BY <1>1, <1>2, FixConstants, <1>3 DEF FixIInv, FixPlansOK, FixIds
<1>6. FixJobOK'
  BY <1>1, <1>2, FixConstants, <1>3 DEF FixIInv, FixPlansOK, FixJobOK, IdleFix, Carrying, FixIds
<1>7. FixQueuesOK'
  BY <1>1, <1>2, FixConstants, <1>3 DEF FixIInv, FixQueuesOK, Made, NoFixView, WithPlan, FixPhase, NoFix
<1>8. PlansAreShownOnce'
  BY <1>1, <1>2, FixConstants, <1>3 DEF FixIInv, PlansAreShownOnce, FixJobOK, Carries, Carrying, IsFix, IdleFix, NoFixView, WithPlan, FixPhase
<1>9. ShownIsKept'
  BY <1>1, <1>2, FixConstants, <1>3 DEF FixIInv, FixPlansOK, ShownIsKept, WillShow, IsFix, FixOff, IdleFix, NoFixView, WithPlan, FixPhase
<1>10. HeldIsNotReplaced'
  BY <1>1, <1>2, FixConstants, <1>3 DEF FixIInv, HeldIsNotReplaced, FixJobOK, WillHold, IsFix, NoFixView, WithPlan, FixPhase, IdleFix
<1>11. StaleIsStale'
  BY <1>1, <1>2, FixConstants, <1>3 DEF FixIInv, StaleIsStale, IsFix, NoFixView, WithPlan, FixPhase
<1>12. CheckingIsServed'
  BY <1>1, <1>2, FixConstants, <1>3 DEF FixIInv, CheckingIsServed, FixJobOK, CheckRuns, NoFixView, WithPlan, FixPhase, IdleFix
<1>13. ApplyingIsServed'
  BY <1>1, <1>2, FixConstants, <1>3 DEF FixIInv, ApplyingIsServed, FixJobOK, Carries, Carrying, IsFix, FixOver, NoFixView, WithPlan, FixPhase, IdleFix
<1>14. WritesHappenOnce'
  BY <1>1, <1>2, FixConstants, <1>3 DEF FixIInv, WritesHappenOnce, FixJobOK, IdleFix
<1>15. ChecksAreCurrent'
  BY <1>1, <1>2, FixConstants, <1>3 DEF FixIInv, ChecksAreCurrent, FixJobOK, CheckRuns, FixPlansOK, IdleFix
<1> QED BY <1>4, <1>5, <1>6, <1>7, <1>8, <1>9, <1>10, <1>11, <1>12, <1>13, <1>14, <1>15 DEF FixIInv

\* Nothing is on its way in a queue that was given up.
LEMMA NothingIsOnItsWay ==
  /\ <<>> \in Seq(ViewFixMessages)'
  /\ \A f : ~PlanComes(<<>>, f) /\ ~PlanRepeats(<<>>, f) /\ ~StaleComes(<<>>, f) /\ ~ComesToShow(<<>>, f)
            /\ ~ComesToHold(<<>>, f) /\ ~ComesToApply(<<>>, f)
  /\ ~ComesToCheck(<<>>)
BY NothingWaits DEF PlanComes, PlanRepeats, StaleComes, ComesToShow, ComesToHold, ComesToApply, ComesToCheck

\* The webview is mounted anew.
LEMMA RemountViewKeeps ==
  ASSUME FixIInv, RemountView
  PROVE  FixIInv'
<1>1. /\ SendFix("ready", NoFix) /\ fixView' = NoFixView /\ fixToView' = <<>> /\ fixUnanswered' = FALSE
      /\ UNCHANGED <<fixStored, fixStale, fixKind, fixJob, fixEdits, fixSeen, fixBasis, fixWritten>>
  BY DEF FixIInv, RemountView, fixHost, fixWorld
<1>2. PlansStay /\ FixQueuesOK /\ FixPlansOK
  BY <1>1 DEF FixIInv, FixPlansOK, PlansStay
<1> DEFINE a == [type |-> "ready", id |-> NoFix]
<1>3. a \in HostFixMessages /\ a.type = "ready" /\ a.id = NoFix
  BY <1>1, FixConstants DEF FixIInv, HostFixMessages, Made, FixIds, NoFix, NoFix
<1> HIDE DEF a
<1>4. fixToHost' \in Seq(HostFixMessages)' /\ AskedMore(fixToHost, fixToHost', a)
  BY <1>1, <1>2, <1>3, ViewAsks DEF a
<1>5. /\ fixToHost' = fixToHost => fixToHost' \in Seq(HostFixMessages)'
      /\ fixToView' = fixToView => fixToView' \in Seq(ViewFixMessages)'
  BY <1>2, QueuesStay
<1>6. FixViewOK'
  BY <1>1, <1>2, FixConstants, <1>3, <1>4, <1>5 DEF FixIInv, FixViewOK, NoFixView, WithPlan, FixPhase, FixIds, NoFix, FixOutcomes
<1>7. FixPlansOK'
  BY <1>1, <1>2, FixConstants, <1>3, <1>4, <1>5 DEF FixIInv, FixPlansOK, FixIds
<1>8. FixJobOK'
  BY <1>1, <1>2, FixConstants, <1>3, <1>4, <1>5 DEF FixIInv, FixPlansOK, FixJobOK, IdleFix, Carrying, FixIds
<1>9. FixQueuesOK'
  BY <1>1, <1>2, FixConstants, <1>3, <1>4, <1>5, NothingIsOnItsWay DEF FixIInv, FixQueuesOK, Made, NoFixView, WithPlan, FixPhase, NoFix
<1>10. PlansAreShownOnce'
  BY <1>1, <1>2, FixConstants, <1>3, <1>4, <1>5, NothingIsOnItsWay DEF FixIInv, PlansAreShownOnce, FixJobOK, Carries, Carrying, IsFix, IdleFix, NoFixView, WithPlan, FixPhase, AskedMore, IsFix
<1>11. ShownIsKept'
  BY <1>1, <1>2, FixConstants, <1>3, <1>4, <1>5, NothingIsOnItsWay DEF FixIInv, FixPlansOK, ShownIsKept, WillShow, IsFix, FixOff, IdleFix, NoFixView, WithPlan, FixPhase
<1>12. HeldIsNotReplaced'
  BY <1>1, <1>2, FixConstants, <1>3, <1>4, <1>5, NothingIsOnItsWay DEF FixIInv, HeldIsNotReplaced, FixJobOK, WillHold, IsFix, NoFixView, WithPlan, FixPhase, IdleFix
<1>13. StaleIsStale'
  BY <1>1, <1>2, FixConstants, <1>3, <1>4, <1>5, NothingIsOnItsWay DEF FixIInv, StaleIsStale, IsFix, NoFixView, WithPlan, FixPhase
<1>14. CheckingIsServed'
  BY <1>1, <1>2, FixConstants, <1>3, <1>4, <1>5, NothingIsOnItsWay DEF FixIInv, CheckingIsServed, FixJobOK, CheckRuns, NoFixView, WithPlan, FixPhase, IdleFix, AskedMore, IsFix
<1>15. ApplyingIsServed'
  BY <1>1, <1>2, FixConstants, <1>3, <1>4, <1>5, NothingIsOnItsWay DEF FixIInv, ApplyingIsServed, FixJobOK, Carries, Carrying, IsFix, FixOver, NoFixView, WithPlan, FixPhase, IdleFix, AskedMore, IsFix
<1>16. WritesHappenOnce'
  BY <1>1, <1>2, FixConstants, <1>3, <1>4, <1>5 DEF FixIInv, WritesHappenOnce, FixJobOK, IdleFix
<1>17. ChecksAreCurrent'
  BY <1>1, <1>2, FixConstants, <1>3, <1>4, <1>5 DEF FixIInv, ChecksAreCurrent, FixJobOK, CheckRuns, FixPlansOK, IdleFix
<1> QED BY <1>6, <1>7, <1>8, <1>9, <1>10, <1>11, <1>12, <1>13, <1>14, <1>15, <1>16, <1>17 DEF FixIInv

\* The webview hears that a check begins or that something failed.
LEMMA HearsDismissal ==
  ASSUME FixIInv, ReceiveFix, Head(fixToView).type \in {"analyzing", "error"}
  PROVE  FixIInv'
<1>1. /\ fixToView # <<>> /\ fixToView' = Tail(fixToView)
      /\ Head(fixToView).type \in {"analyzing", "error"}
      /\ fixView' = FixPhase(Head(fixToView).type)
      /\ fixUnanswered' = (fixUnanswered /\ fixView' = fixView)
      /\ UNCHANGED <<fixStored, fixStale, fixKind, fixJob, fixToHost, fixEdits, fixSeen, fixBasis, fixWritten>>
  BY DEF FixIInv, ReceiveFix, ShownFix, NoFix, fixHost, fixWorld
<1>2. PlansStay /\ FixQueuesOK /\ FixPlansOK
  BY <1>1 DEF FixIInv, FixPlansOK, PlansStay
<1>3. /\ fixToView' \in Seq(ViewFixMessages)' /\ HeardFirst(fixToView, fixToView', Head(fixToView))
      /\ Head(fixToView) \in ViewFixMessages
  BY <1>1, <1>2, ViewHears
<1>4. /\ fixToHost' = fixToHost => fixToHost' \in Seq(HostFixMessages)'
      /\ fixToView' = fixToView => fixToView' \in Seq(ViewFixMessages)'
  BY <1>2, QueuesStay
<1>5. FixViewOK'
  BY <1>1, <1>2, FixConstants, <1>3, <1>4 DEF FixIInv, FixViewOK, NoFixView, WithPlan, FixPhase, FixIds, NoFix, FixOutcomes
<1>6. FixPlansOK'
  BY <1>1, <1>2, FixConstants, <1>3, <1>4 DEF FixIInv, FixPlansOK, FixIds
<1>7. FixJobOK'
  BY <1>1, <1>2, FixConstants, <1>3, <1>4 DEF FixIInv, FixPlansOK, FixJobOK, IdleFix, Carrying, FixIds
<1>8. FixQueuesOK'
  BY <1>1, <1>2, FixConstants, <1>3, <1>4 DEF FixIInv, FixQueuesOK, Made, NoFixView, WithPlan, FixPhase, NoFix
<1>9. PlansAreShownOnce'
  BY <1>1, <1>2, FixConstants, <1>3, <1>4 DEF FixIInv, PlansAreShownOnce, FixJobOK, Carries, Carrying, IsFix, IdleFix, NoFixView, WithPlan, FixPhase, HeardFirst
<1>10. ShownIsKept'
  BY <1>1, <1>2, FixConstants, <1>3, <1>4 DEF FixIInv, FixPlansOK, ShownIsKept, WillShow, IsFix, FixOff, IdleFix, NoFixView, WithPlan, FixPhase, HeardFirst
<1>11. HeldIsNotReplaced'
  BY <1>1, <1>2, FixConstants, <1>3, <1>4 DEF FixIInv, HeldIsNotReplaced, FixJobOK, WillHold, IsFix, NoFixView, WithPlan, FixPhase, IdleFix, HeardFirst
<1>12. StaleIsStale'
  BY <1>1, <1>2, FixConstants, <1>3, <1>4 DEF FixIInv, StaleIsStale, IsFix, NoFixView, WithPlan, FixPhase, HeardFirst
<1>13. CheckingIsServed'
  BY <1>1, <1>2, FixConstants, <1>3, <1>4 DEF FixIInv, CheckingIsServed, FixJobOK, CheckRuns, NoFixView, WithPlan, FixPhase, IdleFix, HeardFirst, FixPlansOK
<1>14. ApplyingIsServed'
  BY <1>1, <1>2, FixConstants, <1>3, <1>4 DEF FixIInv, ApplyingIsServed, FixJobOK, Carries, Carrying, IsFix, FixOver, NoFixView, WithPlan, FixPhase, IdleFix, HeardFirst, FixPlansOK
<1>15. WritesHappenOnce'
  BY <1>1, <1>2, FixConstants, <1>3, <1>4 DEF FixIInv, WritesHappenOnce, FixJobOK, IdleFix
<1>16. ChecksAreCurrent'
  BY <1>1, <1>2, FixConstants, <1>3, <1>4 DEF FixIInv, ChecksAreCurrent, FixJobOK, CheckRuns, FixPlansOK, IdleFix
<1> QED BY <1>5, <1>6, <1>7, <1>8, <1>9, <1>10, <1>11, <1>12, <1>13, <1>14, <1>15, <1>16 DEF FixIInv

\* It hears of the dashboard.
LEMMA HearsDashboard ==
  ASSUME FixIInv, ReceiveFix, Head(fixToView).type = "dashboard"
  PROVE  FixIInv'
<1>1. /\ fixToView # <<>> /\ fixToView' = Tail(fixToView)
      /\ Head(fixToView).type = "dashboard"
      /\ fixView' = IF fixView.phase \notin {"applying", "result"} THEN NoFixView ELSE fixView
      /\ fixUnanswered' = (fixUnanswered /\ fixView' = fixView)
      /\ UNCHANGED <<fixStored, fixStale, fixKind, fixJob, fixToHost, fixEdits, fixSeen, fixBasis, fixWritten>>
  BY DEF FixIInv, ReceiveFix, ShownFix, NoFix, fixHost, fixWorld
<1>2. PlansStay /\ FixQueuesOK /\ FixPlansOK
  BY <1>1 DEF FixIInv, FixPlansOK, PlansStay
<1>3. /\ fixToView' \in Seq(ViewFixMessages)' /\ HeardFirst(fixToView, fixToView', Head(fixToView))
      /\ Head(fixToView) \in ViewFixMessages
  BY <1>1, <1>2, ViewHears
<1>4. /\ fixToHost' = fixToHost => fixToHost' \in Seq(HostFixMessages)'
      /\ fixToView' = fixToView => fixToView' \in Seq(ViewFixMessages)'
  BY <1>2, QueuesStay
<1>5. FixViewOK'
  BY <1>1, <1>2, FixConstants, <1>3, <1>4 DEF FixIInv, FixViewOK, NoFixView, WithPlan, FixPhase, FixIds, NoFix, FixOutcomes
<1>6. FixPlansOK'
  BY <1>1, <1>2, FixConstants, <1>3, <1>4 DEF FixIInv, FixPlansOK, FixIds
<1>7. FixJobOK'
  BY <1>1, <1>2, FixConstants, <1>3, <1>4 DEF FixIInv, FixPlansOK, FixJobOK, IdleFix, Carrying, FixIds
<1>8. FixQueuesOK'
  BY <1>1, <1>2, FixConstants, <1>3, <1>4 DEF FixIInv, FixQueuesOK, Made, NoFixView, WithPlan, FixPhase, NoFix
<1>9. PlansAreShownOnce'
  BY <1>1, <1>2, FixConstants, <1>3, <1>4 DEF FixIInv, PlansAreShownOnce, FixJobOK, Carries, Carrying, IsFix, IdleFix, NoFixView, WithPlan, FixPhase, HeardFirst
<1>10. ShownIsKept'
  BY <1>1, <1>2, FixConstants, <1>3, <1>4 DEF FixIInv, FixPlansOK, ShownIsKept, WillShow, IsFix, FixOff, IdleFix, NoFixView, WithPlan, FixPhase, HeardFirst
<1>11. HeldIsNotReplaced'
  BY <1>1, <1>2, FixConstants, <1>3, <1>4 DEF FixIInv, HeldIsNotReplaced, FixJobOK, WillHold, IsFix, NoFixView, WithPlan, FixPhase, IdleFix, HeardFirst
<1>12. StaleIsStale'
  BY <1>1, <1>2, FixConstants, <1>3, <1>4 DEF FixIInv, StaleIsStale, IsFix, NoFixView, WithPlan, FixPhase, HeardFirst
<1>13. CheckingIsServed'
  BY <1>1, <1>2, FixConstants, <1>3, <1>4 DEF FixIInv, CheckingIsServed, FixJobOK, CheckRuns, NoFixView, WithPlan, FixPhase, IdleFix, HeardFirst
<1>14. ApplyingIsServed'
  BY <1>1, <1>2, FixConstants, <1>3, <1>4 DEF FixIInv, ApplyingIsServed, FixJobOK, Carries, Carrying, IsFix, FixOver, NoFixView, WithPlan, FixPhase, IdleFix, HeardFirst
<1>15. WritesHappenOnce'
  BY <1>1, <1>2, FixConstants, <1>3, <1>4 DEF FixIInv, WritesHappenOnce, FixJobOK, IdleFix
<1>16. ChecksAreCurrent'
  BY <1>1, <1>2, FixConstants, <1>3, <1>4 DEF FixIInv, ChecksAreCurrent, FixJobOK, CheckRuns, FixPlansOK, IdleFix
<1> QED BY <1>5, <1>6, <1>7, <1>8, <1>9, <1>10, <1>11, <1>12, <1>13, <1>14, <1>15, <1>16 DEF FixIInv

\* It hears of a plan that it shows, or that it does not accept.
LEMMA HearsPlan ==
  ASSUME FixIInv, ReceiveFix, Head(fixToView).type = "plan"
  PROVE  FixIInv'
<1>1. /\ fixToView # <<>> /\ fixToView' = Tail(fixToView)
      /\ Head(fixToView).type = "plan" /\ Head(fixToView).id \in Fixes
      /\ fixView' = IF fixKind[Head(fixToView).id] # "unshown" THEN WithPlan("plan", Head(fixToView).id) ELSE fixView
      /\ fixUnanswered' = (fixKind[Head(fixToView).id] = "unshown" \/ (fixUnanswered /\ fixView' = fixView))
      /\ UNCHANGED <<fixStored, fixStale, fixKind, fixJob, fixToHost, fixEdits, fixSeen, fixBasis, fixWritten>>
  BY Taking DEF FixIInv, ReceiveFix, ShownFix, NoFix, fixHost, fixWorld, FixQueuesOK, ViewFixMessages, FixIds
<1>2. PlansStay /\ FixQueuesOK /\ FixPlansOK
  BY <1>1 DEF FixIInv, FixPlansOK, PlansStay
<1>3. /\ fixToView' \in Seq(ViewFixMessages)' /\ HeardFirst(fixToView, fixToView', Head(fixToView))
      /\ Head(fixToView) \in ViewFixMessages
  BY <1>1, <1>2, ViewHears
<1>4. /\ fixToHost' = fixToHost => fixToHost' \in Seq(HostFixMessages)'
      /\ fixToView' = fixToView => fixToView' \in Seq(ViewFixMessages)'
  BY <1>2, QueuesStay
<1>5. FixViewOK'
  BY <1>1, <1>2, FixConstants, <1>3, <1>4 DEF FixIInv, FixViewOK, NoFixView, WithPlan, FixPhase, FixIds, NoFix, FixOutcomes
<1>6. FixPlansOK'
  BY <1>1, <1>2, FixConstants, <1>3, <1>4 DEF FixIInv, FixPlansOK, FixIds
<1>7. FixJobOK'
  BY <1>1, <1>2, FixConstants, <1>3, <1>4 DEF FixIInv, FixPlansOK, FixJobOK, IdleFix, Carrying, FixIds
<1>8. FixQueuesOK'
  BY <1>1, <1>2, FixConstants, <1>3, <1>4 DEF FixIInv, FixQueuesOK, Made, NoFixView, WithPlan, FixPhase, NoFix, ViewFixMessages
<1>9. PlansAreShownOnce'
  BY <1>1, <1>2, FixConstants, <1>3, <1>4 DEF FixIInv, PlansAreShownOnce, FixJobOK, Carries, Carrying, IsFix, IdleFix, NoFixView, WithPlan, FixPhase, HeardFirst
<1>10. ShownIsKept'
  BY <1>1, <1>2, FixConstants, <1>3, <1>4 DEF FixIInv, FixPlansOK, ShownIsKept, WillShow, IsFix, FixOff, IdleFix, NoFixView, WithPlan, FixPhase, HeardFirst
<1>11. HeldIsNotReplaced'
  BY <1>1, <1>2, FixConstants, <1>3, <1>4 DEF FixIInv, HeldIsNotReplaced, FixJobOK, WillHold, IsFix, NoFixView, WithPlan, FixPhase, IdleFix, HeardFirst
<1>12. StaleIsStale'
  BY <1>1, <1>2, FixConstants, <1>3, <1>4 DEF FixIInv, StaleIsStale, IsFix, NoFixView, WithPlan, FixPhase, HeardFirst
<1>13. CheckingIsServed'
  BY <1>1, <1>2, FixConstants, <1>3, <1>4 DEF FixIInv, CheckingIsServed, FixJobOK, CheckRuns, NoFixView, WithPlan, FixPhase, IdleFix, HeardFirst
<1>14. ApplyingIsServed'
  BY <1>1, <1>2, FixConstants, <1>3, <1>4 DEF FixIInv, ApplyingIsServed, FixJobOK, Carries, Carrying, IsFix, FixOver, NoFixView, WithPlan, FixPhase, IdleFix, HeardFirst
<1>15. WritesHappenOnce'
  BY <1>1, <1>2, FixConstants, <1>3, <1>4 DEF FixIInv, WritesHappenOnce, FixJobOK, IdleFix
<1>16. ChecksAreCurrent'
  BY <1>1, <1>2, FixConstants, <1>3, <1>4 DEF FixIInv, ChecksAreCurrent, FixJobOK, CheckRuns, FixPlansOK, IdleFix
<1> QED BY <1>5, <1>6, <1>7, <1>8, <1>9, <1>10, <1>11, <1>12, <1>13, <1>14, <1>15, <1>16 DEF FixIInv

\* What the webview makes of progress: it is about the plan it has, or about another.
LEMMA ProgressHeard ==
  ASSUME FixIInv, ReceiveFix, NEW m, m = Head(fixToView), m.type \in {"applying", "stale", "result"}
  PROVE  \/ fixView' = fixView /\ fixView.id # m.id
         \/ /\ fixView.id = m.id /\ fixView.id \in Fixes
            /\ \/ m.type # "result" /\ fixView' = WithPlan(m.type, fixView.id)
               \/ m.type = "result" /\ fixView' = [WithPlan("result", fixView.id) EXCEPT !.outcome = m.outcome]
<1>1. m \in ViewFixMessages
  BY Taking DEF FixIInv, FixQueuesOK, ReceiveFix
<1>2. m.id # NoFix /\ m.id \in Fixes
  BY <1>1 DEF ViewFixMessages, FixIds
<1>3. ShownFix = fixView.id
  BY DEF FixIInv, FixViewOK, ShownFix
<1>4. fixView' = CASE m.type = "applying" /\ fixView.id = m.id -> WithPlan("applying", m.id)
                   [] m.type = "stale" /\ fixView.id = m.id -> WithPlan("stale", m.id)
                   [] m.type = "result" /\ fixView.id = m.id -> [WithPlan("result", m.id) EXCEPT !.outcome = m.outcome]
                   [] OTHER -> fixView
  BY <1>2, <1>3 DEF ReceiveFix
<1>5. CASE fixView.id = m.id
  BY <1>2, <1>4, <1>5
<1>6. CASE fixView.id # m.id
  BY <1>4, <1>6
<1> QED BY <1>5, <1>6

\* It hears what became of a plan: of the one it has, or of another.
LEMMA HearsProgress ==
  ASSUME FixIInv, ReceiveFix, Head(fixToView).type \in {"applying", "stale", "result"}
  PROVE  FixIInv'
<1>1. /\ fixToView # <<>> /\ fixToView' = Tail(fixToView)
      /\ Head(fixToView).type \in {"applying", "stale", "result"}
      /\ \/ fixView' = fixView /\ fixView.id # Head(fixToView).id
         \/ /\ fixView.id = Head(fixToView).id /\ fixView.id \in Fixes
            /\ \/ Head(fixToView).type # "result" /\ fixView' = WithPlan(Head(fixToView).type, fixView.id)
               \/ /\ Head(fixToView).type = "result"
                  /\ fixView' = [WithPlan("result", fixView.id) EXCEPT !.outcome = Head(fixToView).outcome]
      /\ fixUnanswered' = (fixUnanswered /\ fixView' = fixView)
      /\ UNCHANGED <<fixStored, fixStale, fixKind, fixJob, fixToHost, fixEdits, fixSeen, fixBasis, fixWritten>>
  BY ProgressHeard DEF FixIInv, ReceiveFix, fixHost, fixWorld
<1>2. PlansStay /\ FixQueuesOK /\ FixPlansOK
  BY <1>1 DEF FixIInv, FixPlansOK, PlansStay
<1>3. /\ fixToView' \in Seq(ViewFixMessages)' /\ HeardFirst(fixToView, fixToView', Head(fixToView))
      /\ Head(fixToView) \in ViewFixMessages
  BY <1>1, <1>2, ViewHears
<1>4. /\ fixToHost' = fixToHost => fixToHost' \in Seq(HostFixMessages)'
      /\ fixToView' = fixToView => fixToView' \in Seq(ViewFixMessages)'
  BY <1>2, QueuesStay
<1>5. FixViewOK'
  BY <1>1, <1>2, FixConstants, <1>3, <1>4 DEF FixIInv, FixViewOK, NoFixView, WithPlan, FixPhase, FixIds, NoFix, FixOutcomes, ViewFixMessages
<1>6. FixPlansOK'
  BY <1>1, <1>2, FixConstants, <1>3, <1>4 DEF FixIInv, FixPlansOK, FixIds
<1>7. FixJobOK'
  BY <1>1, <1>2, FixConstants, <1>3, <1>4 DEF FixIInv, FixPlansOK, FixJobOK, IdleFix, Carrying, FixIds
<1>8. FixQueuesOK'
  BY <1>1, <1>2, FixConstants, <1>3, <1>4 DEF FixIInv, FixQueuesOK, Made, NoFixView, WithPlan, FixPhase, NoFix
<1>9. PlansAreShownOnce'
  BY <1>1, <1>2, FixConstants, <1>3, <1>4 DEF FixIInv, PlansAreShownOnce, FixJobOK, Carries, Carrying, IsFix, IdleFix, NoFixView, WithPlan, FixPhase, HeardFirst
<1>10. ShownIsKept'
  BY <1>1, <1>2, FixConstants, <1>3, <1>4 DEF FixIInv, FixPlansOK, ShownIsKept, WillShow, IsFix, FixOff, IdleFix, NoFixView, WithPlan, FixPhase, HeardFirst
<1>11. HeldIsNotReplaced'
  BY <1>1, <1>2, FixConstants, <1>3, <1>4 DEF FixIInv, HeldIsNotReplaced, FixJobOK, WillHold, IsFix, NoFixView, WithPlan, FixPhase, IdleFix, HeardFirst
<1>12. StaleIsStale'
  BY <1>1, <1>2, FixConstants, <1>3, <1>4 DEF FixIInv, StaleIsStale, IsFix, NoFixView, WithPlan, FixPhase, HeardFirst
<1>13. CheckingIsServed'
  BY <1>1, <1>2, FixConstants, <1>3, <1>4 DEF FixIInv, CheckingIsServed, FixJobOK, CheckRuns, NoFixView, WithPlan, FixPhase, IdleFix, HeardFirst
<1>14. ApplyingIsServed'
  BY <1>1, <1>2, FixConstants, <1>3, <1>4 DEF FixIInv, ApplyingIsServed, FixJobOK, Carries, Carrying, IsFix, FixOver, NoFixView, WithPlan, FixPhase, IdleFix, HeardFirst
<1>15. WritesHappenOnce'
  BY <1>1, <1>2, FixConstants, <1>3, <1>4 DEF FixIInv, WritesHappenOnce, FixJobOK, IdleFix
<1>16. ChecksAreCurrent'
  BY <1>1, <1>2, FixConstants, <1>3, <1>4 DEF FixIInv, ChecksAreCurrent, FixJobOK, CheckRuns, FixPlansOK, IdleFix
<1> QED BY <1>5, <1>6, <1>7, <1>8, <1>9, <1>10, <1>11, <1>12, <1>13, <1>14, <1>15, <1>16 DEF FixIInv

LEMMA ReceiveFixKeeps == ASSUME FixIInv, ReceiveFix PROVE FixIInv'
<1>1. Head(fixToView).type \in FixTypes
  BY Taking DEF FixIInv, FixQueuesOK, ViewFixMessages, ReceiveFix
<1> QED BY <1>1, HearsDismissal, HearsDashboard, HearsPlan, HearsProgress DEF FixTypes

\* The host answers with an error; it may let go of the plan, or abort what carries it out.
LEMMA AnsweredWithError ==
  ASSUME FixIInv, NEW t, FixArrives(t), FixTells(<<FixSays("error", NoFix)>>), fixStored' \in {fixStored, NoFix},
         \/ fixJob' = fixJob
         \/ fixJob.kind \in Carrying /\ fixJob' = [fixJob EXCEPT !.aborted = TRUE],
         UNCHANGED <<fixView, fixStale, fixKind, fixEdits, fixSeen, fixBasis, fixWritten, fixUnanswered>>
  PROVE  FixIInv'
<1>1. /\ fixToHost # <<>> /\ fixToHost' = Tail(fixToHost) /\ Head(fixToHost).type = t /\ FixTells(<<FixSays("error", NoFix)>>)
      /\ fixStored' \in {fixStored, NoFix}
      /\ fixJob' = fixJob \/ (fixJob.kind \in Carrying /\ fixJob' = [fixJob EXCEPT !.aborted = TRUE])
      /\ UNCHANGED <<fixView, fixStale, fixKind, fixEdits, fixSeen, fixBasis, fixWritten, fixUnanswered>>
  BY DEF FixIInv, FixArrives
<1>2. PlansStay /\ FixQueuesOK /\ FixPlansOK
  BY <1>1 DEF FixIInv, FixPlansOK, PlansStay
<1> DEFINE m == [type |-> "error", id |-> NoFix, outcome |-> "none"]
<1>3. m \in ViewFixMessages' /\ m.type = "error" /\ m.id = NoFix /\ FixTells(<<m>>)
  BY <1>1, <1>2, SaysOK, FixConstants DEF FixIInv, FixSays, FixTypes, FixIds, FixOutcomes, Made
<1> HIDE DEF m
<1>4. fixToView' \in Seq(ViewFixMessages)' /\ ToldMore(fixToView, fixToView', m)
  BY <1>2, <1>3, HostTells
<1>5. /\ fixToHost' \in Seq(HostFixMessages)' /\ AskedMore(fixToHost', fixToHost, Head(fixToHost))
      /\ Head(fixToHost) \in HostFixMessages
  BY <1>1, <1>2, HostTakes
<1>6. FixViewOK'
  BY <1>1, <1>2, FixConstants, <1>3, <1>4, <1>5 DEF FixIInv, FixViewOK, NoFixView, WithPlan, FixPhase, FixIds, NoFix, FixOutcomes
<1>7. FixPlansOK'
  BY <1>1, <1>2, FixConstants, <1>3, <1>4, <1>5 DEF FixIInv, FixPlansOK, FixIds
<1>8. FixJobOK'
  BY <1>1, <1>2, FixConstants, <1>3, <1>4, <1>5 DEF FixIInv, FixPlansOK, FixJobOK, IdleFix, Carrying, FixIds
<1>9. FixQueuesOK'
  BY <1>1, <1>2, FixConstants, <1>3, <1>4, <1>5 DEF FixIInv, FixQueuesOK, Made, NoFixView, WithPlan, FixPhase, NoFix
<1>10. PlansAreShownOnce'
  BY <1>1, <1>2, FixConstants, <1>3, <1>4, <1>5 DEF FixIInv, PlansAreShownOnce, FixJobOK, Carries, Carrying, IsFix, IdleFix, NoFixView, WithPlan, FixPhase, ToldMore, AskedMore, IsFix
<1>11. ShownIsKept'
  BY <1>1, <1>2, FixConstants, <1>3, <1>4, <1>5 DEF FixIInv, FixPlansOK, ShownIsKept, WillShow, IsFix, FixOff, IdleFix, NoFixView, WithPlan, FixPhase, ToldMore
<1>12. HeldIsNotReplaced'
  BY <1>1, <1>2, FixConstants, <1>3, <1>4, <1>5 DEF FixIInv, HeldIsNotReplaced, FixJobOK, WillHold, IsFix, NoFixView, WithPlan, FixPhase, IdleFix, ToldMore
<1>13. StaleIsStale'
  BY <1>1, <1>2, FixConstants, <1>3, <1>4, <1>5 DEF FixIInv, StaleIsStale, IsFix, NoFixView, WithPlan, FixPhase, ToldMore
<1>14. CheckingIsServed'
  BY <1>1, <1>2, FixConstants, <1>3, <1>4, <1>5 DEF FixIInv, CheckingIsServed, FixJobOK, CheckRuns, NoFixView, WithPlan, FixPhase, IdleFix, ToldMore, AskedMore, IsFix
<1>15. ApplyingIsServed'
  BY <1>1, <1>2, FixConstants, <1>3, <1>4, <1>5 DEF FixIInv, ApplyingIsServed, FixJobOK, Carries, Carrying, IsFix, FixOver, NoFixView, WithPlan, FixPhase, IdleFix, ToldMore, AskedMore, IsFix, FixJobOK
<1>16. WritesHappenOnce'
  BY <1>1, <1>2, FixConstants, <1>3, <1>4, <1>5 DEF FixIInv, WritesHappenOnce, FixJobOK, IdleFix
<1>17. ChecksAreCurrent'
  BY <1>1, <1>2, FixConstants, <1>3, <1>4, <1>5 DEF FixIInv, ChecksAreCurrent, FixJobOK, CheckRuns, FixPlansOK, IdleFix
<1> QED BY <1>6, <1>7, <1>8, <1>9, <1>10, <1>11, <1>12, <1>13, <1>14, <1>15, <1>16, <1>17 DEF FixIInv

\* The host begins a check, and lets go of the plan at most.
LEMMA CheckBegins ==
  ASSUME FixIInv, NEW t \in {"analyze", "retry"}, FixArrives(t), FixTells(<<FixSays("analyzing", NoFix)>>), fixStored' \in {fixStored, NoFix},
         fixJob = IdleFix, fixJob' = [IdleFix EXCEPT !.kind = "analysis", !.named = TRUE],
         UNCHANGED <<fixView, fixStale, fixKind, fixEdits, fixSeen, fixBasis, fixWritten, fixUnanswered>>
  PROVE  FixIInv'
<1>1. /\ fixToHost # <<>> /\ fixToHost' = Tail(fixToHost) /\ Head(fixToHost).type = t /\ FixTells(<<FixSays("analyzing", NoFix)>>)
      /\ fixStored' \in {fixStored, NoFix}
      /\ fixJob = IdleFix /\ fixJob' = [IdleFix EXCEPT !.kind = "analysis", !.named = TRUE]
      /\ UNCHANGED <<fixView, fixStale, fixKind, fixEdits, fixSeen, fixBasis, fixWritten, fixUnanswered>>
  BY DEF FixIInv, FixArrives
<1>2. PlansStay /\ FixQueuesOK /\ FixPlansOK
  BY <1>1 DEF FixIInv, FixPlansOK, PlansStay
<1> DEFINE m == [type |-> "analyzing", id |-> NoFix, outcome |-> "none"]
<1>3. m \in ViewFixMessages' /\ m.type = "analyzing" /\ m.id = NoFix /\ FixTells(<<m>>)
  BY <1>1, <1>2, SaysOK, FixConstants DEF FixIInv, FixSays, FixTypes, FixIds, FixOutcomes, Made
<1> HIDE DEF m
<1>4. fixToView' \in Seq(ViewFixMessages)' /\ ToldMore(fixToView, fixToView', m)
  BY <1>2, <1>3, HostTells
<1>5. /\ fixToHost' \in Seq(HostFixMessages)' /\ AskedMore(fixToHost', fixToHost, Head(fixToHost))
      /\ Head(fixToHost) \in HostFixMessages
  BY <1>1, <1>2, HostTakes
<1>6. FixViewOK'
  BY <1>1, <1>2, FixConstants, <1>3, <1>4, <1>5 DEF FixIInv, FixViewOK, NoFixView, WithPlan, FixPhase, FixIds, NoFix, FixOutcomes
<1>7. FixPlansOK'
  BY <1>1, <1>2, FixConstants, <1>3, <1>4, <1>5 DEF FixIInv, FixPlansOK, FixIds
<1>8. FixJobOK'
  BY <1>1, <1>2, FixConstants, <1>3, <1>4, <1>5 DEF FixIInv, FixPlansOK, FixJobOK, IdleFix, Carrying, FixIds
<1>9. FixQueuesOK'
  BY <1>1, <1>2, FixConstants, <1>3, <1>4, <1>5 DEF FixIInv, FixQueuesOK, Made, NoFixView, WithPlan, FixPhase, NoFix
<1>10. PlansAreShownOnce'
  BY <1>1, <1>2, FixConstants, <1>3, <1>4, <1>5 DEF FixIInv, PlansAreShownOnce, FixJobOK, Carries, Carrying, IsFix, IdleFix, NoFixView, WithPlan, FixPhase, ToldMore, AskedMore, IsFix
<1>11. ShownIsKept'
  BY <1>1, <1>2, FixConstants, <1>3, <1>4, <1>5 DEF FixIInv, FixPlansOK, ShownIsKept, WillShow, IsFix, FixOff, IdleFix, NoFixView, WithPlan, FixPhase, ToldMore
<1>12. HeldIsNotReplaced'
  BY <1>1, <1>2, FixConstants, <1>3, <1>4, <1>5 DEF FixIInv, HeldIsNotReplaced, FixJobOK, WillHold, IsFix, NoFixView, WithPlan, FixPhase, IdleFix, ToldMore
<1>13. StaleIsStale'
  BY <1>1, <1>2, FixConstants, <1>3, <1>4, <1>5 DEF FixIInv, StaleIsStale, IsFix, NoFixView, WithPlan, FixPhase, ToldMore
<1>14. CheckingIsServed'
  BY <1>1, <1>2, FixConstants, <1>3, <1>4, <1>5 DEF FixIInv, CheckingIsServed, FixJobOK, CheckRuns, NoFixView, WithPlan, FixPhase, IdleFix, ToldMore, AskedMore, IsFix
<1>15. ApplyingIsServed'
  BY <1>1, <1>2, FixConstants, <1>3, <1>4, <1>5 DEF FixIInv, ApplyingIsServed, FixJobOK, Carries, Carrying, IsFix, FixOver, NoFixView, WithPlan, FixPhase, IdleFix, ToldMore, AskedMore, IsFix
<1>16. WritesHappenOnce'
  BY <1>1, <1>2, FixConstants, <1>3, <1>4, <1>5 DEF FixIInv, WritesHappenOnce, FixJobOK, IdleFix
<1>17. ChecksAreCurrent'
  BY <1>1, <1>2, FixConstants, <1>3, <1>4, <1>5 DEF FixIInv, ChecksAreCurrent, FixJobOK, CheckRuns, FixPlansOK, IdleFix
<1> QED BY <1>6, <1>7, <1>8, <1>9, <1>10, <1>11, <1>12, <1>13, <1>14, <1>15, <1>16, <1>17 DEF FixIInv

\* The host does not know the plan.
LEMMA UnknownPlan ==
  ASSUME FixIInv, NEW t, FixArrives(t), fixUnanswered' = TRUE, UNCHANGED <<fixView, fixStored, fixStale, fixKind, fixJob, fixToView, fixEdits, fixSeen, fixBasis, fixWritten>>
  PROVE  FixIInv'
<1>1. /\ fixToHost # <<>> /\ fixToHost' = Tail(fixToHost) /\ Head(fixToHost).type = t
      /\ fixUnanswered' = TRUE
      /\ UNCHANGED <<fixView, fixStored, fixStale, fixKind, fixJob, fixToView, fixEdits, fixSeen, fixBasis, fixWritten>>
  BY DEF FixIInv, FixArrives
<1>2. PlansStay /\ FixQueuesOK /\ FixPlansOK
  BY <1>1 DEF FixIInv, FixPlansOK, PlansStay
<1>3. /\ fixToHost' \in Seq(HostFixMessages)' /\ AskedMore(fixToHost', fixToHost, Head(fixToHost))
      /\ Head(fixToHost) \in HostFixMessages
  BY <1>1, <1>2, HostTakes
<1>4. /\ fixToHost' = fixToHost => fixToHost' \in Seq(HostFixMessages)'
      /\ fixToView' = fixToView => fixToView' \in Seq(ViewFixMessages)'
  BY <1>2, QueuesStay
<1>5. FixViewOK'
  BY <1>1, <1>2, FixConstants, <1>3, <1>4 DEF FixIInv, FixViewOK, NoFixView, WithPlan, FixPhase, FixIds, NoFix, FixOutcomes
<1>6. FixPlansOK'
  BY <1>1, <1>2, FixConstants, <1>3, <1>4 DEF FixIInv, FixPlansOK, FixIds
<1>7. FixJobOK'
  BY <1>1, <1>2, FixConstants, <1>3, <1>4 DEF FixIInv, FixPlansOK, FixJobOK, IdleFix, Carrying, FixIds
<1>8. FixQueuesOK'
  BY <1>1, <1>2, FixConstants, <1>3, <1>4 DEF FixIInv, FixQueuesOK, Made, NoFixView, WithPlan, FixPhase, NoFix
<1>9. PlansAreShownOnce'
  BY <1>1, <1>2, FixConstants, <1>3, <1>4 DEF FixIInv, PlansAreShownOnce, FixJobOK, Carries, Carrying, IsFix, IdleFix, NoFixView, WithPlan, FixPhase, AskedMore, IsFix
<1>10. ShownIsKept'
  BY <1>1, <1>2, FixConstants, <1>3, <1>4 DEF FixIInv, FixPlansOK, ShownIsKept, WillShow, IsFix, FixOff, IdleFix, NoFixView, WithPlan, FixPhase
<1>11. HeldIsNotReplaced'
  BY <1>1, <1>2, FixConstants, <1>3, <1>4 DEF FixIInv, HeldIsNotReplaced, FixJobOK, WillHold, IsFix, NoFixView, WithPlan, FixPhase, IdleFix
<1>12. StaleIsStale'
  BY <1>1, <1>2, FixConstants, <1>3, <1>4 DEF FixIInv, StaleIsStale, IsFix, NoFixView, WithPlan, FixPhase
<1>13. CheckingIsServed'
  BY <1>1, <1>2, FixConstants, <1>3, <1>4 DEF FixIInv, CheckingIsServed, FixJobOK, CheckRuns, NoFixView, WithPlan, FixPhase, IdleFix, AskedMore, IsFix
<1>14. ApplyingIsServed'
  BY <1>1, <1>2, FixConstants, <1>3, <1>4 DEF FixIInv, ApplyingIsServed, FixJobOK, Carries, Carrying, IsFix, FixOver, NoFixView, WithPlan, FixPhase, IdleFix, AskedMore, IsFix
<1>15. WritesHappenOnce'
  BY <1>1, <1>2, FixConstants, <1>3, <1>4 DEF FixIInv, WritesHappenOnce, FixJobOK, IdleFix
<1>16. ChecksAreCurrent'
  BY <1>1, <1>2, FixConstants, <1>3, <1>4 DEF FixIInv, ChecksAreCurrent, FixJobOK, CheckRuns, FixPlansOK, IdleFix
<1> QED BY <1>5, <1>6, <1>7, <1>8, <1>9, <1>10, <1>11, <1>12, <1>13, <1>14, <1>15, <1>16 DEF FixIInv

LEMMA HandleFixAnalyzeKeeps == ASSUME FixIInv, HandleFixAnalyze PROVE FixIInv'
BY AnsweredWithError, CheckBegins DEF HandleFixAnalyze, StartFixCheck, FixIInv, FixPlansOK, fixWorld

LEMMA HandleFixRetryKeeps == ASSUME FixIInv, HandleFixRetry PROVE FixIInv'
BY AnsweredWithError, CheckBegins, UnknownPlan DEF HandleFixRetry, StartFixCheck, FixIInv, FixPlansOK, fixWorld, fixHost, Carrying

\* A stale plan is confirmed.
LEMMA StaleIsConfirmed ==
  ASSUME FixIInv, FixArrives("confirm"), fixStored = Head(fixToHost).id, fixStale' = TRUE, FixTells(<<FixSays("stale", Head(fixToHost).id)>>),
         UNCHANGED <<fixView, fixStored, fixKind, fixJob, fixEdits, fixSeen, fixBasis, fixWritten, fixUnanswered>>
  PROVE  FixIInv'
<1>1. /\ fixToHost # <<>> /\ fixToHost' = Tail(fixToHost) /\ Head(fixToHost).type = "confirm" /\ FixTells(<<FixSays("stale", fixStored)>>)
      /\ fixStored = Head(fixToHost).id /\ fixStored \in Fixes /\ fixKind[fixStored] # "none" /\ fixStale' = TRUE
      /\ UNCHANGED <<fixView, fixStored, fixKind, fixJob, fixEdits, fixSeen, fixBasis, fixWritten, fixUnanswered>>
  BY Taking DEF FixIInv, FixArrives, FixQueuesOK, HostFixMessages, Made, FixIds
<1>2. PlansStay /\ FixQueuesOK /\ FixPlansOK
  BY <1>1 DEF FixIInv, FixPlansOK, PlansStay
<1> DEFINE m == [type |-> "stale", id |-> fixStored, outcome |-> "none"]
<1>3. m \in ViewFixMessages' /\ m.type = "stale" /\ m.id = fixStored /\ FixTells(<<m>>)
  BY <1>1, <1>2, SaysOK, FixConstants DEF FixIInv, FixSays, FixTypes, FixIds, FixOutcomes, Made
<1> HIDE DEF m
<1>4. fixToView' \in Seq(ViewFixMessages)' /\ ToldMore(fixToView, fixToView', m)
  BY <1>2, <1>3, HostTells
<1>5. /\ fixToHost' \in Seq(HostFixMessages)' /\ AskedMore(fixToHost', fixToHost, Head(fixToHost))
      /\ Head(fixToHost) \in HostFixMessages
  BY <1>1, <1>2, HostTakes
<1>6. FixViewOK'
  BY <1>1, <1>2, FixConstants, <1>3, <1>4, <1>5 DEF FixIInv, FixViewOK, NoFixView, WithPlan, FixPhase, FixIds, NoFix, FixOutcomes
<1>7. FixPlansOK'
  BY <1>1, <1>2, FixConstants, <1>3, <1>4, <1>5 DEF FixIInv, FixPlansOK, FixIds
<1>8. FixJobOK'
  BY <1>1, <1>2, FixConstants, <1>3, <1>4, <1>5 DEF FixIInv, FixPlansOK, FixJobOK, IdleFix, Carrying, FixIds
<1>9. FixQueuesOK'
  BY <1>1, <1>2, FixConstants, <1>3, <1>4, <1>5 DEF FixIInv, FixQueuesOK, Made, NoFixView, WithPlan, FixPhase, NoFix
<1>10. PlansAreShownOnce'
  BY <1>1, <1>2, FixConstants, <1>3, <1>4, <1>5 DEF FixIInv, PlansAreShownOnce, FixJobOK, Carries, Carrying, IsFix, IdleFix, NoFixView, WithPlan, FixPhase, ToldMore, AskedMore, IsFix
<1>11. ShownIsKept'
  BY <1>1, <1>2, FixConstants, <1>3, <1>4, <1>5 DEF FixIInv, FixPlansOK, ShownIsKept, WillShow, IsFix, FixOff, IdleFix, NoFixView, WithPlan, FixPhase, ToldMore
<1>12. HeldIsNotReplaced'
  BY <1>1, <1>2, FixConstants, <1>3, <1>4, <1>5 DEF FixIInv, HeldIsNotReplaced, FixJobOK, WillHold, IsFix, NoFixView, WithPlan, FixPhase, IdleFix, ToldMore
<1>13. StaleIsStale'
  BY <1>1, <1>2, FixConstants, <1>3, <1>4, <1>5 DEF FixIInv, StaleIsStale, IsFix, NoFixView, WithPlan, FixPhase, ToldMore
<1>14. CheckingIsServed'
  BY <1>1, <1>2, FixConstants, <1>3, <1>4, <1>5 DEF FixIInv, CheckingIsServed, FixJobOK, CheckRuns, NoFixView, WithPlan, FixPhase, IdleFix, ToldMore, AskedMore, IsFix
<1>15. ApplyingIsServed'
  BY <1>1, <1>2, FixConstants, <1>3, <1>4, <1>5 DEF FixIInv, ApplyingIsServed, FixJobOK, Carries, Carrying, IsFix, FixOver, NoFixView, WithPlan, FixPhase, IdleFix, ToldMore, AskedMore, IsFix
<1>16. WritesHappenOnce'
  BY <1>1, <1>2, FixConstants, <1>3, <1>4, <1>5 DEF FixIInv, WritesHappenOnce, FixJobOK, IdleFix
<1>17. ChecksAreCurrent'
  BY <1>1, <1>2, FixConstants, <1>3, <1>4, <1>5 DEF FixIInv, ChecksAreCurrent, FixJobOK, CheckRuns, FixPlansOK, IdleFix
<1> QED BY <1>6, <1>7, <1>8, <1>9, <1>10, <1>11, <1>12, <1>13, <1>14, <1>15, <1>16, <1>17 DEF FixIInv

\* A plan is confirmed and carried out.
LEMMA PlanIsConfirmed ==
  ASSUME FixIInv, FixArrives("confirm"), fixStored = Head(fixToHost).id, ~fixStale, fixJob = IdleFix, fixJob' = [IdleFix EXCEPT !.kind = "rereading", !.id = fixStored],
         UNCHANGED <<fixView, fixStored, fixStale, fixKind, fixToView, fixEdits, fixSeen, fixBasis, fixWritten, fixUnanswered>>
  PROVE  FixIInv'
<1>1. /\ fixToHost # <<>> /\ fixToHost' = Tail(fixToHost) /\ Head(fixToHost).type = "confirm" /\ fixStored = Head(fixToHost).id /\ fixStored \in Fixes /\ fixKind[fixStored] = "actionable"
      /\ fixJob = IdleFix /\ fixJob' = [IdleFix EXCEPT !.kind = "rereading", !.id = fixStored]
      /\ UNCHANGED <<fixView, fixStored, fixStale, fixKind, fixToView, fixEdits, fixSeen, fixBasis, fixWritten, fixUnanswered>>
  BY Taking DEF FixIInv, FixArrives, FixQueuesOK, HostFixMessages, Made, FixIds
<1>2. PlansStay /\ FixQueuesOK /\ FixPlansOK
  BY <1>1 DEF FixIInv, FixPlansOK, PlansStay
<1>3. /\ fixToHost' \in Seq(HostFixMessages)' /\ AskedMore(fixToHost', fixToHost, Head(fixToHost))
      /\ Head(fixToHost) \in HostFixMessages
  BY <1>1, <1>2, HostTakes
<1>4. /\ fixToHost' = fixToHost => fixToHost' \in Seq(HostFixMessages)'
      /\ fixToView' = fixToView => fixToView' \in Seq(ViewFixMessages)'
  BY <1>2, QueuesStay
<1>5. FixViewOK'
  BY <1>1, <1>2, FixConstants, <1>3, <1>4 DEF FixIInv, FixViewOK, NoFixView, WithPlan, FixPhase, FixIds, NoFix, FixOutcomes
<1>6. FixPlansOK'
  BY <1>1, <1>2, FixConstants, <1>3, <1>4 DEF FixIInv, FixPlansOK, FixIds
<1>7. FixJobOK'
  BY <1>1, <1>2, FixConstants, <1>3, <1>4 DEF FixIInv, FixPlansOK, FixJobOK, IdleFix, Carrying, FixIds
<1>8. FixQueuesOK'
  BY <1>1, <1>2, FixConstants, <1>3, <1>4 DEF FixIInv, FixQueuesOK, Made, NoFixView, WithPlan, FixPhase, NoFix
<1>9. PlansAreShownOnce'
  BY <1>1, <1>2, FixConstants, <1>3, <1>4 DEF FixIInv, PlansAreShownOnce, FixJobOK, Carries, Carrying, IsFix, IdleFix, NoFixView, WithPlan, FixPhase, AskedMore, IsFix
<1>10. ShownIsKept'
  BY <1>1, <1>2, FixConstants, <1>3, <1>4, ComingPlans DEF FixIInv, FixPlansOK, ShownIsKept, WillShow, IsFix, FixOff, IdleFix, NoFixView, WithPlan, FixPhase, PlansAreShownOnce, AskedMore
<1>11. HeldIsNotReplaced'
  BY <1>1, <1>2, FixConstants, <1>3, <1>4 DEF FixIInv, HeldIsNotReplaced, FixJobOK, WillHold, IsFix, NoFixView, WithPlan, FixPhase, IdleFix
<1>12. StaleIsStale'
  BY <1>1, <1>2, FixConstants, <1>3, <1>4 DEF FixIInv, StaleIsStale, IsFix, NoFixView, WithPlan, FixPhase
<1>13. CheckingIsServed'
  BY <1>1, <1>2, FixConstants, <1>3, <1>4 DEF FixIInv, CheckingIsServed, FixJobOK, CheckRuns, NoFixView, WithPlan, FixPhase, IdleFix, AskedMore, IsFix
<1>14. ApplyingIsServed'
  BY <1>1, <1>2, FixConstants, <1>3, <1>4 DEF FixIInv, ApplyingIsServed, FixJobOK, Carries, Carrying, IsFix, FixOver, NoFixView, WithPlan, FixPhase, IdleFix, AskedMore, IsFix
<1>15. WritesHappenOnce'
  BY <1>1, <1>2, FixConstants, <1>3, <1>4 DEF FixIInv, WritesHappenOnce, FixJobOK, IdleFix
<1>16. ChecksAreCurrent'
  BY <1>1, <1>2, FixConstants, <1>3, <1>4 DEF FixIInv, ChecksAreCurrent, FixJobOK, CheckRuns, FixPlansOK, IdleFix
<1> QED BY <1>5, <1>6, <1>7, <1>8, <1>9, <1>10, <1>11, <1>12, <1>13, <1>14, <1>15, <1>16 DEF FixIInv

LEMMA HandleFixConfirmKeeps == ASSUME FixIInv, HandleFixConfirm PROVE FixIInv'
BY AnsweredWithError, UnknownPlan, StaleIsConfirmed, PlanIsConfirmed DEF HandleFixConfirm, fixWorld, fixHost

\* What carries a plan out is cancelled, or the plan is.
LEMMA HandleFixCancelKeeps ==
  ASSUME FixIInv, HandleFixCancel
  PROVE  FixIInv'
<1>1. /\ fixToHost # <<>> /\ fixToHost' = Tail(fixToHost) /\ Head(fixToHost).type = "cancel" /\ Head(fixToHost).id \in Fixes
      /\ \/ fixJob.kind \in Carrying /\ fixJob' = [fixJob EXCEPT !.aborted = TRUE] /\ fixStored' = fixStored
         \/ fixJob' = fixJob /\ fixStored' = IF fixStored = Head(fixToHost).id THEN NoFix ELSE fixStored
      /\ UNCHANGED <<fixView, fixStale, fixKind, fixToView, fixEdits, fixSeen, fixBasis, fixWritten, fixUnanswered>>
  BY Taking DEF FixIInv, HandleFixCancel, FixArrives, FixQueuesOK, HostFixMessages, Made, FixIds, Carrying, fixWorld
<1>2. PlansStay /\ FixQueuesOK /\ FixPlansOK
  BY <1>1 DEF FixIInv, FixPlansOK, PlansStay
<1>3. /\ fixToHost' \in Seq(HostFixMessages)' /\ AskedMore(fixToHost', fixToHost, Head(fixToHost))
      /\ Head(fixToHost) \in HostFixMessages
  BY <1>1, <1>2, HostTakes
<1>4. /\ fixToHost' = fixToHost => fixToHost' \in Seq(HostFixMessages)'
      /\ fixToView' = fixToView => fixToView' \in Seq(ViewFixMessages)'
  BY <1>2, QueuesStay
<1>5. FixViewOK'
  BY <1>1, <1>2, FixConstants, <1>3, <1>4 DEF FixIInv, FixViewOK, NoFixView, WithPlan, FixPhase, FixIds, NoFix, FixOutcomes
<1>6. FixPlansOK'
  BY <1>1, <1>2, FixConstants, <1>3, <1>4 DEF FixIInv, FixPlansOK, FixIds
<1>7. FixJobOK'
  BY <1>1, <1>2, FixConstants, <1>3, <1>4 DEF FixIInv, FixPlansOK, FixJobOK, IdleFix, Carrying, FixIds
<1>8. FixQueuesOK'
  BY <1>1, <1>2, FixConstants, <1>3, <1>4 DEF FixIInv, FixQueuesOK, Made, NoFixView, WithPlan, FixPhase, NoFix
<1>9. PlansAreShownOnce'
  BY <1>1, <1>2, FixConstants, <1>3, <1>4 DEF FixIInv, PlansAreShownOnce, FixJobOK, Carries, Carrying, IsFix, IdleFix, NoFixView, WithPlan, FixPhase, AskedMore, IsFix
<1>10. ShownIsKept'
  BY <1>1, <1>2, FixConstants, <1>3, <1>4, ComingPlans DEF FixIInv, FixPlansOK, ShownIsKept, WillShow, IsFix, FixOff, IdleFix, NoFixView, WithPlan, FixPhase, PlansAreShownOnce, AskedMore, Carrying
<1>11. HeldIsNotReplaced'
  BY <1>1, <1>2, FixConstants, <1>3, <1>4 DEF FixIInv, HeldIsNotReplaced, FixJobOK, WillHold, IsFix, NoFixView, WithPlan, FixPhase, IdleFix
<1>12. StaleIsStale'
  BY <1>1, <1>2, FixConstants, <1>3, <1>4 DEF FixIInv, StaleIsStale, IsFix, NoFixView, WithPlan, FixPhase
<1>13. CheckingIsServed'
  BY <1>1, <1>2, FixConstants, <1>3, <1>4 DEF FixIInv, CheckingIsServed, FixJobOK, CheckRuns, NoFixView, WithPlan, FixPhase, IdleFix, AskedMore, IsFix
<1>14. ApplyingIsServed'
  BY <1>1, <1>2, FixConstants, <1>3, <1>4 DEF FixIInv, ApplyingIsServed, FixJobOK, Carries, Carrying, IsFix, FixOver, NoFixView, WithPlan, FixPhase, IdleFix, AskedMore, IsFix
<1>15. WritesHappenOnce'
  BY <1>1, <1>2, FixConstants, <1>3, <1>4 DEF FixIInv, WritesHappenOnce, FixJobOK, IdleFix
<1>16. ChecksAreCurrent'
  BY <1>1, <1>2, FixConstants, <1>3, <1>4 DEF FixIInv, ChecksAreCurrent, FixJobOK, CheckRuns, FixPlansOK, IdleFix
<1> QED BY <1>5, <1>6, <1>7, <1>8, <1>9, <1>10, <1>11, <1>12, <1>13, <1>14, <1>15, <1>16 DEF FixIInv

\* The webview is ready: what it cannot know of is given up, unless files are written.
LEMMA HandleFixReadyKeeps ==
  ASSUME FixIInv, HandleFixReady
  PROVE  FixIInv'
<1>1. /\ fixToHost # <<>> /\ fixToHost' = Tail(fixToHost) /\ Head(fixToHost).type = "ready" /\ FixTells(<<FixSays("dashboard", NoFix)>>)
      /\ \/ fixJob.kind = "writing" /\ fixJob' = fixJob /\ fixStored' = fixStored
         \/ fixJob' = fixJob /\ fixJob = IdleFix /\ fixStored' = NoFix
         \/ fixJob.kind \in {"analysis", "rereading", "preparing"} /\ fixJob' = [fixJob EXCEPT !.aborted = TRUE] /\ fixStored' = NoFix
      /\ UNCHANGED <<fixView, fixStale, fixKind, fixEdits, fixSeen, fixBasis, fixWritten, fixUnanswered>>
  BY JobKinds DEF FixIInv, HandleFixReady, FixArrives, fixWorld
<1>2. PlansStay /\ FixQueuesOK /\ FixPlansOK
  BY <1>1 DEF FixIInv, FixPlansOK, PlansStay
<1> DEFINE m == [type |-> "dashboard", id |-> NoFix, outcome |-> "none"]
<1>3. m \in ViewFixMessages' /\ m.type = "dashboard" /\ m.id = NoFix /\ FixTells(<<m>>)
  BY <1>1, <1>2, SaysOK, FixConstants DEF FixIInv, FixSays, FixTypes, FixIds, FixOutcomes, Made
<1> HIDE DEF m
<1>4. fixToView' \in Seq(ViewFixMessages)' /\ ToldMore(fixToView, fixToView', m)
  BY <1>2, <1>3, HostTells
<1>5. /\ fixToHost' \in Seq(HostFixMessages)' /\ AskedMore(fixToHost', fixToHost, Head(fixToHost))
      /\ Head(fixToHost) \in HostFixMessages
  BY <1>1, <1>2, HostTakes
<1>6. FixViewOK'
  BY <1>1, <1>2, FixConstants, <1>3, <1>4, <1>5 DEF FixIInv, FixViewOK, NoFixView, WithPlan, FixPhase, FixIds, NoFix, FixOutcomes
<1>7. FixPlansOK'
  BY <1>1, <1>2, FixConstants, <1>3, <1>4, <1>5 DEF FixIInv, FixPlansOK, FixIds
<1>8. FixJobOK'
  BY <1>1, <1>2, FixConstants, <1>3, <1>4, <1>5 DEF FixIInv, FixPlansOK, FixJobOK, IdleFix, Carrying, FixIds
<1>9. FixQueuesOK'
  BY <1>1, <1>2, FixConstants, <1>3, <1>4, <1>5 DEF FixIInv, FixQueuesOK, Made, NoFixView, WithPlan, FixPhase, NoFix
<1>10. PlansAreShownOnce'
  BY <1>1, <1>2, FixConstants, <1>3, <1>4, <1>5 DEF FixIInv, PlansAreShownOnce, FixJobOK, Carries, Carrying, IsFix, IdleFix, NoFixView, WithPlan, FixPhase, ToldMore, AskedMore, IsFix
<1>11. ShownIsKept'
  BY <1>1, <1>2, FixConstants, <1>3, <1>4, <1>5 DEF FixIInv, FixPlansOK, ShownIsKept, WillShow, IsFix, FixOff, IdleFix, NoFixView, WithPlan, FixPhase, ToldMore
<1>12. HeldIsNotReplaced'
  BY <1>1, <1>2, FixConstants, <1>3, <1>4, <1>5 DEF FixIInv, HeldIsNotReplaced, FixJobOK, WillHold, IsFix, NoFixView, WithPlan, FixPhase, IdleFix, ToldMore
<1>13. StaleIsStale'
  BY <1>1, <1>2, FixConstants, <1>3, <1>4, <1>5 DEF FixIInv, StaleIsStale, IsFix, NoFixView, WithPlan, FixPhase, ToldMore
<1>14. CheckingIsServed'
  BY <1>1, <1>2, FixConstants, <1>3, <1>4, <1>5 DEF FixIInv, CheckingIsServed, FixJobOK, CheckRuns, NoFixView, WithPlan, FixPhase, IdleFix, ToldMore, AskedMore, IsFix
<1>15. ApplyingIsServed'
  BY <1>1, <1>2, FixConstants, <1>3, <1>4, <1>5 DEF FixIInv, ApplyingIsServed, FixJobOK, Carries, Carrying, IsFix, FixOver, NoFixView, WithPlan, FixPhase, IdleFix, ToldMore, AskedMore, IsFix
<1>16. WritesHappenOnce'
  BY <1>1, <1>2, FixConstants, <1>3, <1>4, <1>5 DEF FixIInv, WritesHappenOnce, FixJobOK, IdleFix
<1>17. ChecksAreCurrent'
  BY <1>1, <1>2, FixConstants, <1>3, <1>4, <1>5 DEF FixIInv, ChecksAreCurrent, FixJobOK, CheckRuns, FixPlansOK, IdleFix
<1> QED BY <1>6, <1>7, <1>8, <1>9, <1>10, <1>11, <1>12, <1>13, <1>14, <1>15, <1>16, <1>17 DEF FixIInv

\* Nothing is written: the project is not the one the plan was made from, or nothing can be prepared.
LEMMA FixRefusedKeeps ==
  ASSUME FixIInv, NEW t \in {"stale", "error"}, FixRefused(t)
  PROVE  FixIInv'
<1>1. /\ fixJob.kind \in {"rereading", "preparing"} /\ fixJob.id \in Fixes /\ fixKind[fixJob.id] = "actionable"
      /\ fixStale' = (fixStale \/ t = "stale") /\ FixTells(<<FixSays(t, fixJob.id)>>)
      /\ fixJob' = IdleFix /\ fixStored' = NoFix /\ fixStored \in {NoFix, fixJob.id}
      /\ UNCHANGED <<fixView, fixKind, fixToHost, fixEdits, fixSeen, fixBasis, fixWritten, fixUnanswered>>
  BY DEF FixIInv, FixRefused, EndFix, FixJobOK, Carrying, NoFix
<1>2. PlansStay /\ FixQueuesOK /\ FixPlansOK
  BY <1>1 DEF FixIInv, FixPlansOK, PlansStay
<1> DEFINE m == [type |-> t, id |-> fixJob.id, outcome |-> "none"]
<1>3. m \in ViewFixMessages' /\ m.type = t /\ m.id = fixJob.id /\ FixTells(<<m>>)
  BY <1>1, <1>2, SaysOK, FixConstants DEF FixIInv, FixSays, FixTypes, FixIds, FixOutcomes, Made
<1> HIDE DEF m
<1>4. fixToView' \in Seq(ViewFixMessages)' /\ ToldMore(fixToView, fixToView', m)
  BY <1>2, <1>3, HostTells
<1>5. /\ fixToHost' = fixToHost => fixToHost' \in Seq(HostFixMessages)'
      /\ fixToView' = fixToView => fixToView' \in Seq(ViewFixMessages)'
  BY <1>2, QueuesStay
<1>6. FixViewOK'
  BY <1>1, <1>2, FixConstants, <1>3, <1>4, <1>5 DEF FixIInv, FixViewOK, NoFixView, WithPlan, FixPhase, FixIds, NoFix, FixOutcomes
<1>7. FixPlansOK'
  BY <1>1, <1>2, FixConstants, <1>3, <1>4, <1>5 DEF FixIInv, FixPlansOK, FixIds
<1>8. FixJobOK'
  BY <1>1, <1>2, FixConstants, <1>3, <1>4, <1>5 DEF FixIInv, FixPlansOK, FixJobOK, IdleFix, Carrying, FixIds
<1>9. FixQueuesOK'
  BY <1>1, <1>2, FixConstants, <1>3, <1>4, <1>5 DEF FixIInv, FixQueuesOK, Made, NoFixView, WithPlan, FixPhase, NoFix
<1>10. PlansAreShownOnce'
  BY <1>1, <1>2, FixConstants, <1>3, <1>4, <1>5 DEF FixIInv, PlansAreShownOnce, FixJobOK, Carries, Carrying, IsFix, IdleFix, NoFixView, WithPlan, FixPhase, ToldMore
<1>11. ShownIsKept'
  BY <1>1, <1>2, FixConstants, <1>3, <1>4, <1>5 DEF FixIInv, FixPlansOK, ShownIsKept, WillShow, IsFix, FixOff, IdleFix, NoFixView, WithPlan, FixPhase, ToldMore
<1>12. HeldIsNotReplaced'
  BY <1>1, <1>2, FixConstants, <1>3, <1>4, <1>5 DEF FixIInv, HeldIsNotReplaced, FixJobOK, WillHold, IsFix, NoFixView, WithPlan, FixPhase, IdleFix, ToldMore
<1>13. StaleIsStale'
  BY <1>1, <1>2, FixConstants, <1>3, <1>4, <1>5 DEF FixIInv, StaleIsStale, IsFix, NoFixView, WithPlan, FixPhase, ToldMore
<1>14. CheckingIsServed'
  BY <1>1, <1>2, FixConstants, <1>3, <1>4, <1>5 DEF FixIInv, CheckingIsServed, FixJobOK, CheckRuns, NoFixView, WithPlan, FixPhase, IdleFix, ToldMore
<1>15. ApplyingIsServed'
  BY <1>1, <1>2, FixConstants, <1>3, <1>4, <1>5 DEF FixIInv, ApplyingIsServed, FixJobOK, Carries, Carrying, IsFix, FixOver, NoFixView, WithPlan, FixPhase, IdleFix, ToldMore
<1>16. WritesHappenOnce'
  BY <1>1, <1>2, FixConstants, <1>3, <1>4, <1>5 DEF FixIInv, WritesHappenOnce, FixJobOK, IdleFix
<1>17. ChecksAreCurrent'
  BY <1>1, <1>2, FixConstants, <1>3, <1>4, <1>5 DEF FixIInv, ChecksAreCurrent, FixJobOK, CheckRuns, FixPlansOK, IdleFix
<1> QED BY <1>6, <1>7, <1>8, <1>9, <1>10, <1>11, <1>12, <1>13, <1>14, <1>15, <1>16, <1>17 DEF FixIInv

\* Reading fails after a cancellation.
LEMMA FixForgottenKeeps ==
  ASSUME FixIInv, FixForgotten
  PROVE  FixIInv'
<1>1. /\ fixJob.kind \in {"rereading", "preparing"} /\ fixJob.id \in Fixes /\ fixKind[fixJob.id] = "actionable"
      /\ fixUnanswered' = TRUE
      /\ fixJob' = IdleFix /\ fixStored' = NoFix /\ fixStored \in {NoFix, fixJob.id}
      /\ UNCHANGED <<fixView, fixStale, fixKind, fixToHost, fixToView, fixEdits, fixSeen, fixBasis, fixWritten>>
  BY DEF FixIInv, FixForgotten, EndFix, FixJobOK, Carrying, NoFix
<1>2. PlansStay /\ FixQueuesOK /\ FixPlansOK
  BY <1>1 DEF FixIInv, FixPlansOK, PlansStay
<1>3. /\ fixToHost' = fixToHost => fixToHost' \in Seq(HostFixMessages)'
      /\ fixToView' = fixToView => fixToView' \in Seq(ViewFixMessages)'
  BY <1>2, QueuesStay
<1>4. FixViewOK'
  BY <1>1, <1>2, FixConstants, <1>3 DEF FixIInv, FixViewOK, NoFixView, WithPlan, FixPhase, FixIds, NoFix, FixOutcomes
<1>5. FixPlansOK'
  BY <1>1, <1>2, FixConstants, <1>3 DEF FixIInv, FixPlansOK, FixIds
<1>6. FixJobOK'
  BY <1>1, <1>2, FixConstants, <1>3 DEF FixIInv, FixPlansOK, FixJobOK, IdleFix, Carrying, FixIds
<1>7. FixQueuesOK'
  BY <1>1, <1>2, FixConstants, <1>3 DEF FixIInv, FixQueuesOK, Made, NoFixView, WithPlan, FixPhase, NoFix
<1>8. PlansAreShownOnce'
  BY <1>1, <1>2, FixConstants, <1>3 DEF FixIInv, PlansAreShownOnce, FixJobOK, Carries, Carrying, IsFix, IdleFix, NoFixView, WithPlan, FixPhase
<1>9. ShownIsKept'
  BY <1>1, <1>2, FixConstants, <1>3 DEF FixIInv, FixPlansOK, ShownIsKept, WillShow, IsFix, FixOff, IdleFix, NoFixView, WithPlan, FixPhase
<1>10. HeldIsNotReplaced'
  BY <1>1, <1>2, FixConstants, <1>3 DEF FixIInv, HeldIsNotReplaced, FixJobOK, WillHold, IsFix, NoFixView, WithPlan, FixPhase, IdleFix
<1>11. StaleIsStale'
  BY <1>1, <1>2, FixConstants, <1>3 DEF FixIInv, StaleIsStale, IsFix, NoFixView, WithPlan, FixPhase
<1>12. CheckingIsServed'
  BY <1>1, <1>2, FixConstants, <1>3 DEF FixIInv, CheckingIsServed, FixJobOK, CheckRuns, NoFixView, WithPlan, FixPhase, IdleFix
<1>13. ApplyingIsServed'
  BY <1>1, <1>2, FixConstants, <1>3 DEF FixIInv, ApplyingIsServed, FixJobOK, Carries, Carrying, IsFix, FixOver, NoFixView, WithPlan, FixPhase, IdleFix
<1>14. WritesHappenOnce'
  BY <1>1, <1>2, FixConstants, <1>3 DEF FixIInv, WritesHappenOnce, FixJobOK, IdleFix
<1>15. ChecksAreCurrent'
  BY <1>1, <1>2, FixConstants, <1>3 DEF FixIInv, ChecksAreCurrent, FixJobOK, CheckRuns, FixPlansOK, IdleFix
<1> QED BY <1>4, <1>5, <1>6, <1>7, <1>8, <1>9, <1>10, <1>11, <1>12, <1>13, <1>14, <1>15 DEF FixIInv

\* A cancellation comes in time.
LEMMA FixCancelledKeeps ==
  ASSUME FixIInv, FixCancelled
  PROVE  FixIInv'
<1>1. /\ fixJob.kind = "preparing" /\ fixJob.id \in Fixes /\ fixKind[fixJob.id] = "actionable"
      /\ FixTells(<<[FixSays("result", fixJob.id) EXCEPT !.outcome = "cancelled"]>>)
      /\ fixJob' = IdleFix /\ fixStored' = NoFix /\ fixStored \in {NoFix, fixJob.id}
      /\ UNCHANGED <<fixView, fixStale, fixKind, fixToHost, fixEdits, fixSeen, fixBasis, fixWritten, fixUnanswered>>
  BY DEF FixIInv, FixCancelled, EndFix, FixJobOK, Carrying, NoFix
<1>2. PlansStay /\ FixQueuesOK /\ FixPlansOK
  BY <1>1 DEF FixIInv, FixPlansOK, PlansStay
<1> DEFINE m == [type |-> "result", id |-> fixJob.id, outcome |-> "cancelled"]
<1>3. m \in ViewFixMessages' /\ m.type = "result" /\ m.id = fixJob.id /\ FixTells(<<m>>)
  BY <1>1, <1>2, SaysOK, FixConstants DEF FixIInv, FixSays, FixTypes, FixIds, FixOutcomes, Made
<1> HIDE DEF m
<1>4. fixToView' \in Seq(ViewFixMessages)' /\ ToldMore(fixToView, fixToView', m)
  BY <1>2, <1>3, HostTells
<1>5. /\ fixToHost' = fixToHost => fixToHost' \in Seq(HostFixMessages)'
      /\ fixToView' = fixToView => fixToView' \in Seq(ViewFixMessages)'
  BY <1>2, QueuesStay
<1>6. FixViewOK'
  BY <1>1, <1>2, FixConstants, <1>3, <1>4, <1>5 DEF FixIInv, FixViewOK, NoFixView, WithPlan, FixPhase, FixIds, NoFix, FixOutcomes
<1>7. FixPlansOK'
  BY <1>1, <1>2, FixConstants, <1>3, <1>4, <1>5 DEF FixIInv, FixPlansOK, FixIds
<1>8. FixJobOK'
  BY <1>1, <1>2, FixConstants, <1>3, <1>4, <1>5 DEF FixIInv, FixPlansOK, FixJobOK, IdleFix, Carrying, FixIds
<1>9. FixQueuesOK'
  BY <1>1, <1>2, FixConstants, <1>3, <1>4, <1>5 DEF FixIInv, FixQueuesOK, Made, NoFixView, WithPlan, FixPhase, NoFix
<1>10. PlansAreShownOnce'
  BY <1>1, <1>2, FixConstants, <1>3, <1>4, <1>5 DEF FixIInv, PlansAreShownOnce, FixJobOK, Carries, Carrying, IsFix, IdleFix, NoFixView, WithPlan, FixPhase, ToldMore
<1>11. ShownIsKept'
  BY <1>1, <1>2, FixConstants, <1>3, <1>4, <1>5 DEF FixIInv, FixPlansOK, ShownIsKept, WillShow, IsFix, FixOff, IdleFix, NoFixView, WithPlan, FixPhase, ToldMore
<1>12. HeldIsNotReplaced'
  BY <1>1, <1>2, FixConstants, <1>3, <1>4, <1>5 DEF FixIInv, HeldIsNotReplaced, FixJobOK, WillHold, IsFix, NoFixView, WithPlan, FixPhase, IdleFix, ToldMore
<1>13. StaleIsStale'
  BY <1>1, <1>2, FixConstants, <1>3, <1>4, <1>5 DEF FixIInv, StaleIsStale, IsFix, NoFixView, WithPlan, FixPhase, ToldMore
<1>14. CheckingIsServed'
  BY <1>1, <1>2, FixConstants, <1>3, <1>4, <1>5 DEF FixIInv, CheckingIsServed, FixJobOK, CheckRuns, NoFixView, WithPlan, FixPhase, IdleFix, ToldMore
<1>15. ApplyingIsServed'
  BY <1>1, <1>2, FixConstants, <1>3, <1>4, <1>5 DEF FixIInv, ApplyingIsServed, FixJobOK, Carries, Carrying, IsFix, FixOver, NoFixView, WithPlan, FixPhase, IdleFix, ToldMore
<1>16. WritesHappenOnce'
  BY <1>1, <1>2, FixConstants, <1>3, <1>4, <1>5 DEF FixIInv, WritesHappenOnce, FixJobOK, IdleFix
<1>17. ChecksAreCurrent'
  BY <1>1, <1>2, FixConstants, <1>3, <1>4, <1>5 DEF FixIInv, ChecksAreCurrent, FixJobOK, CheckRuns, FixPlansOK, IdleFix
<1> QED BY <1>6, <1>7, <1>8, <1>9, <1>10, <1>11, <1>12, <1>13, <1>14, <1>15, <1>16, <1>17 DEF FixIInv

\* One more plan was written.
LEMMA WritingMore ==
  ASSUME NEW S, NEW s \in Seq(S), NEW g \in S
  PROVE  /\ Append(s, g) \in Seq(S)
         /\ \A X : /\ Some(Append(s, g), X) <=> Some(s, X) \/ g \in X
                   /\ Repeats(Append(s, g), X) <=> Repeats(s, X) \/ (Some(s, X) /\ g \in X)
<1>1. Append(s, g) = s \o <<g>>
  BY Joining
<1> QED BY <1>1, Joining

\* Files are written.
LEMMA FixBeginsKeeps ==
  ASSUME FixIInv, FixBegins, NEW g, g = fixJob.id
  PROVE  FixIInv'
<1>1. /\ fixJob.kind = "preparing" /\ g = fixJob.id /\ g \in Fixes /\ fixKind[g] = "actionable"
      /\ fixJob' = [fixJob EXCEPT !.kind = "writing", !.basis = fixEdits] /\ FixTells(<<FixSays("applying", g)>>)
      /\ fixWritten' = Append(fixWritten, g) /\ fixWritten \in Seq(Fixes)
      /\ UNCHANGED <<fixView, fixStored, fixStale, fixKind, fixToHost, fixEdits, fixSeen, fixBasis, fixUnanswered>>
  BY DEF FixIInv, FixBegins, FixPlansOK, EndFix, FixJobOK, Carrying, NoFix
<1>2. PlansStay /\ FixQueuesOK /\ FixPlansOK
  BY <1>1 DEF FixIInv, FixPlansOK, PlansStay
<1> DEFINE m == [type |-> "applying", id |-> g, outcome |-> "none"]
<1>3. m \in ViewFixMessages' /\ m.type = "applying" /\ m.id = g /\ FixTells(<<m>>)
  BY <1>1, <1>2, SaysOK, FixConstants DEF FixIInv, FixSays, FixTypes, FixIds, FixOutcomes, Made
<1> HIDE DEF m
<1>4. fixToView' \in Seq(ViewFixMessages)' /\ ToldMore(fixToView, fixToView', m)
  BY <1>2, <1>3, HostTells
<1>5. /\ fixToHost' = fixToHost => fixToHost' \in Seq(HostFixMessages)'
      /\ fixToView' = fixToView => fixToView' \in Seq(ViewFixMessages)'
  BY <1>2, QueuesStay
<1>6. /\ fixWritten' \in Seq(Fixes)
      /\ \A X : /\ Some(fixWritten', X) <=> Some(fixWritten, X) \/ g \in X
                /\ Repeats(fixWritten', X) <=> Repeats(fixWritten, X) \/ (Some(fixWritten, X) /\ g \in X)
  BY <1>1, <1>2, FixConstants, <1>3, <1>4, <1>5, WritingMore
<1>7. FixViewOK'
  BY <1>1, <1>2, FixConstants, <1>3, <1>4, <1>5, <1>6 DEF FixIInv, FixViewOK, NoFixView, WithPlan, FixPhase, FixIds, NoFix, FixOutcomes
<1>8. FixPlansOK'
  BY <1>1, <1>2, FixConstants, <1>3, <1>4, <1>5, <1>6 DEF FixIInv, FixPlansOK, FixIds
<1>9. FixJobOK'
  BY <1>1, <1>2, FixConstants, <1>3, <1>4, <1>5, <1>6 DEF FixIInv, FixPlansOK, FixJobOK, IdleFix, Carrying, FixIds
<1>10. FixQueuesOK'
  BY <1>1, <1>2, FixConstants, <1>3, <1>4, <1>5, <1>6 DEF FixIInv, FixQueuesOK, Made, NoFixView, WithPlan, FixPhase, NoFix
<1>11. PlansAreShownOnce'
  BY <1>1, <1>2, FixConstants, <1>3, <1>4, <1>5, <1>6 DEF FixIInv, PlansAreShownOnce, FixJobOK, Carries, Carrying, IsFix, IdleFix, NoFixView, WithPlan, FixPhase, ToldMore
<1>12. ShownIsKept'
  BY <1>1, <1>2, FixConstants, <1>3, <1>4, <1>5, <1>6 DEF FixIInv, FixPlansOK, ShownIsKept, WillShow, IsFix, FixOff, IdleFix, NoFixView, WithPlan, FixPhase, ToldMore
<1>13. HeldIsNotReplaced'
  BY <1>1, <1>2, FixConstants, <1>3, <1>4, <1>5, <1>6 DEF FixIInv, HeldIsNotReplaced, FixJobOK, WillHold, IsFix, NoFixView, WithPlan, FixPhase, IdleFix, ToldMore
<1>14. StaleIsStale'
  BY <1>1, <1>2, FixConstants, <1>3, <1>4, <1>5, <1>6 DEF FixIInv, StaleIsStale, IsFix, NoFixView, WithPlan, FixPhase, ToldMore
<1>15. CheckingIsServed'
  BY <1>1, <1>2, FixConstants, <1>3, <1>4, <1>5, <1>6 DEF FixIInv, CheckingIsServed, FixJobOK, CheckRuns, NoFixView, WithPlan, FixPhase, IdleFix, ToldMore
<1>16. ApplyingIsServed'
  BY <1>1, <1>2, FixConstants, <1>3, <1>4, <1>5, <1>6 DEF FixIInv, ApplyingIsServed, FixJobOK, Carries, Carrying, IsFix, FixOver, NoFixView, WithPlan, FixPhase, IdleFix, ToldMore
<1>17. WritesHappenOnce'
  BY <1>1, <1>2, FixConstants, <1>3, <1>4, <1>5, <1>6 DEF FixIInv, WritesHappenOnce, FixJobOK, IdleFix
<1>18. ChecksAreCurrent'
  BY <1>1, <1>2, FixConstants, <1>3, <1>4, <1>5, <1>6 DEF FixIInv, ChecksAreCurrent, FixJobOK, CheckRuns, FixPlansOK, IdleFix
<1> QED BY <1>7, <1>8, <1>9, <1>10, <1>11, <1>12, <1>13, <1>14, <1>15, <1>16, <1>17, <1>18 DEF FixIInv

\* The transaction has come to its end.
LEMMA FixEndsKeeps ==
  ASSUME FixIInv, NEW t \in {"result", "error", "stale"}, NEW o \in FixOutcomes, FixEnds(t, o)
  PROVE  FixIInv'
<1>1. /\ fixJob.kind = "writing" /\ fixJob.id \in Fixes /\ fixKind[fixJob.id] = "actionable"
      /\ FixTells(<<[FixSays(t, fixJob.id) EXCEPT !.outcome = o]>>)
      /\ fixJob' = IdleFix /\ fixStored' = NoFix /\ fixStored \in {NoFix, fixJob.id}
      /\ UNCHANGED <<fixView, fixStale, fixKind, fixToHost, fixEdits, fixSeen, fixBasis, fixWritten, fixUnanswered>>
  BY DEF FixIInv, FixEnds, EndFix, FixJobOK, Carrying, NoFix
<1>2. PlansStay /\ FixQueuesOK /\ FixPlansOK
  BY <1>1 DEF FixIInv, FixPlansOK, PlansStay
<1> DEFINE m == [type |-> t, id |-> fixJob.id, outcome |-> o]
<1>3. m \in ViewFixMessages' /\ m.type = t /\ m.id = fixJob.id /\ FixTells(<<m>>)
  BY <1>1, <1>2, SaysOK, FixConstants DEF FixIInv, FixSays, FixTypes, FixIds, FixOutcomes, Made
<1> HIDE DEF m
<1>4. fixToView' \in Seq(ViewFixMessages)' /\ ToldMore(fixToView, fixToView', m)
  BY <1>2, <1>3, HostTells
<1>5. /\ fixToHost' = fixToHost => fixToHost' \in Seq(HostFixMessages)'
      /\ fixToView' = fixToView => fixToView' \in Seq(ViewFixMessages)'
  BY <1>2, QueuesStay
<1>6. FixViewOK'
  BY <1>1, <1>2, FixConstants, <1>3, <1>4, <1>5 DEF FixIInv, FixViewOK, NoFixView, WithPlan, FixPhase, FixIds, NoFix, FixOutcomes
<1>7. FixPlansOK'
  BY <1>1, <1>2, FixConstants, <1>3, <1>4, <1>5 DEF FixIInv, FixPlansOK, FixIds
<1>8. FixJobOK'
  BY <1>1, <1>2, FixConstants, <1>3, <1>4, <1>5 DEF FixIInv, FixPlansOK, FixJobOK, IdleFix, Carrying, FixIds
<1>9. FixQueuesOK'
  BY <1>1, <1>2, FixConstants, <1>3, <1>4, <1>5 DEF FixIInv, FixQueuesOK, Made, NoFixView, WithPlan, FixPhase, NoFix
<1>10. PlansAreShownOnce'
  BY <1>1, <1>2, FixConstants, <1>3, <1>4, <1>5 DEF FixIInv, PlansAreShownOnce, FixJobOK, Carries, Carrying, IsFix, IdleFix, NoFixView, WithPlan, FixPhase, ToldMore
<1>11. ShownIsKept'
  BY <1>1, <1>2, FixConstants, <1>3, <1>4, <1>5 DEF FixIInv, FixPlansOK, ShownIsKept, WillShow, IsFix, FixOff, IdleFix, NoFixView, WithPlan, FixPhase, ToldMore
<1>12. HeldIsNotReplaced'
  BY <1>1, <1>2, FixConstants, <1>3, <1>4, <1>5 DEF FixIInv, HeldIsNotReplaced, FixJobOK, WillHold, IsFix, NoFixView, WithPlan, FixPhase, IdleFix, ToldMore
<1>13. StaleIsStale'
  BY <1>1, <1>2, FixConstants, <1>3, <1>4, <1>5 DEF FixIInv, StaleIsStale, IsFix, NoFixView, WithPlan, FixPhase, ToldMore
<1>14. CheckingIsServed'
  BY <1>1, <1>2, FixConstants, <1>3, <1>4, <1>5 DEF FixIInv, CheckingIsServed, FixJobOK, CheckRuns, NoFixView, WithPlan, FixPhase, IdleFix, ToldMore
<1>15. ApplyingIsServed'
  BY <1>1, <1>2, FixConstants, <1>3, <1>4, <1>5 DEF FixIInv, ApplyingIsServed, FixJobOK, Carries, Carrying, IsFix, FixOver, NoFixView, WithPlan, FixPhase, IdleFix, ToldMore
<1>16. WritesHappenOnce'
  BY <1>1, <1>2, FixConstants, <1>3, <1>4, <1>5 DEF FixIInv, WritesHappenOnce, FixJobOK, IdleFix
<1>17. ChecksAreCurrent'
  BY <1>1, <1>2, FixConstants, <1>3, <1>4, <1>5 DEF FixIInv, ChecksAreCurrent, FixJobOK, CheckRuns, FixPlansOK, IdleFix
<1> QED BY <1>6, <1>7, <1>8, <1>9, <1>10, <1>11, <1>12, <1>13, <1>14, <1>15, <1>16, <1>17 DEF FixIInv

\* Nothing is said or asked of a plan that was not made.
LEMMA UnmadeIsUnknown ==
  ASSUME FixQueuesOK, NEW f \in Fixes, fixKind[f] = "none"
  PROVE  /\ ~PlanComes(fixToView, f) /\ ~StaleComes(fixToView, f) /\ ~AnswerWaits(fixToHost, f)
         /\ fixView.id # f /\ fixStored # f
<1>1. \A i \in 1 .. Len(fixToView) : fixToView[i] \in ViewFixMessages
  BY DEF FixQueuesOK
<1>2. \A i \in 1 .. Len(fixToHost) : fixToHost[i] \in HostFixMessages
  BY DEF FixQueuesOK
<1>3. /\ \A m \in ViewFixMessages : m.id # f
      /\ \A m \in HostFixMessages : m.id # f
  BY FixConstants DEF ViewFixMessages, HostFixMessages, Made
<1>4. ~PlanComes(fixToView, f) /\ ~StaleComes(fixToView, f)
  BY <1>1, <1>3 DEF PlanComes, StaleComes, Some, SaysOf
<1>5. ~AnswerWaits(fixToHost, f)
  BY <1>2, <1>3 DEF AnswerWaits, Some, AsksOf
<1> QED BY <1>4, <1>5, FixConstants DEF FixQueuesOK, Made

\* A check ends with a plan.
LEMMA FixCheckEndsKeeps ==
  ASSUME FixIInv, NEW k \in {"actionable", "blocked", "unshown"}, FixCheckEnds(k), NEW g \in Fixes,
         fixKind[g] = "none", fixKind' = [fixKind EXCEPT ![g] = k], fixBasis' = [fixBasis EXCEPT ![g] = fixJob.basis],
         fixStored' = g, FixTells(<<FixSays("plan", g)>>)
  PROVE  FixIInv'
<1>1. /\ fixJob.kind = "analysis" /\ ~fixJob.aborted /\ fixJob.basis # Unread /\ fixJob' = IdleFix
      /\ fixKind' = [fixKind EXCEPT ![g] = k] /\ fixKind[g] = "none" /\ fixKind \in [Fixes -> {"none", "actionable", "blocked", "unshown"}]
      /\ fixBasis' = [fixBasis EXCEPT ![g] = fixJob.basis]
      /\ fixStored' = g /\ fixStale' = FALSE /\ FixTells(<<FixSays("plan", g)>>)
      /\ UNCHANGED <<fixView, fixToHost, fixEdits, fixSeen, fixWritten, fixUnanswered>>
  BY DEF FixIInv, FixCheckEnds, FixPublished, FixPlansOK, fixWorld
<1>2. PlansStay /\ FixQueuesOK /\ FixPlansOK
  BY <1>1 DEF FixIInv, FixPlansOK, PlansStay
<1> DEFINE m == [type |-> "plan", id |-> g, outcome |-> "none"]
<1>3. m \in ViewFixMessages' /\ m.type = "plan" /\ m.id = g /\ FixTells(<<m>>)
  BY <1>1, <1>2, SaysOK, FixConstants DEF FixIInv, FixSays, FixTypes, FixIds, FixOutcomes, Made
<1> HIDE DEF m
<1>4. fixToView' \in Seq(ViewFixMessages)' /\ ToldMore(fixToView, fixToView', m)
  BY <1>2, <1>3, HostTells
<1>5. /\ fixToHost' = fixToHost => fixToHost' \in Seq(HostFixMessages)'
      /\ fixToView' = fixToView => fixToView' \in Seq(ViewFixMessages)'
  BY <1>2, QueuesStay
<1>6. /\ ~PlanComes(fixToView, g) /\ ~StaleComes(fixToView, g) /\ ~AnswerWaits(fixToHost, g)
      /\ fixView.id # g /\ fixStored # g /\ \A f \in Fixes : f # g => fixKind'[f] = fixKind[f] /\ fixBasis'[f] = fixBasis[f]
      /\ fixKind'[g] = k /\ fixBasis'[g] = fixJob.basis
      /\ fixKind' \in [Fixes -> {"none", "actionable", "blocked", "unshown"}] /\ fixBasis' \in [Fixes -> Nat]
  BY <1>1, <1>2, FixConstants, <1>3, <1>4, <1>5, UnmadeIsUnknown DEF FixIInv, FixPlansOK, FixJobOK
<1>7. FixViewOK'
  BY <1>1, <1>2, FixConstants, <1>3, <1>4, <1>5, <1>6 DEF FixIInv, FixViewOK, NoFixView, WithPlan, FixPhase, FixIds, NoFix, FixOutcomes
<1>8. FixPlansOK'
  BY <1>1, <1>2, FixConstants, <1>3, <1>4, <1>5, <1>6 DEF FixIInv, FixPlansOK, FixIds, FixJobOK
<1>9. FixJobOK'
  BY <1>1, <1>2, FixConstants, <1>3, <1>4, <1>5, <1>6 DEF FixIInv, FixPlansOK, FixJobOK, IdleFix, Carrying, FixIds
<1>10. FixQueuesOK'
  BY <1>1, <1>2, FixConstants, <1>3, <1>4, <1>5, <1>6 DEF FixIInv, FixQueuesOK, Made, NoFixView, WithPlan, FixPhase, NoFix
<1>11. PlansAreShownOnce'
  BY <1>1, <1>2, FixConstants, <1>3, <1>4, <1>5, <1>6 DEF FixIInv, PlansAreShownOnce, FixJobOK, Carries, Carrying, IsFix, IdleFix, NoFixView, WithPlan, FixPhase, ToldMore
<1>12. ShownIsKept'
  BY <1>1, <1>2, FixConstants, <1>3, <1>4, <1>5, <1>6 DEF FixIInv, FixPlansOK, ShownIsKept, WillShow, IsFix, FixOff, IdleFix, NoFixView, WithPlan, FixPhase, ToldMore, ChecksAreCurrent, CheckRuns
<1>13. HeldIsNotReplaced'
  BY <1>1, <1>2, FixConstants, <1>3, <1>4, <1>5, <1>6 DEF FixIInv, HeldIsNotReplaced, FixJobOK, WillHold, IsFix, NoFixView, WithPlan, FixPhase, IdleFix, ToldMore
<1>14. StaleIsStale'
  BY <1>1, <1>2, FixConstants, <1>3, <1>4, <1>5, <1>6 DEF FixIInv, StaleIsStale, IsFix, NoFixView, WithPlan, FixPhase, ToldMore
<1>15. CheckingIsServed'
  BY <1>1, <1>2, FixConstants, <1>3, <1>4, <1>5, <1>6 DEF FixIInv, CheckingIsServed, FixJobOK, CheckRuns, NoFixView, WithPlan, FixPhase, IdleFix, ToldMore
<1>16. ApplyingIsServed'
  BY <1>1, <1>2, FixConstants, <1>3, <1>4, <1>5, <1>6 DEF FixIInv, ApplyingIsServed, FixJobOK, Carries, Carrying, IsFix, FixOver, NoFixView, WithPlan, FixPhase, IdleFix, ToldMore
<1>17. WritesHappenOnce'
  BY <1>1, <1>2, FixConstants, <1>3, <1>4, <1>5, <1>6 DEF FixIInv, WritesHappenOnce, FixJobOK, IdleFix
<1>18. ChecksAreCurrent'
  BY <1>1, <1>2, FixConstants, <1>3, <1>4, <1>5, <1>6 DEF FixIInv, ChecksAreCurrent, FixJobOK, CheckRuns, FixPlansOK, IdleFix
<1> QED BY <1>7, <1>8, <1>9, <1>10, <1>11, <1>12, <1>13, <1>14, <1>15, <1>16, <1>17, <1>18 DEF FixIInv

LEMMA FixChecksKeep == ASSUME FixIInv, NEW k \in {"actionable", "blocked", "unshown"}, FixCheckEnds(k) PROVE FixIInv'
<1>1. PICK g \in Fixes : /\ fixKind[g] = "none" /\ fixKind' = [fixKind EXCEPT ![g] = k]
                         /\ fixBasis' = [fixBasis EXCEPT ![g] = fixJob.basis]
                         /\ fixStored' = g /\ FixTells(<<FixSays("plan", g)>>)
  BY DEF FixCheckEnds, FixPublished
<1> QED BY <1>1, FixCheckEndsKeeps

\* What a change of the files brings about: a check is refused, a kept plan becomes stale.
LEMMA FilesChange ==
  ASSUME FixIInv, DependencyFilesChange
  PROVE  LET checking == fixJob.kind = "analysis" /\ fixJob.named
             stales == fixJob.kind # "writing" /\ fixStored # NoFix /\ ~fixStale
         IN /\ fixSeen' = fixEdits
            /\ fixJob' = IF checking THEN [fixJob EXCEPT !.aborted = TRUE, !.named = FALSE] ELSE fixJob
            /\ fixStale' = (fixStale \/ stales)
            /\ checking /\ stales =>
                 fixToView' = (fixToView \o <<FixSays("error", NoFix)>>) \o <<FixSays("stale", fixStored)>>
            /\ checking /\ ~stales => fixToView' = fixToView \o <<FixSays("error", NoFix)>>
            /\ ~checking /\ stales => fixToView' = fixToView \o <<FixSays("stale", fixStored)>>
            /\ ~checking /\ ~stales => fixToView' = fixToView
<1> DEFINE a == FixSays("error", NoFix)  b == FixSays("stale", fixStored)
           checking == fixJob.kind = "analysis" /\ fixJob.named
           stales == fixJob.kind # "writing" /\ fixStored # NoFix /\ ~fixStale
<1>1. fixToView' = fixToView \o ((IF checking THEN <<a>> ELSE <<>>) \o (IF stales THEN <<b>> ELSE <<>>))
  BY DEF DependencyFilesChange, FixTells
<1>2. /\ fixSeen' = fixEdits
      /\ fixJob' = IF checking THEN [fixJob EXCEPT !.aborted = TRUE, !.named = FALSE] ELSE fixJob
      /\ fixStale' = (fixStale \/ stales)
  BY DEF DependencyFilesChange
<1> HIDE DEF a, b
<1>3. fixToView \in Seq(ViewFixMessages \cup {a, b})
  BY SeqMonotonic DEF FixIInv, FixQueuesOK
<1>4. <<a>> \in Seq(ViewFixMessages \cup {a, b}) /\ <<b>> \in Seq(ViewFixMessages \cup {a, b})
  OBVIOUS
<1> HIDE DEF checking, stales
<1>5. /\ <<a>> \o <<>> = <<a>> /\ <<>> \o <<b>> = <<b>> /\ <<>> \o <<>> = <<>> /\ fixToView \o <<>> = fixToView
      /\ fixToView \o (<<a>> \o <<b>>) = (fixToView \o <<a>>) \o <<b>>
  BY <1>3, <1>4, EmptySeq, ConcatEmptySeq, ConcatAssociative
<1>6. /\ checking /\ stales => fixToView' = (fixToView \o <<a>>) \o <<b>>
      /\ checking /\ ~stales => fixToView' = fixToView \o <<a>>
      /\ ~checking /\ stales => fixToView' = fixToView \o <<b>>
      /\ ~checking /\ ~stales => fixToView' = fixToView
  BY <1>1, <1>5
<1> QED BY <1>2, <1>6 DEF checking, stales, a, b

\* The files are reported to have changed: a check is refused.
LEMMA ChangeRefusesCheck ==
  ASSUME FixIInv, DependencyFilesChange, fixJob.kind = "analysis", fixJob.named, fixStored = NoFix \/ fixStale
  PROVE  FixIInv'
<1>1. /\ fixSeen' = fixEdits /\ fixJob.kind = "analysis" /\ fixJob' = [fixJob EXCEPT !.aborted = TRUE, !.named = FALSE]
      /\ fixStale' = fixStale /\ fixToView' = fixToView \o <<FixSays("error", NoFix)>>
      /\ UNCHANGED <<fixView, fixStored, fixKind, fixToHost, fixEdits, fixBasis, fixWritten, fixUnanswered>>
  BY FilesChange DEF FixIInv, DependencyFilesChange, FixPlansOK
<1>2. PlansStay /\ FixQueuesOK /\ FixPlansOK
  BY <1>1 DEF FixIInv, FixPlansOK, PlansStay
<1> DEFINE m == [type |-> "error", id |-> NoFix, outcome |-> "none"]
<1>3. m \in ViewFixMessages' /\ m.type = "error" /\ m.id = NoFix /\ fixToView' = fixToView \o <<m>>
  BY <1>1, <1>2, SaysOK, FixConstants DEF FixIInv, FixSays, FixTypes, FixIds, FixOutcomes, Made
<1> HIDE DEF m
<1>4. fixToView' \in Seq(ViewFixMessages)' /\ ToldMore(fixToView, fixToView', m)
  BY <1>2, <1>3, HostHasTold
<1>5. /\ fixToHost' = fixToHost => fixToHost' \in Seq(HostFixMessages)'
      /\ fixToView' = fixToView => fixToView' \in Seq(ViewFixMessages)'
  BY <1>2, QueuesStay
<1>6. FixViewOK'
  BY <1>1, <1>2, FixConstants, <1>3, <1>4, <1>5 DEF FixIInv, FixViewOK, NoFixView, WithPlan, FixPhase, FixIds, NoFix, FixOutcomes
<1>7. FixPlansOK'
  BY <1>1, <1>2, FixConstants, <1>3, <1>4, <1>5 DEF FixIInv, FixPlansOK, FixIds
<1>8. FixJobOK'
  BY <1>1, <1>2, FixConstants, <1>3, <1>4, <1>5 DEF FixIInv, FixPlansOK, FixJobOK, IdleFix, Carrying, FixIds
<1>9. FixQueuesOK'
  BY <1>1, <1>2, FixConstants, <1>3, <1>4, <1>5 DEF FixIInv, FixQueuesOK, Made, NoFixView, WithPlan, FixPhase, NoFix
<1>10. PlansAreShownOnce'
  BY <1>1, <1>2, FixConstants, <1>3, <1>4, <1>5 DEF FixIInv, PlansAreShownOnce, FixJobOK, Carries, Carrying, IsFix, IdleFix, NoFixView, WithPlan, FixPhase, ToldMore
<1>11. ShownIsKept'
  BY <1>1, <1>2, FixConstants, <1>3, <1>4, <1>5 DEF FixIInv, FixPlansOK, ShownIsKept, WillShow, IsFix, FixOff, IdleFix, NoFixView, WithPlan, FixPhase, ToldMore
<1>12. HeldIsNotReplaced'
  BY <1>1, <1>2, FixConstants, <1>3, <1>4, <1>5 DEF FixIInv, HeldIsNotReplaced, FixJobOK, WillHold, IsFix, NoFixView, WithPlan, FixPhase, IdleFix, ToldMore
<1>13. StaleIsStale'
  BY <1>1, <1>2, FixConstants, <1>3, <1>4, <1>5 DEF FixIInv, StaleIsStale, IsFix, NoFixView, WithPlan, FixPhase, ToldMore
<1>14. CheckingIsServed'
  BY <1>1, <1>2, FixConstants, <1>3, <1>4, <1>5 DEF FixIInv, CheckingIsServed, FixJobOK, CheckRuns, NoFixView, WithPlan, FixPhase, IdleFix, ToldMore
<1>15. ApplyingIsServed'
  BY <1>1, <1>2, FixConstants, <1>3, <1>4, <1>5 DEF FixIInv, ApplyingIsServed, FixJobOK, Carries, Carrying, IsFix, FixOver, NoFixView, WithPlan, FixPhase, IdleFix, ToldMore
<1>16. WritesHappenOnce'
  BY <1>1, <1>2, FixConstants, <1>3, <1>4, <1>5 DEF FixIInv, WritesHappenOnce, FixJobOK, IdleFix
<1>17. ChecksAreCurrent'
  BY <1>1, <1>2, FixConstants, <1>3, <1>4, <1>5 DEF FixIInv, ChecksAreCurrent, FixJobOK, CheckRuns, FixPlansOK, IdleFix
<1> QED BY <1>6, <1>7, <1>8, <1>9, <1>10, <1>11, <1>12, <1>13, <1>14, <1>15, <1>16, <1>17 DEF FixIInv

\* The kept plan becomes stale.
LEMMA ChangeMakesStale ==
  ASSUME FixIInv, DependencyFilesChange, fixJob.kind # "writing", ~(fixJob.kind = "analysis" /\ fixJob.named), fixStored # NoFix, ~fixStale
  PROVE  FixIInv'
<1>1. /\ fixSeen' = fixEdits /\ fixJob.kind # "writing" /\ fixJob' = fixJob /\ fixStored \in Fixes /\ fixKind[fixStored] # "none"
      /\ fixStale' = TRUE /\ fixToView' = fixToView \o <<FixSays("stale", fixStored)>> /\ (fixJob.kind = "analysis" => fixJob.aborted)
      /\ UNCHANGED <<fixView, fixStored, fixKind, fixToHost, fixEdits, fixBasis, fixWritten, fixUnanswered>>
  BY FilesChange DEF FixIInv, DependencyFilesChange, FixPlansOK, FixQueuesOK, FixIds, Made, FixJobOK
<1>2. PlansStay /\ FixQueuesOK /\ FixPlansOK
  BY <1>1 DEF FixIInv, FixPlansOK, PlansStay
<1> DEFINE m == [type |-> "stale", id |-> fixStored, outcome |-> "none"]
<1>3. m \in ViewFixMessages' /\ m.type = "stale" /\ m.id = fixStored /\ fixToView' = fixToView \o <<m>>
  BY <1>1, <1>2, SaysOK, FixConstants DEF FixIInv, FixSays, FixTypes, FixIds, FixOutcomes, Made
<1> HIDE DEF m
<1>4. fixToView' \in Seq(ViewFixMessages)' /\ ToldMore(fixToView, fixToView', m)
  BY <1>2, <1>3, HostHasTold
<1>5. /\ fixToHost' = fixToHost => fixToHost' \in Seq(HostFixMessages)'
      /\ fixToView' = fixToView => fixToView' \in Seq(ViewFixMessages)'
  BY <1>2, QueuesStay
<1>6. FixViewOK'
  BY <1>1, <1>2, FixConstants, <1>3, <1>4, <1>5 DEF FixIInv, FixViewOK, NoFixView, WithPlan, FixPhase, FixIds, NoFix, FixOutcomes
<1>7. FixPlansOK'
  BY <1>1, <1>2, FixConstants, <1>3, <1>4, <1>5 DEF FixIInv, FixPlansOK, FixIds
<1>8. FixJobOK'
  BY <1>1, <1>2, FixConstants, <1>3, <1>4, <1>5 DEF FixIInv, FixPlansOK, FixJobOK, IdleFix, Carrying, FixIds
<1>9. FixQueuesOK'
  BY <1>1, <1>2, FixConstants, <1>3, <1>4, <1>5 DEF FixIInv, FixQueuesOK, Made, NoFixView, WithPlan, FixPhase, NoFix
<1>10. PlansAreShownOnce'
  BY <1>1, <1>2, FixConstants, <1>3, <1>4, <1>5 DEF FixIInv, PlansAreShownOnce, FixJobOK, Carries, Carrying, IsFix, IdleFix, NoFixView, WithPlan, FixPhase, ToldMore
<1>11. ShownIsKept'
  BY <1>1, <1>2, FixConstants, <1>3, <1>4, <1>5 DEF FixIInv, FixPlansOK, ShownIsKept, WillShow, IsFix, FixOff, IdleFix, NoFixView, WithPlan, FixPhase, ToldMore
<1>12. HeldIsNotReplaced'
  BY <1>1, <1>2, FixConstants, <1>3, <1>4, <1>5 DEF FixIInv, HeldIsNotReplaced, FixJobOK, WillHold, IsFix, NoFixView, WithPlan, FixPhase, IdleFix, ToldMore
<1>13. StaleIsStale'
  BY <1>1, <1>2, FixConstants, <1>3, <1>4, <1>5 DEF FixIInv, StaleIsStale, IsFix, NoFixView, WithPlan, FixPhase, ToldMore
<1>14. CheckingIsServed'
  BY <1>1, <1>2, FixConstants, <1>3, <1>4, <1>5 DEF FixIInv, CheckingIsServed, FixJobOK, CheckRuns, NoFixView, WithPlan, FixPhase, IdleFix, ToldMore
<1>15. ApplyingIsServed'
  BY <1>1, <1>2, FixConstants, <1>3, <1>4, <1>5 DEF FixIInv, ApplyingIsServed, FixJobOK, Carries, Carrying, IsFix, FixOver, NoFixView, WithPlan, FixPhase, IdleFix, ToldMore
<1>16. WritesHappenOnce'
  BY <1>1, <1>2, FixConstants, <1>3, <1>4, <1>5 DEF FixIInv, WritesHappenOnce, FixJobOK, IdleFix
<1>17. ChecksAreCurrent'
  BY <1>1, <1>2, FixConstants, <1>3, <1>4, <1>5 DEF FixIInv, ChecksAreCurrent, FixJobOK, CheckRuns, FixPlansOK, IdleFix
<1> QED BY <1>6, <1>7, <1>8, <1>9, <1>10, <1>11, <1>12, <1>13, <1>14, <1>15, <1>16, <1>17 DEF FixIInv

\* Nothing is affected: files are being written, or no plan is kept that is not stale.
LEMMA ChangeAffectsNothing ==
  ASSUME FixIInv, DependencyFilesChange, ~(fixJob.kind = "analysis" /\ fixJob.named), fixJob.kind = "writing" \/ fixStored = NoFix \/ fixStale
  PROVE  FixIInv'
<1>1. /\ fixSeen' = fixEdits /\ fixJob' = fixJob /\ (fixJob.kind = "analysis" => fixJob.aborted) /\ fixStale' = fixStale /\ fixToView' = fixToView
      /\ fixJob.kind = "writing" \/ fixStored = NoFix \/ fixStale
      /\ UNCHANGED <<fixView, fixStored, fixStale, fixKind, fixJob, fixToHost, fixToView, fixEdits, fixBasis, fixWritten, fixUnanswered>>
  BY FilesChange DEF FixIInv, DependencyFilesChange, FixPlansOK, FixJobOK
<1>2. PlansStay /\ FixQueuesOK /\ FixPlansOK
  BY <1>1 DEF FixIInv, FixPlansOK, PlansStay
<1>3. /\ fixToHost' = fixToHost => fixToHost' \in Seq(HostFixMessages)'
      /\ fixToView' = fixToView => fixToView' \in Seq(ViewFixMessages)'
  BY <1>2, QueuesStay
<1>4. FixViewOK'
  BY <1>1, <1>2, FixConstants, <1>3 DEF FixIInv, FixViewOK, NoFixView, WithPlan, FixPhase, FixIds, NoFix, FixOutcomes
<1>5. FixPlansOK'
  BY <1>1, <1>2, FixConstants, <1>3 DEF FixIInv, FixPlansOK, FixIds
<1>6. FixJobOK'
  BY <1>1, <1>2, FixConstants, <1>3 DEF FixIInv, FixPlansOK, FixJobOK, IdleFix, Carrying, FixIds
<1>7. FixQueuesOK'
  BY <1>1, <1>2, FixConstants, <1>3 DEF FixIInv, FixQueuesOK, Made, NoFixView, WithPlan, FixPhase, NoFix
<1>8. PlansAreShownOnce'
  BY <1>1, <1>2, FixConstants, <1>3 DEF FixIInv, PlansAreShownOnce, FixJobOK, Carries, Carrying, IsFix, IdleFix, NoFixView, WithPlan, FixPhase
<1>9. ShownIsKept'
  BY <1>1, <1>2, FixConstants, <1>3 DEF FixIInv, FixPlansOK, ShownIsKept, WillShow, IsFix, FixOff, IdleFix, NoFixView, WithPlan, FixPhase
<1>10. HeldIsNotReplaced'
  BY <1>1, <1>2, FixConstants, <1>3 DEF FixIInv, HeldIsNotReplaced, FixJobOK, WillHold, IsFix, NoFixView, WithPlan, FixPhase, IdleFix
<1>11. StaleIsStale'
  BY <1>1, <1>2, FixConstants, <1>3 DEF FixIInv, StaleIsStale, IsFix, NoFixView, WithPlan, FixPhase
<1>12. CheckingIsServed'
  BY <1>1, <1>2, FixConstants, <1>3 DEF FixIInv, CheckingIsServed, FixJobOK, CheckRuns, NoFixView, WithPlan, FixPhase, IdleFix
<1>13. ApplyingIsServed'
  BY <1>1, <1>2, FixConstants, <1>3 DEF FixIInv, ApplyingIsServed, FixJobOK, Carries, Carrying, IsFix, FixOver, NoFixView, WithPlan, FixPhase, IdleFix
<1>14. WritesHappenOnce'
  BY <1>1, <1>2, FixConstants, <1>3 DEF FixIInv, WritesHappenOnce, FixJobOK, IdleFix
<1>15. ChecksAreCurrent'
  BY <1>1, <1>2, FixConstants, <1>3 DEF FixIInv, ChecksAreCurrent, FixJobOK, CheckRuns, FixPlansOK, IdleFix
<1> QED BY <1>4, <1>5, <1>6, <1>7, <1>8, <1>9, <1>10, <1>11, <1>12, <1>13, <1>14, <1>15 DEF FixIInv

\* Both: a check is refused, and the kept plan becomes stale.
LEMMA ChangeRefusesAndMakesStale ==
  ASSUME FixIInv, DependencyFilesChange, fixJob.kind = "analysis", fixJob.named, fixStored # NoFix, ~fixStale, NEW g, g = fixStored
  PROVE  FixIInv'
<1>1. /\ fixSeen' = fixEdits /\ fixJob.kind = "analysis" /\ fixJob' = [fixJob EXCEPT !.aborted = TRUE, !.named = FALSE]
      /\ g \in Fixes /\ g = fixStored /\ fixKind[g] # "none" /\ fixStale' = TRUE
      /\ fixToView' = (fixToView \o <<FixSays("error", NoFix)>>) \o <<FixSays("stale", g)>>
      /\ UNCHANGED <<fixView, fixStored, fixKind, fixToHost, fixEdits, fixBasis, fixWritten, fixUnanswered>>
  BY FilesChange DEF FixIInv, DependencyFilesChange, FixPlansOK, FixQueuesOK, FixIds, Made, FixJobOK
<1>2. PlansStay /\ FixQueuesOK /\ FixPlansOK
  BY <1>1 DEF FixIInv, FixPlansOK, PlansStay
<1> DEFINE e == [type |-> "error", id |-> NoFix, outcome |-> "none"]  q == fixToView \o <<e>>
           m == [type |-> "stale", id |-> g, outcome |-> "none"]
<1>3. /\ e \in ViewFixMessages' /\ e.type = "error" /\ e.id = NoFix
      /\ m \in ViewFixMessages' /\ m.type = "stale" /\ m.id = g
      /\ fixToView' = q \o <<m>>
  BY <1>1, <1>2, SaysOK, FixConstants DEF FixIInv, FixSays, FixTypes, FixIds, FixOutcomes, Made
<1> HIDE DEF e, m
<1>4. q \in Seq(ViewFixMessages') /\ q \in Seq(ToViewMessages) /\ ToldMore(fixToView, q, e)
  BY <1>2, <1>3, ToldTo, QueueMayStay
<1> HIDE DEF q
<1>5. fixToView' \in Seq(ViewFixMessages)' /\ ToldMore(q, fixToView', m)
  BY <1>2, <1>3, <1>4, ToldTo
<1>6. /\ fixToHost' = fixToHost => fixToHost' \in Seq(HostFixMessages)'
      /\ fixToView' = fixToView => fixToView' \in Seq(ViewFixMessages)'
  BY <1>2, QueuesStay
<1>7. FixViewOK'
  BY <1>1, <1>2, FixConstants, <1>3, <1>4, <1>5, <1>6 DEF FixIInv, FixViewOK, NoFixView, WithPlan, FixPhase, FixIds, NoFix, FixOutcomes
<1>8. FixPlansOK'
  BY <1>1, <1>2, FixConstants, <1>3, <1>4, <1>5, <1>6 DEF FixIInv, FixPlansOK, FixIds
<1>9. FixJobOK'
  BY <1>1, <1>2, FixConstants, <1>3, <1>4, <1>5, <1>6 DEF FixIInv, FixPlansOK, FixJobOK, IdleFix, Carrying, FixIds
<1>10. FixQueuesOK'
  BY <1>1, <1>2, FixConstants, <1>3, <1>4, <1>5, <1>6 DEF FixIInv, FixQueuesOK, Made, NoFixView, WithPlan, FixPhase, NoFix
<1>11. PlansAreShownOnce'
  BY <1>1, <1>2, FixConstants, <1>3, <1>4, <1>5, <1>6 DEF FixIInv, PlansAreShownOnce, FixJobOK, Carries, Carrying, IsFix, IdleFix, NoFixView, WithPlan, FixPhase, ToldMore
<1>12. ShownIsKept'
  BY <1>1, <1>2, FixConstants, <1>3, <1>4, <1>5, <1>6 DEF FixIInv, FixPlansOK, ShownIsKept, WillShow, IsFix, FixOff, IdleFix, NoFixView, WithPlan, FixPhase, ToldMore
<1>13. HeldIsNotReplaced'
  BY <1>1, <1>2, FixConstants, <1>3, <1>4, <1>5, <1>6 DEF FixIInv, HeldIsNotReplaced, FixJobOK, WillHold, IsFix, NoFixView, WithPlan, FixPhase, IdleFix, ToldMore
<1>14. StaleIsStale'
  BY <1>1, <1>2, FixConstants, <1>3, <1>4, <1>5, <1>6 DEF FixIInv, StaleIsStale, IsFix, NoFixView, WithPlan, FixPhase, ToldMore
<1>15. CheckingIsServed'
  BY <1>1, <1>2, FixConstants, <1>3, <1>4, <1>5, <1>6 DEF FixIInv, CheckingIsServed, FixJobOK, CheckRuns, NoFixView, WithPlan, FixPhase, IdleFix, ToldMore
<1>16. ApplyingIsServed'
  BY <1>1, <1>2, FixConstants, <1>3, <1>4, <1>5, <1>6 DEF FixIInv, ApplyingIsServed, FixJobOK, Carries, Carrying, IsFix, FixOver, NoFixView, WithPlan, FixPhase, IdleFix, ToldMore
<1>17. WritesHappenOnce'
  BY <1>1, <1>2, FixConstants, <1>3, <1>4, <1>5, <1>6 DEF FixIInv, WritesHappenOnce, FixJobOK, IdleFix
<1>18. ChecksAreCurrent'
  BY <1>1, <1>2, FixConstants, <1>3, <1>4, <1>5, <1>6 DEF FixIInv, ChecksAreCurrent, FixJobOK, CheckRuns, FixPlansOK, IdleFix
<1> QED BY <1>7, <1>8, <1>9, <1>10, <1>11, <1>12, <1>13, <1>14, <1>15, <1>16, <1>17, <1>18 DEF FixIInv

\* The files are reported to have changed.
LEMMA DependencyFilesChangeKeeps == ASSUME FixIInv, DependencyFilesChange PROVE FixIInv'
BY ChangeRefusesCheck, ChangeMakesStale, ChangeAffectsNothing, ChangeRefusesAndMakesStale

-----------------------------------------------------------------------------
(* The theorems *)

\* Nothing is shown or under way at first.
LEMMA FixReviewBegins == FixReviewInit => FixIInv
<1> SUFFICES ASSUME FixReviewInit PROVE FixIInv
  OBVIOUS
<1>1. /\ fixView = NoFixView /\ fixStored = NoFix /\ fixStale = FALSE
      /\ fixKind = [f \in Fixes |-> "none"] /\ fixJob = IdleFix
      /\ fixToHost = <<>> /\ fixToView = <<>>
      /\ fixEdits = 0 /\ fixSeen = 0 /\ fixBasis = [f \in Fixes |-> Unread] /\ fixWritten = <<>> /\ fixUnanswered = FALSE
  BY DEF FixReviewInit
<1>2. FixViewOK
  BY <1>1 DEF FixViewOK, NoFixView, NoFix, FixIds, FixOutcomes
<1>3. FixPlansOK
  <2>1. /\ fixKind \in [Fixes -> {"none", "actionable", "blocked", "unshown"}]
        /\ fixBasis \in [Fixes -> Nat]
    BY <1>1, FixConstants
  <2>2. fixWritten \in Seq(Fixes)
    BY <1>1
  <2>3. fixEdits \in Nat /\ fixSeen \in Nat /\ fixSeen <= fixEdits /\ fixEdits <= MaxFixEdits
    BY <1>1, FixConstants
  <2> QED BY <1>1, <2>1, <2>2, <2>3 DEF FixPlansOK, FixIds
<1>4. FixJobOK
  BY <1>1, FixConstants DEF FixJobOK, IdleFix, FixIds, Carrying
<1>5. FixQueuesOK
  BY <1>1 DEF FixQueuesOK, Made, NoFixView, NoFix
<1>6. PlansAreShownOnce /\ ShownIsKept /\ HeldIsNotReplaced /\ StaleIsStale /\ CheckingIsServed /\ ApplyingIsServed
  BY <1>1, NothingWaits, FixConstants
     DEF PlansAreShownOnce, ShownIsKept, HeldIsNotReplaced, StaleIsStale, CheckingIsServed, ApplyingIsServed,
         WillShow, WillHold, PlanComes, PlanRepeats, StaleComes, ComesToShow, ComesToHold, ComesToCheck,
         ComesToApply, AnswerWaits, Carries, Carrying, NoFixView, IdleFix
<1>7. WritesHappenOnce /\ ChecksAreCurrent
  BY <1>1, NothingWaits DEF WritesHappenOnce, ChecksAreCurrent, CheckRuns, IdleFix
<1> QED BY <1>2, <1>3, <1>4, <1>5, <1>6, <1>7 DEF FixIInv

\* Every step keeps the invariant, whoever takes it.
LEMMA FixReviewKeeps == FixIInv /\ [FixReviewNext]_fixVars => FixIInv'
<1> SUFFICES ASSUME FixIInv, [FixReviewNext]_fixVars PROVE FixIInv'
  OBVIOUS
<1>1. CASE AskForFix \/ ReviewTheFix \/ ApplyFix \/ CancelTheFix \/ CheckFixAgain
  BY <1>1, AskForFixKeeps, ReviewTheFixKeeps, ApplyFixKeeps, CancelTheFixKeeps, CheckFixAgainKeeps
<1>2. CASE DashboardRefreshes \/ RemountView \/ EditDependencyFiles \/ ReceiveFix
  BY <1>2, DashboardRefreshesKeeps, RemountViewKeeps, EditDependencyFilesKeeps, ReceiveFixKeeps
<1>3. CASE FixHandles
  BY <1>3, HandleFixAnalyzeKeeps, HandleFixRetryKeeps, HandleFixConfirmKeeps, HandleFixCancelKeeps, HandleFixReadyKeeps
     DEF FixHandles
<1>4. CASE FixWork
  <2>1. CASE FixReads \/ FixRereads \/ DependencyFilesChange \/ FixCheckFails \/ FixCheckDropped
    BY <2>1, FixReadsKeeps, FixRereadsKeeps, DependencyFilesChangeKeeps, FixCheckFailsKeeps, FixCheckDroppedKeeps
  <2>2. CASE \E k \in {"actionable", "blocked", "unshown"} : FixCheckEnds(k)
    BY <2>2, FixChecksKeep
  <2>3. CASE FixRefused("stale") \/ FixRefused("error") \/ FixForgotten \/ FixCancelled \/ FixBegins
    BY <2>3, FixRefusedKeeps, FixForgottenKeeps, FixCancelledKeeps, FixBeginsKeeps
  <2>4. CASE \/ \E o \in {"kept", "undone", "cancelled", "recovery-required"} : FixEnds("result", o)
             \/ FixEnds("error", "none") \/ FixEnds("stale", "none")
    BY <2>4, FixEndsKeeps DEF FixOutcomes
  <2> QED BY <1>4, <2>1, <2>2, <2>3, <2>4 DEF FixWork
<1>5. CASE UNCHANGED fixVars
  <2>1. UNCHANGED <<fixView, fixStored, fixStale, fixKind, fixJob, fixToHost, fixToView, fixEdits, fixSeen, fixBasis,
                    fixWritten, fixUnanswered>>
    BY <1>5 DEF fixVars, fixHost, fixWorld
  <2>2. FixViewOK' /\ FixPlansOK' /\ FixJobOK'
    BY <2>1 DEF FixIInv, FixViewOK, FixPlansOK, FixJobOK
  <2>3. FixQueuesOK'
    BY <2>1, QueuesStay DEF FixIInv, FixQueuesOK, FixPlansOK, PlansStay, Made
  <2>4. PlansAreShownOnce' /\ ShownIsKept' /\ HeldIsNotReplaced' /\ StaleIsStale'
    BY <2>1 DEF FixIInv, PlansAreShownOnce, ShownIsKept, HeldIsNotReplaced, StaleIsStale, WillShow, WillHold, Carries
  <2>5. CheckingIsServed' /\ ApplyingIsServed' /\ WritesHappenOnce' /\ ChecksAreCurrent'
    BY <2>1 DEF FixIInv, CheckingIsServed, ApplyingIsServed, WritesHappenOnce, ChecksAreCurrent, CheckRuns, Carries
  <2> QED BY <2>2, <2>3, <2>4, <2>5 DEF FixIInv
<1> QED BY <1>1, <1>2, <1>3, <1>4, <1>5 DEF FixReviewNext

\* The invariant holds of every state.
THEOREM FixReviewInvariant == FixReviewSpec => []FixIInv
BY FixReviewBegins, FixReviewKeeps, PTL DEF FixReviewSpec

\* When nothing is on its way, nothing is about to end what the view has.
LEMMA NothingEnds ==
  ASSUME fixToView = <<>>
  PROVE  \A f : StaysShown(fixToView, f) /\ StaysHeld(fixToView) /\ StaysChecking(fixToView) /\ StaysApplying(fixToView, f)
BY NothingWaits DEF StaysShown, StaysHeld, StaysChecking, StaysApplying

\* What the invariant says when nothing is on its way, and of what was written.
LEMMA FixesAgree == FixIInv => FixReviewsAgree
<1> SUFFICES ASSUME FixIInv PROVE FixReviewsAgree
  OBVIOUS
<1>1. ASSUME FixQuiet
      PROVE  /\ fixView.phase = "plan" /\ fixKind[fixView.id] = "actionable" =>
                  fixStored = fixView.id /\ ~fixStale /\ (fixSeen = fixEdits => fixBasis[fixView.id] = fixEdits)
             /\ fixView.phase = "stale" => fixStored = NoFix \/ (fixStored = fixView.id /\ fixStale)
             /\ fixView.phase \in {"analyzing", "applying"} => fixUnanswered
  <2>1. /\ fixToHost = <<>> /\ fixToView = <<>> /\ fixJob.kind = "none"
        /\ fixView.phase \in {"plan", "applying", "stale"} => fixView.id \in Fixes
    BY <1>1 DEF FixIInv, FixViewOK, FixIds, FixQuiet, IdleFix
  <2>2. ~CheckWaits(fixToHost) /\ \A f : ~ConfirmWaits(fixToHost, f)
    BY <2>1, NothingWaits DEF CheckWaits, ConfirmWaits
  <2>3. CASE fixView.phase = "plan"
    BY <2>1, <2>3, NothingEnds DEF FixIInv, ShownIsKept, WillShow
  <2>4. CASE fixView.phase = "stale"
    BY <2>1, <2>4, NothingEnds DEF FixIInv, HeldIsNotReplaced, WillHold, StaleIsStale
  <2>5. CASE fixView.phase = "analyzing"
    BY <2>1, <2>2, <2>5, NothingEnds DEF FixIInv, CheckingIsServed, CheckRuns
  <2>6. CASE fixView.phase = "applying"
    BY <2>1, <2>2, <2>6, NothingEnds DEF FixIInv, ApplyingIsServed, Carries, Carrying
  <2> QED BY <2>3, <2>4, <2>5, <2>6
<1>2. ASSUME NEW i \in 1 .. Len(fixWritten)
      PROVE  fixWritten[i] \in Fixes /\ fixKind[fixWritten[i]] = "actionable"
  <2>1. fixWritten[i] \in Fixes
    BY <1>2 DEF FixIInv, FixPlansOK
  <2>2. Some(fixWritten, {fixWritten[i]})
    BY <1>2 DEF Some
  <2> QED BY <2>1, <2>2 DEF FixIInv, WritesHappenOnce
<1>3. ASSUME NEW i \in 1 .. Len(fixWritten), NEW j \in 1 .. Len(fixWritten), fixWritten[i] = fixWritten[j], i < j
      PROVE  FALSE
  BY <1>2, <1>3 DEF FixIInv, WritesHappenOnce, Repeats
<1>4. \A i, j \in 1 .. Len(fixWritten) : fixWritten[i] = fixWritten[j] => i = j
  <2> SUFFICES ASSUME NEW i \in 1 .. Len(fixWritten), NEW j \in 1 .. Len(fixWritten), fixWritten[i] = fixWritten[j]
               PROVE  i = j
    OBVIOUS
  <2>1. i < j \/ j < i \/ i = j
    BY DEF FixIInv, FixPlansOK
  <2> QED BY <1>3, <2>1
<1> QED BY <1>1, <1>2, <1>4 DEF FixReviewsAgree

\* What the user reviewed is what the host carries out, once, and nobody waits who will not be
\* answered: of every number of plans, edits and messages.
THEOREM FixReviewsAgreeAlways == FixReviewSpec => []FixReviewsAgree
BY FixReviewInvariant, FixesAgree, PTL

==============================================================================
