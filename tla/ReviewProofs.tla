---------------------------- MODULE ReviewProofs ----------------------------
(***************************************************************************)
(* The two sides of an upgrade review agree, for any packages and any      *)
(* number of requests and of rows.  Only the last request counts: earlier  *)
(* ones are answered, but nothing tracks them any more.                    *)
(***************************************************************************)
EXTENDS UpgradeReview, SequenceTheorems, TLAPS

-----------------------------------------------------------------------------
(* Types *)

Rows == [status : {"ready", "stale", "loading"}, declared : Nat, scan : Nat]
HostMessages == [type : {"upgrade", "cancel", "confirm", "retry"}, id : Nat]
ViewMessages ==
  [type : {"analysis", "error", "busy", "stale"}, id : Nat]
  \cup [type : {"result"}, id : Nat, package : ReviewPackages, refreshing : BOOLEAN, declared : Nat]
  \cup [type : {"enriched"}, id : Nat, outcome : {"succeeded", "failed", "superseded"}]
  \cup [type : {"rows"}, rows : Rows]

\* The request a review can be tracking.
Newest == Len(requested)

QueuesOK ==
  /\ requested \in Seq(ReviewPackages)
  /\ toHost \in Seq(HostMessages) /\ toView \in Seq(ViewMessages)

RowsOK ==
  /\ hostRows \in Rows /\ display \in Rows /\ heard \in Rows
  /\ refresh \in [phase : {"none", "refreshing", "failed", "superseded"}, id : Nat,
                  package : ReviewPackages \cup {NoPackage}, card : BOOLEAN, held : Rows]

ReviewOK ==
  /\ review \in [package : ReviewPackages \cup {NoPackage}, request : Nat, analysis : Nat, stale : Nat,
       busy : BOOLEAN]
  /\ review.package = NoPackage <=> review.request = 0
  /\ review.request \in {0, Newest} /\ review.analysis \in {0, review.request}

HostOK ==
  /\ analyzing \in [request : Nat, cancelled : BOOLEAN, settling : BOOLEAN]
  /\ analyzing # NoAttempt => analyzing.request # 0
  /\ keptReview \in Nat /\ changing \in Nat /\ derived \subseteq Nat
  /\ lifecycle \in [id : Nat, state : {"none", "running", "succeeded", "failed", "superseded"}]

\* Nothing is about a request that was not made yet.
IdsReached ==
  /\ analyzing.request <= Newest /\ keptReview <= Newest /\ changing <= Newest
  /\ \A i \in 1 .. Len(toHost) : /\ toHost[i].type # "retry" => toHost[i].id <= Newest
                                 /\ toHost[i].type \in {"upgrade", "confirm"} => toHost[i].id # 0
  /\ \A i \in 1 .. Len(toView) : toView[i].type \in {"analysis", "stale"} => toView[i].id \in 1 .. Newest

-----------------------------------------------------------------------------
(* The rows *)

\* Rows without a scan are never shown as current.
EmptyIsNotReady ==
  /\ hostRows.scan # 0
  /\ display.scan = 0 => display.status # "ready"
  /\ \A i \in 1 .. Len(toView) :
       toView[i].type = "rows" /\ toView[i].rows.scan = 0 => toView[i].rows.status # "ready"

RefreshHasCard == refresh.phase # "none" => refresh.card

-----------------------------------------------------------------------------
(* The last request *)

Upgrades(i) == toHost[i].type = "upgrade"
Confirms(i) == toHost[i].type = "confirm" /\ toHost[i].id = Newest
Analyzed(i) == toView[i].type = "analysis" /\ toView[i].id = Newest

\* What takes the analysis of the last request off the screen, or makes it stale there.
Revokes(i) ==
  \/ toView[i].type \in {"error", "result"}
  \/ toView[i].type = "stale" /\ toView[i].id = Newest
  \/ toView[i].type = "rows" /\ toView[i].rows.scan = 0

\* Requests are handled in their order: while one waits, so does the last one.
LastRequestIsLast ==
  \A i \in 1 .. Len(toHost) :
    Upgrades(i) => \/ toHost[i].id = Newest /\ \A j \in i + 1 .. Len(toHost) : ~Upgrades(j)
                   \/ toHost[i].id # Newest /\ \E j \in i + 1 .. Len(toHost) : Upgrades(j)
                        /\ toHost[j].id = Newest

NoneWaits == \A i \in 1 .. Len(toHost) : ~Upgrades(i)

\* The last request is being analyzed only after it was handled.
LastIsHandled == Newest # 0 /\ analyzing.request = Newest => NoneWaits

\* Once the last request has its analysis, no attempt for another one is under way.
Done == review.analysis # 0 \/ \E i \in 1 .. Len(toView) : Analyzed(i)

DoneIsAlone ==
  Done => /\ NoneWaits /\ keptReview \in {0, Newest}
          /\ analyzing = NoAttempt \/ (analyzing.request = Newest /\ analyzing.settling)

\* A tracked request is not cancelled, nor confirmed before its analysis is there.
TrackedIsOpen ==
  review.request # 0 =>
    /\ \A i \in 1 .. Len(toHost) : ~(toHost[i].type = "cancel" /\ toHost[i].id = Newest)
    /\ review.analysis = 0 => changing # Newest /\ \A i \in 1 .. Len(toHost) : ~Confirms(i)

\* An analysis on its way is kept, unless it is revoked behind it.
AnswerIsKept ==
  review.request # 0 /\ review.analysis = 0 =>
    \A i \in 1 .. Len(toView) :
      Analyzed(i) => /\ keptReview = Newest \/ \E j \in i + 1 .. Len(toView) : Revokes(j)
                     /\ \A j \in i + 1 .. Len(toView) : toView[j].type # "busy"

\* The analysis on screen can be confirmed, and nothing on its way changes that.
Live ==
  /\ review.analysis # 0 /\ review.stale # review.analysis
  /\ \A i \in 1 .. Len(toView) : ~Revokes(i)

Silent == review.busy /\ \A i \in 1 .. Len(toView) : toView[i].type # "busy"

\* Then it is kept or being carried out, and one confirmation of it is under way at most.
LiveIsKept ==
  Live => /\ keptReview = Newest \/ changing = Newest
          /\ changing = Newest => keptReview = 0 /\ Silent /\ \A i \in 1 .. Len(toHost) : ~Confirms(i)
          /\ \A i \in 1 .. Len(toHost) : Confirms(i) => Silent
          /\ \A i, j \in 1 .. Len(toHost) : Confirms(i) /\ Confirms(j) => i = j
          /\ \A i \in 1 .. Len(toView) : toView[i].type = "busy" => review.busy
          /\ \A i, j \in 1 .. Len(toView) : toView[i].type = "busy" /\ toView[j].type = "busy" => i = j

ReviewIInv ==
  /\ QueuesOK /\ RowsOK /\ ReviewOK /\ HostOK /\ IdsReached
  /\ EmptyIsNotReady /\ RefreshHasCard /\ RowsStayQuarantined
  /\ LastRequestIsLast /\ LastIsHandled /\ DoneIsAlone /\ TrackedIsOpen /\ AnswerIsKept /\ LiveIsKept
-----------------------------------------------------------------------------
(* Messages and queues *)

\* What the fields of a message are.
LEMMA MessageFields ==
  /\ \A m \in HostMessages : m.type \in {"upgrade", "cancel", "confirm", "retry"} /\ m.id \in Nat
  /\ \A m \in ViewMessages : /\ m.type \in {"analysis", "error", "busy", "stale",
                                          "result", "enriched", "rows"}
                             /\ m.type # "rows" => m.id \in Nat
                             /\ m.type = "rows" => m.rows \in Rows
                             /\ m.type = "result" => /\ m.package \in ReviewPackages /\ m.refreshing \in BOOLEAN
                                                     /\ m.declared \in Nat
BY DEF HostMessages, ViewMessages

\* A message of each kind.
LEMMA Messages ==
  ASSUME NEW i \in Nat
  PROVE  /\ \A t \in {"upgrade", "cancel", "confirm", "retry"} :
              Message(t, i) \in HostMessages /\ Message(t, i).type = t /\ Message(t, i).id = i
         /\ \A t \in {"analysis", "error", "busy", "stale"} :
              Message(t, i) \in ViewMessages /\ Message(t, i).type = t /\ Message(t, i).id = i
BY DEF Message, HostMessages, ViewMessages

\* What is in the queues.
LEMMA QueueFields ==
  ASSUME QueuesOK
  PROVE  /\ Len(toHost) \in Nat /\ Len(toView) \in Nat /\ Len(requested) \in Nat
         /\ \A i \in 1 .. Len(toHost) : toHost[i] \in HostMessages /\ toHost[i].id \in Nat
         /\ \A i \in 1 .. Len(toView) : /\ toView[i] \in ViewMessages
                                        /\ toView[i].type # "rows" => toView[i].id \in Nat
                                        /\ toView[i].type = "rows" => toView[i].rows \in Rows
<1>1. /\ Len(toHost) \in Nat /\ Len(toView) \in Nat /\ Len(requested) \in Nat
      /\ \A i \in 1 .. Len(toHost) : toHost[i] \in HostMessages
      /\ \A i \in 1 .. Len(toView) : toView[i] \in ViewMessages
  BY DEF QueuesOK
<1> QED BY <1>1, MessageFields

\* Before a new request, everything on its way to the host is about earlier ones.
LEMMA RequestsAreOlder ==
  ASSUME QueuesOK, IdsReached, Newest \in Nat, Newest' = Newest + 1
  PROVE  \A i \in 1 .. Len(toHost) :
           /\ toHost[i].type # "retry" => toHost[i].id < Newest'
           /\ toHost[i].type \in {"upgrade", "confirm"} => toHost[i].id # 0
<1> SUFFICES ASSUME NEW i \in 1 .. Len(toHost)
             PROVE  /\ toHost[i].type # "retry" => toHost[i].id < Newest'
                    /\ toHost[i].type \in {"upgrade", "confirm"} => toHost[i].id # 0
  OBVIOUS
<1>1. toHost[i].id \in Nat
  BY QueueFields
<1>2. /\ toHost[i].type # "retry" => toHost[i].id <= Newest
      /\ toHost[i].type \in {"upgrade", "confirm"} => toHost[i].id # 0
  BY DEF IdsReached
<1> QED BY <1>1, <1>2

\* A message about a request that was made.
LEMMA IdsStaySent ==
  ASSUME IdsReached, Newest' = Newest, UNCHANGED <<analyzing, keptReview, changing, toView>>,
         NEW t \in {"cancel", "confirm"}, NEW n \in Nat, n <= Newest, t = "confirm" => n # 0,
         \A i \in 1 .. Len(toHost') : \/ i \in 1 .. Len(toHost) /\ toHost'[i] = toHost[i]
                                      \/ toHost'[i].type = t /\ toHost'[i].id = n
  PROVE  IdsReached'
<1>1. ASSUME NEW i \in 1 .. Len(toHost')
      PROVE  /\ toHost'[i].type # "retry" => toHost'[i].id <= Newest
             /\ toHost'[i].type \in {"upgrade", "confirm"} => toHost'[i].id # 0
  <2>1. CASE i \in 1 .. Len(toHost) /\ toHost'[i] = toHost[i]
    BY <2>1 DEF IdsReached
  <2>2. CASE toHost'[i].type = t /\ toHost'[i].id = n
    BY <2>2
  <2> QED BY <2>1, <2>2
<1> QED BY <1>1 DEF IdsReached

\* A queue to which one message is added.
LEMMA AddOne ==
  ASSUME NEW S, NEW q \in Seq(S), NEW m \in S
  PROVE  /\ q \o <<m>> \in Seq(S) /\ Len(q \o <<m>>) = Len(q) + 1
         /\ \A i \in 1 .. Len(q) : (q \o <<m>>)[i] = q[i]
         /\ (q \o <<m>>)[Len(q) + 1] = m
<1>1. <<m>> \in Seq(S) /\ Len(<<m>>) = 1 /\ <<m>>[1] = m
  OBVIOUS
<1> QED BY <1>1, ConcatProperties

\* Two messages.
LEMMA AddTwo ==
  ASSUME NEW S, NEW q \in Seq(S), NEW m \in S, NEW n \in S
  PROVE  /\ q \o <<m, n>> \in Seq(S) /\ Len(q \o <<m, n>>) = Len(q) + 2
         /\ \A i \in 1 .. Len(q) : (q \o <<m, n>>)[i] = q[i]
         /\ (q \o <<m, n>>)[Len(q) + 1] = m /\ (q \o <<m, n>>)[Len(q) + 2] = n
<1>1. <<m, n>> \in Seq(S) /\ Len(<<m, n>>) = 2 /\ <<m, n>>[1] = m /\ <<m, n>>[2] = n
  OBVIOUS
<1> QED BY <1>1, ConcatProperties

\* A queue from which its head is taken.
LEMMA TakeHead ==
  ASSUME NEW S, NEW q \in Seq(S), q # <<>>
  PROVE  /\ Tail(q) \in Seq(S) /\ Len(q) \in Nat \ {0} /\ Len(Tail(q)) = Len(q) - 1
         /\ \A i \in 1 .. Len(q) - 1 : Tail(q)[i] = q[i + 1]
         /\ \A i \in 2 .. Len(q) : Tail(q)[i - 1] = q[i]
         /\ Head(q) = q[1] /\ q[1] \in S
BY HeadTailProperties

\* The webview posts a message.
LEMMA Sending ==
  ASSUME QueuesOK, NEW m \in HostMessages, Send(<<m>>)
  PROVE  /\ toHost' \in Seq(HostMessages) /\ Len(toHost') = Len(toHost) + 1
         /\ \A i \in 1 .. Len(toHost) : toHost'[i] = toHost[i]
         /\ toHost'[Len(toHost) + 1] = m
BY AddOne DEF QueuesOK, Send

\* The host posts a message.
LEMMA Posting ==
  ASSUME QueuesOK, NEW m \in ViewMessages, PostToView(<<m>>)
  PROVE  /\ toView' \in Seq(ViewMessages) /\ Len(toView') = Len(toView) + 1
         /\ \A i \in 1 .. Len(toView) : toView'[i] = toView[i]
         /\ toView'[Len(toView) + 1] = m
BY AddOne DEF QueuesOK, PostToView

\* The host posts two.
LEMMA PostingTwo ==
  ASSUME QueuesOK, NEW m \in ViewMessages, NEW n \in ViewMessages, PostToView(<<m, n>>)
  PROVE  /\ toView' \in Seq(ViewMessages) /\ Len(toView') = Len(toView) + 2
         /\ \A i \in 1 .. Len(toView) : toView'[i] = toView[i]
         /\ toView'[Len(toView) + 1] = m /\ toView'[Len(toView) + 2] = n
BY AddTwo DEF QueuesOK, PostToView

\* The webview takes a message.
LEMMA Hearing ==
  ASSUME QueuesOK, NEW t, ViewReceives(t)
  PROVE  /\ toView' \in Seq(ViewMessages) /\ Len(toView') \in Nat /\ Len(toView') = Len(toView) - 1
         /\ \A i \in 1 .. Len(toView') : i + 1 \in 1 .. Len(toView) /\ toView'[i] = toView[i + 1]
         /\ \A i \in 2 .. Len(toView) : i - 1 \in 1 .. Len(toView') /\ toView'[i - 1] = toView[i]
         /\ 1 \in 1 .. Len(toView) /\ Head(toView) = toView[1] /\ toView[1] \in ViewMessages
              /\ toView[1].type = t
<1>1. toView \in Seq(ViewMessages) /\ toView # <<>> /\ toView' = Tail(toView) /\ Head(toView).type = t
  BY DEF QueuesOK, ViewReceives
<1>2. /\ toView' \in Seq(ViewMessages) /\ Len(toView) \in Nat \ {0} /\ Len(toView') = Len(toView) - 1
      /\ \A i \in 1 .. Len(toView) - 1 : toView'[i] = toView[i + 1]
      /\ \A i \in 2 .. Len(toView) : toView'[i - 1] = toView[i]
      /\ Head(toView) = toView[1] /\ toView[1] \in ViewMessages
  BY <1>1, TakeHead
<1>3. /\ \A i \in 1 .. Len(toView') : i + 1 \in 1 .. Len(toView)
      /\ \A i \in 2 .. Len(toView) : i - 1 \in 1 .. Len(toView')
  BY <1>2
<1> QED BY <1>1, <1>2, <1>3

\* The host takes a message.
LEMMA Handling ==
  ASSUME QueuesOK, NEW t, HostReceives(t)
  PROVE  /\ toHost' \in Seq(HostMessages) /\ Len(toHost') \in Nat /\ Len(toHost') = Len(toHost) - 1
         /\ \A i \in 1 .. Len(toHost') : i + 1 \in 1 .. Len(toHost) /\ toHost'[i] = toHost[i + 1]
         /\ \A i \in 2 .. Len(toHost) : i - 1 \in 1 .. Len(toHost') /\ toHost'[i - 1] = toHost[i]
         /\ 1 \in 1 .. Len(toHost) /\ Head(toHost) = toHost[1] /\ toHost[1] \in HostMessages
              /\ toHost[1].type = t
<1>1. toHost \in Seq(HostMessages) /\ toHost # <<>> /\ toHost' = Tail(toHost) /\ Head(toHost).type = t
  BY DEF QueuesOK, HostReceives
<1>2. /\ toHost' \in Seq(HostMessages) /\ Len(toHost) \in Nat \ {0} /\ Len(toHost') = Len(toHost) - 1
      /\ \A i \in 1 .. Len(toHost) - 1 : toHost'[i] = toHost[i + 1]
      /\ \A i \in 2 .. Len(toHost) : toHost'[i - 1] = toHost[i]
      /\ Head(toHost) = toHost[1] /\ toHost[1] \in HostMessages
  BY <1>1, TakeHead
<1>3. /\ \A i \in 1 .. Len(toHost') : i + 1 \in 1 .. Len(toHost)
      /\ \A i \in 2 .. Len(toHost) : i - 1 \in 1 .. Len(toHost')
  BY <1>2
<1> QED BY <1>1, <1>2, <1>3

\* The webview posts what is about a request or an analysis.
LEMMA SendingMessage ==
  ASSUME QueuesOK, NEW t \in {"upgrade", "cancel", "confirm", "retry"}, NEW n \in Nat,
           Send(<<Message(t, n)>>)
  PROVE  /\ toHost' \in Seq(HostMessages) /\ Len(toHost') = Len(toHost) + 1
         /\ \A i \in 1 .. Len(toHost) : i \in 1 .. Len(toHost') /\ toHost'[i] = toHost[i]
         /\ toHost'[Len(toHost) + 1].type = t /\ toHost'[Len(toHost) + 1].id = n
         /\ \A i \in 1 .. Len(toHost') : \/ i \in 1 .. Len(toHost) /\ toHost'[i] = toHost[i] /\ toHost'[i].id \in Nat
                                         \/ i = Len(toHost) + 1 /\ toHost'[i].type = t
                                              /\ toHost'[i].id = n
<1>1. Message(t, n) \in HostMessages /\ Message(t, n).type = t /\ Message(t, n).id = n
  BY Messages
<1>2. Len(toHost) \in Nat /\ \A i \in 1 .. Len(toHost) : toHost[i].id \in Nat
  BY QueueFields
<1>3. /\ toHost' \in Seq(HostMessages) /\ Len(toHost') = Len(toHost) + 1
      /\ \A i \in 1 .. Len(toHost) : toHost'[i] = toHost[i]
      /\ toHost'[Len(toHost) + 1] = Message(t, n)
  BY <1>1, Sending
<1>4. \A i \in 1 .. Len(toHost') : i \in 1 .. Len(toHost) \/ i = Len(toHost) + 1
  BY <1>2, <1>3
<1>5. \A i \in 1 .. Len(toHost) : i \in 1 .. Len(toHost')
  BY <1>2, <1>3
<1>6. toHost'[Len(toHost) + 1].type = t /\ toHost'[Len(toHost) + 1].id = n
  BY <1>1, <1>3
<1>7. ASSUME NEW i \in 1 .. Len(toHost')
      PROVE  \/ i \in 1 .. Len(toHost) /\ toHost'[i] = toHost[i] /\ toHost'[i].id \in Nat
             \/ i = Len(toHost) + 1 /\ toHost'[i].type = t /\ toHost'[i].id = n
  <2>1. CASE i \in 1 .. Len(toHost)
    BY <2>1, <1>2, <1>3
  <2>2. CASE i = Len(toHost) + 1
    BY <2>2, <1>6
  <2> QED BY <2>1, <2>2, <1>4
<1>8. \A i \in 1 .. Len(toHost) : i \in 1 .. Len(toHost') /\ toHost'[i] = toHost[i]
  BY <1>3, <1>5
<1> QED BY <1>3, <1>6, <1>7, <1>8

\* A cancellation and a request.
LEMMA SendingBoth ==
  ASSUME QueuesOK, NEW k \in Nat, NEW n \in Nat, Send(<<Message("cancel", k), Message("upgrade", n)>>)
  PROVE  /\ toHost' \in Seq(HostMessages) /\ Len(toHost') = Len(toHost) + 2
         /\ \A i \in 1 .. Len(toHost) : i \in 1 .. Len(toHost') /\ toHost'[i] = toHost[i]
         /\ toHost'[Len(toHost) + 2].type = "upgrade" /\ toHost'[Len(toHost) + 2].id = n
         /\ \A i \in 1 .. Len(toHost') : \/ i \in 1 .. Len(toHost) /\ toHost'[i] = toHost[i] /\ toHost'[i].id \in Nat
                                         \/ i = Len(toHost) + 1 /\ toHost'[i].type = "cancel"
                                              /\ toHost'[i].id = k
                                         \/ i = Len(toHost) + 2 /\ toHost'[i].type = "upgrade"
                                              /\ toHost'[i].id = n
<1>1. /\ Message("cancel", k) \in HostMessages /\ Message("cancel", k).type = "cancel"
           /\ Message("cancel", k).id = k
      /\ Message("upgrade", n) \in HostMessages /\ Message("upgrade", n).type = "upgrade"
           /\ Message("upgrade", n).id = n
  BY Messages
<1>2. toHost \in Seq(HostMessages) /\ toHost' = toHost \o <<Message("cancel", k), Message("upgrade", n)>>
  BY DEF QueuesOK, Send
<1>3. Len(toHost) \in Nat /\ \A i \in 1 .. Len(toHost) : toHost[i].id \in Nat
  BY QueueFields
<1>4. /\ toHost' \in Seq(HostMessages) /\ Len(toHost') = Len(toHost) + 2
      /\ \A i \in 1 .. Len(toHost) : toHost'[i] = toHost[i]
      /\ toHost'[Len(toHost) + 1] = Message("cancel", k)
           /\ toHost'[Len(toHost) + 2] = Message("upgrade", n)
  BY <1>1, <1>2, AddTwo
<1>5. \A i \in 1 .. Len(toHost') : i \in 1 .. Len(toHost) \/ i = Len(toHost) + 1 \/ i = Len(toHost) + 2
  BY <1>3, <1>4
<1>6. \A i \in 1 .. Len(toHost) : i \in 1 .. Len(toHost')
  BY <1>3, <1>4
<1>7. /\ toHost'[Len(toHost) + 1].type = "cancel" /\ toHost'[Len(toHost) + 1].id = k
      /\ toHost'[Len(toHost) + 2].type = "upgrade" /\ toHost'[Len(toHost) + 2].id = n
  BY <1>1, <1>4
<1> QED BY <1>3, <1>4, <1>5, <1>6, <1>7

\* The host posts what is about a request or an analysis.
LEMMA PostingMessage ==
  ASSUME QueuesOK, NEW t \in {"analysis", "error", "busy", "stale"}, NEW n \in Nat,
           PostToView(<<Message(t, n)>>)
  PROVE  /\ toView' \in Seq(ViewMessages) /\ Len(toView') = Len(toView) + 1
         /\ \A i \in 1 .. Len(toView) : i \in 1 .. Len(toView') /\ toView'[i] = toView[i]
         /\ toView'[Len(toView) + 1].type = t /\ toView'[Len(toView) + 1].id = n
         /\ \A i \in 1 .. Len(toView') : \/ i \in 1 .. Len(toView) /\ toView'[i] = toView[i]
                                         \/ i = Len(toView) + 1 /\ toView'[i].type = t
                                              /\ toView'[i].id = n
<1>1. Message(t, n) \in ViewMessages /\ Message(t, n).type = t /\ Message(t, n).id = n
  BY Messages
<1>2. Len(toView) \in Nat
  BY DEF QueuesOK
<1>3. /\ toView' \in Seq(ViewMessages) /\ Len(toView') = Len(toView) + 1
      /\ \A i \in 1 .. Len(toView) : toView'[i] = toView[i]
      /\ toView'[Len(toView) + 1] = Message(t, n)
  BY <1>1, Posting
<1>4. \A i \in 1 .. Len(toView') : i \in 1 .. Len(toView) \/ i = Len(toView) + 1
  BY <1>2, <1>3
<1>5. \A i \in 1 .. Len(toView) : i \in 1 .. Len(toView')
  BY <1>2, <1>3
<1>6. toView'[Len(toView) + 1].type = t /\ toView'[Len(toView) + 1].id = n
  BY <1>1, <1>3
<1> QED BY <1>2, <1>3, <1>4, <1>5, <1>6

\* A message that is no request is added behind the requests, and does not change their order.
LEMMA NoRequestAdded ==
  ASSUME LastRequestIsLast, Len(toHost) \in Nat, Newest' = Newest, Len(toHost') = Len(toHost) + 1,
         \A i \in 1 .. Len(toHost) : i \in 1 .. Len(toHost') /\ toHost'[i] = toHost[i],
         toHost'[Len(toHost) + 1].type # "upgrade"
  PROVE  LastRequestIsLast'
<1>1. ASSUME NEW i \in 1 .. Len(toHost'), toHost'[i].type = "upgrade"
      PROVE  \/ toHost'[i].id = Newest' /\ \A j \in i + 1 .. Len(toHost') : toHost'[j].type # "upgrade"
             \/ toHost'[i].id # Newest'
                  /\ \E j \in i + 1 .. Len(toHost') : toHost'[j].type = "upgrade"
                       /\ toHost'[j].id = Newest'
  <2>1. i \in 1 .. Len(toHost) /\ toHost'[i] = toHost[i] /\ Upgrades(i)
    BY <1>1 DEF Upgrades
  <2>2. \A j \in i + 1 .. Len(toHost') : j \in i + 1 .. Len(toHost) \/ j = Len(toHost) + 1
    OBVIOUS
  <2>3. \A j \in i + 1 .. Len(toHost) : j \in 1 .. Len(toHost) /\ j \in i + 1 .. Len(toHost')
    OBVIOUS
  <2>4. CASE toHost[i].id = Newest
    BY <2>1, <2>2, <2>3, <2>4 DEF Upgrades, LastRequestIsLast
  <2>5. CASE toHost[i].id # Newest
    BY <2>1, <2>3, <2>5 DEF Upgrades, LastRequestIsLast
  <2> QED BY <2>4, <2>5
<1> QED BY <1>1 DEF LastRequestIsLast, Upgrades

\* A message that is taken leaves the rest in their order.
LEMMA RequestTaken ==
  ASSUME LastRequestIsLast, Len(toHost) \in Nat, Newest' = Newest, Len(toHost') \in Nat,
           Len(toHost') = Len(toHost) - 1,
         \A i \in 1 .. Len(toHost') : i + 1 \in 1 .. Len(toHost) /\ toHost'[i] = toHost[i + 1],
         \A i \in 2 .. Len(toHost) : i - 1 \in 1 .. Len(toHost') /\ toHost'[i - 1] = toHost[i]
  PROVE  LastRequestIsLast'
<1>1. ASSUME NEW i \in 1 .. Len(toHost'), toHost'[i].type = "upgrade"
      PROVE  \/ toHost'[i].id = Newest' /\ \A j \in i + 1 .. Len(toHost') : toHost'[j].type # "upgrade"
             \/ toHost'[i].id # Newest'
                  /\ \E j \in i + 1 .. Len(toHost') : toHost'[j].type = "upgrade"
                       /\ toHost'[j].id = Newest'
  <2>1. i + 1 \in 1 .. Len(toHost) /\ toHost'[i] = toHost[i + 1] /\ Upgrades(i + 1)
    BY <1>1 DEF Upgrades
  <2>2. CASE toHost[i + 1].id = Newest
    <3>1. \A j \in (i + 1) + 1 .. Len(toHost) : ~Upgrades(j)
      BY <2>1, <2>2 DEF LastRequestIsLast
    <3>2. \A j \in i + 1 .. Len(toHost') : j + 1 \in (i + 1) + 1 .. Len(toHost)
            /\ j \in 1 .. Len(toHost')
      OBVIOUS
    <3> QED BY <2>1, <2>2, <3>1, <3>2 DEF Upgrades
  <2>3. CASE toHost[i + 1].id # Newest
    <3>1. PICK j \in (i + 1) + 1 .. Len(toHost) : Upgrades(j) /\ toHost[j].id = Newest
      BY <2>1, <2>3 DEF LastRequestIsLast
    <3>2. j \in 2 .. Len(toHost) /\ j - 1 \in i + 1 .. Len(toHost')
      OBVIOUS
    <3> QED BY <2>1, <2>3, <3>1, <3>2 DEF Upgrades
  <2> QED BY <2>2, <2>3
<1> QED BY <1>1 DEF LastRequestIsLast, Upgrades

\* What the webview has left to hear, once it has taken a message.
Heard ==
  /\ Len(toView) \in Nat /\ Len(toView') \in Nat /\ Len(toView') = Len(toView) - 1
  /\ \A i \in 1 .. Len(toView') : i + 1 \in 1 .. Len(toView) /\ toView'[i] = toView[i + 1]
  /\ \A i \in 2 .. Len(toView) : i - 1 \in 1 .. Len(toView') /\ toView'[i - 1] = toView[i]
  /\ 1 \in 1 .. Len(toView)

\* Nothing is revoked by what was taken unless it revokes.
LEMMA RevokedLater ==
  ASSUME Heard, Newest' = Newest
  PROVE  /\ \A j \in 2 .. Len(toView) : Revokes(j) => j - 1 \in 1 .. Len(toView') /\ Revokes(j - 1)'
         /\ ~Revokes(1) /\ (\A j \in 1 .. Len(toView') : ~Revokes(j)') =>
              \A j \in 1 .. Len(toView) : ~Revokes(j)
<1>1. ASSUME NEW j \in 2 .. Len(toView), Revokes(j)
      PROVE  j - 1 \in 1 .. Len(toView') /\ Revokes(j - 1)'
  <2>1. j - 1 \in 1 .. Len(toView') /\ toView'[j - 1] = toView[j]
    BY DEF Heard
  <2> QED BY <2>1, <1>1 DEF Revokes
<1>2. ASSUME ~Revokes(1), \A j \in 1 .. Len(toView') : ~Revokes(j)', NEW j \in 1 .. Len(toView),
               Revokes(j)
      PROVE  FALSE
  <2>1. j \in 2 .. Len(toView)
    BY <1>2 DEF Heard
  <2> QED BY <2>1, <1>1, <1>2
<1> QED BY <1>1, <1>2

\* An analysis on its way stays kept while the webview hears something else.
LEMMA AnswerStays ==
  ASSUME AnswerIsKept, Heard, Newest' = Newest, keptReview' = keptReview,
         review'.request # 0 /\ review'.analysis = 0 => review.request # 0 /\ review.analysis = 0
  PROVE  AnswerIsKept'
<1> SUFFICES ASSUME review'.request # 0, review'.analysis = 0, NEW i \in 1 .. Len(toView'), Analyzed(i)'
             PROVE  /\ keptReview' = Newest' \/ \E j \in i + 1 .. Len(toView') : Revokes(j)'
                    /\ \A j \in i + 1 .. Len(toView') : toView'[j].type # "busy"
  BY DEF AnswerIsKept
<1>1. i + 1 \in 1 .. Len(toView) /\ Analyzed(i + 1)
  BY DEF Heard, Analyzed
<1>2. /\ keptReview = Newest \/ \E j \in (i + 1) + 1 .. Len(toView) : Revokes(j)
      /\ \A j \in (i + 1) + 1 .. Len(toView) : toView[j].type # "busy"
  BY <1>1 DEF AnswerIsKept
<1>3. ASSUME NEW j \in i + 1 .. Len(toView')
      PROVE  toView'[j].type # "busy"
  <2>1. j \in 1 .. Len(toView') /\ j + 1 \in (i + 1) + 1 .. Len(toView)
    BY DEF Heard
  <2> QED BY <2>1, <1>2 DEF Heard
<1>4. ASSUME NEW j \in (i + 1) + 1 .. Len(toView), Revokes(j)
      PROVE  j - 1 \in i + 1 .. Len(toView') /\ Revokes(j - 1)'
  <2>1. j \in 2 .. Len(toView) /\ j - 1 \in i + 1 .. Len(toView')
    BY DEF Heard
  <2> QED BY <2>1, <1>4, RevokedLater
<1> QED BY <1>2, <1>3, <1>4

\* What can be confirmed stays so while the webview hears something else.
LEMMA LiveStays ==
  ASSUME LiveIsKept, Heard, Newest' = Newest, UNCHANGED <<keptReview, changing, toHost>>,
         ~Revokes(1), toView[1].type # "busy",
         review'.analysis # 0 /\ review'.stale # review'.analysis =>
           review.analysis # 0 /\ review.stale # review.analysis /\ review'.busy = review.busy
  PROVE  LiveIsKept'
<1> SUFFICES ASSUME Live'
             PROVE  LiveIsKept'
  BY DEF LiveIsKept
<1>1. Live /\ review'.busy = review.busy
  BY RevokedLater DEF Live
<1>2. \A i \in 1 .. Len(toHost) : Confirms(i)' <=> Confirms(i)
  BY DEF Confirms
<1>3. Silent => Silent'
  BY <1>1 DEF Silent, Heard
<1>4. \A i \in 1 .. Len(toView') : toView'[i].type = "busy" => i + 1 \in 1 .. Len(toView)
        /\ toView[i + 1].type = "busy"
  BY DEF Heard
<1>5. \A i, j \in 1 .. Len(toView') : toView'[i].type = "busy" /\ toView'[j].type = "busy" => i = j
  <2> SUFFICES ASSUME NEW i \in 1 .. Len(toView'), NEW j \in 1 .. Len(toView'),
        toView'[i].type = "busy", toView'[j].type = "busy"
               PROVE  i = j
    OBVIOUS
  <2>1. i + 1 = j + 1
    BY <1>1, <1>4 DEF LiveIsKept
  <2> QED BY <2>1
<1>6. \A i \in 1 .. Len(toView') : toView'[i].type = "busy" => review'.busy
  BY <1>1, <1>4 DEF LiveIsKept
<1> QED BY <1>1, <1>2, <1>3, <1>5, <1>6 DEF LiveIsKept

\* Hearing something else brings no analysis.
LEMMA DoneStays ==
  ASSUME DoneIsAlone, Heard, Newest' = Newest, UNCHANGED <<toHost, keptReview, analyzing>>,
         review'.analysis # 0 => review.analysis # 0 \/ Analyzed(1)
  PROVE  DoneIsAlone'
<1>1. \A i \in 1 .. Len(toView') : Analyzed(i)' => i + 1 \in 1 .. Len(toView) /\ Analyzed(i + 1)
  BY DEF Heard, Analyzed
<1>2. Done' => Done
  BY <1>1 DEF Done, Heard
<1> QED BY <1>2 DEF DoneIsAlone, NoneWaits, Upgrades

\* What the host has left to handle, once it has taken a message.
Handled ==
  /\ Len(toHost) \in Nat /\ Len(toHost') \in Nat /\ Len(toHost') = Len(toHost) - 1
  /\ \A i \in 1 .. Len(toHost') : i + 1 \in 1 .. Len(toHost) /\ toHost'[i] = toHost[i + 1]
  /\ \A i \in 2 .. Len(toHost) : i - 1 \in 1 .. Len(toHost') /\ toHost'[i - 1] = toHost[i]
  /\ 1 \in 1 .. Len(toHost)

\* A tracked request stays open while the host takes a message.
LEMMA TrackedStaysOpen ==
  ASSUME TrackedIsOpen, Handled, Newest' = Newest, UNCHANGED <<review, changing>>
  PROVE  TrackedIsOpen'
<1> SUFFICES ASSUME review.request # 0
             PROVE  TrackedIsOpen'
  BY DEF TrackedIsOpen
<1>1. \A i \in 1 .. Len(toHost') : i + 1 \in 1 .. Len(toHost) /\ toHost'[i] = toHost[i + 1]
  BY DEF Handled
<1>2. \A i \in 1 .. Len(toHost') : ~(toHost'[i].type = "cancel" /\ toHost'[i].id = Newest)
  BY <1>1 DEF TrackedIsOpen
<1>3. review.analysis = 0 => \A i \in 1 .. Len(toHost') : ~(toHost'[i].type = "confirm" /\ toHost'[i].id = Newest)
  BY <1>1 DEF TrackedIsOpen, Confirms
<1> QED BY <1>2, <1>3 DEF TrackedIsOpen, Confirms

\* What the webview has to hear, once the host has posted something or nothing.
New == Len(toView) + 1 .. Len(toView')
Posted ==
  /\ toView' \in Seq(ViewMessages) /\ Len(toView) \in Nat /\ Len(toView') \in Nat
  /\ \A i \in 1 .. Len(toView) : i \in 1 .. Len(toView') /\ toView'[i] = toView[i]
  /\ \A i \in 1 .. Len(toView') : i \in 1 .. Len(toView) \/ i \in New
  /\ New \subseteq 1 .. Len(toView')

LEMMA NothingPosted ==
  ASSUME QueuesOK, toView' = toView
  PROVE  Posted /\ New = {}
BY QueueFields DEF QueuesOK, Posted, New

\* One message about a request or an analysis.
LEMMA PostedMessage ==
  ASSUME QueuesOK, NEW t \in {"analysis", "error", "busy", "stale"}, NEW n \in Nat,
           PostToView(<<Message(t, n)>>)
  PROVE  /\ Posted /\ New = {Len(toView) + 1}
         /\ toView'[Len(toView) + 1].type = t /\ toView'[Len(toView) + 1].id = n
<1>1. Len(toView) \in Nat
  BY QueueFields
<1>2. /\ toView' \in Seq(ViewMessages) /\ Len(toView') = Len(toView) + 1
      /\ \A i \in 1 .. Len(toView) : i \in 1 .. Len(toView') /\ toView'[i] = toView[i]
      /\ toView'[Len(toView) + 1].type = t /\ toView'[Len(toView) + 1].id = n
  BY PostingMessage
<1>3. New = {Len(toView) + 1} /\ Len(toView) + 1 \in 1 .. Len(toView')
  BY <1>1, <1>2 DEF New
<1>4. \A i \in 1 .. Len(toView') : i \in 1 .. Len(toView) \/ i = Len(toView) + 1
  BY <1>1, <1>2
<1> QED BY <1>1, <1>2, <1>3, <1>4 DEF Posted

\* Nothing is heard of a request that was not made.
LEMMA IdsStayReached ==
  ASSUME IdsReached, Posted, Newest' = Newest,
         analyzing'.request <= Newest /\ keptReview' <= Newest /\ changing' <= Newest,
         Handled \/ toHost' = toHost,
         \A i \in New : toView'[i].type \in {"analysis", "stale"} => toView'[i].id \in 1 .. Newest
  PROVE  IdsReached'
<1>1. \A i \in 1 .. Len(toHost') : /\ toHost'[i].type # "retry" => toHost'[i].id <= Newest
                                   /\ toHost'[i].type \in {"upgrade", "confirm"} => toHost'[i].id # 0
  <2>1. CASE Handled
    BY <2>1 DEF Handled, IdsReached
  <2>2. CASE toHost' = toHost
    BY <2>2 DEF IdsReached
  <2> QED BY <2>1, <2>2
<1>2. \A i \in 1 .. Len(toView') : toView'[i].type \in {"analysis", "stale"} =>
        toView'[i].id \in 1 .. Newest
  BY DEF Posted, IdsReached
<1> QED BY <1>1, <1>2 DEF IdsReached

\* An analysis on its way stays kept, or what is posted behind it revokes it.
LEMMA AnswerStaysBehind ==
  ASSUME AnswerIsKept, Posted, Newest' = Newest, UNCHANGED review,
         \A i \in New : toView'[i].type \notin {"analysis", "busy"},
         keptReview = Newest => keptReview' = Newest \/ \E j \in New : Revokes(j)'
  PROVE  AnswerIsKept'
<1> SUFFICES ASSUME review.request # 0, review.analysis = 0, NEW i \in 1 .. Len(toView'), Analyzed(i)'
             PROVE  /\ keptReview' = Newest' \/ \E j \in i + 1 .. Len(toView') : Revokes(j)'
                    /\ \A j \in i + 1 .. Len(toView') : toView'[j].type # "busy"
  BY DEF AnswerIsKept
<1>1. i \in 1 .. Len(toView) /\ Analyzed(i)
  BY DEF Posted, Analyzed
<1>2. /\ keptReview = Newest \/ \E j \in i + 1 .. Len(toView) : Revokes(j)
      /\ \A j \in i + 1 .. Len(toView) : toView[j].type # "busy"
  BY <1>1 DEF AnswerIsKept
<1>3. ASSUME NEW j \in i + 1 .. Len(toView')
      PROVE  toView'[j].type # "busy"
  <2>1. j \in 1 .. Len(toView')
    BY <1>1 DEF Posted
  <2>2. CASE j \in 1 .. Len(toView)
    <3>1. j \in i + 1 .. Len(toView)
      BY <1>1, <2>2 DEF Posted
    <3> QED BY <3>1, <2>2, <1>2 DEF Posted
  <2> QED BY <2>1, <2>2 DEF Posted
<1>4. ASSUME NEW j \in i + 1 .. Len(toView), Revokes(j)
      PROVE  j \in i + 1 .. Len(toView') /\ Revokes(j)'
  <2>1. j \in 1 .. Len(toView)
    BY <1>1 DEF Posted
  <2>2. j \in 1 .. Len(toView') /\ toView'[j] = toView[j]
    BY <2>1 DEF Posted
  <2>3. j \in i + 1 .. Len(toView')
    BY <1>1, <2>2 DEF Posted
  <2> QED BY <2>2, <2>3, <1>4 DEF Revokes
<1>5. \A j \in New : j \in i + 1 .. Len(toView')
  BY <1>1 DEF Posted, New
<1> QED BY <1>2, <1>3, <1>4, <1>5

\* The last request stays alone while nothing answers it.
LEMMA DoneStaysBehind ==
  ASSUME DoneIsAlone, Posted, Newest' = Newest, UNCHANGED review, Handled \/ toHost' = toHost,
         \A i \in New : toView'[i].type # "analysis",
         keptReview' \in {0, keptReview},
         \/ analyzing' = NoAttempt
         \/ analyzing' = analyzing
         \/ analyzing # NoAttempt /\ analyzing'.request = analyzing.request
              /\ analyzing'.settling = analyzing.settling
  PROVE  DoneIsAlone'
<1>1. Done' => Done
  BY DEF Done, Posted, Analyzed
<1>2. NoneWaits => NoneWaits'
  <2>1. CASE Handled
    BY <2>1 DEF Handled, NoneWaits, Upgrades
  <2>2. CASE toHost' = toHost
    BY <2>2 DEF NoneWaits, Upgrades
  <2> QED BY <2>1, <2>2
<1> QED BY <1>1, <1>2 DEF DoneIsAlone

\* What revokes the analysis leaves nothing to confirm, and what is new does not make it so.
LEMMA LiveBefore ==
  ASSUME Posted, Newest' = Newest, UNCHANGED review
  PROVE  Live' => Live /\ \A i \in New : ~Revokes(i)'
BY DEF Live, Posted, Revokes

\* What can be confirmed stays so while something else is posted.
LEMMA LiveStaysBehind ==
  ASSUME LiveIsKept, Posted, Newest' = Newest, UNCHANGED <<review, keptReview, changing>>, Handled
           \/ toHost' = toHost,
         \A i \in New : toView'[i].type # "busy"
  PROVE  LiveIsKept'
<1> SUFFICES ASSUME Live'
             PROVE  LiveIsKept'
  BY DEF LiveIsKept
<1>1. Live
  BY LiveBefore
<1>2. \A i \in 1 .. Len(toView') : toView'[i].type = "busy" => i \in 1 .. Len(toView)
        /\ toView[i].type = "busy"
  BY DEF Posted
<1>3. Silent => Silent'
  BY <1>2 DEF Silent
<1>4. CASE toHost' = toHost
  <2>1. \A i \in 1 .. Len(toHost) : Confirms(i)' <=> Confirms(i)
    BY <1>4 DEF Confirms
  <2> QED BY <1>1, <1>2, <1>3, <1>4, <2>1 DEF LiveIsKept
<1>5. CASE Handled
  <2>1. \A i \in 1 .. Len(toHost') : Confirms(i)' => i + 1 \in 1 .. Len(toHost) /\ Confirms(i + 1)
    BY <1>5 DEF Confirms, Handled
  <2>2. \A i, j \in 1 .. Len(toHost') : Confirms(i)' /\ Confirms(j)' => i = j
    <3> SUFFICES ASSUME NEW i \in 1 .. Len(toHost'), NEW j \in 1 .. Len(toHost'), Confirms(i)',
          Confirms(j)'
                 PROVE  i = j
      OBVIOUS
    <3>1. i + 1 = j + 1
      BY <2>1, <1>1 DEF LiveIsKept
    <3> QED BY <3>1
  <2> QED BY <1>1, <1>2, <1>3, <2>1, <2>2 DEF LiveIsKept
<1> QED BY <1>4, <1>5

\* One message of any kind.
LEMMA PostedOne ==
  ASSUME QueuesOK, NEW m \in ViewMessages, PostToView(<<m>>)
  PROVE  Posted /\ New = {Len(toView) + 1} /\ toView'[Len(toView) + 1] = m
<1>1. Len(toView) \in Nat
  BY QueueFields
<1>2. /\ toView' \in Seq(ViewMessages) /\ Len(toView') = Len(toView) + 1
      /\ \A i \in 1 .. Len(toView) : toView'[i] = toView[i]
      /\ toView'[Len(toView) + 1] = m
  BY Posting
<1>3. New = {Len(toView) + 1} /\ Len(toView) + 1 \in 1 .. Len(toView')
  BY <1>1, <1>2 DEF New
<1>4. \A i \in 1 .. Len(toView') : i \in 1 .. Len(toView) \/ i = Len(toView) + 1
  BY <1>1, <1>2
<1> QED BY <1>1, <1>2, <1>3, <1>4 DEF Posted

\* Two messages.
LEMMA PostedTwo ==
  ASSUME QueuesOK, NEW m \in ViewMessages, NEW n \in ViewMessages, PostToView(<<m, n>>)
  PROVE  /\ Posted /\ New = {Len(toView) + 1, Len(toView) + 2}
         /\ toView'[Len(toView) + 1] = m /\ toView'[Len(toView) + 2] = n
<1>1. Len(toView) \in Nat
  BY QueueFields
<1>2. /\ toView' \in Seq(ViewMessages) /\ Len(toView') = Len(toView) + 2
      /\ \A i \in 1 .. Len(toView) : toView'[i] = toView[i]
      /\ toView'[Len(toView) + 1] = m /\ toView'[Len(toView) + 2] = n
  BY PostingTwo
<1>3. New = {Len(toView) + 1, Len(toView) + 2} /\ New \subseteq 1 .. Len(toView')
  BY <1>1, <1>2 DEF New
<1>4. \A i \in 1 .. Len(toView') : i \in 1 .. Len(toView) \/ i = Len(toView) + 1 \/ i = Len(toView) + 2
  BY <1>1, <1>2
<1> QED BY <1>1, <1>2, <1>3, <1>4 DEF Posted

\* The messages of a refresh, and those with rows.
LEMMA RefreshMessages ==
  /\ \A n \in Nat, p \in ReviewPackages, r \in BOOLEAN, d \in Nat :
       [type |-> "result", id |-> n, package |-> p, refreshing |-> r, declared |-> d] \in ViewMessages
  /\ \A n \in Nat,
       o \in {"succeeded", "failed", "superseded"} : [type |-> "enriched", id |-> n,
         outcome |-> o] \in ViewMessages
  /\ \A r \in Rows : [type |-> "rows", rows |-> r] \in ViewMessages
BY DEF ViewMessages

\* One message after another.
LEMMA Joined ==
  ASSUME NEW m, NEW n
  PROVE  /\ <<m>> \o <<n>> = <<m, n>>
         /\ <<m>> \o << >> = <<m>> /\ << >> \o <<n>> = <<n>>
<1>1. <<m>> \o <<n>> = <<m, n>>
  <2> DEFINE s == <<m>> \o <<n>>
  <2>1. <<m>> \in Seq({m, n}) /\ <<n>> \in Seq({m, n}) /\ <<m, n>> \in Seq({m, n})
    OBVIOUS
  <2>2. s \in Seq({m, n}) /\ Len(s) = 2 /\ s[1] = m /\ s[2] = n
    BY <2>1, ConcatProperties
  <2>3. Len(s) = Len(<<m, n>>) /\ \A i \in 1 .. Len(s) : s[i] = <<m, n>>[i]
    BY <2>2
  <2> HIDE DEF s
  <2>4. s = <<m, n>>
    BY <2>1, <2>2, <2>3, SeqEqual
  <2> QED BY <2>4 DEF s
<1>2. <<m>> \o << >> = <<m>>
  OBVIOUS
<1>3. << >> \o <<n>> = <<n>>
  OBVIOUS
<1> QED BY <1>1, <1>2, <1>3

-----------------------------------------------------------------------------
(* Every step keeps the invariant *)

\* A request: everything on its way is about earlier ones.
LEMMA RequestUpgradeKeeps ==
  ASSUME ReviewIInv, NEW p \in ReviewPackages, RequestUpgrade(p)
  PROVE  ReviewIInv'
<1>1. /\ QueuesOK /\ RowsOK /\ ReviewOK /\ HostOK /\ IdsReached
      /\ EmptyIsNotReady /\ RefreshHasCard /\ RowsStayQuarantined
      /\ LastRequestIsLast /\ LastIsHandled /\ DoneIsAlone /\ TrackedIsOpen /\ AnswerIsKept /\ LiveIsKept
  BY DEF ReviewIInv
<1>2. UNCHANGED <<analyzing, changing, derived, display, heard, hostRows, keptReview, lifecycle, toView>>
  BY DEF RequestUpgrade, hostAnalysis, hostRefresh
<1>3. /\ \A i \in 1 .. Len(toHost) : toHost[i].id \in Nat
      /\ \A i \in 1 .. Len(toView) : toView[i].type # "rows" => toView[i].id \in Nat
  BY <1>1, QueueFields
<1>4. /\ Newest \in Nat /\ requested \in Seq(ReviewPackages) /\ Len(requested) \in Nat
           /\ review.analysis \in Nat /\ review.request \in Nat /\ review.busy \in BOOLEAN
      /\ Len(toHost) \in Nat /\ Len(toView) \in Nat /\ keptReview \in Nat /\ changing \in Nat
           /\ analyzing.request \in Nat
  BY <1>1, QueueFields DEF QueuesOK, ReviewOK, HostOK, Newest
<1>5. requested' \in Seq(ReviewPackages) /\ Newest' = Newest + 1
  BY <1>4 DEF RequestUpgrade, Newest
<1>6. Send(<<Message("upgrade", Newest + 1)>>)
  BY DEF RequestUpgrade, Newest
<1>7. /\ toHost' \in Seq(HostMessages) /\ Len(toHost') = Len(toHost) + 1
      /\ \A i \in 1 .. Len(toHost) : i \in 1 .. Len(toHost') /\ toHost'[i] = toHost[i]
      /\ toHost'[Len(toHost) + 1].type = "upgrade" /\ toHost'[Len(toHost) + 1].id = Newest'
      /\ \A i \in 1 .. Len(toHost') : \/ i \in 1 .. Len(toHost) /\ toHost'[i] = toHost[i] /\ toHost'[i].id \in Nat
                                      \/ i = Len(toHost) + 1 /\ toHost'[i].type = "upgrade"
                                           /\ toHost'[i].id = Newest'
  BY <1>1, <1>4, <1>5, <1>6, SendingMessage
<1>8. review' = [package |-> p, request |-> Newest', analysis |-> 0, stale |-> 0, busy |-> FALSE]
        /\ refresh' = NoRefresh
  BY <1>4, <1>5 DEF RequestUpgrade, NoReview, Newest
<1>9. \A i \in 1 .. Len(toHost) :
        /\ toHost[i].type # "retry" => toHost[i].id < Newest'
        /\ toHost[i].type \in {"upgrade", "confirm"} => toHost[i].id # 0
  BY <1>1, <1>4, <1>5, RequestsAreOlder
<1>10. \A i \in 1 .. Len(toHost') :
         /\ toHost'[i].type # "retry" => toHost'[i].id <= Newest'
         /\ toHost'[i].type \in {"cancel", "confirm"} => toHost'[i].id # Newest'
         /\ toHost'[i].type \in {"upgrade", "confirm"} => toHost'[i].id # 0
         /\ toHost'[i].type = "upgrade" => i = Len(toHost) + 1 \/ toHost'[i].id # Newest'
  <2> SUFFICES ASSUME NEW i \in 1 .. Len(toHost')
               PROVE  /\ toHost'[i].type # "retry" => toHost'[i].id <= Newest'
                      /\ toHost'[i].type \in {"cancel", "confirm"} => toHost'[i].id # Newest'
                      /\ toHost'[i].type \in {"upgrade", "confirm"} => toHost'[i].id # 0
                      /\ toHost'[i].type = "upgrade" => i = Len(toHost) + 1 \/ toHost'[i].id # Newest'
    OBVIOUS
  <2>1. CASE i \in 1 .. Len(toHost) /\ toHost'[i] = toHost[i] /\ toHost'[i].id \in Nat
    <3>1. /\ toHost[i].type # "retry" => toHost[i].id < Newest'
          /\ toHost[i].type \in {"upgrade", "confirm"} => toHost[i].id # 0
      BY <2>1, <1>9
    <3>2. toHost'[i].type # "retry" => toHost'[i].id <= Newest' /\ toHost'[i].id # Newest'
      BY <2>1, <3>1, <1>4, <1>5
    <3> QED BY <2>1, <3>1, <3>2
  <2>2. CASE i = Len(toHost) + 1 /\ toHost'[i].type = "upgrade" /\ toHost'[i].id = Newest'
    BY <2>2, <1>4, <1>5
  <2> QED BY <2>1, <2>2, <1>7
<1>11. (HostOK /\ EmptyIsNotReady)'
  BY <1>1, <1>2 DEF HostOK, EmptyIsNotReady
<1>12. QueuesOK'
  BY <1>1, <1>2, <1>5, <1>7 DEF QueuesOK, IdsReached
<1>13. RowsOK'
  BY <1>1, <1>2, <1>8 DEF RowsOK, IdsReached, NoRefresh, NoRows, Rows, NoPackage
<1>14. ReviewOK'
  BY <1>4, <1>5, <1>8, ReviewAssumption DEF ReviewOK, NoPackage
<1>15. IdsReached'
  <2>1. \A i \in 1 .. Len(toView) : toView[i].type \in {"analysis", "stale"} =>
          toView[i].id \in 1 .. Newest'
    BY <1>1, <1>3, <1>4, <1>5 DEF IdsReached
  <2>2. analyzing.request < Newest' /\ keptReview < Newest' /\ changing < Newest'
    BY <1>1, <1>4, <1>5 DEF IdsReached
  <2> QED BY <2>1, <2>2, <1>2, <1>10, <1>4, <1>5 DEF IdsReached
<1>16. RefreshHasCard'
  BY <1>8 DEF RefreshHasCard, IdsReached, NoRefresh
<1>17. RowsStayQuarantined'
  BY <1>8 DEF RowsStayQuarantined, IdsReached, NoRefresh, NoRows
<1>18. LastRequestIsLast'
  <2>1. /\ toHost'[Len(toHost) + 1].type = "upgrade" /\ toHost'[Len(toHost) + 1].id = Newest'
        /\ Len(toHost) + 1 \in 1 .. Len(toHost') /\ Len(toHost') = Len(toHost) + 1
    BY <1>4, <1>7
  <2>2. \A i \in 1 .. Len(toHost') : toHost'[i].type = "upgrade" =>
          i = Len(toHost) + 1 \/ toHost'[i].id # Newest'
    BY <1>10
  <2>3. ASSUME NEW i \in 1 .. Len(toHost')
        PROVE  i = Len(toHost) + 1 \/ Len(toHost) + 1 \in i + 1 .. Len(toHost')
    BY <1>4, <2>1
  <2>4. \A j \in Len(toHost) + 1 + 1 .. Len(toHost') : FALSE
    BY <1>4, <2>1
  <2> QED BY <2>1, <2>2, <2>3, <2>4 DEF LastRequestIsLast, Upgrades
<1>19. LastIsHandled'
  BY <1>1, <1>2, <1>4, <1>5 DEF LastIsHandled, IdsReached, NoneWaits, Upgrades
<1>20. DoneIsAlone'
  BY <1>1, <1>2, <1>4, <1>5, <1>8, <1>9 DEF DoneIsAlone, IdsReached, Done, Analyzed, NoneWaits, Upgrades
<1>21. TrackedIsOpen'
  <2>1. changing' < Newest'
    BY <1>1, <1>2, <1>4, <1>5 DEF IdsReached
  <2>2. changing' # Newest'
    BY <2>1, <1>2, <1>4, <1>5
  <2>3. \A i \in 1 .. Len(toHost') : ~(toHost'[i].type = "cancel" /\ toHost'[i].id = Newest') /\ ~Confirms(i)'
    BY <1>10 DEF Confirms
  <2> QED BY <2>2, <2>3 DEF TrackedIsOpen
<1>22. AnswerIsKept'
  BY <1>1, <1>2, <1>4, <1>5 DEF AnswerIsKept, IdsReached, Analyzed, Revokes
<1>23. LiveIsKept'
  BY <1>8 DEF LiveIsKept, IdsReached, Live, Silent, Revokes, Confirms
<1> QED
  BY <1>11, <1>12, <1>13, <1>14, <1>15, <1>16, <1>17, <1>18, <1>19, <1>20, <1>21, <1>22, <1>23
  DEF ReviewIInv

\* A cancellation closes the review.
LEMMA CancelUpgradeKeeps ==
  ASSUME ReviewIInv, CancelUpgrade
  PROVE  ReviewIInv'
<1>1. /\ QueuesOK /\ RowsOK /\ ReviewOK /\ HostOK /\ IdsReached
      /\ EmptyIsNotReady /\ RefreshHasCard /\ RowsStayQuarantined
      /\ LastRequestIsLast /\ LastIsHandled /\ DoneIsAlone /\ TrackedIsOpen /\ AnswerIsKept /\ LiveIsKept
  BY DEF ReviewIInv
<1>2. UNCHANGED <<analyzing, changing, derived, display, heard, hostRows, keptReview, lifecycle,
                  refresh, requested, toView>>
  BY DEF CancelUpgrade, hostAnalysis, hostRefresh
<1>3. /\ \A i \in 1 .. Len(toHost) : toHost[i].id \in Nat
      /\ \A i \in 1 .. Len(toView) : toView[i].type # "rows" => toView[i].id \in Nat
  BY <1>1, QueueFields
<1>4. /\ Newest \in Nat /\ requested \in Seq(ReviewPackages) /\ Len(requested) \in Nat
           /\ review.analysis \in Nat /\ review.request \in Nat /\ review.busy \in BOOLEAN
      /\ Len(toHost) \in Nat /\ Len(toView) \in Nat /\ keptReview \in Nat /\ changing \in Nat
           /\ analyzing.request \in Nat
  BY <1>1, QueueFields DEF QueuesOK, ReviewOK, HostOK, Newest
<1>5. Newest' = Newest
  BY <1>2 DEF Newest
<1>6. Send(<<Message("cancel", review.analysis)>>)
  BY DEF CancelUpgrade, CancelMessage
<1>7. /\ toHost' \in Seq(HostMessages) /\ Len(toHost') = Len(toHost) + 1
      /\ \A i \in 1 .. Len(toHost) : i \in 1 .. Len(toHost') /\ toHost'[i] = toHost[i]
      /\ toHost'[Len(toHost) + 1].type = "cancel" /\ toHost'[Len(toHost) + 1].id = review.analysis
      /\ \A i \in 1 .. Len(toHost') : \/ i \in 1 .. Len(toHost) /\ toHost'[i] = toHost[i] /\ toHost'[i].id \in Nat
                                      \/ i = Len(toHost) + 1 /\ toHost'[i].type = "cancel"
                                           /\ toHost'[i].id = review.analysis
  BY <1>1, <1>4, <1>6, SendingMessage
<1>8. review' = [package |-> NoPackage, request |-> 0, analysis |-> 0, stale |-> 0, busy |-> FALSE]
  BY DEF CancelUpgrade, NoReview
<1>9. (RowsOK /\ HostOK /\ EmptyIsNotReady /\ RefreshHasCard /\ RowsStayQuarantined)'
  BY <1>1, <1>2 DEF RowsOK, HostOK, EmptyIsNotReady, RefreshHasCard, RowsStayQuarantined
<1>10. QueuesOK'
  BY <1>1, <1>2, <1>7 DEF QueuesOK
<1>11. ReviewOK'
  BY <1>8 DEF ReviewOK
<1>12. IdsReached'
  <2>1. review.analysis <= Newest
    BY <1>1, <1>4 DEF ReviewOK
  <2> QED BY <2>1, <1>1, <1>2, <1>4, <1>5, <1>7, IdsStaySent
<1>13. LastRequestIsLast'
  BY <1>1, <1>4, <1>5, <1>7, NoRequestAdded
<1>14. LastIsHandled'
  BY <1>1, <1>2, <1>5, <1>7 DEF LastIsHandled, NoneWaits, Upgrades
<1>15. DoneIsAlone'
  BY <1>1, <1>2, <1>5, <1>7, <1>8 DEF DoneIsAlone, Done, Analyzed, NoneWaits, Upgrades
<1>16. TrackedIsOpen'
  BY <1>8 DEF TrackedIsOpen, Confirms
<1>17. AnswerIsKept'
  BY <1>8 DEF AnswerIsKept, Analyzed, Revokes
<1>18. LiveIsKept'
  BY <1>8 DEF LiveIsKept, Live, Silent, Revokes, Confirms
<1> QED
  BY <1>9, <1>10, <1>11, <1>12, <1>13, <1>14, <1>15, <1>16, <1>17, <1>18 DEF ReviewIInv

\* A new analysis of the same package.
LEMMA RefreshAnalysisKeeps ==
  ASSUME ReviewIInv, RefreshAnalysis
  PROVE  ReviewIInv'
<1>1. /\ QueuesOK /\ RowsOK /\ ReviewOK /\ HostOK /\ IdsReached
      /\ EmptyIsNotReady /\ RefreshHasCard /\ RowsStayQuarantined
      /\ LastRequestIsLast /\ LastIsHandled /\ DoneIsAlone /\ TrackedIsOpen /\ AnswerIsKept /\ LiveIsKept
  BY DEF ReviewIInv
<1>2. UNCHANGED <<analyzing, changing, derived, display, heard, hostRows, keptReview, lifecycle, toView>>
  BY DEF RefreshAnalysis, hostAnalysis, hostRefresh
<1>3. /\ \A i \in 1 .. Len(toHost) : toHost[i].id \in Nat
      /\ \A i \in 1 .. Len(toView) : toView[i].type # "rows" => toView[i].id \in Nat
  BY <1>1, QueueFields
<1>4. /\ Newest \in Nat /\ requested \in Seq(ReviewPackages) /\ Len(requested) \in Nat
           /\ review.analysis \in Nat /\ review.request \in Nat /\ review.busy \in BOOLEAN
      /\ Len(toHost) \in Nat /\ Len(toView) \in Nat /\ keptReview \in Nat /\ changing \in Nat
           /\ analyzing.request \in Nat
  BY <1>1, QueueFields DEF QueuesOK, ReviewOK, HostOK, Newest
<1>5. requested' \in Seq(ReviewPackages) /\ Newest' = Newest + 1 /\ review.package \in ReviewPackages
        /\ review.analysis <= Newest
  BY <1>1, <1>4 DEF RefreshAnalysis, Newest, ReviewOK
<1>6. Send(<<Message("cancel", review.analysis), Message("upgrade", Newest + 1)>>)
  BY DEF RefreshAnalysis, CancelMessage, Newest
<1>7. /\ toHost' \in Seq(HostMessages) /\ Len(toHost') = Len(toHost) + 2
      /\ \A i \in 1 .. Len(toHost) : i \in 1 .. Len(toHost') /\ toHost'[i] = toHost[i]
      /\ toHost'[Len(toHost) + 2].type = "upgrade" /\ toHost'[Len(toHost) + 2].id = Newest'
      /\ \A i \in 1 .. Len(toHost') : \/ i \in 1 .. Len(toHost) /\ toHost'[i] = toHost[i] /\ toHost'[i].id \in Nat
                                      \/ i = Len(toHost) + 1 /\ toHost'[i].type = "cancel"
                                           /\ toHost'[i].id = review.analysis
                                      \/ i = Len(toHost) + 2 /\ toHost'[i].type = "upgrade"
                                           /\ toHost'[i].id = Newest'
  <2>1. Newest + 1 \in Nat /\ Newest' = Newest + 1
    BY <1>4, <1>5
  <2>2. Send(<<Message("cancel", review.analysis), Message("upgrade", Newest')>>)
    BY <2>1, <1>6
  <2>3. review.analysis \in Nat /\ Newest' \in Nat
    BY <2>1, <1>4
  <2> QED BY <2>2, <2>3, <1>1, SendingBoth
<1>8. review' = [package |-> review.package, request |-> Newest', analysis |-> 0, stale |-> 0,
        busy |-> FALSE] /\ refresh' = NoRefresh
  BY <1>4, <1>5 DEF RefreshAnalysis, NoReview, Newest
<1>9. \A i \in 1 .. Len(toHost) :
        /\ toHost[i].type # "retry" => toHost[i].id < Newest'
        /\ toHost[i].type \in {"upgrade", "confirm"} => toHost[i].id # 0
  BY <1>1, <1>4, <1>5, RequestsAreOlder
<1>10. \A i \in 1 .. Len(toHost') :
         /\ toHost'[i].type # "retry" => toHost'[i].id <= Newest'
         /\ toHost'[i].type \in {"cancel", "confirm"} => toHost'[i].id # Newest'
         /\ toHost'[i].type \in {"upgrade", "confirm"} => toHost'[i].id # 0
         /\ toHost'[i].type = "upgrade" => i = Len(toHost) + 2 \/ toHost'[i].id # Newest'
  <2>1. review.analysis < Newest'
    BY <1>1, <1>4, <1>5 DEF ReviewOK
  <2>2. ASSUME NEW i \in 1 .. Len(toHost')
        PROVE  /\ toHost'[i].type # "retry" => toHost'[i].id <= Newest'
               /\ toHost'[i].type \in {"cancel", "confirm"} => toHost'[i].id # Newest'
               /\ toHost'[i].type \in {"upgrade", "confirm"} => toHost'[i].id # 0
               /\ toHost'[i].type = "upgrade" => i = Len(toHost) + 2 \/ toHost'[i].id # Newest'
    <3>1. CASE i \in 1 .. Len(toHost) /\ toHost'[i] = toHost[i] /\ toHost'[i].id \in Nat
      <4>1. /\ toHost[i].type # "retry" => toHost[i].id < Newest'
            /\ toHost[i].type \in {"upgrade", "confirm"} => toHost[i].id # 0
        BY <3>1, <1>9
      <4>2. Newest' \in Nat
        BY <1>4, <1>5
      <4>3. toHost'[i].type # "retry" => toHost'[i].id <= Newest' /\ toHost'[i].id # Newest'
        BY <3>1, <4>1, <4>2
      <4> QED BY <3>1, <4>1, <4>3
    <3>2. CASE i = Len(toHost) + 1 /\ toHost'[i].type = "cancel" /\ toHost'[i].id = review.analysis
      BY <3>2, <2>1, <1>4, <1>5
    <3>3. CASE i = Len(toHost) + 2 /\ toHost'[i].type = "upgrade" /\ toHost'[i].id = Newest'
      BY <3>3, <1>4, <1>5
    <3> QED BY <3>1, <3>2, <3>3, <1>7
  <2> QED BY <2>2
<1>11. (HostOK /\ EmptyIsNotReady)'
  BY <1>1, <1>2 DEF HostOK, EmptyIsNotReady
<1>12. QueuesOK'
  BY <1>1, <1>2, <1>5, <1>7 DEF QueuesOK, IdsReached
<1>13. RowsOK'
  BY <1>1, <1>2, <1>8 DEF RowsOK, IdsReached, NoRefresh, NoRows, Rows, NoPackage
<1>14. ReviewOK'
  BY <1>4, <1>5, <1>8, ReviewAssumption DEF ReviewOK, NoPackage
<1>15. IdsReached'
  <2>1. \A i \in 1 .. Len(toView) : toView[i].type \in {"analysis", "stale"} =>
          toView[i].id \in 1 .. Newest'
    BY <1>1, <1>3, <1>4, <1>5 DEF IdsReached
  <2>2. analyzing.request < Newest' /\ keptReview < Newest' /\ changing < Newest'
    BY <1>1, <1>4, <1>5 DEF IdsReached
  <2> QED BY <2>1, <2>2, <1>2, <1>10, <1>4, <1>5 DEF IdsReached
<1>16. RefreshHasCard'
  BY <1>8 DEF RefreshHasCard, IdsReached, NoRefresh
<1>17. RowsStayQuarantined'
  BY <1>8 DEF RowsStayQuarantined, IdsReached, NoRefresh, NoRows
<1>18. LastRequestIsLast'
  <2>1. /\ toHost'[Len(toHost) + 2].type = "upgrade" /\ toHost'[Len(toHost) + 2].id = Newest'
        /\ Len(toHost) + 2 \in 1 .. Len(toHost') /\ Len(toHost') = Len(toHost) + 2
    BY <1>4, <1>7
  <2>2. \A i \in 1 .. Len(toHost') : toHost'[i].type = "upgrade" =>
          i = Len(toHost) + 2 \/ toHost'[i].id # Newest'
    BY <1>10
  <2>3. ASSUME NEW i \in 1 .. Len(toHost')
        PROVE  i = Len(toHost) + 2 \/ Len(toHost) + 2 \in i + 1 .. Len(toHost')
    BY <1>4, <2>1
  <2>4. \A j \in Len(toHost) + 2 + 1 .. Len(toHost') : FALSE
    BY <1>4, <2>1
  <2> QED BY <2>1, <2>2, <2>3, <2>4 DEF LastRequestIsLast, Upgrades
<1>19. LastIsHandled'
  BY <1>1, <1>2, <1>4, <1>5 DEF LastIsHandled, IdsReached, NoneWaits, Upgrades
<1>20. DoneIsAlone'
  BY <1>1, <1>2, <1>4, <1>5, <1>8 DEF DoneIsAlone, IdsReached, Done, Analyzed, NoneWaits, Upgrades
<1>21. TrackedIsOpen'
  <2>1. changing' < Newest'
    BY <1>1, <1>2, <1>4, <1>5 DEF IdsReached
  <2>2. changing' # Newest'
    BY <2>1, <1>2, <1>4, <1>5
  <2>3. \A i \in 1 .. Len(toHost') : ~(toHost'[i].type = "cancel" /\ toHost'[i].id = Newest') /\ ~Confirms(i)'
    BY <1>10 DEF Confirms
  <2> QED BY <2>2, <2>3 DEF TrackedIsOpen
<1>22. AnswerIsKept'
  BY <1>1, <1>2, <1>4, <1>5 DEF AnswerIsKept, IdsReached, Analyzed, Revokes
<1>23. LiveIsKept'
  BY <1>8 DEF LiveIsKept, IdsReached, Live, Silent, Revokes, Confirms
<1> QED
  BY <1>11, <1>12, <1>13, <1>14, <1>15, <1>16, <1>17, <1>18, <1>19, <1>20, <1>21, <1>22, <1>23
  DEF ReviewIInv

\* A confirmation of what is on screen.
LEMMA ConfirmUpgradeKeeps ==
  ASSUME ReviewIInv, ConfirmUpgrade
  PROVE  ReviewIInv'
<1>1. /\ QueuesOK /\ RowsOK /\ ReviewOK /\ HostOK /\ IdsReached
      /\ EmptyIsNotReady /\ RefreshHasCard /\ RowsStayQuarantined
      /\ LastRequestIsLast /\ LastIsHandled /\ DoneIsAlone /\ TrackedIsOpen /\ AnswerIsKept /\ LiveIsKept
  BY DEF ReviewIInv
<1>2. UNCHANGED <<analyzing, changing, derived, display, heard, hostRows, keptReview, lifecycle,
                  refresh, requested, toView>>
  BY DEF ConfirmUpgrade, hostAnalysis, hostRefresh
<1>3. /\ \A i \in 1 .. Len(toHost) : toHost[i].id \in Nat
      /\ \A i \in 1 .. Len(toView) : toView[i].type # "rows" => toView[i].id \in Nat
  BY <1>1, QueueFields
<1>4. /\ Newest \in Nat /\ requested \in Seq(ReviewPackages) /\ Len(requested) \in Nat
           /\ review.analysis \in Nat /\ review.request \in Nat /\ review.busy \in BOOLEAN
      /\ Len(toHost) \in Nat /\ Len(toView) \in Nat /\ keptReview \in Nat /\ changing \in Nat
           /\ analyzing.request \in Nat
  BY <1>1, QueueFields DEF QueuesOK, ReviewOK, HostOK, Newest
<1>5. Newest' = Newest
  BY <1>2 DEF Newest
<1>6. Send(<<Message("confirm", review.analysis)>>)
  BY DEF ConfirmUpgrade
<1>7. /\ toHost' \in Seq(HostMessages) /\ Len(toHost') = Len(toHost) + 1
      /\ \A i \in 1 .. Len(toHost) : i \in 1 .. Len(toHost') /\ toHost'[i] = toHost[i]
      /\ toHost'[Len(toHost) + 1].type = "confirm" /\ toHost'[Len(toHost) + 1].id = review.analysis
      /\ \A i \in 1 .. Len(toHost') : \/ i \in 1 .. Len(toHost) /\ toHost'[i] = toHost[i] /\ toHost'[i].id \in Nat
                                      \/ i = Len(toHost) + 1 /\ toHost'[i].type = "confirm"
                                           /\ toHost'[i].id = review.analysis
  BY <1>1, <1>4, <1>6, SendingMessage
<1>8. /\ review.analysis # 0 /\ review.stale # review.analysis /\ ~review.busy
      /\ review'.package = review.package /\ review'.request = review.request
           /\ review'.analysis = review.analysis
      /\ review'.stale = review.stale /\ review'.busy = TRUE
  BY <1>1 DEF ConfirmUpgrade, ReviewOK
<1>9. review.analysis = Newest /\ review.request = Newest
  BY <1>1, <1>4, <1>8 DEF ReviewOK
<1>10. (RowsOK /\ HostOK /\ EmptyIsNotReady /\ RefreshHasCard /\ RowsStayQuarantined)'
  BY <1>1, <1>2 DEF RowsOK, HostOK, EmptyIsNotReady, RefreshHasCard, RowsStayQuarantined
<1>11. QueuesOK'
  BY <1>1, <1>2, <1>7 DEF QueuesOK
<1>12. ReviewOK'
  BY <1>1, <1>5 DEF ReviewOK, ConfirmUpgrade
<1>13. IdsReached'
  <2>1. review.analysis <= Newest /\ review.analysis # 0
    BY <1>4, <1>8, <1>9
  <2> QED BY <2>1, <1>1, <1>2, <1>4, <1>5, <1>7, IdsStaySent
<1>14. LastRequestIsLast'
  BY <1>1, <1>4, <1>5, <1>7, NoRequestAdded
<1>15. LastIsHandled'
  BY <1>1, <1>2, <1>5, <1>7 DEF LastIsHandled, NoneWaits, Upgrades
<1>16. DoneIsAlone'
  BY <1>1, <1>2, <1>3, <1>5, <1>7, <1>8 DEF DoneIsAlone, Done, Analyzed, NoneWaits, Upgrades
<1>17. TrackedIsOpen'
  BY <1>1, <1>5, <1>7, <1>8 DEF TrackedIsOpen, Confirms
<1>18. AnswerIsKept'
  BY <1>8 DEF AnswerIsKept, Analyzed, Revokes
<1>19. LiveIsKept'
  <2> SUFFICES ASSUME Live'
               PROVE  LiveIsKept'
    BY DEF LiveIsKept
  <2>1. Live
    BY <1>2, <1>5, <1>8 DEF Live, Revokes
  <2>2. ~Silent
    BY <1>8 DEF Silent
  <2>3. keptReview = Newest /\ changing # Newest /\ \A i \in 1 .. Len(toHost) : ~Confirms(i)
    BY <2>1, <2>2, <1>1 DEF LiveIsKept
  <2>4. Silent'
    BY <2>1, <1>1, <1>2, <1>8 DEF LiveIsKept, Silent
  <2>5. \A i \in 1 .. Len(toHost') : Confirms(i)' => i = Len(toHost) + 1
    BY <2>3, <1>5, <1>7 DEF Confirms
  <2>6. \A i, j \in 1 .. Len(toHost') : Confirms(i)' /\ Confirms(j)' => i = j
    BY <2>5
  <2>7. keptReview' = Newest' /\ changing' # Newest' /\ review'.busy
    BY <2>3, <1>2, <1>5, <1>8
  <2>8. \A i \in 1 .. Len(toView') : toView'[i].type # "busy"
    BY <2>4 DEF Silent
  <2> QED BY <2>4, <2>6, <2>7, <2>8 DEF LiveIsKept
<1> QED
  BY <1>10, <1>11, <1>12, <1>13, <1>14, <1>15, <1>16, <1>17, <1>18, <1>19 DEF ReviewIInv

\* Another package's card closes this one's refresh.
LEMMA OpenManageKeeps ==
  ASSUME ReviewIInv, NEW p \in ReviewPackages, OpenManage(p)
  PROVE  ReviewIInv'
<1>1. /\ QueuesOK /\ RowsOK /\ ReviewOK /\ HostOK /\ IdsReached
      /\ EmptyIsNotReady /\ RefreshHasCard /\ RowsStayQuarantined
      /\ LastRequestIsLast /\ LastIsHandled /\ DoneIsAlone /\ TrackedIsOpen /\ AnswerIsKept /\ LiveIsKept
  BY DEF ReviewIInv
<1>2. UNCHANGED <<analyzing, changing, derived, display, heard, hostRows, keptReview, lifecycle,
                  requested, review, toHost, toView>>
  BY DEF OpenManage, hostAnalysis, hostRefresh
<1>3. /\ \A i \in 1 .. Len(toHost) : toHost[i].id \in Nat
      /\ \A i \in 1 .. Len(toView) : toView[i].type # "rows" => toView[i].id \in Nat
  BY <1>1, QueueFields
<1>4. /\ Newest \in Nat /\ requested \in Seq(ReviewPackages) /\ Len(requested) \in Nat
           /\ review.analysis \in Nat /\ review.request \in Nat /\ review.busy \in BOOLEAN
      /\ Len(toHost) \in Nat /\ Len(toView) \in Nat /\ keptReview \in Nat /\ changing \in Nat
           /\ analyzing.request \in Nat
  BY <1>1, QueueFields DEF QueuesOK, ReviewOK, HostOK, Newest
<1>5. Newest' = Newest
  BY <1>2 DEF Newest
<1>6. (QueuesOK /\ ReviewOK /\ HostOK /\ IdsReached /\ EmptyIsNotReady /\ LastRequestIsLast
         /\ LastIsHandled /\ DoneIsAlone /\ TrackedIsOpen /\ AnswerIsKept /\ LiveIsKept)'
  BY <1>1, <1>2, <1>5
  DEF QueuesOK, ReviewOK, HostOK, IdsReached, EmptyIsNotReady, LastRequestIsLast, Upgrades,
    LastIsHandled, NoneWaits, DoneIsAlone, Done, Analyzed, TrackedIsOpen, Confirms, AnswerIsKept,
      Revokes, LiveIsKept, Live, Silent
<1>7. RowsOK'
  BY <1>1, <1>2, <1>3, <1>4, <1>5 DEF RowsOK, OpenManage, NoRefresh, NoRows, Rows
<1>8. RefreshHasCard'
  BY <1>1, <1>2, <1>3, <1>4, <1>5 DEF RefreshHasCard, OpenManage, NoRefresh
<1>9. RowsStayQuarantined'
  BY <1>1, <1>2, <1>3, <1>4, <1>5 DEF RowsStayQuarantined, OpenManage, NoRefresh, NoRows
<1> QED
  BY <1>6, <1>7, <1>8, <1>9 DEF ReviewIInv

\* A retry of the refresh.
LEMMA RetryEnrichmentKeeps ==
  ASSUME ReviewIInv, RetryEnrichment
  PROVE  ReviewIInv'
<1>1. /\ QueuesOK /\ RowsOK /\ ReviewOK /\ HostOK /\ IdsReached
      /\ EmptyIsNotReady /\ RefreshHasCard /\ RowsStayQuarantined
      /\ LastRequestIsLast /\ LastIsHandled /\ DoneIsAlone /\ TrackedIsOpen /\ AnswerIsKept /\ LiveIsKept
  BY DEF ReviewIInv
<1>2. UNCHANGED <<analyzing, changing, derived, display, heard, hostRows, keptReview, lifecycle,
                  requested, review, toView>>
  BY DEF RetryEnrichment, hostAnalysis, hostRefresh
<1>3. /\ \A i \in 1 .. Len(toHost) : toHost[i].id \in Nat
      /\ \A i \in 1 .. Len(toView) : toView[i].type # "rows" => toView[i].id \in Nat
  BY <1>1, QueueFields
<1>4. /\ Newest \in Nat /\ requested \in Seq(ReviewPackages) /\ Len(requested) \in Nat
           /\ review.analysis \in Nat /\ review.request \in Nat /\ review.busy \in BOOLEAN
      /\ Len(toHost) \in Nat /\ Len(toView) \in Nat /\ keptReview \in Nat /\ changing \in Nat
           /\ analyzing.request \in Nat
  BY <1>1, QueueFields DEF QueuesOK, ReviewOK, HostOK, Newest
<1>5. Newest' = Newest
  BY <1>2 DEF Newest
<1>6. Send(<<Message("retry", refresh.id)>>) /\ refresh.id \in Nat
  BY <1>1 DEF RetryEnrichment, RowsOK
<1>7. /\ toHost' \in Seq(HostMessages) /\ Len(toHost') = Len(toHost) + 1
      /\ \A i \in 1 .. Len(toHost) : i \in 1 .. Len(toHost') /\ toHost'[i] = toHost[i]
      /\ toHost'[Len(toHost) + 1].type = "retry" /\ toHost'[Len(toHost) + 1].id = refresh.id
      /\ \A i \in 1 .. Len(toHost') : \/ i \in 1 .. Len(toHost) /\ toHost'[i] = toHost[i] /\ toHost'[i].id \in Nat
                                      \/ i = Len(toHost) + 1 /\ toHost'[i].type = "retry"
                                           /\ toHost'[i].id = refresh.id
  BY <1>1, <1>4, <1>6, SendingMessage
<1>8. (ReviewOK /\ HostOK /\ EmptyIsNotReady /\ AnswerIsKept)'
  BY <1>1, <1>2, <1>5 DEF ReviewOK, HostOK, EmptyIsNotReady, AnswerIsKept, Analyzed, Revokes
<1>9. QueuesOK'
  BY <1>1, <1>2, <1>7 DEF QueuesOK
<1>10. RowsOK'
  BY <1>1 DEF RowsOK, RetryEnrichment, NoRows, Rows
<1>11. IdsReached'
  BY <1>1, <1>2, <1>5, <1>7 DEF IdsReached
<1>12. RefreshHasCard'
  BY <1>1 DEF RefreshHasCard, RetryEnrichment
<1>13. RowsStayQuarantined'
  BY <1>1 DEF RowsStayQuarantined, RetryEnrichment, NoRows
<1>14. LastRequestIsLast'
  BY <1>1, <1>4, <1>5, <1>7, NoRequestAdded
<1>15. LastIsHandled'
  BY <1>1, <1>2, <1>5, <1>7 DEF LastIsHandled, NoneWaits, Upgrades
<1>16. DoneIsAlone'
  BY <1>1, <1>2, <1>5, <1>7 DEF DoneIsAlone, Done, Analyzed, NoneWaits, Upgrades
<1>17. TrackedIsOpen'
  BY <1>1, <1>2, <1>5, <1>7 DEF TrackedIsOpen, Confirms
<1>18. LiveIsKept'
  <2>1. \A i \in 1 .. Len(toHost') : Confirms(i)' => i \in 1 .. Len(toHost) /\ Confirms(i)
    BY <1>5, <1>7 DEF Confirms
  <2>2. (Live' <=> Live) /\ (Silent' <=> Silent)
    BY <1>2, <1>5 DEF Live, Silent, Revokes
  <2> QED BY <1>1, <1>2, <1>5, <2>1, <2>2 DEF LiveIsKept
<1> QED
  BY <1>8, <1>9, <1>10, <1>11, <1>12, <1>13, <1>14, <1>15, <1>16, <1>17, <1>18 DEF ReviewIInv

\* The analysis of the tracked request arrives: it is the one the host kept, or is revoked behind it.
LEMMA ShowAnalysisKeeps ==
  ASSUME ReviewIInv, ShowAnalysis
  PROVE  ReviewIInv'
<1>1. /\ QueuesOK /\ RowsOK /\ ReviewOK /\ HostOK /\ IdsReached
      /\ EmptyIsNotReady /\ RefreshHasCard /\ RowsStayQuarantined
      /\ LastRequestIsLast /\ LastIsHandled /\ DoneIsAlone /\ TrackedIsOpen /\ AnswerIsKept /\ LiveIsKept
  BY DEF ReviewIInv
<1>2. UNCHANGED <<analyzing, changing, derived, display, heard, hostRows, keptReview, lifecycle,
                  refresh, requested, toHost>>
  BY DEF ShowAnalysis, hostAnalysis, hostRefresh
<1>3. /\ \A i \in 1 .. Len(toHost) : toHost[i].id \in Nat
      /\ \A i \in 1 .. Len(toView) : toView[i].type # "rows" => toView[i].id \in Nat
  BY <1>1, QueueFields
<1>4. /\ Newest \in Nat /\ requested \in Seq(ReviewPackages) /\ Len(requested) \in Nat
           /\ review.analysis \in Nat /\ review.request \in Nat /\ review.busy \in BOOLEAN
      /\ Len(toHost) \in Nat /\ Len(toView) \in Nat /\ keptReview \in Nat /\ changing \in Nat
           /\ analyzing.request \in Nat
  BY <1>1, QueueFields DEF QueuesOK, ReviewOK, HostOK, Newest
<1>5. Newest' = Newest
  BY <1>2 DEF Newest
<1>6. ViewReceives("analysis")
  BY DEF ShowAnalysis
<1>7. /\ toView' \in Seq(ViewMessages) /\ Len(toView') \in Nat /\ Len(toView') = Len(toView) - 1
      /\ \A i \in 1 .. Len(toView') : i + 1 \in 1 .. Len(toView) /\ toView'[i] = toView[i + 1]
      /\ \A i \in 2 .. Len(toView) : i - 1 \in 1 .. Len(toView') /\ toView'[i - 1] = toView[i]
      /\ 1 \in 1 .. Len(toView) /\ Head(toView) = toView[1] /\ toView[1] \in ViewMessages
           /\ toView[1].type = "analysis"
  BY <1>1, <1>6, Hearing
<1>8. Heard
  BY <1>4, <1>7 DEF Heard
<1>9. toView[1].id \in 1 .. Newest
  BY <1>1, <1>7 DEF IdsReached
<1>10. /\ review' \in [package : ReviewPackages \cup {NoPackage}, request : Nat, analysis : Nat,
            stale : Nat, busy : BOOLEAN]
       /\ review'.package = review.package /\ review'.request = review.request
            /\ review'.stale = review.stale /\ review'.busy = review.busy
       /\ \/ review.request = toView[1].id /\ review'.analysis = review.request
          \/ review.request # toView[1].id /\ review'.analysis = review.analysis
  BY <1>1, <1>4, <1>7 DEF ReviewOK, ShowAnalysis
<1>11. (RowsOK /\ HostOK /\ RefreshHasCard /\ RowsStayQuarantined /\ LastRequestIsLast /\ LastIsHandled)'
  BY <1>1, <1>2, <1>5
  DEF RowsOK, HostOK, RefreshHasCard, RowsStayQuarantined, LastRequestIsLast, Upgrades, LastIsHandled,
    NoneWaits
<1>12. QueuesOK'
  BY <1>1, <1>2, <1>7 DEF QueuesOK
<1>13. ReviewOK'
  BY <1>1, <1>5, <1>10 DEF ReviewOK
<1>14. IdsReached'
  BY <1>1, <1>2, <1>5, <1>7 DEF IdsReached
<1>15. EmptyIsNotReady'
  BY <1>1, <1>2, <1>7, <1>8, <1>9 DEF EmptyIsNotReady
<1>16. DoneIsAlone'
  BY <1>1, <1>2, <1>5, <1>7, <1>8, <1>10, DoneStays DEF Analyzed, ReviewOK
<1>17. TrackedIsOpen'
  BY <1>1, <1>2, <1>5, <1>10 DEF TrackedIsOpen, ReviewOK, Confirms
<1>18. AnswerIsKept'
  BY <1>1, <1>2, <1>5, <1>8, <1>10, AnswerStays DEF ReviewOK
<1>19. LiveIsKept'
  <2>1. CASE review'.analysis = review.analysis
    BY <2>1, <1>1, <1>2, <1>5, <1>7, <1>8, <1>10, LiveStays DEF Revokes
  <2>2. CASE review'.analysis # review.analysis
    <3>1. review.analysis = 0 /\ review.request # 0 /\ review'.analysis = Newest /\ Analyzed(1)
      BY <2>2, <1>1, <1>7, <1>10 DEF ReviewOK, Analyzed
    <3>2. /\ keptReview = Newest \/ \E j \in 2 .. Len(toView) : Revokes(j)
          /\ \A j \in 2 .. Len(toView) : toView[j].type # "busy"
      <4>1. 1 \in 1 .. Len(toView) /\ review.request # 0 /\ review.analysis = 0
        BY <3>1, <1>7
      <4>2. /\ keptReview = Newest \/ \E j \in 1 + 1 .. Len(toView) : Revokes(j)
            /\ \A j \in 1 + 1 .. Len(toView) : toView[j].type # "busy"
        BY <3>1, <4>1, <1>1 DEF AnswerIsKept
      <4>3. 1 + 1 = 2
        OBVIOUS
      <4> QED BY <4>2, <4>3
    <3>3. changing # Newest /\ \A i \in 1 .. Len(toHost) : ~Confirms(i)
      BY <3>1, <1>1 DEF TrackedIsOpen
    <3>4. Live' => keptReview = Newest
      BY <3>2, <1>5, <1>8, RevokedLater DEF Live
    <3>5. \A i \in 1 .. Len(toView') : toView'[i].type # "busy"
      BY <3>2, <1>4, <1>7
    <3> QED BY <3>3, <3>4, <3>5, <1>2, <1>5 DEF LiveIsKept, Confirms
  <2> QED BY <2>1, <2>2
<1> QED
  BY <1>11, <1>12, <1>13, <1>14, <1>15, <1>16, <1>17, <1>18, <1>19 DEF ReviewIInv

\* An error closes the review, a refused confirmation leaves it to be confirmed again.
LEMMA ShowErrorKeeps ==
  ASSUME ReviewIInv, ShowError
  PROVE  ReviewIInv'
<1>1. /\ QueuesOK /\ RowsOK /\ ReviewOK /\ HostOK /\ IdsReached
      /\ EmptyIsNotReady /\ RefreshHasCard /\ RowsStayQuarantined
      /\ LastRequestIsLast /\ LastIsHandled /\ DoneIsAlone /\ TrackedIsOpen /\ AnswerIsKept /\ LiveIsKept
  BY DEF ReviewIInv
<1>2. UNCHANGED <<analyzing, changing, derived, display, heard, hostRows, keptReview, lifecycle,
                  refresh, requested, toHost>>
  BY DEF ShowError, hostAnalysis, hostRefresh
<1>3. /\ \A i \in 1 .. Len(toHost) : toHost[i].id \in Nat
      /\ \A i \in 1 .. Len(toView) : toView[i].type # "rows" => toView[i].id \in Nat
  BY <1>1, QueueFields
<1>4. /\ Newest \in Nat /\ requested \in Seq(ReviewPackages) /\ Len(requested) \in Nat
           /\ review.analysis \in Nat /\ review.request \in Nat /\ review.busy \in BOOLEAN
      /\ Len(toHost) \in Nat /\ Len(toView) \in Nat /\ keptReview \in Nat /\ changing \in Nat
           /\ analyzing.request \in Nat
  BY <1>1, QueueFields DEF QueuesOK, ReviewOK, HostOK, Newest
<1>5. Newest' = Newest
  BY <1>2 DEF Newest
<1>6. PICK t \in {"error", "busy"} : ViewReceives(t)
  BY DEF ShowError
<1>7. /\ toView' \in Seq(ViewMessages) /\ Len(toView') \in Nat /\ Len(toView') = Len(toView) - 1
      /\ \A i \in 1 .. Len(toView') : i + 1 \in 1 .. Len(toView) /\ toView'[i] = toView[i + 1]
      /\ \A i \in 2 .. Len(toView) : i - 1 \in 1 .. Len(toView') /\ toView'[i - 1] = toView[i]
      /\ 1 \in 1 .. Len(toView) /\ Head(toView) = toView[1] /\ toView[1] \in ViewMessages
           /\ toView[1].type = t
  BY <1>1, <1>6, Hearing
<1>8. Heard
  BY <1>4, <1>7 DEF Heard
<1>9. \/ /\ t = "error"
         /\ review' = [package |-> NoPackage, request |-> 0, analysis |-> 0, stale |-> 0, busy |-> FALSE]
      \/ /\ t = "busy"
              /\ review' \in [package : ReviewPackages \cup {NoPackage}, request : Nat, analysis : Nat,
                   stale : Nat, busy : BOOLEAN]
         /\ review'.package = review.package /\ review'.request = review.request
              /\ review'.analysis = review.analysis
         /\ review'.stale = review.stale /\ review'.busy = FALSE
  BY <1>1, <1>4, <1>6, <1>7 DEF ReviewOK, ShowError, NoReview
<1>10. (RowsOK /\ HostOK /\ RefreshHasCard /\ RowsStayQuarantined /\ LastRequestIsLast /\ LastIsHandled)'
  BY <1>1, <1>2, <1>5
  DEF RowsOK, HostOK, RefreshHasCard, RowsStayQuarantined, LastRequestIsLast, Upgrades, LastIsHandled,
    NoneWaits
<1>11. QueuesOK'
  BY <1>1, <1>2, <1>7 DEF QueuesOK
<1>12. ReviewOK'
  <2>1. CASE t = "error"
    <3>1. review' = [package |-> NoPackage, request |-> 0, analysis |-> 0, stale |-> 0, busy |-> FALSE]
      BY <2>1, <1>9
    <3> QED BY <3>1, <1>4, <1>5 DEF ReviewOK
  <2>2. CASE t = "busy"
    BY <2>2, <1>1, <1>5, <1>9 DEF ReviewOK
  <2> QED BY <2>1, <2>2
<1>13. IdsReached'
  BY <1>1, <1>2, <1>5, <1>7 DEF IdsReached
<1>14. EmptyIsNotReady'
  BY <1>1, <1>2, <1>7 DEF EmptyIsNotReady
<1>15. DoneIsAlone'
  BY <1>1, <1>2, <1>5, <1>8, <1>9, DoneStays
<1>16. TrackedIsOpen'
  BY <1>1, <1>2, <1>5, <1>9 DEF TrackedIsOpen, Confirms
<1>17. AnswerIsKept'
  BY <1>1, <1>2, <1>5, <1>8, <1>9, AnswerStays DEF ReviewOK
<1>18. LiveIsKept'
  <2>1. CASE t = "error"
    BY <2>1, <1>9 DEF LiveIsKept, Live
  <2>2. CASE t = "busy"
    <3>1. Live' => Live
      BY <2>2, <1>5, <1>7, <1>8, <1>9, RevokedLater DEF Live, Revokes
    <3>2. Live => ~Silent /\ review.busy /\ \A i \in 1 .. Len(toView') : toView'[i].type # "busy"
      <4>1. Live => \A i \in 2 .. Len(toView) : toView[i].type # "busy"
        BY <2>2, <1>1, <1>4, <1>7 DEF LiveIsKept
      <4> QED BY <2>2, <4>1, <1>1, <1>4, <1>7 DEF LiveIsKept, Silent
    <3> QED BY <3>1, <3>2, <1>1, <1>2, <1>5 DEF LiveIsKept, Confirms
  <2> QED BY <2>1, <2>2
<1> QED
  BY <1>10, <1>11, <1>12, <1>13, <1>14, <1>15, <1>16, <1>17, <1>18 DEF ReviewIInv

\* A revocation arrives: the analysis it names cannot be confirmed any more.
LEMMA ShowStaleKeeps ==
  ASSUME ReviewIInv, ShowStale
  PROVE  ReviewIInv'
<1>1. /\ QueuesOK /\ RowsOK /\ ReviewOK /\ HostOK /\ IdsReached
      /\ EmptyIsNotReady /\ RefreshHasCard /\ RowsStayQuarantined
      /\ LastRequestIsLast /\ LastIsHandled /\ DoneIsAlone /\ TrackedIsOpen /\ AnswerIsKept /\ LiveIsKept
  BY DEF ReviewIInv
<1>2. UNCHANGED <<analyzing, changing, derived, display, heard, hostRows, keptReview, lifecycle,
                  refresh, requested, toHost>>
  BY DEF ShowStale, hostAnalysis, hostRefresh
<1>3. /\ \A i \in 1 .. Len(toHost) : toHost[i].id \in Nat
      /\ \A i \in 1 .. Len(toView) : toView[i].type # "rows" => toView[i].id \in Nat
  BY <1>1, QueueFields
<1>4. /\ Newest \in Nat /\ requested \in Seq(ReviewPackages) /\ Len(requested) \in Nat
           /\ review.analysis \in Nat /\ review.request \in Nat /\ review.busy \in BOOLEAN
      /\ Len(toHost) \in Nat /\ Len(toView) \in Nat /\ keptReview \in Nat /\ changing \in Nat
           /\ analyzing.request \in Nat
  BY <1>1, QueueFields DEF QueuesOK, ReviewOK, HostOK, Newest
<1>5. Newest' = Newest
  BY <1>2 DEF Newest
<1>6. ViewReceives("stale")
  BY DEF ShowStale
<1>7. /\ toView' \in Seq(ViewMessages) /\ Len(toView') \in Nat /\ Len(toView') = Len(toView) - 1
      /\ \A i \in 1 .. Len(toView') : i + 1 \in 1 .. Len(toView) /\ toView'[i] = toView[i + 1]
      /\ \A i \in 2 .. Len(toView) : i - 1 \in 1 .. Len(toView') /\ toView'[i - 1] = toView[i]
      /\ 1 \in 1 .. Len(toView) /\ Head(toView) = toView[1] /\ toView[1] \in ViewMessages
           /\ toView[1].type = "stale"
  BY <1>1, <1>6, Hearing
<1>8. Heard
  BY <1>4, <1>7 DEF Heard
<1>9. toView[1].id \in 1 .. Newest
  BY <1>1, <1>7 DEF IdsReached
<1>10. /\ review' \in [package : ReviewPackages \cup {NoPackage}, request : Nat, analysis : Nat,
            stale : Nat, busy : BOOLEAN]
       /\ review'.package = review.package /\ review'.request = review.request
            /\ review'.analysis = review.analysis /\ review'.busy = review.busy
       /\ review'.stale = IF toView[1].id = review.analysis THEN review.analysis ELSE review.stale
  BY <1>1, <1>4, <1>7 DEF ReviewOK, ShowStale
<1>11. (RowsOK /\ HostOK /\ RefreshHasCard /\ RowsStayQuarantined /\ LastRequestIsLast /\ LastIsHandled)'
  BY <1>1, <1>2, <1>5
  DEF RowsOK, HostOK, RefreshHasCard, RowsStayQuarantined, LastRequestIsLast, Upgrades, LastIsHandled,
    NoneWaits
<1>12. QueuesOK'
  BY <1>1, <1>2, <1>7 DEF QueuesOK
<1>13. ReviewOK'
  BY <1>1, <1>5, <1>10 DEF ReviewOK
<1>14. IdsReached'
  BY <1>1, <1>2, <1>5, <1>7 DEF IdsReached
<1>15. EmptyIsNotReady'
  BY <1>1, <1>2, <1>7, <1>8 DEF EmptyIsNotReady
<1>16. DoneIsAlone'
  BY <1>1, <1>2, <1>5, <1>8, <1>10, DoneStays
<1>17. TrackedIsOpen'
  BY <1>1, <1>2, <1>5, <1>10 DEF TrackedIsOpen, Confirms
<1>18. AnswerIsKept'
  BY <1>1, <1>2, <1>5, <1>8, <1>10, AnswerStays
<1>19. LiveIsKept'
  <2>1. CASE toView[1].id = review.analysis
    BY <2>1, <1>10 DEF LiveIsKept, Live
  <2>2. CASE toView[1].id # review.analysis
    <3>1. review.analysis # 0 => toView[1].id # Newest
      BY <2>2, <1>1, <1>4 DEF ReviewOK
    <3>2. CASE review.analysis = 0
      BY <3>2, <1>10 DEF LiveIsKept, Live
    <3>3. CASE review.analysis # 0
      BY <3>1, <3>3, <1>1, <1>2, <1>5, <1>7, <1>8, <1>10, LiveStays DEF Revokes
    <3> QED BY <3>2, <3>3
  <2> QED BY <2>1, <2>2
<1> QED
  BY <1>11, <1>12, <1>13, <1>14, <1>15, <1>16, <1>17, <1>18, <1>19 DEF ReviewIInv

\* The result of a change closes its review and lays its facts over the rows.
LEMMA ShowResultKeeps ==
  ASSUME ReviewIInv, ShowResult
  PROVE  ReviewIInv'
<1>1. /\ QueuesOK /\ RowsOK /\ ReviewOK /\ HostOK /\ IdsReached
      /\ EmptyIsNotReady /\ RefreshHasCard /\ RowsStayQuarantined
      /\ LastRequestIsLast /\ LastIsHandled /\ DoneIsAlone /\ TrackedIsOpen /\ AnswerIsKept /\ LiveIsKept
  BY DEF ReviewIInv
<1>2. UNCHANGED <<analyzing, changing, derived, heard, hostRows, keptReview, lifecycle, requested,
                  toHost>>
  BY DEF ShowResult, hostAnalysis, hostRefresh
<1>3. /\ \A i \in 1 .. Len(toHost) : toHost[i].id \in Nat
      /\ \A i \in 1 .. Len(toView) : toView[i].type # "rows" => toView[i].id \in Nat
  BY <1>1, QueueFields
<1>4. /\ Newest \in Nat /\ requested \in Seq(ReviewPackages) /\ Len(requested) \in Nat
           /\ review.analysis \in Nat /\ review.request \in Nat /\ review.busy \in BOOLEAN
      /\ Len(toHost) \in Nat /\ Len(toView) \in Nat /\ keptReview \in Nat /\ changing \in Nat
           /\ analyzing.request \in Nat
  BY <1>1, QueueFields DEF QueuesOK, ReviewOK, HostOK, Newest
<1>5. Newest' = Newest
  BY <1>2 DEF Newest
<1>6. ViewReceives("result")
  BY DEF ShowResult
<1>7. /\ toView' \in Seq(ViewMessages) /\ Len(toView') \in Nat /\ Len(toView') = Len(toView) - 1
      /\ \A i \in 1 .. Len(toView') : i + 1 \in 1 .. Len(toView) /\ toView'[i] = toView[i + 1]
      /\ \A i \in 2 .. Len(toView) : i - 1 \in 1 .. Len(toView') /\ toView'[i - 1] = toView[i]
      /\ 1 \in 1 .. Len(toView) /\ Head(toView) = toView[1] /\ toView[1] \in ViewMessages
           /\ toView[1].type = "result"
  BY <1>1, <1>6, Hearing
<1>8. Heard
  BY <1>4, <1>7 DEF Heard
<1>9. toView[1].id \in Nat /\ toView[1].package \in ReviewPackages
        /\ toView[1].refreshing \in BOOLEAN /\ toView[1].declared \in Nat
  BY <1>7, MessageFields
<1>10. /\ review' = [package |-> NoPackage, request |-> 0, analysis |-> 0, stale |-> 0, busy |-> FALSE]
       /\ refresh' = [phase |-> IF toView[1].refreshing THEN "refreshing" ELSE "none",
            id |-> toView[1].id,
                      package |-> toView[1].package, card |-> TRUE, held |-> NoRows]
       /\ display' = IF display.scan = 0 THEN display ELSE [status |-> "stale",
            declared |-> toView[1].declared, scan |-> display.scan]
  BY <1>7 DEF ShowResult, NoReview
<1>11. (HostOK /\ LastRequestIsLast /\ LastIsHandled)'
  BY <1>1, <1>2, <1>5 DEF HostOK, LastRequestIsLast, Upgrades, LastIsHandled, NoneWaits
<1>12. QueuesOK'
  BY <1>1, <1>2, <1>7 DEF QueuesOK
<1>13. RowsOK'
  BY <1>1, <1>2, <1>9, <1>10 DEF RowsOK, NoRows, Rows
<1>14. ReviewOK'
  BY <1>10 DEF ReviewOK
<1>15. IdsReached'
  BY <1>1, <1>2, <1>5, <1>7 DEF IdsReached
<1>16. EmptyIsNotReady'
  BY <1>1, <1>2, <1>7, <1>10 DEF EmptyIsNotReady
<1>17. RefreshHasCard'
  BY <1>10 DEF RefreshHasCard
<1>18. RowsStayQuarantined'
  BY <1>1, <1>10 DEF RowsStayQuarantined, EmptyIsNotReady, NoRows
<1>19. DoneIsAlone'
  BY <1>1, <1>2, <1>5, <1>8, <1>10, DoneStays
<1>20. TrackedIsOpen'
  BY <1>10 DEF TrackedIsOpen, Confirms
<1>21. AnswerIsKept'
  BY <1>10 DEF AnswerIsKept, Analyzed, Revokes
<1>22. LiveIsKept'
  BY <1>10 DEF LiveIsKept, Live, Silent, Revokes, Confirms
<1> QED
  BY <1>11, <1>12, <1>13, <1>14, <1>15, <1>16, <1>17, <1>18, <1>19, <1>20, <1>21, <1>22 DEF ReviewIInv

\* The end of its own refresh publishes the rows it held back.
LEMMA ShowEnrichmentKeeps ==
  ASSUME ReviewIInv, ShowEnrichment
  PROVE  ReviewIInv'
<1>1. /\ QueuesOK /\ RowsOK /\ ReviewOK /\ HostOK /\ IdsReached
      /\ EmptyIsNotReady /\ RefreshHasCard /\ RowsStayQuarantined
      /\ LastRequestIsLast /\ LastIsHandled /\ DoneIsAlone /\ TrackedIsOpen /\ AnswerIsKept /\ LiveIsKept
  BY DEF ReviewIInv
<1>2. UNCHANGED <<analyzing, changing, derived, heard, hostRows, keptReview, lifecycle, requested,
                  review, toHost>>
  BY DEF ShowEnrichment, hostAnalysis, hostRefresh
<1>3. /\ \A i \in 1 .. Len(toHost) : toHost[i].id \in Nat
      /\ \A i \in 1 .. Len(toView) : toView[i].type # "rows" => toView[i].id \in Nat
  BY <1>1, QueueFields
<1>4. /\ Newest \in Nat /\ requested \in Seq(ReviewPackages) /\ Len(requested) \in Nat
           /\ review.analysis \in Nat /\ review.request \in Nat /\ review.busy \in BOOLEAN
      /\ Len(toHost) \in Nat /\ Len(toView) \in Nat /\ keptReview \in Nat /\ changing \in Nat
           /\ analyzing.request \in Nat
  BY <1>1, QueueFields DEF QueuesOK, ReviewOK, HostOK, Newest
<1>5. Newest' = Newest
  BY <1>2 DEF Newest
<1>6. ViewReceives("enriched")
  BY DEF ShowEnrichment
<1>7. /\ toView' \in Seq(ViewMessages) /\ Len(toView') \in Nat /\ Len(toView') = Len(toView) - 1
      /\ \A i \in 1 .. Len(toView') : i + 1 \in 1 .. Len(toView) /\ toView'[i] = toView[i + 1]
      /\ \A i \in 2 .. Len(toView) : i - 1 \in 1 .. Len(toView') /\ toView'[i - 1] = toView[i]
      /\ 1 \in 1 .. Len(toView) /\ Head(toView) = toView[1] /\ toView[1] \in ViewMessages
           /\ toView[1].type = "enriched"
  BY <1>1, <1>6, Hearing
<1>8. Heard
  BY <1>4, <1>7 DEF Heard
<1>9. toView[1].id \in Nat /\ refresh.held \in Rows /\ display \in Rows
  BY <1>1, <1>7, MessageFields DEF RowsOK
<1>10. /\ refresh' \in [phase : {"none", "refreshing", "failed", "superseded"}, id : Nat,
                       package : ReviewPackages \cup {NoPackage}, card : BOOLEAN, held : Rows]
       /\ refresh'.card = refresh.card
       /\ \/ refresh'.phase = refresh.phase /\ refresh'.held = refresh.held /\ display' = display
          \/ refresh.phase = "refreshing" /\ refresh'.phase = "none" /\ refresh'.held = NoRows
             /\ display' = (IF refresh.held.scan # 0 THEN refresh.held ELSE display)
          \/ refresh.phase = "refreshing" /\ refresh'.phase \in {"superseded", "failed"}
               /\ refresh'.held = refresh.held
             /\ display' = display
  <2>1. CASE ~(refresh.phase = "refreshing" /\ refresh.id = toView[1].id)
    BY <2>1, <1>1, <1>7 DEF ShowEnrichment, RowsOK
  <2>2. CASE refresh.phase = "refreshing" /\ refresh.id = toView[1].id /\ toView[1].outcome = "succeeded"
    BY <2>2, <1>1, <1>7 DEF ShowEnrichment, RowsOK, NoRows, Rows
  <2>3. CASE refresh.phase = "refreshing" /\ refresh.id = toView[1].id /\ toView[1].outcome # "succeeded"
    BY <2>3, <1>1, <1>7 DEF ShowEnrichment, RowsOK
  <2> QED BY <2>1, <2>2, <2>3
<1>11. (ReviewOK /\ HostOK /\ LastRequestIsLast /\ LastIsHandled /\ TrackedIsOpen)'
  BY <1>1, <1>2, <1>5
  DEF ReviewOK, HostOK, LastRequestIsLast, Upgrades, LastIsHandled, NoneWaits, TrackedIsOpen, Confirms
<1>12. QueuesOK'
  BY <1>1, <1>2, <1>7 DEF QueuesOK
<1>13. RowsOK'
  BY <1>1, <1>2, <1>10 DEF RowsOK, NoRows, Rows
<1>14. IdsReached'
  BY <1>1, <1>2, <1>5, <1>7 DEF IdsReached
<1>15. EmptyIsNotReady'
  BY <1>1, <1>2, <1>3, <1>7, <1>10 DEF EmptyIsNotReady
<1>16. RefreshHasCard'
  BY <1>1, <1>10 DEF RefreshHasCard, RowsOK
<1>17. RowsStayQuarantined'
  <2>1. CASE refresh'.phase = refresh.phase /\ refresh'.held = refresh.held /\ display' = display
    BY <2>1, <1>1, <1>2 DEF RowsStayQuarantined
  <2>2. CASE refresh'.phase = "none" /\ refresh'.held = NoRows
    BY <2>2 DEF RowsStayQuarantined, NoRows
  <2>3. CASE /\ refresh.phase = "refreshing" /\ refresh'.phase \in {"superseded", "failed"}
             /\ refresh'.held = refresh.held /\ display' = display
    BY <2>3, <1>1, <1>2 DEF RowsStayQuarantined
  <2> QED BY <2>1, <2>2, <2>3, <1>10
<1>18. DoneIsAlone'
  BY <1>1, <1>2, <1>5, <1>8, DoneStays
<1>19. AnswerIsKept'
  BY <1>1, <1>2, <1>4, <1>5, <1>8, AnswerStays
<1>20. LiveIsKept'
  BY <1>1, <1>2, <1>5, <1>7, <1>8, LiveStays DEF Revokes
<1> QED
  BY <1>11, <1>12, <1>13, <1>14, <1>15, <1>16, <1>17, <1>18, <1>19, <1>20 DEF ReviewIInv

\* Rows close the review, make it stale or leave it, and are held back while a refresh is under way.
LEMMA ShowRowsKeeps ==
  ASSUME ReviewIInv, ShowRows
  PROVE  ReviewIInv'
<1>1. /\ QueuesOK /\ RowsOK /\ ReviewOK /\ HostOK /\ IdsReached
      /\ EmptyIsNotReady /\ RefreshHasCard /\ RowsStayQuarantined
      /\ LastRequestIsLast /\ LastIsHandled /\ DoneIsAlone /\ TrackedIsOpen /\ AnswerIsKept /\ LiveIsKept
  BY DEF ReviewIInv
<1>2. UNCHANGED <<analyzing, changing, derived, hostRows, keptReview, lifecycle, requested, toHost>>
  BY DEF ShowRows, hostAnalysis, hostRefresh
<1>3. /\ \A i \in 1 .. Len(toHost) : toHost[i].id \in Nat
      /\ \A i \in 1 .. Len(toView) : toView[i].type # "rows" => toView[i].id \in Nat
  BY <1>1, QueueFields
<1>4. /\ Newest \in Nat /\ requested \in Seq(ReviewPackages) /\ Len(requested) \in Nat
           /\ review.analysis \in Nat /\ review.request \in Nat /\ review.busy \in BOOLEAN
      /\ Len(toHost) \in Nat /\ Len(toView) \in Nat /\ keptReview \in Nat /\ changing \in Nat
           /\ analyzing.request \in Nat
  BY <1>1, QueueFields DEF QueuesOK, ReviewOK, HostOK, Newest
<1>5. Newest' = Newest
  BY <1>2 DEF Newest
<1>6. ViewReceives("rows")
  BY DEF ShowRows
<1>7. /\ toView' \in Seq(ViewMessages) /\ Len(toView') \in Nat /\ Len(toView') = Len(toView) - 1
      /\ \A i \in 1 .. Len(toView') : i + 1 \in 1 .. Len(toView) /\ toView'[i] = toView[i + 1]
      /\ \A i \in 2 .. Len(toView) : i - 1 \in 1 .. Len(toView') /\ toView'[i - 1] = toView[i]
      /\ 1 \in 1 .. Len(toView) /\ Head(toView) = toView[1] /\ toView[1] \in ViewMessages
           /\ toView[1].type = "rows"
  BY <1>1, <1>6, Hearing
<1>8. Heard
  BY <1>4, <1>7 DEF Heard
<1>9. /\ toView[1].rows \in Rows /\ refresh.held \in Rows /\ display \in Rows /\ heard \in Rows
      /\ toView[1].rows.scan = 0 => toView[1].rows.status # "ready"
  BY <1>1, <1>7, MessageFields DEF RowsOK, EmptyIsNotReady
<1>10. /\ review' \in [package : ReviewPackages \cup {NoPackage}, request : Nat, analysis : Nat,
            stale : Nat, busy : BOOLEAN]
       /\ \/ review' = [package |-> NoPackage, request |-> 0, analysis |-> 0, stale |-> 0,
               busy |-> FALSE]
          \/ /\ toView[1].rows.scan # 0
             /\ review'.package = review.package /\ review'.request = review.request
                  /\ review'.analysis = review.analysis
             /\ review'.busy = review.busy /\ review'.stale \in {review.stale, review.analysis}
  BY <1>1, <1>7 DEF ShowRows, ReviewAfter, ReviewOK, NoReview
<1>11. heard' = (IF toView[1].rows.scan = 0 THEN heard ELSE toView[1].rows) /\ heard' \in Rows
  BY <1>7, <1>9 DEF ShowRows
<1>12. display' \in Rows /\ (toView[1].rows.scan = 0 => display' = toView[1].rows)
       /\ (toView[1].rows.scan # 0 => display'.scan # 0)
  <2>1. display' = toView[1].rows
          \/ (toView[1].rows.scan # 0 /\ display' = [toView[1].rows EXCEPT !.status = "stale"])
    BY <1>7 DEF ShowRows
  <2>2. CASE display' = toView[1].rows
    BY <2>2, <1>9
  <2>3. CASE toView[1].rows.scan # 0 /\ display' = [toView[1].rows EXCEPT !.status = "stale"]
    BY <2>3, <1>9 DEF Rows
  <2> QED BY <2>1, <2>2, <2>3
<1>13. /\ refresh' \in [phase : {"none", "refreshing", "failed", "superseded"}, id : Nat,
                       package : ReviewPackages \cup {NoPackage}, card : BOOLEAN, held : Rows]
       /\ \/ /\ toView[1].rows.scan = 0 \/ ~refresh.card
             /\ refresh'.phase = refresh.phase /\ refresh'.held = refresh.held
                  /\ refresh'.card = refresh.card
          \/ /\ toView[1].rows.scan # 0 /\ refresh.phase # "none" /\ display'.status = "stale"
             /\ refresh'.phase = refresh.phase /\ refresh'.held = toView[1].rows
                  /\ refresh'.card = refresh.card
          \/ refresh'.phase = "none" /\ refresh'.held = NoRows
          \/ refresh'.phase = "none" /\ refresh.phase = "none" /\ refresh'.held = refresh.held
  <2>1. CASE toView[1].rows.scan = 0 \/ ~refresh.card
    BY <2>1, <1>1, <1>7 DEF ShowRows, RowsOK
  <2>2. CASE ~(toView[1].rows.scan = 0 \/ ~refresh.card)
    <3>1. CASE refresh.phase # "none"
                 /\ ~(refresh.phase \in {"failed", "superseded"} /\ toView[1].rows.status = "ready")
      <4>1. display' = [toView[1].rows EXCEPT !.status = "stale"]
              /\ refresh' = [refresh EXCEPT !.held = toView[1].rows]
        BY <2>2, <3>1, <1>7 DEF ShowRows
      <4>2. display'.status = "stale"
        BY <4>1, <1>9 DEF Rows
      <4> QED BY <2>2, <3>1, <4>1, <4>2, <1>1, <1>9 DEF RowsOK
    <3>2. CASE ~(refresh.phase # "none" /\ ~(refresh.phase \in {"failed", "superseded"}
                 /\ toView[1].rows.status = "ready"))
      <4>1. refresh' = NoRefresh \/ (refresh' = refresh /\ refresh.phase = "none")
        BY <2>2, <3>2, <1>7 DEF ShowRows
      <4>2. CASE refresh' = NoRefresh
        BY <4>2 DEF NoRefresh, NoRows, Rows
      <4> QED BY <4>1, <4>2, <1>1 DEF RowsOK
    <3> QED BY <3>1, <3>2
  <2> QED BY <2>1, <2>2
<1>14. (HostOK /\ LastRequestIsLast /\ LastIsHandled)'
  BY <1>1, <1>2, <1>5 DEF HostOK, LastRequestIsLast, Upgrades, LastIsHandled, NoneWaits
<1>15. QueuesOK'
  BY <1>1, <1>2, <1>7 DEF QueuesOK
<1>16. RowsOK'
  BY <1>1, <1>2, <1>11, <1>12, <1>13 DEF RowsOK
<1>17. ReviewOK'
  BY <1>1, <1>5, <1>10 DEF ReviewOK
<1>18. IdsReached'
  BY <1>1, <1>2, <1>5, <1>7 DEF IdsReached
<1>19. EmptyIsNotReady'
  BY <1>1, <1>2, <1>7, <1>12 DEF EmptyIsNotReady
<1>20. RefreshHasCard'
  BY <1>1, <1>13 DEF RefreshHasCard
<1>21. RowsStayQuarantined'
  <2>1. CASE toView[1].rows.scan = 0 \/ ~refresh.card
    BY <1>1, <1>9, <1>11, <1>12, <1>13 DEF RowsStayQuarantined, RefreshHasCard, NoRows
  <2>2. CASE toView[1].rows.scan # 0 /\ refresh.card
    <3>1. CASE refresh'.phase = "none"
      <4>1. refresh'.held.scan = 0
        <5>1. refresh'.held = NoRows \/ (refresh.phase = "none" /\ refresh'.held = refresh.held)
          BY <2>2, <3>1, <1>13
        <5> QED BY <5>1, <1>1 DEF RowsStayQuarantined, NoRows
      <4> QED BY <3>1, <4>1 DEF RowsStayQuarantined
    <3>2. CASE refresh'.phase # "none"
      <4>1. display'.status = "stale" /\ refresh'.held = toView[1].rows
        BY <2>2, <3>2, <1>13
      <4> QED BY <2>2, <3>2, <4>1, <1>11 DEF RowsStayQuarantined
    <3> QED BY <3>1, <3>2
  <2> QED BY <2>1, <2>2
<1>22. DoneIsAlone'
  BY <1>1, <1>2, <1>5, <1>8, <1>10, DoneStays
<1>23. TrackedIsOpen'
  BY <1>1, <1>2, <1>5, <1>10 DEF TrackedIsOpen, Confirms
<1>24. AnswerIsKept'
  BY <1>1, <1>2, <1>5, <1>8, <1>10, AnswerStays
<1>25. LiveIsKept'
  <2>1. CASE review'.analysis = 0 \/ review'.stale = review'.analysis
    BY <2>1 DEF LiveIsKept, Live
  <2>2. CASE review'.analysis # 0 /\ review'.stale # review'.analysis
    BY <2>2, <1>1, <1>2, <1>5, <1>7, <1>8, <1>10, LiveStays DEF Revokes
  <2> QED BY <2>1, <2>2
<1> QED
  BY <1>14, <1>15, <1>16, <1>17, <1>18, <1>19, <1>20, <1>21, <1>22, <1>23, <1>24, <1>25 DEF ReviewIInv

\* A request is handled: as one waited until now, nothing was analyzed for the last one yet.
LEMMA HandleUpgradeKeeps ==
  ASSUME ReviewIInv, HandleUpgrade
  PROVE  ReviewIInv'
<1>1. /\ QueuesOK /\ RowsOK /\ ReviewOK /\ HostOK /\ IdsReached
      /\ EmptyIsNotReady /\ RefreshHasCard /\ RowsStayQuarantined
      /\ LastRequestIsLast /\ LastIsHandled /\ DoneIsAlone /\ TrackedIsOpen /\ AnswerIsKept /\ LiveIsKept
  BY DEF ReviewIInv
<1>2. UNCHANGED <<changing, derived, display, heard, hostRows, keptReview, lifecycle, refresh,
                  requested, review>>
  BY DEF HandleUpgrade, webview, hostRefresh
<1>3. /\ \A i \in 1 .. Len(toHost) : toHost[i].id \in Nat
      /\ \A i \in 1 .. Len(toView) : toView[i].type # "rows" => toView[i].id \in Nat
  BY <1>1, QueueFields
<1>4. /\ Newest \in Nat /\ requested \in Seq(ReviewPackages) /\ Len(requested) \in Nat
           /\ review.analysis \in Nat /\ review.request \in Nat /\ review.busy \in BOOLEAN
      /\ Len(toHost) \in Nat /\ Len(toView) \in Nat /\ keptReview \in Nat /\ changing \in Nat
           /\ analyzing.request \in Nat
  BY <1>1, QueueFields DEF QueuesOK, ReviewOK, HostOK, Newest
<1>5. Newest' = Newest
  BY <1>2 DEF Newest
<1>6. HostReceives("upgrade")
  BY DEF HandleUpgrade
<1>7. /\ toHost' \in Seq(HostMessages) /\ Len(toHost') \in Nat /\ Len(toHost') = Len(toHost) - 1
      /\ \A i \in 1 .. Len(toHost') : i + 1 \in 1 .. Len(toHost) /\ toHost'[i] = toHost[i + 1]
      /\ \A i \in 2 .. Len(toHost) : i - 1 \in 1 .. Len(toHost') /\ toHost'[i - 1] = toHost[i]
      /\ 1 \in 1 .. Len(toHost) /\ Head(toHost) = toHost[1] /\ toHost[1] \in HostMessages
           /\ toHost[1].type = "upgrade"
  BY <1>1, <1>6, Handling
<1>8. Handled
  BY <1>4, <1>7 DEF Handled
<1>9. toHost[1].id \in Nat /\ toHost[1].id # 0 /\ toHost[1].id <= Newest
  BY <1>1, <1>3, <1>4, <1>7 DEF IdsReached
<1>10. ~Done /\ review.analysis = 0
  BY <1>1, <1>7 DEF DoneIsAlone, Done, NoneWaits, Upgrades
<1>11. /\ Posted /\ \A i \in New : toView'[i].type \in {"busy", "error"}
       /\ \/ analyzing' = analyzing
          \/ analyzing' = [request |-> toHost[1].id, cancelled |-> FALSE, settling |-> FALSE]
  <2>1. CASE toView' = toView
    BY <2>1, <1>1, <1>7, NothingPosted DEF HandleUpgrade, NoAttempt
  <2>2. ASSUME NEW t \in {"busy", "error"}, PostToView(<<Message(t, toHost[1].id)>>),
                 analyzing' = analyzing
        PROVE  Posted /\ \A i \in New : toView'[i].type \in {"busy", "error"}
    BY <2>2, <1>1, <1>9, PostedMessage
  <2>3. \/ toView' = toView
        \/ analyzing' = analyzing
             /\ \E t \in {"busy", "error"} : PostToView(<<Message(t, toHost[1].id)>>)
    BY <1>7 DEF HandleUpgrade
  <2> QED BY <2>1, <2>2, <2>3
<1>12. ~Done' /\ review' = review
  BY <1>2, <1>5, <1>10, <1>11 DEF Done, Analyzed, Posted
<1>13. (RowsOK /\ ReviewOK /\ RefreshHasCard /\ RowsStayQuarantined)'
  BY <1>1, <1>2, <1>5 DEF RowsOK, ReviewOK, RefreshHasCard, RowsStayQuarantined
<1>14. QueuesOK'
  BY <1>1, <1>2, <1>7, <1>11 DEF QueuesOK, Posted
<1>15. HostOK'
  <2>1. CASE analyzing' = analyzing
    BY <2>1, <1>1, <1>2 DEF HostOK
  <2>2. CASE analyzing' = [request |-> toHost[1].id, cancelled |-> FALSE, settling |-> FALSE]
    <3>1. analyzing' \in [request : Nat, cancelled : BOOLEAN, settling : BOOLEAN]
            /\ analyzing'.request # 0
      BY <2>2, <1>9
    <3> QED BY <3>1, <1>1, <1>2 DEF HostOK
  <2> QED BY <2>1, <2>2, <1>11
<1>16. IdsReached'
  BY <1>1, <1>2, <1>5, <1>8, <1>9, <1>11, IdsStayReached DEF IdsReached
<1>17. EmptyIsNotReady'
  BY <1>1, <1>2, <1>11 DEF EmptyIsNotReady, Posted
<1>18. LastRequestIsLast'
  BY <1>1, <1>4, <1>5, <1>7, RequestTaken
<1>19. LastIsHandled'
  <2>1. CASE toHost[1].id = Newest
    <3>1. \A j \in 2 .. Len(toHost) : ~Upgrades(j)
      BY <2>1, <1>1, <1>7 DEF LastRequestIsLast, Upgrades
    <3> QED BY <3>1, <1>4, <1>7 DEF LastIsHandled, NoneWaits, Upgrades
  <2>2. CASE toHost[1].id # Newest
    <3>1. Newest # 0 /\ analyzing'.request = Newest => analyzing.request = Newest
      BY <2>2, <1>11
    <3>2. ~NoneWaits
      BY <1>7 DEF NoneWaits, Upgrades
    <3> QED BY <3>1, <3>2, <1>1, <1>5 DEF LastIsHandled
  <2> QED BY <2>1, <2>2
<1>20. DoneIsAlone'
  BY <1>12 DEF DoneIsAlone
<1>21. TrackedIsOpen'
  BY <1>1, <1>2, <1>5, <1>8, TrackedStaysOpen
<1>22. AnswerIsKept'
  BY <1>12 DEF AnswerIsKept, Done
<1>23. LiveIsKept'
  BY <1>10, <1>12 DEF LiveIsKept, Live
<1> QED
  BY <1>13, <1>14, <1>15, <1>16, <1>17, <1>18, <1>19, <1>20, <1>21, <1>22, <1>23 DEF ReviewIInv

\* A cancellation takes back what it names, never the tracked analysis.
LEMMA HandleCancelUpgradeKeeps ==
  ASSUME ReviewIInv, HandleCancelUpgrade
  PROVE  ReviewIInv'
<1>1. /\ QueuesOK /\ RowsOK /\ ReviewOK /\ HostOK /\ IdsReached
      /\ EmptyIsNotReady /\ RefreshHasCard /\ RowsStayQuarantined
      /\ LastRequestIsLast /\ LastIsHandled /\ DoneIsAlone /\ TrackedIsOpen /\ AnswerIsKept /\ LiveIsKept
  BY DEF ReviewIInv
<1>2. UNCHANGED <<changing, derived, display, heard, hostRows, lifecycle, refresh, requested, review,
                  toView>>
  BY DEF HandleCancelUpgrade, webview, hostRefresh
<1>3. /\ \A i \in 1 .. Len(toHost) : toHost[i].id \in Nat
      /\ \A i \in 1 .. Len(toView) : toView[i].type # "rows" => toView[i].id \in Nat
  BY <1>1, QueueFields
<1>4. /\ Newest \in Nat /\ requested \in Seq(ReviewPackages) /\ Len(requested) \in Nat
           /\ review.analysis \in Nat /\ review.request \in Nat /\ review.busy \in BOOLEAN
      /\ Len(toHost) \in Nat /\ Len(toView) \in Nat /\ keptReview \in Nat /\ changing \in Nat
           /\ analyzing.request \in Nat
  BY <1>1, QueueFields DEF QueuesOK, ReviewOK, HostOK, Newest
<1>5. Newest' = Newest
  BY <1>2 DEF Newest
<1>6. HostReceives("cancel")
  BY DEF HandleCancelUpgrade
<1>7. /\ toHost' \in Seq(HostMessages) /\ Len(toHost') \in Nat /\ Len(toHost') = Len(toHost) - 1
      /\ \A i \in 1 .. Len(toHost') : i + 1 \in 1 .. Len(toHost) /\ toHost'[i] = toHost[i + 1]
      /\ \A i \in 2 .. Len(toHost) : i - 1 \in 1 .. Len(toHost') /\ toHost'[i - 1] = toHost[i]
      /\ 1 \in 1 .. Len(toHost) /\ Head(toHost) = toHost[1] /\ toHost[1] \in HostMessages
           /\ toHost[1].type = "cancel"
  BY <1>1, <1>6, Handling
<1>8. Handled
  BY <1>4, <1>7 DEF Handled
<1>9. toHost[1].id \in Nat /\ toHost[1].id <= Newest
  BY <1>1, <1>3, <1>4, <1>7 DEF IdsReached
<1>10. /\ keptReview' = keptReview \/ (keptReview' = 0 /\ keptReview = toHost[1].id /\ toHost[1].id # 0)
       /\ analyzing' \in [request : Nat, cancelled : BOOLEAN, settling : BOOLEAN]
       /\ analyzing' = analyzing \/ analyzing # NoAttempt
       /\ analyzing'.request = analyzing.request /\ analyzing'.settling = analyzing.settling
  <2>1. CASE toHost[1].id = 0
    <3>1. keptReview' = keptReview
      BY <2>1, <1>7 DEF HandleCancelUpgrade
    <3>2. analyzing' = analyzing \/ (analyzing # NoAttempt /\ analyzing' = [analyzing EXCEPT !.cancelled = TRUE])
      BY <2>1, <1>7 DEF HandleCancelUpgrade
    <3>3. analyzing \in [request : Nat, cancelled : BOOLEAN, settling : BOOLEAN]
      BY <1>1 DEF HostOK
    <3> QED BY <3>1, <3>2, <3>3
  <2>2. CASE toHost[1].id # 0
    <3>1. analyzing' = analyzing /\ keptReview' = IF keptReview = toHost[1].id THEN 0 ELSE keptReview
      BY <2>2, <1>7 DEF HandleCancelUpgrade
    <3> QED BY <2>2, <3>1, <1>1 DEF HostOK
  <2> QED BY <2>1, <2>2
<1>11. Posted /\ New = {}
  BY <1>1, <1>2, NothingPosted
<1>12. review.request # 0 => (keptReview = Newest => keptReview' = Newest)
  BY <1>1, <1>4, <1>7, <1>9, <1>10 DEF TrackedIsOpen
<1>13. (RowsOK /\ ReviewOK /\ EmptyIsNotReady /\ RefreshHasCard /\ RowsStayQuarantined)'
  BY <1>1, <1>2, <1>5 DEF RowsOK, ReviewOK, EmptyIsNotReady, RefreshHasCard, RowsStayQuarantined
<1>14. QueuesOK'
  BY <1>1, <1>2, <1>7 DEF QueuesOK
<1>15. HostOK'
  BY <1>1, <1>2, <1>4, <1>10 DEF HostOK, NoAttempt
<1>16. IdsReached'
  BY <1>1, <1>2, <1>4, <1>5, <1>8, <1>10, <1>11, IdsStayReached DEF IdsReached
<1>17. LastRequestIsLast'
  BY <1>1, <1>4, <1>5, <1>7, RequestTaken
<1>18. LastIsHandled'
  BY <1>1, <1>4, <1>5, <1>7, <1>10 DEF LastIsHandled, NoneWaits, Upgrades
<1>19. DoneIsAlone'
  BY <1>1, <1>2, <1>5, <1>8, <1>10, <1>11, DoneStaysBehind
<1>20. TrackedIsOpen'
  BY <1>1, <1>2, <1>5, <1>8, TrackedStaysOpen
<1>21. AnswerIsKept'
  BY <1>1, <1>2, <1>5, <1>12 DEF AnswerIsKept, Analyzed, Revokes
<1>22. LiveIsKept'
  <2>1. CASE keptReview' = keptReview
    BY <2>1, <1>1, <1>2, <1>5, <1>8, <1>11, LiveStaysBehind
  <2>2. CASE keptReview' # keptReview
    <3>1. review.analysis # 0 => keptReview # Newest
      BY <2>2, <1>1, <1>4, <1>10, <1>12 DEF ReviewOK
    <3>2. review.analysis # 0 => keptReview \in {0, Newest}
      BY <1>1 DEF DoneIsAlone, Done
    <3>3. review.analysis = 0
      BY <2>2, <3>1, <3>2, <1>10
    <3> QED BY <3>3, <1>2 DEF LiveIsKept, Live
  <2> QED BY <2>1, <2>2
<1> QED
  BY <1>13, <1>14, <1>15, <1>16, <1>17, <1>18, <1>19, <1>20, <1>21, <1>22 DEF ReviewIInv

\* A confirmation uses up the analysis, or is refused: only the last one is kept.
LEMMA HandleConfirmKeeps ==
  ASSUME ReviewIInv, HandleConfirm
  PROVE  ReviewIInv'
<1>1. /\ QueuesOK /\ RowsOK /\ ReviewOK /\ HostOK /\ IdsReached
      /\ EmptyIsNotReady /\ RefreshHasCard /\ RowsStayQuarantined
      /\ LastRequestIsLast /\ LastIsHandled /\ DoneIsAlone /\ TrackedIsOpen /\ AnswerIsKept /\ LiveIsKept
  BY DEF ReviewIInv
<1>2. UNCHANGED <<analyzing, derived, display, heard, hostRows, lifecycle, refresh, requested, review>>
  BY DEF HandleConfirm, webview, hostRefresh
<1>3. /\ \A i \in 1 .. Len(toHost) : toHost[i].id \in Nat
      /\ \A i \in 1 .. Len(toView) : toView[i].type # "rows" => toView[i].id \in Nat
  BY <1>1, QueueFields
<1>4. /\ Newest \in Nat /\ requested \in Seq(ReviewPackages) /\ Len(requested) \in Nat
           /\ review.analysis \in Nat /\ review.request \in Nat /\ review.busy \in BOOLEAN
      /\ Len(toHost) \in Nat /\ Len(toView) \in Nat /\ keptReview \in Nat /\ changing \in Nat
           /\ analyzing.request \in Nat
  BY <1>1, QueueFields DEF QueuesOK, ReviewOK, HostOK, Newest
<1>5. Newest' = Newest
  BY <1>2 DEF Newest
<1>6. HostReceives("confirm")
  BY DEF HandleConfirm
<1>7. /\ toHost' \in Seq(HostMessages) /\ Len(toHost') \in Nat /\ Len(toHost') = Len(toHost) - 1
      /\ \A i \in 1 .. Len(toHost') : i + 1 \in 1 .. Len(toHost) /\ toHost'[i] = toHost[i + 1]
      /\ \A i \in 2 .. Len(toHost) : i - 1 \in 1 .. Len(toHost') /\ toHost'[i - 1] = toHost[i]
      /\ 1 \in 1 .. Len(toHost) /\ Head(toHost) = toHost[1] /\ toHost[1] \in HostMessages
           /\ toHost[1].type = "confirm"
  BY <1>1, <1>6, Handling
<1>8. Handled
  BY <1>4, <1>7 DEF Handled
<1>9. toHost[1].id \in Nat /\ toHost[1].id # 0 /\ toHost[1].id <= Newest
  BY <1>1, <1>3, <1>4, <1>7 DEF IdsReached
<1>10. /\ Posted
       /\ \/ UNCHANGED <<keptReview, changing>> /\ \E k \in New : New = {k} /\ toView'[k].type = "error"
          \/ /\ UNCHANGED <<keptReview, changing>> /\ keptReview = toHost[1].id
             /\ \E k \in New : New = {k} /\ toView'[k].type = "busy"
          \/ keptReview = toHost[1].id /\ keptReview' = 0 /\ changing' = toHost[1].id /\ New = {}
  <2>1. ASSUME NEW t \in {"busy", "error"}, PostToView(<<Message(t, toHost[1].id)>>)
        PROVE  Posted /\ \E k \in New : New = {k} /\ toView'[k].type = t
    BY <2>1, <1>1, <1>9, PostedMessage
  <2>2. CASE keptReview # toHost[1].id
    BY <2>1, <2>2, <1>7 DEF HandleConfirm
  <2>3. CASE keptReview = toHost[1].id /\ Reserved
    BY <2>1, <2>3, <1>7 DEF HandleConfirm
  <2>4. CASE keptReview = toHost[1].id /\ ~Reserved
    BY <2>4, <1>1, <1>7, NothingPosted DEF HandleConfirm
  <2> QED BY <2>2, <2>3, <2>4
<1>11. toHost[1].id = Newest => Confirms(1)
  BY <1>7 DEF Confirms
<1>12. keptReview = toHost[1].id /\ Done => toHost[1].id = Newest
  BY <1>1, <1>9 DEF DoneIsAlone
<1>13. review.request # 0 /\ review.analysis = 0 => toHost[1].id # Newest
  BY <1>1, <1>7, <1>11 DEF TrackedIsOpen
<1>14. \A i \in New : toView'[i].type \in {"busy", "error"}
  BY <1>10
<1>15. (RowsOK /\ ReviewOK /\ RefreshHasCard /\ RowsStayQuarantined)'
  BY <1>1, <1>2, <1>5 DEF RowsOK, ReviewOK, RefreshHasCard, RowsStayQuarantined
<1>16. QueuesOK'
  BY <1>1, <1>2, <1>7, <1>10 DEF QueuesOK, Posted
<1>17. HostOK'
  BY <1>1, <1>2, <1>9, <1>10 DEF HostOK, NoAttempt
<1>18. IdsReached'
  BY <1>1, <1>2, <1>4, <1>5, <1>8, <1>10, IdsStayReached DEF IdsReached
<1>19. EmptyIsNotReady'
  BY <1>1, <1>2, <1>10, <1>14 DEF EmptyIsNotReady, Posted
<1>20. LastRequestIsLast'
  BY <1>1, <1>4, <1>5, <1>7, RequestTaken
<1>21. LastIsHandled'
  BY <1>1, <1>2, <1>4, <1>5, <1>7 DEF LastIsHandled, NoneWaits, Upgrades
<1>22. DoneIsAlone'
  BY <1>1, <1>2, <1>5, <1>8, <1>10, DoneStaysBehind
<1>23. TrackedIsOpen'
  BY <1>1, <1>2, <1>5, <1>7, <1>10 DEF TrackedIsOpen, Confirms
<1>24. AnswerIsKept'
  <2>1. CASE \E k \in New : New = {k} /\ toView'[k].type = "error"
    BY <2>1, <1>1, <1>2, <1>5, <1>10, AnswerStaysBehind DEF Revokes
  <2>2. CASE keptReview = toHost[1].id
    <3>1. review.request # 0 /\ review.analysis = 0 => ~\E i \in 1 .. Len(toView) : Analyzed(i)
      BY <2>2, <1>12, <1>13 DEF Done
    <3> QED BY <3>1, <1>2, <1>5, <1>10, <1>14 DEF AnswerIsKept, Analyzed, Posted
  <2> QED BY <2>1, <2>2, <1>10
<1>25. LiveIsKept'
  <2>1. CASE \E k \in New : New = {k} /\ toView'[k].type = "error"
    <3>1. ~Live'
      BY <2>1, <1>2, <1>5, <1>10, LiveBefore DEF Revokes
    <3> QED BY <3>1 DEF LiveIsKept
  <2>2. CASE keptReview = toHost[1].id
    <3> SUFFICES ASSUME Live'
                 PROVE  LiveIsKept'
      BY DEF LiveIsKept
    <3>1. Live /\ toHost[1].id = Newest /\ Newest # 0 /\ Confirms(1)
      BY <2>2, <1>2, <1>5, <1>9, <1>10, <1>11, <1>12, LiveBefore DEF Live, Done
    <3>2. Silent /\ changing # Newest
      BY <2>2, <3>1, <1>1, <1>7 DEF LiveIsKept
    <3>3. \A i \in 1 .. Len(toHost') : ~Confirms(i)'
      <4> SUFFICES ASSUME NEW i \in 1 .. Len(toHost'), Confirms(i)'
                   PROVE  FALSE
        OBVIOUS
      <4>1. i + 1 \in 1 .. Len(toHost) /\ Confirms(i + 1)
        BY <1>5, <1>7 DEF Confirms
      <4>2. i + 1 = 1
        BY <4>1, <3>1, <1>1, <1>7 DEF LiveIsKept
      <4> QED BY <4>2, <1>7
    <3>4. \A i \in 1 .. Len(toView') : toView'[i].type = "busy" => i \in New
      BY <3>2, <1>10 DEF Silent, Posted
    <3>5. /\ \A i \in 1 .. Len(toView') : toView'[i].type = "busy" => review'.busy
          /\ \A i, j \in 1 .. Len(toView') : toView'[i].type = "busy" /\ toView'[j].type = "busy" =>
               i = j
      BY <3>2, <3>4, <1>2, <1>10 DEF Silent
    <3>6. CASE New = {} /\ keptReview' = 0 /\ changing' = toHost[1].id
      <4>1. Silent'
        BY <3>2, <3>4, <3>6, <1>2 DEF Silent
      <4> QED BY <4>1, <3>1, <3>3, <3>5, <3>6, <1>5 DEF LiveIsKept
    <3>7. CASE UNCHANGED <<keptReview, changing>>
      BY <2>2, <3>1, <3>2, <3>3, <3>5, <3>7, <1>5 DEF LiveIsKept
    <3> QED BY <3>6, <3>7, <1>10
  <2> QED BY <2>1, <2>2, <1>10
<1> QED
  BY <1>15, <1>16, <1>17, <1>18, <1>19, <1>20, <1>21, <1>22, <1>23, <1>24, <1>25 DEF ReviewIInv

\* A retry is about the refresh alone.
LEMMA HandleRetryKeeps ==
  ASSUME ReviewIInv, HandleRetry
  PROVE  ReviewIInv'
<1>1. /\ QueuesOK /\ RowsOK /\ ReviewOK /\ HostOK /\ IdsReached
      /\ EmptyIsNotReady /\ RefreshHasCard /\ RowsStayQuarantined
      /\ LastRequestIsLast /\ LastIsHandled /\ DoneIsAlone /\ TrackedIsOpen /\ AnswerIsKept /\ LiveIsKept
  BY DEF ReviewIInv
<1>2. UNCHANGED <<analyzing, changing, display, heard, hostRows, keptReview, refresh, requested, review,
                  toView>>
  BY DEF HandleRetry, webview, hostAnalysis
<1>3. /\ \A i \in 1 .. Len(toHost) : toHost[i].id \in Nat
      /\ \A i \in 1 .. Len(toView) : toView[i].type # "rows" => toView[i].id \in Nat
  BY <1>1, QueueFields
<1>4. /\ Newest \in Nat /\ requested \in Seq(ReviewPackages) /\ Len(requested) \in Nat
           /\ review.analysis \in Nat /\ review.request \in Nat /\ review.busy \in BOOLEAN
      /\ Len(toHost) \in Nat /\ Len(toView) \in Nat /\ keptReview \in Nat /\ changing \in Nat
           /\ analyzing.request \in Nat
  BY <1>1, QueueFields DEF QueuesOK, ReviewOK, HostOK, Newest
<1>5. Newest' = Newest
  BY <1>2 DEF Newest
<1>6. HostReceives("retry")
  BY DEF HandleRetry
<1>7. /\ toHost' \in Seq(HostMessages) /\ Len(toHost') \in Nat /\ Len(toHost') = Len(toHost) - 1
      /\ \A i \in 1 .. Len(toHost') : i + 1 \in 1 .. Len(toHost) /\ toHost'[i] = toHost[i + 1]
      /\ \A i \in 2 .. Len(toHost) : i - 1 \in 1 .. Len(toHost') /\ toHost'[i - 1] = toHost[i]
      /\ 1 \in 1 .. Len(toHost) /\ Head(toHost) = toHost[1] /\ toHost[1] \in HostMessages
           /\ toHost[1].type = "retry"
  BY <1>1, <1>6, Handling
<1>8. Handled
  BY <1>4, <1>7 DEF Handled
<1>9. Posted /\ New = {}
  BY <1>1, <1>2, NothingPosted
<1>10. (RowsOK /\ ReviewOK /\ EmptyIsNotReady /\ RefreshHasCard /\ RowsStayQuarantined /\ AnswerIsKept)'
  BY <1>1, <1>2, <1>5
  DEF RowsOK, ReviewOK, EmptyIsNotReady, RefreshHasCard, RowsStayQuarantined, AnswerIsKept, Analyzed,
    Revokes
<1>11. QueuesOK'
  BY <1>1, <1>2, <1>7 DEF QueuesOK
<1>12. HostOK'
  BY <1>1, <1>2 DEF HostOK, HandleRetry, hostRefresh
<1>13. IdsReached'
  BY <1>1, <1>2, <1>5, <1>8, <1>9, IdsStayReached DEF IdsReached
<1>14. LastRequestIsLast'
  BY <1>1, <1>4, <1>5, <1>7, RequestTaken
<1>15. LastIsHandled'
  BY <1>1, <1>2, <1>4, <1>5, <1>7 DEF LastIsHandled, NoneWaits, Upgrades
<1>16. DoneIsAlone'
  BY <1>1, <1>2, <1>5, <1>8, <1>9, DoneStaysBehind
<1>17. TrackedIsOpen'
  BY <1>1, <1>2, <1>4, <1>5, <1>7 DEF TrackedIsOpen, Confirms
<1>18. LiveIsKept'
  BY <1>1, <1>2, <1>5, <1>8, <1>9, LiveStaysBehind
<1> QED
  BY <1>10, <1>11, <1>12, <1>13, <1>14, <1>15, <1>16, <1>17, <1>18 DEF ReviewIInv

\* An attempt ends: the last one says so once, with an analysis that is kept or an error.
LEMMA AttemptEndsKeeps ==
  ASSUME ReviewIInv, AttemptEnds
  PROVE  ReviewIInv'
<1>1. /\ QueuesOK /\ RowsOK /\ ReviewOK /\ HostOK /\ IdsReached
      /\ EmptyIsNotReady /\ RefreshHasCard /\ RowsStayQuarantined
      /\ LastRequestIsLast /\ LastIsHandled /\ DoneIsAlone /\ TrackedIsOpen /\ AnswerIsKept /\ LiveIsKept
  BY DEF ReviewIInv
<1>2. UNCHANGED <<changing, derived, display, heard, hostRows, lifecycle, refresh, requested, review,
                  toHost>>
  BY DEF AttemptEnds, webview, hostRefresh
<1>3. /\ \A i \in 1 .. Len(toHost) : toHost[i].id \in Nat
      /\ \A i \in 1 .. Len(toView) : toView[i].type # "rows" => toView[i].id \in Nat
  BY <1>1, QueueFields
<1>4. /\ Newest \in Nat /\ requested \in Seq(ReviewPackages) /\ Len(requested) \in Nat
           /\ review.analysis \in Nat /\ review.request \in Nat /\ review.busy \in BOOLEAN
      /\ Len(toHost) \in Nat /\ Len(toView) \in Nat /\ keptReview \in Nat /\ changing \in Nat
           /\ analyzing.request \in Nat
  BY <1>1, QueueFields DEF QueuesOK, ReviewOK, HostOK, Newest
<1>5. Newest' = Newest
  BY <1>2 DEF Newest
<1>6. /\ analyzing # NoAttempt /\ ~analyzing.settling /\ analyzing.request # 0
           /\ analyzing.request <= Newest
      /\ analyzing' \in [request : Nat, cancelled : BOOLEAN, settling : BOOLEAN]
      /\ analyzing'.request = analyzing.request /\ analyzing'.settling
  BY <1>1, <1>4 DEF AttemptEnds, HostOK, IdsReached
<1>7. ~Done /\ review.analysis = 0 /\ \A i \in 1 .. Len(toView) : ~Analyzed(i)
  BY <1>1, <1>6 DEF DoneIsAlone, Done
<1>8. /\ Posted
      /\ \/ keptReview' = keptReview /\ \A i \in New : toView'[i].type = "error"
         \/ /\ keptReview' = analyzing.request
            /\ \E k \in New : New = {k} /\ toView'[k].type = "analysis"
                 /\ toView'[k].id = analyzing.request
  <2>1. ASSUME NEW t \in {"analysis", "error"}, PostToView(<<Message(t, analyzing.request)>>)
        PROVE  Posted /\ \E k \in New : New = {k} /\ toView'[k].type = t
                 /\ toView'[k].id = analyzing.request
    BY <2>1, <1>1, <1>4, PostedMessage
  <2>2. CASE analyzing.cancelled
    BY <2>2, <1>1, NothingPosted DEF AttemptEnds
  <2>3. CASE ~analyzing.cancelled /\ PostToView(<<Message("analysis", analyzing.request)>>)
               /\ keptReview' = analyzing.request
    BY <2>1, <2>3
  <2>4. CASE ~analyzing.cancelled /\ PostToView(<<Message("error", analyzing.request)>>)
               /\ keptReview' = keptReview
    BY <2>1, <2>4
  <2> QED BY <2>2, <2>3, <2>4 DEF AttemptEnds
<1>9. Newest # 0 /\ analyzing.request = Newest => NoneWaits
  BY <1>1 DEF LastIsHandled
<1>10. \A i \in 1 .. Len(toView') : Analyzed(i)' => analyzing.request = Newest
         /\ keptReview' = Newest /\ New = {i}
  BY <1>5, <1>7, <1>8 DEF Posted, Analyzed
<1>11. (RowsOK /\ ReviewOK /\ RefreshHasCard /\ RowsStayQuarantined /\ LastRequestIsLast
          /\ TrackedIsOpen)'
  BY <1>1, <1>2, <1>5
  DEF RowsOK, ReviewOK, RefreshHasCard, RowsStayQuarantined, LastRequestIsLast, Upgrades, TrackedIsOpen,
    Confirms
<1>12. QueuesOK'
  BY <1>1, <1>2, <1>8 DEF QueuesOK, Posted
<1>13. HostOK'
  BY <1>1, <1>2, <1>4, <1>6, <1>8 DEF HostOK, NoAttempt
<1>14. IdsReached'
  BY <1>1, <1>2, <1>5, <1>6, <1>8, IdsStayReached DEF IdsReached
<1>15. EmptyIsNotReady'
  BY <1>1, <1>2, <1>8 DEF EmptyIsNotReady, Posted
<1>16. LastIsHandled'
  BY <1>1, <1>2, <1>4, <1>5, <1>6 DEF LastIsHandled, NoneWaits, Upgrades
<1>17. DoneIsAlone'
  <2> SUFFICES ASSUME Done'
               PROVE  DoneIsAlone'
    BY DEF DoneIsAlone
  <2>1. analyzing.request = Newest /\ keptReview' = Newest
    BY <1>2, <1>7, <1>10 DEF Done
  <2> QED BY <2>1, <1>2, <1>5, <1>6, <1>9 DEF DoneIsAlone, NoneWaits, Upgrades
<1>18. AnswerIsKept'
  <2>1. ASSUME NEW i \in 1 .. Len(toView'), Analyzed(i)'
        PROVE  keptReview' = Newest' /\ \A j \in i + 1 .. Len(toView') : FALSE
    <3>1. keptReview' = Newest /\ New = {i}
      BY <2>1, <1>10
    <3> QED BY <3>1, <1>5, <1>8 DEF Posted, New
  <2> QED BY <2>1 DEF AnswerIsKept
<1>19. LiveIsKept'
  BY <1>2, <1>7 DEF LiveIsKept, Live
<1> QED
  BY <1>11, <1>12, <1>13, <1>14, <1>15, <1>16, <1>17, <1>18, <1>19 DEF ReviewIInv

\* The reservation of an attempt is given back.
LEMMA AttemptSettlesKeeps ==
  ASSUME ReviewIInv, AttemptSettles
  PROVE  ReviewIInv'
<1>1. /\ QueuesOK /\ RowsOK /\ ReviewOK /\ HostOK /\ IdsReached
      /\ EmptyIsNotReady /\ RefreshHasCard /\ RowsStayQuarantined
      /\ LastRequestIsLast /\ LastIsHandled /\ DoneIsAlone /\ TrackedIsOpen /\ AnswerIsKept /\ LiveIsKept
  BY DEF ReviewIInv
<1>2. UNCHANGED <<changing, derived, display, heard, hostRows, keptReview, lifecycle, refresh,
                  requested, review, toHost, toView>>
  BY DEF AttemptSettles, webview, hostRefresh
<1>3. /\ \A i \in 1 .. Len(toHost) : toHost[i].id \in Nat
      /\ \A i \in 1 .. Len(toView) : toView[i].type # "rows" => toView[i].id \in Nat
  BY <1>1, QueueFields
<1>4. /\ Newest \in Nat /\ requested \in Seq(ReviewPackages) /\ Len(requested) \in Nat
           /\ review.analysis \in Nat /\ review.request \in Nat /\ review.busy \in BOOLEAN
      /\ Len(toHost) \in Nat /\ Len(toView) \in Nat /\ keptReview \in Nat /\ changing \in Nat
           /\ analyzing.request \in Nat
  BY <1>1, QueueFields DEF QueuesOK, ReviewOK, HostOK, Newest
<1>5. Newest' = Newest
  BY <1>2 DEF Newest
<1>6. analyzing' = [request |-> 0, cancelled |-> FALSE, settling |-> FALSE]
  BY DEF AttemptSettles, NoAttempt
<1>7. (QueuesOK /\ RowsOK /\ ReviewOK /\ EmptyIsNotReady /\ RefreshHasCard /\ RowsStayQuarantined
         /\ LastRequestIsLast /\ TrackedIsOpen /\ AnswerIsKept /\ LiveIsKept)'
  BY <1>1, <1>2, <1>5
  DEF QueuesOK, RowsOK, ReviewOK, EmptyIsNotReady, RefreshHasCard, RowsStayQuarantined,
    LastRequestIsLast, Upgrades, TrackedIsOpen, Confirms, AnswerIsKept, Analyzed, Revokes, LiveIsKept,
      Live, Silent
<1>8. HostOK'
  BY <1>1, <1>2, <1>6 DEF HostOK, NoAttempt
<1>9. IdsReached'
  BY <1>1, <1>2, <1>4, <1>5, <1>6 DEF IdsReached
<1>10. LastIsHandled'
  BY <1>6 DEF LastIsHandled, NoneWaits, Upgrades
<1>11. DoneIsAlone'
  BY <1>1, <1>2, <1>5, <1>6 DEF DoneIsAlone, Done, Analyzed, NoneWaits, Upgrades, NoAttempt
<1> QED
  BY <1>7, <1>8, <1>9, <1>10, <1>11 DEF ReviewIInv

\* A change of the sources ends the attempt or revokes what is kept, and says so.
LEMMA SourceChangesKeeps ==
  ASSUME ReviewIInv, SourceChanges
  PROVE  ReviewIInv'
<1>1. /\ QueuesOK /\ RowsOK /\ ReviewOK /\ HostOK /\ IdsReached
      /\ EmptyIsNotReady /\ RefreshHasCard /\ RowsStayQuarantined
      /\ LastRequestIsLast /\ LastIsHandled /\ DoneIsAlone /\ TrackedIsOpen /\ AnswerIsKept /\ LiveIsKept
  BY DEF ReviewIInv
<1>2. UNCHANGED <<changing, derived, display, heard, hostRows, lifecycle, refresh, requested, review,
                  toHost>>
  BY DEF SourceChanges, webview, hostRefresh
<1>3. /\ \A i \in 1 .. Len(toHost) : toHost[i].id \in Nat
      /\ \A i \in 1 .. Len(toView) : toView[i].type # "rows" => toView[i].id \in Nat
  BY <1>1, QueueFields
<1>4. /\ Newest \in Nat /\ requested \in Seq(ReviewPackages) /\ Len(requested) \in Nat
           /\ review.analysis \in Nat /\ review.request \in Nat /\ review.busy \in BOOLEAN
      /\ Len(toHost) \in Nat /\ Len(toView) \in Nat /\ keptReview \in Nat /\ changing \in Nat
           /\ analyzing.request \in Nat
  BY <1>1, QueueFields DEF QueuesOK, ReviewOK, HostOK, Newest
<1>5. Newest' = Newest
  BY <1>2 DEF Newest
<1>6. /\ Posted
      /\ \/ /\ analyzing # NoAttempt /\ keptReview' = keptReview
            /\ analyzing' \in [request : Nat, cancelled : BOOLEAN, settling : BOOLEAN]
            /\ analyzing'.request = analyzing.request /\ analyzing'.settling = analyzing.settling
            /\ \E k \in New : New = {k} /\ toView'[k].type = "error"
         \/ /\ analyzing' = analyzing /\ keptReview # 0 /\ keptReview' = 0
            /\ \E k \in New : New = {k} /\ toView'[k].type = "stale" /\ toView'[k].id = keptReview
  <2>1. ASSUME NEW t \in {"stale", "error"}, NEW n \in Nat, PostToView(<<Message(t, n)>>)
        PROVE  Posted /\ \E k \in New : New = {k} /\ toView'[k].type = t /\ toView'[k].id = n
    BY <2>1, <1>1, PostedMessage
  <2>2. CASE analyzing # NoAttempt /\ keptReview' = keptReview
               /\ PostToView(<<Message("error", analyzing.request)>>)
             /\ analyzing' = [analyzing EXCEPT !.cancelled = TRUE]
    BY <2>1, <2>2, <1>1, <1>4 DEF HostOK
  <2>3. CASE keptReview # 0 /\ keptReview' = 0 /\ PostToView(<<Message("stale", keptReview)>>)
               /\ analyzing' = analyzing
    BY <2>1, <2>3, <1>4
  <2> QED BY <2>2, <2>3 DEF SourceChanges
<1>7. \A i \in New : /\ toView'[i].type \in {"error", "stale"}
                     /\ toView'[i].type = "stale" => toView'[i].id = keptReview /\ keptReview # 0
  BY <1>6
<1>8. (RowsOK /\ ReviewOK /\ RefreshHasCard /\ RowsStayQuarantined /\ LastRequestIsLast
         /\ TrackedIsOpen)'
  BY <1>1, <1>2, <1>5
  DEF RowsOK, ReviewOK, RefreshHasCard, RowsStayQuarantined, LastRequestIsLast, Upgrades, TrackedIsOpen,
    Confirms
<1>9. QueuesOK'
  BY <1>1, <1>2, <1>6 DEF QueuesOK, Posted
<1>10. HostOK'
  BY <1>1, <1>2, <1>4, <1>6 DEF HostOK, NoAttempt
<1>11. IdsReached'
  BY <1>1, <1>2, <1>4, <1>5, <1>6, <1>7, IdsStayReached DEF IdsReached
<1>12. EmptyIsNotReady'
  BY <1>1, <1>2, <1>6, <1>7 DEF EmptyIsNotReady, Posted
<1>13. LastIsHandled'
  BY <1>1, <1>2, <1>4, <1>5, <1>6 DEF LastIsHandled, NoneWaits, Upgrades
<1>14. DoneIsAlone'
  BY <1>1, <1>2, <1>5, <1>6, DoneStaysBehind
<1>15. AnswerIsKept'
  <2>1. keptReview = Newest => keptReview' = Newest \/ \E j \in New : Revokes(j)'
    BY <1>5, <1>6 DEF Revokes
  <2> QED BY <2>1, <1>1, <1>2, <1>5, <1>6, <1>7, AnswerStaysBehind
<1>16. LiveIsKept'
  <2> SUFFICES ASSUME Live'
               PROVE  FALSE
    BY DEF LiveIsKept
  <2>1. Live /\ \A i \in New : ~Revokes(i)'
    BY <1>2, <1>5, <1>6, LiveBefore
  <2>2. keptReview \in {0, Newest}
    BY <2>1, <1>1 DEF DoneIsAlone, Done, Live
  <2> QED BY <2>1, <2>2, <1>5, <1>6 DEF Revokes
<1> QED
  BY <1>8, <1>9, <1>10, <1>11, <1>12, <1>13, <1>14, <1>15, <1>16 DEF ReviewIInv

\* A change ends: its error or its result closes the review.
LEMMA ChangeEndsKeeps ==
  ASSUME ReviewIInv, ChangeEnds
  PROVE  ReviewIInv'
<1>1. /\ QueuesOK /\ RowsOK /\ ReviewOK /\ HostOK /\ IdsReached
      /\ EmptyIsNotReady /\ RefreshHasCard /\ RowsStayQuarantined
      /\ LastRequestIsLast /\ LastIsHandled /\ DoneIsAlone /\ TrackedIsOpen /\ AnswerIsKept /\ LiveIsKept
  BY DEF ReviewIInv
<1>2. UNCHANGED <<analyzing, display, heard, keptReview, refresh, requested, review, toHost>>
  BY DEF ChangeEnds, webview
<1>3. /\ \A i \in 1 .. Len(toHost) : toHost[i].id \in Nat
      /\ \A i \in 1 .. Len(toView) : toView[i].type # "rows" => toView[i].id \in Nat
  BY <1>1, QueueFields
<1>4. /\ Newest \in Nat /\ requested \in Seq(ReviewPackages) /\ Len(requested) \in Nat
           /\ review.analysis \in Nat /\ review.request \in Nat /\ review.busy \in BOOLEAN
      /\ Len(toHost) \in Nat /\ Len(toView) \in Nat /\ keptReview \in Nat /\ changing \in Nat
           /\ analyzing.request \in Nat
  BY <1>1, QueueFields DEF QueuesOK, ReviewOK, HostOK, Newest
<1>5. Newest' = Newest
  BY <1>2 DEF Newest
<1>6. /\ changing # 0 /\ changing \in 1 .. Newest /\ changing' = 0
           /\ requested[changing] \in ReviewPackages
      /\ hostRows \in Rows /\ hostRows.declared \in Nat
  <2>1. changing # 0 /\ changing' = 0
    BY DEF ChangeEnds
  <2>2. changing \in 1 .. Newest
    BY <2>1, <1>1, <1>4 DEF IdsReached
  <2>3. requested[changing] \in ReviewPackages
    BY <2>2, <1>4 DEF Newest
  <2> QED BY <2>1, <2>2, <2>3, <1>1 DEF RowsOK, Rows
<1>7. /\ Posted /\ \A i \in New : toView'[i].type \in {"error", "result", "enriched"}
      /\ \E k \in New : toView'[k].type \in {"error", "result"}
  <2>1. CASE PostToView(<<Message("error", changing)>>)
    BY <2>1, <1>1, <1>4, PostedMessage
  <2>2. ASSUME NEW targeted \in BOOLEAN, NEW current \in BOOLEAN,
               PostToView(<<[type |-> "result", id |-> changing, package |-> requested[changing],
                 refreshing |-> targeted,
                             declared |-> hostRows.declared + 1]>>
                          \o IF targeted /\ ~current
                             THEN <<[type |-> "enriched", id |-> changing,
                               outcome |-> "superseded"]>> ELSE <<>>)
        PROVE  /\ Posted /\ \A i \in New : toView'[i].type \in {"result", "enriched"}
               /\ \E k \in New : toView'[k].type = "result"
    <3> DEFINE m == [type |-> "result", id |-> changing, package |-> requested[changing],
          refreshing |-> targeted,
                     declared |-> hostRows.declared + 1]
               n == [type |-> "enriched", id |-> changing, outcome |-> "superseded"]
    <3>1. m \in ViewMessages /\ n \in ViewMessages
      <4>1. changing \in Nat /\ requested[changing] \in ReviewPackages /\ hostRows.declared + 1 \in Nat
        BY <1>4, <1>6
      <4> QED BY <4>1, RefreshMessages
    <3>2. m.type = "result" /\ n.type = "enriched"
      OBVIOUS
    <3>3. PostToView(<<m>>) \/ PostToView(<<m, n>>)
      <4>1. CASE targeted /\ ~current
        BY <2>2, <4>1, Joined
      <4>2. CASE ~(targeted /\ ~current)
        BY <2>2, <4>2, Joined
      <4> QED BY <4>1, <4>2
    <3> HIDE DEF m, n
    <3>4. CASE PostToView(<<m>>)
      BY <3>1, <3>2, <3>4, <1>1, PostedOne
    <3>5. CASE PostToView(<<m, n>>)
      BY <3>1, <3>2, <3>5, <1>1, PostedTwo
    <3> QED BY <3>3, <3>4, <3>5
  <2> QED BY <2>1, <2>2 DEF ChangeEnds
<1>8. hostRows' \in Rows /\ hostRows'.scan = hostRows.scan
  <2>1. hostRows' = hostRows \/ hostRows' = [hostRows EXCEPT !.declared = @ + 1]
    BY DEF ChangeEnds
  <2>2. hostRows.declared + 1 \in Nat
    BY <1>6
  <2> QED BY <1>6, <2>1, <2>2 DEF Rows
<1>9. derived' \subseteq Nat
        /\ lifecycle' \in [id : Nat, state : {"none", "running", "succeeded", "failed", "superseded"}]
  <2>1. CASE UNCHANGED hostRefresh
    BY <2>1, <1>1 DEF HostOK, hostRefresh
  <2>2. ASSUME NEW targeted \in BOOLEAN, NEW current \in BOOLEAN,
               lifecycle' = IF ~targeted THEN lifecycle
                            ELSE [id |-> changing,
                              state |-> IF current THEN "running" ELSE "superseded"],
               derived' = IF targeted /\ current THEN derived \cup {changing} ELSE derived
        PROVE  derived' \subseteq Nat
                 /\ lifecycle' \in [id : Nat, state : {"none", "running", "succeeded", "failed",
                      "superseded"}]
    BY <2>2, <1>1, <1>4 DEF HostOK
  <2> QED BY <2>1, <2>2 DEF ChangeEnds
<1>10. (ReviewOK /\ RefreshHasCard /\ RowsStayQuarantined /\ LastRequestIsLast /\ LastIsHandled)'
  BY <1>1, <1>2, <1>5
  DEF ReviewOK, RefreshHasCard, RowsStayQuarantined, LastRequestIsLast, Upgrades, LastIsHandled,
    NoneWaits
<1>11. QueuesOK'
  BY <1>1, <1>2, <1>7 DEF QueuesOK, Posted
<1>12. RowsOK'
  BY <1>1, <1>2, <1>8 DEF RowsOK
<1>13. HostOK'
  BY <1>1, <1>2, <1>4, <1>6, <1>9 DEF HostOK, NoAttempt
<1>14. IdsReached'
  <2>1. changing' <= Newest /\ analyzing'.request <= Newest /\ keptReview' <= Newest
    BY <1>1, <1>2, <1>4, <1>6 DEF IdsReached
  <2>2. \A i \in New : toView'[i].type \notin {"analysis", "stale"}
    BY <1>7
  <2> QED BY <1>1, <1>2, <1>5, <1>7, <2>1, <2>2, IdsStayReached
<1>15. EmptyIsNotReady'
  BY <1>1, <1>2, <1>7, <1>8 DEF EmptyIsNotReady, Posted
<1>16. DoneIsAlone'
  BY <1>1, <1>2, <1>4, <1>5, <1>7, DoneStaysBehind
<1>17. TrackedIsOpen'
  BY <1>1, <1>2, <1>4, <1>5, <1>6 DEF TrackedIsOpen, Confirms, ReviewOK
<1>18. AnswerIsKept'
  BY <1>1, <1>2, <1>5, <1>7, AnswerStaysBehind
<1>19. LiveIsKept'
  <2>1. ~Live'
    BY <1>2, <1>5, <1>7, LiveBefore DEF Revokes
  <2> QED BY <2>1 DEF LiveIsKept
<1> QED
  BY <1>10, <1>11, <1>12, <1>13, <1>14, <1>15, <1>16, <1>17, <1>18, <1>19 DEF ReviewIInv

\* A targeted scan ends: its rows and its outcome revoke nothing.
LEMMA DerivedEndsKeeps ==
  ASSUME ReviewIInv, NEW id \in 1 .. MaxReviews, DerivedEnds(id)
  PROVE  ReviewIInv'
<1>1. /\ QueuesOK /\ RowsOK /\ ReviewOK /\ HostOK /\ IdsReached
      /\ EmptyIsNotReady /\ RefreshHasCard /\ RowsStayQuarantined
      /\ LastRequestIsLast /\ LastIsHandled /\ DoneIsAlone /\ TrackedIsOpen /\ AnswerIsKept /\ LiveIsKept
  BY DEF ReviewIInv
<1>2. UNCHANGED <<analyzing, changing, display, heard, keptReview, refresh, requested, review, toHost>>
  BY DEF DerivedEnds, webview, hostAnalysis
<1>3. /\ \A i \in 1 .. Len(toHost) : toHost[i].id \in Nat
      /\ \A i \in 1 .. Len(toView) : toView[i].type # "rows" => toView[i].id \in Nat
  BY <1>1, QueueFields
<1>4. /\ Newest \in Nat /\ requested \in Seq(ReviewPackages) /\ Len(requested) \in Nat
           /\ review.analysis \in Nat /\ review.request \in Nat /\ review.busy \in BOOLEAN
      /\ Len(toHost) \in Nat /\ Len(toView) \in Nat /\ keptReview \in Nat /\ changing \in Nat
           /\ analyzing.request \in Nat
  BY <1>1, QueueFields DEF QueuesOK, ReviewOK, HostOK, Newest
<1>5. Newest' = Newest
  BY <1>2 DEF Newest
<1>6. hostRows' \in Rows /\ hostRows'.scan # 0
  <2>1. hostRows \in Rows /\ hostRows.scan # 0
    BY <1>1 DEF RowsOK, EmptyIsNotReady
  <2>2. hostRows' = hostRows \/ hostRows' = [hostRows EXCEPT !.scan = @ + 1]
    BY DEF DerivedEnds
  <2> QED BY <2>1, <2>2 DEF Rows
<1>7. /\ Posted /\ \A i \in New : toView'[i].type \in {"rows", "enriched"}
      /\ \A i \in New : toView'[i].type = "rows" => toView'[i].rows = hostRows'
  <2> SUFFICES ASSUME NEW o \in {"succeeded", "failed", "superseded"}, NEW scanned \in BOOLEAN,
                      PostToView((IF scanned THEN <<[type |-> "rows", rows |-> hostRows']>> ELSE <<>>)
                                 \o <<[type |-> "enriched", id |-> id, outcome |-> o]>>)
               PROVE  /\ Posted /\ \A i \in New : toView'[i].type \in {"rows", "enriched"}
                      /\ \A i \in New : toView'[i].type = "rows" => toView'[i].rows = hostRows'
    BY DEF DerivedEnds
  <2> DEFINE m == [type |-> "rows", rows |-> hostRows']
             n == [type |-> "enriched", id |-> id, outcome |-> o]
  <2>1. m \in ViewMessages /\ n \in ViewMessages
    <3>1. id \in Nat
      BY ReviewAssumption
    <3> QED BY <3>1, <1>6, RefreshMessages
  <2>2. m.type = "rows" /\ n.type = "enriched" /\ m.rows = hostRows'
    OBVIOUS
  <2>3. PostToView(<<n>>) \/ PostToView(<<m, n>>)
    <3>1. CASE scanned
      BY <3>1, Joined
    <3>2. CASE ~scanned
      BY <3>2, Joined
    <3> QED BY <3>1, <3>2
  <2> HIDE DEF m, n
  <2>4. CASE PostToView(<<n>>)
    BY <2>1, <2>2, <2>4, <1>1, PostedOne
  <2>5. CASE PostToView(<<m, n>>)
    BY <2>1, <2>2, <2>5, <1>1, PostedTwo
  <2> QED BY <2>3, <2>4, <2>5
<1>8. derived' \subseteq Nat
        /\ lifecycle' \in [id : Nat, state : {"none", "running", "succeeded", "failed", "superseded"}]
  BY <1>1 DEF DerivedEnds, HostOK
<1>9. (ReviewOK /\ RefreshHasCard /\ RowsStayQuarantined /\ LastRequestIsLast /\ LastIsHandled
         /\ TrackedIsOpen)'
  BY <1>1, <1>2, <1>5
  DEF ReviewOK, RefreshHasCard, RowsStayQuarantined, LastRequestIsLast, Upgrades, LastIsHandled,
    NoneWaits, TrackedIsOpen, Confirms
<1>10. QueuesOK'
  BY <1>1, <1>2, <1>7 DEF QueuesOK, Posted
<1>11. RowsOK'
  BY <1>1, <1>2, <1>6 DEF RowsOK
<1>12. HostOK'
  BY <1>1, <1>2, <1>8 DEF HostOK
<1>13. IdsReached'
  BY <1>1, <1>2, <1>4, <1>5, <1>7, IdsStayReached DEF IdsReached
<1>14. EmptyIsNotReady'
  BY <1>1, <1>2, <1>6, <1>7 DEF EmptyIsNotReady, Posted
<1>15. DoneIsAlone'
  BY <1>1, <1>2, <1>4, <1>5, <1>7, DoneStaysBehind
<1>16. AnswerIsKept'
  BY <1>1, <1>2, <1>5, <1>7, AnswerStaysBehind
<1>17. LiveIsKept'
  BY <1>1, <1>2, <1>5, <1>7, LiveStaysBehind
<1> QED
  BY <1>9, <1>10, <1>11, <1>12, <1>13, <1>14, <1>15, <1>16, <1>17 DEF ReviewIInv

\* Other rows arrive, or another project's, which revoke the analysis.
LEMMA RowsPostedKeeps ==
  ASSUME ReviewIInv, RowsPosted
  PROVE  ReviewIInv'
<1>1. /\ QueuesOK /\ RowsOK /\ ReviewOK /\ HostOK /\ IdsReached
      /\ EmptyIsNotReady /\ RefreshHasCard /\ RowsStayQuarantined
      /\ LastRequestIsLast /\ LastIsHandled /\ DoneIsAlone /\ TrackedIsOpen /\ AnswerIsKept /\ LiveIsKept
  BY DEF ReviewIInv
<1>2. UNCHANGED <<analyzing, changing, derived, display, heard, lifecycle, refresh, requested, review,
                  toHost>>
  BY DEF RowsPosted, webview, hostRefresh
<1>3. /\ \A i \in 1 .. Len(toHost) : toHost[i].id \in Nat
      /\ \A i \in 1 .. Len(toView) : toView[i].type # "rows" => toView[i].id \in Nat
  BY <1>1, QueueFields
<1>4. /\ Newest \in Nat /\ requested \in Seq(ReviewPackages) /\ Len(requested) \in Nat
           /\ review.analysis \in Nat /\ review.request \in Nat /\ review.busy \in BOOLEAN
      /\ Len(toHost) \in Nat /\ Len(toView) \in Nat /\ keptReview \in Nat /\ changing \in Nat
           /\ analyzing.request \in Nat
  BY <1>1, QueueFields DEF QueuesOK, ReviewOK, HostOK, Newest
<1>5. Newest' = Newest
  BY <1>2 DEF Newest
<1>6. /\ hostRows' \in Rows /\ hostRows'.scan # 0
      /\ NoRows \in Rows /\ NoRows.scan = 0 /\ NoRows.status # "ready"
  <2>1. hostRows \in Rows /\ hostRows.scan # 0
    BY <1>1 DEF RowsOK, EmptyIsNotReady
  <2>2. \/ hostRows' = hostRows \/ hostRows' = [hostRows EXCEPT !.scan = @ + 1]
        \/ \E edited \in {0, 1} : hostRows' = [hostRows EXCEPT !.scan = @ + 1, !.declared = @ + edited]
    BY DEF RowsPosted
  <2>3. hostRows.scan \in Nat /\ hostRows.declared \in Nat
    BY <2>1 DEF Rows
  <2>4. hostRows' \in Rows /\ hostRows'.scan # 0
    <3>1. hostRows.scan + 1 \in Nat /\ hostRows.scan + 1 # 0
            /\ \A edited \in {0, 1} : hostRows.declared + edited \in Nat
      BY <2>3
    <3>2. CASE hostRows' = hostRows
      BY <2>1, <3>2
    <3>3. CASE hostRows' = [hostRows EXCEPT !.scan = @ + 1]
      BY <2>1, <3>1, <3>3 DEF Rows
    <3>4. ASSUME NEW edited \in {0, 1},
                   hostRows' = [hostRows EXCEPT !.scan = @ + 1, !.declared = @ + edited]
          PROVE  hostRows' \in Rows /\ hostRows'.scan # 0
      <4>1. hostRows.declared + edited \in Nat
        BY <3>1
      <4> QED BY <2>1, <3>1, <3>4, <4>1 DEF Rows
    <3> QED BY <2>2, <3>2, <3>3, <3>4
  <2> QED BY <2>4 DEF Rows, NoRows
<1>7. /\ Posted /\ \A i \in New : toView'[i].type = "rows"
           /\ (toView'[i].rows.scan = 0 => toView'[i].rows.status # "ready")
      /\ \/ keptReview' = keptReview
         \/ keptReview' = 0 /\ \E k \in New : Revokes(k)'
  <2>1. ASSUME NEW r \in Rows, r.scan # 0, PostToView(<<[type |-> "rows", rows |-> r]>>)
        PROVE  Posted /\ \A i \in New : toView'[i].type = "rows"
                 /\ (toView'[i].rows.scan = 0 => toView'[i].rows.status # "ready")
    <3> DEFINE m == [type |-> "rows", rows |-> r]
    <3>1. m \in ViewMessages /\ m.type = "rows" /\ m.rows = r
      BY RefreshMessages
    <3> HIDE DEF m
    <3>2. PostToView(<<m>>)
      BY <2>1 DEF m
    <3> QED BY <2>1, <3>1, <3>2, <1>1, PostedOne
  <2>2. CASE keptReview' = keptReview
               /\ PostToView(<<[type |-> "rows", rows |-> [hostRows EXCEPT !.status = "stale"]]>>)
    <3>1. [hostRows EXCEPT !.status = "stale"] \in Rows /\ [hostRows EXCEPT !.status = "stale"].scan # 0
      BY <1>1 DEF RowsOK, EmptyIsNotReady, Rows
    <3> QED BY <2>1, <2>2, <3>1
  <2>3. CASE keptReview' = keptReview /\ PostToView(<<[type |-> "rows", rows |-> hostRows']>>)
    BY <2>1, <2>3, <1>6
  <2>4. CASE keptReview' = 0
               /\ PostToView(<<[type |-> "rows", rows |-> NoRows], [type |-> "rows",
                    rows |-> hostRows']>>)
    <3> DEFINE m == [type |-> "rows", rows |-> NoRows]
               n == [type |-> "rows", rows |-> hostRows']
    <3>1. m \in ViewMessages /\ n \in ViewMessages
      BY <1>6, RefreshMessages
    <3>2. m.type = "rows" /\ m.rows = NoRows /\ n.type = "rows" /\ n.rows = hostRows'
      OBVIOUS
    <3> HIDE DEF m, n
    <3>3. PostToView(<<m, n>>)
      BY <2>4 DEF m, n
    <3>4. Posted /\ New = {Len(toView) + 1, Len(toView) + 2} /\ toView'[Len(toView) + 1] = m
            /\ toView'[Len(toView) + 2] = n
      BY <3>1, <3>3, <1>1, PostedTwo
    <3> QED BY <2>4, <3>2, <3>4, <1>6 DEF Revokes
  <2> QED BY <2>2, <2>3, <2>4 DEF RowsPosted
<1>8. (ReviewOK /\ RefreshHasCard /\ RowsStayQuarantined /\ LastRequestIsLast /\ LastIsHandled
         /\ TrackedIsOpen)'
  BY <1>1, <1>2, <1>5
  DEF ReviewOK, RefreshHasCard, RowsStayQuarantined, LastRequestIsLast, Upgrades, LastIsHandled,
    NoneWaits, TrackedIsOpen, Confirms
<1>9. QueuesOK'
  BY <1>1, <1>2, <1>7 DEF QueuesOK, Posted
<1>10. RowsOK'
  BY <1>1, <1>2, <1>6 DEF RowsOK
<1>11. HostOK'
  BY <1>1, <1>2, <1>4, <1>7 DEF HostOK
<1>12. IdsReached'
  BY <1>1, <1>2, <1>4, <1>5, <1>7, IdsStayReached DEF IdsReached
<1>13. EmptyIsNotReady'
  BY <1>1, <1>2, <1>6, <1>7 DEF EmptyIsNotReady, Posted
<1>14. DoneIsAlone'
  BY <1>1, <1>2, <1>4, <1>5, <1>7, DoneStaysBehind
<1>15. AnswerIsKept'
  BY <1>1, <1>2, <1>5, <1>7, AnswerStaysBehind
<1>16. LiveIsKept'
  <2>1. CASE keptReview' = keptReview
    BY <2>1, <1>1, <1>2, <1>5, <1>7, LiveStaysBehind
  <2>2. CASE \E k \in New : Revokes(k)'
    <3>1. ~Live'
      BY <2>2, <1>2, <1>5, <1>7, LiveBefore
    <3> QED BY <3>1 DEF LiveIsKept
  <2> QED BY <2>1, <2>2, <1>7
<1> QED
  BY <1>8, <1>9, <1>10, <1>11, <1>12, <1>13, <1>14, <1>15, <1>16 DEF ReviewIInv

-----------------------------------------------------------------------------
LEMMA ReviewStarts ==
  ReviewInit => ReviewIInv
<1> SUFFICES ASSUME ReviewInit
             PROVE  ReviewIInv
  OBVIOUS
<1>1. requested = <<>> /\ toHost = <<>> /\ toView = <<>> /\ Newest = 0 /\ Len(toHost) = 0
        /\ Len(toView) = 0
  BY DEF ReviewInit, Newest
<1>2. QueuesOK /\ RowsOK /\ ReviewOK /\ HostOK
  BY <1>1
  DEF ReviewInit, QueuesOK, RowsOK, ReviewOK, HostOK, Rows, NoReview, NoRefresh, NoRows, NoAttempt
<1>3. IdsReached /\ EmptyIsNotReady /\ RefreshHasCard /\ RowsStayQuarantined
  BY <1>1 DEF ReviewInit, IdsReached, EmptyIsNotReady, RefreshHasCard, RowsStayQuarantined,
              NoReview, NoRefresh, NoRows, NoAttempt
<1>4. LastRequestIsLast /\ LastIsHandled /\ TrackedIsOpen
  BY <1>1 DEF ReviewInit, LastRequestIsLast, LastIsHandled, TrackedIsOpen, NoReview
<1>5. DoneIsAlone /\ AnswerIsKept /\ LiveIsKept
  BY <1>1 DEF ReviewInit, DoneIsAlone, Done, AnswerIsKept, LiveIsKept, Live, NoReview
<1> QED BY <1>2, <1>3, <1>4, <1>5 DEF ReviewIInv

LEMMA ReviewStep ==
  ReviewIInv /\ [ReviewNext]_reviewVars => ReviewIInv'
<1> SUFFICES ASSUME ReviewIInv, [ReviewNext]_reviewVars
             PROVE  ReviewIInv'
  OBVIOUS
<1>1. ASSUME NEW p \in ReviewPackages, RequestUpgrade(p) \/ OpenManage(p)
      PROVE  ReviewIInv'
  BY <1>1, RequestUpgradeKeeps, OpenManageKeeps
<1>2. CASE CancelUpgrade \/ RefreshAnalysis \/ ConfirmUpgrade \/ RetryEnrichment
  BY <1>2, CancelUpgradeKeeps, RefreshAnalysisKeeps, ConfirmUpgradeKeeps, RetryEnrichmentKeeps
<1>3. CASE Hears
  BY <1>3, ShowAnalysisKeeps, ShowErrorKeeps, ShowStaleKeeps, ShowResultKeeps, ShowEnrichmentKeeps,
     ShowRowsKeeps DEF Hears
<1>4. CASE Handles
  BY <1>4, HandleUpgradeKeeps, HandleCancelUpgradeKeeps, HandleConfirmKeeps, HandleRetryKeeps DEF Handles
<1>5. CASE AttemptEnds \/ AttemptSettles \/ SourceChanges \/ ChangeEnds \/ RowsPosted
  BY <1>5, AttemptEndsKeeps, AttemptSettlesKeeps, SourceChangesKeeps, ChangeEndsKeeps, RowsPostedKeeps
<1>6. ASSUME NEW id \in 1 .. MaxReviews, DerivedEnds(id)
      PROVE  ReviewIInv'
  BY <1>6, DerivedEndsKeeps
<1>7. CASE UNCHANGED reviewVars
  <2>1. UNCHANGED <<review, refresh, display, heard, toHost, toView, analyzing, keptReview, changing,
                    lifecycle, derived, hostRows, requested, nRows>>
    BY <1>7 DEF reviewVars
  <2>2. (QueuesOK /\ RowsOK /\ ReviewOK /\ HostOK)'
    BY <2>1 DEF ReviewIInv, QueuesOK, RowsOK, ReviewOK, HostOK, Newest
  <2>3. (IdsReached /\ EmptyIsNotReady /\ RefreshHasCard /\ RowsStayQuarantined)'
    BY <2>1 DEF ReviewIInv, IdsReached, EmptyIsNotReady, RefreshHasCard, RowsStayQuarantined, Newest
  <2>4. (LastRequestIsLast /\ LastIsHandled /\ DoneIsAlone /\ TrackedIsOpen)'
    BY <2>1 DEF ReviewIInv, LastRequestIsLast, LastIsHandled, DoneIsAlone, TrackedIsOpen,
                Done, NoneWaits, Upgrades, Analyzed, Confirms, Newest
  <2>5. (AnswerIsKept /\ LiveIsKept)'
    BY <2>1 DEF ReviewIInv, AnswerIsKept, LiveIsKept, Live, Silent, Analyzed, Revokes, Confirms, Newest
  <2> QED BY <2>2, <2>3, <2>4, <2>5 DEF ReviewIInv
<1> QED BY <1>1, <1>2, <1>3, <1>4, <1>5, <1>6, <1>7 DEF ReviewNext

\* Of any number of requests only the last counts: its analysis is the one kept, and
\* nothing else that is under way for another one can take its place.
THEOREM ReviewInvariant ==
  ReviewSpec => []ReviewIInv
BY ReviewStarts, ReviewStep, PTL DEF ReviewSpec

LEMMA SidesAgree ==
  ReviewIInv => ReviewsAgree
<1> SUFFICES ASSUME ReviewIInv
             PROVE  ReviewsAgree
  OBVIOUS
<1>1. RowsStayQuarantined
  BY DEF ReviewIInv
<1>2. ASSUME toHost = <<>>, toView = <<>>, ~review.busy, review.analysis # 0,
               review.stale # review.analysis
      PROVE  keptReview = review.analysis /\ review.analysis = review.request
  <2>1. Live
    <3>1. Len(toView) = 0
      BY <1>2
    <3> QED BY <1>2, <3>1 DEF Live
  <2>2. keptReview = Newest
    BY <2>1, <1>2 DEF ReviewIInv, LiveIsKept, Silent
  <2>3. review.analysis = review.request /\ review.request = Newest
    BY <1>2 DEF ReviewIInv, ReviewOK
  <2> QED BY <2>2, <2>3
<1> QED BY <1>1, <1>2 DEF ReviewsAgree, ConfirmableIsKept

\* The two sides of a review agree: with nothing under way between them, the analysis the
\* webview offers for confirmation is the one the host would execute, and the rows it
\* shows as current came after no refresh that is still to be trusted.
THEOREM BothSidesAgree ==
  ReviewSpec => []ReviewsAgree
<1>1. ReviewIInv => ReviewsAgree
  BY SidesAgree
<1> QED BY <1>1, ReviewInvariant, PTL
=============================================================================
