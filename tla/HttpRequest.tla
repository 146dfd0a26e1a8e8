----------------------------- MODULE HttpRequest -----------------------------
(***************************************************************************)
(* One request of NodeHttpClient (core/registry/http.ts) with its          *)
(* redirects, and what node:https tells it: headers, the end of the body,  *)
(* errors, the timeout, the caller's signal.  Whatever comes first settles *)
(* the promise; everything that comes later must find it settled.          *)
(***************************************************************************)
EXTENDS Integers

CONSTANTS
  MaxRedirects,   \* MAX_REDIRECTS
  MaxChunks       \* the chunks that fit into MAX_RESPONSE_BYTES

ASSUME HttpAssumption == MaxRedirects \in Nat /\ MaxChunks \in Nat

VARIABLES
  hop,            \* of requestWithRedirects
  wire,           \* of this hop: "closed", "sent", "bodyless", "body", "destroyed", "over"
  reading,        \* the body's stream may still speak
  compressed,     \* the body goes through a decompressor
  chunks,
  tooLarge,       \* the flag "aborted" of the response callback
  listening,      \* the abort listener is registered
  callerAborted,
  settledFor,     \* history: why this hop's promise was settled, in order
  reply          \* what get or post returned or threw, "none" before

httpVars == <<hop, wire, reading, compressed, chunks, tooLarge, listening, callerAborted, settledFor, reply>>

HttpInit ==
  /\ hop = 0 /\ wire = "closed" /\ reading = FALSE /\ compressed = FALSE /\ chunks = 0 /\ tooLarge = FALSE
  /\ listening = FALSE /\ callerAborted = FALSE /\ settledFor = {} /\ reply = "none"

Unsettled == settledFor = {}
RequestDone == reply # "none" /\ wire \in {"closed", "over"} /\ ~reading

\* fail: the first to settle removes the abort listener and rejects.
Reject(code) ==
  IF Unsettled THEN settledFor' = {code} /\ listening' = FALSE /\ reply' = code
  ELSE UNCHANGED <<settledFor, listening, reply>>

\* once: another scheme and an aborted caller are refused before anything is sent.
SendRequest(https) ==
  /\ wire = "closed" /\ reply = "none"
  /\ hop > 0 => https
  /\ IF https /\ ~callerAborted
     THEN wire' = "sent" /\ listening' = TRUE /\ UNCHANGED <<settledFor, reply>>
     ELSE Reject(IF https THEN "CANCELLED" ELSE "BAD_URL") /\ UNCHANGED wire
  /\ UNCHANGED <<hop, reading, compressed, chunks, tooLarge, callerAborted>>

\* The response callback: a 304 is only awaited to its end, another body is read.
HeadersArrive(kind) ==
  /\ wire = "sent"
  /\ wire' = IF kind = "bodyless" THEN "bodyless" ELSE "body"
  /\ reading' = TRUE /\ compressed' = (kind = "compressed") /\ chunks' = 0
  /\ UNCHANGED <<hop, tooLarge, listening, callerAborted, settledFor, reply>>

\* succeed, and what requestWithRedirects does with the response: a redirect is followed when it
\* names another https address and not too many were followed before.  A location that is no
\* address at all is thrown as what the URL constructor throws, a TypeError.
Resolve(kind) ==
  LET code == CASE kind \in {"response", "NETWORK", "BAD_URL", "TypeError"} -> kind
                [] hop = MaxRedirects -> "TOO_MANY_REDIRECTS"
                [] OTHER -> "none"
  IN IF ~Unsettled THEN UNCHANGED <<settledFor, listening, reply, hop>> /\ wire' = wire
     ELSE /\ listening' = FALSE /\ reply' = code
          /\ IF code = "none" THEN hop' = hop + 1 /\ settledFor' = {} /\ wire' = "closed"
             ELSE UNCHANGED hop /\ settledFor' = {"response"} /\ wire' = "over"

\* 'end', of a 304 or of the body: a decompressor may end after the request was destroyed.
BodyEnds(kind) ==
  /\ reading /\ (wire \in {"body", "bodyless"} \/ (wire = "destroyed" /\ compressed))
  /\ wire = "bodyless" => kind = "response"
  /\ reading' = FALSE
  /\ IF tooLarge THEN UNCHANGED <<settledFor, listening, reply, hop, wire>> ELSE Resolve(kind)
  /\ UNCHANGED <<compressed, chunks, tooLarge, callerAborted>>

\* 'data': too many chunks destroy the request.
ChunkArrives ==
  /\ reading /\ chunks <= MaxChunks /\ (wire = "body" \/ (wire = "destroyed" /\ compressed))
  /\ chunks' = chunks + 1
  /\ IF ~tooLarge /\ chunks + 1 > MaxChunks THEN tooLarge' = TRUE /\ wire' = "destroyed" /\ Reject("TOO_LARGE")
     ELSE UNCHANGED <<tooLarge, wire, settledFor, listening, reply>>
  /\ UNCHANGED <<hop, reading, compressed, callerAborted>>

\* 'error' of the stream that is read: data that cannot be decompressed, or a connection lost under a
\* body that is not compressed.  Nobody listens to the errors of a 304 or below a decompressor.
BodyFails ==
  /\ reading /\ wire \in {"body", "destroyed"}
  /\ reading' = FALSE
  /\ wire' = IF compressed THEN wire ELSE "destroyed"
  /\ IF tooLarge THEN UNCHANGED <<settledFor, listening, reply>> ELSE Reject("NETWORK")
  /\ UNCHANGED <<hop, compressed, chunks, tooLarge, callerAborted>>

\* 'error' of the request, before there is a response; it may report its own destruction.
RequestFails ==
  /\ wire = "sent" \/ (wire = "destroyed" /\ ~reading)
  /\ wire' = "over"
  /\ Reject(IF callerAborted THEN "CANCELLED" ELSE "NETWORK")
  /\ UNCHANGED <<hop, reading, compressed, chunks, tooLarge, callerAborted>>

\* The idle timer of the socket.
TimesOut ==
  /\ wire \in {"sent", "body", "bodyless"}
  /\ wire' = "destroyed"
  /\ Reject("TIMEOUT")
  /\ UNCHANGED <<hop, reading, compressed, chunks, tooLarge, callerAborted>>

\* The connection is closed under the response: a body that is read without a decompressor fails
\* (BodyFails); otherwise the request only closes.
ConnectionLost ==
  /\ wire = "bodyless" \/ (wire = "body" /\ compressed)
  /\ wire' = "over" /\ reading' = FALSE
  /\ listening' = FALSE
  /\ UNCHANGED <<hop, compressed, chunks, tooLarge, callerAborted, settledFor, reply>>

\* 'close' after a destruction: cleanupAbort.
RequestCloses ==
  /\ wire = "destroyed"
  /\ wire' = "over" /\ reading' = FALSE /\ listening' = FALSE
  /\ UNCHANGED <<hop, compressed, chunks, tooLarge, callerAborted, settledFor, reply>>

\* The caller's signal: onAbort of the hop under way.
CallerAborts ==
  /\ ~callerAborted
  /\ callerAborted' = TRUE
  /\ IF listening THEN wire' = "destroyed" /\ Reject("CANCELLED")
     ELSE UNCHANGED <<wire, settledFor, listening, reply>>
  /\ UNCHANGED <<hop, reading, compressed, chunks, tooLarge>>

BodyKinds == {"response", "redirect", "NETWORK", "BAD_URL", "TypeError"}
HttpNext ==
  \/ \E https \in BOOLEAN : SendRequest(https)
  \/ \E kind \in {"bodyless", "plain", "compressed"} : HeadersArrive(kind)
  \/ \E kind \in BodyKinds : BodyEnds(kind)
  \/ ChunkArrives \/ BodyFails \/ RequestFails \/ TimesOut \/ ConnectionLost \/ RequestCloses
  \/ CallerAborts

HttpSpec == HttpInit /\ [][HttpNext]_httpVars

\* The socket says something or its timer fires, and a destroyed request closes.
HttpFairness == WF_httpVars(HttpNext /\ ~CallerAborts)

\* A request is answered once, with what came first: a cancellation only after an abort, and after an
\* abort of a request under way nothing else.  The shared signal keeps no listener of a request that
\* is over, and hears of every one that is not.
RequestsAreSettledOnce ==
  /\ \A first, second \in settledFor : first = second
  /\ reply = "CANCELLED" => callerAborted
  /\ listening => Unsettled /\ ~callerAborted /\ wire \in {"sent", "body", "bodyless", "destroyed"}
  /\ wire \in {"sent", "body", "bodyless"} => listening \/ ~Unsettled
  /\ hop <= MaxRedirects

\* Every request is answered, except one whose connection was closed under a response that is not read
\* directly: then neither the timeout nor the caller's signal can settle it.
Unanswerable == wire = "over" /\ Unsettled /\ reply = "none"
RequestAnswered == <>(reply # "none" \/ Unanswerable)
=============================================================================
