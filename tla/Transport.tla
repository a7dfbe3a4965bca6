------------------------------ MODULE Transport ------------------------------
(***************************************************************************)
(* _send of both clients (src/graphann/client.py, async_client.py) with    *)
(* the time it takes: attempts, the delay before each retry                *)
(* (src/graphann/_retry.py), which responses and failures are retried, and *)
(* the exception each of the others becomes (src/graphann/_http.py,        *)
(* errors.py).                                                             *)
(*                                                                         *)
(* Time is counted in ticks, for each caller by itself: callers share no   *)
(* clock that anything depends on.                                         *)
(***************************************************************************)
EXTENDS Integers

CONSTANTS
  Callers,            \* the threads or tasks that send requests
  MaxRetries, BackoffBase, MaxDelay, RespectRetryAfter, RetryOnStatus,
                      \* RetryPolicy
  MaxExponent,        \* the largest e such that float(2**e) exists: 1023
  Timeout,            \* what httpx's timeouts let one attempt take
  None

ASSUME PolicyTypes ==
  /\ MaxRetries \in Nat /\ BackoffBase \in Nat /\ MaxDelay \in Nat
  /\ RespectRetryAfter \in BOOLEAN
  /\ RetryOnStatus \subseteq 400 .. 599
  /\ MaxExponent \in Nat /\ Timeout \in Nat
  /\ None \notin Int

VARIABLES
  stage,    \* where in _send each caller is
  attempt,  \* attempt
  timer,    \* ticks left of the attempt's timeout, or of the sleep
  asked,    \* history: ticks left of the wait the server asked for
  retried,  \* history: what the attempt that is to be repeated ended with
  spent,    \* history: ticks since _send began
  got       \* what the latest _send ended with

transportVars == <<stage, attempt, timer, asked, retried, spent, got>>

\* Transport failures have no status; these numbers stand for one.
Broken == 0    \* is_retriable_transport_error(exc)
Rejected == 1  \* any other httpx.HTTPError, or none at all
Causes == {Broken, Rejected} \cup 200 .. 599

SDKErrors ==
  {"GraphANNError", "AuthenticationError", "AuthorizationError",
   "NotFoundError", "ConflictError", "PayloadTooLargeError",
   "RateLimitError", "ServerError", "NetworkError"}

\* A parsed body, None, or an exception; and the status or failure it is due
\* to.
Ends == [class : {"Value", "Nothing", "CancelledError", "OverflowError"}
                   \cup SDKErrors,
         cause : Causes]

TransportTypeOK ==
  /\ stage \in [Callers -> {"idle", "sending", "sleeping"}]
  /\ attempt \in [Callers -> 0 .. MaxRetries]
  /\ timer \in [Callers -> Nat]
  /\ asked \in [Callers -> Nat]
  /\ retried \in [Callers -> Causes \cup {None}]
  /\ spent \in [Callers -> Nat]
  /\ got \in [Callers -> Ends \cup {None}]

TransportInit ==
  /\ stage = [c \in Callers |-> "idle"]
  /\ attempt = [c \in Callers |-> 0]
  /\ timer = [c \in Callers |-> 0]
  /\ asked = [c \in Callers |-> 0]
  /\ retried = [c \in Callers |-> None]
  /\ spent = [c \in Callers |-> 0]
  /\ got = [c \in Callers |-> None]

Smaller(m, n) == IF m < n THEN m ELSE n
Larger(m, n) == IF m < n THEN n ELSE m

-----------------------------------------------------------------------------
(* What a response means.                                                  *)

IsNoContent(status, body) ==
  status = 204 \/ (status = 200 /\ body = "empty")

ErrorFor(status) ==
  CASE status = 401 -> "AuthenticationError"
    [] status = 403 -> "AuthorizationError"
    [] status = 404 -> "NotFoundError"
    [] status = 409 -> "ConflictError"
    [] status = 413 -> "PayloadTooLargeError"
    [] status = 429 -> "RateLimitError"
    [] status \in 500 .. 599 -> "ServerError"
    [] OTHER -> "GraphANNError"

\* A 2xx that has a body must have a JSON one.
ProcessResponse(status, body) ==
  CASE status \notin 200 .. 299 -> ErrorFor(status)
    [] status \in 200 .. 299 /\ IsNoContent(status, body) -> "Nothing"
    [] OTHER -> IF body = "json" THEN "Value" ELSE "GraphANNError"

\* The seconds a Retry-After header asks for, whether it gives a number or a
\* date; None when it is missing or neither.
ParseRetryAfter(header) == IF header = None THEN None ELSE Larger(0, header)

-----------------------------------------------------------------------------
(* compute_delay                                                           *)

Honoured(wait) == wait # None /\ RespectRetryAfter

Overflows(a, wait) == ~ Honoured(wait) /\ a > MaxExponent

\* BUG: a Retry-After is not cut to max_delay.
DelaysUncut(a, wait) ==
  IF Honoured(wait) THEN {wait}
  ELSE 0 .. Smaller(MaxDelay, BackoffBase * 2 ^ a)

\* The server's wait, or any part of the exponential backoff, neither longer
\* than max_delay.
Delays(a, wait) ==
  IF Honoured(wait) THEN {Smaller(MaxDelay, wait)}
  ELSE 0 .. Smaller(MaxDelay, BackoffBase * 2 ^ a)

-----------------------------------------------------------------------------
(* _send                                                                   *)

Start(c) ==
  /\ stage[c] = "idle"
  /\ stage' = [stage EXCEPT ![c] = "sending"]
  /\ attempt' = [attempt EXCEPT ![c] = 0]
  /\ timer' = [timer EXCEPT ![c] = Timeout]
  /\ got' = [got EXCEPT ![c] = None]
  /\ UNCHANGED <<asked, retried, spent>>

\* The caller's time goes on.
Tick(c) ==
  /\ stage[c] # "idle"
  /\ timer[c] > 0
  /\ timer' = [timer EXCEPT ![c] = @ - 1]
  /\ asked' = [asked EXCEPT ![c] = Larger(0, @ - 1)]
  /\ spent' = [spent EXCEPT ![c] = @ + 1]
  /\ UNCHANGED <<stage, attempt, retried, got>>

\* _send ends.  attempt stays until the next one, for a property to look at.
End(c, class, cause) ==
  /\ stage' = [stage EXCEPT ![c] = "idle"]
  /\ timer' = [timer EXCEPT ![c] = 0]
  /\ asked' = [asked EXCEPT ![c] = 0]
  /\ spent' = [spent EXCEPT ![c] = 0]
  /\ got' = [got EXCEPT ![c] = [class |-> class, cause |-> cause]]
  /\ retried' = [retried EXCEPT ![c] = None]
  /\ UNCHANGED attempt

\* What the server asks for that the policy is to honour.
Asks(status, header) ==
  IF status \in {429, 503} /\ header # None /\ RespectRetryAfter
    THEN Smaller(MaxDelay, Larger(0, header)) ELSE 0

\* An attempt is left after one that ended in cause: sleep before it.
\* float(2**attempt) may not exist.
Sleep(c, cause, wait, ask) ==
  \/ /\ Overflows(attempt[c], wait)
     /\ End(c, "OverflowError", Rejected)
  \/ /\ ~ Overflows(attempt[c], wait)
     /\ \E d \in Delays(attempt[c], wait) : timer' = [timer EXCEPT ![c] = d]
     /\ stage' = [stage EXCEPT ![c] = "sleeping"]
     /\ asked' = [asked EXCEPT ![c] = ask]
     /\ retried' = [retried EXCEPT ![c] = cause]
     /\ UNCHANGED <<attempt, spent, got>>

\* The sleep is over: the same plan is sent again.
Resend(c) ==
  /\ stage[c] = "sleeping"
  /\ timer[c] = 0
  /\ stage' = [stage EXCEPT ![c] = "sending"]
  /\ attempt' = [attempt EXCEPT ![c] = @ + 1]
  /\ timer' = [timer EXCEPT ![c] = Timeout]
  /\ retried' = [retried EXCEPT ![c] = None]
  /\ UNCHANGED <<asked, spent, got>>

\* BUG: a transport error is retried only once.
FailAfterOne(c, retriable) ==
  LET cause == IF retriable THEN Broken ELSE Rejected
  IN  /\ stage[c] = "sending"
      /\ IF retriable /\ attempt[c] < 1 /\ attempt[c] < MaxRetries
           THEN Sleep(c, cause, None, 0)
           ELSE End(c, "NetworkError", cause)

\* httpx raises, for a timeout too.
Fail(c, retriable) ==
  LET cause == IF retriable THEN Broken ELSE Rejected
  IN  /\ stage[c] = "sending"
      /\ IF retriable /\ attempt[c] < MaxRetries
           THEN Sleep(c, cause, None, 0)
           ELSE End(c, "NetworkError", cause)

\* BUG: the Retry-After of a 503 is not looked at.
RespondRateLimitOnly(c, status, body, header) ==
  /\ stage[c] = "sending"
  /\ IF status \in RetryOnStatus /\ attempt[c] < MaxRetries
       THEN Sleep(c, status,
                  IF status = 429 THEN ParseRetryAfter(header) ELSE None,
                  Asks(status, header))
       ELSE End(c, ProcessResponse(status, body), status)

\* BUG: off by one, max_retries + 1 retries.
RespondOnceTooMany(c, status, body, header) ==
  /\ stage[c] = "sending"
  /\ IF status \in RetryOnStatus /\ attempt[c] <= MaxRetries
       THEN Sleep(c, status,
                  IF status \in {429, 503} THEN ParseRetryAfter(header)
                                           ELSE None,
                  Asks(status, header))
       ELSE End(c, ProcessResponse(status, body), status)

\* BUG: every server error is retried.
RespondAllServerErrors(c, status, body, header) ==
  /\ stage[c] = "sending"
  /\ IF status \in RetryOnStatus \cup 500 .. 599 /\ attempt[c] < MaxRetries
       THEN Sleep(c, status,
                  IF status \in {429, 503} THEN ParseRetryAfter(header)
                                           ELSE None,
                  Asks(status, header))
       ELSE End(c, ProcessResponse(status, body), status)

\* A response arrives.  Only a 429's or a 503's Retry-After is looked at.
Respond(c, status, body, header) ==
  /\ stage[c] = "sending"
  /\ IF status \in RetryOnStatus /\ attempt[c] < MaxRetries
       THEN Sleep(c, status,
                  IF status \in {429, 503} THEN ParseRetryAfter(header)
                                           ELSE None,
                  Asks(status, header))
       ELSE End(c, ProcessResponse(status, body), status)

\* The task is cancelled in the request or in the sleep.
Abort(c) ==
  /\ stage[c] # "idle"
  /\ End(c, "CancelledError", Rejected)

-----------------------------------------------------------------------------
\* A failure that counts as transient reaches the caller only when the policy
\* leaves no attempt.
TransientOnlyAtLast ==
  \A c \in Callers :
    got[c] # None /\ got[c].class # "OverflowError" =>
      (got[c].cause \in RetryOnStatus \cup {Broken} =>
         attempt[c] = MaxRetries)

\* A caller sleeps for another attempt only after one that ended in a status
\* the policy lists or in a transport error that counts as transient
\* (client.py:202-222): any other answer is final, a write the server refused
\* or may have made is not repeated over it.
OnlyTransientIsRepeated ==
  \A c \in Callers :
    retried[c] # None => retried[c] \in RetryOnStatus \cup {Broken}

\* No attempt is sent while the wait that a 429 or 503 asked for, cut to
\* max_delay, still runs.
WaitsAsAsked ==
  \A c \in Callers : stage[c] = "sending" => asked[c] = 0

\* However the server answers, a caller is out of _send by the time its
\* attempts and the longest delays between them take.
TimeIsBounded ==
  \A c \in Callers :
    spent[c] <= (MaxRetries + 1) * Timeout + MaxRetries * MaxDelay

\* README.md:99: "Every error raised by the SDK derives from
\* graphann.errors.GraphANNError" -- that of a retry whose delay is too large
\* a power for float (_retry.py:62) does not.
ErrorsAreTyped ==
  \A c \in Callers :
    got[c] # None =>
      got[c].class \in SDKErrors \cup {"Value", "Nothing", "CancelledError"}
=============================================================================
