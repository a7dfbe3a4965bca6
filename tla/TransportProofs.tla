--------------------------- MODULE TransportProofs ---------------------------
(***************************************************************************)
(* Lemmas about the steps of Transport, for any policy and any server, for *)
(* the proofs about the modules that send through it.                      *)
(***************************************************************************)
EXTENDS Transport, TLAPS

-----------------------------------------------------------------------------
(* What each caller's _send has used and has left.                         *)

\* The time that n attempts and m delays can take.
Budget(n, m) == n * Timeout + m * MaxDelay

\* The attempt that runs, or the sleep, ends within the budget of the
\* attempts so far; the wait the server asked for ends with the sleep.
OnSchedule(c) ==
  /\ stage[c] = "idle" => spent[c] = 0 /\ timer[c] = 0 /\ asked[c] = 0
  /\ stage[c] = "sending" =>
       /\ asked[c] = 0
       /\ spent[c] + timer[c] <= Budget(attempt[c] + 1, attempt[c])
  /\ stage[c] = "sleeping" =>
       /\ attempt[c] < MaxRetries
       /\ asked[c] <= timer[c]
       /\ spent[c] + timer[c] <= Budget(attempt[c] + 1, attempt[c] + 1)

\* What the policy lets the caller repeat.
Transient == RetryOnStatus \cup {Broken}

\* Only a _send that is over has an end; one that is due to something
\* transient comes of the last attempt, and what is repeated was transient.
EndsRightly(c) ==
  /\ stage[c] # "idle" => got[c] = None
  /\ got[c] # None /\ got[c].class # "OverflowError" =>
       (got[c].cause \in Transient => attempt[c] = MaxRetries)
  /\ retried[c] # None => retried[c] \in Transient

Sound(c) == OnSchedule(c) /\ EndsRightly(c)

TransportInv == TransportTypeOK /\ \A c \in Callers : Sound(c)

\* The four properties of Transport follow from it.
Promises == /\ TransientOnlyAtLast /\ OnlyTransientIsRepeated
            /\ WaitsAsAsked /\ TimeIsBounded

-----------------------------------------------------------------------------
(* Facts about the operators.                                              *)

\* Delays are numbers up to max_delay, and at least what is honoured.
LEMMA DelayBounds ==
  ASSUME NEW a \in Nat, NEW wait \in Nat \cup {None}, NEW d \in Delays(a, wait)
  PROVE  /\ d \in Nat /\ d <= MaxDelay
         /\ Honoured(wait) => d = Smaller(MaxDelay, wait)
<1>1. CASE Honoured(wait)
  BY <1>1, PolicyTypes DEF Delays, Smaller, Honoured
<1>2. CASE ~ Honoured(wait)
  <2>1. BackoffBase * 2 ^ a \in Int
    BY PolicyTypes
  <2>2. QED
    BY <1>2, <2>1, PolicyTypes DEF Delays, Smaller
<1>3. QED
  BY <1>1, <1>2

\* A longer budget holds a shorter one.
LEMMA BudgetGrows ==
  ASSUME NEW n \in Nat, NEW m \in Nat
  PROVE  /\ Budget(n, m) \in Nat
         /\ Budget(n + 1, m) = Budget(n, m) + Timeout
         /\ Budget(n, m + 1) = Budget(n, m) + MaxDelay
BY PolicyTypes DEF Budget

LEMMA BudgetIsMonotone ==
  ASSUME NEW n \in Nat, NEW m \in Nat, NEW p \in Nat, NEW q \in Nat,
         n <= p, m <= q
  PROVE  Budget(n, m) <= Budget(p, q)
<1>1. n * Timeout <= p * Timeout /\ m * MaxDelay <= q * MaxDelay
  BY PolicyTypes
<1>2. n * Timeout \in Int /\ p * Timeout \in Int /\ m * MaxDelay \in Int
      /\ q * MaxDelay \in Int
  BY PolicyTypes
<1>3. QED
  BY <1>1, <1>2 DEF Budget

\* Every response has an end of its own kind.
LEMMA ResponsesEnd ==
  ASSUME NEW status \in 200 .. 599, NEW body
  PROVE  [class |-> ProcessResponse(status, body), cause |-> status] \in Ends
<1>1. ErrorFor(status) \in SDKErrors
  BY DEF ErrorFor, SDKErrors
<1>2. ProcessResponse(status, body) \in SDKErrors \cup {"Value", "Nothing"}
  BY <1>1, status \in 200 .. 299 \/ status \notin 200 .. 299,
     IsNoContent(status, body) \/ ~ IsNoContent(status, body)
     DEF ProcessResponse, SDKErrors
<1>3. QED
  BY <1>2 DEF Ends, Causes

-----------------------------------------------------------------------------
(* The invariant is kept by every step of every caller.                    *)

\* It suffices to look at the caller that takes the step.
LEMMA OneCallerMoves ==
  ASSUME TransportInv, TransportTypeOK', NEW c \in Callers, Sound(c)',
         \A x \in Callers \ {c} :
           /\ stage'[x] = stage[x] /\ attempt'[x] = attempt[x]
           /\ timer'[x] = timer[x] /\ asked'[x] = asked[x]
           /\ spent'[x] = spent[x] /\ got'[x] = got[x]
           /\ retried'[x] = retried[x]
  PROVE  TransportInv'
<1>1. ASSUME NEW x \in Callers \ {c}
      PROVE  Sound(x)'
  BY <1>1 DEF TransportInv, Sound, OnSchedule, EndsRightly, Budget
<1>2. QED
  BY <1>1 DEF TransportInv

LEMMA InitSound == TransportInit => TransportInv
BY PolicyTypes DEF TransportInit, TransportInv, TransportTypeOK, Sound,
   OnSchedule, EndsRightly, Ends

LEMMA StartSound ==
  ASSUME TransportInv, NEW c \in Callers, Start(c)
  PROVE  TransportInv'
<1>1. TransportTypeOK'
  BY PolicyTypes DEF TransportInv, TransportTypeOK, Start
<1>2. /\ stage'[c] = "sending" /\ attempt'[c] = 0 /\ timer'[c] = Timeout
      /\ got'[c] = None /\ spent'[c] = 0 /\ asked'[c] = 0
      /\ retried'[c] = retried[c]
  BY DEF TransportInv, TransportTypeOK, Start, Sound, OnSchedule
<1>3. Budget(1, 0) = Timeout
  BY PolicyTypes DEF Budget
<1>4. Sound(c)'
  BY <1>2, <1>3, PolicyTypes
     DEF TransportInv, Sound, OnSchedule, EndsRightly, Budget
<1>5. QED
  BY <1>1, <1>4, OneCallerMoves DEF Start, TransportInv, TransportTypeOK

LEMMA TickSound ==
  ASSUME TransportInv, NEW c \in Callers, Tick(c)
  PROVE  TransportInv'
<1>1. TransportTypeOK'
  BY DEF TransportInv, TransportTypeOK, Tick, Larger
<1>2. /\ stage'[c] = stage[c] /\ attempt'[c] = attempt[c]
      /\ got'[c] = got[c] /\ retried'[c] = retried[c]
      /\ stage[c] # "idle" /\ timer[c] > 0
      /\ timer'[c] = timer[c] - 1 /\ spent'[c] = spent[c] + 1
      /\ asked'[c] = IF 0 < asked[c] - 1 THEN asked[c] - 1 ELSE 0
  BY DEF TransportInv, TransportTypeOK, Tick, Larger
<1>3. /\ timer[c] \in Nat /\ asked[c] \in Nat /\ spent[c] \in Nat
      /\ attempt[c] \in Nat /\ attempt[c] + 1 \in Nat
  BY PolicyTypes DEF TransportInv, TransportTypeOK
<1>4. /\ Budget(attempt[c] + 1, attempt[c]) \in Nat
      /\ Budget(attempt[c] + 1, attempt[c] + 1) \in Nat
  BY <1>3, BudgetGrows
<1>5. OnSchedule(c)'
  BY <1>2, <1>3, <1>4 DEF TransportInv, Sound, OnSchedule, Budget
<1>6. EndsRightly(c)'
  BY <1>2 DEF TransportInv, Sound, EndsRightly
<1>7. QED
  BY <1>1, <1>5, <1>6, OneCallerMoves
     DEF Sound, Tick, TransportInv, TransportTypeOK

\* An end is sound when it is not due to something transient, or no attempt
\* is left.
LEMMA EndSound ==
  ASSUME TransportInv, NEW c \in Callers, NEW class, NEW cause,
         [class |-> class, cause |-> cause] \in Ends,
         class # "OverflowError" =>
           (cause \in Transient => attempt[c] = MaxRetries),
         End(c, class, cause)
  PROVE  TransportInv'
<1>1. TransportTypeOK'
  BY DEF TransportInv, TransportTypeOK, End
<1>2. /\ stage'[c] = "idle" /\ attempt'[c] = attempt[c] /\ timer'[c] = 0
      /\ asked'[c] = 0 /\ spent'[c] = 0 /\ retried'[c] = None
      /\ got'[c] = [class |-> class, cause |-> cause]
  BY DEF TransportInv, TransportTypeOK, End
<1>3. Sound(c)'
  BY <1>2 DEF Sound, OnSchedule, EndsRightly
<1>4. QED
  BY <1>1, <1>3, OneCallerMoves DEF End, TransportInv, TransportTypeOK

\* A sleep ends within the budget and not before the wait asked for; without
\* an exponent for it, _send ends in OverflowError.
LEMMA SleepSound ==
  ASSUME TransportInv, NEW c \in Callers, NEW wait \in Nat \cup {None},
         NEW ask \in Nat, NEW cause \in Causes, cause \in Transient,
         stage[c] = "sending", attempt[c] < MaxRetries,
         \A d \in Delays(attempt[c], wait) : ask <= d,
         Sleep(c, cause, wait, ask)
  PROVE  TransportInv'
<1> /\ attempt[c] \in 0 .. MaxRetries /\ attempt[c] \in Nat
    /\ attempt[c] + 1 \in Nat
  BY PolicyTypes DEF TransportInv, TransportTypeOK
<1>1. CASE Overflows(attempt[c], wait)
  <2>1. [class |-> "OverflowError", cause |-> Rejected] \in Ends
    BY DEF Ends, Causes, Rejected
  <2>2. End(c, "OverflowError", Rejected)
    BY <1>1 DEF Sleep
  <2>3. QED
    BY <2>1, <2>2, EndSound
<1>2. CASE ~ Overflows(attempt[c], wait)
  <2>1. PICK d \in Delays(attempt[c], wait) :
          timer' = [timer EXCEPT ![c] = d]
    BY <1>2 DEF Sleep
  <2>2. d \in Nat /\ d <= MaxDelay /\ ask <= d
    BY DelayBounds
  <2>3. TransportTypeOK'
    BY <1>2, <2>1, <2>2 DEF TransportInv, TransportTypeOK, Sleep
  <2>4. /\ stage'[c] = "sleeping" /\ attempt'[c] = attempt[c]
        /\ timer'[c] = d /\ asked'[c] = ask /\ retried'[c] = cause
        /\ spent'[c] = spent[c] /\ got'[c] = got[c]
    BY <1>2, <2>1 DEF TransportInv, TransportTypeOK, Sleep
  <2>5. /\ spent[c] \in Nat /\ timer[c] \in Nat
        /\ Budget(attempt[c] + 1, attempt[c]) \in Nat
        /\ Budget(attempt[c] + 1, attempt[c] + 1)
             = Budget(attempt[c] + 1, attempt[c]) + MaxDelay
    BY BudgetGrows DEF TransportInv, TransportTypeOK
  <2>6. OnSchedule(c)'
    BY <2>2, <2>4, <2>5, PolicyTypes
       DEF TransportInv, Sound, OnSchedule, Budget
  <2>7. EndsRightly(c)'
    BY <2>4 DEF TransportInv, Sound, EndsRightly
  <2>8. QED
    BY <1>2, <2>1, <2>3, <2>6, <2>7, OneCallerMoves
       DEF Sound, Sleep, TransportInv, TransportTypeOK
<1>3. QED
  BY <1>1, <1>2

LEMMA ResendSound ==
  ASSUME TransportInv, NEW c \in Callers, Resend(c)
  PROVE  TransportInv'
<1>1. attempt[c] \in Nat /\ attempt[c] + 1 \in Nat /\ attempt[c] < MaxRetries
  BY PolicyTypes DEF TransportInv, TransportTypeOK, Sound, OnSchedule, Resend
<1>2. TransportTypeOK'
  BY <1>1, PolicyTypes DEF TransportInv, TransportTypeOK, Resend
<1>3. /\ stage'[c] = "sending" /\ attempt'[c] = attempt[c] + 1
      /\ timer'[c] = Timeout /\ timer[c] = 0 /\ stage[c] = "sleeping"
      /\ asked'[c] = asked[c] /\ spent'[c] = spent[c] /\ got'[c] = got[c]
      /\ retried'[c] = None
  BY DEF TransportInv, TransportTypeOK, Resend
<1>4. /\ spent[c] \in Nat /\ asked[c] \in Nat
      /\ Budget(attempt[c] + 1, attempt[c] + 1) \in Nat
      /\ Budget(attempt[c] + 1 + 1, attempt[c] + 1)
           = Budget(attempt[c] + 1, attempt[c] + 1) + Timeout
  BY <1>1, BudgetGrows DEF TransportInv, TransportTypeOK
<1>5. OnSchedule(c)'
  BY <1>3, <1>4, PolicyTypes DEF TransportInv, Sound, OnSchedule, Budget
<1>6. EndsRightly(c)'
  BY <1>3 DEF TransportInv, Sound, EndsRightly
<1>7. QED
  BY <1>2, <1>5, <1>6, OneCallerMoves
     DEF Sound, Resend, TransportInv, TransportTypeOK

LEMMA FailSound ==
  ASSUME TransportInv, NEW c \in Callers, NEW retriable \in BOOLEAN,
         Fail(c, retriable)
  PROVE  TransportInv'
<1> DEFINE cause == IF retriable THEN Broken ELSE Rejected
<1>1. CASE retriable /\ attempt[c] < MaxRetries
  <2>1. attempt[c] \in Nat /\ None \in Nat \cup {None}
    BY PolicyTypes DEF TransportInv, TransportTypeOK
  <2>2. \A d \in Delays(attempt[c], None) : d \in Nat
    BY <2>1, DelayBounds
  <2>3. \A d \in Delays(attempt[c], None) : 0 <= d
    BY <2>2
  <2>4. Broken \in Causes /\ Broken \in Transient
    BY DEF Causes, Transient
  <2>5. stage[c] = "sending" /\ Sleep(c, Broken, None, 0)
    BY <1>1 DEF Fail
  <2>6. QED
    BY <1>1, <2>3, <2>4, <2>5, SleepSound
<1>2. CASE ~ (retriable /\ attempt[c] < MaxRetries)
  <2>1. attempt[c] \in 0 .. MaxRetries
    BY DEF TransportInv, TransportTypeOK
  <2>2. cause \in Transient => attempt[c] = MaxRetries
    BY <1>2, <2>1, PolicyTypes DEF Transient, Broken, Rejected
  <2>3. [class |-> "NetworkError", cause |-> cause] \in Ends
    BY DEF Ends, SDKErrors, Causes, Broken, Rejected
  <2>4. End(c, "NetworkError", cause)
    BY <1>2 DEF Fail
  <2> HIDE DEF cause
  <2>5. QED
    BY <2>2, <2>3, <2>4, EndSound
<1>3. QED
  BY <1>1, <1>2

\* What is asked is what is slept.
LEMMA AskedIsSlept ==
  ASSUME NEW a \in Nat, NEW status, NEW header \in Int \cup {None},
         NEW d \in Delays(a, IF status \in {429, 503}
                                THEN ParseRetryAfter(header) ELSE None)
  PROVE  Asks(status, header) \in Nat /\ Asks(status, header) <= d
<1>1. ParseRetryAfter(header) \in Nat \cup {None}
  BY DEF ParseRetryAfter, Larger
<1>2. CASE status \in {429, 503} /\ header # None /\ RespectRetryAfter
  <2>1. Larger(0, header) \in Nat /\ ParseRetryAfter(header) = Larger(0, header)
    BY <1>2 DEF Larger, ParseRetryAfter
  <2>2. Honoured(ParseRetryAfter(header))
    BY <1>2, <2>1, PolicyTypes DEF Honoured
  <2>3. d = Smaller(MaxDelay, Larger(0, header))
    BY <1>1, <1>2, <2>1, <2>2, DelayBounds
  <2>4. QED
    BY <1>2, <2>1, <2>3, PolicyTypes DEF Asks, Smaller
<1>3. CASE ~ (status \in {429, 503} /\ header # None /\ RespectRetryAfter)
  <2>1. Asks(status, header) = 0
    BY <1>3 DEF Asks
  <2>2. d \in Nat
    BY <1>1, DelayBounds
  <2>3. QED
    BY <2>1, <2>2
<1>4. QED
  BY <1>2, <1>3

LEMMA RespondSound ==
  ASSUME TransportInv, NEW c \in Callers, NEW status \in 200 .. 599,
         NEW body, NEW header \in Int \cup {None},
         Respond(c, status, body, header)
  PROVE  TransportInv'
<1> DEFINE wait == IF status \in {429, 503} THEN ParseRetryAfter(header)
                                             ELSE None
<1>1. attempt[c] \in 0 .. MaxRetries /\ stage[c] = "sending"
  BY DEF TransportInv, TransportTypeOK, Respond
<1>2. wait \in Nat \cup {None}
  BY DEF ParseRetryAfter, Larger
<1>3. CASE status \in RetryOnStatus /\ attempt[c] < MaxRetries
  <2>1. Sleep(c, status, wait, Asks(status, header))
    BY <1>3 DEF Respond
  <2>a. attempt[c] \in Nat
    BY <1>1, PolicyTypes
  <2>2. \A d \in Delays(attempt[c], wait) : Asks(status, header) <= d
    BY <2>a, AskedIsSlept
  <2>3. Asks(status, header) \in Nat
    BY PolicyTypes DEF Asks, Smaller, Larger
  <2>4. status \in Causes /\ status \in Transient
    BY <1>3 DEF Causes, Transient
  <2> HIDE DEF wait
  <2>5. QED
    BY <1>1, <1>2, <1>3, <2>1, <2>2, <2>3, <2>4, SleepSound
<1>4. CASE ~ (status \in RetryOnStatus /\ attempt[c] < MaxRetries)
  <2>1. End(c, ProcessResponse(status, body), status)
    BY <1>4 DEF Respond
  <2>2. status \in Transient => attempt[c] = MaxRetries
    BY <1>1, <1>4, PolicyTypes DEF Transient, Broken
  <2>3. [class |-> ProcessResponse(status, body), cause |-> status] \in Ends
    BY ResponsesEnd
  <2>4. QED
    BY <2>1, <2>2, <2>3, EndSound
<1>5. QED
  BY <1>3, <1>4

LEMMA AbortSound ==
  ASSUME TransportInv, NEW c \in Callers, Abort(c)
  PROVE  TransportInv'
<1>1. [class |-> "CancelledError", cause |-> Rejected] \in Ends
  BY DEF Ends, Causes, Rejected
<1>2. Rejected \notin Transient
  BY PolicyTypes DEF Transient, Rejected, Broken
<1>3. QED
  BY <1>1, <1>2, EndSound DEF Abort

LEMMA UnchangedSound ==
  ASSUME TransportInv, UNCHANGED transportVars
  PROVE  TransportInv'
BY DEF TransportInv, TransportTypeOK, Sound, OnSchedule, EndsRightly, Budget,
   transportVars

LEMMA InvKeepsPromises ==
  ASSUME TransportInv
  PROVE  Promises
<1>1. TransientOnlyAtLast
  BY DEF TransportInv, Sound, EndsRightly, Transient, TransientOnlyAtLast
<1>2. WaitsAsAsked
  BY DEF TransportInv, Sound, OnSchedule, WaitsAsAsked
<1>3. ASSUME NEW c \in Callers
      PROVE  spent[c] <= Budget(MaxRetries + 1, MaxRetries)
  <2>1. /\ attempt[c] \in 0 .. MaxRetries /\ spent[c] \in Nat
        /\ timer[c] \in Nat
        /\ stage[c] \in {"idle", "sending", "sleeping"}
    BY <1>3 DEF TransportInv, TransportTypeOK
  <2> attempt[c] \in Nat /\ attempt[c] + 1 \in Nat
    BY <2>1, PolicyTypes
  <2>2. OnSchedule(c)
    BY <1>3 DEF TransportInv, Sound
  <2>a. MaxRetries \in Nat /\ MaxRetries + 1 \in Nat
    BY PolicyTypes
  <2>3. Budget(MaxRetries + 1, MaxRetries) \in Nat
    BY <2>a, BudgetGrows
  <2>4. CASE stage[c] = "idle"
    BY <2>2, <2>3, <2>4 DEF OnSchedule
  <2>5. CASE stage[c] = "sending"
    <3>1. Budget(attempt[c] + 1, attempt[c])
            <= Budget(MaxRetries + 1, MaxRetries)
      BY <2>1, PolicyTypes, BudgetIsMonotone
    <3>2. Budget(attempt[c] + 1, attempt[c]) \in Nat
      BY <2>1, PolicyTypes, BudgetGrows
    <3>3. QED
      BY <2>1, <2>2, <2>3, <2>5, <3>1, <3>2 DEF OnSchedule
  <2>6. CASE stage[c] = "sleeping"
    <3>1. Budget(attempt[c] + 1, attempt[c] + 1)
            <= Budget(MaxRetries + 1, MaxRetries)
      BY <2>1, <2>2, <2>6, PolicyTypes, BudgetIsMonotone DEF OnSchedule
    <3>2. Budget(attempt[c] + 1, attempt[c] + 1) \in Nat
      BY <2>1, PolicyTypes, BudgetGrows
    <3>3. QED
      BY <2>1, <2>2, <2>3, <2>6, <3>1, <3>2 DEF OnSchedule
  <2>7. QED
    BY <2>1, <2>4, <2>5, <2>6
<1>4. TimeIsBounded
  BY <1>3 DEF TimeIsBounded, Budget
<1>5. OnlyTransientIsRepeated
  BY DEF TransportInv, Sound, EndsRightly, Transient, OnlyTransientIsRepeated
<1>6. QED
  BY <1>1, <1>2, <1>4, <1>5 DEF Promises
=============================================================================
