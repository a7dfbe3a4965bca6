----------------------- MODULE AsyncSingleflightRuns -----------------------
(***************************************************************************)
(* The gate of AsyncSingleflight with its runs numbered: fn's outcome,     *)
(* value or exception alike, is the number of the run, so that what a      *)
(* caller ends with tells which run it was given.  Tasks are cancelled at  *)
(* any await.                                                              *)
(***************************************************************************)
EXTENDS AsyncSingleflight, FiniteSets

CONSTANTS
  Hanging,    \* the keys whose fn may never end
  MaxCalls,   \* bound: calls begun by all tasks together
  MaxCancels  \* bound: task.cancel() calls

ASSUME RunConstants ==
  /\ IsFiniteSet(Tasks)
  /\ Outcomes = 1 .. MaxCalls
  /\ MaxCalls \in Nat /\ MaxCancels \in Nat
  /\ Hanging \subseteq Keys
  /\ {Nobody, Pending, Cancelled, Invalid} \cap Nat = {}

VARIABLES
  runs, calls, cancels,  \* runs of fn, calls, cancellations so far
  run,      \* the run the task leads, 0 when it leads none
  asked,    \* the key of the task's latest call
  result,   \* what its latest call returned or raised
  retired,  \* history: the newest run of a key whose leader has left
  since,    \* history: retired[key] when the task's call began
  spoiled   \* history: the keys a call for which was cancelled

callVars == <<asked, since, calls>>
vars == <<gateVars, callVars, runs, cancels, run, result, retired, spoiled>>

TypeOK ==
  /\ GateTypeOK
  /\ runs \in Nat /\ calls \in Nat /\ cancels \in Nat
  /\ run \in [Tasks -> Nat]
  /\ asked \in [Tasks -> Keys \cup {Nobody}]
  /\ result \in [Tasks -> Outcomes \cup {Nobody, Cancelled, Invalid}]
  /\ retired \in [Keys -> Nat]
  /\ since \in [Tasks -> Nat]
  /\ spoiled \subseteq Keys

Init ==
  /\ GateInit
  /\ runs = 0 /\ calls = 0 /\ cancels = 0
  /\ run = [t \in Tasks |-> 0]
  /\ asked = [t \in Tasks |-> Nobody]
  /\ result = [t \in Tasks |-> Nobody]
  /\ retired = [k \in Keys |-> 0]
  /\ since = [t \in Tasks |-> 0]
  /\ spoiled = {}

-----------------------------------------------------------------------------
(* What goes with a step of the gate: the call goes on, starts a run, or   *)
(* ends with outcome o.                                                    *)

GoesOn(t) ==
  /\ result' = [result EXCEPT ![t] = Nobody]
  /\ UNCHANGED <<runs, run, retired>>

Starts(t) ==
  /\ runs' = runs + 1
  /\ run' = [run EXCEPT ![t] = runs + 1]
  /\ result' = [result EXCEPT ![t] = Nobody]
  /\ UNCHANGED retired

Ends(t, k, o) ==
  /\ result' = [result EXCEPT ![t] = o]
  /\ run' = [run EXCEPT ![t] = 0]
  /\ retired' = [retired EXCEPT ![k] = IF run[t] > @ THEN run[t] ELSE @]
  /\ UNCHANGED runs

\* With the lock in hand: lead, follow, or take the finished call's outcome.
Section(t, k) ==
  \/ Lead(t, k) /\ Starts(t)
  \/ Follow(t, k) /\ GoesOn(t)
  \/ TakeDone(t, k) /\ Ends(t, k, fut[k])

Call(t, k) ==
  /\ stage[t] = "out"
  /\ calls < MaxCalls
  /\ calls' = calls + 1
  /\ asked' = [asked EXCEPT ![t] = k]
  /\ since' = [since EXCEPT ![t] = retired[k]]
  /\ \/ Section(t, k)
     \/ Wait(t, k) /\ GoesOn(t)
  /\ UNCHANGED <<cancels, spoiled>>

Enter(t) ==
  /\ stage[t] = "entering"
  /\ Section(t, key[t])
  /\ UNCHANGED <<callVars, cancels, spoiled>>

\* A follower or a leader gets what it waited for.
Finishes(t) ==
  /\ Resume(t) \/ Pop(t)
  /\ Ends(t, key[t], fut[key[t]])
  /\ UNCHANGED <<callVars, cancels, spoiled>>

\* fn ends with o.
Complete(t, o) ==
  \/ CompletePoisoned(t) /\ Ends(t, key[t], Invalid)
  \/ CompleteAndPop(t) /\ Ends(t, key[t], o)
  \/ CompleteAndWait(t, o) /\ GoesOn(t)

FnEnds(t) ==
  /\ Complete(t, run[t])
  /\ UNCHANGED <<callVars, cancels, spoiled>>

\* task.cancel()
Cancel(t) ==
  /\ cancels < MaxCancels
  /\ cancels' = cancels + 1
  /\ spoiled' = spoiled \cup {key[t]}
  /\ \/ CancelAcquire(t) /\ Ends(t, key[t], Cancelled)
     \/ CancelFuture(t) /\ GoesOn(t)
     \/ CancelFollower(t) /\ Ends(t, key[t], Cancelled)
     \/ Complete(t, Cancelled)
  /\ UNCHANGED callVars

AllDone ==
  /\ calls = MaxCalls
  /\ \A t \in Tasks : stage[t] = "out"
  /\ UNCHANGED vars

Next ==
  \/ \E t \in Tasks :
       \/ \E k \in Keys : Call(t, k)
       \/ Enter(t) \/ Finishes(t) \/ FnEnds(t) \/ Cancel(t)
  \/ AllDone

Spec == Init /\ [][Next]_vars

-----------------------------------------------------------------------------
(* What the callers of one key see of the gate.                            *)

CallersOf(k) == {t \in Tasks : stage[t] # "out" /\ key[t] = k}
LeadersOf(k) == {t \in CallersOf(k) : stage[t] \in {"running", "popping"}}
RunningOf(k) == {run[t] : t \in {s \in CallersOf(k) : stage[s] = "running"}}
OpenRun(k) == IF k \in DOMAIN fut THEN run[CHOOSE t \in LeadersOf(k) : TRUE]
                                  ELSE 0

AskedOf(t, k) == IF t \in CallersOf(k) THEN k ELSE Nobody
RunOf(t, k) ==
  CASE t \in LeadersOf(k) -> run[t]
    [] t \in CallersOf(k) /\ stage[t] = "awaiting" -> OpenRun(k)
    [] OTHER -> 0
ResultOf(t, k) ==
  IF asked[t] = k /\ result[t] \in Outcomes THEN result[t] ELSE 0

PromiseOf(k) == INSTANCE Coalescing WITH
  Callers <- Tasks, Keys <- {k},
  running <- RunningOf(k),
  open <- [x \in {k} |-> OpenRun(x)],
  asked <- [t \in Tasks |-> AskedOf(t, k)],
  member <- [t \in Tasks |-> RunOf(t, k)],
  result <- [t \in Tasks |-> ResultOf(t, k)]

-----------------------------------------------------------------------------
\* The loop resumes every task that can go on; fn ends unless it may hang.
FairSpec ==
  /\ Spec
  /\ \A t \in Tasks :
       /\ WF_vars(Enter(t)) /\ WF_vars(Finishes(t))
       /\ WF_vars(key[t] \notin Hanging /\ FnEnds(t))

-----------------------------------------------------------------------------
\* A call that begins after a run's leader has left does not get that run's
\* outcome (tests/test_singleflight.py:86: "After the first call returns, a
\* fresh call must trigger a new run").
FreshAfterReturn ==
  \A t \in Tasks : result[t] \in Nat => result[t] > since[t]

\* It holds for every key none of whose calls was cancelled, whatever was
\* cancelled under other keys while it shared their lock.
StaleOnlyIfCancelled ==
  \A t \in Tasks :
    result[t] \in Nat /\ asked[t] \notin spoiled => result[t] > since[t]

\* So does this: a call ends in fn's value or exception, and in neither
\* CancelledError nor InvalidStateError.
CancellationStaysWithItsKey ==
  \A t \in Tasks :
    stage[t] = "out" /\ asked[t] \notin spoiled \cup {Nobody} =>
      result[t] \in Outcomes

\* And this: whatever a step does, whoever calls with such a key joins the one
\* open run of it, or starts it, and returns with that run's outcome.
KeepsPromise ==
  /\ \A k \in Keys : PromiseOf(k)!Init
  /\ [][\A k \in Keys \ spoiled' :
          PromiseOf(k)!Next \/ UNCHANGED PromiseOf(k)!promiseVars]_vars

\* README.md:99: "Every error raised by the SDK derives from
\* graphann.errors.GraphANNError": no caller sees asyncio's InvalidStateError.
NoInvalidStateError == \A t \in Tasks : result[t] # Invalid

\* Every call returns.
EveryCallReturns == \A t \in Tasks : stage[t] # "out" ~> stage[t] = "out"

\* tests/test_singleflight.py:119, "distinct_keys_run_independently": a call
\* returns though the fn of another key hangs.
DistinctKeysIndependent ==
  \A t \in Tasks :
    stage[t] # "out" /\ key[t] \notin Hanging ~> stage[t] = "out"
=============================================================================
