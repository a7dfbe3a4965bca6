-------------------------- MODULE SingleflightRuns --------------------------
(***************************************************************************)
(* The gate of Singleflight with its runs numbered: the outcome of a run   *)
(* of fn is the run's number, so that what a caller returns with tells     *)
(* which run it was given.                                                 *)
(***************************************************************************)
EXTENDS Singleflight, Naturals

CONSTANT MaxRuns  \* bound: runs of fn

ASSUME OutcomesAreRuns == MaxRuns \in Nat /\ Outcomes = 1 .. MaxRuns

VARIABLES runs,     \* fn was started this many times
          run,      \* the run each leader leads
          result,   \* what each thread's latest call returned with
          retired,  \* the newest run of a key whose leader has returned
          since     \* retired[key] when the thread's call began

\* What the callers see: a thread takes part in the run it leads, or in that
\* of the leader it waits for, and then in the one it took the outcome of.
Promise == INSTANCE Coalescing WITH
  Callers <- Threads, asked <- key,
  running <- {run[t] : t \in {s \in Threads : stage[s] = "leading"}},
  open <- [k \in Keys |-> IF k \in DOMAIN inflight
                           THEN run[inflight[k].leader] ELSE 0],
  member <- [t \in Threads |->
    CASE stage[t] = "out" -> 0
      [] stage[t] \in {"leading", "published"} -> run[t]
      [] stage[t] = "waiting" -> run[inflight[key[t]].leader]
      [] stage[t] = "released" -> got[t]]

vars == <<gateVars, runs, run, result, retired, since>>

Init ==
  /\ GateInit
  /\ runs = 0
  /\ run = [t \in Threads |-> 0]
  /\ result = [t \in Threads |-> 0]
  /\ retired = [k \in Keys |-> 0]
  /\ since = [t \in Threads |-> 0]

Enters(t, k) ==
  /\ since' = [since EXCEPT ![t] = retired[k]]
  /\ result' = [result EXCEPT ![t] = 0]
  /\ UNCHANGED retired

Starts(t, k) ==
  /\ runs < MaxRuns
  /\ Lead(t, k)
  /\ Enters(t, k)
  /\ runs' = runs + 1
  /\ run' = [run EXCEPT ![t] = runs']

Joins(t, k) ==
  /\ Follow(t, k)
  /\ Enters(t, k)
  /\ UNCHANGED <<runs, run>>

Ends(t) ==
  /\ Publish(t, run[t])
  /\ UNCHANGED <<runs, run, result, retired, since>>

LeaderReturns(t) ==
  /\ Pop(t)
  /\ result' = [result EXCEPT ![t] = got[t]]
  /\ retired' = [retired EXCEPT ![key[t]] = run[t]]
  /\ run' = [run EXCEPT ![t] = 0]
  /\ UNCHANGED <<runs, since>>

FollowerReturns(t) ==
  /\ Leave(t)
  /\ result' = [result EXCEPT ![t] = got[t]]
  /\ UNCHANGED <<runs, run, retired, since>>

Step(t) == Ends(t) \/ LeaderReturns(t) \/ FollowerReturns(t)

AllDone ==
  /\ runs = MaxRuns
  /\ \A t \in Threads : stage[t] = "out"
  /\ UNCHANGED vars

Next ==
  \/ \E t \in Threads :
       \/ \E k \in Keys : Starts(t, k) \/ Joins(t, k)
       \/ Step(t)
  \/ AllDone

Spec == Init /\ [][Next]_vars

\* fn ends: its attempts are bounded and each has a timeout.
FairSpec == Spec /\ \A t \in Threads : WF_vars(Step(t))

-----------------------------------------------------------------------------
\* A call that begins after a run's leader has returned does not get that
\* run's outcome, though a call that begins between the leader's event.set
\* and its pop (_singleflight.py:64-66) does.
FreshAfterLeader ==
  \A t \in Threads : result[t] # 0 => result[t] > since[t]

\* Two runs of fn for one key never overlap, and whoever waits has a run
\* whose leader is still to set the event: event.wait() has no timeout.
RunsDoNotOverlap ==
  \A t \in Threads :
    /\ stage[t] = "leading" => \A s \in Threads \ {t} :
         stage[s] \in {"leading", "published"} => key[s] # key[t]
    /\ stage[t] = "waiting" => \E s \in Threads :
         stage[s] = "leading" /\ key[s] = key[t]

\* Under every interleaving of registering, publishing, popping and waking,
\* a caller joins the one open run of its own key, or starts it, and returns
\* with that run's outcome and no other's.
KeepsPromise == Promise!Spec

\* Every caller returns.
EveryCallerReturns ==
  \A t \in Threads : stage[t] # "out" ~> stage[t] = "out"
=============================================================================
