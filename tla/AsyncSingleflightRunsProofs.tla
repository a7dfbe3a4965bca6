--------------------- MODULE AsyncSingleflightRunsProofs ---------------------
(***************************************************************************)
(* Proofs about AsyncSingleflightRuns, for any tasks, keys, numbers of     *)
(* calls and cancellations, and whichever fn never end.                    *)
(***************************************************************************)
EXTENDS AsyncSingleflightRuns, AsyncSingleflightProofs, FiniteSetTheorems

-----------------------------------------------------------------------------
(* Runs, and what the futures hold of them.                                *)

Entering == {t \in Tasks : stage[t] = "entering"}

\* Every run is led by a call of its own, begun before.
RunsCounted ==
  /\ runs \in Nat /\ calls \in Nat /\ calls <= MaxCalls
  /\ runs + Cardinality(Entering) <= calls

\* A leader's run is newer than those whose leaders have left, and the
\* others have none.
RunInv ==
  /\ \A k \in Keys : retired[k] <= runs
  /\ \A t \in Tasks : Leads(t) =>
       run[t] \in 1 .. runs /\ run[t] > retired[key[t]]
  /\ \A t \in Tasks : ~ Leads(t) => run[t] = 0

\* A future that no cancellation has touched is still its leader's.
FutureOfRun ==
  \A k \in DOMAIN fut \ spoiled :
    \E t \in Tasks : Leads(t) /\ key[t] = k /\ fut[k] \in {Pending, run[t]}

\* Where a call stands with its key, and how it may end.
CallInv ==
  \A t \in Tasks :
    /\ stage[t] # "out" => asked[t] = key[t]
    /\ asked[t] \in Keys => since[t] <= retired[asked[t]]
    /\ stage[t] = "out" /\ asked[t] \in Keys \ spoiled =>
         result[t] \in 1 .. runs /\ result[t] > since[t]
    /\ stage[t] # "out" \/ asked[t] = Nobody => result[t] = Nobody

Types ==
  /\ cancels \in Nat
  /\ run \in [Tasks -> Nat]
  /\ asked \in [Tasks -> Keys \cup {Nobody}]
  /\ result \in [Tasks -> Outcomes \cup {Nobody, Cancelled, Invalid}]
  /\ retired \in [Keys -> Nat]
  /\ since \in [Tasks -> Nat]
  /\ spoiled \subseteq Keys

DataInv == Types /\ RunInv /\ FutureOfRun /\ CallInv

RunsInv == GateInv /\ RunsCounted /\ DataInv

LEMMA RunsInit == Init => RunsInv
<1> SUFFICES ASSUME Init
             PROVE  RunsInv
  OBVIOUS
<1>1. GateInv
  BY GateInitSound DEF Init
<1>2. RunsCounted
  <2>1. Entering = {}
    BY DEF Init, GateInit, Entering
  <2>2. QED
    BY <2>1, FS_EmptySet, RunConstants DEF Init, RunsCounted
<1>3. DataInv
  BY GateConstants DEF Init, GateInit, DataInv, Types, RunInv, FutureOfRun,
     CallInv, Leads
<1>4. QED
  BY <1>1, <1>2, <1>3 DEF RunsInv

-----------------------------------------------------------------------------
(* What a call of the task of key k brings with it.                        *)

\* The call asks for k, as before or from now on, with no run retired since.
Asks(t, k) ==
  /\ k \in Keys
  /\ stage[t] # "out" => key[t] = k
  /\ asked' \in [Tasks -> Keys \cup {Nobody}] /\ since' \in [Tasks -> Nat]
  /\ asked'[t] = k /\ since'[t] <= retired[k]
  /\ \A s \in Tasks \ {t} : asked'[s] = asked[s] /\ since'[s] = since[s]
  /\ cancels' \in Nat
  /\ spoiled \subseteq spoiled' /\ spoiled' \subseteq Keys

\* The call ends: its outcome is of a run newer than it asks for, unless the
\* key is spoiled; a leader's key is gone or spoiled.
LEMMA EndKeeps ==
  ASSUME RunsInv, NEW t \in Tasks, NEW k, NEW o,
         Asks(t, k), OnlyMoves(t), stage'[t] = "out", Ends(t, k, o),
         o \in Outcomes \cup {Cancelled, Invalid},
         k \notin spoiled' => o \in 1 .. runs /\ o > retired[k],
         \A x \in DOMAIN fut' \ spoiled' :
           x \in DOMAIN fut /\ fut'[x] = fut[x] /\ (Leads(t) => x # k)
  PROVE  DataInv'
<1>1. /\ runs' = runs /\ result' = [result EXCEPT ![t] = o]
      /\ run' = [run EXCEPT ![t] = 0] /\ runs \in Nat
      /\ retired' = [retired EXCEPT ![k] = IF run[t] > retired[k] THEN run[t]
                                                                ELSE retired[k]]
  BY DEF Ends, RunsInv, RunsCounted
<1>2. /\ run[t] \in Nat /\ run[t] <= runs /\ retired[k] \in Nat /\ k \in Keys
      /\ Leads(t) => key[t] = k
  <2>1. Leads(t) => stage[t] # "out"
    BY DEF Leads
  <2>2. QED
    BY <1>1, <2>1 DEF RunsInv, DataInv, Types, RunInv, Asks
<1>3. Types'
  BY <1>1, <1>2 DEF RunsInv, DataInv, Types, Asks
<1>4. /\ retired'[k] >= retired[k] /\ retired'[k] <= runs
      /\ ~ Leads(t) => retired'[k] = retired[k]
      /\ \A x \in Keys \ {k} : retired'[x] = retired[x]
  BY <1>1, <1>2 DEF RunsInv, DataInv, Types, RunInv
<1>5. RunInv'
  <2>1. \A x \in Keys : retired'[x] <= runs'
    BY <1>1, <1>4 DEF RunsInv, DataInv, RunInv
  <2>2. ASSUME NEW s \in Tasks, Leads(s)'
        PROVE  run'[s] \in 1 .. runs' /\ run'[s] > retired'[key'[s]]
    <3>1. s # t /\ Leads(s) /\ key'[s] = key[s] /\ run'[s] = run[s]
      BY <1>1, <2>2 DEF Leads, OnlyMoves, RunsInv, DataInv, Types
    <3>2. key[s] \in Keys
      BY <3>1 DEF RunsInv, GateInv, FutInv, Leads
    <3>3. retired'[key[s]] = retired[key[s]]
      BY <1>2, <1>4, <3>1, <3>2 DEF RunsInv, GateInv, FutInv
    <3>4. QED
      BY <1>1, <3>1, <3>3 DEF RunsInv, DataInv, RunInv
  <2>3. \A s \in Tasks : ~ Leads(s)' => run'[s] = 0
    BY <1>1 DEF Leads, OnlyMoves, RunsInv, DataInv, Types, RunInv
  <2>4. QED
    BY <2>1, <2>2, <2>3 DEF RunInv
<1>6. FutureOfRun'
  <2>1. ASSUME NEW x \in DOMAIN fut' \ spoiled'
        PROVE  \E s \in Tasks :
                 Leads(s)' /\ key'[s] = x /\ fut'[x] \in {Pending, run'[s]}
    <3>1. x \in DOMAIN fut \ spoiled /\ fut'[x] = fut[x]
      BY <2>1 DEF Asks
    <3>2. PICK s \in Tasks :
            Leads(s) /\ key[s] = x /\ fut[x] \in {Pending, run[s]}
      BY <3>1 DEF RunsInv, DataInv, FutureOfRun
    <3>3. s # t
      BY <1>2, <2>1, <3>2
    <3>4. QED
      BY <1>1, <3>1, <3>2, <3>3
         DEF OnlyMoves, Leads, RunsInv, DataInv, Types
  <2>2. QED
    BY <2>1 DEF FutureOfRun
<1>7. CallInv'
  <2>1. ASSUME NEW s \in Tasks
        PROVE  /\ stage'[s] # "out" => asked'[s] = key'[s]
               /\ asked'[s] \in Keys => since'[s] <= retired'[asked'[s]]
               /\ stage'[s] = "out" /\ asked'[s] \in Keys \ spoiled' =>
                    result'[s] \in 1 .. runs' /\ result'[s] > since'[s]
               /\ stage'[s] # "out" \/ asked'[s] = Nobody =>
                    result'[s] = Nobody
    <3>1. CASE s = t
      <4>1. since'[t] \in Nat /\ result'[t] = o
        BY <1>1 DEF Asks, RunsInv, DataInv, Types
      <4>2. QED
        BY <1>1, <1>2, <1>4, <3>1, <4>1, GateConstants DEF Asks
    <3>2. CASE s # t
      <4>1. /\ stage'[s] = stage[s] /\ key'[s] = key[s]
            /\ asked'[s] = asked[s] /\ since'[s] = since[s]
            /\ result'[s] = result[s]
        BY <1>1, <3>2 DEF OnlyMoves, Asks, RunsInv, DataInv, Types
      <4>2. asked[s] \in Keys =>
              /\ retired[asked[s]] \in Nat /\ retired'[asked[s]] \in Nat
              /\ retired[asked[s]] <= retired'[asked[s]]
        BY <1>3, <1>4 DEF RunsInv, DataInv, Types
      <4>3. since[s] \in Nat
        BY DEF RunsInv, DataInv, Types
      <4>4. QED
        BY <1>1, <4>1, <4>2, <4>3 DEF Asks, RunsInv, DataInv, CallInv
    <3>3. QED
      BY <3>1, <3>2
  <2>2. QED
    BY <2>1 DEF CallInv
<1>8. QED
  BY <1>3, <1>5, <1>6, <1>7 DEF DataInv

\* The call goes on; the only future that may have changed unspoiled is one
\* that its leader has completed with its run.
LEMMA GoOnKeeps ==
  ASSUME RunsInv, NEW t \in Tasks, NEW k,
         Asks(t, k), OnlyMoves(t), stage'[t] # "out", key'[t] = k, GoesOn(t),
         Leads(t)' <=> Leads(t),
         \A x \in DOMAIN fut' \ spoiled' :
           /\ x \in DOMAIN fut
           /\ fut'[x] = fut[x] \/ (Leads(t) /\ x = k /\ fut'[x] = run[t])
  PROVE  DataInv'
<1>1. /\ runs' = runs /\ result' = [result EXCEPT ![t] = Nobody]
      /\ run' = run /\ retired' = retired
  BY DEF GoesOn
<1>2. Types'
  BY <1>1 DEF RunsInv, DataInv, Types, Asks
<1>3. \A s \in Tasks : Leads(s)' => Leads(s) /\ key'[s] = key[s]
  BY DEF Asks, OnlyMoves, Leads
<1>4. RunInv'
  BY <1>1, <1>3 DEF RunsInv, DataInv, RunInv, OnlyMoves, Leads
<1>5. FutureOfRun'
  <2>1. ASSUME NEW x \in DOMAIN fut' \ spoiled'
        PROVE  \E s \in Tasks :
                 Leads(s)' /\ key'[s] = x /\ fut'[x] \in {Pending, run'[s]}
    <3>1. x \in DOMAIN fut \ spoiled
      BY <2>1 DEF Asks
    <3>2. PICK s \in Tasks :
            Leads(s) /\ key[s] = x /\ fut[x] \in {Pending, run[s]}
      BY <3>1 DEF RunsInv, DataInv, FutureOfRun
    <3>3. Leads(s)' /\ key'[s] = key[s]
      BY <3>2 DEF OnlyMoves, Leads, Asks
    <3>4. CASE fut'[x] = fut[x]
      BY <1>1, <3>2, <3>3, <3>4
    <3>5. CASE Leads(t) /\ x = k /\ fut'[x] = run[t]
      BY <1>1, <3>5 DEF Leads
    <3>6. QED
      BY <2>1, <3>4, <3>5
  <2>2. QED
    BY <2>1 DEF FutureOfRun
<1>6. CallInv'
  <2>1. \A s \in Tasks : result'[s] = IF s = t THEN Nobody ELSE result[s]
    BY <1>1 DEF RunsInv, DataInv, Types
  <2>2. QED
    BY <1>1, <2>1 DEF RunsInv, DataInv, CallInv, OnlyMoves, Asks
<1>7. QED
  BY <1>2, <1>4, <1>5, <1>6 DEF DataInv

\* A new run starts for a key that was not registered.
LEMMA StartKeeps ==
  ASSUME RunsInv, NEW t \in Tasks, NEW k,
         Asks(t, k), ~ Leads(t), OnlyMoves(t), Starts(t),
         stage'[t] = "running", key'[t] = k, k \notin DOMAIN fut,
         DOMAIN fut' = DOMAIN fut \cup {k}, fut'[k] = Pending,
         \A x \in DOMAIN fut : fut'[x] = fut[x],
         spoiled' = spoiled
  PROVE  DataInv'
<1>1. /\ runs' = runs + 1 /\ result' = [result EXCEPT ![t] = Nobody]
      /\ run' = [run EXCEPT ![t] = runs + 1] /\ retired' = retired
      /\ runs \in Nat
  BY DEF Starts, RunsInv, RunsCounted
<1>2. Types'
  BY <1>1 DEF RunsInv, DataInv, Types, Asks
<1>3. \A s \in Tasks \ {t} :
        /\ Leads(s)' <=> Leads(s)
        /\ key'[s] = key[s] /\ run'[s] = run[s] /\ result'[s] = result[s]
        /\ stage'[s] = stage[s]
        /\ asked'[s] = asked[s] /\ since'[s] = since[s]
  BY <1>1 DEF OnlyMoves, Leads, RunsInv, DataInv, Types, Asks
<1>4. /\ run'[t] = runs + 1 /\ result'[t] = Nobody /\ Leads(t)'
      /\ retired[k] <= runs /\ k \in Keys /\ retired[k] \in Nat
  BY <1>1 DEF Leads, RunsInv, DataInv, Types, RunInv, Asks
<1>5. RunInv'
  <2>1. \A x \in Keys : retired'[x] <= runs'
    BY <1>1 DEF RunsInv, DataInv, Types, RunInv
  <2>2. \A s \in Tasks \ {t} :
          /\ Leads(s)' => run'[s] \in 1 .. runs' /\ run'[s] > retired'[key'[s]]
          /\ ~ Leads(s)' => run'[s] = 0
    BY <1>1, <1>3 DEF RunsInv, DataInv, Types, RunInv
  <2>3. Leads(t)' => run'[t] \in 1 .. runs' /\ run'[t] > retired'[key'[t]]
    BY <1>1, <1>4
  <2>4. QED
    BY <1>4, <2>1, <2>2, <2>3 DEF RunInv
<1>6. FutureOfRun'
  <2>1. ASSUME NEW x \in DOMAIN fut' \ spoiled'
        PROVE  \E s \in Tasks :
                 Leads(s)' /\ key'[s] = x /\ fut'[x] \in {Pending, run'[s]}
    <3>1. CASE x = k
      BY <1>4, <3>1
    <3>2. CASE x # k
      <4>1. x \in DOMAIN fut \ spoiled /\ fut'[x] = fut[x]
        BY <2>1, <3>2
      <4>2. PICK s \in Tasks :
              Leads(s) /\ key[s] = x /\ fut[x] \in {Pending, run[s]}
        BY <4>1 DEF RunsInv, DataInv, FutureOfRun
      <4>3. QED
        BY <1>3, <4>1, <4>2
    <3>3. QED
      BY <3>1, <3>2
  <2>2. QED
    BY <2>1 DEF FutureOfRun
<1>7. CallInv'
  <2>1. ASSUME NEW s \in Tasks \ {t}
        PROVE  /\ stage'[s] # "out" => asked'[s] = key'[s]
               /\ asked'[s] \in Keys => since'[s] <= retired'[asked'[s]]
               /\ stage'[s] = "out" /\ asked'[s] \in Keys \ spoiled' =>
                    result'[s] \in 1 .. runs' /\ result'[s] > since'[s]
               /\ stage'[s] # "out" \/ asked'[s] = Nobody =>
                    result'[s] = Nobody
    BY <1>1, <1>3 DEF RunsInv, DataInv, CallInv
  <2>2. QED
    BY <1>1, <1>4, <2>1 DEF CallInv, Asks
<1>8. QED
  BY <1>2, <1>5, <1>6, <1>7 DEF DataInv

-----------------------------------------------------------------------------
(* Steps.                                                                  *)

LEMMA EnteringIsFinite ==
  IsFiniteSet(Entering) /\ Cardinality(Entering) \in Nat
<1>1. Entering \subseteq Tasks
  BY DEF Entering
<1>2. QED
  BY <1>1, RunConstants, FS_Subset, FS_CardinalityType

\* There are no more runs than outcomes.
LEMMA RunsAreOutcomes == RunsInv => 1 .. runs \subseteq Outcomes
BY EnteringIsFinite, RunConstants DEF RunsInv, RunsCounted

\* How many tasks wait to enter, after a step of t.
LEMMA EnteringMoves ==
  ASSUME NEW t \in Tasks, OnlyMoves(t)
  PROVE  /\ Cardinality(Entering) \in Nat
         /\ Cardinality(Entering)' =
              IF stage'[t] = "entering"
                THEN IF stage[t] = "entering" THEN Cardinality(Entering)
                                              ELSE Cardinality(Entering) + 1
                ELSE IF stage[t] = "entering" THEN Cardinality(Entering) - 1
                                              ELSE Cardinality(Entering)
<1>1. IsFiniteSet(Entering)
  BY EnteringIsFinite
<1>2. Cardinality(Entering) \in Nat
  BY EnteringIsFinite
<1>3. Entering' = IF stage'[t] = "entering" THEN Entering \cup {t}
                                            ELSE Entering \ {t}
  BY DEF Entering, OnlyMoves
<1>4. t \in Entering <=> stage[t] = "entering"
  BY DEF Entering
<1>5. CASE stage'[t] = "entering"
  BY <1>1, <1>2, <1>3, <1>4, <1>5, FS_AddElement
<1>6. CASE stage'[t] # "entering"
  BY <1>1, <1>2, <1>3, <1>4, <1>6, FS_RemoveElement
<1>7. QED
  BY <1>2, <1>5, <1>6

\* A leader's future, while its key is unspoiled, is pending or its run.
LEMMA LeaderFuture ==
  ASSUME RunsInv, NEW k \in DOMAIN fut \ spoiled
  PROVE  /\ fut[k] # Pending => fut[k] \in 1 .. runs /\ fut[k] > retired[k]
         /\ \A t \in Tasks : Leads(t) /\ key[t] = k => fut[k] \in {Pending, run[t]}
<1>1. PICK s \in Tasks : Leads(s) /\ key[s] = k /\ fut[k] \in {Pending, run[s]}
  BY DEF RunsInv, DataInv, FutureOfRun
<1>2. \A t \in Tasks : Leads(t) /\ key[t] = k => t = s
  BY <1>1 DEF RunsInv, GateInv, FutInv
<1>3. QED
  BY <1>1, <1>2 DEF RunsInv, DataInv, RunInv

\* Whatever a future that is done holds, a call may end with it.
LEMMA DoneIsOutcome ==
  ASSUME RunsInv, NEW k \in DOMAIN fut, fut[k] # Pending
  PROVE  fut[k] \in Outcomes \cup {Cancelled, Invalid}
BY DEF RunsInv, GateInv, GateTypeOK, FutureStates

\* With the lock in hand, the task leads, follows or takes what is there.
LEMMA SectionKeeps ==
  ASSUME RunsInv, NEW t \in Tasks, NEW k, Asks(t, k), Section(t, k),
         spoiled' = spoiled, calls' \in Nat, calls' <= MaxCalls,
         calls' = IF stage[t] = "out" THEN calls + 1 ELSE calls
  PROVE  RunsInv'
<1>1. k \in Keys /\ GateInv /\ GateTypeOK /\ runs \in Nat /\ calls \in Nat
  BY DEF RunsInv, GateInv, Asks, RunsCounted
<1>2. CASE Lead(t, k) /\ Starts(t)
  <2>1. OnlyMoves(t) /\ stage'[t] = "running" /\ key'[t] = k
    BY <1>1, <1>2, InsideMoves DEF Lead, Stages
  <2>2. stage[t] \in {"out", "entering"} /\ k \notin DOMAIN fut
    BY <1>1, <1>2, Enters DEF Lead
  <2>3. DOMAIN fut' = DOMAIN fut \cup {k} /\ fut'[k] = Pending
        /\ \A x \in DOMAIN fut : fut'[x] = fut[x]
    BY <1>2, <2>2 DEF Lead, Register
  <2>4. DataInv'
    BY <1>2, <2>1, <2>2, <2>3, StartKeeps DEF Leads
  <2>5. runs' = runs + 1
    BY <1>2 DEF Starts
  <2>6. RunsCounted'
    BY <1>1, <2>1, <2>2, <2>5, EnteringMoves DEF RunsInv, RunsCounted
  <2>7. QED
    BY <1>1, <1>2, <2>4, <2>6, LeadSound DEF RunsInv
<1>3. CASE Follow(t, k) /\ GoesOn(t)
  <2>1. OnlyMoves(t) /\ stage'[t] = "awaiting" /\ key'[t] = k
    BY <1>1, <1>3, InsideMoves DEF Follow, Stages
  <2>2. stage[t] \in {"out", "entering"} /\ fut' = fut
    BY <1>1, <1>3, Enters DEF Follow
  <2>3. DataInv'
    BY <1>3, <2>1, <2>2, GoOnKeeps DEF Leads
  <2>4. runs' = runs
    BY <1>3 DEF GoesOn
  <2>5. RunsCounted'
    BY <1>1, <2>1, <2>2, <2>4, EnteringMoves DEF RunsInv, RunsCounted
  <2>6. QED
    BY <1>1, <1>3, <2>3, <2>5, FollowSound DEF RunsInv
<1>4. CASE TakeDone(t, k) /\ Ends(t, k, fut[k])
  <2>1. OnlyMoves(t) /\ stage'[t] = "out"
    BY <1>1, <1>4, ReturnMoves DEF TakeDone
  <2>2. /\ stage[t] \in {"out", "entering"} /\ fut' = fut
        /\ k \in DOMAIN fut /\ fut[k] # Pending
    BY <1>1, <1>4, Enters DEF TakeDone
  <2>3. fut[k] \in Outcomes \cup {Cancelled, Invalid}
    BY <2>2, DoneIsOutcome
  <2>4. k \notin spoiled' => fut[k] \in 1 .. runs /\ fut[k] > retired[k]
    BY <2>2, LeaderFuture
  <2>5. DataInv'
    BY <1>4, <2>1, <2>2, <2>3, <2>4, EndKeeps DEF Leads
  <2>6. runs' = runs
    BY <1>4 DEF Ends
  <2>7. RunsCounted'
    BY <1>1, <2>1, <2>2, <2>6, EnteringMoves DEF RunsInv, RunsCounted
  <2>8. QED
    BY <1>1, <1>4, <2>5, <2>7, TakeDoneSound DEF RunsInv
<1>5. QED
  BY <1>2, <1>3, <1>4 DEF Section

LEMMA CallKeeps ==
  ASSUME RunsInv, NEW t \in Tasks, NEW k \in Keys, Call(t, k)
  PROVE  RunsInv'
<1>1. /\ calls \in Nat /\ calls' = calls + 1 /\ calls' <= MaxCalls
      /\ spoiled' = spoiled /\ stage[t] = "out" /\ runs \in Nat
  BY RunConstants DEF Call, RunsInv, RunsCounted
<1>2. Asks(t, k)
  BY <1>1 DEF Call, Asks, RunsInv, DataInv, Types
<1>3. CASE Section(t, k)
  BY <1>1, <1>2, <1>3, SectionKeeps
<1>4. CASE Wait(t, k) /\ GoesOn(t)
  <2>1. OnlyMoves(t) /\ stage'[t] = "entering" /\ key'[t] = k /\ fut' = fut
    BY <1>4, InsideMoves DEF Wait, RunsInv, GateInv, Stages
  <2>2. DataInv'
    BY <1>1, <1>2, <1>4, <2>1, GoOnKeeps DEF Leads
  <2>3. runs' = runs
    BY <1>4 DEF GoesOn
  <2>4. RunsCounted'
    BY <1>1, <2>1, <2>3, EnteringMoves DEF RunsInv, RunsCounted
  <2>5. QED
    BY <1>4, <2>2, <2>4, WaitSound DEF RunsInv
<1>5. QED
  BY <1>3, <1>4 DEF Call

\* A task in the gate asks for what it asked for.
LEMMA StillAsks ==
  ASSUME RunsInv, NEW t \in Tasks, stage[t] # "out", UNCHANGED callVars,
         cancels' \in Nat, spoiled \subseteq spoiled', spoiled' \subseteq Keys
  PROVE  Asks(t, key[t]) /\ key[t] \in Keys
BY DEF RunsInv, GateInv, FutInv, DataInv, Types, CallInv, Asks, callVars

LEMMA EnterKeeps ==
  ASSUME RunsInv, NEW t \in Tasks, Enter(t)
  PROVE  RunsInv'
<1>1. Asks(t, key[t])
  BY StillAsks DEF Enter, RunsInv, DataInv, Types
<1>2. calls' = calls /\ calls \in Nat /\ calls <= MaxCalls
  BY DEF Enter, callVars, RunsInv, RunsCounted
<1>3. QED
  BY <1>1, <1>2, SectionKeeps DEF Enter

\* A step that neither starts a run nor begins a call.
LEMMA CountKeeps ==
  ASSUME RunsInv, NEW t \in Tasks, OnlyMoves(t), stage'[t] # "entering",
         UNCHANGED callVars, runs' = runs
  PROVE  RunsCounted'
BY EnteringMoves DEF RunsInv, RunsCounted, callVars

\* What Unregister leaves.
LEMMA Unregistered ==
  ASSUME NEW k, Unregister(k)
  PROVE  \A x \in DOMAIN fut' : x \in DOMAIN fut /\ fut'[x] = fut[x] /\ x # k
BY DEF Unregister

LEMMA FinishesKeeps ==
  ASSUME RunsInv, NEW t \in Tasks, Finishes(t)
  PROVE  RunsInv'
<1> DEFINE k == key[t]
<1>1. stage[t] \in {"awaiting", "popping"} /\ stage[t] # "out"
  BY DEF Finishes, Resume, Pop
<1>2. Asks(t, k) /\ UNCHANGED callVars /\ spoiled' = spoiled
  BY <1>1, StillAsks DEF Finishes, RunsInv, DataInv, Types
<1>3. OnlyMoves(t) /\ stage'[t] = "out"
  BY ReturnMoves DEF Finishes, Resume, Pop, RunsInv, GateInv
<1>4. k \in DOMAIN fut /\ fut[k] # Pending
  BY DEF Finishes, Resume, Pop, RunsInv, GateInv, FutInv
<1>5. \A x \in DOMAIN fut' \ spoiled' :
        x \in DOMAIN fut /\ fut'[x] = fut[x] /\ (Leads(t) => x # k)
  BY Unregistered DEF Finishes, Resume, Pop, Leads
<1>6. fut[k] \in Outcomes \cup {Cancelled, Invalid}
  BY <1>4, DoneIsOutcome
<1>7. k \notin spoiled' => fut[k] \in 1 .. runs /\ fut[k] > retired[k]
  BY <1>2, <1>4, LeaderFuture
<1>8. Ends(t, k, fut[k])
  BY DEF Finishes
<1> HIDE DEF k
<1>9. DataInv'
  BY <1>2, <1>3, <1>5, <1>6, <1>7, <1>8, EndKeeps
<1>10. RunsCounted'
  BY <1>2, <1>3, <1>8, CountKeeps DEF Ends
<1>11. QED
  BY <1>9, <1>10, ResumeSound, PopSound DEF RunsInv, Finishes

\* fn ends with its run, or with a cancellation that spoils the key.
LEMMA CompleteKeeps ==
  ASSUME RunsInv, NEW t \in Tasks, NEW o, Complete(t, o),
         UNCHANGED callVars, cancels' \in Nat,
         spoiled \subseteq spoiled', spoiled' \subseteq Keys,
         \/ o = run[t]
         \/ o = Cancelled /\ key[t] \in spoiled'
  PROVE  RunsInv'
<1> DEFINE k == key[t]
<1>1. stage[t] = "running" /\ k \in DOMAIN fut /\ fut[k] \in {Pending, Cancelled}
  BY DEF Complete, CompletePoisoned, CompleteAndPop, CompleteAndWait, RunsInv,
     GateInv, FutInv
<1>2. Asks(t, k) /\ k \in Keys /\ Leads(t)
  BY <1>1, StillAsks DEF Leads
<1>3. /\ run[t] \in 1 .. runs /\ run[t] > retired[k]
      /\ run[t] \in Outcomes /\ runs \in Nat
  BY <1>2, RunsAreOutcomes DEF RunsInv, RunsCounted, DataInv, RunInv
<1>4. o \in Outcomes \cup {Cancelled, Invalid}
  BY <1>3
<1>5. k \notin spoiled' => o \in 1 .. runs /\ o > retired[k]
  BY <1>3
<1> HIDE DEF k
<1>6. CASE CompletePoisoned(t) /\ Ends(t, k, Invalid)
  <2>1. OnlyMoves(t) /\ stage'[t] = "out" /\ fut' = fut
    BY <1>6, ReturnMoves DEF CompletePoisoned, RunsInv, GateInv
  <2>2. k \in spoiled
    <3>1. fut[k] = Cancelled
      BY <1>6 DEF CompletePoisoned, k
    <3>2. Cancelled # Pending /\ Cancelled # run[t]
      BY <1>3, GateConstants, RunConstants
    <3>3. QED
      BY <1>1, <1>2, <3>1, <3>2, LeaderFuture DEF k
  <2>3. DataInv'
    BY <1>2, <1>6, <2>1, <2>2, EndKeeps
  <2>4. RunsCounted'
    BY <1>6, <2>1, CountKeeps DEF Ends
  <2>5. QED
    BY <1>6, <2>3, <2>4, CompletePoisonedSound DEF RunsInv
<1>7. CASE CompleteAndPop(t) /\ Ends(t, k, o)
  <2>1. OnlyMoves(t) /\ stage'[t] = "out"
    BY <1>7, ReturnMoves DEF CompleteAndPop, RunsInv, GateInv
  <2>2. \A x \in DOMAIN fut' : x \in DOMAIN fut /\ fut'[x] = fut[x] /\ x # k
    BY <1>7, Unregistered DEF CompleteAndPop, k
  <2>3. DataInv'
    BY <1>2, <1>4, <1>5, <1>7, <2>1, <2>2, EndKeeps
  <2>4. RunsCounted'
    BY <1>7, <2>1, CountKeeps DEF Ends
  <2>5. QED
    BY <1>7, <2>3, <2>4, CompleteAndPopSound DEF RunsInv
<1>8. CASE CompleteAndWait(t, o) /\ GoesOn(t)
  <2>1. OnlyMoves(t) /\ stage'[t] = "popping" /\ key'[t] = k
    BY <1>2, <1>8, InsideMoves DEF CompleteAndWait, RunsInv, GateInv, Stages, k
  <2>2. fut' = [fut EXCEPT ![k] = o]
    BY <1>8 DEF CompleteAndWait, k
  <2>3. \A x \in DOMAIN fut' \ spoiled' :
          /\ x \in DOMAIN fut
          /\ fut'[x] = fut[x] \/ (Leads(t) /\ x = k /\ fut'[x] = run[t])
    BY <1>1, <1>2, <2>2 DEF k
  <2>4. DataInv'
    BY <1>2, <1>8, <2>1, <2>3, GoOnKeeps DEF Leads
  <2>5. RunsCounted'
    BY <1>8, <2>1, CountKeeps DEF GoesOn
  <2>6. o \in Outcomes \cup {Cancelled}
    BY <1>3
  <2>7. QED
    BY <1>8, <2>4, <2>5, <2>6, CompleteAndWaitSound DEF RunsInv
<1>9. QED
  BY <1>6, <1>7, <1>8 DEF Complete, k

LEMMA FnEndsKeeps ==
  ASSUME RunsInv, NEW t \in Tasks, FnEnds(t)
  PROVE  RunsInv'
BY CompleteKeeps DEF FnEnds, RunsInv, DataInv, Types

LEMMA CancelKeeps ==
  ASSUME RunsInv, NEW t \in Tasks, Cancel(t)
  PROVE  RunsInv'
<1> DEFINE k == key[t]
<1>1. stage[t] # "out"
  BY DEF Cancel, CancelAcquire, CancelFuture, CancelFollower, Complete,
     CompletePoisoned, CompleteAndPop, CompleteAndWait
<1>2. k \in Keys
  BY <1>1 DEF RunsInv, GateInv, FutInv
<1>3. /\ UNCHANGED callVars /\ cancels' \in Nat /\ k \in spoiled'
      /\ spoiled \subseteq spoiled' /\ spoiled' \subseteq Keys
  BY <1>2 DEF Cancel, RunsInv, DataInv, Types
<1>4. Asks(t, k)
  BY <1>1, <1>3, StillAsks
<1>5. CASE (CancelAcquire(t) \/ CancelFollower(t)) /\ Ends(t, k, Cancelled)
  <2>1. OnlyMoves(t) /\ stage'[t] = "out" /\ fut' = fut
    BY <1>5, ReturnMoves DEF CancelAcquire, CancelFollower, RunsInv, GateInv
  <2> HIDE DEF k
  <2>2. DataInv'
    BY <1>3, <1>4, <1>5, <2>1, EndKeeps
  <2>3. RunsCounted'
    BY <1>3, <1>5, <2>1, CountKeeps DEF Ends
  <2>4. QED
    BY <1>5, <2>2, <2>3, CancelAcquireSound, CancelFollowerSound DEF RunsInv
<1>6. CASE CancelFuture(t) /\ GoesOn(t)
  <2>1. /\ stage[t] = "awaiting" /\ OnlyMoves(t)
        /\ stage'[t] = "awaiting" /\ key'[t] = k
    BY <1>6 DEF CancelFuture, OnlyMoves
  <2>2. fut' = [fut EXCEPT ![k] = Cancelled]
    BY <1>6 DEF CancelFuture
  <2> HIDE DEF k
  <2>3. \A x \in DOMAIN fut' \ spoiled' :
          x \in DOMAIN fut /\ fut'[x] = fut[x]
    BY <1>3, <2>2
  <2>4. DataInv'
    BY <1>4, <1>6, <2>1, <2>3, GoOnKeeps DEF Leads
  <2>5. RunsCounted'
    BY <1>3, <1>6, <2>1, CountKeeps DEF GoesOn
  <2>6. QED
    BY <1>6, <2>4, <2>5, CancelFutureSound DEF RunsInv
<1>7. CASE Complete(t, Cancelled)
  BY <1>3, <1>7, CompleteKeeps
<1>8. QED
  BY <1>5, <1>6, <1>7 DEF Cancel

LEMMA RunsStep == RunsInv /\ [Next]_vars => RunsInv'
<1> SUFFICES ASSUME RunsInv, [Next]_vars
             PROVE  RunsInv'
  OBVIOUS
<1>1. ASSUME NEW t \in Tasks,
             \/ \E k \in Keys : Call(t, k)
             \/ Enter(t) \/ Finishes(t) \/ FnEnds(t) \/ Cancel(t)
      PROVE  RunsInv'
  BY <1>1, CallKeeps, EnterKeeps, FinishesKeeps, FnEndsKeeps, CancelKeeps
<1>2. CASE UNCHANGED vars
  <2>1. GateInv'
    BY <1>2, GateUntouched DEF vars, RunsInv
  <2>2. RunsCounted'
    BY <1>2 DEF vars, gateVars, callVars, RunsInv, RunsCounted, Entering
  <2>3. DataInv'
    BY <1>2 DEF vars, gateVars, callVars, RunsInv, DataInv, Types, RunInv,
       FutureOfRun, CallInv, Leads
  <2>4. QED
    BY <2>1, <2>2, <2>3 DEF RunsInv
<1>3. QED
  BY <1>1, <1>2 DEF Next, AllDone

LEMMA RunsInvAlways == Spec => []RunsInv
BY RunsInit, RunsStep, PTL DEF Spec

-----------------------------------------------------------------------------
\* The variables of the gate and of its calls stay in their types.
THEOREM TypeCorrect == Spec => []TypeOK
<1>1. RunsInv => TypeOK
  BY DEF RunsInv, GateInv, RunsCounted, DataInv, Types, TypeOK
<1>2. QED
  BY <1>1, RunsInvAlways, PTL

\* Whoever is cancelled wherever, fn never runs twice at once for one key.
THEOREM OneRun == Spec => []OneRunPerKey
<1>1. RunsInv => OneRunPerKey
  BY GateInvSuffices DEF RunsInv
<1>2. QED
  BY <1>1, RunsInvAlways, PTL

\* Nobody awaits a future that no running fn will complete.
THEOREM NobodyIsLeftWaiting == Spec => []FollowersHaveLeaders
<1>1. RunsInv => FollowersHaveLeaders
  BY GateInvSuffices DEF RunsInv
<1>2. QED
  BY <1>1, RunsInvAlways, PTL

\* The lock has a holder that needs it or none, and its queue holds those
\* that wait for it and nobody else.
THEOREM LockGoesOn == Spec => []LockIsReturned
<1>1. RunsInv => LockIsReturned
  BY GateInvSuffices DEF RunsInv
<1>2. QED
  BY <1>1, RunsInvAlways, PTL

\* A call of a key none of whose calls was cancelled gets the outcome of a
\* run whose leader had not left when it began.
THEOREM NoStaleOutcome == Spec => []StaleOnlyIfCancelled
<1>1. RunsInv => StaleOnlyIfCancelled
  <2> SUFFICES ASSUME RunsInv, NEW t \in Tasks, result[t] \in Nat,
                      asked[t] \notin spoiled
               PROVE  result[t] > since[t]
    BY DEF StaleOnlyIfCancelled
  <2>1. stage[t] = "out"
    BY RunConstants DEF RunsInv, DataInv, CallInv
  <2>2. asked[t] \in Keys
    BY RunConstants DEF RunsInv, DataInv, Types, CallInv
  <2>3. QED
    BY <2>1, <2>2 DEF RunsInv, DataInv, CallInv
<1>2. QED
  BY <1>1, RunsInvAlways, PTL

\* It ends in fn's own value or exception.
THEOREM CancellationContained == Spec => []CancellationStaysWithItsKey
<1>1. RunsInv => CancellationStaysWithItsKey
  BY RunsAreOutcomes
     DEF RunsInv, DataInv, Types, CallInv, CancellationStaysWithItsKey
<1>2. QED
  BY <1>1, RunsInvAlways, PTL
-----------------------------------------------------------------------------
(* To the callers of a key that no cancellation has touched, the gate is   *)
(* what Coalescing promises.                                               *)

Open(k) == [x \in {k} |-> OpenRun(x)]
Asked(k) == [t \in Tasks |-> AskedOf(t, k)]
Member(k) == [t \in Tasks |-> RunOf(t, k)]
Results(k) == [t \in Tasks |-> ResultOf(t, k)]

\* A step of t changes nothing of another task.
Others(t) ==
  \A s \in Tasks \ {t} :
    /\ stage'[s] = stage[s] /\ key'[s] = key[s] /\ run'[s] = run[s]
    /\ asked'[s] = asked[s] /\ result'[s] = result[s]

\* Such a key has a registered call with a leader, or neither.
LEMMA KeyState ==
  ASSUME RunsInv, NEW k \in Keys \ spoiled
  PROVE  \/ k \notin DOMAIN fut /\ LeadersOf(k) = {} /\ OpenRun(k) = 0
         \/ /\ k \in DOMAIN fut
            /\ \E s \in Tasks :
                 /\ LeadersOf(k) = {s} /\ OpenRun(k) = run[s]
                 /\ run[s] \in 1 .. runs
                 /\ fut[k] = Pending <=> stage[s] = "running"
                 /\ fut[k] # Pending => fut[k] = run[s]
<1>1. LeadersOf(k) = {t \in Tasks : Leads(t) /\ key[t] = k}
  BY DEF LeadersOf, CallersOf, Leads
<1>2. CASE k \notin DOMAIN fut
  BY <1>1, <1>2 DEF RunsInv, GateInv, FutInv, Leads, OpenRun
<1>3. CASE k \in DOMAIN fut
  <2>1. PICK s \in Tasks :
          Leads(s) /\ key[s] = k /\ fut[k] \in {Pending, run[s]}
    BY <1>3 DEF RunsInv, DataInv, FutureOfRun
  <2>2. LeadersOf(k) = {s}
    BY <1>1, <2>1 DEF RunsInv, GateInv, FutInv
  <2>3. run[s] \in 1 .. runs /\ run[s] \notin {Pending, Cancelled}
    BY <2>1, RunConstants DEF RunsInv, RunsCounted, DataInv, RunInv
  <2>4. OpenRun(k) = run[s]
    BY <1>3, <2>2 DEF OpenRun
  <2>5. fut[k] = Pending <=> stage[s] = "running"
    <3>1. stage[s] = "running" => fut[k] \in {Pending, Cancelled}
      BY <2>1 DEF RunsInv, GateInv, FutInv
    <3>2. stage[s] = "popping" => fut[k] # Pending
      BY <2>1 DEF RunsInv, GateInv, FutInv
    <3>3. Cancelled # Pending
      BY GateConstants
    <3>4. QED
      BY <2>1, <2>3, <3>1, <3>2, <3>3 DEF Leads
  <2>6. QED
    BY <1>3, <2>1, <2>2, <2>3, <2>4, <2>5
<1>4. QED
  BY <1>2, <1>3

\* The key keeps its run while t leads it neither before nor after.
LEMMA KeySeen ==
  ASSUME RunsInv, NEW t \in Tasks, NEW k \in Keys \ spoiled, Others(t),
         t \notin LeadersOf(k), t \notin LeadersOf(k)',
         k \in DOMAIN fut' <=> k \in DOMAIN fut
  PROVE  /\ OpenRun(k)' = OpenRun(k) /\ Open(k)' = Open(k)
         /\ RunningOf(k)' = RunningOf(k)
<1>1. LeadersOf(k)' = LeadersOf(k)
  BY DEF LeadersOf, CallersOf, Others
<1>2. OpenRun(k)' = OpenRun(k)
  <2>1. CASE k \notin DOMAIN fut
    BY <2>1 DEF OpenRun
  <2>2. CASE k \in DOMAIN fut
    <3>1. PICK s \in Tasks : LeadersOf(k) = {s} /\ OpenRun(k) = run[s]
      BY <2>2, KeyState
    <3>2. run'[s] = run[s]
      BY <3>1 DEF Others
    <3>3. OpenRun(k)' = run'[s]
      BY <1>1, <2>2, <3>1 DEF OpenRun
    <3>4. QED
      BY <3>1, <3>2, <3>3
  <2>3. QED
    BY <2>1, <2>2
<1>3. Open(k)' = Open(k)
  BY <1>2 DEF Open
<1>4. RunningOf(k)' = RunningOf(k)
  BY DEF RunningOf, LeadersOf, CallersOf, Others
<1>5. QED
  BY <1>2, <1>3, <1>4

\* What is seen of the tasks after a step of t.
LEMMA TaskSeen ==
  ASSUME NEW t \in Tasks, NEW k, Others(t), NEW a, NEW m, NEW r,
         AskedOf(t, k)' = a, RunOf(t, k)' = m, ResultOf(t, k)' = r,
         \A s \in Tasks \ {t} : stage[s] = "awaiting" /\ key[s] = k =>
           OpenRun(k)' = OpenRun(k)
  PROVE  /\ Asked(k)' = [Asked(k) EXCEPT ![t] = a]
         /\ Member(k)' = [Member(k) EXCEPT ![t] = m]
         /\ Results(k)' = [Results(k) EXCEPT ![t] = r]
<1>1. ASSUME NEW s \in Tasks \ {t}
      PROVE  AskedOf(s, k)' = AskedOf(s, k) /\ ResultOf(s, k)' = ResultOf(s, k)
  BY DEF Others, AskedOf, ResultOf, CallersOf
<1>2. ASSUME NEW s \in Tasks \ {t}
      PROVE  RunOf(s, k)' = RunOf(s, k)
  <2>1. /\ s \in LeadersOf(k)' <=> s \in LeadersOf(k)
        /\ s \in CallersOf(k)' <=> s \in CallersOf(k)
        /\ stage'[s] = stage[s] /\ run'[s] = run[s]
    BY DEF Others, LeadersOf, CallersOf
  <2>2. CASE s \in LeadersOf(k)
    BY <2>1, <2>2 DEF RunOf, LeadersOf
  <2>3. CASE s \notin LeadersOf(k) /\ s \in CallersOf(k) /\ stage[s] = "awaiting"
    <3>1. OpenRun(k)' = OpenRun(k)
      BY <2>3 DEF CallersOf
    <3>2. RunOf(s, k) = OpenRun(k) /\ RunOf(s, k)' = OpenRun(k)'
      BY <2>1, <2>3 DEF RunOf
    <3>3. QED
      BY <3>1, <3>2
  <2>4. CASE s \notin LeadersOf(k) /\ ~ (s \in CallersOf(k) /\ stage[s] = "awaiting")
    BY <2>1, <2>4 DEF RunOf
  <2>5. QED
    BY <2>2, <2>3, <2>4
<1> HIDE DEF AskedOf, ResultOf, RunOf
<1>3. QED
  BY <1>1, <1>2 DEF Asked, Member, Results

\* What is seen of a task by where it stands.
LEMMA SeenBefore ==
  ASSUME RunsInv, NEW t \in Tasks, NEW k \in Keys
  PROVE  /\ t \notin CallersOf(k) => AskedOf(t, k) = Nobody
         /\ t \in CallersOf(k) => AskedOf(t, k) = k /\ ResultOf(t, k) = 0
         /\ t \in LeadersOf(k) => RunOf(t, k) = run[t]
         /\ t \notin LeadersOf(k) =>
              RunOf(t, k) = IF t \in CallersOf(k) /\ stage[t] = "awaiting"
                              THEN OpenRun(k) ELSE 0
<1>1. t \in CallersOf(k) => asked[t] = k /\ result[t] = Nobody
  BY DEF CallersOf, RunsInv, DataInv, CallInv
<1>2. Nobody \notin Outcomes
  BY RunConstants
<1>3. t \in CallersOf(k) => ResultOf(t, k) = 0
  BY <1>1, <1>2 DEF ResultOf
<1>4. t \in LeadersOf(k) => RunOf(t, k) = run[t]
  BY DEF RunOf, LeadersOf
<1>5. t \notin LeadersOf(k) =>
        RunOf(t, k) = IF t \in CallersOf(k) /\ stage[t] = "awaiting"
                        THEN OpenRun(k) ELSE 0
  BY DEF RunOf
<1>6. QED
  BY <1>3, <1>4, <1>5 DEF AskedOf

\* Whatever t does for another key, k's callers see nothing but that it has
\* no result of k and that a run may have been numbered.
LEMMA ElsewhereUnseen ==
  ASSUME RunsInv, NEW t \in Tasks, NEW k \in Keys \ spoiled, Others(t),
         t \notin CallersOf(k), t \notin CallersOf(k)', asked'[t] # k,
         k \in DOMAIN fut' <=> k \in DOMAIN fut,
         runs' \in {runs, runs + 1}
  PROVE  PromiseOf(k)!Elsewhere(t)
<1>1. t \notin LeadersOf(k) /\ t \notin LeadersOf(k)'
  BY DEF LeadersOf
<1>2. OpenRun(k)' = OpenRun(k) /\ Open(k)' = Open(k) /\ RunningOf(k)' = RunningOf(k)
  BY <1>1, KeySeen
<1>3. /\ AskedOf(t, k)' = Nobody /\ RunOf(t, k)' = 0 /\ ResultOf(t, k)' = 0
      /\ AskedOf(t, k) = Nobody /\ RunOf(t, k) = 0
  BY <1>1 DEF AskedOf, RunOf, ResultOf
<1>4. /\ Asked(k)' = [Asked(k) EXCEPT ![t] = Nobody]
      /\ Member(k)' = [Member(k) EXCEPT ![t] = 0]
      /\ Results(k)' = [Results(k) EXCEPT ![t] = 0]
  BY <1>2, <1>3, TaskSeen
<1>5. Asked(k)[t] = Nobody /\ Asked(k)' = Asked(k) /\ Member(k)' = Member(k)
  <2> HIDE DEF AskedOf, RunOf
  <2>1. Asked(k)[t] = Nobody /\ Member(k)[t] = 0
    BY <1>3 DEF Asked, Member
  <2>2. QED
    BY <1>4, <2>1 DEF Asked, Member
<1>6. QED
  BY <1>2, <1>4, <1>5 DEF PromiseOf!Elsewhere, Open, Asked, Member, Results

\* What goes with a step of t in its call for k, and is seen of t alone.
LEMMA CallMoves ==
  ASSUME RunsInv, NEW t \in Tasks, NEW k, Asks(t, k), OnlyMoves(t),
         Starts(t) \/ GoesOn(t) \/ \E o : Ends(t, k, o)
  PROVE  Others(t) /\ asked'[t] = k /\ runs \in Nat /\ runs' \in {runs, runs + 1}
<1>1. \A s \in Tasks \ {t} : run'[s] = run[s] /\ result'[s] = result[s]
  BY DEF Starts, GoesOn, Ends, RunsInv, DataInv, Types
<1>2. QED
  BY <1>1 DEF Others, OnlyMoves, Asks, Starts, GoesOn, Ends, RunsInv, RunsCounted

\* To the callers of another key it is a step elsewhere.
LEMMA ElsewhereStep ==
  ASSUME RunsInv, NEW t \in Tasks, NEW k, Asks(t, k), OnlyMoves(t),
         Starts(t) \/ GoesOn(t) \/ \E o : Ends(t, k, o),
         stage'[t] # "out" => key'[t] = k,
         NEW x \in Keys \ spoiled, x # k, x \in DOMAIN fut' <=> x \in DOMAIN fut
  PROVE  PromiseOf(x)!Next
<1>1. Others(t) /\ asked'[t] = k /\ runs' \in {runs, runs + 1}
  BY CallMoves
<1>2. t \notin CallersOf(x) /\ t \notin CallersOf(x)'
  BY DEF CallersOf, Asks
<1>3. PromiseOf(x)!Elsewhere(t)
  BY <1>1, <1>2, ElsewhereUnseen
<1>4. QED
  BY <1>3 DEF PromiseOf!Next

\* A task that may enter is seen to ask for k or for nothing, with no run.
LEMMA SeenOutside ==
  ASSUME RunsInv, NEW t \in Tasks, NEW k \in Keys,
         stage[t] \in {"out", "entering"}
  PROVE  /\ Member(k)[t] = 0 /\ Asked(k)[t] \in {Nobody, k}
         /\ stage[t] = "out" => Asked(k)[t] = Nobody
<1>1. t \notin LeadersOf(k)
  BY DEF LeadersOf
<1>2. RunOf(t, k) = 0
  BY <1>1, SeenBefore
<1>3. AskedOf(t, k) \in {Nobody, k} /\ (stage[t] = "out" => AskedOf(t, k) = Nobody)
  BY DEF AskedOf, CallersOf
<1> HIDE DEF RunOf, AskedOf
<1>4. QED
  BY <1>2, <1>3 DEF Member, Asked

\* Registering the key starts a run.
LEMMA LeadAsPromised ==
  ASSUME RunsInv, NEW t \in Tasks, NEW k \in Keys \ spoiled, Asks(t, k),
         OnlyMoves(t), Starts(t), stage[t] \in {"out", "entering"},
         stage'[t] = "running", key'[t] = k, k \notin DOMAIN fut, k \in DOMAIN fut'
  PROVE  PromiseOf(k)!Next
<1>1. Others(t) /\ asked'[t] = k /\ runs \in Nat
  BY CallMoves
<1>2. runs' = runs + 1 /\ run'[t] = runs' /\ result'[t] = Nobody
  BY DEF Starts, RunsInv, DataInv, Types
<1>3. LeadersOf(k) = {} /\ OpenRun(k) = 0
  BY KeyState
<1>4. LeadersOf(k)' = {t}
  BY <1>1, <1>3 DEF LeadersOf, CallersOf, Others
<1>5. OpenRun(k)' = runs'
  BY <1>2, <1>4 DEF OpenRun
<1>6. RunningOf(k) = {} /\ RunningOf(k)' = {runs'}
  <2>1. {s \in CallersOf(k) : stage[s] = "running"} = {}
    BY <1>3 DEF LeadersOf
  <2>2. {s \in CallersOf(k) : stage[s] = "running"}' = {t}
    BY <1>4 DEF LeadersOf, CallersOf
  <2>3. QED
    BY <1>2, <2>1, <2>2 DEF RunningOf
<1>7. AskedOf(t, k)' = k /\ RunOf(t, k)' = runs' /\ ResultOf(t, k)' = 0
  <2>1. t \in CallersOf(k)' /\ t \in LeadersOf(k)'
    BY <1>4 DEF CallersOf
  <2>2. Nobody \notin Outcomes
    BY RunConstants
  <2>3. RunOf(t, k)' = run'[t]
    BY <2>1 DEF RunOf, LeadersOf
  <2>4. QED
    BY <1>2, <2>1, <2>2, <2>3 DEF AskedOf, ResultOf
<1>8. \A s \in Tasks \ {t} : ~ (stage[s] = "awaiting" /\ key[s] = k)
  BY DEF RunsInv, GateInv, FutInv
<1>9. /\ Asked(k)' = [Asked(k) EXCEPT ![t] = k]
      /\ Member(k)' = [Member(k) EXCEPT ![t] = runs']
      /\ Results(k)' = [Results(k) EXCEPT ![t] = 0]
  BY <1>1, <1>7, <1>8, TaskSeen
<1>10. Member(k)[t] = 0 /\ Asked(k)[t] \in {Nobody, k}
  BY SeenOutside
<1>11. Open(k)[k] = 0 /\ Open(k)' = [Open(k) EXCEPT ![k] = runs']
  <2> HIDE DEF OpenRun
  <2>1. QED
    BY <1>3, <1>5 DEF Open
<1>12. RunningOf(k)' = RunningOf(k) \cup {runs'}
  BY <1>6
<1> HIDE DEF RunningOf
<1>13. PromiseOf(k)!Start(t, k)
  BY <1>2, <1>9, <1>10, <1>11, <1>12
     DEF PromiseOf!Start, PromiseOf!Takes, Open, Asked, Member, Results
<1>14. QED
  BY <1>13 DEF PromiseOf!Next

\* A step that neither registers nor completes the key's call.
LEMMA Standing ==
  ASSUME RunsInv, NEW t \in Tasks, NEW k \in Keys \ spoiled, Others(t),
         stage[t] \notin {"running", "popping"},
         stage'[t] \notin {"running", "popping"}, fut' = fut
  PROVE  /\ OpenRun(k)' = OpenRun(k) /\ Open(k)' = Open(k)
         /\ RunningOf(k)' = RunningOf(k)
<1>1. t \notin LeadersOf(k) /\ t \notin LeadersOf(k)'
  BY DEF LeadersOf
<1>2. QED
  BY <1>1, KeySeen

\* Queueing for the lock is arriving.
LEMMA WaitAsPromised ==
  ASSUME RunsInv, NEW t \in Tasks, NEW k \in Keys \ spoiled, Asks(t, k),
         OnlyMoves(t), GoesOn(t), stage[t] = "out",
         stage'[t] = "entering", key'[t] = k, fut' = fut
  PROVE  PromiseOf(k)!Next
<1>1. Others(t) /\ asked'[t] = k
  BY CallMoves
<1>2. runs' = runs /\ result'[t] = Nobody
  BY DEF GoesOn, RunsInv, DataInv, Types
<1>3. OpenRun(k)' = OpenRun(k) /\ Open(k)' = Open(k) /\ RunningOf(k)' = RunningOf(k)
  BY <1>1, Standing
<1>4. AskedOf(t, k)' = k /\ RunOf(t, k)' = 0 /\ ResultOf(t, k)' = 0
  BY <1>1, <1>2, RunConstants DEF AskedOf, RunOf, ResultOf, CallersOf, LeadersOf
<1>5. /\ Asked(k)' = [Asked(k) EXCEPT ![t] = k]
      /\ Member(k)' = [Member(k) EXCEPT ![t] = 0]
      /\ Results(k)' = [Results(k) EXCEPT ![t] = 0]
  BY <1>1, <1>3, <1>4, TaskSeen
<1>6. Member(k)[t] = 0 /\ Asked(k)[t] = Nobody
  BY SeenOutside
<1> HIDE DEF RunningOf
<1>7. PromiseOf(k)!Arrive(t, k)
  BY <1>2, <1>3, <1>5, <1>6
     DEF PromiseOf!Arrive, PromiseOf!Takes, Open, Asked, Member, Results
<1>8. QED
  BY <1>7 DEF PromiseOf!Next

\* Awaiting the registered call's future is joining its run.
LEMMA FollowAsPromised ==
  ASSUME RunsInv, NEW t \in Tasks, NEW k \in Keys \ spoiled, Asks(t, k),
         OnlyMoves(t), GoesOn(t), stage[t] \in {"out", "entering"},
         stage'[t] = "awaiting", key'[t] = k, fut' = fut, k \in DOMAIN fut
  PROVE  PromiseOf(k)!Next
<1>1. Others(t) /\ asked'[t] = k
  BY CallMoves
<1>2. runs' = runs /\ result'[t] = Nobody
  BY DEF GoesOn, RunsInv, DataInv, Types
<1>3. OpenRun(k)' = OpenRun(k) /\ Open(k)' = Open(k) /\ RunningOf(k)' = RunningOf(k)
  BY <1>1, Standing
<1>4. AskedOf(t, k)' = k /\ RunOf(t, k)' = OpenRun(k) /\ ResultOf(t, k)' = 0
  <2>1. RunOf(t, k)' = OpenRun(k)'
    BY DEF RunOf, LeadersOf, CallersOf
  <2>2. QED
    BY <1>1, <1>2, <1>3, <2>1, RunConstants DEF AskedOf, ResultOf, CallersOf
<1>5. /\ Asked(k)' = [Asked(k) EXCEPT ![t] = k]
      /\ Member(k)' = [Member(k) EXCEPT ![t] = OpenRun(k)]
      /\ Results(k)' = [Results(k) EXCEPT ![t] = 0]
  BY <1>1, <1>3, <1>4, TaskSeen
<1>6. Member(k)[t] = 0 /\ Asked(k)[t] \in {Nobody, k}
  BY SeenOutside
<1>7. OpenRun(k) # 0
  BY KeyState
<1> HIDE DEF RunningOf, OpenRun
<1>8. Open(k)[k] = OpenRun(k)
  BY DEF Open
<1>9. PromiseOf(k)!Join(t, k)
  BY <1>2, <1>3, <1>5, <1>6, <1>7, <1>8
     DEF PromiseOf!Join, PromiseOf!Takes, Open, Asked, Member, Results
<1>10. QED
  BY <1>9 DEF PromiseOf!Next

\* What is seen of a task that ends its call for k with outcome o.
LEMMA SeenEnding ==
  ASSUME RunsInv, NEW t \in Tasks, NEW k \in Keys, NEW o \in Outcomes,
         Asks(t, k), OnlyMoves(t), stage'[t] = "out", Ends(t, k, o),
         \A s \in Tasks \ {t} : stage[s] = "awaiting" /\ key[s] = k =>
           OpenRun(k)' = OpenRun(k)
  PROVE  /\ Others(t) /\ runs' = runs /\ o # 0
         /\ Asked(k)' = [Asked(k) EXCEPT ![t] = Nobody]
         /\ Member(k)' = [Member(k) EXCEPT ![t] = 0]
         /\ Results(k)' = [Results(k) EXCEPT ![t] = o]
<1>1. Others(t) /\ asked'[t] = k
  BY CallMoves
<1>2. runs' = runs /\ result'[t] = o /\ o # 0
  BY RunConstants DEF Ends, RunsInv, DataInv, Types
<1>3. AskedOf(t, k)' = Nobody /\ RunOf(t, k)' = 0 /\ ResultOf(t, k)' = o
  BY <1>1, <1>2 DEF AskedOf, RunOf, ResultOf, CallersOf, LeadersOf
<1>4. QED
  BY <1>1, <1>2, <1>3, TaskSeen

\* A future that is done holds the open run, and no run of the key goes on.
LEMMA DoneRun ==
  ASSUME RunsInv, NEW k \in Keys \ spoiled, k \in DOMAIN fut, fut[k] # Pending
  PROVE  fut[k] = OpenRun(k) /\ RunningOf(k) = {} /\ fut[k] \in Outcomes
<1>1. PICK s \in Tasks :
        /\ LeadersOf(k) = {s} /\ OpenRun(k) = run[s] /\ run[s] \in 1 .. runs
        /\ stage[s] # "running" /\ fut[k] = run[s]
  BY KeyState
<1>2. {r \in CallersOf(k) : stage[r] = "running"} = {}
  BY <1>1 DEF LeadersOf
<1>3. QED
  BY <1>1, <1>2, RunsAreOutcomes DEF RunningOf

\* Finding the registered call's future done is joining its run late.
LEMMA TakeDoneAsPromised ==
  ASSUME RunsInv, NEW t \in Tasks, NEW k \in Keys \ spoiled, Asks(t, k),
         OnlyMoves(t), Ends(t, k, fut[k]), stage[t] \in {"out", "entering"},
         stage'[t] = "out", fut' = fut, k \in DOMAIN fut, fut[k] # Pending
  PROVE  PromiseOf(k)!Next
<1>1. Others(t)
  BY CallMoves
<1>2. OpenRun(k)' = OpenRun(k) /\ Open(k)' = Open(k) /\ RunningOf(k)' = RunningOf(k)
  BY <1>1, Standing
<1>3. fut[k] = OpenRun(k) /\ RunningOf(k) = {}
  BY DoneRun
<1>4. fut[k] \in Outcomes
  BY DoneRun
<1>5. /\ runs' = runs /\ fut[k] # 0
      /\ Asked(k)' = [Asked(k) EXCEPT ![t] = Nobody]
      /\ Member(k)' = [Member(k) EXCEPT ![t] = 0]
      /\ Results(k)' = [Results(k) EXCEPT ![t] = fut[k]]
  BY <1>2, <1>4, SeenEnding
<1>6. Member(k)[t] = 0 /\ Asked(k)[t] \in {Nobody, k}
  BY SeenOutside
<1> HIDE DEF RunningOf, OpenRun
<1>7. Open(k)[k] = fut[k] /\ fut[k] \notin RunningOf(k)'
  BY <1>2, <1>3 DEF Open
<1>8. PromiseOf(k)!JoinLate(t, k)
  BY <1>2, <1>5, <1>6, <1>7
     DEF PromiseOf!JoinLate, PromiseOf!Leaves, Open, Asked, Member, Results
<1>9. QED
  BY <1>8 DEF PromiseOf!Next

\* A follower returns with the run it joined, which stays open.
LEMMA ResumeAsPromised ==
  ASSUME RunsInv, NEW t \in Tasks, NEW k \in Keys \ spoiled, Asks(t, k),
         OnlyMoves(t), Ends(t, k, fut[k]), stage[t] = "awaiting", key[t] = k,
         stage'[t] = "out", fut' = fut, fut[k] # Pending
  PROVE  PromiseOf(k)!Next
<1>1. Others(t) /\ k \in DOMAIN fut
  BY CallMoves DEF RunsInv, GateInv, FutInv
<1>2. OpenRun(k)' = OpenRun(k) /\ Open(k)' = Open(k) /\ RunningOf(k)' = RunningOf(k)
  BY <1>1, Standing
<1>3. fut[k] = OpenRun(k) /\ RunningOf(k) = {}
  BY <1>1, DoneRun
<1>4. fut[k] \in Outcomes
  BY <1>1, DoneRun
<1>5. /\ runs' = runs /\ fut[k] # 0
      /\ Asked(k)' = [Asked(k) EXCEPT ![t] = Nobody]
      /\ Member(k)' = [Member(k) EXCEPT ![t] = 0]
      /\ Results(k)' = [Results(k) EXCEPT ![t] = fut[k]]
  BY <1>2, <1>4, SeenEnding
<1>6. Member(k)[t] = fut[k]
  <2>1. t \in CallersOf(k) /\ t \notin LeadersOf(k)
    BY DEF CallersOf, LeadersOf
  <2>2. RunOf(t, k) = OpenRun(k)
    BY <2>1, SeenBefore
  <2> HIDE DEF RunOf
  <2>3. QED
    BY <1>3, <2>2 DEF Member
<1> HIDE DEF RunningOf, OpenRun
<1>7. fut[k] \notin RunningOf(k)'
  BY <1>2, <1>3
<1>8. PromiseOf(k)!Return(t)
  BY <1>2, <1>5, <1>6, <1>7
     DEF PromiseOf!Return, PromiseOf!Closes, PromiseOf!Leaves,
         Open, Asked, Member, Results
<1>9. QED
  BY <1>8 DEF PromiseOf!Next

\* A leader: its run is the open one, and the only one of its key.
LEMMA LeaderState ==
  ASSUME RunsInv, NEW t \in Tasks, NEW k \in Keys \ spoiled,
         stage[t] \in {"running", "popping"}, key[t] = k
  PROVE  /\ k \in DOMAIN fut /\ LeadersOf(k) = {t} /\ OpenRun(k) = run[t]
         /\ run[t] \in 1 .. runs
         /\ fut[k] # Pending => fut[k] = run[t]
         /\ RunningOf(k) = IF stage[t] = "running" THEN {run[t]} ELSE {}
         /\ Member(k)[t] = run[t] /\ Asked(k)[t] = k
         /\ Open(k)[k] = run[t]
<1>1. t \in LeadersOf(k) /\ t \in CallersOf(k)
  BY DEF LeadersOf, CallersOf
<1>2. /\ k \in DOMAIN fut /\ LeadersOf(k) = {t} /\ OpenRun(k) = run[t]
      /\ run[t] \in 1 .. runs
      /\ fut[k] # Pending => fut[k] = run[t]
  BY <1>1, KeyState
<1>3. {r \in CallersOf(k) : stage[r] = "running"} =
        IF stage[t] = "running" THEN {t} ELSE {}
  BY <1>2 DEF LeadersOf
<1>4. RunningOf(k) = IF stage[t] = "running" THEN {run[t]} ELSE {}
  BY <1>3 DEF RunningOf
<1>5. RunOf(t, k) = run[t] /\ AskedOf(t, k) = k
  BY <1>1, SeenBefore
<1> HIDE DEF RunOf, AskedOf, OpenRun, RunningOf
<1>6. QED
  BY <1>2, <1>4, <1>5 DEF Member, Asked, Open

\* Once its leader has returned and the key is popped, no run is open.
LEMMA Closed ==
  ASSUME RunsInv, NEW t \in Tasks, NEW k \in Keys \ spoiled, Others(t),
         stage[t] \in {"running", "popping"}, key[t] = k,
         stage'[t] = "out", k \notin DOMAIN fut'
  PROVE  /\ RunningOf(k)' = {}
         /\ Open(k)' = [Open(k) EXCEPT ![k] = 0]
<1>1. LeadersOf(k) = {t}
  BY LeaderState
<1>2. LeadersOf(k)' = {}
  BY <1>1 DEF LeadersOf, CallersOf, Others
<1>3. {r \in CallersOf(k) : stage[r] = "running"}' = {}
  BY <1>2 DEF LeadersOf, CallersOf
<1>4. RunningOf(k)' = {}
  BY <1>3 DEF RunningOf
<1>5. OpenRun(k)' = 0
  BY DEF OpenRun
<1> HIDE DEF OpenRun
<1>6. QED
  BY <1>4, <1>5 DEF Open

\* fn ends, nobody holds the lock, so nobody waits: the run ends as its
\* leader returns.
LEMMA CompleteAndPopAsPromised ==
  ASSUME RunsInv, NEW t \in Tasks, NEW k \in Keys \ spoiled, Asks(t, k),
         OnlyMoves(t), Ends(t, k, run[t]), stage[t] = "running", key[t] = k,
         holder = Nobody, stage'[t] = "out", k \notin DOMAIN fut'
  PROVE  PromiseOf(k)!Next
<1>1. Others(t)
  BY CallMoves
<1>2. /\ run[t] \in 1 .. runs /\ RunningOf(k) = {run[t]} /\ LeadersOf(k) = {t}
      /\ Member(k)[t] = run[t] /\ Asked(k)[t] = k /\ Open(k)[k] = run[t]
  BY LeaderState
<1>3. RunningOf(k)' = {} /\ Open(k)' = [Open(k) EXCEPT ![k] = 0]
  BY <1>1, Closed
<1>4. \A s \in Tasks : stage[s] # "awaiting"
  BY GateConstants DEF RunsInv, GateInv, LockInv
<1>5. run[t] \in Outcomes /\ runs \in Nat
  BY <1>2, RunsAreOutcomes DEF RunsInv, RunsCounted
<1>6. /\ runs' = runs /\ run[t] # 0
      /\ Asked(k)' = [Asked(k) EXCEPT ![t] = Nobody]
      /\ Member(k)' = [Member(k) EXCEPT ![t] = 0]
      /\ Results(k)' = [Results(k) EXCEPT ![t] = run[t]]
  BY <1>4, <1>5, SeenEnding
<1>7. \A s \in Tasks \ {t} : Member(k)[s] # run[t]
  <2>1. \A s \in Tasks \ {t} : RunOf(s, k) = 0
    BY <1>2, <1>4, SeenBefore
  <2> HIDE DEF RunOf
  <2>2. QED
    BY <1>6, <2>1 DEF Member
<1> HIDE DEF RunningOf, OpenRun
<1>8. PromiseOf(k)!EndAlone(t)
  BY <1>2, <1>3, <1>6, <1>7
     DEF PromiseOf!EndAlone, PromiseOf!Closes, PromiseOf!Leaves,
         Open, Asked, Member, Results
<1>9. QED
  BY <1>8 DEF PromiseOf!Next

\* A leader that had to wait for the lock closes its run as it returns.
LEMMA PopAsPromised ==
  ASSUME RunsInv, NEW t \in Tasks, NEW k \in Keys \ spoiled, Asks(t, k),
         OnlyMoves(t), Ends(t, k, fut[k]), stage[t] = "popping", key[t] = k,
         holder = t, stage'[t] = "out", k \notin DOMAIN fut'
  PROVE  PromiseOf(k)!Next
<1>1. Others(t) /\ fut[k] # Pending
  BY CallMoves DEF RunsInv, GateInv, FutInv
<1>2. /\ run[t] \in 1 .. runs /\ RunningOf(k) = {} /\ fut[k] = run[t]
      /\ Member(k)[t] = run[t] /\ Asked(k)[t] = k /\ Open(k)[k] = run[t]
  BY <1>1, LeaderState
<1>3. RunningOf(k)' = {} /\ Open(k)' = [Open(k) EXCEPT ![k] = 0]
  BY <1>1, Closed
<1>4. \A s \in Tasks \ {t} : stage[s] # "awaiting"
  BY DEF RunsInv, GateInv, LockInv
<1>5. run[t] \in Outcomes
  BY <1>2, RunsAreOutcomes
<1>6. /\ runs' = runs /\ run[t] # 0
      /\ Asked(k)' = [Asked(k) EXCEPT ![t] = Nobody]
      /\ Member(k)' = [Member(k) EXCEPT ![t] = 0]
      /\ Results(k)' = [Results(k) EXCEPT ![t] = run[t]]
  BY <1>2, <1>4, <1>5, SeenEnding
<1> HIDE DEF RunningOf, OpenRun
<1>7. PromiseOf(k)!Return(t)
  BY <1>2, <1>3, <1>6
     DEF PromiseOf!Return, PromiseOf!Closes, PromiseOf!Leaves,
         Open, Asked, Member, Results
<1>8. QED
  BY <1>7 DEF PromiseOf!Next

\* A leader that has to wait for the lock ends its run and leaves it open.
LEMMA CompleteAndWaitAsPromised ==
  ASSUME RunsInv, NEW t \in Tasks, NEW k \in Keys \ spoiled, Asks(t, k),
         OnlyMoves(t), GoesOn(t), stage[t] = "running", key[t] = k,
         stage'[t] = "popping", key'[t] = k, k \in DOMAIN fut'
  PROVE  PromiseOf(k)!Next
<1>1. Others(t) /\ asked'[t] = k
  BY CallMoves
<1>2. /\ runs' = runs /\ result'[t] = Nobody /\ run' = run
  BY DEF GoesOn, RunsInv, DataInv, Types
<1>3. /\ run[t] \in 1 .. runs /\ RunningOf(k) = {run[t]} /\ LeadersOf(k) = {t}
      /\ OpenRun(k) = run[t]
  BY LeaderState
<1>4. LeadersOf(k)' = {t}
  BY <1>1, <1>3 DEF LeadersOf, CallersOf, Others
<1>5. OpenRun(k)' = OpenRun(k)
  BY <1>2, <1>3, <1>4 DEF OpenRun
<1>6. RunningOf(k)' = {}
  <2>1. {r \in CallersOf(k) : stage[r] = "running"}' = {}
    BY <1>4 DEF LeadersOf, CallersOf
  <2>2. QED
    BY <2>1 DEF RunningOf
<1>7. /\ t \in CallersOf(k) /\ t \in LeadersOf(k)
      /\ t \in CallersOf(k)' /\ t \in LeadersOf(k)'
  BY <1>3, <1>4 DEF LeadersOf, CallersOf
<1>8. /\ AskedOf(t, k) = k /\ RunOf(t, k) = run[t] /\ ResultOf(t, k) = 0
      /\ AskedOf(t, k)' = k /\ RunOf(t, k)' = run[t] /\ ResultOf(t, k)' = 0
  <2>1. RunOf(t, k)' = run'[t]
    BY <1>7 DEF RunOf, LeadersOf
  <2>2. QED
    BY <1>2, <1>7, <2>1, SeenBefore, RunConstants DEF AskedOf, ResultOf
<1>9. /\ Asked(k)' = [Asked(k) EXCEPT ![t] = k]
      /\ Member(k)' = [Member(k) EXCEPT ![t] = run[t]]
      /\ Results(k)' = [Results(k) EXCEPT ![t] = 0]
  BY <1>1, <1>5, <1>8, TaskSeen
<1> HIDE DEF RunningOf, OpenRun, AskedOf, RunOf, ResultOf
<1>10. /\ Asked(k)' = Asked(k) /\ Member(k)' = Member(k)
       /\ Results(k)' = Results(k) /\ Open(k)' = Open(k)
  BY <1>5, <1>8, <1>9 DEF Asked, Member, Results, Open
<1>11. PromiseOf(k)!End(run[t]) /\ run[t] \in RunningOf(k)
  BY <1>2, <1>3, <1>6, <1>10
     DEF PromiseOf!End, Open, Asked, Member, Results
<1>12. \E r \in RunningOf(k) : PromiseOf(k)!End(r)
  BY <1>11 DEF PromiseOf!End
<1>13. QED
  BY <1>12 DEF PromiseOf!Next

-----------------------------------------------------------------------------
(* Every step, as the callers of x see it.                                 *)

LEMMA SectionAsPromised ==
  ASSUME RunsInv, NEW t \in Tasks, NEW k, Asks(t, k), Section(t, k),
         NEW x \in Keys \ spoiled
  PROVE  PromiseOf(x)!Next
<1>1. k \in Keys /\ GateInv /\ GateTypeOK /\ stage[t] \in {"out", "entering"}
  BY Enters DEF RunsInv, GateInv, Asks, Section, Lead, Follow, TakeDone
<1>2. CASE Lead(t, k) /\ Starts(t)
  <2>1. OnlyMoves(t) /\ stage'[t] = "running" /\ key'[t] = k
    BY <1>1, <1>2, InsideMoves DEF Lead, Stages
  <2>2. k \notin DOMAIN fut /\ DOMAIN fut' = DOMAIN fut \cup {k}
    BY <1>2 DEF Lead, Register
  <2>3. CASE x = k
    BY <1>1, <1>2, <2>1, <2>2, <2>3, LeadAsPromised
  <2>4. CASE x # k
    BY <1>2, <2>1, <2>2, <2>4, ElsewhereStep
  <2>5. QED
    BY <2>3, <2>4
<1>3. CASE Follow(t, k) /\ GoesOn(t)
  <2>1. OnlyMoves(t) /\ stage'[t] = "awaiting" /\ key'[t] = k
    BY <1>1, <1>3, InsideMoves DEF Follow, Stages
  <2>2. k \in DOMAIN fut /\ fut' = fut
    BY <1>3 DEF Follow
  <2>3. CASE x = k
    BY <1>1, <1>3, <2>1, <2>2, <2>3, FollowAsPromised
  <2>4. CASE x # k
    BY <1>3, <2>1, <2>2, <2>4, ElsewhereStep
  <2>5. QED
    BY <2>3, <2>4
<1>4. CASE TakeDone(t, k) /\ Ends(t, k, fut[k])
  <2>1. OnlyMoves(t) /\ stage'[t] = "out"
    BY <1>1, <1>4, ReturnMoves DEF TakeDone
  <2>2. k \in DOMAIN fut /\ fut[k] # Pending /\ fut' = fut
    BY <1>4 DEF TakeDone
  <2>3. CASE x = k
    BY <1>1, <1>4, <2>1, <2>2, <2>3, TakeDoneAsPromised
  <2>4. CASE x # k
    BY <1>4, <2>1, <2>2, <2>4, ElsewhereStep
  <2>5. QED
    BY <2>3, <2>4
<1>5. QED
  BY <1>2, <1>3, <1>4 DEF Section

LEMMA CallAsPromised ==
  ASSUME RunsInv, NEW t \in Tasks, NEW k \in Keys, Call(t, k),
         NEW x \in Keys \ spoiled
  PROVE  PromiseOf(x)!Next
<1>1. spoiled' = spoiled /\ stage[t] = "out"
  BY DEF Call
<1>2. Asks(t, k)
  BY <1>1 DEF Call, Asks, RunsInv, DataInv, Types
<1>3. CASE Section(t, k)
  BY <1>2, <1>3, SectionAsPromised
<1>4. CASE Wait(t, k) /\ GoesOn(t)
  <2>1. OnlyMoves(t) /\ stage'[t] = "entering" /\ key'[t] = k /\ fut' = fut
    BY <1>4, InsideMoves DEF Wait, RunsInv, GateInv, Stages
  <2>2. CASE x = k
    BY <1>1, <1>2, <1>4, <2>1, <2>2, WaitAsPromised
  <2>3. CASE x # k
    BY <1>2, <1>4, <2>1, <2>3, ElsewhereStep
  <2>4. QED
    BY <2>2, <2>3
<1>5. QED
  BY <1>3, <1>4 DEF Call

LEMMA EnterAsPromised ==
  ASSUME RunsInv, NEW t \in Tasks, Enter(t), NEW x \in Keys \ spoiled
  PROVE  PromiseOf(x)!Next
<1>1. Asks(t, key[t])
  BY StillAsks DEF Enter, RunsInv, DataInv, Types
<1>2. QED
  BY <1>1, SectionAsPromised DEF Enter

LEMMA FinishesAsPromised ==
  ASSUME RunsInv, NEW t \in Tasks, Finishes(t), NEW x \in Keys \ spoiled
  PROVE  PromiseOf(x)!Next
<1> DEFINE k == key[t]
<1>1. Asks(t, k) /\ k \in Keys
  BY StillAsks DEF Finishes, Resume, Pop, RunsInv, DataInv, Types
<1>2. OnlyMoves(t) /\ stage'[t] = "out" /\ Ends(t, k, fut[k])
  BY ReturnMoves DEF Finishes, Resume, Pop, RunsInv, GateInv
<1> HIDE DEF k
<1>3. CASE Resume(t)
  <2>1. stage[t] = "awaiting" /\ fut[k] # Pending /\ fut' = fut
    BY <1>3 DEF Resume, k
  <2>2. CASE x = k
    BY <1>1, <1>2, <2>1, <2>2, ResumeAsPromised DEF k
  <2>3. CASE x # k
    BY <1>1, <1>2, <2>1, <2>3, ElsewhereStep
  <2>4. QED
    BY <2>2, <2>3
<1>4. CASE Pop(t)
  <2>1. /\ stage[t] = "popping" /\ holder = t
        /\ DOMAIN fut' = DOMAIN fut \ {k}
    BY <1>4 DEF Pop, Unregister, k
  <2>2. CASE x = k
    BY <1>1, <1>2, <2>1, <2>2, PopAsPromised DEF k
  <2>3. CASE x # k
    BY <1>1, <1>2, <2>1, <2>3, ElsewhereStep
  <2>4. QED
    BY <2>2, <2>3
<1>5. QED
  BY <1>3, <1>4 DEF Finishes

\* fn ends with its run, or with a cancellation that spoils the key.
LEMMA CompleteAsPromised ==
  ASSUME RunsInv, NEW t \in Tasks, NEW o, Complete(t, o), UNCHANGED callVars,
         cancels' \in Nat, spoiled \subseteq spoiled', spoiled' \subseteq Keys,
         \/ o = run[t]
         \/ o = Cancelled /\ key[t] \in spoiled',
         NEW x \in Keys \ spoiled'
  PROVE  PromiseOf(x)!Next
<1> DEFINE k == key[t]
<1>1. stage[t] = "running" /\ x \notin spoiled
  BY DEF Complete, CompletePoisoned, CompleteAndPop, CompleteAndWait
<1>2. Asks(t, k) /\ k \in Keys
  BY <1>1, StillAsks
<1> HIDE DEF k
<1>3. CASE CompletePoisoned(t) /\ Ends(t, k, Invalid)
  <2>1. OnlyMoves(t) /\ stage'[t] = "out" /\ fut' = fut /\ fut[k] = Cancelled
    BY <1>3, ReturnMoves DEF CompletePoisoned, RunsInv, GateInv, k
  <2>2. x # k
    <3>1. SUFFICES ASSUME x = k
                   PROVE  FALSE
      OBVIOUS
    <3>2. run[t] \in 1 .. runs /\ runs \in Nat /\ fut[k] \in {Pending, run[t]}
      BY <1>1, <1>2, <3>1, LeaderState DEF RunsInv, RunsCounted, k
    <3>3. QED
      BY <2>1, <3>2, GateConstants, RunConstants
  <2>3. QED
    BY <1>1, <1>2, <1>3, <2>1, <2>2, ElsewhereStep
<1>4. CASE CompleteAndPop(t) /\ Ends(t, k, o)
  <2>1. OnlyMoves(t) /\ stage'[t] = "out" /\ holder = Nobody
    BY <1>4, ReturnMoves DEF CompleteAndPop, RunsInv, GateInv
  <2>2. DOMAIN fut' = DOMAIN fut \ {k}
    BY <1>4 DEF CompleteAndPop, Unregister, k
  <2>3. CASE x = k
    <3>1. o = run[t]
      BY <2>3 DEF k
    <3>2. QED
      BY <1>1, <1>2, <1>4, <2>1, <2>2, <2>3, <3>1, CompleteAndPopAsPromised DEF k
  <2>4. CASE x # k
    BY <1>1, <1>2, <1>4, <2>1, <2>2, <2>4, ElsewhereStep
  <2>5. QED
    BY <2>3, <2>4
<1>5. CASE CompleteAndWait(t, o) /\ GoesOn(t)
  <2>1. OnlyMoves(t) /\ stage'[t] = "popping" /\ key'[t] = k
    BY <1>2, <1>5, InsideMoves DEF CompleteAndWait, RunsInv, GateInv, Stages, k
  <2>2. DOMAIN fut' = DOMAIN fut
    BY <1>5 DEF CompleteAndWait
  <2>3. CASE x = k
    <3>1. k \in DOMAIN fut'
      BY <1>1, <2>2 DEF RunsInv, GateInv, FutInv, k
    <3>2. QED
      BY <1>1, <1>2, <1>5, <2>1, <2>3, <3>1, CompleteAndWaitAsPromised DEF k
  <2>4. CASE x # k
    BY <1>1, <1>2, <1>5, <2>1, <2>2, <2>4, ElsewhereStep
  <2>5. QED
    BY <2>3, <2>4
<1>6. QED
  BY <1>3, <1>4, <1>5 DEF Complete, k

LEMMA CancelAsPromised ==
  ASSUME RunsInv, NEW t \in Tasks, Cancel(t), NEW x \in Keys \ spoiled'
  PROVE  PromiseOf(x)!Next
<1> DEFINE k == key[t]
<1>1. stage[t] # "out"
  BY DEF Cancel, CancelAcquire, CancelFuture, CancelFollower, Complete,
     CompletePoisoned, CompleteAndPop, CompleteAndWait
<1>2. k \in Keys
  BY <1>1 DEF RunsInv, GateInv, FutInv
<1>3. /\ UNCHANGED callVars /\ cancels' \in Nat /\ k \in spoiled'
      /\ spoiled \subseteq spoiled' /\ spoiled' \subseteq Keys
  BY <1>2 DEF Cancel, RunsInv, DataInv, Types
<1>4. Asks(t, k) /\ x # k /\ x \notin spoiled
  BY <1>1, <1>3, StillAsks
<1>5. CASE (CancelAcquire(t) \/ CancelFollower(t)) /\ Ends(t, k, Cancelled)
  <2>1. OnlyMoves(t) /\ stage'[t] = "out" /\ fut' = fut
    BY <1>5, ReturnMoves DEF CancelAcquire, CancelFollower, RunsInv, GateInv
  <2> HIDE DEF k
  <2>2. QED
    BY <1>4, <1>5, <2>1, ElsewhereStep
<1>6. CASE CancelFuture(t) /\ GoesOn(t)
  <2>1. OnlyMoves(t) /\ key'[t] = k /\ DOMAIN fut' = DOMAIN fut
    BY <1>6 DEF CancelFuture, OnlyMoves
  <2> HIDE DEF k
  <2>2. QED
    BY <1>4, <1>6, <2>1, ElsewhereStep
<1>7. CASE Complete(t, Cancelled)
  BY <1>3, <1>7, CompleteAsPromised
<1>8. QED
  BY <1>5, <1>6, <1>7 DEF Cancel

LEMMA PromisedStep ==
  ASSUME RunsInv, [Next]_vars, NEW x \in Keys \ spoiled'
  PROVE  PromiseOf(x)!Next \/ UNCHANGED PromiseOf(x)!promiseVars
<1>1. ASSUME NEW t \in Tasks,
             \/ \E k \in Keys : Call(t, k)
             \/ Enter(t) \/ Finishes(t)
      PROVE  PromiseOf(x)!Next
  <2>1. spoiled' = spoiled
    BY <1>1 DEF Call, Enter, Finishes
  <2>2. QED
    BY <1>1, <2>1, CallAsPromised, EnterAsPromised, FinishesAsPromised
<1>2. ASSUME NEW t \in Tasks, FnEnds(t)
      PROVE  PromiseOf(x)!Next
  BY <1>2, CompleteAsPromised DEF FnEnds, RunsInv, DataInv, Types
<1>3. ASSUME NEW t \in Tasks, Cancel(t)
      PROVE  PromiseOf(x)!Next
  BY <1>3, CancelAsPromised
<1>4. CASE UNCHANGED vars
  BY <1>4 DEF vars, gateVars, callVars, PromiseOf!promiseVars, OpenRun,
     AskedOf, RunOf, ResultOf, RunningOf, LeadersOf, CallersOf
<1>5. QED
  BY <1>1, <1>2, <1>3, <1>4 DEF Next, AllDone

LEMMA PromisedInit ==
  ASSUME Init, NEW x \in Keys
  PROVE  PromiseOf(x)!Init
<1>1. /\ DOMAIN fut = {} /\ runs = 0
      /\ \A t \in Tasks : stage[t] = "out" /\ result[t] \notin Outcomes
  BY RunConstants DEF Init, GateInit
<1>2. CallersOf(x) = {} /\ LeadersOf(x) = {}
  BY <1>1 DEF CallersOf, LeadersOf
<1>3. RunningOf(x) = {} /\ OpenRun(x) = 0
  BY <1>1, <1>2 DEF RunningOf, OpenRun
<1>4. \A t \in Tasks :
        AskedOf(t, x) = Nobody /\ RunOf(t, x) = 0 /\ ResultOf(t, x) = 0
  BY <1>1, <1>2 DEF AskedOf, RunOf, ResultOf
<1> HIDE DEF RunningOf, OpenRun, AskedOf, RunOf, ResultOf
<1>5. QED
  BY <1>1, <1>3, <1>4 DEF PromiseOf!Init

\* Whatever is cancelled under other keys, the callers of a key join its one
\* open run, or start it, and return with its outcome.
THEOREM GateKeepsPromise == Spec => KeepsPromise
<1>1. Init => \A k \in Keys : PromiseOf(k)!Init
  BY PromisedInit
<1>2. RunsInv /\ [Next]_vars =>
        [\A k \in Keys \ spoiled' :
           PromiseOf(k)!Next \/ UNCHANGED PromiseOf(k)!promiseVars]_vars
  BY PromisedStep
<1>3. QED
  BY <1>1, <1>2, RunsInvAlways, PTL DEF Spec, KeepsPromise

=============================================================================
