----------------------- MODULE SingleflightRunsProofs -----------------------
(***************************************************************************)
(* Proofs about SingleflightRuns, for any threads, keys and number of      *)
(* runs.                                                                   *)
(***************************************************************************)
EXTENDS SingleflightRuns, TLAPS

Leads(t) == stage[t] \in {"leading", "published"}

TypeInv ==
  /\ GateTypeOK
  /\ runs \in 0 .. MaxRuns
  /\ run \in [Threads -> 0 .. MaxRuns]
  /\ result \in [Threads -> 0 .. MaxRuns]
  /\ retired \in [Keys -> 0 .. MaxRuns]
  /\ since \in [Threads -> 0 .. MaxRuns]

\* A leader's key names the call it leads, and every registered call has its
\* leader, whose run's outcome it holds once its event is set.
Registered ==
  /\ \A t \in Threads : stage[t] # "out" => key[t] \in Keys
  /\ \A t \in Threads : Leads(t) =>
       /\ key[t] \in DOMAIN inflight
       /\ inflight[key[t]].leader = t
       /\ inflight[key[t]].event <=> stage[t] = "published"
       /\ stage[t] = "published" => got[t] = run[t]
       /\ inflight[key[t]].event => inflight[key[t]].outcome = run[t]
  /\ \A k \in DOMAIN inflight :
       Leads(inflight[k].leader) /\ key[inflight[k].leader] = k

\* A thread that waits does so on a registered call whose event is not set.
Waits ==
  \A t \in Threads : stage[t] = "waiting" =>
    key[t] \in DOMAIN inflight /\ ~ inflight[key[t]].event

\* The run of a registered call is newer than every run of its key whose
\* leader has returned, and nobody inside call() has seen a newer one retire.
Newer ==
  /\ \A k \in Keys : retired[k] <= runs
  /\ \A t \in Threads : Leads(t) =>
       retired[key[t]] < run[t] /\ run[t] <= runs
  /\ \A t \in Threads : stage[t] # "out" => since[t] <= retired[key[t]]

\* What a follower takes, and what a caller returned with, is newer than what
\* had retired when its call began.
Taken ==
  /\ \A t \in Threads : stage[t] = "released" =>
       got[t] \in 1 .. MaxRuns /\ since[t] < got[t]
  /\ FreshAfterLeader

RunsInv == TypeInv /\ Registered /\ Waits /\ Newer /\ Taken

LEMMA RunsInit == Init => RunsInv
BY OutcomesAreRuns
   DEF Init, GateInit, RunsInv, TypeInv, GateTypeOK, Registered, Waits, Newer,
       Taken, FreshAfterLeader, Leads, Stages

\* What a registered call holds.
LEMMA SyncCallParts ==
  ASSUME TypeInv, NEW k \in DOMAIN inflight
  PROVE  /\ inflight[k].leader \in Threads /\ inflight[k].event \in BOOLEAN
         /\ inflight[k].event => inflight[k].outcome \in 1 .. MaxRuns
         /\ inflight[k].outcome \in Outcomes \cup {Nobody}
<1>1. inflight[k] \in SyncCalls
  BY DEF TypeInv, GateTypeOK
<1>2. QED
  BY <1>1, OutcomesAreRuns DEF SyncCalls

LEMMA StartsSound ==
  ASSUME RunsInv, NEW t \in Threads, NEW k \in Keys, Starts(t, k)
  PROVE  RunsInv'
<1> DEFINE call == [leader |-> t, event |-> FALSE, outcome |-> Nobody]
<1>1. call \in SyncCalls /\ call.leader = t /\ ~ call.event
  BY DEF SyncCalls
<1>2. /\ stage[t] = "out" /\ k \notin DOMAIN inflight
      /\ DOMAIN inflight' = DOMAIN inflight \cup {k} /\ inflight'[k] = call
      /\ \A x \in DOMAIN inflight : inflight'[x] = inflight[x]
      /\ inflight' = [x \in DOMAIN inflight' |-> inflight'[x]]
  BY DEF Starts, Lead
<1> HIDE DEF call
<1>3. /\ stage' = [stage EXCEPT ![t] = "leading"]
      /\ key' = [key EXCEPT ![t] = k] /\ got' = [got EXCEPT ![t] = Nobody]
      /\ run' = [run EXCEPT ![t] = runs'] /\ runs' = runs + 1
      /\ since' = [since EXCEPT ![t] = retired[k]]
      /\ result' = [result EXCEPT ![t] = 0] /\ retired' = retired
      /\ runs < MaxRuns
  BY DEF Starts, Lead, Enters, Inside
<1>4. /\ stage'[t] = "leading" /\ key'[t] = k /\ run'[t] = runs + 1
      /\ since'[t] = retired[k] /\ result'[t] = 0
      /\ \A s \in Threads \ {t} :
           /\ stage'[s] = stage[s] /\ key'[s] = key[s] /\ got'[s] = got[s]
           /\ run'[s] = run[s] /\ since'[s] = since[s] /\ result'[s] = result[s]
  BY <1>3 DEF RunsInv, TypeInv, GateTypeOK
<1>5. TypeInv'
  <2>1. runs' \in 0 .. MaxRuns
    BY <1>3, OutcomesAreRuns DEF RunsInv, TypeInv
  <2>2. DOMAIN inflight' \subseteq Keys /\ inflight' \in [DOMAIN inflight' -> SyncCalls]
    <3>1. \A x \in DOMAIN inflight' : x \in Keys /\ inflight'[x] \in SyncCalls
      BY <1>1, <1>2 DEF RunsInv, TypeInv, GateTypeOK
    <3>2. QED
      BY <1>2, <3>1
  <2>3. QED
    BY <1>3, <2>1, <2>2, OutcomesAreRuns
       DEF RunsInv, TypeInv, GateTypeOK, Stages
<1>6. \A x \in DOMAIN inflight : inflight[x].leader \in Threads \ {t}
  BY <1>2, SyncCallParts DEF RunsInv, Registered, Leads
<1>7. Registered'
  BY <1>1, <1>2, <1>4, <1>6 DEF RunsInv, Registered, Leads
<1>8. Waits'
  BY <1>2, <1>4 DEF RunsInv, Waits
<1>9. Newer'
  <2>1. runs \in Nat /\ \A x \in Keys : retired[x] \in Nat
    BY OutcomesAreRuns DEF RunsInv, TypeInv
  <2>2. \A s \in Threads \ {t} : Leads(s) => run[s] \in Nat /\ run[s] <= runs + 1
    BY <2>1, OutcomesAreRuns DEF RunsInv, TypeInv, Newer
  <2>3. QED
    BY <1>3, <1>4, <2>1, <2>2 DEF RunsInv, Newer, Leads
<1>10. Taken'
  BY <1>4 DEF RunsInv, Taken, FreshAfterLeader
<1>11. QED
  BY <1>5, <1>7, <1>8, <1>9, <1>10 DEF RunsInv

LEMMA JoinsSound ==
  ASSUME RunsInv, NEW t \in Threads, NEW k \in Keys, Joins(t, k)
  PROVE  RunsInv'
<1> DEFINE label == IF inflight[k].event THEN "released" ELSE "waiting"
<1>1. /\ stage[t] = "out" /\ k \in DOMAIN inflight
      /\ stage' = [stage EXCEPT ![t] = label]
      /\ key' = [key EXCEPT ![t] = k]
      /\ got' = [got EXCEPT ![t] = inflight[k].outcome]
      /\ since' = [since EXCEPT ![t] = retired[k]]
      /\ result' = [result EXCEPT ![t] = 0]
      /\ UNCHANGED <<inflight, runs, run, retired>>
  BY DEF Joins, Follow, Enters, Inside
<1>2. label \in {"released", "waiting"}
        /\ (label = "released" <=> inflight[k].event = TRUE)
  BY <1>1, SyncCallParts DEF RunsInv
<1> HIDE DEF label
<1>3. /\ stage'[t] = label /\ key'[t] = k /\ got'[t] = inflight[k].outcome
      /\ since'[t] = retired[k] /\ result'[t] = 0
      /\ \A s \in Threads \ {t} :
           /\ stage'[s] = stage[s] /\ key'[s] = key[s] /\ got'[s] = got[s]
           /\ since'[s] = since[s] /\ result'[s] = result[s]
  BY <1>1 DEF RunsInv, TypeInv, GateTypeOK
<1>4. TypeInv'
  BY <1>1, <1>2, SyncCallParts, OutcomesAreRuns
     DEF RunsInv, TypeInv, GateTypeOK, Stages
<1>5. \A x \in DOMAIN inflight : inflight[x].leader \in Threads \ {t}
  BY <1>1, SyncCallParts DEF RunsInv, Registered, Leads
<1>6. Registered'
  BY <1>1, <1>2, <1>3, <1>5 DEF RunsInv, Registered, Leads
<1>7. Waits'
  BY <1>1, <1>2, <1>3, SyncCallParts DEF RunsInv, Waits
<1>8. Newer'
  BY <1>1, <1>2, <1>3, OutcomesAreRuns DEF RunsInv, TypeInv, Newer, Leads
<1>9. label = "released" =>
        inflight[k].outcome \in 1 .. MaxRuns /\ retired[k] < inflight[k].outcome
  BY <1>1, <1>2, <1>5, SyncCallParts DEF RunsInv, Registered, Newer
<1>10. Taken'
  BY <1>3, <1>9 DEF RunsInv, Taken, FreshAfterLeader
<1>11. QED
  BY <1>4, <1>6, <1>7, <1>8, <1>10 DEF RunsInv

\* A key has one leader.
LEMMA OneLeader ==
  ASSUME RunsInv, NEW s \in Threads, NEW t \in Threads,
         Leads(s), Leads(t), key[s] = key[t]
  PROVE  s = t
BY DEF RunsInv, Registered

LEMMA EndsSound ==
  ASSUME RunsInv, NEW t \in Threads, Ends(t)
  PROVE  RunsInv'
<1> DEFINE call == [leader |-> t, event |-> TRUE, outcome |-> run[t]]
<1>1. /\ stage[t] = "leading" /\ Leads(t)
      /\ inflight' = [inflight EXCEPT ![key[t]] = call]
      /\ stage' = [s \in Threads |-> IF s = t THEN "published"
                                     ELSE IF s \in Followers(t) THEN "released"
                                     ELSE stage[s]]
      /\ got' = [s \in Threads |-> IF s \in Followers(t) \cup {t} THEN run[t]
                                   ELSE got[s]]
      /\ UNCHANGED <<key, runs, run, result, retired, since>>
  BY DEF Ends, Publish, Leads
<1>2. /\ run[t] \in 1 .. MaxRuns /\ retired[key[t]] < run[t]
      /\ key[t] \in Keys /\ key[t] \in DOMAIN inflight
      /\ inflight[key[t]].leader = t
  <2>1. key[t] \in Keys /\ key[t] \in DOMAIN inflight
          /\ inflight[key[t]].leader = t /\ retired[key[t]] < run[t]
    BY <1>1 DEF RunsInv, Registered, Newer
  <2>2. run[t] \in 0 .. MaxRuns /\ retired[key[t]] \in 0 .. MaxRuns
    BY <2>1 DEF RunsInv, TypeInv
  <2>3. QED
    BY <2>1, <2>2, OutcomesAreRuns
<1>3. call \in SyncCalls /\ call.leader = t /\ call.event /\ call.outcome = run[t]
  BY <1>2, OutcomesAreRuns DEF SyncCalls
<1> HIDE DEF call
<1>4. /\ DOMAIN inflight' = DOMAIN inflight /\ inflight'[key[t]] = call
      /\ \A x \in DOMAIN inflight \ {key[t]} : inflight'[x] = inflight[x]
      /\ inflight' = [x \in DOMAIN inflight' |-> inflight'[x]]
  BY <1>1, <1>2
<1>5. TypeInv'
  <2>1. inflight' \in [DOMAIN inflight' -> SyncCalls]
    <3>1. \A x \in DOMAIN inflight' : inflight'[x] \in SyncCalls
      BY <1>3, <1>4 DEF RunsInv, TypeInv, GateTypeOK
    <3>2. QED
      BY <1>4, <3>1
  <2>2. stage' \in [Threads -> Stages]
    BY <1>1 DEF RunsInv, TypeInv, GateTypeOK, Stages
  <2>3. got' \in [Threads -> Outcomes \cup {Nobody}]
    BY <1>1, <1>2, OutcomesAreRuns DEF RunsInv, TypeInv, GateTypeOK
  <2>4. QED
    BY <1>1, <1>4, <2>1, <2>2, <2>3 DEF RunsInv, TypeInv, GateTypeOK
<1>6. \A s \in Threads \ {t} :
        /\ Leads(s) => stage'[s] = stage[s] /\ got'[s] = got[s]
                       /\ key[s] # key[t]
        /\ Leads(s)' <=> Leads(s)
        /\ stage'[s] # "out" <=> stage[s] # "out"
        /\ stage'[s] = "waiting" => stage[s] = "waiting" /\ key[s] # key[t]
  <2>1. \A s \in Threads \ {t} : Leads(s) => key[s] # key[t]
    BY <1>1, OneLeader
  <2>2. QED
    BY <1>1, <2>1 DEF Followers, Leads
<1>7. stage'[t] = "published" /\ Leads(t)' /\ got'[t] = run[t]
  BY <1>1 DEF Leads
<1>8. Registered'
  <2>1. \A s \in Threads : stage'[s] # "out" => key'[s] \in Keys
    BY <1>1, <1>2, <1>6 DEF RunsInv, Registered
  <2>2. ASSUME NEW s \in Threads, Leads(s)'
        PROVE  /\ key'[s] \in DOMAIN inflight'
               /\ inflight'[key'[s]].leader = s
               /\ inflight'[key'[s]].event <=> stage'[s] = "published"
               /\ stage'[s] = "published" => got'[s] = run'[s]
               /\ inflight'[key'[s]].event =>
                    inflight'[key'[s]].outcome = run'[s]
    <3>1. CASE s = t
      BY <1>1, <1>2, <1>3, <1>4, <1>7, <3>1
    <3>2. CASE s # t
      BY <1>1, <1>4, <1>6, <2>2, <3>2 DEF RunsInv, Registered
    <3>3. QED
      BY <3>1, <3>2
  <2>3. ASSUME NEW k \in DOMAIN inflight'
        PROVE  /\ stage'[inflight'[k].leader] \in {"leading", "published"}
               /\ key'[inflight'[k].leader] = k
    <3>1. inflight'[k].leader = inflight[k].leader
      BY <1>2, <1>3, <1>4
    <3>2. /\ inflight[k].leader \in Threads
          /\ Leads(inflight[k].leader) /\ key[inflight[k].leader] = k
      BY <1>4, SyncCallParts DEF RunsInv, Registered
    <3>3. Leads(inflight[k].leader) => stage'[inflight[k].leader] \in {"leading", "published"}
      BY <1>6, <1>7, <3>2 DEF Leads
    <3>4. QED
      BY <1>1, <3>1, <3>2, <3>3 DEF Leads
  <2>4. QED
    BY <2>1, <2>2, <2>3 DEF Registered, Leads
<1>9. Waits'
  <2>1. ASSUME NEW s \in Threads, stage'[s] = "waiting"
        PROVE  key'[s] \in DOMAIN inflight' /\ ~ inflight'[key'[s]].event
    <3>1. s # t
      BY <1>7, <2>1
    <3>2. stage[s] = "waiting" /\ key[s] # key[t]
      BY <1>6, <2>1, <3>1
    <3>3. key[s] \in DOMAIN inflight /\ ~ inflight[key[s]].event
      BY <3>2 DEF RunsInv, Waits
    <3>4. QED
      BY <1>1, <1>4, <3>2, <3>3
  <2>2. QED
    BY <2>1 DEF Waits
<1>10. Newer'
  BY <1>1, <1>6 DEF RunsInv, Newer
<1>11. Taken'
  <2>1. ASSUME NEW s \in Threads, stage'[s] = "released"
        PROVE  got'[s] \in 1 .. MaxRuns /\ since'[s] < got'[s]
    <3>1. CASE s \in Followers(t)
      <4>1. since[s] <= retired[key[t]] /\ got'[s] = run[t]
        BY <1>1, <3>1 DEF RunsInv, Newer, Followers
      <4>2. /\ since[s] \in 0 .. MaxRuns /\ retired[key[t]] \in 0 .. MaxRuns
            /\ MaxRuns \in Nat
        BY <1>2, OutcomesAreRuns DEF RunsInv, TypeInv
      <4>3. QED
        BY <1>1, <1>2, <4>1, <4>2
    <3>2. CASE s \notin Followers(t)
      <4>1. s # t
        BY <1>7, <2>1
      <4>2. stage[s] = "released" /\ got'[s] = got[s]
        BY <1>1, <2>1, <3>2, <4>1
      <4>3. QED
        BY <1>1, <4>2 DEF RunsInv, Taken
    <3>3. QED
      BY <3>1, <3>2
  <2>2. QED
    BY <1>1, <2>1 DEF RunsInv, Taken, FreshAfterLeader
<1>12. QED
  BY <1>5, <1>8, <1>9, <1>10, <1>11 DEF RunsInv

\* What returning does.
LEMMA ReturnMoves ==
  ASSUME TypeInv, NEW t \in Threads, Return(t), NEW o \in 0 .. MaxRuns,
         result' = [result EXCEPT ![t] = o]
  PROVE  /\ stage' \in [Threads -> Stages]
         /\ key' \in [Threads -> Keys \cup {Nobody}]
         /\ got' \in [Threads -> Outcomes \cup {Nobody}]
         /\ result' \in [Threads -> 0 .. MaxRuns]
         /\ stage'[t] = "out" /\ result'[t] = o
         /\ \A s \in Threads \ {t} :
              /\ stage'[s] = stage[s] /\ key'[s] = key[s] /\ got'[s] = got[s]
              /\ result'[s] = result[s]
BY DEF TypeInv, GateTypeOK, Return, Stages

LEMMA LeaderReturnsSound ==
  ASSUME RunsInv, NEW t \in Threads, LeaderReturns(t)
  PROVE  RunsInv'
<1>1. /\ stage[t] = "published" /\ Return(t)
      /\ inflight' = [x \in DOMAIN inflight \ {key[t]} |-> inflight[x]]
      /\ result' = [result EXCEPT ![t] = got[t]]
      /\ retired' = [retired EXCEPT ![key[t]] = run[t]]
      /\ run' = [run EXCEPT ![t] = 0]
      /\ UNCHANGED <<runs, since>>
  BY DEF LeaderReturns, Pop
<1>2. /\ Leads(t) /\ key[t] \in Keys /\ key[t] \in DOMAIN inflight
      /\ inflight[key[t]].leader = t /\ inflight[key[t]].event
      /\ got[t] = run[t] /\ retired[key[t]] < run[t] /\ run[t] <= runs
      /\ since[t] <= retired[key[t]]
  BY <1>1 DEF RunsInv, Registered, Newer, Leads
<1>3. /\ run[t] \in 0 .. MaxRuns /\ retired[key[t]] \in 0 .. MaxRuns
      /\ since[t] \in 0 .. MaxRuns /\ runs \in 0 .. MaxRuns /\ MaxRuns \in Nat
  BY <1>2, OutcomesAreRuns DEF RunsInv, TypeInv
<1>4. /\ stage' \in [Threads -> Stages]
      /\ key' \in [Threads -> Keys \cup {Nobody}]
      /\ got' \in [Threads -> Outcomes \cup {Nobody}]
      /\ result' \in [Threads -> 0 .. MaxRuns]
      /\ stage'[t] = "out" /\ result'[t] = run[t]
      /\ \A s \in Threads \ {t} :
           /\ stage'[s] = stage[s] /\ key'[s] = key[s] /\ got'[s] = got[s]
           /\ result'[s] = result[s]
  BY <1>1, <1>2, <1>3, ReturnMoves DEF RunsInv
<1>5. /\ DOMAIN inflight' = DOMAIN inflight \ {key[t]}
      /\ \A x \in DOMAIN inflight' : inflight'[x] = inflight[x]
      /\ inflight' = [x \in DOMAIN inflight' |-> inflight'[x]]
  BY <1>1
<1>6. /\ \A s \in Threads \ {t} : run'[s] = run[s]
      /\ retired'[key[t]] = run[t]
      /\ \A x \in Keys \ {key[t]} : retired'[x] = retired[x]
  BY <1>1, <1>2 DEF RunsInv, TypeInv
<1>7. TypeInv'
  <2>1. DOMAIN inflight' \subseteq Keys /\ inflight' \in [DOMAIN inflight' -> SyncCalls]
    BY <1>5 DEF RunsInv, TypeInv, GateTypeOK
  <2>2. run' \in [Threads -> 0 .. MaxRuns]
    <3>1. 0 \in 0 .. MaxRuns
      BY <1>3
    <3>2. QED
      BY <1>1, <3>1 DEF RunsInv, TypeInv
  <2>3. retired' \in [Keys -> 0 .. MaxRuns]
    BY <1>1, <1>3 DEF RunsInv, TypeInv
  <2>4. QED
    BY <1>1, <1>4, <2>1, <2>2, <2>3 DEF RunsInv, TypeInv, GateTypeOK
<1>8. \A s \in Threads \ {t} : Leads(s) => key[s] # key[t]
  BY <1>2, OneLeader
<1>9. Registered'
  <2>1. \A s \in Threads : stage'[s] # "out" => key'[s] \in Keys
    BY <1>4 DEF RunsInv, Registered
  <2>2. ASSUME NEW s \in Threads, Leads(s)'
        PROVE  /\ key'[s] \in DOMAIN inflight'
               /\ inflight'[key'[s]].leader = s
               /\ inflight'[key'[s]].event <=> stage'[s] = "published"
               /\ stage'[s] = "published" => got'[s] = run'[s]
               /\ inflight'[key'[s]].event =>
                    inflight'[key'[s]].outcome = run'[s]
    <3>1. s # t /\ Leads(s)
      BY <1>4, <2>2 DEF Leads
    <3>2. QED
      BY <1>4, <1>5, <1>6, <1>8, <3>1 DEF RunsInv, Registered
  <2>3. ASSUME NEW k \in DOMAIN inflight'
        PROVE  /\ stage'[inflight'[k].leader] \in {"leading", "published"}
               /\ key'[inflight'[k].leader] = k
    <3>1. /\ inflight[k].leader \in Threads \ {t}
          /\ Leads(inflight[k].leader) /\ key[inflight[k].leader] = k
          /\ inflight'[k] = inflight[k]
      BY <1>5, SyncCallParts DEF RunsInv, Registered
    <3>2. QED
      BY <1>4, <3>1 DEF Leads
  <2>4. QED
    BY <2>1, <2>2, <2>3 DEF Registered, Leads
<1>10. Waits'
  <2>1. ASSUME NEW s \in Threads, stage'[s] = "waiting"
        PROVE  key'[s] \in DOMAIN inflight' /\ ~ inflight'[key'[s]].event
    <3>1. s # t /\ stage[s] = "waiting" /\ key'[s] = key[s]
      BY <1>4, <2>1
    <3>2. key[s] \in DOMAIN inflight /\ ~ inflight[key[s]].event
      BY <3>1 DEF RunsInv, Waits
    <3>3. key[s] # key[t]
      BY <1>2, <3>2
    <3>4. QED
      BY <1>5, <3>1, <3>2, <3>3
  <2>2. QED
    BY <2>1 DEF Waits
<1>11. Newer'
  <2>1. \A k \in Keys : retired'[k] <= runs'
    BY <1>1, <1>2, <1>6 DEF RunsInv, Newer
  <2>2. ASSUME NEW s \in Threads, Leads(s)'
        PROVE  retired'[key'[s]] < run'[s] /\ run'[s] <= runs'
    <3>1. s # t /\ Leads(s) /\ key'[s] = key[s] /\ key[s] \in Keys
      BY <1>4, <2>2 DEF RunsInv, Registered, Leads
    <3>2. QED
      BY <1>1, <1>6, <1>8, <3>1 DEF RunsInv, Newer
  <2>3. ASSUME NEW s \in Threads, stage'[s] # "out"
        PROVE  since'[s] <= retired'[key'[s]]
    <3>1. /\ s # t /\ stage[s] # "out" /\ key'[s] = key[s] /\ key[s] \in Keys
          /\ since[s] <= retired[key[s]]
      BY <1>4, <2>3 DEF RunsInv, Registered, Newer
    <3>2. since[s] \in 0 .. MaxRuns
      BY DEF RunsInv, TypeInv
    <3>3. QED
      BY <1>1, <1>2, <1>3, <1>6, <3>1, <3>2
  <2>4. QED
    BY <2>1, <2>2, <2>3 DEF Newer, Leads
<1>12. Taken'
  <2>1. since[t] < run[t]
    BY <1>2, <1>3
  <2>2. QED
    BY <1>1, <1>4, <2>1 DEF RunsInv, Taken, FreshAfterLeader
<1>13. QED
  BY <1>7, <1>9, <1>10, <1>11, <1>12 DEF RunsInv

LEMMA FollowerReturnsSound ==
  ASSUME RunsInv, NEW t \in Threads, FollowerReturns(t)
  PROVE  RunsInv'
<1>1. /\ stage[t] = "released" /\ Return(t) /\ UNCHANGED inflight
      /\ result' = [result EXCEPT ![t] = got[t]]
      /\ UNCHANGED <<runs, run, retired, since>>
  BY DEF FollowerReturns, Leave
<1>2. got[t] \in 1 .. MaxRuns /\ since[t] < got[t]
  BY <1>1 DEF RunsInv, Taken
<1>3. /\ stage' \in [Threads -> Stages]
      /\ key' \in [Threads -> Keys \cup {Nobody}]
      /\ got' \in [Threads -> Outcomes \cup {Nobody}]
      /\ result' \in [Threads -> 0 .. MaxRuns]
      /\ stage'[t] = "out" /\ result'[t] = got[t]
      /\ \A s \in Threads \ {t} :
           /\ stage'[s] = stage[s] /\ key'[s] = key[s] /\ got'[s] = got[s]
           /\ result'[s] = result[s]
  <2>1. got[t] \in 0 .. MaxRuns
    BY <1>2
  <2>2. QED
    BY <1>1, <2>1, ReturnMoves DEF RunsInv
<1>4. TypeInv'
  BY <1>1, <1>3 DEF RunsInv, TypeInv, GateTypeOK
<1>5. \A x \in DOMAIN inflight : inflight[x].leader \in Threads \ {t}
  BY <1>1, SyncCallParts DEF RunsInv, Registered, Leads
<1>6. Registered'
  BY <1>1, <1>3, <1>5 DEF RunsInv, Registered, Leads
<1>7. Waits'
  BY <1>1, <1>3 DEF RunsInv, Waits
<1>8. Newer'
  BY <1>1, <1>3 DEF RunsInv, Newer, Leads
<1>9. Taken'
  BY <1>1, <1>2, <1>3 DEF RunsInv, Taken, FreshAfterLeader
<1>10. QED
  BY <1>4, <1>6, <1>7, <1>8, <1>9 DEF RunsInv

LEMMA RunsStep == RunsInv /\ [Next]_vars => RunsInv'
<1> SUFFICES ASSUME RunsInv, [Next]_vars
             PROVE  RunsInv'
  OBVIOUS
<1>1. ASSUME NEW t \in Threads, NEW k \in Keys, Starts(t, k) \/ Joins(t, k)
      PROVE  RunsInv'
  BY <1>1, StartsSound, JoinsSound
<1>2. ASSUME NEW t \in Threads, Step(t)
      PROVE  RunsInv'
  BY <1>2, EndsSound, LeaderReturnsSound, FollowerReturnsSound DEF Step
<1>3. CASE UNCHANGED vars
  BY <1>3
     DEF RunsInv, TypeInv, GateTypeOK, Registered, Waits, Newer, Taken,
         FreshAfterLeader, Leads, vars, gateVars
<1>4. QED
  BY <1>1, <1>2, <1>3 DEF Next, AllDone

LEMMA RunsAlways == Spec => []RunsInv
BY RunsInit, RunsStep, PTL DEF Spec

-----------------------------------------------------------------------------
\* The gate's variables keep their types.
THEOREM TypeCorrect == Spec => []GateTypeOK
<1>1. RunsInv => GateTypeOK
  BY DEF RunsInv, TypeInv
<1>2. QED
  BY <1>1, RunsAlways, PTL

\* No two runs of fn for one key overlap, and whoever waits has a leader that
\* is still to set its event (_singleflight.py:46-73).
THEOREM OneRun == Spec => []RunsDoNotOverlap
<1>1. RunsInv => RunsDoNotOverlap
  <2> SUFFICES ASSUME RunsInv, NEW t \in Threads
               PROVE  /\ stage[t] = "leading" => \A s \in Threads \ {t} :
                           Leads(s) => key[s] # key[t]
                      /\ stage[t] = "waiting" => \E s \in Threads :
                           stage[s] = "leading" /\ key[s] = key[t]
    BY DEF RunsDoNotOverlap, Leads
  <2>1. stage[t] = "leading" => \A s \in Threads \ {t} :
          Leads(s) => key[s] # key[t]
    BY OneLeader DEF Leads
  <2>2. ASSUME stage[t] = "waiting"
        PROVE  \E s \in Threads : stage[s] = "leading" /\ key[s] = key[t]
    <3> DEFINE s == inflight[key[t]].leader
    <3>1. key[t] \in DOMAIN inflight /\ ~ inflight[key[t]].event
      BY <2>2 DEF RunsInv, Waits
    <3>2. s \in Threads /\ Leads(s) /\ key[s] = key[t]
      BY <3>1, SyncCallParts DEF RunsInv, Registered
    <3>3. stage[s] = "leading"
      BY <3>1, <3>2 DEF RunsInv, Registered, Leads
    <3>4. QED
      BY <3>2, <3>3
  <2>3. QED
    BY <2>1, <2>2
<1>2. QED
  BY <1>1, RunsAlways, PTL

\* A call that begins after a run's leader has returned does not get that
\* run's outcome (_singleflight.py:62-66).
THEOREM NoRetiredOutcome == Spec => []FreshAfterLeader
<1>1. RunsInv => FreshAfterLeader
  BY DEF RunsInv, Taken
<1>2. QED
  BY <1>1, RunsAlways, PTL

-----------------------------------------------------------------------------
(* The gate is what Coalescing promises.  What its steps need besides the  *)
(* invariant above: a run is led by one thread, and what a follower took   *)
(* is the outcome of a run that has ended.                                 *)

Numbered ==
  /\ \A t \in Threads : stage[t] = "out" => key[t] = Nobody
  /\ \A s, t \in Threads : Leads(s) /\ Leads(t) /\ run[s] = run[t] => s = t
  /\ \A t \in Threads : stage[t] = "released" =>
       /\ got[t] <= runs
       /\ \A s \in Threads : stage[s] = "leading" => run[s] # got[t]

LEMMA NumberedStep == RunsInv /\ Numbered /\ [Next]_vars => Numbered'
<1> SUFFICES ASSUME RunsInv, Numbered, [Next]_vars
             PROVE  Numbered'
  OBVIOUS
<1>0. /\ runs \in Nat /\ \A t \in Threads : run[t] \in Nat
      /\ \A t \in Threads : Leads(t) => run[t] <= runs
      /\ \A t \in Threads : stage[t] = "released" => got[t] \in Nat
  BY OutcomesAreRuns DEF RunsInv, TypeInv, Newer, Taken
<1>1. ASSUME NEW t \in Threads, NEW k \in Keys, Starts(t, k)
      PROVE  Numbered'
  <2>1. /\ runs' = runs + 1 /\ run'[t] = runs + 1
        /\ stage'[t] = "leading"
        /\ \A s \in Threads \ {t} :
             /\ stage'[s] = stage[s] /\ key'[s] = key[s]
             /\ run'[s] = run[s] /\ got'[s] = got[s]
    BY <1>1 DEF Starts, Lead, Inside, RunsInv, TypeInv, GateTypeOK
  <2>2. QED
    BY <1>0, <2>1 DEF Numbered, Leads
<1>2. ASSUME NEW t \in Threads, NEW k \in Keys, Joins(t, k)
      PROVE  Numbered'
  <2>1. /\ k \in DOMAIN inflight /\ stage[t] = "out"
        /\ runs' = runs /\ run' = run
        /\ stage'[t] \in {"released", "waiting"}
        /\ stage'[t] = "released" =>
             inflight[k].event /\ got'[t] = inflight[k].outcome
        /\ \A s \in Threads \ {t} :
             stage'[s] = stage[s] /\ key'[s] = key[s] /\ got'[s] = got[s]
    BY <1>2 DEF Joins, Follow, Inside, RunsInv, TypeInv, GateTypeOK
  <2>2. ASSUME stage'[t] = "released"
        PROVE  /\ got'[t] <= runs
               /\ \A s \in Threads : stage[s] = "leading" => run[s] # got'[t]
    <3> DEFINE leader == inflight[k].leader
    <3>1. /\ leader \in Threads /\ Leads(leader) /\ key[leader] = k
          /\ stage[leader] = "published" /\ got'[t] = run[leader]
      BY <2>1, <2>2, SyncCallParts DEF RunsInv, Registered
    <3>2. QED
      BY <1>0, <3>1 DEF Numbered, Leads
  <2>3. QED
    BY <2>1, <2>2 DEF Numbered, Leads
<1>3. ASSUME NEW t \in Threads, Ends(t)
      PROVE  Numbered'
  <2>1. /\ stage[t] = "leading" /\ stage'[t] = "published"
        /\ runs' = runs /\ run' = run /\ key' = key
        /\ \A s \in Threads : stage'[s] = "out" => stage[s] = "out"
        /\ \A s \in Threads : Leads(s)' <=> Leads(s)
        /\ \A s \in Threads : stage'[s] = "leading" =>
             s # t /\ stage[s] = "leading"
        /\ \A s \in Threads : stage'[s] = "released" =>
             \/ stage[s] = "released" /\ got'[s] = got[s]
             \/ got'[s] = run[t]
    BY <1>3 DEF Ends, Publish, Followers, Leads, RunsInv, TypeInv, GateTypeOK
  <2>2. QED
    BY <1>0, <2>1 DEF Numbered, Leads
<1>4. ASSUME NEW t \in Threads, LeaderReturns(t) \/ FollowerReturns(t)
      PROVE  Numbered'
  <2>1. /\ runs' = runs /\ stage'[t] = "out" /\ key'[t] = Nobody
        /\ \A s \in Threads \ {t} :
             /\ stage'[s] = stage[s] /\ key'[s] = key[s]
             /\ run'[s] = run[s] /\ got'[s] = got[s]
    BY <1>4 DEF LeaderReturns, FollowerReturns, Pop, Leave, Return, RunsInv,
                TypeInv, GateTypeOK
  <2>2. QED
    BY <2>1 DEF Numbered, Leads
<1>5. CASE UNCHANGED vars
  BY <1>5 DEF vars, gateVars, Numbered, Leads
<1>6. QED
  BY <1>1, <1>2, <1>3, <1>4, <1>5 DEF Next, Step, AllDone

LEMMA NumberedAlways == Spec => [](RunsInv /\ Numbered)
<1>1. Init => RunsInv /\ Numbered
  BY RunsInit DEF Init, GateInit, Numbered, Leads
<1>2. RunsInv /\ Numbered /\ [Next]_vars => (RunsInv /\ Numbered)'
  BY RunsStep, NumberedStep
<1>3. QED
  BY <1>1, <1>2, PTL DEF Spec

\* What the callers see of the gate.
Running == {run[t] : t \in {s \in Threads : stage[s] = "leading"}}
OpenRun(k) == IF k \in DOMAIN inflight THEN run[inflight[k].leader] ELSE 0
RunOf(t) == CASE stage[t] = "out" -> 0
              [] stage[t] \in {"leading", "published"} -> run[t]
              [] stage[t] = "waiting" -> run[inflight[key[t]].leader]
              [] stage[t] = "released" -> got[t]
Open == [k \in Keys |-> OpenRun(k)]
Member == [t \in Threads |-> RunOf(t)]

\* Where a registered call's leader is.
LEMMA LeaderOf ==
  ASSUME RunsInv, NEW k \in DOMAIN inflight
  PROVE  LET s == inflight[k].leader
         IN  /\ k \in Keys /\ s \in Threads /\ Leads(s) /\ key[s] = k
             /\ run[s] \in Nat /\ run[s] # 0
             /\ inflight[k].event <=> stage[s] = "published"
             /\ inflight[k].event => inflight[k].outcome = run[s]
<1>1. k \in Keys /\ inflight[k].leader \in Threads
  BY SyncCallParts DEF RunsInv, TypeInv, GateTypeOK
<1>2. /\ Leads(inflight[k].leader) /\ key[inflight[k].leader] = k
      /\ retired[k] < run[inflight[k].leader]
  BY <1>1 DEF RunsInv, Registered, Newer
<1>3. retired[k] \in Nat /\ run[inflight[k].leader] \in Nat
  BY <1>1, OutcomesAreRuns DEF RunsInv, TypeInv
<1>4. QED
  BY <1>1, <1>2, <1>3 DEF RunsInv, Registered

\* A thread takes part in the same run after a step that leaves its stage,
\* and what that stage has it look at, as they were.
LEMMA SameRun ==
  ASSUME RunsInv, NEW s \in Threads, stage'[s] = stage[s],
         Leads(s) => run'[s] = run[s],
         stage[s] = "waiting" => run'[inflight'[key'[s]].leader]
                                   = run[inflight[key[s]].leader],
         stage[s] = "released" => got'[s] = got[s]
  PROVE  RunOf(s)' = RunOf(s)
<1>1. stage[s] \in Stages
  BY DEF RunsInv, TypeInv, GateTypeOK
<1>2. CASE stage[s] = "out"
  BY <1>2 DEF RunOf
<1>3. CASE stage[s] \in {"leading", "published"}
  BY <1>3 DEF RunOf, Leads
<1>4. CASE stage[s] = "waiting"
  BY <1>4 DEF RunOf
<1>5. CASE stage[s] = "released"
  BY <1>5 DEF RunOf
<1>6. QED
  BY <1>1, <1>2, <1>3, <1>4, <1>5 DEF Stages

\* Registering a call starts a run.
LEMMA StartsAsPromised ==
  ASSUME RunsInv, Numbered, NEW t \in Threads, NEW k \in Keys, Starts(t, k)
  PROVE  Promise!Start(t, k)
<1>1. /\ stage[t] = "out" /\ key[t] = Nobody /\ k \notin DOMAIN inflight
      /\ runs' = runs + 1 /\ run'[t] = runs' /\ stage'[t] = "leading"
      /\ key' = [key EXCEPT ![t] = k]
      /\ result' = [result EXCEPT ![t] = 0]
      /\ DOMAIN inflight' = DOMAIN inflight \cup {k}
      /\ inflight'[k].leader = t
      /\ \A x \in DOMAIN inflight : inflight'[x] = inflight[x]
      /\ \A s \in Threads \ {t} :
           /\ stage'[s] = stage[s] /\ key'[s] = key[s]
           /\ run'[s] = run[s] /\ got'[s] = got[s]
  BY DEF Starts, Lead, Inside, Enters, RunsInv, TypeInv, GateTypeOK, Numbered
<1>2. \A x \in DOMAIN inflight : inflight[x].leader \in Threads \ {t}
  BY <1>1, LeaderOf DEF Leads
<1>3. OpenRun(k) = 0 /\ Open' = [Open EXCEPT ![k] = runs']
  <2>1. OpenRun(k)' = runs'
    BY <1>1 DEF OpenRun
  <2>2. \A x \in Keys \ {k} : OpenRun(x)' = OpenRun(x)
    BY <1>1, <1>2 DEF OpenRun
  <2>3. OpenRun(k) = 0
    BY <1>1 DEF OpenRun
  <2> HIDE DEF OpenRun
  <2>4. QED
    BY <2>1, <2>2, <2>3 DEF Open
<1>4. RunOf(t) = 0 /\ Member' = [Member EXCEPT ![t] = runs']
  <2>1. RunOf(t)' = runs'
    BY <1>1 DEF RunOf
  <2>2. ASSUME NEW s \in Threads \ {t}
        PROVE  RunOf(s)' = RunOf(s)
    <3>1. stage[s] = "waiting" => key[s] \in DOMAIN inflight
      BY DEF RunsInv, Waits
    <3>2. stage[s] = "waiting" => run'[inflight'[key'[s]].leader]
                                    = run[inflight[key[s]].leader]
      BY <1>1, <1>2, <3>1
    <3>3. QED
      BY <1>1, <3>2, SameRun
  <2>3. RunOf(t) = 0
    BY <1>1 DEF RunOf
  <2> HIDE DEF RunOf
  <2>4. QED
    BY <2>1, <2>2, <2>3 DEF Member
<1>5. Running' = Running \cup {runs'}
  BY <1>1 DEF Running
<1>6. Open[k] = 0 /\ Member[t] = 0
  BY <1>3, <1>4 DEF Open, Member
<1> HIDE DEF Open, Member, Running
<1>7. Promise!Takes(t, k, runs')
  BY <1>1, <1>4, <1>6 DEF Promise!Takes, Member, RunOf
<1>8. QED
  BY <1>1, <1>3, <1>5, <1>6, <1>7
     DEF Promise!Start, Open, OpenRun, Running

\* Finding a call joins its run, though that may have ended.
LEMMA JoinsAsPromised ==
  ASSUME RunsInv, Numbered, NEW t \in Threads, NEW k \in Keys, Joins(t, k)
  PROVE  Promise!Join(t, k)
<1>1. /\ stage[t] = "out" /\ key[t] = Nobody /\ k \in DOMAIN inflight
      /\ key' = [key EXCEPT ![t] = k]
      /\ result' = [result EXCEPT ![t] = 0]
      /\ UNCHANGED <<inflight, runs, run>>
      /\ stage'[t] = IF inflight[k].event THEN "released" ELSE "waiting"
      /\ key'[t] = k /\ got'[t] = inflight[k].outcome
      /\ \A s \in Threads \ {t} :
           stage'[s] = stage[s] /\ key'[s] = key[s] /\ got'[s] = got[s]
  BY DEF Joins, Follow, Inside, Enters, RunsInv, TypeInv, GateTypeOK, Numbered
<1>2. /\ run[inflight[k].leader] # 0
      /\ inflight[k].event => inflight[k].outcome = run[inflight[k].leader]
      /\ inflight[k].event \in BOOLEAN
  BY <1>1, LeaderOf, SyncCallParts DEF RunsInv
<1>3. Open' = Open /\ Open[k] = run[inflight[k].leader]
  BY <1>1 DEF Open, OpenRun
<1>4. Member[t] = 0 /\ Member' = [Member EXCEPT ![t] = Open[k]]
  <2>1. RunOf(t)' = run[inflight[k].leader] /\ RunOf(t) = 0
    BY <1>1, <1>2 DEF RunOf
  <2>2. \A s \in Threads \ {t} : RunOf(s)' = RunOf(s)
    BY <1>1 DEF RunOf
  <2> HIDE DEF RunOf
  <2>3. QED
    BY <1>3, <2>1, <2>2 DEF Member
<1>5. Running' = Running
  BY <1>1 DEF Running
<1> HIDE DEF Open, Member, Running
<1>6. Promise!Takes(t, k, Open[k])
  BY <1>1, <1>4 DEF Promise!Takes, Member, RunOf
<1>7. QED
  BY <1>1, <1>2, <1>3, <1>5, <1>6
     DEF Promise!Join, Open, OpenRun, Running

\* Publishing ends the run and leaves it open.
LEMMA EndsAsPromised ==
  ASSUME RunsInv, Numbered, NEW t \in Threads, Ends(t)
  PROVE  Promise!End(run[t]) /\ run[t] \in Running
<1>1. /\ stage[t] = "leading" /\ Leads(t) /\ stage'[t] = "published"
      /\ UNCHANGED <<key, runs, run, result>>
      /\ inflight' = [inflight EXCEPT ![key[t]] =
                        [leader |-> t, event |-> TRUE, outcome |-> run[t]]]
      /\ \A s \in Threads \ {t} :
           IF s \in Followers(t)
             THEN stage[s] = "waiting" /\ stage'[s] = "released"
                  /\ key[s] = key[t] /\ got'[s] = run[t]
             ELSE /\ stage'[s] = stage[s] /\ got'[s] = got[s]
                  /\ stage[s] = "waiting" => key[s] # key[t]
  BY DEF Ends, Publish, Followers, Leads, RunsInv, TypeInv, GateTypeOK
<1>2. /\ key[t] \in DOMAIN inflight /\ inflight[key[t]].leader = t
      /\ DOMAIN inflight' = DOMAIN inflight
      /\ \A x \in DOMAIN inflight : inflight'[x].leader = inflight[x].leader
  BY <1>1 DEF RunsInv, Registered
<1>3. Open' = Open
  BY <1>1, <1>2 DEF Open, OpenRun
<1>4. Member' = Member
  <2>1. ASSUME NEW s \in Threads
        PROVE  RunOf(s)' = RunOf(s)
    <3>1. CASE s = t
      BY <1>1, <3>1 DEF RunOf
    <3>2. CASE s # t /\ s \in Followers(t)
      BY <1>1, <1>2, <3>2 DEF RunOf
    <3>3. CASE s # t /\ s \notin Followers(t)
      <4>1. stage[s] = "waiting" => key[s] \in DOMAIN inflight
        BY DEF RunsInv, Waits
      <4>2. stage[s] = "waiting" => run'[inflight'[key'[s]].leader]
                                      = run[inflight[key[s]].leader]
        BY <1>1, <1>2, <4>1
      <4>3. QED
        BY <1>1, <3>3, <4>2, SameRun
    <3>4. QED
      BY <3>1, <3>2, <3>3
  <2> HIDE DEF RunOf
  <2>2. QED
    BY <2>1 DEF Member
<1>5. Running' = Running \ {run[t]} /\ run[t] \in Running
  <2>1. \A s \in Threads : stage'[s] = "leading" <=>
          stage[s] = "leading" /\ s # t
    BY <1>1
  <2>2. \A s \in Threads : stage[s] = "leading" /\ run[s] = run[t] => s = t
    BY <1>1 DEF Numbered, Leads
  <2>3. QED
    BY <1>1, <2>1, <2>2 DEF Running
<1> HIDE DEF Open, Member, Running
<1>6. QED
  BY <1>1, <1>3, <1>4, <1>5
     DEF Promise!End, Open, OpenRun, Member, RunOf, Running

\* Whoever returns does so with the run it took part in; a leader closes it.
LEMMA ReturnsAsPromised ==
  ASSUME RunsInv, Numbered, NEW t \in Threads,
         LeaderReturns(t) \/ FollowerReturns(t)
  PROVE  Promise!Return(t)
<1>1. /\ stage[t] \in {"published", "released"}
      /\ stage'[t] = "out" /\ key' = [key EXCEPT ![t] = Nobody]
      /\ result' = [result EXCEPT ![t] = got[t]] /\ runs' = runs
      /\ \A s \in Threads \ {t} :
           /\ stage'[s] = stage[s] /\ key'[s] = key[s]
           /\ run'[s] = run[s] /\ got'[s] = got[s]
  BY DEF LeaderReturns, FollowerReturns, Pop, Leave, Return, RunsInv, TypeInv,
         GateTypeOK
<1>2. /\ Running' = Running /\ got[t] \notin Running /\ got[t] # 0
      /\ RunOf(t) = got[t]
  <2>1. Running' = Running
    BY <1>1 DEF Running
  <2>2. CASE stage[t] = "released"
    BY <1>1, <2>1, <2>2 DEF RunsInv, Taken, Numbered, Running, RunOf
  <2>3. CASE stage[t] = "published"
    <3>1. got[t] = run[t] /\ key[t] \in DOMAIN inflight
          /\ inflight[key[t]].leader = t
      BY <2>3 DEF RunsInv, Registered, Leads
    <3>2. run[t] # 0
      BY <3>1, LeaderOf
    <3>3. run[t] \notin Running
      BY <2>3 DEF Running, Numbered, Leads
    <3>4. QED
      BY <2>1, <2>3, <3>1, <3>2, <3>3 DEF RunOf
  <2>4. QED
    BY <1>1, <2>2, <2>3
<1>3. ASSUME \A s \in Threads \ {t} : RunOf(s)' = RunOf(s)
      PROVE  Member' = [Member EXCEPT ![t] = 0] /\ Member[t] = got[t]
  <2>1. RunOf(t)' = 0
    BY <1>1 DEF RunOf
  <2>2. Member[t] = got[t]
    BY <1>2 DEF Member
  <2> HIDE DEF RunOf
  <2>3. QED
    BY <1>3, <2>1, <2>2 DEF Member
<1>4. CASE LeaderReturns(t)
  <2>1. /\ stage[t] = "published" /\ Leads(t) /\ got[t] = run[t]
        /\ key[t] \in DOMAIN inflight /\ inflight[key[t]].leader = t
        /\ inflight' = [x \in DOMAIN inflight \ {key[t]} |-> inflight[x]]
    BY <1>4 DEF LeaderReturns, Pop, RunsInv, Registered, Leads
  <2>2. \A x \in DOMAIN inflight \ {key[t]} : inflight[x].leader \in Threads \ {t}
    BY <2>1, LeaderOf
  <2>3. \A s \in Threads \ {t} : RunOf(s)' = RunOf(s)
    <3>1. \A s \in Threads : stage[s] = "waiting" =>
            key[s] \in DOMAIN inflight \ {key[t]}
      <4>1. inflight[key[t]].event
        BY <2>1 DEF RunsInv, Registered
      <4>2. QED
        BY <4>1 DEF RunsInv, Waits
    <3>2. \A s \in Threads \ {t} : stage[s] = "waiting" =>
            run'[inflight'[key'[s]].leader] = run[inflight[key[s]].leader]
      BY <1>1, <2>1, <2>2, <3>1
    <3>3. QED
      BY <1>1, <3>2, SameRun
  <2>4. /\ key[t] \in Keys
        /\ Open' = [Open EXCEPT ![key[t]] = IF @ = got[t] THEN 0 ELSE @]
    <3>1. key[t] \in Keys /\ OpenRun(key[t]) = got[t]
      BY <2>1, LeaderOf DEF OpenRun
    <3>2. ASSUME NEW x \in Keys
          PROVE  OpenRun(x)' = IF x = key[t] THEN 0 ELSE OpenRun(x)
      BY <1>1, <2>1, <2>2 DEF OpenRun
    <3> HIDE DEF OpenRun
    <3>3. QED
      BY <3>1, <3>2 DEF Open
  <2> HIDE DEF Open, Member, Running
  <2>5. Promise!Leaves(t, got[t])
    BY <1>1, <1>2, <1>3, <2>3
       DEF Promise!Leaves, Member, RunOf, Running
  <2>6. QED
    BY <1>1, <1>2, <1>3, <2>3, <2>4, <2>5
       DEF Promise!Return, Promise!Closes, Promise!Leaves,
           Open, OpenRun, Member, RunOf, Running
<1>5. CASE FollowerReturns(t)
  <2>1. UNCHANGED <<inflight, run>>
    BY <1>5 DEF FollowerReturns, Leave
  <2>2. \A s \in Threads \ {t} : RunOf(s)' = RunOf(s)
    BY <1>1, <2>1, SameRun
  <2>3. Open' = Open
    BY <2>1 DEF Open, OpenRun
  <2> HIDE DEF Open, Member, Running
  <2>4. QED
    BY <1>1, <1>2, <1>3, <2>2, <2>3
       DEF Promise!Return, Promise!Closes, Promise!Leaves,
           Open, OpenRun, Member, RunOf, Running
<1>6. QED
  BY <1>4, <1>5

LEMMA PromisedStep == RunsInv /\ Numbered /\ [Next]_vars
                        => [Promise!Next]_(Promise!promiseVars)
<1> SUFFICES ASSUME RunsInv, Numbered, [Next]_vars
             PROVE  [Promise!Next]_(Promise!promiseVars)
  OBVIOUS
<1>1. ASSUME NEW t \in Threads, NEW k \in Keys, Starts(t, k)
      PROVE  Promise!Next
  BY <1>1, StartsAsPromised DEF Promise!Next
<1>2. ASSUME NEW t \in Threads, NEW k \in Keys, Joins(t, k)
      PROVE  Promise!Next
  BY <1>2, JoinsAsPromised DEF Promise!Next
<1>3. ASSUME NEW t \in Threads, Ends(t)
      PROVE  Promise!Next
  <2>1. Promise!End(run[t]) /\ run[t] \in Running
    BY <1>3, EndsAsPromised
  <2>2. \E r \in Running : Promise!End(r)
    BY <2>1 DEF Promise!End
  <2>3. QED
    BY <2>2 DEF Promise!Next, Running
<1>4. ASSUME NEW t \in Threads, LeaderReturns(t) \/ FollowerReturns(t)
      PROVE  Promise!Next
  BY <1>4, ReturnsAsPromised DEF Promise!Next
<1>5. CASE UNCHANGED vars
  BY <1>5 DEF vars, gateVars, Promise!promiseVars
<1>6. QED
  BY <1>1, <1>2, <1>3, <1>4, <1>5 DEF Next, Step, AllDone

\* Threads that call the gate see what Coalescing says and nothing else:
\* the lock, the event and the two steps a leader takes to leave
\* (_singleflight.py:46-73) do not show.
THEOREM GateKeepsPromise == Spec => KeepsPromise
<1>1. Init => Promise!Init
  BY DEF Init, GateInit, Promise!Init
<1>2. RunsInv /\ Numbered /\ [Next]_vars
        => [Promise!Next]_(Promise!promiseVars)
  BY PromisedStep
<1>3. QED
  BY <1>1, <1>2, NumberedAlways, PTL DEF Spec, KeepsPromise, Promise!Spec
=============================================================================
