---------------------------- MODULE ClientProofs ----------------------------
(***************************************************************************)
(* Proofs about Client, for any threads, requests and bounds.              *)
(***************************************************************************)
EXTENDS Client, TLAPS

-----------------------------------------------------------------------------
(* Control: where a thread is in its call, in the gate, and what it holds. *)

Busy(t) == pc[t] # "idle"
InCall == \A t \in Threads : Busy(t) => req[t] \in Requests

\* The thread's place in the gate is its place in the call.
StageOfCall ==
  \A t \in Threads :
    /\ stage[t] = "leading" <=>
         pc[t] \in {"sending", "served"} /\ req[t].coalesce
    /\ stage[t] \in {"published", "waiting", "released"} <=> pc[t] = "gate"

\* A thread inside the gate is there with its own call's key.
KeyOfCall == \A t \in Threads : stage[t] # "out" => key[t] = GateKey(t)

\* _inflight and the leaders name each other, and a registered call has its
\* leader's outcome once its event is set.
Registered ==
  /\ \A k \in DOMAIN inflight :
       LET call == inflight[k]
       IN  /\ key[call.leader] = k
           /\ stage[call.leader] = IF call.event THEN "published" ELSE "leading"
           /\ call.outcome = got[call.leader]
  /\ \A t \in Threads : stage[t] \in {"leading", "published"} =>
       key[t] \in DOMAIN inflight /\ inflight[key[t]].leader = t

\* A follower that waits has a leader that still runs fn.
WaitsForLeader ==
  \A t \in Threads : stage[t] = "waiting" =>
    key[t] \in DOMAIN inflight /\ ~ inflight[key[t]].event

\* Whoever goes on with a value or an exception has one.
HoldsOutcome ==
  \A t \in Threads :
    /\ pc[t] = "served" => reply[t] \in Nat
    /\ stage[t] \in {"published", "released"} => got[t] \in Nat \cup {Failed}
    /\ pc[t] = "settling" => result[t] \in Nat \cup {Failed}

Control == /\ InCall /\ StageOfCall /\ KeyOfCall
           /\ Registered /\ WaitsForLeader /\ HoldsOutcome

ControlInv == TypeOK /\ Control

\* Control holds before the first call.
LEMMA ControlInit == Init => ControlInv
BY ConstantTypes DEF Init, ControlInv, TypeOK, Control, InCall, StageOfCall,
   KeyOfCall, Registered, WaitsForLeader, HoldsOutcome, Busy, GateKey, PCs,
   Gate!GateTypeOK, Gate!GateInit, Gate!Stages,
   Cache!CacheTypeOK, Cache!CacheInit

\* What a registered call holds.
LEMMA SyncCallParts ==
  ASSUME NEW call \in Gate!SyncCalls
  PROVE  /\ call.leader \in Threads /\ call.event \in BOOLEAN
         /\ call.outcome \in IF call.event THEN Nat \cup {Failed} ELSE {None}
BY DEF Gate!SyncCalls

\* The two calls the gate makes.
LEMMA SyncCallsMade ==
  ASSUME NEW t \in Threads, NEW o \in Nat \cup {Failed}
  PROVE  /\ [leader |-> t, event |-> FALSE, outcome |-> None] \in Gate!SyncCalls
         /\ [leader |-> t, event |-> TRUE, outcome |-> o] \in Gate!SyncCalls
BY DEF Gate!SyncCalls

\* Registering a call keeps _inflight and the leaders in step.
LEMMA LeadRegisters ==
  ASSUME NEW t \in Threads, NEW k, Gate!GateTypeOK, Registered, Gate!Lead(t, k)
  PROVE  Registered'
<1>1. /\ DOMAIN inflight' = DOMAIN inflight \cup {k}
      /\ k \notin DOMAIN inflight
      /\ inflight'[k] = [leader |-> t, event |-> FALSE, outcome |-> None]
      /\ \A x \in DOMAIN inflight : inflight'[x] = inflight[x]
  BY DEF Gate!Lead
<1>2. /\ stage[t] = "out" /\ stage'[t] = "leading" /\ key'[t] = k
      /\ got'[t] = None
      /\ \A s \in Threads \ {t} :
           stage'[s] = stage[s] /\ key'[s] = key[s] /\ got'[s] = got[s]
  BY DEF Gate!Lead, Gate!Inside, Gate!GateTypeOK
<1>3. \A x \in DOMAIN inflight : inflight[x].leader \in Threads \ {t}
  BY <1>2 DEF Registered, Gate!GateTypeOK, Gate!SyncCalls
<1>4. QED
  BY <1>1, <1>2, <1>3 DEF Registered

\* Entering the gate, or going past it, keeps control.
LEMMA DispatchControl ==
  ASSUME ControlInv, NEW t \in Threads, Dispatch(t)
  PROVE  ControlInv'
<1>1. Gate!Lead(t, GateKey(t)) => Registered'
  BY LeadRegisters DEF ControlInv, TypeOK, Control
<1>taken. Gate!Follow(t, GateKey(t)) =>
        LET call == inflight[GateKey(t)]
        IN  call.outcome \in IF call.event THEN Nat \cup {Failed} ELSE {None}
  BY SyncCallParts DEF ControlInv, TypeOK, Gate!GateTypeOK, Gate!Follow
<1>made. [leader |-> t, event |-> FALSE, outcome |-> None] \in Gate!SyncCalls
  BY SyncCallsMade, 0 \in Nat
<1> USE ConstantTypes, RequestType
    DEF ControlInv, TypeOK, Control, InCall, StageOfCall, KeyOfCall,
        Registered, WaitsForLeader, HoldsOutcome, Busy, GateKey, PCs, Paths,
        Goto, Gate!GateTypeOK, Gate!Stages, Cache!CacheTypeOK,
        cacheVars, gateVars, serverVars, callVars
<1>2. CASE req[t].coalesce /\ Gate!Lead(t, GateKey(t)) /\ Goto(t, "sending")
  <2>1. TypeOK'
    BY <1>2, <1>made DEF Dispatch, Gate!Lead, Gate!Inside
  <2>2. InCall'
    BY <1>2 DEF Dispatch, Gate!Lead, Gate!Inside
  <2>3. StageOfCall'
    BY <1>2 DEF Dispatch, Gate!Lead, Gate!Inside
  <2>4. KeyOfCall'
    BY <1>2 DEF Dispatch, Gate!Lead, Gate!Inside
  <2>5. Registered'
    BY <1>1, <1>2
  <2>6. WaitsForLeader'
    BY <1>2 DEF Dispatch, Gate!Lead, Gate!Inside
  <2>7. HoldsOutcome'
    BY <1>2 DEF Dispatch, Gate!Lead, Gate!Inside
  <2>8. QED
    BY <2>1, <2>2, <2>3, <2>4, <2>5, <2>6, <2>7 DEF ControlInv, Control
<1>3. CASE req[t].coalesce /\ Gate!Follow(t, GateKey(t)) /\ Goto(t, "gate")
  <2>1. TypeOK'
    BY <1>taken, <1>3 DEF Dispatch, Gate!Follow, Gate!Inside
  <2>2. InCall'
    BY <1>3 DEF Dispatch, Gate!Follow, Gate!Inside
  <2>3. StageOfCall'
    BY <1>3 DEF Dispatch, Gate!Follow, Gate!Inside
  <2>4. KeyOfCall'
    BY <1>3 DEF Dispatch, Gate!Follow, Gate!Inside
  <2>5. Registered'
    BY <1>3 DEF Dispatch, Gate!Follow, Gate!Inside
  <2>6. WaitsForLeader'
    BY <1>3 DEF Dispatch, Gate!Follow, Gate!Inside
  <2>7. HoldsOutcome'
    BY <1>taken, <1>3 DEF Dispatch, Gate!Follow, Gate!Inside
  <2>8. QED
    BY <2>1, <2>2, <2>3, <2>4, <2>5, <2>6, <2>7 DEF ControlInv, Control
<1>4. CASE ~ req[t].coalesce /\ Goto(t, "sending") /\ UNCHANGED gateVars
  BY <1>4 DEF Dispatch
<1>5. QED
  BY <1>2, <1>3, <1>4 DEF Dispatch

\* Publishing gives the registered call the outcome its leader has.
LEMMA PublishRegisters ==
  ASSUME NEW t \in Threads, NEW o, Gate!GateTypeOK, Registered,
         Gate!Publish(t, o)
  PROVE  Registered'
<1>1. /\ key[t] \in DOMAIN inflight /\ inflight[key[t]].leader = t
      /\ stage[t] = "leading" /\ stage'[t] = "published" /\ got'[t] = o
      /\ key' = key
  BY DEF Gate!Publish, Registered, Gate!GateTypeOK
<1>2. \A s \in Threads \ {t} :
        stage[s] \in {"leading", "published"}
        \/ stage'[s] \in {"leading", "published"} =>
          stage'[s] = stage[s] /\ got'[s] = got[s]
  BY DEF Gate!Publish, Gate!Followers, Gate!GateTypeOK
<1>3. /\ DOMAIN inflight' = DOMAIN inflight
      /\ inflight'[key[t]] = [leader |-> t, event |-> TRUE, outcome |-> o]
      /\ \A x \in DOMAIN inflight \ {key[t]} : inflight'[x] = inflight[x]
  BY <1>1 DEF Gate!Publish, Gate!GateTypeOK
<1>4. ASSUME NEW x \in DOMAIN inflight \ {key[t]}
      PROVE  inflight[x].leader \in Threads \ {t}
  BY <1>4, SyncCallParts DEF Gate!GateTypeOK, Registered
<1>5. ASSUME NEW x \in DOMAIN inflight'
      PROVE  LET call == inflight'[x]
             IN  /\ key'[call.leader] = x
                 /\ stage'[call.leader] =
                      IF call.event THEN "published" ELSE "leading"
                 /\ call.outcome = got'[call.leader]
  <2>1. CASE x = key[t]
    BY <2>1, <1>1, <1>3
  <2>2. CASE x # key[t]
    BY <2>2, <1>1, <1>2, <1>3, <1>4 DEF Registered
  <2>3. QED
    BY <2>1, <2>2
<1>6. ASSUME NEW s \in Threads, stage'[s] \in {"leading", "published"}
      PROVE  key'[s] \in DOMAIN inflight' /\ inflight'[key'[s]].leader = s
  BY <1>1, <1>2, <1>3, <1>6 DEF Registered
<1>7. QED
  BY <1>5, <1>6 DEF Registered

\* The end of _send, whichever way it ends.
LEMMA ConcludeControl ==
  ASSUME ControlInv, NEW t \in Threads, NEW outcome \in Nat \cup {Failed},
         pc[t] \in {"sending", "served"}, Conclude(t, outcome),
         UNCHANGED <<cacheVars, serverVars, callVars, acked>>
  PROVE  ControlInv'
<1>reg. Gate!Publish(t, outcome) => Registered'
  BY PublishRegisters DEF ControlInv, TypeOK, Control
<1>made. [leader |-> t, event |-> TRUE, outcome |-> outcome] \in Gate!SyncCalls
  BY SyncCallsMade
<1> USE ConstantTypes, RequestType
    DEF ControlInv, TypeOK, Control, InCall, StageOfCall, KeyOfCall,
        Registered, WaitsForLeader, HoldsOutcome, Busy, GateKey, PCs, Paths,
        Goto, Gate!GateTypeOK, Gate!Stages, Cache!CacheTypeOK,
        cacheVars, gateVars, serverVars, callVars
<1>1. CASE req[t].coalesce /\ Gate!Publish(t, outcome) /\ Goto(t, "gate")
           /\ UNCHANGED result
  <2>1. TypeOK'
    BY <1>1, <1>made DEF Gate!Publish, Gate!Followers
  <2>2. InCall'
    BY <1>1 DEF Gate!Publish, Gate!Followers
  <2>3. StageOfCall'
    BY <1>1 DEF Gate!Publish, Gate!Followers
  <2>4. KeyOfCall'
    BY <1>1 DEF Gate!Publish, Gate!Followers
  <2>5. Registered'
    BY <1>1, <1>reg
  <2>6. WaitsForLeader'
    BY <1>1 DEF Gate!Publish, Gate!Followers
  <2>7. HoldsOutcome'
    BY <1>1 DEF Gate!Publish, Gate!Followers
  <2>8. QED
    BY <2>1, <2>2, <2>3, <2>4, <2>5, <2>6, <2>7 DEF ControlInv, Control
<1>2. CASE ~ req[t].coalesce
           /\ result' = [result EXCEPT ![t] = outcome]
           /\ Goto(t, "settling") /\ UNCHANGED gateVars
  BY <1>2
<1>3. QED
  BY <1>1, <1>2 DEF Conclude

\* A thread that leaves the gate takes its key and outcome along.
LEMMA LeaveGateControl ==
  ASSUME ControlInv, NEW t \in Threads, LeaveGate(t)
  PROVE  ControlInv'
<1> USE ConstantTypes, RequestType
    DEF ControlInv, TypeOK, Control, InCall, StageOfCall, KeyOfCall,
        Registered, WaitsForLeader, HoldsOutcome, Busy, GateKey, PCs, Paths,
        Goto, Gate!GateTypeOK, Gate!Stages, Cache!CacheTypeOK,
        cacheVars, gateVars, serverVars, callVars
<1>1. CASE Gate!Pop(t)
  <2>1. TypeOK'
    BY <1>1 DEF LeaveGate, Gate!Pop, Gate!Return
  <2>2. InCall'
    BY <1>1 DEF LeaveGate, Gate!Pop, Gate!Return
  <2>3. StageOfCall'
    BY <1>1 DEF LeaveGate, Gate!Pop, Gate!Return
  <2>4. KeyOfCall'
    BY <1>1 DEF LeaveGate, Gate!Pop, Gate!Return
  <2>5. Registered'
    BY <1>1 DEF LeaveGate, Gate!Pop, Gate!Return
  <2>6. WaitsForLeader'
    BY <1>1 DEF LeaveGate, Gate!Pop, Gate!Return
  <2>7. HoldsOutcome'
    BY <1>1 DEF LeaveGate, Gate!Pop, Gate!Return
  <2>8. QED
    BY <2>1, <2>2, <2>3, <2>4, <2>5, <2>6, <2>7 DEF ControlInv, Control
<1>2. CASE Gate!Leave(t)
  <2>1. TypeOK'
    BY <1>2 DEF LeaveGate, Gate!Leave, Gate!Return
  <2>2. InCall'
    BY <1>2 DEF LeaveGate, Gate!Leave, Gate!Return
  <2>3. StageOfCall'
    BY <1>2 DEF LeaveGate, Gate!Leave, Gate!Return
  <2>4. KeyOfCall'
    BY <1>2 DEF LeaveGate, Gate!Leave, Gate!Return
  <2>5. Registered'
    BY <1>2 DEF LeaveGate, Gate!Leave, Gate!Return
  <2>6. WaitsForLeader'
    BY <1>2 DEF LeaveGate, Gate!Leave, Gate!Return
  <2>7. HoldsOutcome'
    BY <1>2 DEF LeaveGate, Gate!Leave, Gate!Return
  <2>8. QED
    BY <2>1, <2>2, <2>3, <2>4, <2>5, <2>6, <2>7 DEF ControlInv, Control
<1>3. QED
  BY <1>1, <1>2 DEF LeaveGate

\* A put stores a version or nothing.
LEMMA PutType ==
  ASSUME NEW p \in Paths, NEW v \in Nat, NEW g, Cache!CacheTypeOK,
         Cache!Put(p, v, g)
  PROVE  Cache!CacheTypeOK'
BY DEF Cache!Put, Cache!CacheTypeOK

\* Filling or clearing the cache keeps control.
LEMMA SettleControl ==
  ASSUME ControlInv, NEW t \in Threads, Settle(t)
  PROVE  ControlInv'
<1>1. result[t] \in Nat /\ req[t].path \in Paths
  BY DEF Settle, ControlInv, Control, HoldsOutcome, InCall, Busy, Paths
<1>2. Cache!CacheTypeOK'
  <2>1. Cache!CacheTypeOK
    BY DEF ControlInv, TypeOK
  <2>2. CASE CacheEnabled /\ Clears(req[t])
    BY <2>1, <2>2 DEF Settle, Cache!Clear, Cache!CacheTypeOK
  <2>3. CASE ~ (CacheEnabled /\ Clears(req[t])) /\ Caches(req[t])
    <3>1. Cache!Put(req[t].path, result[t], gen[t])
      BY <2>3 DEF Settle, Caches
    <3>2. QED
      BY <1>1, <2>1, <3>1, PutType
  <2>4. CASE ~ (CacheEnabled /\ Clears(req[t])) /\ ~ Caches(req[t])
    BY <2>1, <2>4 DEF Settle, Cache!CacheTypeOK, cacheVars
  <2>5. QED
    BY <2>2, <2>3, <2>4
<1> USE ConstantTypes, RequestType
    DEF ControlInv, TypeOK, Control, InCall, StageOfCall, KeyOfCall,
        Registered, WaitsForLeader, HoldsOutcome, Busy, GateKey, PCs, Paths,
        Goto, Gate!GateTypeOK, Gate!Stages, Cache!CacheTypeOK,
        cacheVars, gateVars, serverVars, callVars
<1>3. TypeOK'
  BY <1>1, <1>2 DEF Settle, Return, Larger
<1>4. InCall' /\ StageOfCall' /\ KeyOfCall'
  BY DEF Settle, Return
<1>5. Registered'
  BY DEF Settle, Return
<1>6. WaitsForLeader'
  BY DEF Settle, Return
<1>7. HoldsOutcome'
  BY DEF Settle, Return
<1>8. QED
  BY <1>3, <1>4, <1>5, <1>6, <1>7 DEF ControlInv, Control

\* Every step keeps control.
LEMMA ControlStep == ControlInv /\ [Next]_vars => ControlInv'
<1> SUFFICES ASSUME ControlInv, [Next]_vars PROVE ControlInv'
  OBVIOUS
<1>1. ASSUME NEW t \in Threads, Dispatch(t) PROVE ControlInv'
  BY <1>1, DispatchControl
<1>2. ASSUME NEW t \in Threads, Answer(t) PROVE ControlInv'
  BY <1>2, ConcludeControl DEF Answer, ControlInv, Control, HoldsOutcome
<1>3. ASSUME NEW t \in Threads, GiveUp(t) PROVE ControlInv'
  BY <1>3, ConcludeControl DEF GiveUp
<1>4. ASSUME NEW t \in Threads, LeaveGate(t) PROVE ControlInv'
  BY <1>4, LeaveGateControl
<1>5. ASSUME NEW t \in Threads, Settle(t) PROVE ControlInv'
  BY <1>5, SettleControl
<1> USE ConstantTypes, RequestType
    DEF ControlInv, TypeOK, Control, InCall, StageOfCall, KeyOfCall,
        Registered, WaitsForLeader, HoldsOutcome, Busy, GateKey, PCs, Paths,
        Goto, Gate!GateTypeOK, Gate!Stages, Cache!CacheTypeOK,
        cacheVars, gateVars, serverVars, callVars
<1>6. ASSUME NEW t \in Threads, Begin(t) PROVE ControlInv'
  BY <1>6 DEF Begin
<1>7. ASSUME NEW t \in Threads, SampleGeneration(t) PROVE ControlInv'
  BY <1>7 DEF SampleGeneration, Caches
<1>8. ASSUME NEW t \in Threads, Hit(t) PROVE ControlInv'
  BY <1>8 DEF Hit, Return
<1>9. ASSUME NEW t \in Threads, Miss(t) PROVE ControlInv'
  BY <1>9 DEF Miss
<1>10. ASSUME NEW t \in Threads, Serve(t) PROVE ControlInv'
  BY <1>10 DEF Serve
<1>11. ASSUME NEW t \in Threads, Retry(t) PROVE ControlInv'
  BY <1>11 DEF Retry
<1>12. ASSUME NEW t \in Threads, Raise(t) PROVE ControlInv'
  BY <1>12 DEF Raise, Return, Larger
<1>13. ASSUME NEW k \in Paths, Expire(k) PROVE ControlInv'
  BY <1>13 DEF Expire, Cache!Forget
<1>14. CASE ExternalWrite
  BY <1>14 DEF ExternalWrite
<1>15. CASE UNCHANGED vars
  BY <1>15 DEF vars
<1>16. QED
  BY <1>1, <1>2, <1>3, <1>4, <1>5, <1>6, <1>7, <1>8, <1>9,
     <1>10, <1>11, <1>12, <1>13, <1>14, <1>15
     DEF Next, Step, AllDone

\* Control holds in every reachable state.
LEMMA ControlAlways == Spec => []ControlInv
<1>1. Init => ControlInv
  BY ControlInit
<1>2. ControlInv /\ [Next]_vars => ControlInv'
  BY ControlStep
<1>3. QED
  BY <1>1, <1>2, PTL DEF Spec

\* Every variable keeps its type, for any number of threads, calls and
\* retries.
THEOREM TypeCorrect == Spec => []TypeOK
<1>1. ControlInv => TypeOK
  BY DEF ControlInv
<1>2. QED
  BY <1>1, ControlAlways, PTL

\* The gate never lets two threads send the same coalescing request under
\* one generation (client.py:267-271).
THEOREM OneUpstream == Spec => []OneUpstreamPerKey
<1>1. ControlInv => OneUpstreamPerKey
  BY DEF ControlInv, Control, StageOfCall, KeyOfCall, Registered,
         OneUpstreamPerKey
<1>2. QED
  BY <1>1, ControlAlways, PTL

-----------------------------------------------------------------------------
(* Progress.                                                               *)

\* A call's own step leaves it fewer steps to take.
LEMMA OwnStep ==
  ASSUME ControlInv, NEW t \in Threads, Step(t)
  PROVE  StepsLeft(t)' < StepsLeft(t)
<1> USE ConstantTypes DEF ControlInv, TypeOK, StepsLeft, Goto
<1>1. CASE SampleGeneration(t)
  BY <1>1 DEF SampleGeneration
<1>2. CASE Hit(t)
  BY <1>2 DEF Hit, Return
<1>3. CASE Miss(t)
  BY <1>3 DEF Miss
<1>4. CASE Dispatch(t)
  <2>1. /\ pc[t] = "missed" /\ pc'[t] \in {"sending", "gate"}
        /\ tries'[t] = tries[t] /\ tries[t] \in 0 .. MaxRetries
    BY <1>4 DEF Dispatch, callVars
  <2>2. QED
    BY <2>1
<1>5. CASE Serve(t)
  BY <1>5 DEF Serve
<1>6. CASE Answer(t) \/ GiveUp(t)
  <2>1. /\ pc[t] \in {"sending", "served"} /\ pc'[t] \in {"gate", "settling"}
        /\ tries[t] \in 0 .. MaxRetries
    BY <1>6 DEF Answer, GiveUp, Conclude
  <2>2. QED
    BY <2>1
<1>7. CASE Retry(t)
  BY <1>7 DEF Retry
<1>8. CASE LeaveGate(t)
  BY <1>8 DEF LeaveGate
<1>9. CASE Raise(t) \/ Settle(t)
  BY <1>9 DEF Raise, Settle, Return
<1>10. QED
  BY <1>1, <1>2, <1>3, <1>4, <1>5, <1>6, <1>7, <1>8, <1>9 DEF Step

\* A step of another thread, of the cache's or of another client leaves a
\* call where it is.
LEMMA OthersStep ==
  ASSUME ControlInv, NEW t \in Threads, pc[t] # "idle", ~ Step(t), [Next]_vars
  PROVE  pc'[t] = pc[t] /\ tries'[t] = tries[t]
<1> USE DEF ControlInv, TypeOK, Goto, callVars
<1>1. ASSUME NEW s \in Threads \ {t}, Begin(s)
      PROVE  pc'[t] = pc[t] /\ tries'[t] = tries[t]
  BY <1>1 DEF Begin
<1>2. ASSUME NEW s \in Threads \ {t},
             \/ SampleGeneration(s) \/ Hit(s) \/ Miss(s) \/ Dispatch(s)
      PROVE  pc'[t] = pc[t] /\ tries'[t] = tries[t]
  BY <1>2 DEF SampleGeneration, Hit, Miss, Dispatch, Return
<1>3. ASSUME NEW s \in Threads \ {t},
             Serve(s) \/ Answer(s) \/ Retry(s) \/ GiveUp(s)
      PROVE  pc'[t] = pc[t] /\ tries'[t] = tries[t]
  BY <1>3 DEF Serve, Answer, Retry, GiveUp, Conclude
<1>4. ASSUME NEW s \in Threads \ {t}, LeaveGate(s) \/ Raise(s) \/ Settle(s)
      PROVE  pc'[t] = pc[t] /\ tries'[t] = tries[t]
  BY <1>4 DEF LeaveGate, Raise, Settle, Return
<1>5. ASSUME NEW k \in Paths, Expire(k)
      PROVE  pc'[t] = pc[t] /\ tries'[t] = tries[t]
  BY <1>5 DEF Expire
<1>6. CASE ExternalWrite
  BY <1>6 DEF ExternalWrite
<1>7. CASE UNCHANGED vars
  BY <1>7 DEF vars
<1>8. ~ Begin(t)
  BY DEF Begin
<1>9. QED
  BY <1>1, <1>2, <1>3, <1>4, <1>5, <1>6, <1>7, <1>8 DEF Next, Step, AllDone

\* Every step of a call leaves it fewer to take and nobody sends it back: it
\* ends within a number of its own steps that max_retries bounds
\* (_request and _send, client.py:181-282).
THEOREM CallsEnd == Spec => CallsRunOut
<1>1. ControlInv /\ [Next]_vars
        => [\A t \in Threads : pc[t] # "idle" =>
              /\ StepsLeft(t)' <= StepsLeft(t)
              /\ Step(t) => StepsLeft(t)' < StepsLeft(t)]_vars
  <2> SUFFICES ASSUME ControlInv, [Next]_vars,
                      NEW t \in Threads, pc[t] # "idle"
               PROVE  /\ StepsLeft(t)' <= StepsLeft(t)
                      /\ Step(t) => StepsLeft(t)' < StepsLeft(t)
    OBVIOUS
  <2>1. StepsLeft(t) \in Nat /\ StepsLeft(t)' \in Nat
    <3>1. ControlInv'
      BY ControlStep
    <3>2. QED
      BY <3>1, ConstantTypes DEF ControlInv, TypeOK, StepsLeft, PCs
  <2>2. CASE Step(t)
    <3>1. StepsLeft(t)' < StepsLeft(t)
      BY <2>2, OwnStep
    <3>2. QED
      BY <2>1, <3>1
  <2>3. CASE ~ Step(t)
    <3>1. StepsLeft(t)' = StepsLeft(t)
      BY <2>3, OthersStep DEF StepsLeft
    <3>2. QED
      BY <2>1, <2>3, <3>1
  <2>4. QED
    BY <2>2, <2>3
<1>2. QED
  BY <1>1, ControlAlways, PTL DEF Spec, CallsRunOut

-----------------------------------------------------------------------------
(* Freshness.  What makes reads fresh is that a version is never looked at *)
(* without the generation it was obtained under: a call's own gen, which   *)
(* is also part of its gate key.                                           *)

Sampled(t) == pc[t] \notin {"idle", "begun"}

\* Version v was obtained by a call of generation g.  It is as new as the
\* acknowledged writes as long as no later write has settled, and new enough
\* for every call of that generation in any case.
FreshFor(g, v) ==
  /\ v <= db
  /\ g = generation => acked <= v
  /\ \A s \in Threads : Sampled(s) /\ gen[s] = g => floor[s] <= v

Counters ==
  /\ acked <= db
  /\ \A t \in Threads : floor[t] <= acked /\ gen[t] <= generation

RepliesFresh ==
  \A t \in Threads : pc[t] = "served" => FreshFor(gen[t], reply[t])

OutcomesFresh ==
  \A t \in Threads : stage[t] \in {"published", "released"} /\ got[t] \in Nat
                       => FreshFor(gen[t], got[t])

ResultsFresh ==
  \A t \in Threads : pc[t] = "settling" /\ result[t] \in Nat
                       => FreshFor(gen[t], result[t])

StoreFresh == \A k \in Paths : store[k] # None => acked <= store[k]

ReturnsFresh == \A t \in Threads : result[t] \in Nat => floor[t] <= result[t]

FreshInv == /\ Counters /\ RepliesFresh /\ OutcomesFresh
            /\ ResultsFresh /\ StoreFresh /\ ReturnsFresh

\* Nothing is stale before the first call.
LEMMA FreshInit == Init => FreshInv
BY ConstantTypes DEF Init, FreshInv, Counters, RepliesFresh, OutcomesFresh,
   ResultsFresh, StoreFresh, ReturnsFresh,
   Gate!GateInit, Cache!CacheInit

\* What any step does to the quantities FreshFor compares.
Advance ==
  /\ db' \in Nat /\ db <= db'
  /\ \/ generation' = generation /\ acked' = acked
     \/ generation' = generation + 1
  /\ \A s \in Threads : Sampled(s)' =>
       /\ floor'[s] = floor[s]
       /\ \/ Sampled(s) /\ gen'[s] = gen[s]
          \/ gen'[s] = generation

\* Such a step leaves what was fresh fresh.
LEMMA FreshnessKept ==
  ASSUME ControlInv, Counters, Advance
  PROVE  \A g, v \in Nat : g <= generation /\ FreshFor(g, v) => FreshFor(g, v)'
<1> SUFFICES ASSUME NEW g \in Nat, NEW v \in Nat,
                    g <= generation, FreshFor(g, v)
             PROVE  FreshFor(g, v)'
  OBVIOUS
<1>1. /\ db \in Nat /\ acked \in Nat /\ generation \in Nat
      /\ \A s \in Threads : floor[s] \in Nat
  BY DEF ControlInv, TypeOK, Cache!CacheTypeOK
<1>2. v <= db'
  BY <1>1 DEF Advance, FreshFor
<1>3. g = generation' => acked' <= v
  BY <1>1 DEF Advance, FreshFor
<1>4. ASSUME NEW s \in Threads, Sampled(s)', gen'[s] = g
      PROVE  floor'[s] <= v
  BY <1>1, <1>4 DEF Advance, FreshFor, Counters
<1>5. QED
  BY <1>2, <1>3, <1>4 DEF FreshFor

\* Every step is such a step: the cache is cleared whenever a write settles.
LEMMA StepAdvances ==
  ASSUME CacheEnabled, ControlInv, Counters, [Next]_vars
  PROVE  Advance
<1> USE ConstantTypes, WritesAreDeclared
    DEF ControlInv, TypeOK, Control, InCall, HoldsOutcome, Busy, Counters,
        Cache!CacheTypeOK, Advance, Sampled, Goto,
        cacheVars, serverVars, callVars
<1>1. ASSUME NEW t \in Threads, Begin(t) PROVE Advance
  BY <1>1 DEF Begin
<1>2. ASSUME NEW t \in Threads, SampleGeneration(t) PROVE Advance
  BY <1>2 DEF SampleGeneration
<1>3. ASSUME NEW t \in Threads, Hit(t) \/ Raise(t) PROVE Advance
  BY <1>3 DEF Hit, Raise, Return
<1>4. ASSUME NEW t \in Threads, Miss(t) \/ Dispatch(t) PROVE Advance
  BY <1>4 DEF Miss, Dispatch
<1>5. ASSUME NEW t \in Threads, Serve(t) \/ Retry(t) PROVE Advance
  BY <1>5 DEF Serve, Retry
<1>6. ASSUME NEW t \in Threads, Answer(t) \/ GiveUp(t) PROVE Advance
  BY <1>6 DEF Answer, GiveUp, Conclude
<1>7. ASSUME NEW t \in Threads, LeaveGate(t) PROVE Advance
  BY <1>7 DEF LeaveGate
<1>8. ASSUME NEW t \in Threads, Settle(t) PROVE Advance
  <2>1. \/ generation' = generation /\ acked' = acked
        \/ generation' = generation + 1
    BY <1>8 DEF Settle, Cache!Clear, Cache!Put
  <2>2. QED
    BY <1>8, <2>1 DEF Settle, Return
<1>9. ASSUME NEW k \in Paths, Expire(k) PROVE Advance
  BY <1>9 DEF Expire, Cache!Forget
<1>10. CASE ExternalWrite
  BY <1>10 DEF ExternalWrite
<1>11. CASE UNCHANGED vars
  BY <1>11 DEF vars
<1>12. QED
  BY <1>1, <1>2, <1>3, <1>4, <1>5, <1>6, <1>7, <1>8, <1>9, <1>10, <1>11
     DEF Next, Step, AllDone

\* A late follower takes the outcome of a leader of its own generation.
LEMMA DispatchFresh ==
  ASSUME CacheEnabled, ControlInv, FreshInv, NEW t \in Threads, Dispatch(t)
  PROVE  FreshInv'
<1>0. /\ Advance
      /\ \A g, v \in Nat : g <= generation /\ FreshFor(g, v) => FreshFor(g, v)'
  BY StepAdvances, FreshnessKept DEF FreshInv, Next, Step
<1>1. ASSUME Gate!Follow(t, GateKey(t)), inflight[GateKey(t)].event
      PROVE  LET leader == inflight[GateKey(t)].leader
             IN  /\ leader \in Threads /\ gen[leader] = gen[t]
                 /\ stage[leader] = "published"
                 /\ inflight[GateKey(t)].outcome = got[leader]
  <2>1. GateKey(t) \in DOMAIN inflight
        /\ inflight[GateKey(t)].leader \in Threads
    BY <1>1, SyncCallParts
       DEF Gate!Follow, ControlInv, TypeOK, Gate!GateTypeOK
  <2>2. LET leader == inflight[GateKey(t)].leader
        IN  /\ stage[leader] = "published" /\ key[leader] = GateKey(t)
            /\ inflight[GateKey(t)].outcome = got[leader]
    BY <1>1, <2>1 DEF ControlInv, Control, Registered
  <2>3. key[inflight[GateKey(t)].leader] = GateKey(inflight[GateKey(t)].leader)
    BY <2>1, <2>2 DEF ControlInv, Control, KeyOfCall
  <2>4. QED
    BY <2>1, <2>2, <2>3 DEF GateKey
<1> USE <1>0, ConstantTypes, RequestType
    DEF ControlInv, TypeOK, Control, InCall, StageOfCall, KeyOfCall,
        HoldsOutcome, Busy, GateKey, Goto, Paths,
        Gate!GateTypeOK, Gate!Stages, Cache!CacheTypeOK,
        FreshInv, Counters, RepliesFresh, OutcomesFresh, ResultsFresh,
        StoreFresh, ReturnsFresh, Sampled,
        cacheVars, gateVars, serverVars, callVars
<1>2. CASE req[t].coalesce /\ Gate!Lead(t, GateKey(t)) /\ Goto(t, "sending")
  <2>1. Counters'
    BY <1>2 DEF Dispatch, Gate!Lead, Gate!Inside
  <2>2. RepliesFresh'
    BY <1>2 DEF Dispatch, Gate!Lead, Gate!Inside
  <2>3. OutcomesFresh'
    BY <1>2 DEF Dispatch, Gate!Lead, Gate!Inside
  <2>4. ResultsFresh'
    BY <1>2 DEF Dispatch, Gate!Lead, Gate!Inside
  <2>5. StoreFresh'
    BY <1>2 DEF Dispatch, Gate!Lead, Gate!Inside
  <2>6. ReturnsFresh'
    BY <1>2 DEF Dispatch, Gate!Lead, Gate!Inside
  <2>7. QED
    BY <2>1, <2>2, <2>3, <2>4, <2>5, <2>6 DEF FreshInv
<1>3. CASE req[t].coalesce /\ Gate!Follow(t, GateKey(t)) /\ Goto(t, "gate")
  <2>1. Counters'
    BY <1>1, <1>3 DEF Dispatch, Gate!Follow, Gate!Inside
  <2>2. RepliesFresh'
    BY <1>1, <1>3 DEF Dispatch, Gate!Follow, Gate!Inside
  <2>3. OutcomesFresh'
    BY <1>1, <1>3 DEF Dispatch, Gate!Follow, Gate!Inside
  <2>4. ResultsFresh'
    BY <1>1, <1>3 DEF Dispatch, Gate!Follow, Gate!Inside
  <2>5. StoreFresh'
    BY <1>1, <1>3 DEF Dispatch, Gate!Follow, Gate!Inside
  <2>6. ReturnsFresh'
    BY <1>1, <1>3 DEF Dispatch, Gate!Follow, Gate!Inside
  <2>7. QED
    BY <2>1, <2>2, <2>3, <2>4, <2>5, <2>6 DEF FreshInv
<1>4. CASE ~ req[t].coalesce /\ Goto(t, "sending") /\ UNCHANGED gateVars
  BY <1>4 DEF Dispatch
<1>5. QED
  BY <1>2, <1>3, <1>4 DEF Dispatch

\* Followers released by a publication are of the leader's generation.
LEMMA ConcludeFresh ==
  ASSUME ControlInv, FreshInv, Advance,
         NEW t \in Threads, NEW outcome \in Nat \cup {Failed},
         pc[t] \in {"sending", "served"}, Conclude(t, outcome),
         outcome \in Nat => FreshFor(gen[t], outcome),
         UNCHANGED <<cacheVars, serverVars, callVars, acked>>
  PROVE  FreshInv'
<1>0. \A g, v \in Nat : g <= generation /\ FreshFor(g, v) => FreshFor(g, v)'
  BY FreshnessKept DEF FreshInv
<1>1. \A s \in Gate!Followers(t) : stage[t] = "leading" => gen[s] = gen[t]
  BY DEF Gate!Followers, ControlInv, Control, KeyOfCall, GateKey
<1> USE <1>0, ConstantTypes, RequestType
    DEF ControlInv, TypeOK, Control, InCall, StageOfCall, KeyOfCall,
        HoldsOutcome, Busy, GateKey, Goto, Paths,
        Gate!GateTypeOK, Gate!Stages, Cache!CacheTypeOK,
        FreshInv, Counters, RepliesFresh, OutcomesFresh, ResultsFresh,
        StoreFresh, ReturnsFresh, Sampled,
        cacheVars, gateVars, serverVars, callVars
<1>2. CASE req[t].coalesce /\ Gate!Publish(t, outcome) /\ Goto(t, "gate")
           /\ UNCHANGED result
  <2>1. Counters'
    BY <1>1, <1>2 DEF Gate!Publish, Gate!Followers
  <2>2. RepliesFresh'
    BY <1>1, <1>2 DEF Gate!Publish, Gate!Followers
  <2>3. OutcomesFresh'
    BY <1>1, <1>2 DEF Gate!Publish, Gate!Followers
  <2>4. ResultsFresh'
    BY <1>1, <1>2 DEF Gate!Publish, Gate!Followers
  <2>5. StoreFresh'
    BY <1>1, <1>2 DEF Gate!Publish, Gate!Followers
  <2>6. ReturnsFresh'
    BY <1>1, <1>2 DEF Gate!Publish, Gate!Followers
  <2>7. QED
    BY <2>1, <2>2, <2>3, <2>4, <2>5, <2>6 DEF FreshInv
<1>3. CASE ~ req[t].coalesce
           /\ result' = [result EXCEPT ![t] = outcome]
           /\ Goto(t, "settling") /\ UNCHANGED gateVars
  <2>1. Counters'
    BY <1>3
  <2>2. RepliesFresh'
    BY <1>3
  <2>3. OutcomesFresh'
    BY <1>3
  <2>4. ResultsFresh'
    BY <1>3
  <2>5. StoreFresh'
    BY <1>3
  <2>6. ReturnsFresh'
    <3>1. outcome \in Nat => floor[t] <= outcome
      BY DEF FreshFor
    <3>2. QED
      BY <1>3, <3>1
  <2>7. QED
    BY <2>1, <2>2, <2>3, <2>4, <2>5, <2>6 DEF FreshInv
<1>4. QED
  BY <1>2, <1>3 DEF Conclude

\* What leaves the gate is as fresh as what entered it.
LEMMA LeaveGateFresh ==
  ASSUME CacheEnabled, ControlInv, FreshInv, NEW t \in Threads, LeaveGate(t)
  PROVE  FreshInv'
<1>0. /\ Advance
      /\ \A g, v \in Nat : g <= generation /\ FreshFor(g, v) => FreshFor(g, v)'
  BY StepAdvances, FreshnessKept DEF FreshInv, Next, Step
<1>1. /\ stage[t] \in {"published", "released"} /\ pc[t] = "gate"
      /\ Gate!Return(t)
      /\ result' = [result EXCEPT ![t] = got[t]] /\ Goto(t, "settling")
      /\ UNCHANGED <<cacheVars, serverVars, callVars, acked>>
  BY DEF LeaveGate, Gate!Pop, Gate!Leave
<1>2. got[t] \in Nat => FreshFor(gen[t], got[t]) /\ floor[t] <= got[t]
  BY <1>1 DEF FreshInv, OutcomesFresh, FreshFor, Sampled
<1> USE <1>0, ConstantTypes, RequestType
    DEF ControlInv, TypeOK, Control, InCall, StageOfCall, KeyOfCall,
        HoldsOutcome, Busy, GateKey, Goto, Paths,
        Gate!GateTypeOK, Gate!Stages, Cache!CacheTypeOK,
        FreshInv, Counters, RepliesFresh, OutcomesFresh, ResultsFresh,
        StoreFresh, ReturnsFresh, Sampled,
        cacheVars, gateVars, serverVars, callVars
<1>3. Counters'
  BY <1>1, <1>2 DEF Gate!Return
<1>4. RepliesFresh'
  BY <1>1, <1>2 DEF Gate!Return
<1>5. OutcomesFresh'
  BY <1>1, <1>2 DEF Gate!Return
<1>6. ResultsFresh'
  BY <1>1, <1>2 DEF Gate!Return
<1>7. StoreFresh'
  BY <1>1, <1>2 DEF Gate!Return
<1>8. ReturnsFresh'
  BY <1>1, <1>2 DEF Gate!Return
<1>9. QED
  BY <1>3, <1>4, <1>5, <1>6, <1>7, <1>8 DEF FreshInv

\* A read fills the cache only in the generation it was obtained under.
LEMMA SettleFresh ==
  ASSUME CacheEnabled, ControlInv, FreshInv, NEW t \in Threads, Settle(t)
  PROVE  FreshInv'
<1>0. /\ Advance
      /\ \A g, v \in Nat : g <= generation /\ FreshFor(g, v) => FreshFor(g, v)'
  BY StepAdvances, FreshnessKept DEF FreshInv, Next, Step
<1>1. /\ pc[t] = "settling" /\ req[t] \in Requests /\ req[t].path \in Paths
      /\ result[t] \in Nat /\ FreshFor(gen[t], result[t])
  BY DEF Settle, ControlInv, Control, HoldsOutcome, InCall, Busy, Paths,
         FreshInv, ResultsFresh
<1>2. acked <= acked' /\ acked' <= db /\ generation <= generation'
  BY <1>1 DEF Settle, Larger, FreshInv, Counters, FreshFor, Cache!Clear,
              Cache!Put, cacheVars, ControlInv, TypeOK, Cache!CacheTypeOK
<1>3. StoreFresh'
  <2>1. CASE Clears(req[t])
    BY <2>1 DEF Settle, Cache!Clear, StoreFresh
  <2>2. CASE ~ Clears(req[t]) /\ Caches(req[t])
    <3>1. acked' = acked /\ Cache!Put(req[t].path, result[t], gen[t])
      BY <1>1, <2>2, WritesAreDeclared DEF Settle
    <3>2. gen[t] = generation => acked <= result[t]
      BY <1>1 DEF FreshFor
    <3>3. gen[t] # None
      BY ConstantTypes DEF ControlInv, TypeOK
    <3>4. ASSUME NEW k \in Paths, store'[k] # None PROVE acked <= store'[k]
      <4>1. \/ store' = store
            \/ gen[t] = generation
               /\ store'[k] \in {None, store[k]} \cup
                               (IF k = req[t].path THEN {result[t]} ELSE {})
        BY <3>1, <3>3, <3>4 DEF Cache!Put
      <4>2. QED
        BY <3>2, <3>4, <4>1 DEF FreshInv, StoreFresh
    <3>5. QED
      BY <3>1, <3>4 DEF StoreFresh
  <2>3. CASE ~ Clears(req[t]) /\ ~ Caches(req[t])
    BY <1>1, <2>3, WritesAreDeclared DEF Settle, cacheVars, FreshInv, StoreFresh
  <2>4. QED
    BY <2>1, <2>2, <2>3
<1> USE <1>0, ConstantTypes, RequestType
    DEF ControlInv, TypeOK, Control, InCall, StageOfCall, KeyOfCall,
        HoldsOutcome, Busy, GateKey, Goto, Paths,
        Gate!GateTypeOK, Gate!Stages, Cache!CacheTypeOK,
        FreshInv, Counters, RepliesFresh, OutcomesFresh, ResultsFresh,
        StoreFresh, ReturnsFresh, Sampled,
        cacheVars, gateVars, serverVars, callVars
<1>4. Counters'
  <2>1. UNCHANGED <<db, floor>> /\ gen' = [gen EXCEPT ![t] = 0]
    BY DEF Settle, Return
  <2>2. acked \in Nat /\ acked' \in Nat /\ generation' \in Nat
    BY <1>1, <1>2 DEF Settle, Larger, Cache!Clear, Cache!Put
  <2>3. \A s \in Threads : floor[s] <= acked'
    BY <1>2, <2>2
  <2>4. \A s \in Threads : gen'[s] <= generation'
    BY <1>2, <2>1, <2>2
  <2>5. QED
    BY <1>2, <2>1, <2>3, <2>4
<1>5. RepliesFresh'
  BY <1>1, <1>2 DEF Settle, Return
<1>6. OutcomesFresh'
  BY <1>1, <1>2 DEF Settle, Return
<1>7. ResultsFresh'
  BY <1>1, <1>2 DEF Settle, Return
<1>8. ReturnsFresh'
  BY <1>1, <1>2 DEF Settle, Return
<1>9. QED
  BY <1>3, <1>4, <1>5, <1>6, <1>7, <1>8 DEF FreshInv

\* Every step keeps what is held fresh.
LEMMA FreshStep ==
  ASSUME CacheEnabled, ControlInv, ControlInv', FreshInv, [Next]_vars
  PROVE  FreshInv'
<1>0. /\ Advance
      /\ \A g, v \in Nat : g <= generation /\ FreshFor(g, v) => FreshFor(g, v)'
  BY StepAdvances, FreshnessKept DEF FreshInv
<1>1. ASSUME NEW t \in Threads, Dispatch(t) PROVE FreshInv'
  BY <1>0, <1>1, DispatchFresh
<1>2. ASSUME NEW t \in Threads, Answer(t) PROVE FreshInv'
  BY <1>0, <1>2, ConcludeFresh DEF Answer, FreshInv, RepliesFresh, ControlInv,
             Control, HoldsOutcome
<1>3. ASSUME NEW t \in Threads, GiveUp(t) PROVE FreshInv'
  BY <1>0, <1>3, ConcludeFresh, ConstantTypes DEF GiveUp
<1>4. ASSUME NEW t \in Threads, LeaveGate(t) PROVE FreshInv'
  BY <1>0, <1>4, LeaveGateFresh
<1>5. ASSUME NEW t \in Threads, Settle(t) PROVE FreshInv'
  BY <1>0, <1>5, SettleFresh
<1> USE <1>0, ConstantTypes, RequestType
    DEF ControlInv, TypeOK, Control, InCall, StageOfCall, KeyOfCall,
        HoldsOutcome, Busy, GateKey, Goto, Paths,
        Gate!GateTypeOK, Gate!Stages, Cache!CacheTypeOK,
        FreshInv, Counters, RepliesFresh, OutcomesFresh, ResultsFresh,
        StoreFresh, ReturnsFresh, Sampled,
        cacheVars, gateVars, serverVars, callVars
<1>6. ASSUME NEW t \in Threads, Begin(t) PROVE FreshInv'
  BY <1>6 DEF Begin
<1>7. ASSUME NEW t \in Threads, SampleGeneration(t) PROVE FreshInv'
  BY <1>7 DEF SampleGeneration
<1>8. ASSUME NEW t \in Threads, Hit(t) PROVE FreshInv'
  BY <1>8 DEF Hit, Return
<1>9. ASSUME NEW t \in Threads, Miss(t) PROVE FreshInv'
  BY <1>9 DEF Miss
<1>10. ASSUME NEW t \in Threads, Serve(t) PROVE FreshInv'
  BY <1>10 DEF Serve, FreshFor
<1>11. ASSUME NEW t \in Threads, Retry(t) PROVE FreshInv'
  BY <1>11 DEF Retry
<1>12. ASSUME NEW t \in Threads, Raise(t) PROVE FreshInv'
  BY <1>12 DEF Raise, Return, Larger
<1>13. ASSUME NEW k \in Paths, Expire(k) PROVE FreshInv'
  BY <1>13 DEF Expire, Cache!Forget
<1>14. CASE ExternalWrite
  BY <1>14 DEF ExternalWrite
<1>15. CASE UNCHANGED vars
  BY <1>15 DEF vars
<1>16. QED
  BY <1>1, <1>2, <1>3, <1>4, <1>5, <1>6, <1>7, <1>8, <1>9,
     <1>10, <1>11, <1>12, <1>13, <1>14, <1>15
     DEF Next, Step, AllDone

\* With the cache on, everything held is fresh in every reachable state.
LEMMA FreshAlways ==
  ASSUME CacheEnabled
  PROVE  Spec => [](ControlInv /\ FreshInv)
<1>1. Init => ControlInv /\ FreshInv
  BY ControlInit, FreshInit
<1>2. ControlInv /\ FreshInv /\ [Next]_vars => (ControlInv /\ FreshInv)'
  BY ControlStep, FreshStep
<1>3. QED
  BY <1>1, <1>2, PTL DEF Spec

\* With the cache on, no read returns a version older than the writes this
\* client had completed when the read began: the generation in the
\* singleflight key and in the put keeps older requests apart
\* (client.py:257-280).
THEOREM ReadsAreFresh ==
  ASSUME CacheEnabled
  PROVE  Spec => []ReadYourWrites
<1>1. ControlInv /\ FreshInv => ReadYourWrites
  BY DEF ControlInv, TypeOK, FreshInv, ReturnsFresh, ReadYourWrites
<1>2. QED
  BY <1>1, FreshAlways, PTL

\* With the cache on, no entry predates a completed write, however late the
\* read that stored it was answered (_cache.py:96-105, 112-116).
THEOREM CacheIsFresh ==
  ASSUME CacheEnabled
  PROVE  Spec => []CacheNotOlderThanAcked
<1>1. ControlInv /\ FreshInv => CacheNotOlderThanAcked
  <2>1. ControlInv => /\ acked \in Nat
                      /\ \A k \in Paths : store[k] \in Nat \cup {None}
    BY DEF ControlInv, TypeOK, Cache!CacheTypeOK
  <2>2. QED
    BY <2>1 DEF FreshInv, StoreFresh, CacheNotOlderThanAcked
<1>2. QED
  BY <1>1, FreshAlways, PTL

\* With the cache on, a key is registered only while its leader is in its
\* call, and whoever joins it, late joiners between event.set and the pop
\* included, waits for a leader that still runs or is handed an outcome that
\* is new enough for it (_singleflight.py:48-73, client.py:267-271).
THEOREM LateJoiners ==
  ASSUME CacheEnabled
  PROVE  Spec => []LateJoinersAreServed
<1>1. ControlInv /\ FreshInv => LateJoinersAreServed
  <2> SUFFICES ASSUME ControlInv, FreshInv
               PROVE  LateJoinersAreServed
    OBVIOUS
  <2>1. ASSUME NEW k \in DOMAIN inflight
        PROVE  LET call == inflight[k]
               IN  /\ pc[call.leader] \in {"sending", "served", "gate"}
                   /\ GateKey(call.leader) = k
                   /\ call.outcome \in Nat =>
                        \A t \in Threads :
                          /\ pc[t] \in {"missed", "gate"}
                          /\ req[t].coalesce /\ GateKey(t) = k
                          => floor[t] <= call.outcome
    <3> DEFINE call == inflight[k]
               leader == call.leader
    <3>1. /\ leader \in Threads /\ call.event \in BOOLEAN
          /\ call.outcome \in Nat => call.event
      BY SyncCallParts, ConstantTypes
         DEF ControlInv, TypeOK, Gate!GateTypeOK
    <3>2. /\ key[leader] = k /\ call.outcome = got[leader]
          /\ stage[leader] = IF call.event THEN "published" ELSE "leading"
      BY DEF ControlInv, Control, Registered
    <3>3. pc[leader] \in {"sending", "served", "gate"} /\ GateKey(leader) = k
      BY <3>1, <3>2 DEF ControlInv, Control, StageOfCall, KeyOfCall
    <3>4. ASSUME call.outcome \in Nat, NEW t \in Threads,
                 pc[t] \in {"missed", "gate"}, GateKey(t) = k
          PROVE  floor[t] <= call.outcome
      <4>1. FreshFor(gen[leader], call.outcome)
        BY <3>1, <3>2, <3>4 DEF FreshInv, OutcomesFresh
      <4>2. gen[t] = gen[leader] /\ Sampled(t)
        BY <3>3, <3>4 DEF GateKey, Sampled
      <4>3. QED
        BY <4>1, <4>2 DEF FreshFor
    <3>5. QED
      BY <3>3, <3>4
  <2>2. \A t \in Threads : stage[t] = "waiting" =>
          key[t] \in DOMAIN inflight /\ ~ inflight[key[t]].event
    BY DEF ControlInv, Control, WaitsForLeader
  <2>3. QED
    BY <2>1, <2>2 DEF LateJoinersAreServed
<1>2. QED
  BY <1>1, FreshAlways, PTL
-----------------------------------------------------------------------------
(* What the callers see is what FreshClient promises.  Its steps need more *)
(* than freshness: no version is held that the server has not reached, and *)
(* what a write brings back was made after its call began.                 *)

StoreServed == \A k \in Paths : store[k] # None => store[k] <= db

ReturnsServed == \A t \in Threads : result[t] \in Nat => result[t] <= db

WritesMake ==
  \A t \in Threads : req[t] \in Requests /\ req[t].writes =>
    /\ pc[t] \notin {"sampled", "gate"}
    /\ pc[t] = "served" => floor[t] < reply[t]
    /\ pc[t] = "settling" /\ result[t] \in Nat => floor[t] < result[t]

ServedInv == StoreServed /\ ReturnsServed /\ WritesMake

\* Nothing is held before the first call.
LEMMA ServedInit == Init => ServedInv
BY ConstantTypes DEF Init, ServedInv, StoreServed, ReturnsServed, WritesMake,
   Cache!CacheInit

\* A cache entry is an old one or the version that is put.
LEMMA StoreServedStep ==
  ASSUME CacheEnabled, ControlInv, FreshInv, ServedInv, [Next]_vars
  PROVE  StoreServed'
<1>1. db <= db' /\ db \in Nat /\ db' \in Nat
  BY StepAdvances DEF FreshInv, Advance, ControlInv, TypeOK
<1>2. \A k \in Paths : store[k] \in Nat \cup {None}
  BY DEF ControlInv, TypeOK, Cache!CacheTypeOK
<1>3. CASE store' = store
  BY <1>1, <1>2, <1>3 DEF ServedInv, StoreServed
<1>4. ASSUME NEW t \in Threads, Settle(t) PROVE StoreServed'
  <2>1. result[t] <= db /\ result[t] \in Nat
    BY <1>4 DEF Settle, ControlInv, Control, HoldsOutcome, ServedInv,
               ReturnsServed
  <2>2. \A k \in Paths : store'[k] \in {None, store[k], result[t]}
    <3>1. CASE CacheEnabled /\ Clears(req[t])
      BY <1>4, <3>1 DEF Settle, Cache!Clear
    <3>2. CASE Caches(req[t]) /\ ~ Clears(req[t])
      BY <1>4, <3>2 DEF Settle, Cache!Put
    <3>3. CASE ~ Clears(req[t]) /\ ~ Caches(req[t])
      BY <1>4, <3>3 DEF Settle, cacheVars
    <3>4. QED
      BY <3>1, <3>2, <3>3
  <2>3. QED
    BY <1>1, <1>2, <2>1, <2>2 DEF ServedInv, StoreServed
<1>5. ASSUME NEW k \in Paths, Expire(k) PROVE StoreServed'
  BY <1>1, <1>2, <1>5
     DEF Expire, Cache!Forget, ServedInv, StoreServed, ControlInv, TypeOK,
         Cache!CacheTypeOK
<1>6. store' = store \/ (\E t \in Threads : Settle(t))
                     \/ (\E k \in Paths : Expire(k))
  BY DEF Next, Step, AllDone, vars, cacheVars, Begin, SampleGeneration, Hit,
         Miss, Dispatch, Serve, Answer, Retry, GiveUp, LeaveGate, Raise,
         ExternalWrite
<1>7. QED
  BY <1>3, <1>4, <1>5, <1>6

\* What a call ends with was in the cache, in the gate or in a reply.
LEMMA ReturnsServedStep ==
  ASSUME CacheEnabled, ControlInv, FreshInv, ServedInv, [Next]_vars
  PROVE  ReturnsServed'
<1>1. db <= db' /\ db \in Nat /\ db' \in Nat
  BY StepAdvances DEF FreshInv, Advance, ControlInv, TypeOK
<1>2. ASSUME NEW t \in Threads, NEW v, result' = [result EXCEPT ![t] = v],
             v \in Nat => v <= db
      PROVE  ReturnsServed'
  BY <1>1, <1>2 DEF ServedInv, ReturnsServed, ControlInv, TypeOK
<1>3. CASE result' = result
  BY <1>1, <1>3 DEF ServedInv, ReturnsServed
<1>4. ASSUME NEW t \in Threads, Begin(t) PROVE ReturnsServed'
  BY <1>2, <1>4, ConstantTypes DEF Begin
<1>5. ASSUME NEW t \in Threads, Hit(t) PROVE ReturnsServed'
  BY <1>2, <1>5
     DEF Hit, ServedInv, StoreServed, ControlInv, Control, InCall, Busy, Paths
<1>6. ASSUME NEW t \in Threads, Answer(t) PROVE ReturnsServed'
  BY <1>2, <1>3, <1>6 DEF Answer, Conclude, FreshInv, RepliesFresh, FreshFor
<1>7. ASSUME NEW t \in Threads, GiveUp(t) PROVE ReturnsServed'
  BY <1>2, <1>3, <1>7, ConstantTypes DEF GiveUp, Conclude
<1>8. ASSUME NEW t \in Threads, LeaveGate(t) PROVE ReturnsServed'
  BY <1>2, <1>8
     DEF LeaveGate, Gate!Pop, Gate!Leave, FreshInv, OutcomesFresh, FreshFor
<1>9. \/ result' = result
      \/ \E t \in Threads : Begin(t) \/ Hit(t) \/ Answer(t) \/ GiveUp(t)
                            \/ LeaveGate(t)
  BY DEF Next, Step, AllDone, vars, SampleGeneration, Miss, Dispatch, Serve,
         Retry, Raise, Settle, Expire, ExternalWrite
<1>10. QED
  BY <1>3, <1>4, <1>5, <1>6, <1>7, <1>8, <1>9

\* A write goes to the server itself, which makes a version for it.
LEMMA WritesMakeStep ==
  ASSUME ControlInv, Counters, ServedInv, [Next]_vars
  PROVE  WritesMake'
<1> USE ConstantTypes, WritesGoUpstream
    DEF ControlInv, TypeOK, Control, InCall, StageOfCall, Busy, Counters,
        ServedInv, WritesMake, Goto, Return,
        cacheVars, gateVars, serverVars, callVars
<1>1. ASSUME NEW t \in Threads, Begin(t) \/ SampleGeneration(t) \/ Hit(t)
                                \/ Miss(t) \/ Retry(t)
      PROVE  WritesMake'
  BY <1>1 DEF Begin, SampleGeneration, Hit, Miss, Retry, Caches
<1>2. ASSUME NEW t \in Threads, Dispatch(t) PROVE WritesMake'
  BY <1>2 DEF Dispatch
<1>3. ASSUME NEW t \in Threads, Serve(t) PROVE WritesMake'
  BY <1>3 DEF Serve
<1>4. ASSUME NEW t \in Threads, Answer(t) \/ GiveUp(t) PROVE WritesMake'
  BY <1>4 DEF Answer, GiveUp, Conclude
<1>5. ASSUME NEW t \in Threads, LeaveGate(t) PROVE WritesMake'
  BY <1>5 DEF LeaveGate
<1>6. ASSUME NEW t \in Threads, Raise(t) \/ Settle(t) PROVE WritesMake'
  BY <1>6 DEF Raise, Settle
<1>7. ASSUME NEW k \in Paths, Expire(k) PROVE WritesMake'
  BY <1>7 DEF Expire
<1>8. CASE ExternalWrite
  BY <1>8 DEF ExternalWrite
<1>9. CASE UNCHANGED vars
  BY <1>9 DEF vars
<1>10. QED
  BY <1>1, <1>2, <1>3, <1>4, <1>5, <1>6, <1>7, <1>8, <1>9
     DEF Next, Step, AllDone

\* Nothing of it is lost in any step.
LEMMA ServedAlways ==
  ASSUME CacheEnabled
  PROVE  Spec => [](ControlInv /\ FreshInv /\ ServedInv)
<1>1. Init => ControlInv /\ FreshInv /\ ServedInv
  BY ControlInit, FreshInit, ServedInit
<1>2. ControlInv /\ FreshInv /\ ServedInv /\ [Next]_vars
        => (ControlInv /\ FreshInv /\ ServedInv)'
  BY ControlStep, FreshStep, StoreServedStep, ReturnsServedStep,
     WritesMakeStep DEF ServedInv, FreshInv
<1>3. QED
  BY <1>1, <1>2, PTL DEF Spec

\* What a caller sees of the client's state.
CallOf(t) == IF pc[t] = "idle" THEN None
             ELSE [floor |-> floor[t], writes |-> req[t].writes]
ResultOf(t) == IF pc[t] = "idle" THEN result[t] ELSE None

Calls == [t \in Threads |-> CallOf(t)]
Results == [t \in Threads |-> ResultOf(t)]

\* A step of one thread changes what that thread sees and no other.
LEMMA OneViewMoves ==
  ASSUME NEW t \in Threads,
         \A s \in Threads \ {t} : /\ pc'[s] = pc[s] /\ req'[s] = req[s]
                                  /\ floor'[s] = floor[s]
                                  /\ result'[s] = result[s]
  PROVE  /\ Calls' = [Calls EXCEPT ![t] = CallOf(t)']
         /\ Results' = [Results EXCEPT ![t] = ResultOf(t)']
<1>1. \A s \in Threads \ {t} : CallOf(s)' = CallOf(s)
                               /\ ResultOf(s)' = ResultOf(s)
  BY DEF CallOf, ResultOf
<1> HIDE DEF CallOf, ResultOf
<1>2. QED
  BY <1>1 DEF Calls, Results

\* A step inside a call is no step to its caller.
LEMMA InsideStutters ==
  ASSUME NEW t \in Threads, pc[t] # "idle", pc'[t] # "idle",
         \A s \in Threads \ {t} : pc'[s] = pc[s] /\ result'[s] = result[s],
         UNCHANGED <<req, floor>>
  PROVE  Calls' = Calls /\ Results' = Results
<1>1. \A s \in Threads : CallOf(s)' = CallOf(s) /\ ResultOf(s)' = ResultOf(s)
  BY DEF CallOf, ResultOf
<1> HIDE DEF CallOf, ResultOf
<1>2. QED
  BY <1>1 DEF Calls, Results

\* A thread's step that ends its call is the end of a promised call.
LEMMA EndsCall ==
  ASSUME NEW t \in Threads, ControlInv, pc[t] # "idle", pc'[t] = "idle",
         \A s \in Threads \ {t} : pc'[s] = pc[s] /\ result'[s] = result[s],
         UNCHANGED <<req, floor, db>>,
         \/ /\ result'[t] \in Promise!Acceptable(floor[t], req[t].writes)
            /\ acked' = IF req[t].writes THEN Promise!Larger(acked, result'[t])
                        ELSE acked
         \/ result'[t] = Failed /\ acked' = acked
  PROVE  Promise!End(t)
<1>1. /\ Calls' = [Calls EXCEPT ![t] = None]
      /\ Results' = [Results EXCEPT ![t] = result'[t]]
  BY OneViewMoves DEF CallOf, ResultOf
<1>2. Calls[t] = [floor |-> floor[t], writes |-> req[t].writes]
  BY DEF Calls, CallOf
<1>3. Calls[t] # None
  <2>1. t \in Threads /\ req[t] \in Requests /\ floor[t] \in Nat
    BY DEF ControlInv, TypeOK, Control, InCall, Busy
  <2>2. req[t].writes \in BOOLEAN
    BY <2>1, RequestType
  <2>3. QED
    BY <1>2, <2>1, <2>2, NoneIsNoCall
<1> HIDE DEF Calls, Results
<1>4. QED
  BY <1>1, <1>2, <1>3 DEF Promise!End, Promise!Ends, Calls, CallOf, Results, ResultOf

\* A call that returns with a value or an exception.
LEMMA ReturnsAsPromised ==
  ASSUME CacheEnabled, ControlInv, FreshInv, ServedInv,
         NEW t \in Threads, Hit(t) \/ Raise(t) \/ Settle(t)
  PROVE  Promise!End(t)
<1>1. /\ pc[t] # "idle" /\ pc'[t] = "idle" /\ UNCHANGED <<req, floor, db>>
      /\ \A s \in Threads \ {t} : pc'[s] = pc[s] /\ result'[s] = result[s]
  BY DEF Hit, Raise, Settle, Return, Goto, serverVars, ControlInv, TypeOK
<1>2. /\ req[t] \in Requests /\ req[t].path \in Paths
      /\ floor[t] \in Nat /\ db \in Nat /\ acked \in Nat /\ floor[t] <= acked
  BY <1>1 DEF ControlInv, Control, InCall, Busy, TypeOK, Paths, FreshInv,
              Counters
<1>3. CASE Hit(t)
  <2>1. /\ ~ req[t].writes /\ acked' = acked
        /\ result'[t] = store[req[t].path] /\ store[req[t].path] # None
        /\ store[req[t].path] \in Nat
    BY <1>2, <1>3
       DEF Hit, ControlInv, TypeOK, Cache!CacheTypeOK, ServedInv,
           WritesMake
  <2>2. result'[t] \in floor[t] .. db
    BY <1>2, <2>1 DEF ServedInv, StoreServed, FreshInv, StoreFresh
  <2>3. QED
    BY <1>1, <2>1, <2>2, EndsCall DEF Promise!Acceptable
<1>4. CASE Raise(t)
  BY <1>1, <1>4, EndsCall DEF Raise
<1>5. CASE Settle(t)
  <2>1. /\ pc[t] = "settling" /\ result'[t] = result[t] /\ result[t] \in Nat
        /\ acked' = IF req[t].writes THEN Larger(acked, result[t]) ELSE acked
    BY <1>5 DEF Settle, ControlInv, Control, HoldsOutcome
  <2>2. /\ floor[t] <= result[t] /\ result[t] <= db
        /\ req[t].writes => floor[t] < result[t]
    BY <1>2, <2>1 DEF ServedInv, ReturnsServed, WritesMake, FreshInv,
                      ReturnsFresh
  <2>3. result[t] \in Promise!Acceptable(floor[t], req[t].writes)
    BY <1>2, <2>1, <2>2 DEF Promise!Acceptable
  <2>4. QED
    BY <1>1, <2>1, <2>3, EndsCall DEF Larger, Promise!Larger
<1>6. QED
  BY <1>3, <1>4, <1>5

\* Every step of the client is one its callers were promised, or none.
LEMMA PromisedStep ==
  ASSUME CacheEnabled, ControlInv, FreshInv, ServedInv, [Next]_vars
  PROVE  [Promise!Next]_Promise!promiseVars
<1>1. ASSUME NEW t \in Threads, Begin(t)
      PROVE  Promise!Begin(t)
  <2>1. /\ pc[t] = "idle" /\ pc'[t] = "begun" /\ result'[t] = None
        /\ req'[t] \in Requests /\ floor'[t] = acked
        /\ UNCHANGED <<db, acked>>
        /\ \A s \in Threads \ {t} : /\ pc'[s] = pc[s] /\ req'[s] = req[s]
                                    /\ floor'[s] = floor[s]
                                    /\ result'[s] = result[s]
    BY <1>1 DEF Begin, Goto, serverVars, ControlInv, TypeOK
  <2>2. /\ Calls' = [Calls EXCEPT ![t] = [floor |-> acked,
                                          writes |-> req'[t].writes]]
        /\ Results' = [Results EXCEPT ![t] = None]
        /\ Calls[t] = None
    BY <2>1, OneViewMoves DEF CallOf, ResultOf, Calls
  <2>3. req'[t].writes \in BOOLEAN
    BY <2>1, RequestType
  <2> HIDE DEF Calls, Results
  <2>4. QED
    BY <2>1, <2>2, <2>3
       DEF Promise!Begin, Calls, CallOf, Results, ResultOf
<1>2. ASSUME NEW t \in Threads, Hit(t) \/ Raise(t) \/ Settle(t)
      PROVE  Promise!End(t)
  BY <1>2, ReturnsAsPromised
<1>3. ASSUME NEW t \in Threads,
             \/ SampleGeneration(t) \/ Miss(t) \/ Dispatch(t) \/ Serve(t)
             \/ Answer(t) \/ Retry(t) \/ GiveUp(t) \/ LeaveGate(t)
      PROVE  /\ Calls' = Calls /\ Results' = Results /\ acked' = acked
             /\ db' = db \/ db' = db + 1
  <2>1. /\ pc[t] # "idle" /\ pc'[t] # "idle" /\ UNCHANGED <<req, floor, acked>>
        /\ \A s \in Threads \ {t} : pc'[s] = pc[s] /\ result'[s] = result[s]
        /\ db' = db \/ db' = db + 1
    BY <1>3 DEF SampleGeneration, Miss, Dispatch, Serve, Answer, Retry, GiveUp,
                Conclude, LeaveGate, Goto, serverVars, callVars,
                ControlInv, TypeOK
  <2>2. QED
    BY <2>1, InsideStutters
<1>4. ASSUME UNCHANGED <<pc, req, floor, result, acked>>,
             db' = db \/ db' = db + 1
      PROVE  /\ Calls' = Calls /\ Results' = Results /\ acked' = acked
             /\ db' = db \/ db' = db + 1
  BY <1>4 DEF Calls, CallOf, Results, ResultOf
<1>5. ASSUME Calls' = Calls, Results' = Results, acked' = acked,
             db' = db \/ db' = db + 1
      PROVE  [Promise!Next]_Promise!promiseVars
  BY <1>5 DEF Promise!Next, Promise!ServerWrites, Promise!promiseVars,
              Calls, CallOf, Results, ResultOf
<1>6. CASE \E t \in Threads : Begin(t) \/ Hit(t) \/ Raise(t) \/ Settle(t)
  BY <1>1, <1>2, <1>6 DEF Promise!Next
<1>7. CASE \E t \in Threads :
             \/ SampleGeneration(t) \/ Miss(t) \/ Dispatch(t) \/ Serve(t)
             \/ Answer(t) \/ Retry(t) \/ GiveUp(t) \/ LeaveGate(t)
  BY <1>3, <1>5, <1>7
<1>8. CASE ExternalWrite \/ UNCHANGED vars \/ \E k \in Paths : Expire(k)
  BY <1>4, <1>5, <1>8
     DEF ExternalWrite, Expire, vars, callVars, serverVars
<1>9. QED
  BY <1>6, <1>7, <1>8 DEF Next, Step, AllDone

\* With the cache on, a Client is what FreshClient promises, for any threads,
\* requests, retries and interleavings: neither the cache nor the sharing of
\* requests shows in what callers get (client.py:239-280).
THEOREM ClientKeepsPromise ==
  ASSUME CacheEnabled
  PROVE  Spec => KeepsPromise
<1>1. Init => Promise!Init
  BY DEF Init, Promise!Init
<1>2. ControlInv /\ FreshInv /\ ServedInv /\ [Next]_vars
        => [Promise!Next]_Promise!promiseVars
  BY PromisedStep
<1>3. QED
  BY <1>1, <1>2, ServedAlways, PTL DEF Spec, KeepsPromise, Promise!Spec
=============================================================================
