-------------------------- MODULE AsyncClientProofs --------------------------
(***************************************************************************)
(* Proofs about AsyncClient, for any tasks, requests and bounds.  What the *)
(* steps of the gate preserve is taken from AsyncSingleflightProofs.       *)
(***************************************************************************)
EXTENDS AsyncClient, TLAPS

GP == INSTANCE AsyncSingleflightProofs WITH
          Keys <- Nat \X Paths, Outcomes <- Nat \cup {Failed},
          Nobody <- None

GateKeys == Nat \X Paths
Ends == Nat \cup Exceptions

-----------------------------------------------------------------------------
(* The gate, seen from a call.                                             *)

\* The step takes t to label, with the key k, and moves nobody else.
Moves(t, label, k) ==
  /\ stage'[t] = label /\ key'[t] = k
  /\ \A s \in Tasks \ {t} : stage'[s] = stage[s] /\ key'[s] = key[s]

\* No future gets a value.
NothingNew ==
  \A x \in DOMAIN fut' : fut'[x] \in Nat => x \in DOMAIN fut /\ fut'[x] = fut[x]

\* What the gate's own proofs need of its constants.
LEMMA GateConstantsHold == GP!GateConstants
BY ConstantTypes, NothingIsDistinct DEF GP!GateConstants, Exceptions

\* Every step of the gate keeps the gate's invariant.
LEMMA EntryKeepsGate ==
  ASSUME GP!GateInv, NEW t \in Tasks, NEW k \in GateKeys,
         Gate!Wait(t, k) \/ Gate!Lead(t, k) \/ Gate!Follow(t, k)
           \/ Gate!TakeDone(t, k)
  PROVE  GP!GateInv'
<1> USE GateConstantsHold DEF GP!GateConstants, GateKeys
<1>1. CASE Gate!Wait(t, k)
  <2>1. GP!Wait(t, k)
    BY <1>1 DEF Gate!Wait, GP!Wait, Gate!Enqueue, GP!Enqueue, Gate!Inside,
                GP!Inside
  <2>2. QED
    BY <2>1, GP!WaitSound
<1>2. CASE Gate!Lead(t, k)
  <2>1. GP!Lead(t, k)
    BY <1>2 DEF Gate!Lead, GP!Lead, Gate!MayEnter, GP!MayEnter, Gate!Register,
                GP!Register, Gate!Release, GP!Release, Gate!Inside, GP!Inside
  <2>2. QED
    BY <2>1, GP!LeadSound
<1>3. CASE Gate!Follow(t, k)
  <2>1. GP!Follow(t, k)
    BY <1>3 DEF Gate!Follow, GP!Follow, Gate!MayEnter, GP!MayEnter,
                Gate!Inside, GP!Inside
  <2>2. QED
    BY <2>1, GP!FollowSound
<1>4. CASE Gate!TakeDone(t, k)
  <2>1. GP!TakeDone(t, k)
    BY <1>4 DEF Gate!TakeDone, GP!TakeDone, Gate!MayEnter, GP!MayEnter,
                Gate!Release, GP!Release, Gate!Return, GP!Return
  <2>2. QED
    BY <2>1, GP!TakeDoneSound
<1>5. QED
  BY <1>1, <1>2, <1>3, <1>4

LEMMA ExitKeepsGate ==
  ASSUME GP!GateInv, NEW t \in Tasks, NEW o \in Nat \cup {Failed, Cancelled},
         Gate!Resume(t) \/ Gate!Pop(t) \/ Gate!CompletePoisoned(t)
           \/ Gate!CompleteAndPop(t) \/ Gate!CompleteAndWait(t, o)
  PROVE  GP!GateInv'
<1> USE GateConstantsHold DEF GP!GateConstants
<1>1. CASE Gate!Resume(t)
  <2>1. GP!Resume(t)
    BY <1>1 DEF Gate!Resume, GP!Resume, Gate!Release, GP!Release, Gate!Return,
                GP!Return
  <2>2. QED
    BY <2>1, GP!ResumeSound
<1>2. CASE Gate!Pop(t)
  <2>1. GP!Pop(t)
    BY <1>2 DEF Gate!Pop, GP!Pop, Gate!Release, GP!Release, Gate!Return,
                GP!Return, Gate!Unregister, GP!Unregister
  <2>2. QED
    BY <2>1, GP!PopSound
<1>3. CASE Gate!CompletePoisoned(t)
  <2>1. GP!CompletePoisoned(t)
    BY <1>3 DEF Gate!CompletePoisoned, GP!CompletePoisoned, Gate!Return,
                GP!Return, Gate!lockVars, GP!lockVars
  <2>2. QED
    BY <2>1, GP!CompletePoisonedSound
<1>4. CASE Gate!CompleteAndPop(t)
  <2>1. GP!CompleteAndPop(t)
    BY <1>4 DEF Gate!CompleteAndPop, GP!CompleteAndPop, Gate!Return, GP!Return,
                Gate!lockVars, GP!lockVars, Gate!Unregister, GP!Unregister
  <2>2. QED
    BY <2>1, GP!CompleteAndPopSound
<1>5. CASE Gate!CompleteAndWait(t, o)
  <2>1. GP!CompleteAndWait(t, o)
    BY <1>5 DEF Gate!CompleteAndWait, GP!CompleteAndWait, Gate!Enqueue,
                GP!Enqueue, Gate!Inside, GP!Inside
  <2>2. QED
    BY <2>1, GP!CompleteAndWaitSound
<1>6. QED
  BY <1>1, <1>2, <1>3, <1>4, <1>5

LEMMA CancelKeepsGate ==
  ASSUME GP!GateInv, NEW t \in Tasks,
         Gate!CancelAcquire(t) \/ Gate!CancelFollower(t) \/ Gate!CancelFuture(t)
  PROVE  GP!GateInv'
<1> USE GateConstantsHold DEF GP!GateConstants
<1>1. CASE Gate!CancelAcquire(t)
  <2>1. GP!CancelAcquire(t)
    BY <1>1 DEF Gate!CancelAcquire, GP!CancelAcquire, Gate!Abandon, GP!Abandon,
                Gate!Release, GP!Release, Gate!Return, GP!Return,
                Gate!Without, GP!Without
  <2>2. QED
    BY <2>1, GP!CancelAcquireSound
<1>2. CASE Gate!CancelFollower(t)
  <2>1. GP!CancelFollower(t)
    BY <1>2 DEF Gate!CancelFollower, GP!CancelFollower, Gate!Release,
                GP!Release, Gate!Return, GP!Return
  <2>2. QED
    BY <2>1, GP!CancelFollowerSound
<1>3. CASE Gate!CancelFuture(t)
  <2>1. GP!CancelFuture(t)
    BY <1>3 DEF Gate!CancelFuture, GP!CancelFuture, Gate!lockVars, GP!lockVars
  <2>2. QED
    BY <2>1, GP!CancelFutureSound
<1>4. QED
  BY <1>1, <1>2, <1>3

LEMMA GateLeftAlone ==
  ASSUME GP!GateInv, UNCHANGED gateVars
  PROVE  GP!GateInv'
BY GateConstantsHold, GP!GateUntouched
   DEF GP!GateConstants, gateVars, GP!gateVars

\* The types of the gate's variables.
LEMMA GateTypes ==
  ASSUME GP!GateInv
  PROVE  /\ Gate!GateTypeOK
         /\ stage \in [Tasks -> Gate!Stages]
         /\ key \in [Tasks -> GateKeys \cup {None}]
         /\ DOMAIN fut \subseteq GateKeys
         /\ \A k \in DOMAIN fut : fut[k] \in Ends \cup {Pending}
         /\ \A k \in DOMAIN fut : fut[k] # Pending => fut[k] \in Ends
<1>1. Gate!GateTypeOK
  BY DEF GP!GateInv, GP!GateTypeOK, Gate!GateTypeOK, GP!Stages, Gate!Stages,
         GP!FutureStates, Gate!FutureStates
<1>2. QED
  BY <1>1 DEF Gate!GateTypeOK, Gate!FutureStates, Exceptions, Ends, GateKeys

\* What each step of the gate does to the task that takes it.
LEMMA EntryMoves ==
  ASSUME GP!GateInv, NEW t \in Tasks, NEW k \in GateKeys
  PROVE  /\ Gate!Wait(t, k) => Moves(t, "entering", k) /\ NothingNew
         /\ Gate!Lead(t, k) => Moves(t, "running", k) /\ NothingNew
         /\ Gate!Follow(t, k) => Moves(t, "awaiting", k) /\ NothingNew
         /\ Gate!TakeDone(t, k) =>
              /\ Moves(t, "out", None) /\ NothingNew
              /\ k \in DOMAIN fut /\ fut[k] \in Ends
<1>1. /\ stage \in [Tasks -> Gate!Stages]
      /\ key \in [Tasks -> GateKeys \cup {None}]
      /\ \A x \in DOMAIN fut : fut[x] # Pending => fut[x] \in Ends
  BY GateTypes
<1>2. Pending \notin Nat
  BY ConstantTypes
<1>3. Gate!Lead(t, k) => Moves(t, "running", k) /\ NothingNew
  BY <1>1, <1>2 DEF Gate!Lead, Gate!Register, Gate!Inside, Moves, NothingNew
<1>4. QED
  BY <1>1, <1>3 DEF Gate!Wait, Gate!Follow, Gate!TakeDone, Gate!Inside,
                    Gate!Return, Moves, NothingNew

LEMMA ExitMoves ==
  ASSUME GP!GateInv, NEW t \in Tasks
  PROVE  /\ Gate!Resume(t) \/ Gate!Pop(t) =>
              /\ Moves(t, "out", None) /\ NothingNew
              /\ stage[t] \in {"awaiting", "popping"}
              /\ key[t] \in DOMAIN fut /\ fut[key[t]] \in Ends
         /\ Gate!CompletePoisoned(t) \/ Gate!CompleteAndPop(t) =>
              Moves(t, "out", None) /\ NothingNew
         /\ Gate!CancelAcquire(t) \/ Gate!CancelFollower(t) =>
              /\ Moves(t, "out", None) /\ NothingNew
              /\ stage[t] \in {"entering", "awaiting", "popping"}
         /\ Gate!CancelFuture(t) =>
              /\ Moves(t, "awaiting", key[t]) /\ NothingNew
              /\ stage[t] = "awaiting"
<1>1. /\ stage \in [Tasks -> Gate!Stages]
      /\ key \in [Tasks -> GateKeys \cup {None}]
      /\ \A x \in DOMAIN fut : fut[x] # Pending => fut[x] \in Ends
  BY GateTypes
<1>2. /\ stage[t] = "awaiting" => key[t] \in DOMAIN fut
      /\ stage[t] = "popping" => key[t] \in DOMAIN fut /\ fut[key[t]] # Pending
  BY DEF GP!GateInv, GP!FutInv
<1>3. Gate!Return(t) => Moves(t, "out", None)
  BY <1>1 DEF Gate!Return, Moves
<1>4. Gate!Unregister(key[t]) => NothingNew
  BY DEF Gate!Unregister, NothingNew
<1>5. UNCHANGED fut => NothingNew
  BY DEF NothingNew
<1>6. Gate!CancelFuture(t) => Moves(t, "awaiting", key[t]) /\ NothingNew
  BY ConstantTypes DEF Gate!CancelFuture, Moves, NothingNew, Exceptions
<1>7. QED
  BY <1>1, <1>2, <1>3, <1>4, <1>5, <1>6
     DEF Gate!Resume, Gate!Pop, Gate!CompletePoisoned, Gate!CompleteAndPop,
         Gate!CancelAcquire, Gate!CancelFollower, Gate!CancelFuture

LEMMA PublishMoves ==
  ASSUME GP!GateInv, NEW t \in Tasks, NEW o, Gate!CompleteAndWait(t, o)
  PROVE  /\ Moves(t, "popping", key[t])
         /\ \A x \in DOMAIN fut' :
              /\ x \in DOMAIN fut
              /\ x # key[t] => fut'[x] = fut[x]
              /\ x = key[t] => fut'[x] = o
<1>1. /\ stage \in [Tasks -> Gate!Stages]
      /\ key \in [Tasks -> GateKeys \cup {None}]
  BY GateTypes
<1>2. QED
  BY <1>1 DEF Gate!CompleteAndWait, Gate!Inside, Moves

-----------------------------------------------------------------------------
(* Control: a task's place in the gate is its place in the call, and it is *)
(* there with its own call's key.                                          *)

Busy(t) == pc[t] # "idle"
Upstream(t) == pc[t] \in {"sending", "served"}

\* Where a call at label, of request r, is in the gate.
Fits(label, r, place) ==
  /\ label = "idle" => place = "out"
  /\ label = "gate" => place \in {"entering", "awaiting", "popping"}
  /\ label \in {"sending", "served"} =>
       place = IF r.coalesce THEN "running" ELSE "out"

TaskControl(t) ==
  /\ Busy(t) => req[t] \in Requests
  /\ Fits(pc[t], req[t], stage[t])
  /\ stage[t] # "out" => req[t].coalesce /\ key[t] = GateKey(req[t], gen[t])
  /\ pc[t] = "served" => reply[t] \in Nat

Control == \A t \in Tasks : TaskControl(t)

\* TypeOK without the gate's part.
CallTypeOK ==
  /\ Cache!CacheTypeOK
  /\ db \in Nat /\ external \in Nat
  /\ pc \in [Tasks -> PCs]
  /\ req \in [Tasks -> Requests \cup {None}]
  /\ gen \in [Tasks -> Nat]
  /\ tries \in [Tasks -> 0 .. MaxRetries]
  /\ reply \in [Tasks -> Nat \cup {None}]
  /\ result \in [Tasks -> Nat \cup {None} \cup Exceptions]
  /\ calls \in Nat /\ cancels \in Nat
  /\ acked \in Nat
  /\ floor \in [Tasks -> Nat]

ControlInv == GP!GateInv /\ CallTypeOK /\ Control

LEMMA ControlImpliesTypes == ControlInv => TypeOK
BY GateTypes DEF ControlInv, CallTypeOK, TypeOK

LEMMA ControlInit == Init => ControlInv
<1>1. ASSUME Init PROVE GP!GateInv
  <2>1. GP!GateInit
    BY <1>1 DEF Init, Gate!GateInit, GP!GateInit
  <2>2. QED
    BY <2>1, GateConstantsHold, GP!GateInitSound DEF GP!GateConstants
<1>2. Init => CallTypeOK /\ Control
  BY ConstantTypes
     DEF Init, CallTypeOK, Control, TaskControl, Fits, Busy, PCs,
         Gate!GateInit, Cache!CacheInit, Cache!CacheTypeOK
<1>3. QED
  BY <1>1, <1>2 DEF ControlInv

\* What a step leaves to the other calls, and the types of what a call does
\* not compute.
Bookkept(t) ==
  /\ req' \in [Tasks -> Requests \cup {None}]
  /\ floor' \in [Tasks -> Nat]
  /\ calls' \in Nat /\ cancels' \in Nat /\ db' \in Nat /\ external' \in Nat
  /\ \A s \in Tasks \ {t} : req'[s] = req[s] /\ floor'[s] = floor[s]

\* A step of t that keeps t's own control keeps everyone's.
LEMMA OneTaskMoves ==
  ASSUME Control, NEW t \in Tasks, NEW place, NEW k, Moves(t, place, k),
         \A s \in Tasks \ {t} :
           /\ pc'[s] = pc[s] /\ req'[s] = req[s]
           /\ gen'[s] = gen[s] /\ reply'[s] = reply[s],
         TaskControl(t)'
  PROVE  Control'
<1>1. ASSUME NEW s \in Tasks \ {t}
      PROVE  TaskControl(s)'
  <2>1. TaskControl(s)
    BY DEF Control
  <2>2. /\ pc'[s] = pc[s] /\ req'[s] = req[s] /\ gen'[s] = gen[s]
        /\ reply'[s] = reply[s] /\ stage'[s] = stage[s] /\ key'[s] = key[s]
    BY DEF Moves
  <2>3. QED
    BY <2>1, <2>2 DEF TaskControl, Busy, Fits, GateKey
<1>2. QED
  BY <1>1 DEF Control

\* A call that goes on keeps control, if its new label fits its place.
LEMMA GoesOnControl ==
  ASSUME ControlInv, NEW t \in Tasks, Bookkept(t), req'[t] \in Requests,
         NEW label \in {"gate", "sending"}, NEW g \in Nat, GoesOn(t, label, g),
         NEW place, NEW k, Moves(t, place, k), Fits(label, req'[t], place),
         place # "out" => req'[t].coalesce /\ k = GateKey(req'[t], g)
  PROVE  CallTypeOK' /\ Control'
<1>1. CallTypeOK'
  BY ConstantTypes
     DEF ControlInv, CallTypeOK, Bookkept, GoesOn, PCs, cacheVars,
         Cache!CacheTypeOK
<1>2. /\ pc'[t] = label /\ gen'[t] = g
      /\ \A s \in Tasks \ {t} : pc'[s] = pc[s] /\ req'[s] = req[s]
           /\ gen'[s] = gen[s] /\ reply'[s] = reply[s]
  BY DEF ControlInv, CallTypeOK, GoesOn, Bookkept
<1>3. TaskControl(t)'
  BY <1>2 DEF TaskControl, Busy, Fits, Moves, GateKey
<1>4. Control'
  BY <1>2, <1>3, OneTaskMoves DEF ControlInv
<1>5. QED
  BY <1>1, <1>4

\* What a put under any generation leaves is a cache.
LEMMA PutType ==
  ASSUME Cache!CacheTypeOK, NEW k \in Paths, NEW v \in Nat, NEW g,
         Cache!Put(k, v, g)
  PROVE  Cache!CacheTypeOK'
BY DEF Cache!CacheTypeOK, Cache!Put

\* What Returns does.
LEMMA ReturnsLocals ==
  ASSUME CallTypeOK, NEW t \in Tasks, NEW o \in Ends, Returns(t, o)
  PROVE  /\ pc' \in [Tasks -> PCs] /\ gen' \in [Tasks -> Nat]
         /\ tries' \in [Tasks -> 0 .. MaxRetries]
         /\ reply' \in [Tasks -> Nat \cup {None}]
         /\ result' \in [Tasks -> Nat \cup {None} \cup Exceptions]
         /\ pc'[t] = "idle" /\ result'[t] = o
         /\ \A s \in Tasks \ {t} :
              /\ pc'[s] = pc[s] /\ gen'[s] = gen[s] /\ reply'[s] = reply[s]
              /\ result'[s] = result[s]
BY ConstantTypes DEF CallTypeOK, Returns, PCs, Ends

\* So does a call that ends.
LEMMA ReturnsControl ==
  ASSUME ControlInv, NEW t \in Tasks, Bookkept(t), NEW o \in Ends,
         Returns(t, o), Cache!CacheTypeOK', acked' \in Nat,
         NEW k, Moves(t, "out", k)
  PROVE  CallTypeOK' /\ Control'
<1>1. CallTypeOK'
  BY ReturnsLocals DEF ControlInv, CallTypeOK, Bookkept
<1>2. TaskControl(t)'
  BY ReturnsLocals DEF ControlInv, TaskControl, Busy, Fits, Moves
<1>3. \A s \in Tasks \ {t} : pc'[s] = pc[s] /\ req'[s] = req[s]
           /\ gen'[s] = gen[s] /\ reply'[s] = reply[s]
  BY ReturnsLocals DEF ControlInv, Bookkept
<1>4. Control'
  BY <1>2, <1>3, OneTaskMoves DEF ControlInv
<1>5. QED
  BY <1>1, <1>4

LEMMA SettlesControl ==
  ASSUME ControlInv, NEW t \in Tasks, Bookkept(t), NEW r \in Requests,
         NEW g \in Nat, NEW o \in Ends, Settles(t, r, g, o),
         NEW k, Moves(t, "out", k)
  PROVE  CallTypeOK' /\ Control'
<1>1. Cache!CacheTypeOK
  BY DEF ControlInv, CallTypeOK
<1>2. Cache!CacheTypeOK'
  <2>1. CASE UNCHANGED cacheVars
    BY <1>1, <2>1 DEF Cache!CacheTypeOK, cacheVars
  <2>2. CASE Cache!Clear
    BY <1>1, <2>2 DEF Cache!CacheTypeOK, Cache!Clear
  <2>3. CASE o \in Nat /\ Cache!Put(r.path, o, g)
    BY <1>1, <2>3, PutType DEF Paths
  <2>4. QED
    BY <2>1, <2>2, <2>3 DEF Settles, Ends
<1>3. acked' \in Nat
  BY DEF Settles, Larger, Ends, ControlInv, CallTypeOK
<1>4. QED
  BY <1>2, <1>3, ReturnsControl DEF Settles

-----------------------------------------------------------------------------
(* One lemma per way a call moves, then one per action.                    *)

\* The keys of requests are the gate's keys.
LEMMA KeysOfRequests ==
  ASSUME NEW r \in Requests, NEW g \in Nat
  PROVE  GateKey(r, g) \in GateKeys /\ r.path \in Paths
BY DEF GateKey, GateKeys, Paths

LEMMA SectionControl ==
  ASSUME ControlInv, NEW t \in Tasks, Bookkept(t), NEW r \in Requests,
         r.coalesce, req'[t] = r, NEW g \in Nat,
         \/ Section(t, r, g)
         \/ Gate!Wait(t, GateKey(r, g)) /\ GoesOn(t, "gate", g)
  PROVE  ControlInv'
<1> DEFINE k == GateKey(r, g)
<1>1. k \in GateKeys
  BY KeysOfRequests
<1>2. GP!GateInv
  BY DEF ControlInv
<1>3. CASE Gate!Lead(t, k) /\ GoesOn(t, "sending", g)
  <2>1. GP!GateInv' /\ Moves(t, "running", k)
    BY <1>1, <1>2, <1>3, EntryKeepsGate, EntryMoves
  <2>2. Fits("sending", req'[t], "running")
    BY DEF Fits
  <2>3. CallTypeOK' /\ Control'
    BY <1>3, <2>1, <2>2, GoesOnControl
  <2>4. QED
    BY <2>1, <2>3 DEF ControlInv
<1>4. CASE Gate!Follow(t, k) /\ GoesOn(t, "gate", g)
  <2>1. GP!GateInv' /\ Moves(t, "awaiting", k)
    BY <1>1, <1>2, <1>4, EntryKeepsGate, EntryMoves
  <2>2. Fits("gate", req'[t], "awaiting")
    BY DEF Fits
  <2>3. CallTypeOK' /\ Control'
    BY <1>4, <2>1, <2>2, GoesOnControl
  <2>4. QED
    BY <2>1, <2>3 DEF ControlInv
<1>5. CASE Gate!Wait(t, k) /\ GoesOn(t, "gate", g)
  <2>1. GP!GateInv' /\ Moves(t, "entering", k)
    BY <1>1, <1>2, <1>5, EntryKeepsGate, EntryMoves
  <2>2. Fits("gate", req'[t], "entering")
    BY DEF Fits
  <2>3. CallTypeOK' /\ Control'
    BY <1>5, <2>1, <2>2, GoesOnControl
  <2>4. QED
    BY <2>1, <2>3 DEF ControlInv
<1>6. CASE Gate!TakeDone(t, k) /\ Settles(t, r, g, fut[k])
  <2>1. GP!GateInv' /\ Moves(t, "out", None) /\ fut[k] \in Ends
    BY <1>1, <1>2, <1>6, EntryKeepsGate, EntryMoves
  <2>2. CallTypeOK' /\ Control'
    BY <1>6, <2>1, SettlesControl
  <2>3. QED
    BY <2>1, <2>2 DEF ControlInv
<1>7. QED
  BY <1>3, <1>4, <1>5, <1>6 DEF Section

\* A step that does not touch the gate moves nobody in it.
LEMMA NobodyMoves ==
  ASSUME ControlInv, NEW t \in Tasks, UNCHANGED gateVars
  PROVE  GP!GateInv' /\ Moves(t, stage[t], key[t]) /\ NothingNew
BY GateLeftAlone DEF ControlInv, gateVars, Moves, NothingNew

LEMMA BeginControl ==
  ASSUME ControlInv, NEW t \in Tasks, NEW r \in Requests, Begin(t, r)
  PROVE  ControlInv'
<1> DEFINE g == IF CacheEnabled THEN generation ELSE 0
           hit == Caches(r) /\ store[r.path] # None
<1>1. g \in Nat
  BY DEF ControlInv, CallTypeOK, Cache!CacheTypeOK
<1>2. Bookkept(t) /\ req'[t] = r
  BY DEF Begin, Bookkept, ControlInv, CallTypeOK, serverVars
<1>3. stage[t] = "out"
  BY DEF Begin, ControlInv, Control, TaskControl, Fits
<1>4. CASE /\ hit /\ Returns(t, store[r.path])
           /\ UNCHANGED <<gateVars, cacheVars, acked>>
  <2>1. store[r.path] \in Ends
    BY <1>4, KeysOfRequests, 0 \in Nat
       DEF ControlInv, CallTypeOK, Cache!CacheTypeOK, Ends
  <2>2. GP!GateInv' /\ Moves(t, "out", key[t])
    BY <1>3, <1>4, NobodyMoves
  <2>3. Cache!CacheTypeOK' /\ acked' \in Nat
    BY <1>4 DEF ControlInv, CallTypeOK, Cache!CacheTypeOK, cacheVars
  <2>4. CallTypeOK' /\ Control'
    BY <1>2, <1>4, <2>1, <2>2, <2>3, ReturnsControl
  <2>5. QED
    BY <2>2, <2>4 DEF ControlInv
<1>5. CASE /\ r.coalesce
           /\ \/ Section(t, r, g)
              \/ Gate!Wait(t, GateKey(r, g)) /\ GoesOn(t, "gate", g)
  BY <1>1, <1>2, <1>5, SectionControl
<1>6. CASE /\ ~ r.coalesce /\ GoesOn(t, "sending", g)
           /\ UNCHANGED gateVars
  <2>1. GP!GateInv' /\ Moves(t, "out", key[t])
    BY <1>3, <1>6, NobodyMoves
  <2>2. Fits("sending", req'[t], "out")
    BY <1>2, <1>6 DEF Fits
  <2>3. CallTypeOK' /\ Control'
    BY <1>1, <1>2, <1>6, <2>1, <2>2, GoesOnControl
  <2>4. QED
    BY <2>1, <2>3 DEF ControlInv
<1>7. QED
  BY <1>4, <1>5, <1>6 DEF Begin

\* What a task inside a call has.
LEMMA InCall ==
  ASSUME ControlInv, NEW t \in Tasks, Busy(t)
  PROVE  /\ req[t] \in Requests /\ gen[t] \in Nat
         /\ GateKey(req[t], gen[t]) \in GateKeys
BY KeysOfRequests DEF ControlInv, CallTypeOK, Control, TaskControl

LEMMA InGate ==
  ASSUME ControlInv, NEW t \in Tasks, stage[t] # "out"
  PROVE  /\ Busy(t) /\ req[t].coalesce
         /\ key[t] = GateKey(req[t], gen[t])
         /\ stage[t] # "running" <=> pc[t] = "gate"
         /\ stage[t] = "running" <=> Upstream(t)
BY DEF ControlInv, CallTypeOK, Control, TaskControl, Fits, Busy, Upstream, PCs

LEMMA EnterControl ==
  ASSUME ControlInv, NEW t \in Tasks, Enter(t)
  PROVE  ControlInv'
<1>1. /\ req[t] \in Requests /\ gen[t] \in Nat /\ req[t].coalesce
  BY InCall, InGate DEF Enter
<1>2. Bookkept(t) /\ req' = req
  BY DEF Enter, Bookkept, ControlInv, CallTypeOK, serverVars, beginVars
<1>3. QED
  BY <1>1, <1>2, SectionControl DEF Enter

LEMMA FinishControl ==
  ASSUME ControlInv, NEW t \in Tasks, Finish(t)
  PROVE  ControlInv'
<1>1. GP!GateInv
  BY DEF ControlInv
<1>2. GP!GateInv' /\ Moves(t, "out", None)
        /\ stage[t] # "out" /\ fut[key[t]] \in Ends
  BY <1>1, ExitKeepsGate, ExitMoves, 0 \in Nat DEF Finish
<1>3. req[t] \in Requests /\ gen[t] \in Nat
  BY <1>2, InCall, InGate
<1>4. Bookkept(t)
  BY DEF Finish, Bookkept, ControlInv, CallTypeOK, serverVars, beginVars
<1>5. CallTypeOK' /\ Control'
  BY <1>2, <1>3, <1>4, SettlesControl DEF Finish
<1>6. QED
  BY <1>2, <1>5 DEF ControlInv

LEMMA ConcludeControl ==
  ASSUME ControlInv, NEW t \in Tasks, NEW o \in Nat \cup {Failed, Cancelled},
         Conclude(t, o), Bookkept(t), UNCHANGED req
  PROVE  ControlInv'
<1>1. GP!GateInv /\ o \in Ends /\ Invalid \in Ends
  BY DEF ControlInv, Ends, Exceptions
<1>2. Busy(t) /\ req[t] \in Requests /\ gen[t] \in Nat
  <2>1. Busy(t)
    BY DEF Conclude, Busy
  <2>2. QED
    BY <2>1, InCall
<1>3. CASE ~ req[t].coalesce /\ Settles(t, req[t], gen[t], o)
           /\ UNCHANGED gateVars
  <2>1. stage[t] = "out"
    BY <1>3, InGate
  <2>2. GP!GateInv' /\ Moves(t, "out", key[t])
    BY <1>3, <2>1, NobodyMoves
  <2>3. CallTypeOK' /\ Control'
    BY <1>1, <1>2, <1>3, <2>2, SettlesControl
  <2>4. QED
    BY <2>2, <2>3 DEF ControlInv
<1>4. CASE Gate!CompletePoisoned(t) /\ Settles(t, req[t], gen[t], Invalid)
  <2>1. GP!GateInv' /\ Moves(t, "out", None)
    BY <1>1, <1>4, ExitKeepsGate, ExitMoves
  <2>2. CallTypeOK' /\ Control'
    BY <1>1, <1>2, <1>4, <2>1, SettlesControl
  <2>3. QED
    BY <2>1, <2>2 DEF ControlInv
<1>5. CASE Gate!CompleteAndPop(t) /\ Settles(t, req[t], gen[t], o)
  <2>1. GP!GateInv' /\ Moves(t, "out", None)
    BY <1>1, <1>5, ExitKeepsGate, ExitMoves
  <2>2. CallTypeOK' /\ Control'
    BY <1>1, <1>2, <1>5, <2>1, SettlesControl
  <2>3. QED
    BY <2>1, <2>2 DEF ControlInv
<1>6. CASE /\ req[t].coalesce
           /\ Gate!CompleteAndWait(t, o) /\ GoesOn(t, "gate", gen[t])
  <2>1. GP!GateInv' /\ Moves(t, "popping", key[t])
    BY <1>1, <1>6, ExitKeepsGate, PublishMoves
  <2>2. key[t] = GateKey(req[t], gen[t])
    BY <1>6, InGate DEF Gate!CompleteAndWait
  <2>3. Fits("gate", req'[t], "popping")
    BY DEF Fits
  <2>4. CallTypeOK' /\ Control'
    BY <1>2, <1>6, <2>1, <2>2, <2>3, GoesOnControl
  <2>5. QED
    BY <2>1, <2>4 DEF ControlInv
<1>7. QED
  BY <1>3, <1>4, <1>5, <1>6 DEF Conclude

LEMMA CancelControl ==
  ASSUME ControlInv, NEW t \in Tasks, Cancel(t)
  PROVE  ControlInv'
<1>1. Bookkept(t) /\ UNCHANGED req
  BY DEF Cancel, Bookkept, ControlInv, CallTypeOK, serverVars, beginVars
<1>2. GP!GateInv /\ Cancelled \in Ends
  BY DEF ControlInv, Ends, Exceptions
<1>3. CASE Conclude(t, Cancelled)
  BY <1>1, <1>3, ConcludeControl
<1>4. CASE /\ Gate!CancelAcquire(t) \/ Gate!CancelFollower(t)
           /\ Settles(t, req[t], gen[t], Cancelled)
  <2>1. GP!GateInv' /\ Moves(t, "out", None) /\ stage[t] # "out"
    BY <1>2, <1>4, CancelKeepsGate, ExitMoves
  <2>2. req[t] \in Requests /\ gen[t] \in Nat
    BY <2>1, InCall, InGate
  <2>3. CallTypeOK' /\ Control'
    BY <1>1, <1>2, <1>4, <2>1, <2>2, SettlesControl
  <2>4. QED
    BY <2>1, <2>3 DEF ControlInv
<1>5. CASE Gate!CancelFuture(t) /\ GoesOn(t, "gate", gen[t])
  <2>1. GP!GateInv' /\ Moves(t, "awaiting", key[t]) /\ stage[t] = "awaiting"
    BY <1>2, <1>5, CancelKeepsGate, ExitMoves
  <2>2. /\ req[t] \in Requests /\ gen[t] \in Nat /\ req[t].coalesce
        /\ key[t] = GateKey(req[t], gen[t])
    BY <2>1, InCall, InGate
  <2>3. Fits("gate", req'[t], "awaiting")
    BY DEF Fits
  <2>4. CallTypeOK' /\ Control'
    BY <1>1, <1>5, <2>1, <2>2, <2>3, GoesOnControl
  <2>5. QED
    BY <2>1, <2>4 DEF ControlInv
<1>6. QED
  BY <1>3, <1>4, <1>5 DEF Cancel

\* An attempt is served, or begins anew: the call stays upstream.
LEMMA AttemptControl ==
  ASSUME ControlInv, NEW t \in Tasks, Serve(t) \/ Retry(t)
  PROVE  ControlInv'
<1>1. GP!GateInv' /\ Moves(t, stage[t], key[t])
  BY NobodyMoves DEF Serve, Retry
<1>2. CallTypeOK'
  BY ConstantTypes
     DEF ControlInv, CallTypeOK, Serve, Retry, PCs, cacheVars, serverVars,
         beginVars, Cache!CacheTypeOK
<1>3. /\ Upstream(t) /\ Upstream(t)' /\ UNCHANGED <<req, gen>>
      /\ pc'[t] = "served" => reply'[t] \in Nat
      /\ \A s \in Tasks \ {t} : pc'[s] = pc[s] /\ reply'[s] = reply[s]
  BY DEF ControlInv, CallTypeOK, Serve, Retry, beginVars, Upstream
<1>4. TaskControl(t)
  BY DEF ControlInv, Control
<1>5. TaskControl(t)'
  BY <1>1, <1>3, <1>4 DEF TaskControl, Busy, Fits, Upstream, Moves, GateKey
<1>6. Control'
  BY <1>1, <1>3, <1>5, OneTaskMoves DEF ControlInv
<1>7. QED
  BY <1>1, <1>2, <1>6 DEF ControlInv

\* Steps that no task takes.
LEMMA OthersControl ==
  ASSUME ControlInv,
         (\E k \in Paths : Expire(k)) \/ ExternalWrite \/ UNCHANGED vars
  PROVE  ControlInv'
<1>1. /\ UNCHANGED <<gateVars, beginVars, pc, gen, tries, reply, result>>
      /\ UNCHANGED <<cancels, acked>>
  BY DEF Expire, ExternalWrite, vars
<1>2. GP!GateInv'
  BY <1>1, GateLeftAlone DEF ControlInv
<1>3. Control'
  BY <1>1 DEF ControlInv, Control, TaskControl, Busy, Fits, GateKey,
              beginVars, gateVars
<1>4. Cache!CacheTypeOK' /\ db' \in Nat /\ external' \in Nat
  BY DEF ControlInv, CallTypeOK, Cache!CacheTypeOK, Expire, Cache!Forget,
         ExternalWrite, vars, serverVars, cacheVars
<1>5. CallTypeOK'
  BY <1>1, <1>4 DEF ControlInv, CallTypeOK, beginVars
<1>6. QED
  BY <1>2, <1>3, <1>5 DEF ControlInv

LEMMA ControlStep == ControlInv /\ [Next]_vars => ControlInv'
<1> SUFFICES ASSUME ControlInv, [Next]_vars
             PROVE  ControlInv'
  OBVIOUS
<1>1. ASSUME NEW t \in Tasks, NEW r \in Requests, Begin(t, r)
      PROVE  ControlInv'
  BY <1>1, BeginControl
<1>2. ASSUME NEW t \in Tasks, Step(t)
      PROVE  ControlInv'
  <2>1. CASE Enter(t) \/ Finish(t)
    BY <2>1, EnterControl, FinishControl
  <2>2. CASE Serve(t) \/ Retry(t)
    BY <2>2, AttemptControl
  <2>3. CASE Answer(t) \/ GiveUp(t)
    <3>1. Bookkept(t) /\ UNCHANGED req
      BY <2>3 DEF Answer, GiveUp, Bookkept, ControlInv, CallTypeOK, serverVars,
                  beginVars
    <3>2. Answer(t) => reply[t] \in Nat
      BY DEF Answer, ControlInv, Control, TaskControl
    <3>3. QED
      BY <2>3, <3>1, <3>2, ConcludeControl DEF Answer, GiveUp
  <2>4. QED
    BY <1>2, <2>1, <2>2, <2>3 DEF Step
<1>3. ASSUME NEW t \in Tasks, Cancel(t)
      PROVE  ControlInv'
  BY <1>3, CancelControl
<1>4. CASE (\E k \in Paths : Expire(k)) \/ ExternalWrite \/ UNCHANGED vars
  BY <1>4, OthersControl
<1>5. QED
  BY <1>1, <1>2, <1>3, <1>4 DEF Next, AllDone

LEMMA ControlAlways == Spec => []ControlInv
BY ControlInit, ControlStep, PTL DEF Spec

-----------------------------------------------------------------------------
\* Every variable keeps its type.
THEOREM TypeCorrect == Spec => []TypeOK
BY ControlAlways, ControlImpliesTypes, PTL

\* A request that coalesces is upstream once per key and generation,
\* whichever tasks are cancelled (_singleflight.py:100-123,
\* async_client.py:237-243).
THEOREM OneUpstream == Spec => []OneUpstreamPerKey
<1>1. ControlInv => OneUpstreamPerKey
  <2>1. ASSUME ControlInv, NEW t \in Tasks, Upstream(t), req[t].coalesce
        PROVE  stage[t] = "running"
    BY <2>1 DEF ControlInv, Control, TaskControl, Fits, Upstream
  <2>2. GP!GateInv => GP!OneRunPerKey
    BY GateConstantsHold, GP!GateInvSuffices DEF GP!GateConstants
  <2>3. QED
    BY <2>1, <2>2 DEF ControlInv, GP!OneRunPerKey, OneUpstreamPerKey, Upstream
<1>2. QED
  BY <1>1, ControlAlways, PTL

\* Whoever awaits a pending future has a request of its own key upstream
\* that will complete it (_singleflight.py:101-104).
THEOREM NobodyIsLeftWaiting == Spec => []FollowersAreServed
<1>1. ControlInv => FollowersAreServed
  <2> SUFFICES ASSUME ControlInv, NEW t \in Tasks,
                      stage[t] = "awaiting", fut[key[t]] = Pending
               PROVE  \E s \in Tasks :
                        /\ pc[s] \in {"sending", "served"} /\ req[s].coalesce
                        /\ GateKey(req[s], gen[s]) = key[t]
    BY DEF FollowersAreServed
  <2>1. GP!FollowersHaveLeaders
    BY GateConstantsHold, GP!GateInvSuffices DEF GP!GateConstants, ControlInv
  <2>2. PICK s \in Tasks : stage[s] = "running" /\ key[s] = key[t]
    BY <2>1 DEF GP!FollowersHaveLeaders
  <2>3. QED
    BY <2>2, InGate DEF Upstream
<1>2. QED
  BY <1>1, ControlAlways, PTL

-----------------------------------------------------------------------------
(* Progress.                                                               *)

\* A step leaves where s is in its call.
Stays(s) == pc'[s] = pc[s] /\ tries'[s] = tries[s] /\ stage'[s] = stage[s]

\* Whichever way a step leaves t's call, it leaves the others' alone.
LEMMA LeavesOthers ==
  ASSUME ControlInv, NEW t \in Tasks, NEW place, NEW k, Moves(t, place, k),
         NEW label, NEW g, NEW r, NEW o,
         GoesOn(t, label, g) \/ Returns(t, o) \/ Settles(t, r, g, o)
  PROVE  /\ \A s \in Tasks \ {t} : Stays(s)
         /\ stage'[t] = place
         /\ GoesOn(t, label, g) => pc'[t] = label /\ tries'[t] = 0
         /\ Returns(t, o) \/ Settles(t, r, g, o) => pc'[t] = "idle"
BY DEF ControlInv, CallTypeOK, Moves, GoesOn, Returns, Settles, Stays

LEMMA SectionMoves ==
  ASSUME ControlInv, NEW t \in Tasks, NEW r \in Requests, NEW g \in Nat,
         \/ Section(t, r, g)
         \/ Gate!Wait(t, GateKey(r, g)) /\ GoesOn(t, "gate", g)
  PROVE  /\ \A s \in Tasks \ {t} : Stays(s)
         /\ Section(t, r, g) =>
              \/ pc'[t] = "idle"
              \/ pc'[t] = "gate" /\ stage'[t] = "awaiting"
              \/ pc'[t] = "sending" /\ tries'[t] = 0
<1> DEFINE k == GateKey(r, g)
<1>1. k \in GateKeys /\ GP!GateInv
  BY KeysOfRequests DEF ControlInv
<1>2. CASE Gate!Lead(t, k) /\ GoesOn(t, "sending", g)
  <2>1. Moves(t, "running", k)
    BY <1>1, <1>2, EntryMoves
  <2>2. QED
    BY <1>2, <2>1, LeavesOthers
<1>3. CASE Gate!Follow(t, k) /\ GoesOn(t, "gate", g)
  <2>1. Moves(t, "awaiting", k)
    BY <1>1, <1>3, EntryMoves
  <2>2. QED
    BY <1>3, <2>1, LeavesOthers
<1>4. CASE Gate!TakeDone(t, k) /\ Settles(t, r, g, fut[k])
  <2>1. Moves(t, "out", None)
    BY <1>1, <1>4, EntryMoves
  <2>2. QED
    BY <1>4, <2>1, LeavesOthers
<1>5. CASE Gate!Wait(t, k) /\ GoesOn(t, "gate", g)
  <2>1. Moves(t, "entering", k)
    BY <1>1, <1>5, EntryMoves
  <2>2. \A s \in Tasks \ {t} : Stays(s)
    BY <1>5, <2>1, LeavesOthers
  <2>3. CASE Section(t, r, g)
    BY <1>2, <1>3, <1>4, <2>3 DEF Section
  <2>4. QED
    BY <2>2, <2>3
<1>6. QED
  BY <1>2, <1>3, <1>4, <1>5 DEF Section

LEMMA ConcludeMoves ==
  ASSUME ControlInv, NEW t \in Tasks, NEW o, Conclude(t, o)
  PROVE  /\ \A s \in Tasks \ {t} : Stays(s)
         /\ pc'[t] = "idle" \/ (pc'[t] = "gate" /\ stage'[t] = "popping")
<1>1. GP!GateInv
  BY DEF ControlInv
<1>2. CASE Settles(t, req[t], gen[t], o) /\ UNCHANGED gateVars
  <2>1. Moves(t, stage[t], key[t])
    BY <1>2, NobodyMoves
  <2>2. QED
    BY <1>2, <2>1, LeavesOthers
<1>3. CASE \/ Gate!CompletePoisoned(t) /\ Settles(t, req[t], gen[t], Invalid)
           \/ Gate!CompleteAndPop(t) /\ Settles(t, req[t], gen[t], o)
  <2>1. Moves(t, "out", None)
    BY <1>1, <1>3, ExitMoves
  <2>2. QED
    BY <1>3, <2>1, LeavesOthers
<1>4. CASE Gate!CompleteAndWait(t, o) /\ GoesOn(t, "gate", gen[t])
  <2>1. Moves(t, "popping", key[t])
    BY <1>1, <1>4, PublishMoves
  <2>2. QED
    BY <1>4, <2>1, LeavesOthers
<1>5. QED
  BY <1>2, <1>3, <1>4 DEF Conclude

LEMMA CancelMoves ==
  ASSUME ControlInv, NEW t \in Tasks, Cancel(t)
  PROVE  /\ \A s \in Tasks \ {t} : Stays(s)
         /\ \/ pc'[t] = "idle"
            \/ Upstream(t) /\ pc'[t] = "gate" /\ stage'[t] = "popping"
            \/ stage[t] = "awaiting" /\ pc'[t] = pc[t] /\ stage'[t] = stage[t]
<1>1. GP!GateInv
  BY DEF ControlInv
<1>2. CASE Conclude(t, Cancelled)
  BY <1>2, ConcludeMoves DEF Conclude, Upstream
<1>3. CASE /\ Gate!CancelAcquire(t) \/ Gate!CancelFollower(t)
           /\ Settles(t, req[t], gen[t], Cancelled)
  <2>1. Moves(t, "out", None)
    BY <1>1, <1>3, ExitMoves
  <2>2. QED
    BY <1>3, <2>1, LeavesOthers
<1>4. CASE Gate!CancelFuture(t) /\ GoesOn(t, "gate", gen[t])
  <2>1. Moves(t, "awaiting", key[t]) /\ stage[t] = "awaiting"
    BY <1>1, <1>4, ExitMoves
  <2>2. pc[t] = "gate"
    BY <2>1, InGate
  <2>3. QED
    BY <1>4, <2>1, <2>2, LeavesOthers
<1>5. QED
  BY <1>2, <1>3, <1>4 DEF Cancel

\* Each step of a call leaves it fewer to take, and the others as many.
LEMMA OwnStep ==
  ASSUME ControlInv, NEW t \in Tasks, Step(t)
  PROVE  StepsLeft(t)' < StepsLeft(t) /\ \A s \in Tasks \ {t} : Stays(s)
<1>1. /\ MaxRetries \in Nat /\ tries[t] \in 0 .. MaxRetries
      /\ pc \in [Tasks -> PCs] /\ tries \in [Tasks -> 0 .. MaxRetries]
  BY ConstantTypes DEF ControlInv, CallTypeOK
<1>2. CASE Enter(t)
  <2>1. stage[t] = "entering" /\ pc[t] = "gate"
    BY <1>2, InGate DEF Enter
  <2>2. req[t] \in Requests /\ gen[t] \in Nat
    BY <2>1, InCall DEF Busy
  <2>3. /\ \A s \in Tasks \ {t} : Stays(s)
        /\ \/ pc'[t] = "idle"
           \/ pc'[t] = "gate" /\ stage'[t] = "awaiting"
           \/ pc'[t] = "sending" /\ tries'[t] = 0
    BY <1>2, <2>2, SectionMoves DEF Enter
  <2>4. QED
    BY <1>1, <2>1, <2>3 DEF StepsLeft
<1>3. CASE Finish(t)
  <2>1. /\ Moves(t, "out", None) /\ stage[t] \in {"awaiting", "popping"}
    BY <1>3, ExitMoves DEF Finish, ControlInv
  <2>2. pc[t] = "gate"
    BY <2>1, InGate
  <2>3. pc'[t] = "idle" /\ \A s \in Tasks \ {t} : Stays(s)
    BY <1>3, <2>1, LeavesOthers DEF Finish
  <2>4. QED
    BY <1>1, <2>1, <2>2, <2>3 DEF StepsLeft
<1>4. CASE Serve(t) \/ Retry(t)
  <2>1. \A s \in Tasks \ {t} : Stays(s)
    BY <1>4 DEF Serve, Retry, ControlInv, CallTypeOK, Stays, gateVars
  <2>2. StepsLeft(t)' < StepsLeft(t)
    BY <1>1, <1>4 DEF Serve, Retry, StepsLeft
  <2>3. QED
    BY <2>1, <2>2
<1>5. CASE Answer(t) \/ GiveUp(t)
  <2>1. /\ \A s \in Tasks \ {t} : Stays(s)
        /\ pc'[t] = "idle" \/ (pc'[t] = "gate" /\ stage'[t] = "popping")
    BY <1>5, ConcludeMoves DEF Answer, GiveUp
  <2>2. pc[t] \in {"sending", "served"}
    BY <1>5 DEF Answer, GiveUp, Conclude
  <2>3. QED
    BY <1>1, <2>1, <2>2 DEF StepsLeft
<1>6. QED
  BY <1>2, <1>3, <1>4, <1>5 DEF Step

LEMMA CancelledStep ==
  ASSUME ControlInv, NEW t \in Tasks, Cancel(t)
  PROVE  StepsLeft(t)' <= StepsLeft(t)
<1>1. /\ MaxRetries \in Nat /\ tries[t] \in 0 .. MaxRetries
      /\ pc[t] \in PCs /\ Fits(pc[t], req[t], stage[t])
  BY ConstantTypes DEF ControlInv, CallTypeOK, Control, TaskControl
<1>2. CASE pc'[t] = "idle"
  BY <1>1, <1>2 DEF StepsLeft, PCs, Fits
<1>3. CASE Upstream(t) /\ pc'[t] = "gate" /\ stage'[t] = "popping"
  BY <1>1, <1>3 DEF StepsLeft, Upstream
<1>4. CASE stage[t] = "awaiting" /\ pc'[t] = pc[t] /\ stage'[t] = stage[t]
  <2>1. pc[t] = "gate"
    BY <1>4, InGate
  <2>2. QED
    BY <1>4, <2>1 DEF StepsLeft
<1>5. QED
  BY <1>2, <1>3, <1>4, CancelMoves

\* What is no step of t's call leaves it where it is.
LEMMA OthersStep ==
  ASSUME ControlInv, NEW t \in Tasks, Busy(t), ~ Step(t), ~ Cancel(t),
         [Next]_vars
  PROVE  Stays(t)
<1>1. ASSUME NEW s \in Tasks, NEW r \in Requests, Begin(s, r)
      PROVE  Stays(t)
  <2> DEFINE g == IF CacheEnabled THEN generation ELSE 0
  <2>1. g \in Nat
    BY DEF ControlInv, CallTypeOK, Cache!CacheTypeOK
  <2>2. t \in Tasks \ {s}
    BY <1>1 DEF Begin, Busy
  <2>3. CASE \/ Section(s, r, g)
             \/ Gate!Wait(s, GateKey(r, g)) /\ GoesOn(s, "gate", g)
    BY <2>1, <2>2, <2>3, SectionMoves
  <2>4. CASE UNCHANGED gateVars
              /\ (Returns(s, store[r.path]) \/ GoesOn(s, "sending", g))
    <3>1. Moves(s, stage[s], key[s])
      BY <2>4, NobodyMoves
    <3>2. QED
      BY <2>2, <2>4, <3>1, LeavesOthers
  <2>5. QED
    BY <1>1, <2>3, <2>4 DEF Begin
<1>2. ASSUME NEW s \in Tasks \ {t}, Step(s)
      PROVE  Stays(t)
  BY <1>2, OwnStep
<1>3. ASSUME NEW s \in Tasks \ {t}, Cancel(s)
      PROVE  Stays(t)
  BY <1>3, CancelMoves
<1>4. CASE (\E k \in Paths : Expire(k)) \/ ExternalWrite \/ UNCHANGED vars
  BY <1>4 DEF Expire, ExternalWrite, vars, gateVars, Stays
<1>5. QED
  BY <1>1, <1>2, <1>3, <1>4 DEF Next, AllDone

\* Every step of a call leaves it fewer to take, and nobody, a cancellation
\* of its leader included, sends it back: it ends within a number of its own
\* steps that max_retries bounds (_request and _send,
\* async_client.py:160-250).
THEOREM CallsEnd == Spec => CallsRunOut
<1>1. ControlInv /\ [Next]_vars
        => [\A t \in Tasks : pc[t] # "idle" =>
              /\ StepsLeft(t)' <= StepsLeft(t)
              /\ Step(t) => StepsLeft(t)' < StepsLeft(t)]_vars
  <2> SUFFICES ASSUME ControlInv, [Next]_vars,
                      NEW t \in Tasks, pc[t] # "idle"
               PROVE  /\ StepsLeft(t)' <= StepsLeft(t)
                      /\ Step(t) => StepsLeft(t)' < StepsLeft(t)
    OBVIOUS
  <2>1. ControlInv'
    BY ControlStep
  <2>2. StepsLeft(t) \in Nat /\ StepsLeft(t)' \in Nat
    BY <2>1, ConstantTypes
       DEF ControlInv, CallTypeOK, Control, TaskControl, Fits, StepsLeft, PCs
  <2>3. CASE Step(t)
    <3>1. StepsLeft(t)' < StepsLeft(t)
      BY <2>3, OwnStep
    <3>2. QED
      BY <2>2, <3>1
  <2>4. CASE ~ Step(t) /\ Cancel(t)
    BY <2>4, CancelledStep
  <2>5. CASE ~ Step(t) /\ ~ Cancel(t)
    <3>1. StepsLeft(t)' = StepsLeft(t)
      BY <2>5, OthersStep DEF Busy, Stays, StepsLeft
    <3>2. QED
      BY <2>2, <2>5, <3>1
  <2>6. QED
    BY <2>3, <2>4, <2>5
<1>2. QED
  BY <1>1, ControlAlways, PTL DEF Spec, CallsRunOut

-----------------------------------------------------------------------------
(* Freshness.  A version is never looked at without the generation it was  *)
(* obtained under, which is part of the key of the future that keeps it:   *)
(* a future that stays registered after its leader was cancelled serves    *)
(* only calls of its own generation.                                       *)

\* Version v was obtained by a call of generation g: it is as new as the
\* acknowledged writes as long as no later one has settled, and new enough
\* for every call of that generation in any case.
FreshFor(g, v) ==
  /\ g = generation => acked <= v
  /\ \A s \in Tasks : Busy(s) /\ gen[s] = g => floor[s] <= v

Counters ==
  /\ acked <= db
  /\ \A t \in Tasks : floor[t] <= acked /\ gen[t] <= generation

RepliesFresh ==
  \A t \in Tasks :
    pc[t] = "served" => reply[t] <= db /\ FreshFor(gen[t], reply[t])

FuturesFresh ==
  \A k \in DOMAIN fut :
    fut[k] \in Nat => k[1] <= generation /\ FreshFor(k[1], fut[k])

StoreFresh == \A k \in Paths : store[k] # None => acked <= store[k]

ReturnsFresh ==
  \A t \in Tasks :
    result[t] \in Nat /\ ~ req[t].writes => floor[t] <= result[t]

FreshInv == Counters /\ RepliesFresh /\ FuturesFresh /\ StoreFresh /\ ReturnsFresh

LEMMA FreshInit == Init => FreshInv
BY ConstantTypes
   DEF Init, FreshInv, Counters, RepliesFresh, FuturesFresh, StoreFresh,
       ReturnsFresh, Gate!GateInit, Cache!CacheInit

\* What a step of t does to the quantities FreshFor compares: acknowledging a
\* write starts a generation, and t goes on in its own or begins in the
\* present one.
Advance(t) ==
  /\ db <= db'
  /\ \/ generation' = generation /\ acked' = acked
     \/ generation' = generation + 1 /\ acked <= acked'
  /\ Busy(t)' =>
       \/ Busy(t) /\ gen'[t] = gen[t] /\ floor'[t] = floor[t]
       \/ generation' = generation /\ gen'[t] = generation /\ floor'[t] = acked
  /\ \A s \in Tasks \ {t} :
       pc'[s] = pc[s] /\ gen'[s] = gen[s] /\ floor'[s] = floor[s]

\* Such a step leaves what was fresh fresh.
LEMMA FreshKept ==
  ASSUME ControlInv, ControlInv', NEW t \in Tasks, Advance(t),
         NEW g \in Nat, g <= generation, NEW v \in Nat, FreshFor(g, v)
  PROVE  FreshFor(g, v)'
<1>1. /\ generation \in Nat /\ acked \in Nat
  BY DEF ControlInv, CallTypeOK, Cache!CacheTypeOK
<1>2. g = generation' => acked' <= v
  BY <1>1 DEF Advance, FreshFor
<1>3. ASSUME NEW s \in Tasks, Busy(s)', gen'[s] = g
      PROVE  floor'[s] <= v
  <2>1. CASE \/ s # t
             \/ Busy(t) /\ gen'[t] = gen[t] /\ floor'[t] = floor[t]
    <3>1. Busy(s) /\ gen[s] = g /\ floor'[s] = floor[s]
      BY <1>3, <2>1 DEF Advance, Busy
    <3>2. QED
      BY <3>1 DEF FreshFor
  <2>2. CASE s = t /\ gen'[t] = generation /\ floor'[t] = acked
    BY <1>3, <2>2 DEF FreshFor
  <2>3. QED
    BY <1>3, <2>1, <2>2 DEF Advance, Busy
<1>4. QED
  BY <1>2, <1>3 DEF FreshFor

\* The parts of FreshInv about other tasks and about futures, after such a
\* step.
LEMMA AdvanceKeeps ==
  ASSUME ControlInv, ControlInv', FreshInv, NEW t \in Tasks, Advance(t),
         \A s \in Tasks \ {t} :
           reply'[s] = reply[s] /\ result'[s] = result[s] /\ req'[s] = req[s]
  PROVE  /\ \A s \in Tasks \ {t} :
              /\ pc'[s] = "served" =>
                   reply'[s] <= db' /\ FreshFor(gen[s], reply[s])'
              /\ result'[s] \in Nat /\ ~ req'[s].writes => floor'[s] <= result'[s]
              /\ floor'[s] <= acked' /\ gen'[s] <= generation'
         /\ NothingNew => FuturesFresh'
<1> USE DEF ControlInv
<1>1. /\ generation \in Nat /\ generation' \in Nat /\ acked \in Nat /\ acked' \in Nat
      /\ db \in Nat /\ db' \in Nat
      /\ \A s \in Tasks : gen[s] \in Nat /\ floor[s] \in Nat
  BY DEF CallTypeOK, Cache!CacheTypeOK
<1>2. generation <= generation' /\ acked <= acked' /\ db <= db'
  BY <1>1 DEF Advance
<1>3. ASSUME NEW s \in Tasks \ {t}
      PROVE  /\ pc'[s] = "served" =>
                  reply'[s] <= db' /\ FreshFor(gen[s], reply[s])'
             /\ result'[s] \in Nat /\ ~ req'[s].writes => floor'[s] <= result'[s]
             /\ floor'[s] <= acked' /\ gen'[s] <= generation'
  <2>1. floor'[s] <= acked' /\ gen'[s] <= generation'
    BY <1>1, <1>2 DEF Advance, FreshInv, Counters
  <2>2. result'[s] \in Nat /\ ~ req'[s].writes => floor'[s] <= result'[s]
    BY DEF Advance, FreshInv, ReturnsFresh
  <2>3. ASSUME pc'[s] = "served"
        PROVE  reply'[s] <= db' /\ FreshFor(gen[s], reply[s])'
    <3>1. pc[s] = "served" /\ reply'[s] = reply[s] /\ gen'[s] = gen[s]
      BY <2>3 DEF Advance
    <3>2. reply[s] \in Nat /\ gen[s] <= generation
      BY <3>1 DEF Control, TaskControl, FreshInv, Counters
    <3>3. reply[s] <= db /\ FreshFor(gen[s], reply[s])
      BY <3>1 DEF FreshInv, RepliesFresh
    <3>4. \A g \in Nat, v \in Nat :
            g = gen[s] /\ v = reply[s] => FreshFor(g, v)'
      BY <3>2, <3>3, FreshKept
    <3>5. FreshFor(gen[s], reply[s])'
      BY <1>1, <3>1, <3>2, <3>4 DEF FreshFor
    <3>6. QED
      BY <1>1, <1>2, <3>1, <3>2, <3>3, <3>5
  <2>4. QED
    BY <2>1, <2>2, <2>3
<1>4. ASSUME NothingNew
      PROVE  FuturesFresh'
  <2> SUFFICES ASSUME NEW k \in DOMAIN fut', fut'[k] \in Nat
               PROVE  k[1] <= generation' /\ FreshFor(k[1], fut[k])'
    BY DEF FuturesFresh
  <2>1. k \in DOMAIN fut /\ fut'[k] = fut[k]
    BY <1>4 DEF NothingNew
  <2>2. k[1] \in Nat
    BY <2>1, GateTypes DEF GateKeys
  <2>3. k[1] <= generation /\ FreshFor(k[1], fut[k])
    BY <2>1 DEF FreshInv, FuturesFresh
  <2>4. \A g \in Nat, v \in Nat : g = k[1] /\ v = fut[k] => FreshFor(g, v)'
    BY <2>1, <2>3, FreshKept
  <2>5. QED
    BY <1>1, <1>2, <2>1, <2>2, <2>3, <2>4 DEF FreshFor
<1>5. QED
  BY <1>3, <1>4

\* The call of t is of generation g: it is under way, or begins now.
Runs(t, g) ==
  \/ Busy(t) /\ gen[t] = g /\ floor'[t] = floor[t]
  \/ g = generation /\ floor'[t] = acked

\* All of FreshInv but the futures.
Aside == Counters /\ RepliesFresh /\ StoreFresh /\ ReturnsFresh

\* A call that goes on keeps freshness.
LEMMA GoesOnFresh ==
  ASSUME ControlInv, ControlInv', FreshInv, NEW t \in Tasks, Bookkept(t),
         UNCHANGED serverVars, NEW label \in {"gate", "sending"},
         NEW g \in Nat, Runs(t, g), GoesOn(t, label, g)
  PROVE  Advance(t) /\ Aside' /\ (NothingNew => FuturesFresh')
<1>1. /\ db' = db /\ acked' = acked /\ generation' = generation /\ store' = store
      /\ pc'[t] = label /\ gen'[t] = g /\ result'[t] = None
      /\ \A s \in Tasks \ {t} :
           /\ pc'[s] = pc[s] /\ gen'[s] = gen[s] /\ reply'[s] = reply[s]
           /\ result'[s] = result[s] /\ req'[s] = req[s] /\ floor'[s] = floor[s]
  BY DEF ControlInv, CallTypeOK, GoesOn, Bookkept, serverVars, cacheVars
<1>2. /\ db \in Nat /\ generation \in Nat /\ acked \in Nat
      /\ floor[t] \in Nat /\ gen[t] \in Nat
  BY DEF ControlInv, CallTypeOK, Cache!CacheTypeOK
<1>3. Advance(t)
  BY <1>1, <1>2 DEF Advance, Runs, Busy
<1>4. /\ \A s \in Tasks \ {t} :
           /\ pc'[s] = "served" =>
                reply'[s] <= db' /\ FreshFor(gen[s], reply[s])'
           /\ result'[s] \in Nat /\ ~ req'[s].writes => floor'[s] <= result'[s]
           /\ floor'[s] <= acked' /\ gen'[s] <= generation'
      /\ NothingNew => FuturesFresh'
  BY <1>1, <1>3, AdvanceKeeps
<1>5. floor'[t] <= acked' /\ gen'[t] <= generation'
  BY <1>1, <1>2 DEF Runs, FreshInv, Counters
<1>6. Counters'
  BY <1>1, <1>4, <1>5 DEF FreshInv, Counters
<1>7. RepliesFresh'
  BY <1>1, <1>4 DEF RepliesFresh
<1>8. StoreFresh'
  BY <1>1 DEF FreshInv, StoreFresh
<1>9. ReturnsFresh'
  BY <1>1, <1>4, ConstantTypes DEF ReturnsFresh
<1>10. QED
  BY <1>3, <1>4, <1>6, <1>7, <1>8, <1>9 DEF Aside

\* A call that ends keeps freshness, if a read ends with a version fresh for
\* its generation: what it stores, it stores under that generation.
LEMMA SettlesFresh ==
  ASSUME CacheEnabled, ControlInv, ControlInv', FreshInv, NEW t \in Tasks,
         Bookkept(t), UNCHANGED serverVars, NothingNew,
         NEW r \in Requests, req'[t] = r, NEW g \in Nat, Runs(t, g),
         NEW o \in Ends, Settles(t, r, g, o),
         o \in Nat => IF r.writes THEN o <= db ELSE FreshFor(g, o)
  PROVE  FreshInv'
<1>1. /\ db' = db /\ pc'[t] = "idle" /\ result'[t] = o /\ gen'[t] = 0
      /\ \A s \in Tasks \ {t} :
           /\ pc'[s] = pc[s] /\ gen'[s] = gen[s] /\ reply'[s] = reply[s]
           /\ result'[s] = result[s] /\ req'[s] = req[s] /\ floor'[s] = floor[s]
  BY DEF ControlInv, CallTypeOK, Settles, Returns, Bookkept, serverVars
<1>2. /\ db \in Nat /\ generation \in Nat /\ acked \in Nat
      /\ floor[t] \in Nat /\ gen[t] \in Nat /\ Nat \cap Exceptions = {}
      /\ \A k \in Paths : store[k] \in Nat \cup {None}
  BY ConstantTypes DEF ControlInv, CallTypeOK, Cache!CacheTypeOK
<1>3. floor'[t] <= acked
  BY <1>2 DEF Runs, FreshInv, Counters
<1>4. o \in Nat /\ ~ r.writes => floor'[t] <= o
  BY <1>2 DEF Runs, FreshFor
<1>5. /\ acked <= acked' /\ acked' <= db /\ acked' \in Nat
      /\ generation <= generation' /\ generation' \in Nat
      /\ \/ generation' = generation /\ acked' = acked
         \/ generation' = generation + 1
      /\ StoreFresh'
  <2>1. CASE o \in Nat /\ Clears(r)
    <3>1. Cache!Clear
      BY <1>2, <2>1 DEF Settles
    <3>2. generation' = generation + 1 /\ StoreFresh'
      BY <3>1 DEF Cache!Clear, StoreFresh
    <3>3. acked <= acked' /\ acked' <= db /\ acked' \in Nat
      BY <1>2, <2>1 DEF Settles, Larger, FreshInv, Counters
    <3>4. QED
      BY <1>2, <3>2, <3>3
  <2>2. CASE ~ (o \in Nat /\ Clears(r))
    <3>1. acked' = acked
      BY <1>2, <2>2, WritesAreDeclared DEF Settles, Ends
    <3>2. CASE UNCHANGED cacheVars
      BY <1>2, <3>1, <3>2 DEF cacheVars, FreshInv, Counters, StoreFresh
    <3>3. CASE o \in Nat /\ ~ r.writes /\ Cache!Put(r.path, o, g)
      <4>1. generation' = generation
        BY <3>3 DEF Cache!Put
      <4>2. CASE g = generation
        <5>1. acked <= o
          BY <3>3, <4>2 DEF FreshFor
        <5>2. \A k \in Paths : store'[k] \in {o, store[k], None}
          BY <3>3, <4>2, KeysOfRequests DEF Cache!Put
        <5>3. StoreFresh'
          BY <3>1, <5>1, <5>2 DEF FreshInv, StoreFresh
        <5>4. QED
          BY <1>2, <3>1, <4>1, <5>3 DEF FreshInv, Counters
      <4>3. CASE g # generation
        <5>1. store' = store
          BY <3>3, <4>3, ConstantTypes DEF Cache!Put
        <5>2. QED
          BY <1>2, <3>1, <4>1, <5>1 DEF FreshInv, Counters, StoreFresh
      <4>4. QED
        BY <4>2, <4>3
    <3>4. QED
      BY <1>2, <2>2, <3>2, <3>3, WritesAreDeclared DEF Settles, Ends
  <2>3. QED
    BY <2>1, <2>2
<1>6. Advance(t)
  BY <1>1, <1>2, <1>5 DEF Advance, Busy
<1>7. /\ \A s \in Tasks \ {t} :
           /\ pc'[s] = "served" =>
                reply'[s] <= db' /\ FreshFor(gen[s], reply[s])'
           /\ result'[s] \in Nat /\ ~ req'[s].writes => floor'[s] <= result'[s]
           /\ floor'[s] <= acked' /\ gen'[s] <= generation'
      /\ FuturesFresh'
  BY <1>1, <1>6, AdvanceKeeps
<1>8. floor'[t] <= acked' /\ gen'[t] <= generation'
  <2>1. floor'[t] \in Nat
    BY DEF Bookkept
  <2>2. QED
    BY <1>1, <1>2, <1>3, <1>5, <2>1
<1>9. Counters'
  BY <1>1, <1>5, <1>7, <1>8 DEF Counters
<1>10. RepliesFresh'
  BY <1>1, <1>7 DEF RepliesFresh
<1>11. ReturnsFresh'
  BY <1>1, <1>4, <1>7 DEF ReturnsFresh
<1>12. QED
  BY <1>5, <1>7, <1>9, <1>10, <1>11 DEF FreshInv

\* What a task finds in the future of its own key is fresh for its call.
LEMMA FutureIsFresh ==
  ASSUME ControlInv, FreshInv, NEW r \in Requests, NEW g \in Nat,
         NEW k, k = GateKey(r, g), k \in DOMAIN fut, fut[k] \in Nat
  PROVE  FreshFor(g, fut[k])
<1>1. k[1] = g
  BY DEF GateKey
<1>2. QED
  BY <1>1 DEF FreshInv, FuturesFresh

LEMMA SectionFresh ==
  ASSUME CacheEnabled, ControlInv, ControlInv', FreshInv, NEW t \in Tasks,
         Bookkept(t), UNCHANGED serverVars,
         NEW r \in Requests, r.coalesce, req'[t] = r, NEW g \in Nat, Runs(t, g),
         \/ Section(t, r, g)
         \/ Gate!Wait(t, GateKey(r, g)) /\ GoesOn(t, "gate", g)
  PROVE  FreshInv'
<1> DEFINE k == GateKey(r, g)
<1>1. k \in GateKeys /\ GP!GateInv
  BY KeysOfRequests DEF ControlInv
<1>2. ASSUME NEW label \in {"gate", "sending"}, GoesOn(t, label, g),
             Gate!Wait(t, k) \/ Gate!Lead(t, k) \/ Gate!Follow(t, k)
      PROVE  FreshInv'
  <2>1. NothingNew
    BY <1>1, <1>2, EntryMoves
  <2>2. Aside' /\ FuturesFresh'
    BY <1>2, <2>1, GoesOnFresh
  <2>3. QED
    BY <2>2 DEF Aside, FreshInv
<1>3. CASE Gate!TakeDone(t, k) /\ Settles(t, r, g, fut[k])
  <2>1. NothingNew /\ k \in DOMAIN fut /\ fut[k] \in Ends
    BY <1>1, <1>3, EntryMoves
  <2>2. ~ r.writes
    BY SharedCallsRead
  <2>3. fut[k] \in Nat => FreshFor(g, fut[k])
    BY <2>1, FutureIsFresh
  <2>4. QED
    BY <1>3, <2>1, <2>2, <2>3, SettlesFresh
<1>4. QED
  BY <1>2, <1>3 DEF Section

LEMMA BeginFresh ==
  ASSUME CacheEnabled, ControlInv, ControlInv', FreshInv, NEW t \in Tasks,
         NEW r \in Requests, Begin(t, r)
  PROVE  FreshInv'
<1> DEFINE g == IF CacheEnabled THEN generation ELSE 0
           hit == Caches(r) /\ store[r.path] # None
<1>1. g = generation /\ generation \in Nat /\ acked \in Nat
  BY DEF ControlInv, CallTypeOK, Cache!CacheTypeOK
<1>2. /\ Bookkept(t) /\ req'[t] = r /\ floor'[t] = acked
      /\ UNCHANGED serverVars
  BY DEF Begin, Bookkept, ControlInv, CallTypeOK, serverVars
<1>3. Runs(t, g)
  BY <1>1, <1>2 DEF Runs
<1>4. CASE /\ hit /\ Returns(t, store[r.path])
           /\ UNCHANGED <<gateVars, cacheVars, acked>>
  <2>1. store[r.path] \in Nat /\ store[r.path] \in Ends
    BY <1>4, KeysOfRequests
       DEF ControlInv, CallTypeOK, Cache!CacheTypeOK, Ends
  <2>2. acked <= store[r.path]
    BY <1>4, KeysOfRequests DEF FreshInv, StoreFresh
  <2>3. /\ db' = db /\ acked' = acked /\ generation' = generation
        /\ store' = store /\ pc'[t] = "idle" /\ gen'[t] = 0
        /\ result'[t] = store[r.path]
        /\ \A s \in Tasks \ {t} :
             /\ pc'[s] = pc[s] /\ gen'[s] = gen[s] /\ reply'[s] = reply[s]
             /\ result'[s] = result[s] /\ req'[s] = req[s]
             /\ floor'[s] = floor[s]
    BY <1>2, <1>4
       DEF ControlInv, CallTypeOK, Returns, Bookkept, serverVars, cacheVars
  <2>4. Advance(t)
    BY <2>3 DEF Advance, Busy, ControlInv, CallTypeOK
  <2>5. NothingNew
    BY <1>4 DEF NothingNew, gateVars
  <2>6. /\ \A s \in Tasks \ {t} :
             /\ pc'[s] = "served" =>
                  reply'[s] <= db' /\ FreshFor(gen[s], reply[s])'
             /\ result'[s] \in Nat /\ ~ req'[s].writes =>
                  floor'[s] <= result'[s]
             /\ floor'[s] <= acked' /\ gen'[s] <= generation'
        /\ FuturesFresh'
    BY <2>3, <2>4, <2>5, AdvanceKeeps
  <2>7. Counters'
    BY <1>1, <1>2, <2>3, <2>6 DEF FreshInv, Counters
  <2>8. RepliesFresh' /\ ReturnsFresh'
    BY <1>2, <2>2, <2>3, <2>6 DEF RepliesFresh, ReturnsFresh
  <2>9. StoreFresh'
    BY <2>3 DEF FreshInv, StoreFresh
  <2>10. QED
    BY <2>6, <2>7, <2>8, <2>9 DEF FreshInv
<1>5. CASE /\ r.coalesce
           /\ \/ Section(t, r, g)
              \/ Gate!Wait(t, GateKey(r, g)) /\ GoesOn(t, "gate", g)
  BY <1>1, <1>2, <1>3, <1>5, SectionFresh
<1>6. CASE GoesOn(t, "sending", g) /\ UNCHANGED gateVars
  <2>1. NothingNew
    BY <1>6 DEF NothingNew, gateVars
  <2>2. QED
    BY <1>1, <1>2, <1>3, <1>6, <2>1, GoesOnFresh DEF Aside, FreshInv
<1>7. QED
  BY <1>4, <1>5, <1>6 DEF Begin

LEMMA EnterFresh ==
  ASSUME CacheEnabled, ControlInv, ControlInv', FreshInv, NEW t \in Tasks,
         Enter(t)
  PROVE  FreshInv'
<1>1. Busy(t) /\ req[t] \in Requests /\ gen[t] \in Nat /\ req[t].coalesce
  BY InCall, InGate DEF Enter
<1>2. /\ Bookkept(t) /\ req' = req /\ floor' = floor /\ UNCHANGED serverVars
  BY DEF Enter, Bookkept, ControlInv, CallTypeOK, serverVars, beginVars
<1>3. QED
  BY <1>1, <1>2, SectionFresh DEF Enter, Runs

LEMMA FinishFresh ==
  ASSUME CacheEnabled, ControlInv, ControlInv', FreshInv, NEW t \in Tasks,
         Finish(t)
  PROVE  FreshInv'
<1>1. /\ NothingNew /\ stage[t] # "out" /\ key[t] \in DOMAIN fut
      /\ fut[key[t]] \in Ends
  BY ExitMoves DEF Finish, ControlInv
<1>2. /\ Busy(t) /\ req[t] \in Requests /\ gen[t] \in Nat /\ req[t].coalesce
      /\ key[t] = GateKey(req[t], gen[t])
  BY <1>1, InCall, InGate
<1>3. Bookkept(t) /\ req' = req /\ floor' = floor /\ UNCHANGED serverVars
  BY DEF Finish, Bookkept, ControlInv, CallTypeOK, serverVars, beginVars
<1>4. /\ ~ req[t].writes /\ Runs(t, gen[t])
      /\ fut[key[t]] \in Nat => FreshFor(gen[t], fut[key[t]])
  BY <1>1, <1>2, <1>3, FutureIsFresh, SharedCallsRead DEF Runs
<1>5. QED
  BY <1>1, <1>2, <1>3, <1>4, SettlesFresh DEF Finish

\* What _send ends with: an exception, or what the server served.
Obtained(t, o) ==
  o \in Nat => pc[t] = "served" /\ o = reply[t]

LEMMA ConcludeFresh ==
  ASSUME CacheEnabled, ControlInv, ControlInv', FreshInv, NEW t \in Tasks,
         NEW o \in Nat \cup {Failed, Cancelled}, Obtained(t, o),
         Conclude(t, o), Bookkept(t), req' = req, floor' = floor,
         UNCHANGED serverVars
  PROVE  FreshInv'
<1>1. /\ o \in Ends /\ Invalid \in Ends /\ Invalid \notin Nat /\ GP!GateInv
      /\ o \in Nat \/ o \notin Nat
  BY ConstantTypes DEF Ends, Exceptions, ControlInv
<1>2. Busy(t) /\ req[t] \in Requests /\ gen[t] \in Nat
  <2>1. Busy(t)
    BY DEF Conclude, Busy
  <2>2. QED
    BY <2>1, InCall
<1>3. Runs(t, gen[t])
  BY <1>2 DEF Runs
<1>4. o \in Nat => o <= db /\ FreshFor(gen[t], o)
  BY DEF Obtained, FreshInv, RepliesFresh
<1>5. ASSUME Settles(t, req[t], gen[t], o) \/ Settles(t, req[t], gen[t], Invalid),
             NothingNew
      PROVE  FreshInv'
  BY <1>1, <1>2, <1>3, <1>4, <1>5, SettlesFresh
<1>6. CASE UNCHANGED gateVars /\ Settles(t, req[t], gen[t], o)
  BY <1>5, <1>6 DEF NothingNew, gateVars
<1>7. CASE \/ Gate!CompletePoisoned(t) /\ Settles(t, req[t], gen[t], Invalid)
           \/ Gate!CompleteAndPop(t) /\ Settles(t, req[t], gen[t], o)
  BY <1>1, <1>5, <1>7, ExitMoves
<1>8. CASE /\ req[t].coalesce
           /\ Gate!CompleteAndWait(t, o) /\ GoesOn(t, "gate", gen[t])
  <2>1. Advance(t) /\ Aside'
    BY <1>2, <1>3, <1>8, GoesOnFresh
  <2>2. key[t] = GateKey(req[t], gen[t])
    BY <1>8, InGate DEF Gate!CompleteAndWait
  <2>3. FuturesFresh'
    <3> SUFFICES ASSUME NEW k \in DOMAIN fut', fut'[k] \in Nat
                 PROVE  k[1] <= generation' /\ FreshFor(k[1], fut[k])'
      BY DEF FuturesFresh
    <3>1. /\ generation' = generation /\ generation \in Nat
          /\ k \in DOMAIN fut /\ k[1] \in Nat
          /\ k # key[t] => fut'[k] = fut[k]
          /\ k = key[t] => fut'[k] = o
      BY <1>1, <1>8, PublishMoves, GateTypes
         DEF GoesOn, cacheVars, ControlInv, CallTypeOK, Cache!CacheTypeOK,
             GateKeys
    <3>2. k[1] <= generation /\ FreshFor(k[1], fut'[k])
      <4>1. CASE k = key[t]
        <5>1. k[1] = gen[t]
          BY <2>2, <4>1 DEF GateKey
        <5>2. QED
          BY <1>4, <3>1, <4>1, <5>1 DEF FreshInv, Counters
      <4>2. CASE k # key[t]
        BY <3>1, <4>2 DEF FreshInv, FuturesFresh
      <4>3. QED
        BY <4>1, <4>2
    <3>3. \A g \in Nat, v \in Nat : g = k[1] /\ v = fut'[k] => FreshFor(g, v)'
      BY <2>1, <3>1, <3>2, FreshKept
    <3>4. QED
      BY <3>1, <3>2, <3>3 DEF FreshFor
  <2>4. QED
    BY <2>1, <2>3 DEF Aside, FreshInv
<1>9. QED
  BY <1>6, <1>7, <1>8 DEF Conclude

LEMMA CancelFresh ==
  ASSUME CacheEnabled, ControlInv, ControlInv', FreshInv, NEW t \in Tasks,
         Cancel(t)
  PROVE  FreshInv'
<1>1. Bookkept(t) /\ req' = req /\ floor' = floor /\ UNCHANGED serverVars
  BY DEF Cancel, Bookkept, ControlInv, CallTypeOK, serverVars, beginVars
<1>2. /\ GP!GateInv /\ Cancelled \in Ends /\ Cancelled \notin Nat
      /\ Obtained(t, Cancelled)
  BY ConstantTypes DEF ControlInv, Ends, Exceptions, Obtained
<1>3. CASE Conclude(t, Cancelled)
  BY <1>1, <1>2, <1>3, ConcludeFresh
<1>4. CASE /\ Gate!CancelAcquire(t) \/ Gate!CancelFollower(t)
           /\ Settles(t, req[t], gen[t], Cancelled)
  <2>1. NothingNew /\ stage[t] # "out"
    BY <1>2, <1>4, ExitMoves
  <2>2. Busy(t) /\ req[t] \in Requests /\ gen[t] \in Nat /\ Runs(t, gen[t])
    BY <1>1, <2>1, InCall, InGate DEF Runs
  <2>3. QED
    BY <1>1, <1>2, <1>4, <2>1, <2>2, SettlesFresh
<1>5. CASE Gate!CancelFuture(t) /\ GoesOn(t, "gate", gen[t])
  <2>1. NothingNew /\ stage[t] # "out"
    BY <1>2, <1>5, ExitMoves
  <2>2. Busy(t) /\ gen[t] \in Nat /\ Runs(t, gen[t])
    BY <1>1, <2>1, InCall, InGate DEF Runs
  <2>3. QED
    BY <1>1, <1>5, <2>1, <2>2, GoesOnFresh DEF Aside, FreshInv
<1>6. QED
  BY <1>3, <1>4, <1>5 DEF Cancel

\* What the server answers is as new as every write it has acknowledged.
LEMMA AttemptFresh ==
  ASSUME ControlInv, ControlInv', FreshInv, NEW t \in Tasks,
         Serve(t) \/ Retry(t)
  PROVE  FreshInv'
<1>1. /\ acked' = acked /\ generation' = generation /\ store' = store
      /\ gen' = gen /\ result' = result /\ req' = req /\ floor' = floor
      /\ Busy(t) /\ UNCHANGED gateVars
      /\ \A s \in Tasks \ {t} : pc'[s] = pc[s] /\ reply'[s] = reply[s]
  BY DEF Serve, Retry, cacheVars, beginVars, Busy, ControlInv, CallTypeOK
<1>2. /\ db \in Nat /\ db' \in Nat /\ db <= db'
      /\ generation \in Nat /\ acked \in Nat
      /\ \A s \in Tasks : floor[s] \in Nat /\ gen[s] \in Nat
      /\ pc'[t] = "served" => reply'[t] = db'
  BY DEF Serve, Retry, serverVars, ControlInv, CallTypeOK, Cache!CacheTypeOK
<1>3. Advance(t)
  BY <1>1, <1>2 DEF Advance
<1>4. NothingNew
  BY <1>1 DEF NothingNew, gateVars
<1>5. /\ \A s \in Tasks \ {t} :
           pc'[s] = "served" => reply'[s] <= db' /\ FreshFor(gen[s], reply[s])'
      /\ FuturesFresh'
  BY <1>1, <1>3, <1>4, AdvanceKeeps
<1>6. Counters'
  BY <1>1, <1>2 DEF FreshInv, Counters
<1>7. ASSUME pc'[t] = "served"
      PROVE  reply'[t] <= db' /\ FreshFor(gen[t], reply[t])'
  <2>1. reply'[t] = db' /\ acked' <= db' /\ \A s \in Tasks : floor'[s] <= db'
    BY <1>1, <1>2, <1>6, <1>7 DEF Counters
  <2>2. QED
    BY <1>2, <2>1 DEF FreshFor
<1>8. RepliesFresh'
  BY <1>5, <1>7 DEF RepliesFresh
<1>9. StoreFresh' /\ ReturnsFresh'
  BY <1>1 DEF FreshInv, StoreFresh, ReturnsFresh
<1>10. QED
  BY <1>5, <1>6, <1>8, <1>9 DEF FreshInv

\* An entry that goes, or a write of others, makes nothing stale.
LEMMA OthersFresh ==
  ASSUME ControlInv, FreshInv,
         (\E k \in Paths : Expire(k)) \/ ExternalWrite \/ UNCHANGED vars
  PROVE  FreshInv'
<1>1. UNCHANGED <<gateVars, beginVars, pc, gen, tries, reply, result, acked>>
  BY DEF Expire, ExternalWrite, vars
<1>2. /\ generation' = generation /\ db <= db'
      /\ db \in Nat /\ db' \in Nat /\ acked \in Nat
      /\ \A k \in Paths : store'[k] \in {store[k], None}
      /\ \A s \in Tasks : pc[s] = "served" => reply[s] \in Nat
  BY DEF ControlInv, CallTypeOK, Control, TaskControl, Cache!CacheTypeOK,
         Expire, Cache!Forget, ExternalWrite, vars, serverVars, cacheVars
<1>3. Counters'
  BY <1>1, <1>2 DEF FreshInv, Counters, beginVars
<1>4. RepliesFresh'
  BY <1>1, <1>2 DEF FreshInv, RepliesFresh, FreshFor, Busy, beginVars
<1>5. FuturesFresh'
  BY <1>1, <1>2 DEF FreshInv, FuturesFresh, FreshFor, Busy, beginVars, gateVars
<1>6. StoreFresh'
  BY <1>1, <1>2 DEF FreshInv, StoreFresh
<1>7. ReturnsFresh'
  BY <1>1 DEF FreshInv, ReturnsFresh, beginVars
<1>8. QED
  BY <1>3, <1>4, <1>5, <1>6, <1>7 DEF FreshInv

LEMMA FreshStep ==
  ASSUME CacheEnabled
  PROVE  ControlInv /\ FreshInv /\ [Next]_vars => (ControlInv /\ FreshInv)'
<1> SUFFICES ASSUME ControlInv, FreshInv, [Next]_vars
             PROVE  FreshInv' /\ ControlInv'
  OBVIOUS
<1>1. ControlInv'
  BY ControlStep
<1>2. ASSUME NEW t \in Tasks, NEW r \in Requests, Begin(t, r)
      PROVE  FreshInv'
  BY <1>1, <1>2, BeginFresh
<1>3. ASSUME NEW t \in Tasks, Step(t)
      PROVE  FreshInv'
  <2>1. CASE Enter(t) \/ Finish(t)
    BY <1>1, <2>1, EnterFresh, FinishFresh
  <2>2. CASE Serve(t) \/ Retry(t)
    BY <1>1, <2>2, AttemptFresh
  <2>3. CASE Answer(t) \/ GiveUp(t)
    <3>1. /\ Bookkept(t) /\ req' = req /\ floor' = floor
          /\ UNCHANGED serverVars
      BY <2>3 DEF Answer, GiveUp, Bookkept, ControlInv, CallTypeOK, serverVars,
                  beginVars
    <3>2. CASE Answer(t)
      <4>1. reply[t] \in Nat /\ Obtained(t, reply[t])
        BY <3>2 DEF Answer, ControlInv, Control, TaskControl, Obtained
      <4>2. QED
        BY <1>1, <3>1, <3>2, <4>1, ConcludeFresh DEF Answer
    <3>3. CASE GiveUp(t)
      <4>1. Failed \notin Nat
        BY ConstantTypes DEF Exceptions
      <4>2. QED
        BY <1>1, <3>1, <3>3, <4>1, ConcludeFresh DEF GiveUp, Obtained
    <3>4. QED
      BY <2>3, <3>2, <3>3
  <2>4. QED
    BY <1>3, <2>1, <2>2, <2>3 DEF Step
<1>4. ASSUME NEW t \in Tasks, Cancel(t)
      PROVE  FreshInv'
  BY <1>1, <1>4, CancelFresh
<1>5. CASE (\E k \in Paths : Expire(k)) \/ ExternalWrite \/ UNCHANGED vars
  BY <1>1, <1>5, OthersFresh
<1>6. QED
  BY <1>1, <1>2, <1>3, <1>4, <1>5 DEF Next, AllDone

LEMMA FreshAlways ==
  ASSUME CacheEnabled
  PROVE  Spec => [](ControlInv /\ FreshInv)
<1>1. Init => ControlInv /\ FreshInv
  BY ControlInit, FreshInit
<1>2. ControlInv /\ FreshInv /\ [Next]_vars => (ControlInv /\ FreshInv)'
  BY FreshStep
<1>3. QED
  BY <1>1, <1>2, PTL DEF Spec

-----------------------------------------------------------------------------
\* With the cache on, no read returns a version older than the writes this
\* client had completed when the read began, even from the future of a
\* cancelled leader (async_client.py:227, 237-250).
THEOREM ReadsAreFresh ==
  ASSUME CacheEnabled
  PROVE  Spec => []ReadYourWrites
<1>1. ControlInv /\ FreshInv => ReadYourWrites
  BY DEF ControlInv, CallTypeOK, FreshInv, ReturnsFresh, ReadYourWrites
<1>2. QED
  BY <1>1, FreshAlways, PTL

\* With the cache on, no entry predates a completed write, whoever was
\* cancelled and however late the read that stored it was answered
\* (_cache.py:96-105, 112-116).
THEOREM CacheIsFresh ==
  ASSUME CacheEnabled
  PROVE  Spec => []CacheNotOlderThanAcked
<1>1. ControlInv /\ FreshInv => CacheNotOlderThanAcked
  <2>1. ControlInv => /\ acked \in Nat
                      /\ \A k \in Paths : store[k] \in Nat \cup {None}
    BY DEF ControlInv, CallTypeOK, Cache!CacheTypeOK
  <2>2. QED
    BY <2>1 DEF FreshInv, StoreFresh, CacheNotOlderThanAcked
<1>2. QED
  BY <1>1, FreshAlways, PTL

-----------------------------------------------------------------------------
(* What the callers see is what FreshClient promises.  Its steps need more *)
(* than freshness: no version is held that the server has not reached, and *)
(* what a write brings back was made after its call began.                 *)

StoreServed == \A k \in Paths : store[k] # None => store[k] <= db

FuturesServed == \A k \in DOMAIN fut : fut[k] \in Nat => fut[k] <= db

WritesMake ==
  \A t \in Tasks : pc[t] = "served" /\ req[t].writes => floor[t] < reply[t]

ServedInv == StoreServed /\ FuturesServed /\ WritesMake

LEMMA ServedInit == Init => ServedInv
BY ConstantTypes
   DEF Init, ServedInv, StoreServed, FuturesServed, WritesMake,
       Gate!GateInit, Cache!CacheInit

\* A step of t leaves what the other callers see.
Alone(t) ==
  \A s \in Tasks \ {t} :
    /\ pc'[s] = pc[s] /\ req'[s] = req[s] /\ floor'[s] = floor[s]
    /\ reply'[s] = reply[s] /\ result'[s] = result[s]

\* t is in a call after the step: its own, or one that begins with it.
Within(t) ==
  \/ Busy(t) /\ req'[t] = req[t] /\ floor'[t] = floor[t]
  \/ ~ Busy(t) /\ req'[t] \in Requests /\ floor'[t] = acked

\* After the step the call goes on.
GoingOn(t) ==
  /\ Alone(t) /\ Within(t)
  /\ pc'[t] \in {"gate", "sending"}
  /\ UNCHANGED <<db, acked>>

\* The step ends the call, as it is promised to end.
Ending(t) ==
  /\ Alone(t) /\ Within(t)
  /\ ~ Busy(t) => ~ req'[t].writes
  /\ pc'[t] = "idle" /\ db' = db
  /\ \/ /\ result'[t] \in Promise!Acceptable(floor'[t], req'[t].writes)
        /\ acked' = IF req'[t].writes THEN Larger(acked, result'[t]) ELSE acked
     \/ result'[t] \in Exceptions /\ acked' = acked

\* A call that goes on brings nothing new, unless the gate publishes it.
LEMMA GoesOnServed ==
  ASSUME ControlInv, ServedInv, NEW t \in Tasks, Bookkept(t),
         UNCHANGED serverVars, Within(t), NEW label \in {"gate", "sending"},
         NEW g, GoesOn(t, label, g)
  PROVE  /\ GoingOn(t) /\ StoreServed' /\ WritesMake'
         /\ NothingNew => FuturesServed'
<1>1. /\ db' = db /\ acked' = acked /\ store' = store /\ pc'[t] = label
      /\ Alone(t)
  BY DEF ControlInv, CallTypeOK, GoesOn, Bookkept, serverVars, cacheVars, Alone
<1>2. GoingOn(t)
  BY <1>1 DEF GoingOn
<1>3. StoreServed' /\ WritesMake'
  BY <1>1 DEF ServedInv, StoreServed, WritesMake, Alone
<1>4. NothingNew => FuturesServed'
  BY <1>1 DEF ServedInv, FuturesServed, NothingNew
<1>5. QED
  BY <1>2, <1>3, <1>4

\* A call that ends with a version the server has reached ends as promised.
LEMMA SettlesServed ==
  ASSUME ControlInv, ServedInv, ReturnsFresh', NEW t \in Tasks, Bookkept(t),
         UNCHANGED serverVars, NothingNew, Within(t),
         NEW r \in Requests, req'[t] = r, ~ Busy(t) => ~ r.writes,
         NEW g, NEW o \in Ends, Settles(t, r, g, o),
         o \in Nat => o <= db /\ (r.writes => floor'[t] < o)
  PROVE  Ending(t) /\ ServedInv'
<1>1. /\ db' = db /\ pc'[t] = "idle" /\ result'[t] = o /\ Alone(t)
  BY DEF ControlInv, CallTypeOK, Settles, Returns, Bookkept, serverVars, Alone
<1>2. /\ db \in Nat /\ Nat \cap Exceptions = {} /\ floor'[t] \in Nat
      /\ \A k \in Paths : store[k] \in Nat \cup {None}
  BY ConstantTypes DEF ControlInv, CallTypeOK, Cache!CacheTypeOK, Bookkept
<1>3. ASSUME o \in Nat PROVE Ending(t)
  <2>1. o \notin Exceptions
    BY <1>2, <1>3
  <2>2. r.writes => floor'[t] + 1 <= o
    BY <1>2, <1>3
  <2>3. ~ r.writes => floor'[t] <= o
    BY <1>1, <1>3 DEF ReturnsFresh
  <2>4. o \in Promise!Acceptable(floor'[t], req'[t].writes)
    BY <1>2, <1>3, <2>2, <2>3 DEF Promise!Acceptable
  <2>5. acked' = IF r.writes THEN Larger(acked, o) ELSE acked
    BY <2>1 DEF Settles
  <2>6. QED
    BY <1>1, <2>4, <2>5 DEF Ending
<1>4. ASSUME o \in Exceptions PROVE Ending(t)
  BY <1>1, <1>4 DEF Ending, Settles
<1>5. Ending(t)
  BY <1>3, <1>4 DEF Ends
<1>6. \A k \in Paths : \/ store'[k] \in {None, store[k]}
                       \/ o \in Nat /\ store'[k] = o
  <2>1. CASE UNCHANGED cacheVars
    BY <2>1 DEF cacheVars
  <2>2. CASE Cache!Clear
    BY <2>2 DEF Cache!Clear
  <2>3. CASE o \in Nat /\ Cache!Put(r.path, o, g)
    BY <2>3 DEF Cache!Put
  <2>4. QED
    BY <1>2, <2>1, <2>2, <2>3 DEF Settles, Ends
<1>7. StoreServed'
  BY <1>1, <1>2, <1>6 DEF ServedInv, StoreServed
<1>8. FuturesServed' /\ WritesMake'
  BY <1>1 DEF ServedInv, FuturesServed, NothingNew, WritesMake, Alone
<1>9. QED
  BY <1>5, <1>7, <1>8 DEF ServedInv

\* Inside the gate with its lock.
LEMMA SectionServed ==
  ASSUME ControlInv, ServedInv, ReturnsFresh', NEW t \in Tasks,
         Bookkept(t), UNCHANGED serverVars, Within(t),
         NEW r \in Requests, r.coalesce, req'[t] = r, NEW g \in Nat,
         \/ Section(t, r, g)
         \/ Gate!Wait(t, GateKey(r, g)) /\ GoesOn(t, "gate", g)
  PROVE  (GoingOn(t) \/ Ending(t)) /\ ServedInv'
<1> DEFINE k == GateKey(r, g)
<1>1. k \in GateKeys /\ GP!GateInv /\ ~ r.writes
  BY KeysOfRequests, SharedCallsRead DEF ControlInv
<1>2. ASSUME NEW label \in {"gate", "sending"}, GoesOn(t, label, g),
             Gate!Wait(t, k) \/ Gate!Lead(t, k) \/ Gate!Follow(t, k)
      PROVE  GoingOn(t) /\ ServedInv'
  <2>1. NothingNew
    BY <1>1, <1>2, EntryMoves
  <2>2. QED
    BY <1>2, <2>1, GoesOnServed DEF ServedInv
<1>3. CASE Gate!TakeDone(t, k) /\ Settles(t, r, g, fut[k])
  <2>1. NothingNew /\ k \in DOMAIN fut /\ fut[k] \in Ends
    BY <1>1, <1>3, EntryMoves
  <2>2. fut[k] \in Nat => fut[k] <= db
    BY <2>1 DEF ServedInv, FuturesServed
  <2>3. QED
    BY <1>1, <1>3, <2>1, <2>2, SettlesServed
<1>4. QED
  BY <1>2, <1>3 DEF Section

LEMMA BeginServed ==
  ASSUME CacheEnabled, ControlInv, FreshInv, ServedInv, ReturnsFresh',
         NEW t \in Tasks, NEW r \in Requests, Begin(t, r)
  PROVE  (GoingOn(t) \/ Ending(t)) /\ ServedInv'
<1> DEFINE g == IF CacheEnabled THEN generation ELSE 0
           hit == Caches(r) /\ store[r.path] # None
<1>1. g \in Nat /\ db \in Nat /\ acked \in Nat
  BY DEF ControlInv, CallTypeOK, Cache!CacheTypeOK
<1>2. /\ Bookkept(t) /\ req'[t] = r /\ floor'[t] = acked
      /\ UNCHANGED serverVars /\ Within(t)
  BY DEF Begin, Bookkept, ControlInv, CallTypeOK, serverVars, Within, Busy
<1>3. CASE /\ hit /\ Returns(t, store[r.path])
           /\ UNCHANGED <<gateVars, cacheVars, acked>>
  <2>1. /\ store[r.path] \in Nat /\ acked <= store[r.path]
        /\ store[r.path] <= db /\ ~ r.writes
    BY <1>3, KeysOfRequests, SharedCallsRead
       DEF ControlInv, CallTypeOK, Cache!CacheTypeOK, FreshInv, StoreFresh,
           ServedInv, StoreServed, Caches
  <2>2. /\ db' = db /\ acked' = acked /\ store' = store /\ fut' = fut
        /\ pc'[t] = "idle" /\ result'[t] = store[r.path] /\ Alone(t)
    BY <1>2, <1>3
       DEF ControlInv, CallTypeOK, Returns, Bookkept, serverVars, cacheVars,
           gateVars, Alone
  <2>3. store[r.path] \in Promise!Acceptable(floor'[t], req'[t].writes)
    BY <1>1, <1>2, <2>1 DEF Promise!Acceptable
  <2>4. Ending(t)
    BY <1>2, <2>1, <2>2, <2>3 DEF Ending
  <2>5. ServedInv'
    BY <2>2 DEF ServedInv, StoreServed, FuturesServed, WritesMake, Alone
  <2>6. QED
    BY <2>4, <2>5
<1>4. CASE /\ r.coalesce
           /\ \/ Section(t, r, g)
              \/ Gate!Wait(t, GateKey(r, g)) /\ GoesOn(t, "gate", g)
  BY <1>1, <1>2, <1>4, SectionServed
<1>5. CASE GoesOn(t, "sending", g) /\ UNCHANGED gateVars
  <2>1. NothingNew
    BY <1>5 DEF NothingNew, gateVars
  <2>2. QED
    BY <1>2, <1>5, <2>1, GoesOnServed DEF ServedInv
<1>6. QED
  BY <1>3, <1>4, <1>5 DEF Begin

LEMMA EnterServed ==
  ASSUME ControlInv, ServedInv, ReturnsFresh', NEW t \in Tasks, Enter(t)
  PROVE  (GoingOn(t) \/ Ending(t)) /\ ServedInv'
<1>1. Busy(t) /\ req[t] \in Requests /\ gen[t] \in Nat /\ req[t].coalesce
  BY InCall, InGate DEF Enter
<1>2. /\ Bookkept(t) /\ req' = req /\ floor' = floor /\ UNCHANGED serverVars
  BY DEF Enter, Bookkept, ControlInv, CallTypeOK, serverVars, beginVars
<1>3. Within(t)
  BY <1>1, <1>2 DEF Within
<1>4. QED
  BY <1>1, <1>2, <1>3, SectionServed DEF Enter

LEMMA FinishServed ==
  ASSUME ControlInv, ServedInv, ReturnsFresh', NEW t \in Tasks, Finish(t)
  PROVE  Ending(t) /\ ServedInv'
<1>1. /\ NothingNew /\ stage[t] # "out" /\ key[t] \in DOMAIN fut
      /\ fut[key[t]] \in Ends
  BY ExitMoves DEF Finish, ControlInv
<1>2. /\ Busy(t) /\ req[t] \in Requests /\ req[t].coalesce /\ ~ req[t].writes
  BY <1>1, InCall, InGate, SharedCallsRead
<1>3. Bookkept(t) /\ req' = req /\ floor' = floor /\ UNCHANGED serverVars
  BY DEF Finish, Bookkept, ControlInv, CallTypeOK, serverVars, beginVars
<1>4. Within(t)
  BY <1>2, <1>3 DEF Within
<1>5. fut[key[t]] \in Nat => fut[key[t]] <= db
  BY <1>1 DEF ServedInv, FuturesServed
<1>6. QED
  BY <1>1, <1>2, <1>3, <1>4, <1>5, SettlesServed DEF Finish

\* _send ends: the outcome is an exception, or what the server served.
LEMMA ConcludeServed ==
  ASSUME ControlInv, FreshInv, ServedInv, ReturnsFresh', NEW t \in Tasks,
         NEW o \in Nat \cup {Failed, Cancelled}, Obtained(t, o),
         Conclude(t, o), Bookkept(t), req' = req, floor' = floor,
         UNCHANGED serverVars
  PROVE  (GoingOn(t) \/ Ending(t)) /\ ServedInv'
<1>1. /\ o \in Ends /\ Invalid \in Ends /\ Invalid \notin Nat /\ GP!GateInv
  BY ConstantTypes DEF Ends, Exceptions, ControlInv
<1>2. Busy(t) /\ req[t] \in Requests
  BY InCall DEF Conclude, Busy
<1>3. Within(t)
  BY <1>2 DEF Within
<1>4. o \in Nat => o <= db /\ (req[t].writes => floor'[t] < o)
  BY DEF Obtained, FreshInv, RepliesFresh, ServedInv, WritesMake
<1>5. ASSUME Settles(t, req[t], gen[t], o) \/ Settles(t, req[t], gen[t], Invalid),
             NothingNew
      PROVE  Ending(t) /\ ServedInv'
  BY <1>1, <1>2, <1>3, <1>4, <1>5, SettlesServed
<1>6. CASE UNCHANGED gateVars /\ Settles(t, req[t], gen[t], o)
  BY <1>5, <1>6 DEF NothingNew, gateVars
<1>7. CASE \/ Gate!CompletePoisoned(t) /\ Settles(t, req[t], gen[t], Invalid)
           \/ Gate!CompleteAndPop(t) /\ Settles(t, req[t], gen[t], o)
  BY <1>1, <1>5, <1>7, ExitMoves
<1>8. CASE Gate!CompleteAndWait(t, o) /\ GoesOn(t, "gate", gen[t])
  <2>1. GoingOn(t) /\ StoreServed' /\ WritesMake'
    BY <1>3, <1>8, GoesOnServed
  <2>2. FuturesServed'
    BY <1>1, <1>4, <1>8, PublishMoves
       DEF ServedInv, FuturesServed, serverVars
  <2>3. QED
    BY <2>1, <2>2 DEF ServedInv
<1>9. QED
  BY <1>6, <1>7, <1>8 DEF Conclude

LEMMA CancelServed ==
  ASSUME ControlInv, FreshInv, ServedInv, ReturnsFresh', NEW t \in Tasks,
         Cancel(t)
  PROVE  (GoingOn(t) \/ Ending(t)) /\ ServedInv'
<1>1. Bookkept(t) /\ req' = req /\ floor' = floor /\ UNCHANGED serverVars
  BY DEF Cancel, Bookkept, ControlInv, CallTypeOK, serverVars, beginVars
<1>2. /\ GP!GateInv /\ Cancelled \in Ends /\ Cancelled \notin Nat
      /\ Obtained(t, Cancelled)
  BY ConstantTypes DEF ControlInv, Ends, Exceptions, Obtained
<1>3. CASE Conclude(t, Cancelled)
  BY <1>1, <1>2, <1>3, ConcludeServed
<1>4. CASE /\ Gate!CancelAcquire(t) \/ Gate!CancelFollower(t)
           /\ Settles(t, req[t], gen[t], Cancelled)
  <2>1. NothingNew /\ stage[t] # "out"
    BY <1>2, <1>4, ExitMoves
  <2>2. Busy(t) /\ req[t] \in Requests /\ Within(t)
    BY <1>1, <2>1, InCall, InGate DEF Within
  <2>3. QED
    BY <1>1, <1>2, <1>4, <2>1, <2>2, SettlesServed
<1>5. CASE Gate!CancelFuture(t) /\ GoesOn(t, "gate", gen[t])
  <2>1. NothingNew /\ stage[t] # "out"
    BY <1>2, <1>5, ExitMoves
  <2>2. Within(t)
    BY <1>1, <2>1, InCall, InGate DEF Within
  <2>3. QED
    BY <1>1, <1>5, <2>1, <2>2, GoesOnServed DEF ServedInv
<1>6. QED
  BY <1>3, <1>4, <1>5 DEF Cancel

\* The steps that neither begin nor end a call nor move it in the gate.
Unseen ==
  /\ \A s \in Tasks : Busy(s)' <=> Busy(s)
  /\ UNCHANGED <<req, floor, result, acked>>
  /\ db' = db \/ db' = db + 1

LEMMA OthersServed ==
  ASSUME ControlInv, FreshInv, ServedInv,
         \/ \E t \in Tasks : Serve(t) \/ Retry(t)
         \/ (\E k \in Paths : Expire(k)) \/ ExternalWrite \/ UNCHANGED vars
  PROVE  Unseen /\ ServedInv'
<1>1. /\ db \in Nat /\ fut' = fut
      /\ \A k \in Paths : store'[k] \in {store[k], None}
      /\ \A k \in Paths : store[k] \in Nat \cup {None}
  BY DEF ControlInv, CallTypeOK, Cache!CacheTypeOK, Serve, Retry, Expire,
         Cache!Forget, ExternalWrite, vars, cacheVars, gateVars
<1>2. Unseen
  BY DEF Unseen, Busy, ControlInv, CallTypeOK, Serve, Retry, Expire,
         ExternalWrite, vars, serverVars, beginVars
<1>3. StoreServed'
  BY <1>1, <1>2 DEF Unseen, ServedInv, StoreServed
<1>4. FuturesServed'
  BY <1>1, <1>2 DEF Unseen, ServedInv, FuturesServed
<1>5. WritesMake'
  <2>1. ASSUME NEW t \in Tasks, Serve(t) PROVE WritesMake'
    <3>1. \A s \in Tasks : floor[s] < db + 1
      BY <1>1 DEF FreshInv, Counters, ControlInv, CallTypeOK
    <3>2. req[t].writes => reply'[t] = db + 1
      BY <2>1 DEF Serve, ControlInv, CallTypeOK
    <3>3. /\ UNCHANGED <<req, floor>>
          /\ \A s \in Tasks \ {t} : pc'[s] = pc[s] /\ reply'[s] = reply[s]
      BY <2>1 DEF Serve, beginVars, ControlInv, CallTypeOK
    <3>4. QED
      BY <3>1, <3>2, <3>3 DEF ServedInv, WritesMake
  <2>2. ASSUME NEW t \in Tasks, Retry(t) PROVE WritesMake'
    BY <2>2 DEF Retry, beginVars, ControlInv, CallTypeOK, ServedInv, WritesMake
  <2>3. QED
    BY <2>1, <2>2
       DEF Expire, ExternalWrite, vars, beginVars, ServedInv, WritesMake
<1>6. QED
  BY <1>2, <1>3, <1>4, <1>5 DEF ServedInv

\* To the callers, a step ends a call, lets it go on, or is not seen.
LEMMA ServedStep ==
  ASSUME CacheEnabled, ControlInv, FreshInv, ServedInv, [Next]_vars
  PROVE  /\ Unseen \/ \E t \in Tasks : GoingOn(t) \/ Ending(t)
         /\ ServedInv'
<1>1. ReturnsFresh'
  BY FreshStep DEF FreshInv
<1>2. ASSUME NEW t \in Tasks, NEW r \in Requests, Begin(t, r)
      PROVE  (GoingOn(t) \/ Ending(t)) /\ ServedInv'
  BY <1>1, <1>2, BeginServed
<1>3. ASSUME NEW t \in Tasks, Enter(t) \/ Finish(t) \/ Cancel(t)
      PROVE  (GoingOn(t) \/ Ending(t)) /\ ServedInv'
  BY <1>1, <1>3, EnterServed, FinishServed, CancelServed
<1>4. ASSUME NEW t \in Tasks, Answer(t) \/ GiveUp(t)
      PROVE  (GoingOn(t) \/ Ending(t)) /\ ServedInv'
  <2>1. /\ Bookkept(t) /\ req' = req /\ floor' = floor
        /\ UNCHANGED serverVars
    BY <1>4 DEF Answer, GiveUp, Bookkept, ControlInv, CallTypeOK, serverVars,
                beginVars
  <2>2. CASE Answer(t)
    <3>1. reply[t] \in Nat /\ Obtained(t, reply[t])
      BY <2>2 DEF Answer, ControlInv, Control, TaskControl, Obtained
    <3>2. QED
      BY <1>1, <2>1, <2>2, <3>1, ConcludeServed DEF Answer
  <2>3. CASE GiveUp(t)
    <3>1. Failed \notin Nat
      BY ConstantTypes DEF Exceptions
    <3>2. QED
      BY <1>1, <2>1, <2>3, <3>1, ConcludeServed DEF GiveUp, Obtained
  <2>4. QED
    BY <1>4, <2>2, <2>3
<1>5. CASE \/ \E t \in Tasks : Serve(t) \/ Retry(t)
           \/ (\E k \in Paths : Expire(k)) \/ ExternalWrite \/ UNCHANGED vars
  BY <1>5, OthersServed
<1>6. QED
  BY <1>2, <1>3, <1>4, <1>5 DEF Next, Step, AllDone

LEMMA ServedAlways ==
  ASSUME CacheEnabled
  PROVE  Spec => [](ControlInv /\ FreshInv /\ ServedInv)
<1>1. Init => ControlInv /\ FreshInv /\ ServedInv
  BY ControlInit, FreshInit, ServedInit
<1>2. ControlInv /\ FreshInv /\ ServedInv /\ [Next]_vars
        => (ControlInv /\ FreshInv /\ ServedInv)'
  BY FreshStep, ServedStep
<1>3. QED
  BY <1>1, <1>2, PTL DEF Spec

\* What a caller sees of the client's state.
CallOf(t) == IF pc[t] = "idle" THEN None
             ELSE [floor |-> floor[t], writes |-> req[t].writes]
ResultOf(t) == IF pc[t] = "idle" THEN result[t] ELSE None

CallViews == [t \in Tasks |-> CallOf(t)]
ResultViews == [t \in Tasks |-> ResultOf(t)]

\* A step of one task changes what that task sees and no other.
LEMMA OneViewMoves ==
  ASSUME NEW t \in Tasks, Alone(t)
  PROVE  /\ CallViews' = [CallViews EXCEPT ![t] = CallOf(t)']
         /\ ResultViews' = [ResultViews EXCEPT ![t] = ResultOf(t)']
<1>1. \A s \in Tasks \ {t} : CallOf(s)' = CallOf(s)
                             /\ ResultOf(s)' = ResultOf(s)
  BY DEF CallOf, ResultOf, Alone
<1> HIDE DEF CallOf, ResultOf
<1>2. QED
  BY <1>1 DEF CallViews, ResultViews

LEMMA NothingSeen ==
  ASSUME \A s \in Tasks : CallOf(s)' = CallOf(s) /\ ResultOf(s)' = ResultOf(s),
         acked' = acked, db' = db \/ db' = db + 1
  PROVE  [Promise!Next]_Promise!promiseVars
<1>1. CallViews' = CallViews /\ ResultViews' = ResultViews
  <2> HIDE DEF CallOf, ResultOf
  <2>1. QED
    BY DEF CallViews, ResultViews
<1>2. QED
  BY <1>1 DEF Promise!Next, Promise!ServerWrites, Promise!promiseVars,
              CallViews, CallOf, ResultViews, ResultOf

\* A call that goes on was begun by the step, or nothing is seen of it.
LEMMA GoesOnAsPromised ==
  ASSUME ControlInv, NEW t \in Tasks, GoingOn(t)
  PROVE  [Promise!Next]_Promise!promiseVars
<1>1. CASE Busy(t)
  <2>1. \A s \in Tasks : CallOf(s)' = CallOf(s) /\ ResultOf(s)' = ResultOf(s)
    BY <1>1 DEF GoingOn, Alone, Within, Busy, CallOf, ResultOf
  <2>2. QED
    BY <2>1, NothingSeen DEF GoingOn
<1>2. CASE ~ Busy(t)
  <2>1. /\ CallViews' = [CallViews EXCEPT ![t] = [floor |-> acked,
                                                 writes |-> req'[t].writes]]
        /\ ResultViews' = [ResultViews EXCEPT ![t] = None]
        /\ CallViews[t] = None
    BY <1>2, OneViewMoves
       DEF GoingOn, Within, Busy, CallOf, ResultOf, CallViews
  <2>2. req'[t].writes \in BOOLEAN
    BY <1>2, RequestType DEF GoingOn, Within
  <2>3. UNCHANGED <<db, acked>>
    BY DEF GoingOn
  <2> HIDE DEF CallViews, ResultViews
  <2>4. Promise!Begin(t)
    BY <2>1, <2>2, <2>3
       DEF Promise!Begin, CallViews, CallOf, ResultViews, ResultOf
  <2>5. QED
    BY <2>4 DEF Promise!Next
<1>3. QED
  BY <1>1, <1>2

\* A call that ends was under way, or it is a read that begins and ends.
LEMMA EndsAsPromised ==
  ASSUME ControlInv, NEW t \in Tasks, Ending(t)
  PROVE  Promise!End(t) \/ Promise!AtOnce(t)
<1>1. /\ CallViews' = [CallViews EXCEPT ![t] = None]
      /\ ResultViews' = [ResultViews EXCEPT ![t] = result'[t]]
  BY OneViewMoves DEF Ending, CallOf, ResultOf
<1>2. \A f, w : f = floor'[t] /\ w = req'[t].writes => Promise!Ends(t, f, w)
  <2> HIDE DEF CallViews, ResultViews
  <2>1. QED
    BY <1>1 DEF Ending, Promise!Ends, Larger, Promise!Larger,
                CallViews, CallOf, ResultViews, ResultOf
<1>3. CASE Busy(t)
  <2>1. /\ CallViews[t] = [floor |-> floor[t], writes |-> req[t].writes]
        /\ floor'[t] = floor[t] /\ req'[t] = req[t]
    BY <1>3 DEF CallViews, CallOf, Busy, Ending, Within
  <2>2. CallViews[t] # None
    <3>1. floor[t] \in Nat /\ req[t] \in Requests
      BY <1>3, InCall DEF ControlInv, CallTypeOK
    <3>2. QED
      BY <2>1, <3>1, RequestType, NoneIsNoCall
  <2>3. Promise!Ends(t, CallViews[t].floor, CallViews[t].writes)
    <3>1. /\ CallViews[t].floor = floor'[t]
          /\ CallViews[t].writes = req'[t].writes
      BY <2>1
    <3> HIDE DEF CallViews, ResultViews
    <3>2. QED
      BY <1>1, <3>1 DEF Ending, Promise!Ends, Larger, Promise!Larger,
                        CallViews, CallOf, ResultViews, ResultOf
  <2> HIDE DEF CallViews, ResultViews
  <2>4. QED
    BY <1>1, <2>2, <2>3 DEF Promise!End, CallViews, CallOf
<1>4. CASE ~ Busy(t)
  <2>1. /\ CallViews[t] = None /\ floor'[t] = acked
        /\ req'[t].writes = FALSE
    <3>1. req'[t] \in Requests /\ ~ req'[t].writes
      BY <1>4 DEF Ending, Within
    <3>2. QED
      BY <1>4, <3>1, RequestType
         DEF CallViews, CallOf, Busy, Ending, Within
  <2>2. CallViews' = CallViews
    BY <1>1, <2>1 DEF CallViews
  <2>3. Promise!Ends(t, acked, FALSE)
    BY <1>2, <2>1
  <2> HIDE DEF CallViews, ResultViews
  <2>4. QED
    BY <2>1, <2>2, <2>3 DEF Promise!AtOnce, CallViews, CallOf
<1>5. QED
  BY <1>3, <1>4

\* With the cache on, an AsyncClient is what FreshClient promises, for any
\* tasks, requests, retries and cancellations: neither the cache, nor the
\* sharing of requests, nor a key left behind by a cancelled leader shows in
\* what callers get (async_client.py:209-250).
THEOREM ClientKeepsPromise ==
  ASSUME CacheEnabled
  PROVE  Spec => KeepsPromise
<1>1. Init => Promise!Init
  BY DEF Init, Promise!Init
<1>2. ControlInv /\ FreshInv /\ ServedInv /\ [Next]_vars
        => [Promise!Next]_Promise!promiseVars
  <2> SUFFICES ASSUME ControlInv, FreshInv, ServedInv, [Next]_vars
               PROVE  [Promise!Next]_Promise!promiseVars
    OBVIOUS
  <2>1. CASE Unseen
    BY <2>1, NothingSeen DEF Unseen, Busy, CallOf, ResultOf
  <2>2. ASSUME NEW t \in Tasks, GoingOn(t)
        PROVE  [Promise!Next]_Promise!promiseVars
    BY <2>2, GoesOnAsPromised
  <2>3. ASSUME NEW t \in Tasks, Ending(t)
        PROVE  [Promise!Next]_Promise!promiseVars
    BY <2>3, EndsAsPromised DEF Promise!Next
  <2>4. QED
    BY <2>1, <2>2, <2>3, ServedStep
<1>3. QED
  BY <1>1, <1>2, ServedAlways, PTL DEF Spec, KeepsPromise, Promise!Spec
=============================================================================
