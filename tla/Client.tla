------------------------------- MODULE Client -------------------------------
(***************************************************************************)
(* Threads that share one Client (src/graphann/client.py): the path of a   *)
(* call through _request and _send, over the response cache and the        *)
(* singleflight gate, against a server that applies writes, refuses, and   *)
(* answers late or never.                                                  *)
(*                                                                         *)
(* The server's data is a version number, db: a write makes the next       *)
(* version, a response carries the version it was computed from.  A        *)
(* request's path stands for (method, path, body, tenant), what            *)
(* make_cache_key tells apart.  The cache is its promise, GenerationCache; *)
(* the gate is Singleflight.                                               *)
(***************************************************************************)
EXTENDS Naturals

CONSTANTS
  Threads,       \* the threads that share the client
  Requests,      \* the endpoint calls they make
  CacheEnabled,  \* cache_ttl was given
  MaxRetries,    \* RetryPolicy.max_retries
  MaxCalls,      \* bound: calls begun by all threads together
  MaxExternal,   \* bound: writes the server takes from other clients
  None, Failed   \* nothing; an exception

Verbs == {"GET", "POST", "PUT", "PATCH", "DELETE"}
Mutating == {"POST", "PUT", "PATCH", "DELETE"}

\* Line 276: the calls after which the cache is cleared.
Clears(r) == ~ r.readOnly /\ r.verb \in Mutating

\* Line 259: the calls that look into the cache and fill it.
Caches(r) == CacheEnabled /\ r.cacheable /\ r.verb \in {"GET", "POST"}

ASSUME RequestType ==
  Requests \subseteq [path : STRING, verb : Verbs, params : BOOLEAN,
                      cacheable : BOOLEAN, coalesce : BOOLEAN,
                      readOnly : BOOLEAN,
                      writes : BOOLEAN]   \* what the server does with it

\* No endpoint that writes declares itself read_only or uses GET.
ASSUME WritesAreDeclared == \A r \in Requests : r.writes => Clears(r)

\* No endpoint that writes is answered from the cache or by another caller's
\* request.
ASSUME WritesGoUpstream ==
  \A r \in Requests : r.writes => ~ r.cacheable /\ ~ r.coalesce

\* make_cache_key leaves the query parameters out: a call that is looked up
\* by its key must not carry any.
ASSUME KeyedCallsHaveNoParams ==
  \A r \in Requests : r.cacheable \/ r.coalesce => ~ r.params

ASSUME ConstantTypes ==
  /\ CacheEnabled \in BOOLEAN
  /\ MaxRetries \in Nat /\ MaxCalls \in Nat /\ MaxExternal \in Nat
  /\ None \notin Nat /\ Failed \notin Nat /\ None # Failed
  /\ None \notin Requests /\ None \notin Threads

ASSUME NoneIsNoCall == None \notin [floor : Nat, writes : BOOLEAN]

Paths == {r.path : r \in Requests}

VARIABLES
  inflight, stage, key, got,  \* the gate
  store, generation,          \* the cache
  db, external,               \* the server's version; writes of others so far
  pc, req,                    \* where each thread is, in which call
  gen,                        \* the generation the call read at line 257
  tries,                      \* attempt, the local of _send
  reply,                      \* the version the server last computed for it
  result,                     \* the value or exception of the latest call
  calls,                      \* calls begun so far
  acked,                      \* history: newest version a write returned with
  floor                       \* history: acked when the thread's call began

Gate == INSTANCE Singleflight WITH
          Keys <- Nat \X Paths, Outcomes <- Nat \cup {Failed}, Nobody <- None
Cache == INSTANCE GenerationCache WITH Keys <- Paths, Values <- Nat

\* What the callers see: which call each is in and what the last one gave.
Promise == INSTANCE FreshClient WITH
  Callers <- Threads, Exceptions <- {Failed},
  call <- [t \in Threads |-> IF pc[t] = "idle" THEN None
             ELSE [floor |-> floor[t], writes |-> req[t].writes]],
  result <- [t \in Threads |-> IF pc[t] = "idle" THEN result[t] ELSE None]

cacheVars == <<store, generation>>
gateVars == <<inflight, stage, key, got>>
serverVars == <<db, external>>
callVars == <<req, gen, tries, reply, floor, calls>>
vars == <<cacheVars, gateVars, serverVars, callVars, acked, pc, result>>

PCs == {"idle", "begun", "sampled", "missed", "sending", "served",
        "gate", "settling"}

TypeOK ==
  /\ Gate!GateTypeOK
  /\ Cache!CacheTypeOK
  /\ db \in Nat /\ external \in Nat /\ calls \in Nat
  /\ pc \in [Threads -> PCs]
  /\ req \in [Threads -> Requests \cup {None}]
  /\ gen \in [Threads -> Nat]
  /\ tries \in [Threads -> 0 .. MaxRetries]
  /\ reply \in [Threads -> Nat \cup {None}]
  /\ result \in [Threads -> Nat \cup {None, Failed}]
  /\ acked \in Nat
  /\ floor \in [Threads -> Nat]

Init ==
  /\ Gate!GateInit
  /\ Cache!CacheInit
  /\ db = 0 /\ external = 0 /\ calls = 0
  /\ pc = [t \in Threads |-> "idle"]
  /\ req = [t \in Threads |-> None]
  /\ gen = [t \in Threads |-> 0]
  /\ tries = [t \in Threads |-> 0]
  /\ reply = [t \in Threads |-> None]
  /\ result = [t \in Threads |-> None]
  /\ acked = 0
  /\ floor = [t \in Threads |-> 0]

Goto(t, label) == pc' = [pc EXCEPT ![t] = label]

\* The call returns or raises; its locals are gone.  req, floor and result
\* stay until the thread's next call, for the properties to look at.
Return(t) ==
  /\ Goto(t, "idle")
  /\ gen' = [gen EXCEPT ![t] = 0]
  /\ tries' = [tries EXCEPT ![t] = 0]
  /\ reply' = [reply EXCEPT ![t] = None]
  /\ UNCHANGED <<req, floor, calls>>

-----------------------------------------------------------------------------
(* _request, up to the gate.                                               *)

\* A thread calls an endpoint method, which calls _request.
Begin(t) ==
  /\ pc[t] = "idle"
  /\ calls < MaxCalls
  /\ calls' = calls + 1
  /\ \E r \in Requests : req' = [req EXCEPT ![t] = r]
  /\ result' = [result EXCEPT ![t] = None]
  /\ floor' = [floor EXCEPT ![t] = acked]
  /\ Goto(t, "begun")
  /\ UNCHANGED <<cacheVars, gateVars, serverVars, acked, gen, tries, reply>>

\* The generation is read before the cache is looked into and kept for the
\* rest of the call.
SampleGeneration(t) ==
  /\ pc[t] = "begun"
  /\ gen' = [gen EXCEPT ![t] = IF CacheEnabled THEN generation ELSE 0]
  /\ Goto(t, IF Caches(req[t]) THEN "sampled" ELSE "missed")
  /\ UNCHANGED <<cacheVars, gateVars, serverVars, req, tries, reply, floor,
                 calls, acked, result>>

\* A hit returns at once.
Hit(t) ==
  /\ pc[t] = "sampled"
  /\ store[req[t].path] # None
  /\ result' = [result EXCEPT ![t] = store[req[t].path]]
  /\ Return(t)
  /\ UNCHANGED <<cacheVars, gateVars, serverVars, acked>>

Miss(t) ==
  /\ pc[t] = "sampled"
  /\ store[req[t].path] = None
  /\ Goto(t, "missed")
  /\ UNCHANGED <<cacheVars, gateVars, serverVars, callVars, acked, result>>

\* BUG: the singleflight key is the cache key alone.
GateKeyNoGeneration(t) == <<0, req[t].path>>

\* The singleflight key is the cache key under the call's generation.
GateKey(t) == <<gen[t], req[t].path>>

\* A coalescing call enters the gate; any other sends its own request.
Dispatch(t) ==
  /\ pc[t] = "missed"
  /\ \/ /\ req[t].coalesce
        /\ Gate!Lead(t, GateKey(t))
        /\ Goto(t, "sending")
     \/ /\ req[t].coalesce
        /\ Gate!Follow(t, GateKey(t))
        /\ Goto(t, "gate")
     \/ /\ ~ req[t].coalesce
        /\ Goto(t, "sending")
        /\ UNCHANGED gateVars
  /\ UNCHANGED <<cacheVars, serverVars, callVars, acked, result>>
-----------------------------------------------------------------------------
(* _send: one attempt after another until a usable answer or an exception. *)

\* The server processes the attempt; its answer is on the way.
Serve(t) ==
  /\ pc[t] = "sending"
  /\ db' = IF req[t].writes THEN db + 1 ELSE db
  /\ reply' = [reply EXCEPT ![t] = db']
  /\ Goto(t, "served")
  /\ UNCHANGED <<cacheVars, gateVars, external, req, gen, tries, floor, calls,
                 acked, result>>

\* _send is over: a leader hands the outcome to the gate, any other caller
\* goes on to settle it.
Conclude(t, outcome) ==
  \/ /\ req[t].coalesce
     /\ Gate!Publish(t, outcome)
     /\ Goto(t, "gate")
     /\ UNCHANGED result
  \/ /\ ~ req[t].coalesce
     /\ result' = [result EXCEPT ![t] = outcome]
     /\ Goto(t, "settling")
     /\ UNCHANGED gateVars

\* A 2xx with a usable body arrives.
Answer(t) ==
  /\ pc[t] = "served"
  /\ Conclude(t, reply[t])
  /\ UNCHANGED <<cacheVars, serverVars, callVars, acked>>

\* BUG: off by one, max_retries + 1 retries.
RetryOnceMore(t) ==
  /\ pc[t] \in {"sending", "served"}
  /\ tries[t] <= MaxRetries
  /\ tries' = [tries EXCEPT ![t] = @ + 1]
  /\ Goto(t, "sending")
  /\ UNCHANGED <<cacheVars, gateVars, serverVars, req, gen, reply, floor,
                 calls, acked, result>>

\* BUG: the attempt is not counted.
RetryForever(t) ==
  /\ pc[t] \in {"sending", "served"}
  /\ tries[t] < MaxRetries
  /\ Goto(t, "sending")
  /\ UNCHANGED <<cacheVars, gateVars, serverVars, callVars, acked, result>>

\* The attempt ends in a retriable status or transport error, before the
\* server processed it or after, and an attempt is left.
Retry(t) ==
  /\ pc[t] \in {"sending", "served"}
  /\ tries[t] < MaxRetries
  /\ tries' = [tries EXCEPT ![t] = @ + 1]
  /\ Goto(t, "sending")
  /\ UNCHANGED <<cacheVars, gateVars, serverVars, req, gen, reply, floor,
                 calls, acked, result>>

\* The attempt ends in an exception: a status or transport error that is not
\* retried, or no attempt is left, or the body is not JSON.
GiveUp(t) ==
  /\ pc[t] \in {"sending", "served"}
  /\ Conclude(t, Failed)
  /\ UNCHANGED <<cacheVars, serverVars, callVars, acked>>

-----------------------------------------------------------------------------
(* _request, after the gate.                                               *)

\* The leader pops its key, or a follower wakes up: both hold the outcome.
LeaveGate(t) ==
  /\ pc[t] = "gate"
  /\ Gate!Pop(t) \/ Gate!Leave(t)
  /\ result' = [result EXCEPT ![t] = got[t]]
  /\ Goto(t, "settling")
  /\ UNCHANGED <<cacheVars, serverVars, callVars, acked>>

\* An exception leaves _request before the cache is touched.
Raise(t) ==
  /\ pc[t] = "settling"
  /\ result[t] = Failed
  /\ Return(t)
  /\ UNCHANGED <<cacheVars, gateVars, serverVars, acked, result>>

Larger(m, n) == IF m < n THEN n ELSE m

\* A successful write clears the cache, a successful cacheable read fills it.
Settle(t) ==
  /\ pc[t] = "settling"
  /\ result[t] # Failed
  /\ CASE CacheEnabled /\ Clears(req[t]) -> Cache!Clear
       [] Caches(req[t]) /\ ~ Clears(req[t]) ->
            Cache!Put(req[t].path, result[t], gen[t])
       [] OTHER -> UNCHANGED cacheVars
  /\ acked' = IF req[t].writes THEN Larger(acked, result[t]) ELSE acked
  /\ Return(t)
  /\ UNCHANGED <<gateVars, serverVars, result>>

-----------------------------------------------------------------------------
\* An entry expires or is evicted.
Expire(k) ==
  /\ store[k] # None
  /\ Cache!Forget(k)
  /\ UNCHANGED <<gateVars, serverVars, callVars, acked, pc, result>>

\* Another client writes.
ExternalWrite ==
  /\ external < MaxExternal
  /\ external' = external + 1
  /\ db' = db + 1
  /\ UNCHANGED <<cacheVars, gateVars, callVars, acked, pc, result>>

\* The steps of a call that the thread itself, or the network's timeouts,
\* bring about.
Step(t) ==
  \/ SampleGeneration(t) \/ Hit(t) \/ Miss(t) \/ Dispatch(t)
  \/ Serve(t) \/ Answer(t) \/ Retry(t) \/ GiveUp(t)
  \/ LeaveGate(t) \/ Raise(t) \/ Settle(t)

\* Every call has returned and no more will be made.
AllDone ==
  /\ calls = MaxCalls
  /\ \A t \in Threads : pc[t] = "idle"
  /\ UNCHANGED vars

Next ==
  \/ \E t \in Threads : Begin(t) \/ Step(t)
  \/ \E k \in Paths : Expire(k)
  \/ ExternalWrite
  \/ AllDone

Spec == Init /\ [][Next]_vars

\* A thread inside a call is scheduled, and an attempt ends: the connect,
\* read, write and pool timeouts bound it (lines 119-133).
FairSpec == Spec /\ \A t \in Threads : WF_vars(Step(t))

-----------------------------------------------------------------------------
\* A read returns no version older than the newest one this client's writes
\* had returned with when the read was called, whether it comes from the
\* cache, from another thread's request or from its own.
ReadYourWrites ==
  \A t \in Threads :
    result[t] \in Nat /\ ~ req[t].writes => result[t] >= floor[t]

\* No cached entry predates a write that has returned, though the read that
\* stores it may have been answered before the write and settle after it.
CacheNotOlderThanAcked ==
  \A k \in Paths : store[k] # None => store[k] >= acked

\* The client's threads never have two requests of the same key and
\* generation upstream where the endpoint coalesces.
OneUpstreamPerKey ==
  \A s, t \in Threads :
    /\ {pc[s], pc[t]} \subseteq {"sending", "served"}
    /\ req[s].coalesce /\ req[t].coalesce
    /\ GateKey(s) = GateKey(t)
    => s = t

\* A key is registered only while the call of its leader is in _send or about
\* to pop it.  So a joiner, between event.set and the pop too
\* (_singleflight.py:48-68), waits for a leader that is still to set its event
\* or is handed an outcome no older than the writes that had returned when the
\* joiner's call began.
LateJoinersAreServed ==
  /\ \A k \in DOMAIN inflight :
       LET call == inflight[k]
       IN  /\ pc[call.leader] \in {"sending", "served", "gate"}
           /\ GateKey(call.leader) = k
           /\ call.outcome \in Nat =>
                \A t \in Threads :
                  /\ pc[t] \in {"missed", "gate"}
                  /\ req[t].coalesce /\ GateKey(t) = k
                  => floor[t] <= call.outcome
  /\ \A t \in Threads : stage[t] = "waiting" =>
       key[t] \in DOMAIN inflight /\ ~ inflight[key[t]].event

\* With a cache in front and requests shared, a caller still sees what it
\* would see of calls that each go to the server: an exception, or a version
\* the server had at some time since the newest write that was acknowledged
\* before its call began, and for a write a newer one than that.
KeepsPromise == Promise!Spec

\* How many steps of its own a call still takes at most.  An attempt takes
\* two, and a retry uses up one of the attempts that are left.
StepsLeft(t) ==
  LET attempts == MaxRetries - tries[t]
  IN CASE pc[t] = "idle" -> 0
       [] pc[t] = "settling" -> 1
       [] pc[t] = "gate" -> 2
       [] pc[t] = "served" -> 3 + 2 * attempts
       [] pc[t] = "sending" -> 4 + 2 * attempts
       [] pc[t] = "missed" -> 5 + 2 * MaxRetries
       [] pc[t] = "sampled" -> 6 + 2 * MaxRetries
       [] pc[t] = "begun" -> 7 + 2 * MaxRetries

\* Nothing that others do sends a call back, not a leader's failure and not
\* a clear of the cache, and each step of its own leaves it fewer to take:
\* a call ends within 7 + 2 * MaxRetries of them.
CallsRunOut ==
  [][\A t \in Threads : pc[t] # "idle" =>
       /\ StepsLeft(t)' <= StepsLeft(t)
       /\ Step(t) => StepsLeft(t)' < StepsLeft(t)]_vars

\* Every call returns, a follower's too.
EveryCallReturns == \A t \in Threads : pc[t] # "idle" ~> pc[t] = "idle"
=============================================================================
