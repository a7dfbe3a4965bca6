----------------------------- MODULE AsyncClient -----------------------------
(***************************************************************************)
(* Tasks of one event loop that share one AsyncClient                      *)
(* (src/graphann/async_client.py): the path of a call through _request and *)
(* _send, over the response cache (GenerationCache) and the asyncio gate   *)
(* (AsyncSingleflight), when any task may be cancelled at any await.       *)
(*                                                                         *)
(* What a task does between two awaits is one step, so a call goes from    *)
(* its beginning to the gate or to the wire at once, and settles in the    *)
(* step that gives it its outcome.  The server's data is a version number, *)
(* as in Client.                                                           *)
(***************************************************************************)
EXTENDS Naturals, Sequences

CONSTANTS
  Tasks,         \* the tasks that share the client
  Requests,      \* the endpoint calls they make
  CacheEnabled,  \* cache_ttl was given
  MaxRetries,    \* RetryPolicy.max_retries
  MaxCalls,      \* bound: calls and writes of others together
  MaxCancels,    \* bound: task.cancel() calls
  MaxExternal,   \* bound: writes of others
  None,          \* nothing
  Pending,       \* a future that is not done
  Failed, Cancelled, Invalid  \* exceptions: the SDK's, asyncio's two

Verbs == {"GET", "POST", "PUT", "PATCH", "DELETE"}
Mutating == {"POST", "PUT", "PATCH", "DELETE"}

\* Line 246: the calls after which the cache is cleared.
Clears(r) == ~ r.readOnly /\ r.verb \in Mutating

\* Line 229: the calls that look into the cache and fill it.
Caches(r) == CacheEnabled /\ r.cacheable /\ r.verb \in {"GET", "POST"}

Exceptions == {Failed, Cancelled, Invalid}

ASSUME RequestType ==
  Requests \subseteq [path : STRING, verb : Verbs, params : BOOLEAN,
                      cacheable : BOOLEAN, coalesce : BOOLEAN,
                      readOnly : BOOLEAN, writes : BOOLEAN]

ASSUME WritesAreDeclared == \A r \in Requests : r.writes => Clears(r)

\* No endpoint that shares its request or looks into the cache writes.
ASSUME SharedCallsRead ==
  \A r \in Requests : r.coalesce \/ r.cacheable => ~ r.writes

ASSUME ConstantTypes ==
  /\ CacheEnabled \in BOOLEAN
  /\ MaxRetries \in Nat /\ MaxCalls \in Nat
  /\ MaxCancels \in Nat /\ MaxExternal \in Nat
  /\ Nat \cap ({None, Pending} \cup Exceptions) = {}
  /\ {None, Pending} \cap Exceptions = {}
  /\ Failed # Cancelled /\ Failed # Invalid /\ Cancelled # Invalid

Paths == {r.path : r \in Requests}

ASSUME NothingIsDistinct ==
  None \notin Requests \cup Tasks \cup (Nat \X Paths)

ASSUME NoneIsNoCall == None \notin [floor : Nat, writes : BOOLEAN]

VARIABLES
  holder, queue, fut, stage, key,  \* the gate
  store, generation,  \* the cache
  db, external,       \* the server's version; writes of others so far
  pc, req,            \* where each task is, in which call
  gen,                \* the generation the call read at line 227
  tries,              \* attempt, the local of _send
  reply,              \* the version the server last computed for it
  result,             \* the value or exception of the latest call
  calls, cancels,     \* calls begun, cancellations delivered
  acked,              \* history: newest version a write returned with
  floor               \* history: acked when the task's call began

Gate == INSTANCE AsyncSingleflight WITH
          Keys <- Nat \X Paths, Outcomes <- Nat \cup {Failed},
          Nobody <- None
Cache == INSTANCE GenerationCache WITH Keys <- Paths, Values <- Nat

\* What the callers see: which call each is in and what the last one gave.
Promise == INSTANCE FreshClient WITH
  Callers <- Tasks,
  call <- [t \in Tasks |-> IF pc[t] = "idle" THEN None
             ELSE [floor |-> floor[t], writes |-> req[t].writes]],
  result <- [t \in Tasks |-> IF pc[t] = "idle" THEN result[t] ELSE None]

gateVars == <<holder, queue, fut, stage, key>>
cacheVars == <<store, generation>>
serverVars == <<db, external>>
beginVars == <<req, floor, calls>>
vars == <<gateVars, cacheVars, serverVars, beginVars, pc, gen, tries, reply,
          result, cancels, acked>>

PCs == {"idle",     \* not in a call
        "gate",     \* in one of the gate's awaits
        "sending",  \* the attempt is on its way to the server
        "served"}   \* its answer is on its way back

TypeOK ==
  /\ Gate!GateTypeOK
  /\ Cache!CacheTypeOK
  /\ db \in Nat /\ external \in Nat
  /\ pc \in [Tasks -> PCs]
  /\ req \in [Tasks -> Requests \cup {None}]
  /\ gen \in [Tasks -> Nat]
  /\ tries \in [Tasks -> 0 .. MaxRetries]
  /\ reply \in [Tasks -> Nat \cup {None}]
  /\ result \in [Tasks -> Nat \cup {None} \cup Exceptions]
  /\ calls \in Nat /\ cancels \in Nat
  /\ acked \in Nat
  /\ floor \in [Tasks -> Nat]

Init ==
  /\ Gate!GateInit
  /\ Cache!CacheInit
  /\ db = 0 /\ external = 0
  /\ pc = [t \in Tasks |-> "idle"]
  /\ req = [t \in Tasks |-> None]
  /\ gen = [t \in Tasks |-> 0]
  /\ tries = [t \in Tasks |-> 0]
  /\ reply = [t \in Tasks |-> None]
  /\ result = [t \in Tasks |-> None]
  /\ calls = 0 /\ cancels = 0
  /\ acked = 0
  /\ floor = [t \in Tasks |-> 0]

-----------------------------------------------------------------------------
(* How a step leaves a call: it goes on at label, or it ends.              *)

GoesOn(t, label, g) ==
  /\ pc' = [pc EXCEPT ![t] = label]
  /\ gen' = [gen EXCEPT ![t] = g]
  /\ tries' = [tries EXCEPT ![t] = 0]
  /\ reply' = [reply EXCEPT ![t] = None]
  /\ result' = [result EXCEPT ![t] = None]
  /\ UNCHANGED <<cacheVars, acked>>

\* The call ends with o; its locals are gone.
Returns(t, o) ==
  /\ pc' = [pc EXCEPT ![t] = "idle"]
  /\ gen' = [gen EXCEPT ![t] = 0]
  /\ tries' = [tries EXCEPT ![t] = 0]
  /\ reply' = [reply EXCEPT ![t] = None]
  /\ result' = [result EXCEPT ![t] = o]

Larger(m, n) == IF m < n THEN n ELSE m

\* BUG: the answer is stored under the generation of now.
SettlesNow(t, r, g, o) ==
  /\ Returns(t, o)
  /\ CASE o \in Exceptions -> UNCHANGED cacheVars
       [] o \notin Exceptions /\ CacheEnabled /\ Clears(r) -> Cache!Clear
       [] o \notin Exceptions /\ Caches(r) /\ ~ Clears(r) ->
            Cache!Put(r.path, o, generation)
       [] OTHER -> UNCHANGED cacheVars
  /\ acked' = IF r.writes /\ o \notin Exceptions
                THEN Larger(acked, o) ELSE acked

\* The gate or _send gave o to the call of r.  An exception leaves _request
\* before the cache is touched; a write clears it, a cacheable read fills it.
Settles(t, r, g, o) ==
  /\ Returns(t, o)
  /\ CASE o \in Exceptions -> UNCHANGED cacheVars
       [] o \notin Exceptions /\ CacheEnabled /\ Clears(r) -> Cache!Clear
       [] o \notin Exceptions /\ Caches(r) /\ ~ Clears(r) ->
            Cache!Put(r.path, o, g)
       [] OTHER -> UNCHANGED cacheVars
  /\ acked' = IF r.writes /\ o \notin Exceptions
                THEN Larger(acked, o) ELSE acked

-----------------------------------------------------------------------------
(* _request                                                                *)

\* BUG: the singleflight key is the cache key alone.
KeyNoGeneration(r, g) == <<0, r.path>>

GateKey(r, g) == <<g, r.path>>

\* Inside the gate with its lock: lead, follow, or take what is there.
Section(t, r, g) ==
  \/ Gate!Lead(t, GateKey(r, g)) /\ GoesOn(t, "sending", g)
  \/ Gate!Follow(t, GateKey(r, g)) /\ GoesOn(t, "gate", g)
  \/ /\ Gate!TakeDone(t, GateKey(r, g))
     /\ Settles(t, r, g, fut[GateKey(r, g)])

\* A task calls an endpoint method: the generation is sampled, the cache is
\* looked into and the request is dispatched before the first suspension.
Begin(t, r) ==
  /\ pc[t] = "idle"
  /\ calls + external < MaxCalls
  /\ calls' = calls + 1
  /\ req' = [req EXCEPT ![t] = r]
  /\ floor' = [floor EXCEPT ![t] = acked]
  /\ LET g == IF CacheEnabled THEN generation ELSE 0
         hit == Caches(r) /\ store[r.path] # None
     IN \/ /\ hit
           /\ Returns(t, store[r.path])
           /\ UNCHANGED <<gateVars, cacheVars, acked>>
        \/ /\ ~ hit /\ r.coalesce
           /\ \/ Section(t, r, g)
              \/ Gate!Wait(t, GateKey(r, g)) /\ GoesOn(t, "gate", g)
        \/ /\ ~ hit /\ ~ r.coalesce
           /\ GoesOn(t, "sending", g)
           /\ UNCHANGED gateVars
  /\ UNCHANGED <<serverVars, cancels>>

\* The gate's lock was handed to the task.
Enter(t) ==
  /\ stage[t] = "entering"
  /\ Section(t, req[t], gen[t])
  /\ UNCHANGED <<serverVars, beginVars, cancels>>

\* A follower's future is done, or a leader has popped its key.
Finish(t) ==
  /\ Gate!Resume(t) \/ Gate!Pop(t)
  /\ Settles(t, req[t], gen[t], fut[key[t]])
  /\ UNCHANGED <<serverVars, beginVars, cancels>>

-----------------------------------------------------------------------------
(* _send                                                                   *)

\* The server processes the attempt; its answer is on the way.
Serve(t) ==
  /\ pc[t] = "sending"
  /\ db' = IF req[t].writes THEN db + 1 ELSE db
  /\ reply' = [reply EXCEPT ![t] = db']
  /\ pc' = [pc EXCEPT ![t] = "served"]
  /\ UNCHANGED <<gateVars, cacheVars, external, beginVars, gen, tries, result,
                 cancels, acked>>

\* BUG: a cancelled leader leaves without completing the future.
ConcludeSilently(t, o) ==
  /\ pc[t] \in {"sending", "served"}
  /\ \/ /\ ~ req[t].coalesce \/ o = Cancelled
        /\ Settles(t, req[t], gen[t], o)
        /\ UNCHANGED gateVars
     \/ /\ req[t].coalesce /\ o # Cancelled
        /\ \/ Gate!CompletePoisoned(t) /\ Settles(t, req[t], gen[t], Invalid)
           \/ Gate!CompleteAndPop(t) /\ Settles(t, req[t], gen[t], o)
           \/ Gate!CompleteAndWait(t, o) /\ GoesOn(t, "gate", gen[t])

\* _send ends with o: a leader hands it to the gate, and its call ends at
\* once unless the gate makes it wait for the lock.
Conclude(t, o) ==
  /\ pc[t] \in {"sending", "served"}
  /\ \/ /\ ~ req[t].coalesce
        /\ Settles(t, req[t], gen[t], o)
        /\ UNCHANGED gateVars
     \/ /\ req[t].coalesce
        /\ \/ Gate!CompletePoisoned(t) /\ Settles(t, req[t], gen[t], Invalid)
           \/ Gate!CompleteAndPop(t) /\ Settles(t, req[t], gen[t], o)
           \/ Gate!CompleteAndWait(t, o) /\ GoesOn(t, "gate", gen[t])

\* A 2xx with a usable body arrives.
Answer(t) ==
  /\ pc[t] = "served"
  /\ Conclude(t, reply[t])
  /\ UNCHANGED <<serverVars, beginVars, cancels>>

\* BUG: off by one, max_retries + 1 retries.
RetryOnceMore(t) ==
  /\ pc[t] \in {"sending", "served"}
  /\ tries[t] <= MaxRetries
  /\ tries' = [tries EXCEPT ![t] = @ + 1]
  /\ reply' = [reply EXCEPT ![t] = None]
  /\ pc' = [pc EXCEPT ![t] = "sending"]
  /\ UNCHANGED <<gateVars, cacheVars, serverVars, beginVars, gen, result,
                 cancels, acked>>

\* BUG: the attempt is not counted.
RetryForever(t) ==
  /\ pc[t] \in {"sending", "served"}
  /\ tries[t] < MaxRetries
  /\ reply' = [reply EXCEPT ![t] = None]
  /\ pc' = [pc EXCEPT ![t] = "sending"]
  /\ UNCHANGED <<gateVars, cacheVars, serverVars, beginVars, gen, tries, result,
                 cancels, acked>>

\* The attempt ends in a retriable status or transport error, before the
\* server processed it or after, and an attempt is left.
Retry(t) ==
  /\ pc[t] \in {"sending", "served"}
  /\ tries[t] < MaxRetries
  /\ tries' = [tries EXCEPT ![t] = @ + 1]
  /\ reply' = [reply EXCEPT ![t] = None]
  /\ pc' = [pc EXCEPT ![t] = "sending"]
  /\ UNCHANGED <<gateVars, cacheVars, serverVars, beginVars, gen, result,
                 cancels, acked>>

\* It ends in an exception.
GiveUp(t) ==
  /\ Conclude(t, Failed)
  /\ UNCHANGED <<serverVars, beginVars, cancels>>

-----------------------------------------------------------------------------
\* task.cancel(): CancelledError is raised at the await the task is in, in
\* the request or the sleep between two, or in the gate.
Cancel(t) ==
  /\ cancels < MaxCancels
  /\ cancels' = cancels + 1
  /\ \/ Conclude(t, Cancelled)
     \/ /\ Gate!CancelAcquire(t) \/ Gate!CancelFollower(t)
        /\ Settles(t, req[t], gen[t], Cancelled)
     \/ Gate!CancelFuture(t) /\ GoesOn(t, "gate", gen[t])
  /\ UNCHANGED <<serverVars, beginVars>>

\* An entry expires or is evicted.
Expire(k) ==
  /\ store[k] # None
  /\ Cache!Forget(k)
  /\ UNCHANGED <<gateVars, serverVars, beginVars, pc, gen, tries, reply,
                 result, cancels, acked>>

\* Another client writes, or the server gets to an attempt of this client
\* that was cancelled or timed out.
ExternalWrite ==
  /\ external < MaxExternal
  /\ calls + external < MaxCalls
  /\ external' = external + 1
  /\ db' = db + 1
  /\ UNCHANGED <<gateVars, cacheVars, beginVars, pc, gen, tries, reply, result,
                 cancels, acked>>

\* The steps of a call that the event loop, or the network's timeouts, bring
\* about.
Step(t) ==
  Enter(t) \/ Finish(t) \/ Serve(t) \/ Answer(t) \/ Retry(t) \/ GiveUp(t)

AllDone ==
  /\ calls + external = MaxCalls
  /\ \A t \in Tasks : pc[t] = "idle"
  /\ UNCHANGED vars

Next ==
  \/ \E t \in Tasks :
       \/ \E r \in Requests : Begin(t, r)
       \/ Step(t) \/ Cancel(t)
  \/ \E k \in Paths : Expire(k)
  \/ ExternalWrite
  \/ AllDone

Spec == Init /\ [][Next]_vars

-----------------------------------------------------------------------------
\* A read returns no version older than the newest one this client's writes
\* had returned with when it was called, even from a key that a cancelled
\* leader left registered for good.
ReadYourWrites ==
  \A t \in Tasks :
    result[t] \in Nat /\ ~ req[t].writes => result[t] >= floor[t]

\* No cached entry predates a write that has returned, though the value may
\* come from such a key.
CacheNotOlderThanAcked ==
  \A k \in Paths : store[k] # None => store[k] >= acked

\* A request that coalesces is upstream once per key and generation, though
\* its leader or its followers are cancelled, and its task is then the gate's
\* leader.
OneUpstreamPerKey ==
  \A s, t \in Tasks :
    pc[t] \in {"sending", "served"} /\ req[t].coalesce =>
      /\ stage[t] = "running"
      /\ stage[s] = "running" /\ key[s] = key[t] => s = t

\* Whoever awaits a future that is not done has a request upstream that will
\* complete it, though its leader may be cancelled in the request.
FollowersAreServed ==
  \A t \in Tasks :
    stage[t] = "awaiting" /\ fut[key[t]] = Pending =>
      \E s \in Tasks :
        /\ pc[s] \in {"sending", "served"} /\ req[s].coalesce
        /\ GateKey(req[s], gen[s]) = key[t]

\* How many steps of its own a call still takes at most.
StepsLeft(t) ==
  LET attempts == MaxRetries - tries[t]
  IN CASE pc[t] = "idle" -> 0
       [] pc[t] = "gate" /\ stage[t] \in {"awaiting", "popping"} -> 1
       [] pc[t] = "served" -> 2 + 2 * attempts
       [] pc[t] = "sending" -> 3 + 2 * attempts
       [] pc[t] = "gate" /\ stage[t] = "entering" -> 4 + 2 * MaxRetries

\* Nothing that others do sends a call back, not a cancellation and not a
\* clear of the cache, and each step of its own leaves it fewer to take: a
\* call ends within 4 + 2 * MaxRetries of them.
CallsRunOut ==
  [][\A t \in Tasks : pc[t] # "idle" =>
       /\ StepsLeft(t)' <= StepsLeft(t)
       /\ Step(t) => StepsLeft(t)' < StepsLeft(t)]_vars

\* Whatever is cached, shared, retried or cancelled, a caller sees what it
\* would see of calls that each go to the server: an exception, or a version
\* the server had at some time since the newest write that was acknowledged
\* before its call began, and for a write a newer one than that.
KeepsPromise == Promise!Spec
=============================================================================
