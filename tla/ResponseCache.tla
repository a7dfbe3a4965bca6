---------------------------- MODULE ResponseCache ----------------------------
(***************************************************************************)
(* The LRU + TTL cache of src/graphann/_cache.py (class ResponseCache),    *)
(* called by several threads.  get and set read the clock before they take *)
(* the lock, so each is two steps with other calls in between; what runs   *)
(* under the lock is one step.                                             *)
(*                                                                         *)
(* The OrderedDict is the function data and the sequence order of its      *)
(* keys, least recently used first.                                        *)
(***************************************************************************)
EXTENDS Naturals, Sequences, SequencesExt

CONSTANTS
  Threads,        \* the threads that call the cache
  Keys, Values,   \* cache keys and responses
  TTL,            \* _ttl, in clock ticks
  MaxEntries,     \* _max
  MaxTime,        \* bound: the clock's last tick
  MaxGeneration,  \* bound: clear() calls
  MaxUses,        \* bound: set() calls that store and get() calls that hit
  None            \* Python's None

\* __init__ refuses anything else.
ASSUME PositiveSizes == TTL \in Nat \ {0} /\ MaxEntries \in Nat \ {0}

VARIABLES
  data,        \* _data: key -> _Entry
  order,       \* _data: its keys in order
  generation,  \* _generation
  clock,       \* time.monotonic()
  op,          \* the call each thread is in, between its clock read and lock
  uses,        \* history: stores and hits so far
  born,        \* history: when each key's value was stored
  used         \* history: the number of each key's latest store or hit

cacheVars == <<data, order, generation>>
history == <<uses, born, used>>
vars == <<cacheVars, clock, op, history>>

Entry == [value : Values, expires : Nat]
Idle == [kind |-> "none"]
GetOp == [kind : {"get"}, key : Keys, now : Nat]
SetOp == [kind : {"set"}, key : Keys, entry : Entry, gen : Nat \cup {None}]

TypeOK ==
  /\ DOMAIN data \subseteq Keys
  /\ data \in [DOMAIN data -> Entry]
  /\ order \in Seq(Keys)
  /\ generation \in Nat /\ clock \in Nat /\ uses \in Nat
  /\ op \in [Threads -> {Idle} \cup GetOp \cup SetOp]
  /\ born \in [Keys -> Nat] /\ used \in [Keys -> Nat]

Init ==
  /\ data = [k \in {} |-> Idle] /\ order = <<>>
  /\ generation = 0 /\ clock = 0 /\ uses = 0
  /\ op = [t \in Threads |-> Idle]
  /\ born = [k \in Keys |-> 0] /\ used = [k \in Keys |-> 0]

\* BUG: a key that is present keeps its place.
KeepPlace(k) == IF k \in ToSet(order) THEN order ELSE Append(order, k)

Position(k) == CHOOSE i \in 1 .. Len(order) : order[i] = k

\* The order without k.
Without(k) ==
  IF k \in DOMAIN data THEN RemoveAt(order, Position(k)) ELSE order

\* OrderedDict.move_to_end, and the position of a key just inserted.
MoveToEnd(k) == Append(Without(k), k)

Use(k) ==
  /\ uses < MaxUses
  /\ uses' = uses + 1
  /\ used' = [used EXCEPT ![k] = uses']

\* BUG: the entry is overwritten with None instead of deleted.
BlankOut(k) ==
  /\ data' = [data EXCEPT ![k] = None]
  /\ order' = Without(k)

\* The entry is deleted.
Drop(k) ==
  /\ data' = [x \in DOMAIN data \ {k} |-> data[x]]
  /\ order' = Without(k)

Done(t) == op' = [op EXCEPT ![t] = Idle]

-----------------------------------------------------------------------------
StartGet(t, k) ==
  /\ op[t] = Idle
  /\ op' = [op EXCEPT ![t] = [kind |-> "get", key |-> k, now |-> clock]]
  /\ UNCHANGED <<cacheVars, clock, history>>

\* BUG: an entry whose time has come is still served.
ExpiredAfter(k, now) == data[k].expires < now

Expired(k, now) == data[k].expires <= now

\* get() finds no entry.
GetNothing(t) ==
  /\ op[t].kind = "get"
  /\ op[t].key \notin DOMAIN data
  /\ Done(t)
  /\ UNCHANGED <<cacheVars, clock, history>>

\* get() finds an expired entry and removes it.
GetExpired(t) ==
  /\ op[t].kind = "get"
  /\ op[t].key \in DOMAIN data
  /\ Expired(op[t].key, op[t].now)
  /\ Drop(op[t].key)
  /\ Done(t)
  /\ UNCHANGED <<generation, clock, history>>

\* get() returns data[op[t].key].value, now the most recently used.
GetHit(t) ==
  /\ op[t].kind = "get"
  /\ op[t].key \in DOMAIN data
  /\ ~ Expired(op[t].key, op[t].now)
  /\ order' = MoveToEnd(op[t].key)
  /\ Use(op[t].key)
  /\ Done(t)
  /\ UNCHANGED <<data, generation, clock, born>>

StartSet(t, k, v, g) ==
  /\ op[t] = Idle
  /\ op' = [op EXCEPT ![t] =
              [kind |-> "set", key |-> k, gen |-> g,
               entry |-> [value |-> v, expires |-> clock + TTL]]]
  /\ UNCHANGED <<cacheVars, clock, history>>

\* BUG: the generation is not compared.
AnyGeneration(g) == TRUE

\* No generation was given, or the present one.
Current(g) == g \in {None, generation}

\* set() under an older generation stores nothing.
SetIgnored(t) ==
  /\ op[t].kind = "set"
  /\ ~ Current(op[t].gen)
  /\ Done(t)
  /\ UNCHANGED <<cacheVars, clock, history>>

\* BUG: off by one, the cache is let grow past its cap.
ExcessOverOne(keys) ==
  IF Len(keys) > MaxEntries + 1 THEN Len(keys) - MaxEntries - 1 ELSE 0

\* How many entries popitem(last=False) removes from a dict with these keys.
Excess(keys) == IF Len(keys) > MaxEntries THEN Len(keys) - MaxEntries ELSE 0

\* set() stores the entry as the most recently used, then evicts the least
\* recently used ones past the cap.
SetStored(t) ==
  /\ op[t].kind = "set"
  /\ Current(op[t].gen)
  /\ LET k    == op[t].key
         keys == MoveToEnd(k)
         kept == SubSeq(keys, Excess(keys) + 1, Len(keys))
     IN /\ order' = kept
        /\ data' = [x \in ToSet(kept) |->
                     IF x = k THEN op[t].entry ELSE data[x]]
        /\ born' = [born EXCEPT ![k] = clock]
        /\ Use(k)
  /\ Done(t)
  /\ UNCHANGED <<generation, clock>>

Invalidate(k) ==
  /\ k \in DOMAIN data
  /\ Drop(k)
  /\ UNCHANGED <<generation, clock, op, history>>

Clear ==
  /\ generation < MaxGeneration
  /\ generation' = generation + 1
  /\ data' = [k \in {} |-> Idle] /\ order' = <<>>
  /\ UNCHANGED <<clock, op, history>>

Tick ==
  /\ clock < MaxTime
  /\ clock' = clock + 1
  /\ UNCHANGED <<cacheVars, op, history>>

Next ==
  \/ \E t \in Threads :
       \/ \E k \in Keys :
            \/ StartGet(t, k)
            \/ \E v \in Values, g \in (0 .. generation) \cup {None} :
                 StartSet(t, k, v, g)
       \/ GetNothing(t) \/ GetExpired(t) \/ GetHit(t)
       \/ SetIgnored(t) \/ SetStored(t)
  \/ \E k \in Keys : Invalidate(k)
  \/ Clear
  \/ Tick

Spec == Init /\ [][Next]_vars

-----------------------------------------------------------------------------
\* The cache as its promise describes it: the values of the entries it holds.
Promise == INSTANCE GenerationCache WITH
             store <- [k \in Keys |-> IF k \in DOMAIN data THEN data[k].value
                                      ELSE None]

\* The cache keeps the promise the clients rely on: every step is one of the
\* promise's, and the end of a set() is the promised Put of its own key,
\* value and generation, though the cache may have been filled, cleared or
\* refilled since the call began.
KeepsPromise ==
  /\ Promise!CacheSpec
  /\ [][\A t \in Threads :
          op[t].kind = "set" /\ op'[t] = Idle =>
            Promise!Put(op[t].key, op[t].entry.value, op[t].gen)]_vars

\* The two halves of the OrderedDict agree and the cap holds after any
\* sequence of calls.
BoundedAndOrdered ==
  /\ ToSet(order) = DOMAIN data
  /\ IsInjective(order)
  /\ Len(order) <= MaxEntries

\* The order is the order of use whatever calls overlap, so what set()
\* evicts is what was used least recently.
OrderIsRecency ==
  \A i, j \in 1 .. Len(order) : i < j => used[order[i]] < used[order[j]]

\* get() returns no value that was stored a TTL or longer before the get
\* began, though the lock is taken after the clock is read and another
\* thread may have stored or replaced the entry in between.
HitsAreYoung ==
  [][\A t \in Threads :
       GetHit(t) => op[t].now < born[op[t].key] + TTL]_vars
=============================================================================
