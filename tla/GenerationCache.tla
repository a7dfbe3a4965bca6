--------------------------- MODULE GenerationCache ---------------------------
(***************************************************************************)
(* What src/graphann/_cache.py (class ResponseCache) promises the clients, *)
(* whatever its capacity, its eviction order and its clock are: a value    *)
(* enters only through a Put made under the present generation, an entry   *)
(* may be forgotten at any time, and Clear forgets everything and starts a *)
(* new generation.                                                         *)
(***************************************************************************)
EXTENDS Naturals

CONSTANTS Keys,     \* cache keys
          Values,   \* cached responses
          None      \* Python's None: no entry, no generation given

VARIABLES store,      \* the value held for each key
          generation  \* _generation

cacheVars == <<store, generation>>

CacheTypeOK ==
  /\ store \in [Keys -> Values \cup {None}]
  /\ generation \in Nat

CacheInit ==
  /\ store = [k \in Keys |-> None]
  /\ generation = 0

\* BUG: the generation is not compared.
PutAlways(k, v, g) ==
  /\ \E kept \in SUBSET (Keys \ {k}) :
       store' = [x \in Keys |-> IF x = k THEN v
                                ELSE IF x \in kept THEN store[x]
                                ELSE None]
  /\ UNCHANGED generation

\* set(): ignored when the generation given is an older one; otherwise k
\* holds v, and any other entries may be evicted to make room.
Put(k, v, g) ==
  /\ IF g \in {generation, None}
       THEN \E kept \in SUBSET (Keys \ {k}) :
              store' = [x \in Keys |-> IF x = k THEN v
                                       ELSE IF x \in kept THEN store[x]
                                       ELSE None]
       ELSE UNCHANGED store
  /\ UNCHANGED generation

\* get() on an expired entry, or invalidate(): the entry goes.
Forget(k) ==
  /\ store' = [store EXCEPT ![k] = None]
  /\ UNCHANGED generation

\* clear()
Clear ==
  /\ store' = [k \in Keys |-> None]
  /\ generation' = generation + 1

CacheNext ==
  \/ \E k \in Keys, v \in Values, g \in (0 .. generation) \cup {None} :
       Put(k, v, g)
  \/ \E k \in Keys : Forget(k)
  \/ Clear

CacheSpec == CacheInit /\ [][CacheNext]_cacheVars
=============================================================================
