---------------------------- MODULE Singleflight ----------------------------
(***************************************************************************)
(* The thread-safe gate of src/graphann/_singleflight.py (class            *)
(* Singleflight).  The first thread to call with a key leads: it runs fn.  *)
(* Threads that call with the key while it is registered follow: they wait *)
(* for the leader's event and take its outcome.                            *)
(*                                                                         *)
(* An outcome is what fn returned or raised: call.value or call.exc.       *)
(* What a thread still inside call() sees of it is got.                    *)
(***************************************************************************)
CONSTANTS Threads,   \* the threads that share the client
          Keys,      \* the keys they call the gate with
          Outcomes,  \* what fn can return or raise
          Nobody     \* no key, no outcome

VARIABLES inflight,  \* _inflight: the registered _SyncCall of a key
          stage,     \* where in call() each thread is
          key,       \* the key each thread called with
          got        \* call.value or call.exc as each thread sees it

gateVars == <<inflight, stage, key, got>>

Stages == {"out",        \* not in call()
           "leading",    \* running fn                            (line 60)
           "published",  \* event set, key not yet popped      (lines 64-65)
           "waiting",    \* in event.wait()                       (line 68)
           "released"}   \* the event it waited for is set        (line 70)

\* A _SyncCall, named by its leader: the event is set once it has an outcome.
SyncCalls ==
  [leader : Threads, event : {FALSE}, outcome : {Nobody}]
  \cup [leader : Threads, event : {TRUE}, outcome : Outcomes]

GateTypeOK ==
  /\ DOMAIN inflight \subseteq Keys
  /\ inflight \in [DOMAIN inflight -> SyncCalls]
  /\ stage \in [Threads -> Stages]
  /\ key \in [Threads -> Keys \cup {Nobody}]
  /\ got \in [Threads -> Outcomes \cup {Nobody}]

GateInit ==
  /\ inflight = [k \in {} |-> Nobody]
  /\ stage = [t \in Threads |-> "out"]
  /\ key = [t \in Threads |-> Nobody]
  /\ got = [t \in Threads |-> Nobody]

-----------------------------------------------------------------------------
\* The thread is inside call() for k.
Inside(t, k, label) ==
  /\ stage' = [stage EXCEPT ![t] = label]
  /\ key' = [key EXCEPT ![t] = k]

\* BUG: the lock is dropped between the look-up and the registration.
LeadUnchecked(t, k) ==
  /\ stage[t] = "out"
  /\ inflight' = [x \in DOMAIN inflight \cup {k} |->
                    IF x = k
                      THEN [leader |-> t, event |-> FALSE, outcome |-> Nobody]
                      ELSE inflight[x]]
  /\ Inside(t, k, "leading")
  /\ got' = [got EXCEPT ![t] = Nobody]

\* No call is registered for k: the thread registers its own and leads.
Lead(t, k) ==
  /\ stage[t] = "out"
  /\ k \notin DOMAIN inflight
  /\ inflight' = [x \in DOMAIN inflight \cup {k} |->
                    IF x = k
                      THEN [leader |-> t, event |-> FALSE, outcome |-> Nobody]
                      ELSE inflight[x]]
  /\ Inside(t, k, "leading")
  /\ got' = [got EXCEPT ![t] = Nobody]

\* BUG: a follower misses an event that is already set.
FollowMissesEvent(t, k) ==
  /\ stage[t] = "out"
  /\ k \in DOMAIN inflight
  /\ Inside(t, k, "waiting")
  /\ got' = [got EXCEPT ![t] = Nobody]
  /\ UNCHANGED inflight

\* A call is registered for k: the thread waits for its event, which is
\* already set when the leader has published but not yet popped the key.
Follow(t, k) ==
  /\ stage[t] = "out"
  /\ k \in DOMAIN inflight
  /\ Inside(t, k, IF inflight[k].event THEN "released" ELSE "waiting")
  /\ got' = [got EXCEPT ![t] = inflight[k].outcome]
  /\ UNCHANGED inflight

\* The threads that wait on the call t leads.
Followers(t) == {s \in Threads : stage[s] = "waiting" /\ key[s] = key[t]}

\* BUG: an exception of fn is not kept for the followers.
PublishNothing(t, o) ==
  /\ stage[t] = "leading"
  /\ inflight' = [inflight EXCEPT ![key[t]].event = TRUE]
  /\ stage' = [s \in Threads |-> IF s = t THEN "published"
                                 ELSE IF s \in Followers(t) THEN "released"
                                 ELSE stage[s]]
  /\ got' = [got EXCEPT ![t] = o]
  /\ UNCHANGED key

\* fn ended with outcome o: the leader stores it in the call and sets the
\* event, which releases every follower.
Publish(t, o) ==
  /\ stage[t] = "leading"
  /\ inflight' = [inflight EXCEPT ![key[t]] =
                    [leader |-> t, event |-> TRUE, outcome |-> o]]
  /\ stage' = [s \in Threads |-> IF s = t THEN "published"
                                 ELSE IF s \in Followers(t) THEN "released"
                                 ELSE stage[s]]
  /\ got' = [s \in Threads |-> IF s \in Followers(t) \cup {t} THEN o
                               ELSE got[s]]
  /\ UNCHANGED key

\* call() ends; its caller takes got[t] with it.
Return(t) ==
  /\ stage' = [stage EXCEPT ![t] = "out"]
  /\ key' = [key EXCEPT ![t] = Nobody]
  /\ got' = [got EXCEPT ![t] = Nobody]

\* BUG: the leader returns and leaves its key behind.
PopNothing(t) ==
  /\ stage[t] = "published"
  /\ Return(t)
  /\ UNCHANGED inflight

\* The leader removes the key and returns (or raises) its outcome.
Pop(t) ==
  /\ stage[t] = "published"
  /\ inflight' = [x \in DOMAIN inflight \ {key[t]} |-> inflight[x]]
  /\ Return(t)

\* A released follower returns (or raises) the outcome it took.
Leave(t) ==
  /\ stage[t] = "released"
  /\ Return(t)
  /\ UNCHANGED inflight
=============================================================================
