-------------------------- MODULE AsyncSingleflight --------------------------
(***************************************************************************)
(* The asyncio gate of src/graphann/_singleflight.py (class                *)
(* AsyncSingleflight) on one event loop.  An action is what a task does    *)
(* between two suspension points: acquiring a free lock and awaiting a     *)
(* future that is done do not suspend.                                     *)
(*                                                                         *)
(* fut[k] is the future of the call registered for k; it cannot be another *)
(* call's, because a follower keeps the lock while it awaits it and the    *)
(* leader needs the lock to unregister it.  Of an action in which call()   *)
(* returns or raises, the comment says with which outcome.                 *)
(***************************************************************************)
EXTENDS Naturals, Sequences

CONSTANTS
  Tasks,     \* the tasks of the event loop
  Keys,      \* the keys they call the gate with
  Outcomes,  \* what fn can return or raise
  Nobody,    \* no task, no key
  Pending,   \* a future that is not done
  Cancelled, \* a cancelled future; CancelledError
  Invalid    \* InvalidStateError

ASSUME GateConstants ==
  /\ Nobody \notin Tasks \cup Keys
  /\ Pending \notin Outcomes \cup {Cancelled}

VARIABLES
  holder, queue,  \* _lock: who holds or was handed it, who waits, in order
  fut,            \* _inflight: the future of each registered key
  stage,          \* where in call() each task is
  key             \* the key each task inside call() called with

lockVars == <<holder, queue>>
gateVars == <<holder, queue, fut, stage, key>>

Stages == {"out",       \* not in call()
           "entering",  \* in the first acquire                 (line 100)
           "awaiting",  \* in "await fut", the lock held        (line 104)
           "running",   \* in "await fn()"                      (line 109)
           "popping"}   \* in the second acquire      (lines 112 and 121)

FutureStates == {Pending, Cancelled} \cup Outcomes

GateTypeOK ==
  /\ holder \in Tasks \cup {Nobody}
  /\ queue \in Seq(Tasks)
  /\ DOMAIN fut \subseteq Keys
  /\ fut \in [DOMAIN fut -> FutureStates]
  /\ stage \in [Tasks -> Stages]
  /\ key \in [Tasks -> Keys \cup {Nobody}]

GateInit ==
  /\ holder = Nobody /\ queue = <<>>
  /\ fut = [k \in {} |-> Pending]
  /\ stage = [t \in Tasks |-> "out"]
  /\ key = [t \in Tasks |-> Nobody]

-----------------------------------------------------------------------------
(* asyncio.Lock: first come, first served; a release hands the lock to the *)
(* first waiter, whose task resumes later.                                 *)

Release ==
  /\ holder' = IF queue = <<>> THEN Nobody ELSE Head(queue)
  /\ queue' = IF queue = <<>> THEN <<>> ELSE Tail(queue)

Enqueue(t) ==
  /\ queue' = Append(queue, t)
  /\ UNCHANGED holder

Without(i) == SubSeq(queue, 1, i - 1) \o SubSeq(queue, i + 1, Len(queue))

\* A cancelled acquire: the task leaves the queue, or passes on the lock it
\* was already handed.
Abandon(t) ==
  \/ holder = t /\ Release
  \/ \E i \in 1 .. Len(queue) :
       /\ queue[i] = t
       /\ queue' = Without(i)
       /\ UNCHANGED holder

-----------------------------------------------------------------------------
\* The task is inside call() for k.
Inside(t, k, label) ==
  /\ stage' = [stage EXCEPT ![t] = label]
  /\ key' = [key EXCEPT ![t] = k]

\* call() returns or raises.
Return(t) ==
  /\ stage' = [stage EXCEPT ![t] = "out"]
  /\ key' = [key EXCEPT ![t] = Nobody]

Register(k) ==
  fut' = [x \in DOMAIN fut \cup {k} |-> IF x = k THEN Pending ELSE fut[x]]

Unregister(k) == fut' = [x \in DOMAIN fut \ {k} |-> fut[x]]

\* The lock is taken: the task waits for it.
Wait(t, k) ==
  /\ stage[t] = "out"
  /\ holder # Nobody
  /\ Enqueue(t)
  /\ Inside(t, k, "entering")
  /\ UNCHANGED fut

\* The lock is free, or was handed to the task that waits for it.
MayEnter(t, k) ==
  \/ stage[t] = "out" /\ holder = Nobody
  \/ stage[t] = "entering" /\ holder = t /\ key[t] = k

\* BUG: a call already registered is replaced.
LeadRegardless(t, k) ==
  /\ MayEnter(t, k)
  /\ Register(k)
  /\ Release
  /\ Inside(t, k, "running")

\* No call is registered for k: the task registers one, releases the lock
\* and runs fn.
Lead(t, k) ==
  /\ MayEnter(t, k)
  /\ k \notin DOMAIN fut
  /\ Register(k)
  /\ Release
  /\ Inside(t, k, "running")

\* A call is registered: the task awaits its future and keeps the lock.
Follow(t, k) ==
  /\ MayEnter(t, k)
  /\ k \in DOMAIN fut
  /\ fut[k] = Pending
  /\ holder' = t
  /\ Inside(t, k, "awaiting")
  /\ UNCHANGED <<queue, fut>>

\* The future of the registered call is done: call() ends with fut[k].
TakeDone(t, k) ==
  /\ MayEnter(t, k)
  /\ k \in DOMAIN fut
  /\ fut[k] # Pending
  /\ Release
  /\ Return(t)
  /\ UNCHANGED fut

\* BUG: the follower asks for the result without waiting.
ResumeEarly(t) ==
  /\ stage[t] = "awaiting"
  /\ Release
  /\ Return(t)
  /\ UNCHANGED fut

\* The future a follower awaits is done: it releases the lock, and call()
\* ends with fut[key[t]].
Resume(t) ==
  /\ stage[t] = "awaiting"
  /\ fut[key[t]] # Pending
  /\ Release
  /\ Return(t)
  /\ UNCHANGED fut

-----------------------------------------------------------------------------
\* fn ended with o, but a follower's cancellation has cancelled the future:
\* set_result and set_exception raise.  call() ends with Invalid; the key
\* stays.
CompletePoisoned(t) ==
  /\ stage[t] = "running"
  /\ fut[key[t]] = Cancelled
  /\ Return(t)
  /\ UNCHANGED <<lockVars, fut>>

\* fn ended with o and the lock is free: the leader completes the future and
\* unregisters the key in one go.  call() ends with o.
CompleteAndPop(t) ==
  /\ stage[t] = "running"
  /\ fut[key[t]] # Cancelled
  /\ holder = Nobody
  /\ Unregister(key[t])
  /\ Return(t)
  /\ UNCHANGED lockVars

\* BUG: the lock is asked for before the future is completed.
CompleteLate(t, o) ==
  /\ stage[t] = "running"
  /\ fut[key[t]] # Cancelled
  /\ holder # Nobody
  /\ Enqueue(t)
  /\ Inside(t, key[t], "popping")
  /\ UNCHANGED fut

\* fn ended with o and the lock is taken: the leader completes the future
\* and waits for the lock.
CompleteAndWait(t, o) ==
  /\ stage[t] = "running"
  /\ fut[key[t]] # Cancelled
  /\ holder # Nobody
  /\ fut' = [fut EXCEPT ![key[t]] = o]
  /\ Enqueue(t)
  /\ Inside(t, key[t], "popping")

\* BUG: the key is not popped.
PopKeepsKey(t) ==
  /\ stage[t] = "popping"
  /\ holder = t
  /\ Release
  /\ Return(t)
  /\ UNCHANGED fut

\* The lock was handed to the leader: it unregisters the key.  call() ends
\* with its future's outcome, fut[key[t]].
Pop(t) ==
  /\ stage[t] = "popping"
  /\ holder = t
  /\ Unregister(key[t])
  /\ Release
  /\ Return(t)

-----------------------------------------------------------------------------
(* task.cancel(): CancelledError is raised at the await the task is in.    *)
(* At "await fn()" it is what fn raises: one of the Complete actions.      *)

\* At either acquire: call() ends with Cancelled.  A leader's key stays
\* registered.
CancelAcquire(t) ==
  /\ stage[t] \in {"entering", "popping"}
  /\ Abandon(t)
  /\ Return(t)
  /\ UNCHANGED fut

\* At "await fut", the future pending.  Cancelling a task cancels the future
\* it awaits, and this one is shared; the follower then resumes like any
\* other.
CancelFuture(t) ==
  /\ stage[t] = "awaiting"
  /\ fut[key[t]] = Pending
  /\ fut' = [fut EXCEPT ![key[t]] = Cancelled]
  /\ UNCHANGED <<lockVars, stage, key>>

\* BUG: the lock is acquired and released by hand, not by "async with".
CancelKeepsLock(t) ==
  /\ stage[t] = "awaiting"
  /\ fut[key[t]] # Pending
  /\ Return(t)
  /\ UNCHANGED <<lockVars, fut>>

\* At "await fut", the future done: call() ends with Cancelled.
CancelFollower(t) ==
  /\ stage[t] = "awaiting"
  /\ fut[key[t]] # Pending
  /\ Release
  /\ Return(t)
  /\ UNCHANGED fut

-----------------------------------------------------------------------------
\* fn never runs twice at once for one key, whoever is cancelled.
OneRunPerKey ==
  \A s, t \in Tasks :
    stage[s] = "running" /\ stage[t] = "running" /\ key[s] = key[t] => s = t

\* Whoever awaits a pending future has a leader that still runs fn, whichever
\* tasks were cancelled: "await fut" has no timeout.
FollowersHaveLeaders ==
  \A t \in Tasks :
    stage[t] = "awaiting" =>
      /\ key[t] \in DOMAIN fut
      /\ fut[key[t]] = Pending =>
           \E s \in Tasks : stage[s] = "running" /\ key[s] = key[t]

\* Nobody keeps the lock, or a place in its queue, past its need of it: a
\* cancelled acquire and a cancelled follower give both up.
LockIsReturned ==
  /\ holder # Nobody => stage[holder] \in {"entering", "awaiting", "popping"}
  /\ holder = Nobody => queue = <<>>
  /\ \A t \in Tasks :
       stage[t] \in {"entering", "popping"} =>
         (holder = t) # (\E i \in 1 .. Len(queue) : queue[i] = t)
=============================================================================
