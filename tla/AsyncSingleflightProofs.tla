----------------------- MODULE AsyncSingleflightProofs -----------------------
(***************************************************************************)
(* Lemmas about the steps of AsyncSingleflight, for any tasks and keys, in *)
(* whatever order they run and whichever are cancelled, for the proofs     *)
(* about the modules that use the gate.                                    *)
(***************************************************************************)
EXTENDS AsyncSingleflight, TLAPS

-----------------------------------------------------------------------------
(* The lock.                                                               *)

Places == 1 .. Len(queue)
Queues(t) == \E i \in Places : queue[i] = t
Waiting == {"entering", "popping"}

\* The holder and the queue are distinct tasks that need the lock, and every
\* task that needs it is one of them.
LockInv ==
  /\ \A i, j \in Places : queue[i] = queue[j] => i = j
  /\ \A i \in Places : queue[i] # holder /\ stage[queue[i]] \in Waiting
  /\ holder = Nobody => queue = <<>>
  /\ holder # Nobody => stage[holder] \in Waiting \/ stage[holder] = "awaiting"
  /\ \A t \in Tasks : stage[t] \in Waiting => holder = t \/ Queues(t)
  /\ \A t \in Tasks : stage[t] = "awaiting" => holder = t

\* A step of t changes nobody else's stage or key.
OnlyMoves(t) ==
  \A s \in Tasks \ {t} : stage'[s] = stage[s] /\ key'[s] = key[s]

\* Whoever has or finds the lock free and releases it leaves it in order.
LEMMA ReleaseInOrder ==
  ASSUME GateTypeOK, LockInv, NEW t \in Tasks, OnlyMoves(t),
         holder \in {t, Nobody}, stage[t] \in Stages,
         holder = Nobody => stage[t] \notin Waiting /\ stage[t] # "awaiting",
         stage'[t] \in {"out", "running"},
         Release
  PROVE  LockInv' /\ holder' \in Tasks \cup {Nobody} /\ queue' \in Seq(Tasks)
<1>1. CASE queue = <<>>
  <2>1. holder' = Nobody /\ queue' = <<>>
    BY <1>1 DEF Release
  <2>2. \A s \in Tasks \ {t} : stage[s] \notin Waiting /\ stage[s] # "awaiting"
    BY <1>1, GateConstants DEF LockInv, Queues, Places, Waiting
  <2>3. QED
    BY <2>1, <2>2 DEF LockInv, Queues, Places, Waiting, OnlyMoves
<1>2. CASE queue # <<>>
  <2>1. /\ holder' = queue[1] /\ queue' = Tail(queue)
        /\ queue \in Seq(Tasks) /\ Len(queue) \in Nat \ {0}
    BY <1>2 DEF Release, GateTypeOK
  <2>2. /\ queue' \in Seq(Tasks) /\ Len(queue') = Len(queue) - 1
        /\ \A i \in 1 .. Len(queue') : queue'[i] = queue[i + 1]
    BY <2>1
  <2>3. /\ \A i \in Places : queue[i] \in Tasks
        /\ 1 \in Places /\ \A i \in 1 .. Len(queue') : i + 1 \in Places
    BY <2>1, <2>2 DEF Places
  <2>4. holder = t
    BY <1>2 DEF LockInv
  <2>5. \A i \in Places : queue[i] # t /\ stage[queue[i]] \in Waiting
    BY <2>4 DEF LockInv
  <2>6. \A i \in Places : stage'[queue[i]] \in Waiting
    <3>1. \A i \in Places : stage'[queue[i]] = stage[queue[i]]
      BY <2>3, <2>5 DEF OnlyMoves
    <3>2. QED
      BY <2>5, <3>1 DEF Waiting
  <2>7. /\ \A i, j \in Places' : queue'[i] = queue'[j] => i = j
        /\ \A i \in Places' : queue'[i] # holder' /\ stage'[queue'[i]] \in Waiting
    BY <2>1, <2>2, <2>3, <2>6 DEF LockInv, Places
  <2>8. holder' \in Tasks /\ holder' # Nobody /\ stage'[holder'] \in Waiting
    BY <2>1, <2>3, <2>6, GateConstants
  <2>9. ASSUME NEW s \in Tasks, stage'[s] \in Waiting
        PROVE  holder' = s \/ Queues(s)'
    <3>1. s # t /\ stage[s] \in Waiting
      BY <2>9 DEF Waiting, OnlyMoves
    <3>2. PICK i \in Places : queue[i] = s
      BY <2>4, <3>1 DEF LockInv, Queues
    <3>3. CASE i = 1
      BY <2>1, <3>2, <3>3
    <3>4. CASE i # 1
      <4>1. i - 1 \in 1 .. Len(queue') /\ queue'[i - 1] = s
        BY <2>1, <2>2, <3>2, <3>4 DEF Places
      <4>2. QED
        BY <4>1 DEF Queues, Places
    <3>5. QED
      BY <3>3, <3>4
  <2>10. \A s \in Tasks : stage'[s] # "awaiting"
    BY <2>4, GateConstants DEF LockInv, OnlyMoves
  <2>11. QED
    BY <2>2, <2>7, <2>8, <2>9, <2>10 DEF LockInv
<1>3. QED
  BY <1>1, <1>2

\* A task that neither holds the lock nor waits for it may join the queue.
LEMMA EnqueueInOrder ==
  ASSUME GateTypeOK, LockInv, NEW t \in Tasks, OnlyMoves(t),
         holder # Nobody, stage[t] \in {"out", "running"},
         stage'[t] \in Waiting,
         Enqueue(t)
  PROVE  LockInv' /\ holder' \in Tasks \cup {Nobody} /\ queue' \in Seq(Tasks)
<1>1. /\ holder' = holder /\ queue' = Append(queue, t)
      /\ queue \in Seq(Tasks) /\ Len(queue) \in Nat
  BY DEF Enqueue, GateTypeOK
<1>2. /\ queue' \in Seq(Tasks) /\ Len(queue') = Len(queue) + 1
      /\ \A i \in Places : queue'[i] = queue[i]
      /\ queue'[Len(queue) + 1] = t
  BY <1>1 DEF Places
<1>3. holder \in Tasks /\ holder # t /\ \A i \in Places : queue[i] # t
  BY DEF LockInv, GateTypeOK, Waiting
<1>4. \A i \in Places' : i \in Places \/ i = Len(queue) + 1
  BY <1>1, <1>2 DEF Places
<1>5. \A i \in Places : queue[i] \in Tasks
  BY <1>1 DEF Places
<1>6. \A i \in Places' : queue'[i] # holder' /\ stage'[queue'[i]] \in Waiting
  <2>1. \A i \in Places : queue'[i] # holder' /\ stage'[queue'[i]] \in Waiting
    <3>1. \A i \in Places : stage'[queue[i]] = stage[queue[i]]
      BY <1>3, <1>5 DEF OnlyMoves
    <3>2. QED
      BY <1>1, <1>2, <3>1 DEF LockInv, Waiting
  <2>2. QED
    BY <1>1, <1>2, <1>3, <1>4, <2>1
<1>7. \A i, j \in Places' : queue'[i] = queue'[j] => i = j
  BY <1>2, <1>3, <1>4 DEF LockInv
<1>8. ASSUME NEW s \in Tasks, stage'[s] \in Waiting
      PROVE  holder' = s \/ Queues(s)'
  <2>1. CASE s = t
    BY <1>1, <1>2, <2>1 DEF Queues, Places
  <2>2. CASE s # t
    <3>1. stage[s] \in Waiting
      BY <1>8, <2>2 DEF Waiting, OnlyMoves
    <3>2. holder = s \/ Queues(s)
      BY <3>1 DEF LockInv
    <3>3. Places \subseteq Places'
      BY <1>1, <1>2 DEF Places
    <3>4. QED
      BY <1>1, <1>2, <3>2, <3>3 DEF Queues
  <2>3. QED
    BY <2>1, <2>2
<1>9. \A s \in Tasks : stage'[s] = "awaiting" => holder' = s
  BY <1>1 DEF LockInv, OnlyMoves, Waiting
<1>10. holder' # Nobody /\ (stage'[holder'] \in Waiting \/ stage'[holder'] = "awaiting")
  BY <1>1, <1>3 DEF LockInv, OnlyMoves, Waiting
<1>11. QED
  BY <1>1, <1>2, <1>3, <1>6, <1>7, <1>8, <1>9, <1>10 DEF LockInv

\* The queue without one of its tasks.
LEMMA WithoutOne ==
  ASSUME GateTypeOK, NEW i \in Places
  PROVE  /\ Without(i) \in Seq(Tasks) /\ Len(Without(i)) = Len(queue) - 1
         /\ \A j \in 1 .. Len(queue) - 1 :
              Without(i)[j] = IF j < i THEN queue[j] ELSE queue[j + 1]
<1>1. queue \in Seq(Tasks) /\ Len(queue) \in Nat /\ i \in 1 .. Len(queue)
  BY DEF GateTypeOK, Places
<1> DEFINE front == SubSeq(queue, 1, i - 1)
           back == SubSeq(queue, i + 1, Len(queue))
<1>2. /\ front \in Seq(Tasks) /\ Len(front) = i - 1
      /\ \A j \in 1 .. i - 1 : front[j] = queue[j]
  BY <1>1
<1>3. /\ back \in Seq(Tasks) /\ Len(back) = Len(queue) - i
      /\ \A j \in 1 .. Len(queue) - i : back[j] = queue[i + j]
  BY <1>1
<1> HIDE DEF front, back
<1>4. /\ front \o back \in Seq(Tasks)
      /\ Len(front \o back) = Len(front) + Len(back)
      /\ \A j \in 1 .. Len(front) + Len(back) :
           (front \o back)[j] = IF j <= Len(front) THEN front[j]
                                                  ELSE back[j - Len(front)]
  BY <1>2, <1>3
<1>5. Without(i) = front \o back
  BY DEF Without, front, back
<1>6. \A j \in 1 .. Len(queue) - 1 :
        (front \o back)[j] = IF j < i THEN queue[j] ELSE queue[j + 1]
  <2>1. ASSUME NEW j \in 1 .. Len(queue) - 1, j < i
        PROVE  (front \o back)[j] = queue[j]
    BY <1>1, <1>2, <1>3, <1>4, <2>1
  <2>2. ASSUME NEW j \in 1 .. Len(queue) - 1, ~ (j < i)
        PROVE  (front \o back)[j] = queue[j + 1]
    <3>1. j - (i - 1) \in 1 .. Len(queue) - i /\ i + (j - (i - 1)) = j + 1
      BY <1>1, <2>2
    <3>2. (front \o back)[j] = back[j - (i - 1)]
      BY <1>1, <1>2, <1>3, <1>4, <2>2
    <3>3. QED
      BY <1>3, <3>1, <3>2
  <2>3. QED
    BY <2>1, <2>2
<1>7. Len(front \o back) = Len(queue) - 1
  BY <1>1, <1>2, <1>3, <1>4
<1>8. QED
  BY <1>4, <1>5, <1>6, <1>7, Zenon

\* A cancelled acquire leaves the lock in order.
LEMMA AbandonInOrder ==
  ASSUME GateTypeOK, LockInv, NEW t \in Tasks, OnlyMoves(t),
         stage[t] \in Waiting, stage'[t] = "out",
         Abandon(t)
  PROVE  LockInv' /\ holder' \in Tasks \cup {Nobody} /\ queue' \in Seq(Tasks)
<1>1. CASE holder = t /\ Release
  BY <1>1, GateConstants, ReleaseInOrder DEF GateTypeOK
<1>2. ASSUME NEW i \in Places, queue[i] = t, queue' = Without(i),
             holder' = holder
      PROVE  LockInv' /\ holder' \in Tasks \cup {Nobody} /\ queue' \in Seq(Tasks)
  <2>1. /\ queue' \in Seq(Tasks) /\ Len(queue') = Len(queue) - 1
        /\ \A j \in Places' : queue'[j] = IF j < i THEN queue[j] ELSE queue[j + 1]
        /\ Len(queue) \in Nat
        /\ \A j \in Places : queue[j] \in Tasks
    BY <1>2, WithoutOne DEF Places, GateTypeOK
  <2>2. \A j \in Places' : j \in Places /\ j + 1 \in Places /\ j \in Nat
    BY <2>1 DEF Places
  <2>3. i \in Nat
    BY DEF Places
  <2>4. \A j, k \in Places' : queue'[j] = queue'[k] => j = k
    BY <2>1, <2>2, <2>3 DEF LockInv
  <2>5. holder # Nobody /\ holder # t /\ holder \in Tasks
    BY <1>2, <2>1 DEF LockInv, Places, GateTypeOK
  <2>6. \A j \in Places \ {i} : queue[j] # t
    BY <1>2 DEF LockInv
  <2>7. \A j \in Places' : queue'[j] # holder' /\ stage'[queue'[j]] \in Waiting
    <3>1. ASSUME NEW j \in Places'
          PROVE  \E m \in Places \ {i} : queue'[j] = queue[m]
      BY <2>1, <2>2, <2>3
    <3>2. \A m \in Places \ {i} :
            queue[m] # holder /\ stage'[queue[m]] \in Waiting
      BY <2>1, <2>6 DEF LockInv, OnlyMoves
    <3>3. QED
      BY <1>2, <3>1, <3>2
  <2>8. ASSUME NEW s \in Tasks, stage'[s] \in Waiting
        PROVE  holder' = s \/ Queues(s)'
    <3>1. s # t /\ stage[s] \in Waiting
      BY <2>8 DEF Waiting, OnlyMoves
    <3>2. CASE holder = s
      BY <1>2, <3>2
    <3>3. CASE Queues(s)
      <4>1. PICK m \in Places : queue[m] = s
        BY <3>3 DEF Queues
      <4>2. m # i
        BY <1>2, <3>1, <4>1
      <4>3. \E j \in Places' : queue'[j] = s
        <5>1. CASE m < i
          BY <2>1, <2>3, <4>1, <5>1 DEF Places
        <5>2. CASE m > i
          <6>1. m - 1 \in Places' /\ ~ (m - 1 < i) /\ m - 1 + 1 = m
            BY <2>1, <5>2 DEF Places
          <6>2. queue'[m - 1] = s
            BY <2>1, <4>1, <6>1
          <6>3. QED
            BY <6>1, <6>2
        <5>3. QED
          BY <4>2, <5>1, <5>2 DEF Places
      <4>4. QED
        BY <4>3 DEF Queues
    <3>4. QED
      BY <3>1, <3>2, <3>3 DEF LockInv
  <2>9. \A s \in Tasks : stage'[s] = "awaiting" => holder' = s
    BY <1>2 DEF LockInv, OnlyMoves
  <2>10. stage'[holder'] \in Waiting \/ stage'[holder'] = "awaiting"
    BY <1>2, <2>5 DEF LockInv, OnlyMoves
  <2>11. QED
    BY <1>2, <2>1, <2>4, <2>5, <2>7, <2>8, <2>9, <2>10 DEF LockInv, GateTypeOK
<1>3. QED
  BY <1>1, <1>2 DEF Abandon, Places

-----------------------------------------------------------------------------
(* The futures.                                                            *)

Leads(t) == stage[t] \in {"running", "popping"}

\* Followers and leaders are there with a registered key, a key has one
\* leader, and a pending future has a leader that runs fn.
FutInv ==
  /\ \A t \in Tasks : stage[t] # "out" => key[t] \in Keys
  /\ \A t \in Tasks : stage[t] = "awaiting" => key[t] \in DOMAIN fut
  /\ \A t \in Tasks : stage[t] = "running" =>
       key[t] \in DOMAIN fut /\ fut[key[t]] \in {Pending, Cancelled}
  /\ \A t \in Tasks : stage[t] = "popping" =>
       key[t] \in DOMAIN fut /\ fut[key[t]] # Pending
  /\ \A s, t \in Tasks : Leads(s) /\ Leads(t) /\ key[s] = key[t] => s = t
  /\ \A k \in DOMAIN fut : fut[k] = Pending =>
       \E t \in Tasks : stage[t] = "running" /\ key[t] = k

GateInv == GateTypeOK /\ LockInv /\ FutInv

LEMMA GateInitSound == GateInit => GateInv
BY GateConstants
   DEF GateInit, GateInv, GateTypeOK, LockInv, FutInv, Places, Queues, Waiting,
       Leads, Stages

\* What Inside and Return do to the task and to the others.
LEMMA InsideMoves ==
  ASSUME GateTypeOK, NEW t \in Tasks, NEW k \in Keys, NEW label \in Stages,
         Inside(t, k, label)
  PROVE  /\ OnlyMoves(t) /\ stage'[t] = label /\ key'[t] = k
         /\ key' \in [Tasks -> Keys \cup {Nobody}]
         /\ stage' \in [Tasks -> Stages]
BY DEF GateTypeOK, Inside, OnlyMoves

LEMMA ReturnMoves ==
  ASSUME GateTypeOK, NEW t \in Tasks, Return(t)
  PROVE  /\ OnlyMoves(t) /\ stage'[t] = "out" /\ key'[t] = Nobody
         /\ key' \in [Tasks -> Keys \cup {Nobody}]
         /\ stage' \in [Tasks -> Stages]
BY DEF GateTypeOK, Return, OnlyMoves, Stages

\* What enters with the lock free or in hand.
LEMMA Enters ==
  ASSUME GateInv, NEW t \in Tasks, NEW k, MayEnter(t, k)
  PROVE  /\ holder \in {t, Nobody} /\ stage[t] \in Stages
         /\ stage[t] \in {"out", "entering"}
         /\ holder = Nobody => stage[t] \notin Waiting /\ stage[t] # "awaiting"
BY GateConstants DEF GateInv, GateTypeOK, MayEnter, Waiting, Stages

LEMMA WaitSound ==
  ASSUME GateInv, NEW t \in Tasks, NEW k \in Keys, Wait(t, k)
  PROVE  GateInv'
<1>1. /\ OnlyMoves(t) /\ stage'[t] = "entering" /\ key'[t] = k
      /\ key' \in [Tasks -> Keys \cup {Nobody}] /\ stage' \in [Tasks -> Stages]
  BY InsideMoves DEF Wait, GateInv, Stages
<1>2. LockInv' /\ holder' \in Tasks \cup {Nobody} /\ queue' \in Seq(Tasks)
  BY <1>1, EnqueueInOrder DEF Wait, GateInv, Waiting
<1>3. GateTypeOK'
  BY <1>1, <1>2 DEF Wait, GateInv, GateTypeOK
<1>4. FutInv'
  BY <1>1 DEF Wait, GateInv, FutInv, OnlyMoves, Leads
<1>5. QED
  BY <1>2, <1>3, <1>4 DEF GateInv

LEMMA LeadSound ==
  ASSUME GateInv, NEW t \in Tasks, NEW k \in Keys, Lead(t, k)
  PROVE  GateInv'
<1>1. /\ OnlyMoves(t) /\ stage'[t] = "running" /\ key'[t] = k
      /\ key' \in [Tasks -> Keys \cup {Nobody}] /\ stage' \in [Tasks -> Stages]
  BY InsideMoves DEF Lead, GateInv, Stages
<1>2. LockInv' /\ holder' \in Tasks \cup {Nobody} /\ queue' \in Seq(Tasks)
  BY <1>1, Enters, ReleaseInOrder DEF Lead, GateInv
<1>3. /\ DOMAIN fut' = DOMAIN fut \cup {k} /\ fut'[k] = Pending
      /\ \A x \in DOMAIN fut : fut'[x] = fut[x]
      /\ fut' = [x \in DOMAIN fut' |-> fut'[x]]
  BY DEF Lead, Register
<1>4. GateTypeOK'
  <2>1. \A x \in DOMAIN fut' : fut'[x] \in FutureStates
    BY <1>3 DEF GateInv, GateTypeOK, FutureStates
  <2>2. QED
    BY <1>1, <1>2, <1>3, <2>1 DEF GateInv, GateTypeOK
<1>5. \A s \in Tasks : Leads(s) => key[s] # k
  BY DEF Lead, GateInv, FutInv, Leads
<1>6. FutInv'
  <2>1. \A s \in Tasks : stage'[s] # "out" => key'[s] \in Keys
    BY <1>1 DEF GateInv, FutInv, OnlyMoves
  <2>2. ASSUME NEW s \in Tasks
        PROVE  /\ stage'[s] = "awaiting" => key'[s] \in DOMAIN fut'
               /\ stage'[s] = "running" =>
                    key'[s] \in DOMAIN fut' /\ fut'[key'[s]] \in {Pending, Cancelled}
               /\ stage'[s] = "popping" =>
                    key'[s] \in DOMAIN fut' /\ fut'[key'[s]] # Pending
    <3>1. CASE s = t
      BY <1>1, <1>3, <3>1
    <3>2. CASE s # t
      BY <1>1, <1>3, <3>2 DEF GateInv, FutInv, OnlyMoves
    <3>3. QED
      BY <3>1, <3>2
  <2>3. \A r, s \in Tasks :
          Leads(r)' /\ Leads(s)' /\ key'[r] = key'[s] => r = s
    BY <1>1, <1>5 DEF GateInv, FutInv, OnlyMoves, Leads
  <2>4. ASSUME NEW x \in DOMAIN fut', fut'[x] = Pending
        PROVE  \E s \in Tasks : stage'[s] = "running" /\ key'[s] = x
    <3>1. CASE x = k
      BY <1>1, <3>1
    <3>2. CASE x # k
      <4>1. PICK s \in Tasks : stage[s] = "running" /\ key[s] = x
        BY <1>3, <2>4, <3>2 DEF GateInv, FutInv
      <4>2. s # t
        BY <4>1, Enters DEF Lead
      <4>3. QED
        BY <1>1, <4>1, <4>2 DEF OnlyMoves
    <3>3. QED
      BY <3>1, <3>2
  <2>5. QED
    BY <2>1, <2>2, <2>3, <2>4 DEF FutInv
<1>7. QED
  BY <1>2, <1>4, <1>6 DEF GateInv

LEMMA FollowSound ==
  ASSUME GateInv, NEW t \in Tasks, NEW k \in Keys, Follow(t, k)
  PROVE  GateInv'
<1>1. /\ OnlyMoves(t) /\ stage'[t] = "awaiting" /\ key'[t] = k
      /\ key' \in [Tasks -> Keys \cup {Nobody}] /\ stage' \in [Tasks -> Stages]
  BY InsideMoves DEF Follow, GateInv, Stages
<1>2. holder' = t /\ queue' = queue /\ fut' = fut /\ k \in DOMAIN fut
      /\ holder \in {t, Nobody} /\ stage[t] \in {"out", "entering"}
  BY Enters DEF Follow
<1>3. GateTypeOK'
  BY <1>1, <1>2 DEF GateInv, GateTypeOK
<1>4. LockInv'
  <2>1. \A s \in Tasks \ {t} : stage[s] \in Waiting => Queues(s)
    BY <1>2, GateConstants DEF GateInv, LockInv, Queues, Places
  <2>2. \A s \in Tasks \ {t} : stage[s] # "awaiting"
    BY <1>2, GateConstants DEF GateInv, LockInv
  <2>3. \A i \in Places : queue[i] # t /\ queue[i] \in Tasks
    BY <1>2, GateConstants DEF GateInv, GateTypeOK, LockInv, Places
  <2>4. \A i \in Places : stage'[queue[i]] \in Waiting
    BY <1>1, <2>3 DEF GateInv, LockInv, OnlyMoves
  <2>5. QED
    BY <1>1, <1>2, <2>1, <2>2, <2>3, <2>4, GateConstants
       DEF GateInv, LockInv, Queues, Places, Waiting, OnlyMoves
<1>5. FutInv'
  BY <1>1, <1>2 DEF GateInv, FutInv, OnlyMoves, Leads
<1>6. QED
  BY <1>3, <1>4, <1>5 DEF GateInv

\* A follower, or a caller that takes a finished future's outcome, leaves.
LEMMA ReleaseAndReturnSound ==
  ASSUME GateInv, NEW t \in Tasks, holder \in {t, Nobody},
         holder = Nobody => stage[t] \notin Waiting /\ stage[t] # "awaiting",
         ~ Leads(t), Release, Return(t), UNCHANGED fut
  PROVE  GateInv'
<1>1. /\ OnlyMoves(t) /\ stage'[t] = "out" /\ key'[t] = Nobody
      /\ key' \in [Tasks -> Keys \cup {Nobody}] /\ stage' \in [Tasks -> Stages]
  BY ReturnMoves DEF GateInv
<1>2. LockInv' /\ holder' \in Tasks \cup {Nobody} /\ queue' \in Seq(Tasks)
  BY <1>1, ReleaseInOrder DEF GateInv, GateTypeOK
<1>3. GateTypeOK'
  BY <1>1, <1>2 DEF GateInv, GateTypeOK
<1>4. FutInv'
  BY <1>1 DEF GateInv, FutInv, OnlyMoves, Leads
<1>5. QED
  BY <1>2, <1>3, <1>4 DEF GateInv

LEMMA TakeDoneSound ==
  ASSUME GateInv, NEW t \in Tasks, NEW k \in Keys, TakeDone(t, k)
  PROVE  GateInv'
BY Enters, ReleaseAndReturnSound DEF TakeDone, Leads

LEMMA ResumeSound ==
  ASSUME GateInv, NEW t \in Tasks, Resume(t)
  PROVE  GateInv'
<1>1. holder = t
  BY DEF GateInv, LockInv, Resume
<1>2. QED
  BY <1>1, GateConstants, ReleaseAndReturnSound DEF Resume, Leads

LEMMA CancelFollowerSound ==
  ASSUME GateInv, NEW t \in Tasks, CancelFollower(t)
  PROVE  GateInv'
<1>1. holder = t
  BY DEF GateInv, LockInv, CancelFollower
<1>2. QED
  BY <1>1, GateConstants, ReleaseAndReturnSound DEF CancelFollower, Leads

\* A step that leaves lock and queue alone, by a task that needs neither.
LEMMA LockUntouched ==
  ASSUME GateInv, NEW t \in Tasks, stage[t] = "running", OnlyMoves(t),
         stage'[t] = "out", UNCHANGED <<holder, queue>>
  PROVE  LockInv'
<1>1. holder # t /\ \A i \in Places : queue[i] # t /\ queue[i] \in Tasks
  BY GateConstants DEF GateInv, GateTypeOK, LockInv, Places, Waiting
<1>2. holder # Nobody => holder \in Tasks
  BY DEF GateInv, GateTypeOK
<1>3. QED
  BY <1>1, <1>2 DEF GateInv, LockInv, OnlyMoves, Places, Queues, Waiting

LEMMA CompletePoisonedSound ==
  ASSUME GateInv, NEW t \in Tasks, CompletePoisoned(t)
  PROVE  GateInv'
<1>1. /\ OnlyMoves(t) /\ stage'[t] = "out" /\ key'[t] = Nobody
      /\ key' \in [Tasks -> Keys \cup {Nobody}] /\ stage' \in [Tasks -> Stages]
  BY ReturnMoves DEF CompletePoisoned, GateInv
<1>2. LockInv'
  BY <1>1, LockUntouched DEF CompletePoisoned, lockVars
<1>3. GateTypeOK'
  BY <1>1 DEF CompletePoisoned, GateInv, GateTypeOK, lockVars
<1>4. FutInv'
  BY <1>1, GateConstants
     DEF CompletePoisoned, GateInv, FutInv, OnlyMoves, Leads
<1>5. QED
  BY <1>2, <1>3, <1>4 DEF GateInv

\* Its leader, and nobody else who awaits it, unregisters a key.
LEMMA UnregisterSound ==
  ASSUME GateInv, NEW t \in Tasks, Leads(t), OnlyMoves(t), stage'[t] = "out",
         \A s \in Tasks : stage[s] # "awaiting",
         Unregister(key[t])
  PROVE  FutInv' /\ DOMAIN fut' \subseteq Keys
           /\ fut' \in [DOMAIN fut' -> FutureStates]
<1>1. /\ DOMAIN fut' = DOMAIN fut \ {key[t]}
      /\ \A x \in DOMAIN fut' : fut'[x] = fut[x]
      /\ fut' = [x \in DOMAIN fut' |-> fut'[x]]
  BY DEF Unregister
<1>2. DOMAIN fut' \subseteq Keys /\ fut' \in [DOMAIN fut' -> FutureStates]
  BY <1>1 DEF GateInv, GateTypeOK
<1>3. \A s \in Tasks \ {t} : Leads(s) => key[s] # key[t]
  BY DEF GateInv, FutInv
<1>4. FutInv'
  BY <1>1, <1>3 DEF GateInv, FutInv, OnlyMoves, Leads
<1>5. QED
  BY <1>2, <1>4

LEMMA CompleteAndPopSound ==
  ASSUME GateInv, NEW t \in Tasks, CompleteAndPop(t)
  PROVE  GateInv'
<1>1. /\ OnlyMoves(t) /\ stage'[t] = "out" /\ key'[t] = Nobody
      /\ key' \in [Tasks -> Keys \cup {Nobody}] /\ stage' \in [Tasks -> Stages]
  BY ReturnMoves DEF CompleteAndPop, GateInv
<1>2. LockInv'
  BY <1>1, LockUntouched DEF CompleteAndPop, lockVars
<1>3. \A s \in Tasks : stage[s] # "awaiting"
  BY GateConstants DEF CompleteAndPop, GateInv, LockInv
<1>4. FutInv' /\ DOMAIN fut' \subseteq Keys
        /\ fut' \in [DOMAIN fut' -> FutureStates]
  BY <1>1, <1>3, UnregisterSound DEF CompleteAndPop, Leads
<1>5. GateTypeOK'
  BY <1>1, <1>4 DEF CompleteAndPop, GateInv, GateTypeOK, lockVars
<1>6. QED
  BY <1>2, <1>4, <1>5 DEF GateInv

LEMMA PopSound ==
  ASSUME GateInv, NEW t \in Tasks, Pop(t)
  PROVE  GateInv'
<1>1. /\ OnlyMoves(t) /\ stage'[t] = "out" /\ key'[t] = Nobody
      /\ key' \in [Tasks -> Keys \cup {Nobody}] /\ stage' \in [Tasks -> Stages]
  BY ReturnMoves DEF Pop, GateInv
<1>2. LockInv' /\ holder' \in Tasks \cup {Nobody} /\ queue' \in Seq(Tasks)
  BY <1>1, GateConstants, ReleaseInOrder DEF Pop, GateInv, GateTypeOK
<1>3. \A s \in Tasks : stage[s] # "awaiting"
  BY DEF Pop, GateInv, LockInv
<1>4. FutInv' /\ DOMAIN fut' \subseteq Keys
        /\ fut' \in [DOMAIN fut' -> FutureStates]
  BY <1>1, <1>3, UnregisterSound DEF Pop, Leads
<1>5. GateTypeOK'
  BY <1>1, <1>2, <1>4 DEF GateTypeOK
<1>6. QED
  BY <1>2, <1>4, <1>5 DEF GateInv

LEMMA CompleteAndWaitSound ==
  ASSUME GateInv, NEW t \in Tasks, NEW o \in Outcomes \cup {Cancelled},
         CompleteAndWait(t, o)
  PROVE  GateInv'
<1>1. /\ OnlyMoves(t) /\ stage'[t] = "popping" /\ key'[t] = key[t]
      /\ key' \in [Tasks -> Keys \cup {Nobody}] /\ stage' \in [Tasks -> Stages]
  BY InsideMoves DEF CompleteAndWait, GateInv, FutInv, Stages
<1>2. LockInv' /\ holder' \in Tasks \cup {Nobody} /\ queue' \in Seq(Tasks)
  BY <1>1, EnqueueInOrder DEF CompleteAndWait, GateInv, Waiting
<1>3. GateTypeOK'
  BY <1>1, <1>2 DEF CompleteAndWait, GateInv, GateTypeOK, FutureStates
<1>4. /\ stage[t] = "running" /\ key[t] \in DOMAIN fut
      /\ DOMAIN fut' = DOMAIN fut /\ fut'[key[t]] = o /\ o # Pending
      /\ \A x \in DOMAIN fut \ {key[t]} : fut'[x] = fut[x]
  BY GateConstants DEF CompleteAndWait, GateInv, FutInv
<1>5. \A s \in Tasks \ {t} : Leads(s) => key[s] # key[t]
  BY <1>4 DEF GateInv, FutInv, Leads
<1>6. FutInv'
  BY <1>1, <1>4, <1>5 DEF GateInv, FutInv, OnlyMoves, Leads
<1>7. QED
  BY <1>2, <1>3, <1>6 DEF GateInv

LEMMA CancelAcquireSound ==
  ASSUME GateInv, NEW t \in Tasks, CancelAcquire(t)
  PROVE  GateInv'
<1>1. /\ OnlyMoves(t) /\ stage'[t] = "out" /\ key'[t] = Nobody
      /\ key' \in [Tasks -> Keys \cup {Nobody}] /\ stage' \in [Tasks -> Stages]
  BY ReturnMoves DEF CancelAcquire, GateInv
<1>2. LockInv' /\ holder' \in Tasks \cup {Nobody} /\ queue' \in Seq(Tasks)
  BY <1>1, AbandonInOrder DEF CancelAcquire, GateInv, Waiting
<1>3. GateTypeOK'
  BY <1>1, <1>2 DEF CancelAcquire, GateInv, GateTypeOK
<1>4. FutInv'
  BY <1>1 DEF CancelAcquire, GateInv, FutInv, OnlyMoves, Leads
<1>5. QED
  BY <1>2, <1>3, <1>4 DEF GateInv

LEMMA CancelFutureSound ==
  ASSUME GateInv, NEW t \in Tasks, CancelFuture(t)
  PROVE  GateInv'
<1>1. /\ UNCHANGED <<holder, queue, stage, key>>
      /\ fut' = [fut EXCEPT ![key[t]] = Cancelled]
      /\ key[t] \in DOMAIN fut /\ fut[key[t]] = Pending
  BY DEF CancelFuture, lockVars, GateInv, FutInv
<1>2. LockInv'
  BY <1>1 DEF GateInv, LockInv, Places, Queues
<1>3. GateTypeOK'
  BY <1>1 DEF GateInv, GateTypeOK, FutureStates
<1>4. /\ DOMAIN fut' = DOMAIN fut /\ fut'[key[t]] = Cancelled
      /\ \A x \in DOMAIN fut \ {key[t]} : fut'[x] = fut[x]
  BY <1>1
<1>5. FutInv'
  BY <1>1, <1>4, GateConstants DEF GateInv, FutInv, Leads
<1>6. QED
  BY <1>2, <1>3, <1>5 DEF GateInv

LEMMA GateUntouched ==
  ASSUME GateInv, UNCHANGED gateVars
  PROVE  GateInv'
BY DEF GateInv, GateTypeOK, LockInv, FutInv, Places, Queues, Leads, gateVars

\* The gate's properties follow from its invariant.
LEMMA GateInvSuffices ==
  ASSUME GateInv
  PROVE  GateTypeOK /\ OneRunPerKey /\ FollowersHaveLeaders /\ LockIsReturned
<1>1. OneRunPerKey
  BY DEF GateInv, FutInv, Leads, OneRunPerKey
<1>2. FollowersHaveLeaders
  BY DEF GateInv, FutInv, FollowersHaveLeaders
<1>3. LockIsReturned
  BY DEF GateInv, LockInv, LockIsReturned, Places, Queues, Waiting
<1>4. QED
  BY <1>1, <1>2, <1>3 DEF GateInv
=============================================================================
