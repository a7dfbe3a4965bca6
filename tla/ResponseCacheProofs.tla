------------------------ MODULE ResponseCacheProofs ------------------------
(***************************************************************************)
(* Proofs about ResponseCache, for any threads, keys, capacity, TTL and    *)
(* bounds.                                                                 *)
(***************************************************************************)
EXTENDS ResponseCache, SequenceTheorems, TLAPS

-----------------------------------------------------------------------------
(* Orders: sequences of keys in which a key used later comes later.        *)

\* s holds the keys of D, in the order of f.
Orders(s, D, f) ==
  /\ s \in Seq(Keys) /\ ToSet(s) = D
  /\ \A i, j \in 1 .. Len(s) : i < j => f[s[i]] < f[s[j]]

\* Only one position holds a key.
LEMMA OnePosition ==
  ASSUME NEW s, NEW D, NEW f \in [Keys -> Nat], Orders(s, D, f)
  PROVE  /\ \A i \in 1 .. Len(s) : s[i] \in D /\ s[i] \in Keys
         /\ \A i, j \in 1 .. Len(s) : s[i] = s[j] => i = j
         /\ \A k \in D : \E i \in 1 .. Len(s) : s[i] = k
         /\ Len(s) \in Nat
<1>1. s \in Seq(Keys) /\ Len(s) \in Nat /\ DOMAIN s = 1 .. Len(s)
  BY DEF Orders
<1>2. \A i \in 1 .. Len(s) : s[i] \in D /\ s[i] \in Keys
  BY <1>1 DEF Orders, ToSet
<1>3. \A i, j \in 1 .. Len(s) : s[i] = s[j] => i = j
  <2> SUFFICES ASSUME NEW i \in 1 .. Len(s), NEW j \in 1 .. Len(s), s[i] = s[j]
               PROVE  i = j
    OBVIOUS
  <2>1. ~ (i < j) /\ ~ (j < i)
    BY <1>2 DEF Orders
  <2>2. QED
    BY <1>1, <2>1
<1>4. \A k \in D : \E i \in 1 .. Len(s) : s[i] = k
  BY <1>1 DEF Orders, ToSet
<1>5. QED
  BY <1>1, <1>2, <1>3, <1>4

\* RemoveAt leaves out one position.
LEMMA WithoutOne ==
  ASSUME NEW s \in Seq(Keys), NEW i \in 1 .. Len(s)
  PROVE  /\ RemoveAt(s, i) \in Seq(Keys) /\ Len(RemoveAt(s, i)) = Len(s) - 1
         /\ \A j \in 1 .. Len(s) - 1 :
              RemoveAt(s, i)[j] = IF j < i THEN s[j] ELSE s[j + 1]
<1> DEFINE front == SubSeq(s, 1, i - 1)
           back == SubSeq(s, i + 1, Len(s))
<1>1. Len(s) \in Nat /\ i \in Nat /\ 1 <= i /\ i <= Len(s)
  OBVIOUS
<1>2. /\ front \in Seq(Keys) /\ Len(front) = i - 1
      /\ \A j \in 1 .. i - 1 : front[j] = s[j]
  BY <1>1
<1>3. /\ back \in Seq(Keys) /\ Len(back) = Len(s) - i
      /\ \A j \in 1 .. Len(s) - i : back[j] = s[i + j]
  BY <1>1
<1>4. RemoveAt(s, i) = front \o back
  BY DEF RemoveAt
<1> HIDE DEF front, back
<1>5. /\ front \o back \in Seq(Keys)
      /\ Len(front \o back) = Len(s) - 1
      /\ \A j \in 1 .. Len(s) - 1 :
           (front \o back)[j] = IF j <= i - 1 THEN front[j] ELSE back[j - (i - 1)]
  <2>1. /\ front \o back \in Seq(Keys)
        /\ Len(front \o back) = Len(front) + Len(back)
        /\ \A j \in 1 .. Len(front) + Len(back) :
             (front \o back)[j] = IF j <= Len(front) THEN front[j]
                                                     ELSE back[j - Len(front)]
    <3>1. front \in Seq(Keys) /\ back \in Seq(Keys)
      BY <1>2, <1>3
    <3>2. QED
      BY <3>1, ConcatProperties
  <2>2. Len(front) + Len(back) = Len(s) - 1
    BY <1>1, <1>2, <1>3
  <2>3. QED
    BY <1>2, <2>1, <2>2
<1>6. ASSUME NEW j \in 1 .. Len(s) - 1
      PROVE  (front \o back)[j] = IF j < i THEN s[j] ELSE s[j + 1]
  <2>1. CASE j < i
    BY <1>1, <1>2, <1>5, <2>1
  <2>2. CASE ~ (j < i)
    <3>1. j - (i - 1) \in 1 .. Len(s) - i /\ i + (j - (i - 1)) = j + 1
      BY <1>1, <2>2
    <3>2. QED
      BY <1>1, <1>3, <1>5, <2>2, <3>1
  <2>3. QED
    BY <2>1, <2>2
<1>7. QED
  BY <1>4, <1>5, <1>6

\* The order of what is left is the order it had.
LEMMA WithoutOrders ==
  ASSUME NEW f \in [Keys -> Nat], NEW k \in Keys, Orders(order, DOMAIN data, f)
  PROVE  /\ Orders(Without(k), DOMAIN data \ {k}, f)
         /\ Len(Without(k)) <= Len(order)
         /\ k \in DOMAIN data => Len(Without(k)) = Len(order) - 1
<1> DEFINE s == Without(k)
<1>1. /\ \A i \in 1 .. Len(order) : order[i] \in DOMAIN data /\ order[i] \in Keys
      /\ \A i, j \in 1 .. Len(order) : order[i] = order[j] => i = j
      /\ \A x \in DOMAIN data : \E i \in 1 .. Len(order) : order[i] = x
      /\ Len(order) \in Nat /\ order \in Seq(Keys)
  BY OnePosition DEF Orders
<1>0. Len(order) \in Nat
  BY <1>1
<1>2. CASE k \notin DOMAIN data
  <2>1. s = order /\ DOMAIN data \ {k} = DOMAIN data
    BY <1>2 DEF Without
  <2>2. QED
    BY <1>1, <1>2, <2>1
<1>3. CASE k \in DOMAIN data
  <2> DEFINE p == Position(k)
  <2>1. p \in 1 .. Len(order) /\ order[p] = k
    BY <1>1, <1>3 DEF Position
  <2>2. s = RemoveAt(order, p)
    BY <1>3 DEF Without
  <2> HIDE DEF p, s
  <2>3. /\ s \in Seq(Keys) /\ Len(s) = Len(order) - 1
        /\ \A j \in 1 .. Len(order) - 1 :
             s[j] = IF j < p THEN order[j] ELSE order[j + 1]
    BY <1>1, <2>1, <2>2, WithoutOne
  <2>4. DOMAIN s = 1 .. Len(order) - 1 /\ p \in Nat
    BY <1>1, <2>1, <2>3
  <2>5. ToSet(s) = DOMAIN data \ {k}
    <3>1. ASSUME NEW j \in 1 .. Len(order) - 1
          PROVE  s[j] \in DOMAIN data \ {k}
      <4>1. /\ j \in 1 .. Len(order) /\ j + 1 \in 1 .. Len(order)
            /\ j < p => j # p
            /\ ~ (j < p) => j + 1 # p
        BY <1>0, <2>4
      <4>2. \E m \in 1 .. Len(order) : m # p /\ s[j] = order[m]
        BY <2>3, <4>1
      <4>3. QED
        BY <1>1, <2>1, <4>2
    <3>2. ASSUME NEW x \in DOMAIN data \ {k}
          PROVE  \E j \in 1 .. Len(order) - 1 : s[j] = x
      <4>1. PICK m \in 1 .. Len(order) : order[m] = x
        BY <1>1
      <4>2. m # p
        BY <2>1, <4>1
      <4>3. CASE m < p
        <5>1. m \in 1 .. Len(order) - 1
          BY <1>0, <2>1, <2>4, <4>3
        <5>2. s[m] = x
          BY <2>3, <4>1, <4>3, <5>1
        <5>3. QED
          BY <5>1, <5>2
      <4>4. CASE m > p
        <5>1. /\ m - 1 \in 1 .. Len(order) - 1 /\ ~ (m - 1 < p)
              /\ m - 1 + 1 = m
          BY <1>1, <2>1, <4>4
        <5>2. s[m - 1] = x
          BY <2>3, <4>1, <5>1
        <5>3. QED
          BY <5>1, <5>2
      <4>5. QED
        BY <1>0, <2>4, <4>2, <4>3, <4>4
    <3>3. QED
      BY <2>4, <3>1, <3>2 DEF ToSet
  <2>6. ASSUME NEW i \in 1 .. Len(s), NEW j \in 1 .. Len(s), i < j
        PROVE  f[s[i]] < f[s[j]]
    <3>1. PICK m \in 1 .. Len(order), n \in 1 .. Len(order) :
            m < n /\ s[i] = order[m] /\ s[j] = order[n]
      <4>1. /\ i \in 1 .. Len(order) /\ i + 1 \in 1 .. Len(order)
            /\ j \in 1 .. Len(order) /\ j + 1 \in 1 .. Len(order)
            /\ i \in 1 .. Len(order) - 1 /\ j \in 1 .. Len(order) - 1
        <5>1. i \in 1 .. Len(order) - 1 /\ j \in 1 .. Len(order) - 1
          BY <2>3
        <5>2. QED
          BY <1>0, <5>1
      <4>2. CASE j < p
        BY <1>1, <2>3, <2>4, <2>6, <4>1, <4>2
      <4>3. CASE i < p /\ ~ (j < p)
        BY <1>1, <2>3, <2>4, <2>6, <4>1, <4>3
      <4>4. CASE ~ (i < p)
        <5>1. ~ (j < p) /\ i + 1 < j + 1
          BY <1>1, <2>4, <2>6, <4>1, <4>4
        <5>2. s[i] = order[i + 1] /\ s[j] = order[j + 1]
          BY <2>3, <4>1, <4>4, <5>1
        <5>3. QED
          BY <4>1, <5>1, <5>2
      <4>5. QED
        BY <2>4, <2>6, <4>1, <4>2, <4>3, <4>4
    <3>2. QED
      BY <3>1 DEF Orders
  <2>7. Orders(s, DOMAIN data \ {k}, f)
    BY <2>3, <2>5, <2>6 DEF Orders
  <2>8. QED
    BY <1>1, <2>3, <2>7 DEF s
<1>4. QED
  BY <1>2, <1>3

\* A key used last is last, and the others keep their order.
LEMMA MoveToEndOrders ==
  ASSUME NEW f \in [Keys -> Nat], NEW k \in Keys, NEW n \in Nat,
         Orders(order, DOMAIN data, f), \A x \in Keys : f[x] < n
  PROVE  /\ Orders(MoveToEnd(k), DOMAIN data \cup {k}, [f EXCEPT ![k] = n])
         /\ Len(MoveToEnd(k)) \in Nat \ {0}
         /\ Len(MoveToEnd(k)) <= Len(order) + 1
         /\ k \in DOMAIN data => Len(MoveToEnd(k)) = Len(order)
         /\ MoveToEnd(k)[Len(MoveToEnd(k))] = k
<1> DEFINE s == Without(k)
           e == MoveToEnd(k)
           g == [f EXCEPT ![k] = n]
<1>1. /\ Orders(s, DOMAIN data \ {k}, f) /\ Len(s) <= Len(order)
      /\ k \in DOMAIN data => Len(s) = Len(order) - 1
      /\ Len(order) \in Nat
  BY WithoutOrders, OnePosition
<1>2. /\ \A i \in 1 .. Len(s) : s[i] \in DOMAIN data \ {k} /\ s[i] \in Keys
      /\ s \in Seq(Keys) /\ Len(s) \in Nat
  BY <1>1, OnePosition DEF Orders
<1>3. e = Append(s, k)
  BY DEF MoveToEnd
<1> HIDE DEF s, e
<1>4. /\ e \in Seq(Keys) /\ Len(e) = Len(s) + 1
      /\ \A i \in 1 .. Len(s) : e[i] = s[i]
      /\ e[Len(s) + 1] = k
  BY <1>2, <1>3
<1>5. \A i \in 1 .. Len(e) : i \in 1 .. Len(s) \/ i = Len(s) + 1
  BY <1>2, <1>4
<1>6. ToSet(e) = DOMAIN data \cup {k}
  <2>1. ToSet(s) = DOMAIN data \ {k} /\ DOMAIN s = 1 .. Len(s)
    BY <1>1, <1>2 DEF Orders
  <2>2. DOMAIN e = 1 .. Len(s) + 1
    BY <1>4
  <2>3. \A i \in 1 .. Len(s) : i \in DOMAIN e
    BY <1>2, <2>2
  <2>4. Len(s) + 1 \in DOMAIN e
    BY <1>2, <2>2
  <2>5. ASSUME NEW x \in DOMAIN data \cup {k}
        PROVE  \E i \in DOMAIN e : e[i] = x
    <3>1. CASE x = k
      BY <1>4, <2>4, <3>1
    <3>2. CASE x # k
      <4>1. PICK i \in 1 .. Len(s) : s[i] = x
        BY <2>1, <3>2 DEF ToSet
      <4>2. QED
        BY <1>4, <2>3, <4>1
    <3>3. QED
      BY <3>1, <3>2
  <2>6. ASSUME NEW i \in DOMAIN e
        PROVE  e[i] \in DOMAIN data \cup {k}
    BY <1>2, <1>4, <1>5, <2>2
  <2>7. QED
    BY <2>5, <2>6 DEF ToSet
<1>7. ASSUME NEW i \in 1 .. Len(e), NEW j \in 1 .. Len(e), i < j
      PROVE  g[e[i]] < g[e[j]]
  <2>1. i \in 1 .. Len(s) /\ e[i] = s[i]
    BY <1>2, <1>4, <1>7
  <2>2. g[e[i]] = f[s[i]]
    BY <1>2, <2>1
  <2>3. CASE j \in 1 .. Len(s)
    <3>1. g[e[j]] = f[s[j]]
      BY <1>2, <1>4, <2>3
    <3>2. QED
      BY <1>1, <1>7, <2>1, <2>2, <2>3, <3>1 DEF Orders
  <2>4. CASE j = Len(s) + 1
    <3>1. g[e[j]] = n
      BY <1>4, <2>4
    <3>2. QED
      BY <1>2, <2>1, <2>2, <3>1
  <2>5. QED
    BY <1>5, <2>3, <2>4
<1>8. Orders(e, DOMAIN data \cup {k}, g)
  BY <1>4, <1>6, <1>7 DEF Orders
<1>9. QED
  BY <1>1, <1>2, <1>4, <1>8 DEF e

\* What eviction leaves: the end of the order, no longer than the cap.
LEMMA KeptOrders ==
  ASSUME NEW f \in [Keys -> Nat], NEW s, NEW D, Orders(s, D, f), Len(s) # 0
  PROVE  LET kept == SubSeq(s, Excess(s) + 1, Len(s))
         IN  /\ Orders(kept, ToSet(kept), f) /\ ToSet(kept) \subseteq D
             /\ Len(kept) <= MaxEntries
             /\ s[Len(s)] \in ToSet(kept)
<1> DEFINE e == Excess(s)
           kept == SubSeq(s, e + 1, Len(s))
<1>1. /\ \A i \in 1 .. Len(s) : s[i] \in D /\ s[i] \in Keys
      /\ s \in Seq(Keys)
  BY OnePosition DEF Orders
<1>2. Len(s) \in Nat \ {0}
  BY OnePosition
<1>3. e \in Nat /\ e < Len(s) /\ Len(s) - e <= MaxEntries
  BY <1>2, PositiveSizes DEF Excess
<1> HIDE DEF e
<1>4. /\ kept \in Seq(Keys) /\ Len(kept) = Len(s) - e
      /\ \A i \in 1 .. Len(s) - e : kept[i] = s[e + i]
  BY <1>1, <1>2, <1>3
<1> HIDE DEF kept
<1>5. DOMAIN kept = 1 .. Len(s) - e
  BY <1>4
<1>6. \A i \in 1 .. Len(s) - e : e + i \in 1 .. Len(s)
  BY <1>2, <1>3
<1>7. ToSet(kept) \subseteq D
  BY <1>1, <1>4, <1>5, <1>6 DEF ToSet
<1>8. s[Len(s)] \in ToSet(kept)
  <2>1. Len(s) - e \in 1 .. Len(s) - e /\ e + (Len(s) - e) = Len(s)
    BY <1>2, <1>3
  <2>2. kept[Len(s) - e] = s[Len(s)]
    BY <1>4, <2>1
  <2>3. QED
    BY <1>5, <2>1, <2>2 DEF ToSet
<1>9. ASSUME NEW i \in 1 .. Len(kept), NEW j \in 1 .. Len(kept), i < j
      PROVE  f[kept[i]] < f[kept[j]]
  <2>1. /\ e + i \in 1 .. Len(s) /\ e + j \in 1 .. Len(s)
        /\ kept[i] = s[e + i] /\ kept[j] = s[e + j]
    BY <1>4, <1>6
  <2>2. e + i < e + j
    BY <1>2, <1>3, <1>4, <1>9
  <2>3. QED
    BY <2>1, <2>2 DEF Orders
<1>10. Orders(kept, ToSet(kept), f)
  BY <1>4, <1>9 DEF Orders
<1>11. QED
  BY <1>3, <1>4, <1>7, <1>8, <1>10 DEF kept, e

-----------------------------------------------------------------------------
(* The inductive invariant.                                                *)

\* No entry, held or on its way in, outlives a TTL from its storing.
Young ==
  /\ \A k \in DOMAIN data : data[k].expires <= born[k] + TTL
  /\ \A t \in Threads :
       op[t].kind = "set" => op[t].entry.expires <= clock + TTL

CacheInv ==
  /\ TypeOK
  /\ Orders(order, DOMAIN data, used)
  /\ Len(order) <= MaxEntries
  /\ \A k \in Keys : used[k] <= uses
  /\ Young

\* What a thread inside a call has.
LEMMA OpTypes ==
  ASSUME TypeOK, NEW t \in Threads
  PROVE  /\ op[t].kind = "get" => op[t].key \in Keys /\ op[t].now \in Nat
         /\ op[t].kind = "set" => /\ op[t].key \in Keys
                                  /\ op[t].entry \in Entry
                                  /\ op[t].gen \in Nat \cup {None}
         /\ op[t] = Idle => op[t].kind \notin {"get", "set"}
BY DEF TypeOK, Idle, GetOp, SetOp

LEMMA CacheInit == Init => CacheInv
<1> SUFFICES ASSUME Init PROVE CacheInv
  OBVIOUS
<1>1. TypeOK
  BY DEF Init, TypeOK
<1>2. Orders(order, DOMAIN data, used) /\ Len(order) = 0
  BY DEF Init, Orders, ToSet
<1>3. Young
  BY DEF Init, Young, Idle
<1>4. QED
  BY <1>1, <1>2, <1>3, PositiveSizes DEF CacheInv, Init

\* A step that leaves the entries and their use alone.
LEMMA EntriesUntouched ==
  ASSUME CacheInv, TypeOK', UNCHANGED <<data, order, history>>,
         \A t \in Threads :
           op'[t].kind = "set" => op'[t].entry.expires <= clock' + TTL
  PROVE  CacheInv'
BY DEF CacheInv, Orders, ToSet, Young, history

\* The call is over.
LEMMA DoneOps ==
  ASSUME CacheInv, NEW t \in Threads, Done(t), UNCHANGED clock
  PROVE  /\ op' \in [Threads -> {Idle} \cup GetOp \cup SetOp]
         /\ \A s \in Threads :
              op'[s].kind = "set" => op'[s].entry.expires <= clock' + TTL
BY DEF CacheInv, TypeOK, Done, Young, Idle

LEMMA StartInv ==
  ASSUME CacheInv, NEW t \in Threads, NEW k \in Keys,
         \/ StartGet(t, k)
         \/ \E v \in Values, g \in (0 .. generation) \cup {None} :
              StartSet(t, k, v, g)
  PROVE  CacheInv'
<1>1. clock \in Nat /\ generation \in Nat /\ TTL \in Nat
  BY PositiveSizes DEF CacheInv, TypeOK
<1>2. CASE StartGet(t, k)
  <2>1. [kind |-> "get", key |-> k, now |-> clock] \in GetOp
    BY <1>1 DEF GetOp
  <2>2. TypeOK'
    BY <1>2, <2>1 DEF CacheInv, TypeOK, StartGet, cacheVars, history
  <2>3. QED
    BY <1>2, <2>2, EntriesUntouched
       DEF CacheInv, TypeOK, Young, StartGet, cacheVars
<1>3. ASSUME NEW v \in Values, NEW g \in (0 .. generation) \cup {None},
             StartSet(t, k, v, g)
      PROVE  CacheInv'
  <2> DEFINE e == [value |-> v, expires |-> clock + TTL]
  <2>1. e \in Entry /\ e.expires = clock + TTL
    BY <1>1 DEF Entry
  <2> HIDE DEF e
  <2>2. [kind |-> "set", key |-> k, gen |-> g, entry |-> e] \in SetOp
    BY <1>1, <2>1 DEF SetOp
  <2>3. op' = [op EXCEPT ![t] =
                 [kind |-> "set", key |-> k, gen |-> g, entry |-> e]]
    BY <1>3 DEF StartSet, e
  <2>4. TypeOK'
    BY <1>3, <2>2, <2>3 DEF CacheInv, TypeOK, StartSet, cacheVars, history
  <2>5. \A s \in Threads :
          op'[s].kind = "set" => op'[s].entry.expires <= clock' + TTL
    BY <1>1, <1>3, <2>1, <2>3 DEF CacheInv, TypeOK, Young, StartSet
  <2>6. QED
    BY <1>3, <2>4, <2>5, EntriesUntouched DEF StartSet, cacheVars
<1>4. QED
  BY <1>2, <1>3

\* A call that ends without touching the entries.
LEMMA NothingDoneInv ==
  ASSUME CacheInv, NEW t \in Threads, GetNothing(t) \/ SetIgnored(t)
  PROVE  CacheInv'
<1>1. TypeOK'
  BY DoneOps
     DEF CacheInv, TypeOK, GetNothing, SetIgnored, cacheVars, history
<1>2. QED
  BY <1>1, DoneOps, EntriesUntouched DEF GetNothing, SetIgnored, cacheVars

\* An entry is deleted.
LEMMA DropInv ==
  ASSUME CacheInv, NEW k \in Keys, Drop(k), UNCHANGED <<generation, clock, history>>,
         op' \in [Threads -> {Idle} \cup GetOp \cup SetOp],
         \A s \in Threads :
           op'[s].kind = "set" => op'[s].entry.expires <= clock' + TTL
  PROVE  CacheInv'
<1>1. /\ DOMAIN data' = DOMAIN data \ {k}
      /\ \A x \in DOMAIN data' : data'[x] = data[x]
      /\ data' = [x \in DOMAIN data' |-> data'[x]]
      /\ order' = Without(k) /\ UNCHANGED <<uses, born, used>>
  BY DEF Drop, history
<1>2. used \in [Keys -> Nat] /\ Orders(order, DOMAIN data, used)
  BY DEF CacheInv, TypeOK
<1>3. /\ Orders(Without(k), DOMAIN data \ {k}, used)
      /\ Len(Without(k)) <= Len(order)
  BY <1>2, WithoutOrders
<1>4. Orders(order', DOMAIN data', used')
  BY <1>1, <1>3
<1>5. Len(order') <= MaxEntries
  <2>1. Len(order) \in Nat /\ Len(order') \in Nat
    BY <1>2, <1>4 DEF Orders
  <2>2. QED
    BY <1>1, <1>3, <2>1, PositiveSizes DEF CacheInv
<1>6. TypeOK'
  BY <1>1, <1>4 DEF CacheInv, TypeOK, Orders
<1>7. Young'
  BY <1>1 DEF CacheInv, Young
<1>8. QED
  BY <1>1, <1>4, <1>5, <1>6, <1>7 DEF CacheInv, Orders, ToSet

\* A key's use is the latest of all.
LEMMA UseLatest ==
  ASSUME CacheInv, NEW k \in Keys, Use(k)
  PROVE  /\ uses' = uses + 1 /\ uses' \in Nat
         /\ used' = [used EXCEPT ![k] = uses']
         /\ used' \in [Keys -> Nat]
         /\ \A x \in Keys : used[x] < uses' /\ used'[x] <= uses'
BY DEF CacheInv, TypeOK, Use

LEMMA GetHitInv ==
  ASSUME CacheInv, NEW t \in Threads, GetHit(t)
  PROVE  CacheInv'
<1> DEFINE k == op[t].key
<1>1. k \in Keys /\ k \in DOMAIN data /\ Use(k) /\ order' = MoveToEnd(k)
      /\ UNCHANGED <<data, generation, clock, born>>
  BY OpTypes DEF GetHit, CacheInv
<1> HIDE DEF k
<1>2. /\ used \in [Keys -> Nat] /\ Orders(order, DOMAIN data, used)
      /\ DOMAIN data \cup {k} = DOMAIN data
  BY <1>1 DEF CacheInv, TypeOK
<1>3. Orders(order', DOMAIN data', used') /\ Len(order') = Len(order)
  <2>1. /\ uses' \in Nat /\ \A x \in Keys : used[x] < uses'
        /\ used' = [used EXCEPT ![k] = uses']
    BY <1>1, UseLatest
  <2>2. /\ Orders(MoveToEnd(k), DOMAIN data \cup {k}, [used EXCEPT ![k] = uses'])
        /\ Len(MoveToEnd(k)) = Len(order)
    BY <1>1, <1>2, <2>1, MoveToEndOrders
  <2>3. QED
    BY <1>1, <1>2, <2>1, <2>2
<1>4. /\ op' \in [Threads -> {Idle} \cup GetOp \cup SetOp]
      /\ \A s \in Threads :
           op'[s].kind = "set" => op'[s].entry.expires <= clock' + TTL
  BY <1>1, DoneOps DEF GetHit
<1>5. TypeOK'
  BY <1>1, <1>3, <1>4, UseLatest DEF CacheInv, TypeOK, Orders
<1>6. Young'
  BY <1>1, <1>4 DEF CacheInv, Young
<1>7. QED
  BY <1>1, <1>3, <1>5, <1>6, UseLatest DEF CacheInv

\* What set() leaves in the cache.
LEMMA StoredEntries ==
  ASSUME CacheInv, NEW t \in Threads, SetStored(t)
  PROVE  /\ Orders(order', DOMAIN data', used') /\ Len(order') <= MaxEntries
         /\ op[t].key \in Keys /\ op[t].key \in DOMAIN data'
         /\ DOMAIN data' \subseteq DOMAIN data \cup {op[t].key}
         /\ data'[op[t].key] = op[t].entry
         /\ \A x \in DOMAIN data' \ {op[t].key} : data'[x] = data[x]
         /\ data' = [x \in DOMAIN data' |-> data'[x]]
<1> DEFINE k == op[t].key
           keys == MoveToEnd(k)
           kept == SubSeq(keys, Excess(keys) + 1, Len(keys))
<1>1. k \in Keys /\ Use(k)
  BY OpTypes DEF SetStored, CacheInv
<1>2. /\ order' = kept
      /\ data' = [x \in ToSet(kept) |-> IF x = k THEN op[t].entry ELSE data[x]]
  BY DEF SetStored
<1> HIDE DEF k
<1>3. /\ uses' \in Nat /\ \A x \in Keys : used[x] < uses'
      /\ used' = [used EXCEPT ![k] = uses'] /\ used' \in [Keys -> Nat]
  BY <1>1, UseLatest
<1>4. /\ Orders(keys, DOMAIN data \cup {k}, used')
      /\ Len(keys) # 0 /\ keys[Len(keys)] = k
  <2>1. used \in [Keys -> Nat] /\ Orders(order, DOMAIN data, used)
    BY DEF CacheInv, TypeOK
  <2>2. /\ Orders(keys, DOMAIN data \cup {k}, [used EXCEPT ![k] = uses'])
        /\ Len(keys) \in Nat \ {0} /\ keys[Len(keys)] = k
    BY <1>1, <1>3, <2>1, MoveToEndOrders
  <2>3. QED
    BY <1>3, <2>2
<1> HIDE DEF keys
<1>5. /\ Orders(kept, ToSet(kept), used')
      /\ ToSet(kept) \subseteq DOMAIN data \cup {k}
      /\ Len(kept) <= MaxEntries /\ k \in ToSet(kept)
  BY <1>3, <1>4, KeptOrders
<1> HIDE DEF kept
<1>6. DOMAIN data' = ToSet(kept)
  BY <1>2
<1>7. /\ data'[k] = op[t].entry
      /\ \A x \in DOMAIN data' \ {k} : data'[x] = data[x]
      /\ data' = [x \in DOMAIN data' |-> data'[x]]
  BY <1>2, <1>5, <1>6
<1>8. QED
  BY <1>1, <1>2, <1>5, <1>6, <1>7 DEF k

LEMMA SetStoredInv ==
  ASSUME CacheInv, NEW t \in Threads, SetStored(t)
  PROVE  CacheInv'
<1> DEFINE k == op[t].key
<1>1. /\ k \in Keys /\ op[t].entry \in Entry /\ Use(k) /\ Done(t)
      /\ op[t].entry.expires <= clock + TTL
      /\ born' = [born EXCEPT ![k] = clock] /\ UNCHANGED <<generation, clock>>
  BY OpTypes DEF SetStored, CacheInv, Young
<1>2. /\ Orders(order', DOMAIN data', used') /\ Len(order') <= MaxEntries
      /\ k \in DOMAIN data' /\ DOMAIN data' \subseteq DOMAIN data \cup {k}
      /\ data'[k] = op[t].entry
      /\ \A x \in DOMAIN data' \ {k} : data'[x] = data[x]
      /\ data' = [x \in DOMAIN data' |-> data'[x]]
  BY StoredEntries
<1> HIDE DEF k
<1>3. /\ op' \in [Threads -> {Idle} \cup GetOp \cup SetOp]
      /\ \A s \in Threads :
           op'[s].kind = "set" => op'[s].entry.expires <= clock' + TTL
  BY <1>1, DoneOps
<1>4. DOMAIN data' \subseteq Keys /\ data' \in [DOMAIN data' -> Entry]
  <2>1. \A x \in DOMAIN data' : x \in Keys /\ data'[x] \in Entry
    BY <1>1, <1>2 DEF CacheInv, TypeOK
  <2>2. QED
    BY <1>2, <2>1
<1>5. TypeOK'
  BY <1>1, <1>2, <1>3, <1>4, UseLatest DEF CacheInv, TypeOK, Orders
<1>6. \A x \in DOMAIN data' : data'[x].expires <= born'[x] + TTL
  <2>1. data'[k].expires <= born'[k] + TTL
    BY <1>1, <1>2 DEF CacheInv, TypeOK
  <2>2. ASSUME NEW x \in DOMAIN data' \ {k}
        PROVE  data'[x].expires <= born'[x] + TTL
    BY <1>1, <1>2 DEF CacheInv, TypeOK, Young
  <2>3. QED
    BY <2>1, <2>2
<1>7. QED
  BY <1>1, <1>2, <1>3, <1>5, <1>6, UseLatest DEF CacheInv, Young

\* clear(), the clock, and nothing at all.
LEMMA OthersInv ==
  ASSUME CacheInv, Clear \/ Tick \/ UNCHANGED vars
  PROVE  CacheInv'
<1>1. CASE Clear
  <2>1. TypeOK'
    BY <1>1 DEF Clear, CacheInv, TypeOK, history
  <2>2. Orders(order', DOMAIN data', used') /\ Len(order') = 0
    BY <1>1 DEF Clear, Orders, ToSet
  <2>3. Young'
    BY <1>1 DEF Clear, CacheInv, Young
  <2>4. QED
    BY <1>1, <2>1, <2>2, <2>3, PositiveSizes DEF Clear, CacheInv, history
<1>2. CASE Tick
  <2>1. TypeOK'
    BY <1>2 DEF Tick, CacheInv, TypeOK, cacheVars, history
  <2>2. \A t \in Threads :
          op'[t].kind = "set" => op'[t].entry.expires <= clock' + TTL
    <3>1. clock \in Nat /\ clock' = clock + 1 /\ op' = op /\ TTL \in Nat
      BY <1>2, PositiveSizes DEF Tick, CacheInv, TypeOK
    <3>2. \A t \in Threads : op[t].kind = "set" => op[t].entry.expires \in Nat
      BY OpTypes DEF CacheInv, Entry
    <3>3. QED
      BY <3>1, <3>2 DEF CacheInv, Young
  <2>3. QED
    BY <1>2, <2>1, <2>2, EntriesUntouched DEF Tick, cacheVars
<1>3. CASE UNCHANGED vars
  BY <1>3
     DEF CacheInv, TypeOK, Orders, ToSet, Young, vars, cacheVars, history
<1>4. QED
  BY <1>1, <1>2, <1>3

LEMMA CacheStep == CacheInv /\ [Next]_vars => CacheInv'
<1> SUFFICES ASSUME CacheInv, [Next]_vars
             PROVE  CacheInv'
  OBVIOUS
<1>1. ASSUME NEW t \in Threads, NEW k \in Keys,
             \/ StartGet(t, k)
             \/ \E v \in Values, g \in (0 .. generation) \cup {None} :
                  StartSet(t, k, v, g)
      PROVE  CacheInv'
  BY <1>1, StartInv
<1>2. ASSUME NEW t \in Threads,
             \/ GetNothing(t) \/ GetExpired(t) \/ GetHit(t)
             \/ SetIgnored(t) \/ SetStored(t)
      PROVE  CacheInv'
  <2>1. CASE GetNothing(t) \/ SetIgnored(t)
    BY <2>1, NothingDoneInv
  <2>2. CASE GetExpired(t)
    <3>1. op[t].key \in Keys /\ Drop(op[t].key) /\ Done(t)
          /\ UNCHANGED <<generation, clock, history>>
      BY <2>2, OpTypes DEF GetExpired, CacheInv
    <3>2. QED
      BY <3>1, DoneOps, DropInv
  <2>3. CASE GetHit(t) \/ SetStored(t)
    BY <2>3, GetHitInv, SetStoredInv
  <2>4. QED
    BY <1>2, <2>1, <2>2, <2>3
<1>3. ASSUME NEW k \in Keys, Invalidate(k)
      PROVE  CacheInv'
  BY <1>3, DropInv DEF Invalidate, CacheInv, TypeOK, Young
<1>4. CASE Clear \/ Tick \/ UNCHANGED vars
  BY <1>4, OthersInv
<1>5. QED
  BY <1>1, <1>2, <1>3, <1>4 DEF Next

LEMMA CacheAlways == Spec => []CacheInv
BY CacheInit, CacheStep, PTL DEF Spec

-----------------------------------------------------------------------------
\* Every variable keeps its type.
THEOREM TypeCorrect == Spec => []TypeOK
<1>1. CacheInv => TypeOK
  BY DEF CacheInv
<1>2. QED
  BY <1>1, CacheAlways, PTL

\* The order of the OrderedDict names each entry once, and there are never
\* more than max_entries of them (_cache.py:102-105).
THEOREM CapAndOrder == Spec => []BoundedAndOrdered
<1>1. CacheInv => BoundedAndOrdered
  <2> SUFFICES ASSUME CacheInv PROVE BoundedAndOrdered
    OBVIOUS
  <2>1. used \in [Keys -> Nat] /\ Orders(order, DOMAIN data, used)
    BY DEF CacheInv, TypeOK
  <2>2. \A i, j \in 1 .. Len(order) : order[i] = order[j] => i = j
    BY <2>1, OnePosition
  <2>3. DOMAIN order = 1 .. Len(order)
    BY <2>1 DEF Orders
  <2>4. IsInjective(order)
    BY <2>2, <2>3 DEF IsInjective
  <2>5. QED
    BY <2>1, <2>4 DEF BoundedAndOrdered, Orders, CacheInv
<1>2. QED
  BY <1>1, CacheAlways, PTL

\* The order of the entries is the order of their use, whatever calls
\* overlap: eviction takes the least recently used (_cache.py:93, 103-105).
THEOREM EvictsLeastRecent == Spec => []OrderIsRecency
<1>1. CacheInv => OrderIsRecency
  BY DEF CacheInv, Orders, OrderIsRecency
<1>2. QED
  BY <1>1, CacheAlways, PTL

\* No hit is a TTL old when its get began (_cache.py:85-94, 98).
THEOREM HitsYoung == Spec => HitsAreYoung
<1>1. CacheInv /\ [Next]_vars =>
        [\A t \in Threads : GetHit(t) => op[t].now < born[op[t].key] + TTL]_vars
  <2> SUFFICES ASSUME CacheInv, NEW t \in Threads, GetHit(t)
               PROVE  op[t].now < born[op[t].key] + TTL
    OBVIOUS
  <2>1. /\ op[t].kind = "get" /\ op[t].key \in DOMAIN data
        /\ ~ (data[op[t].key].expires <= op[t].now)
    BY DEF GetHit, Expired
  <2>2. /\ op[t].now \in Nat /\ op[t].key \in Keys
        /\ data[op[t].key].expires \in Nat
        /\ born[op[t].key] \in Nat /\ TTL \in Nat
    BY <2>1, OpTypes, PositiveSizes DEF CacheInv, TypeOK, Entry
  <2>3. data[op[t].key].expires <= born[op[t].key] + TTL
    BY <2>1 DEF CacheInv, Young
  <2>4. QED
    BY <2>1, <2>2, <2>3
<1>2. QED
  BY <1>1, CacheAlways, PTL DEF Spec, HitsAreYoung

-----------------------------------------------------------------------------
(* The refinement of GenerationCache.                                      *)

\* The values of the entries.
Held == [k \in Keys |-> IF k \in DOMAIN data THEN data[k].value ELSE None]

\* An entry that is deleted is forgotten.
LEMMA DropForgets ==
  ASSUME NEW k \in Keys, Drop(k), UNCHANGED generation
  PROVE  Promise!Forget(k)
<1>1. /\ DOMAIN data' = DOMAIN data \ {k}
      /\ \A x \in DOMAIN data' : data'[x] = data[x]
  BY DEF Drop
<1>2. Held' = [Held EXCEPT ![k] = None]
  BY <1>1 DEF Held
<1>3. QED
  BY <1>2 DEF Promise!Forget, Held

\* A set() that stores is the promised Put of its key, value and generation.
LEMMA StoredPuts ==
  ASSUME CacheInv, NEW t \in Threads, SetStored(t)
  PROVE  Promise!Put(op[t].key, op[t].entry.value, op[t].gen)
<1> DEFINE k == op[t].key
           kept == DOMAIN data' \ {k}
<1>1. /\ k \in Keys /\ k \in DOMAIN data'
      /\ DOMAIN data' \subseteq DOMAIN data \cup {k}
      /\ data'[k] = op[t].entry
      /\ \A x \in DOMAIN data' \ {k} : data'[x] = data[x]
  BY StoredEntries
<1>2. op[t].gen \in {None, generation} /\ generation' = generation
  BY DEF SetStored, Current
<1> HIDE DEF k
<1>3. kept \in SUBSET (Keys \ {k})
  BY <1>1 DEF CacheInv, TypeOK
<1>4. Held' = [x \in Keys |-> IF x = k THEN op[t].entry.value
                              ELSE IF x \in kept THEN Held[x] ELSE None]
  BY <1>1 DEF Held
<1>5. QED
  BY <1>2, <1>3, <1>4 DEF Promise!Put, Held, k

\* A set() under an older generation is the promised Put too: nothing.
LEMMA IgnoredPuts ==
  ASSUME NEW t \in Threads, SetIgnored(t)
  PROVE  Promise!Put(op[t].key, op[t].entry.value, op[t].gen)
BY DEF SetIgnored, Current, Promise!Put, cacheVars

\* Every step is one the promise allows, or none.
LEMMA StepIsPromised ==
  CacheInv /\ [Next]_vars => [Promise!CacheNext]_(Promise!cacheVars)
<1> SUFFICES ASSUME CacheInv, [Next]_vars
             PROVE  Promise!CacheNext \/ UNCHANGED Promise!cacheVars
  OBVIOUS
<1>1. ASSUME UNCHANGED <<data, generation>>
      PROVE  UNCHANGED Promise!cacheVars
  BY <1>1 DEF Promise!cacheVars
<1>2. ASSUME NEW t \in Threads, NEW k \in Keys,
             \/ StartGet(t, k)
             \/ \E v \in Values, g \in (0 .. generation) \cup {None} :
                  StartSet(t, k, v, g)
      PROVE  UNCHANGED Promise!cacheVars
  BY <1>1, <1>2 DEF StartGet, StartSet, cacheVars
<1>3. ASSUME NEW t \in Threads, GetNothing(t) \/ GetHit(t) \/ SetIgnored(t)
      PROVE  UNCHANGED Promise!cacheVars
  BY <1>1, <1>3 DEF GetNothing, GetHit, SetIgnored, cacheVars
<1>4. ASSUME NEW t \in Threads, GetExpired(t)
      PROVE  Promise!CacheNext
  <2>1. PICK k \in Keys : k = op[t].key
    BY <1>4, OpTypes DEF GetExpired, CacheInv
  <2>2. Promise!Forget(k)
    BY <1>4, <2>1, DropForgets DEF GetExpired
  <2>3. QED
    BY <2>2 DEF Promise!CacheNext
<1>5. ASSUME NEW t \in Threads, SetStored(t)
      PROVE  Promise!CacheNext
  <2>1. /\ op[t].key \in Keys /\ op[t].entry.value \in Values
        /\ op[t].gen \in (0 .. generation) \cup {None}
    BY <1>5, OpTypes DEF SetStored, Current, CacheInv, TypeOK, Entry
  <2>2. PICK k \in Keys, v \in Values, g \in (0 .. generation) \cup {None} :
          k = op[t].key /\ v = op[t].entry.value /\ g = op[t].gen
    BY <2>1
  <2>3. Promise!Put(k, v, g)
    BY <1>5, <2>2, StoredPuts DEF Promise!Put
  <2>4. QED
    BY <2>3 DEF Promise!CacheNext
<1>6. ASSUME NEW k \in Keys, Invalidate(k)
      PROVE  Promise!CacheNext
  BY <1>6, DropForgets DEF Invalidate, Promise!CacheNext
<1>7. CASE Clear
  <2>1. Held' = [k \in Keys |-> None] /\ generation' = generation + 1
    BY <1>7 DEF Clear, Held
  <2>2. QED
    BY <2>1 DEF Promise!CacheNext, Promise!Clear, Held
<1>8. CASE Tick \/ UNCHANGED vars
  BY <1>1, <1>8 DEF Tick, vars, cacheVars
<1>9. QED
  BY <1>2, <1>3, <1>4, <1>5, <1>6, <1>7, <1>8 DEF Next

\* Only the end of a set() makes a thread idle that was in one.
LEMMA EndIsPromised ==
  CacheInv /\ [Next]_vars =>
    [\A t \in Threads :
       op[t].kind = "set" /\ op'[t] = Idle =>
         Promise!Put(op[t].key, op[t].entry.value, op[t].gen)]_vars
<1> SUFFICES ASSUME CacheInv, Next, NEW t \in Threads,
                    op[t].kind = "set", op'[t] = Idle
             PROVE  Promise!Put(op[t].key, op[t].entry.value, op[t].gen)
  OBVIOUS
<1>1. op[t] # Idle /\ op \in [Threads -> {Idle} \cup GetOp \cup SetOp]
  BY OpTypes DEF CacheInv, TypeOK
<1>2. SetIgnored(t) \/ SetStored(t)
  <2>1. op'[t] # op[t]
    BY <1>1
  <2>2. ASSUME NEW s \in Threads, s # t, NEW new, op' = [op EXCEPT ![s] = new]
        PROVE  FALSE
    BY <1>1, <2>1, <2>2
  <2>3. ASSUME NEW s \in Threads, NEW k \in Keys,
               \/ StartGet(s, k)
               \/ \E v \in Values, g \in (0 .. generation) \cup {None} :
                    StartSet(s, k, v, g)
        PROVE  FALSE
    <3>1. s # t
      BY <1>1, <2>3 DEF StartGet, StartSet
    <3>2. QED
      BY <2>2, <2>3, <3>1 DEF StartGet, StartSet
  <2>4. ASSUME NEW s \in Threads,
               \/ GetNothing(s) \/ GetExpired(s) \/ GetHit(s)
               \/ SetIgnored(s) \/ SetStored(s)
        PROVE  SetIgnored(t) \/ SetStored(t)
    <3>1. s = t
      BY <2>2, <2>4
         DEF GetNothing, GetExpired, GetHit, SetIgnored, SetStored, Done
    <3>2. QED
      BY <2>4, <3>1 DEF GetNothing, GetExpired, GetHit
  <2>5. (\E k \in Keys : Invalidate(k)) \/ Clear \/ Tick => UNCHANGED op
    BY DEF Invalidate, Clear, Tick
  <2>6. QED
    BY <2>1, <2>3, <2>4, <2>5 DEF Next
<1>3. QED
  BY <1>2, StoredPuts, IgnoredPuts

\* The LRU + TTL cache keeps what GenerationCache promises the clients: every
\* step is one of its steps, and a set() ends as its Put (_cache.py:57-116).
THEOREM Refinement == Spec => KeepsPromise
<1>1. Init => Promise!CacheInit
  BY DEF Init, Promise!CacheInit
<1>2. QED
  BY <1>1, CacheAlways, StepIsPromised, EndIsPromised, PTL
     DEF Spec, KeepsPromise, Promise!CacheSpec
=============================================================================
