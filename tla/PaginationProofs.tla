-------------------------- MODULE PaginationProofs --------------------------
(***************************************************************************)
(* Proofs about Pagination and the Transport it fetches through, for any   *)
(* number of consumers and pages, any retry policy and any faults.         *)
(***************************************************************************)
EXTENDS Pagination, TransportProofs, FiniteSetTheorems

-----------------------------------------------------------------------------
(* Where a consumer is, and what it has in its hands.                      *)

Holds(c) == pc[c] \in {"fetched", "marked"}

InStep(c) ==
  /\ stage[c] # "idle" <=> pc[c] = "fetching"
  /\ Holds(c) => page[c] = look[c] + 1
  /\ page[c] # 0 => Holds(c)
  /\ pc[c] # "idle" => c \in users

\* Pages 1 to n have been returned, or are about to be.
Covered(n) ==
  \A m \in 1 .. n : m \in delivered \/ \E c \in Callers : page[c] = m

\* The cursor, and every cursor that somebody has read, is past covered pages
\* only; the iterator is exhausted when all are covered, and only then is
\* anybody told so.
NothingSkipped ==
  /\ Covered(cursor)
  /\ \A c \in Callers : Covered(look[c])
  /\ exhausted => Covered(LastPage)
  /\ \A c \in Callers :
       /\ pc[c] = "ended" => exhausted
       /\ pc[c] = "marked" /\ page[c] = LastPage => exhausted

\* If nobody but c has used the iterator, its pages were returned in order,
\* and cursor and c are where they ended.
Alone(c) ==
  users \subseteq {c} =>
    /\ count <= LastPage /\ delivered = 1 .. count
    /\ first => count = 0 /\ pc[c] # "marked"
    /\ exhausted => count = LastPage \/ (pc[c] = "marked" /\ page[c] = LastPage)
    /\ ~ exhausted => cursor = count /\ count < LastPage
    /\ pc[c] \in {"checked", "fetching", "fetched"} => ~ exhausted
    /\ pc[c] \in {"fetching", "fetched", "marked"} => look[c] = count

PageInv ==
  /\ TransportInv
  /\ TypeOK
  /\ IsFiniteSet(users)
  /\ \A c \in Callers : InStep(c) /\ Alone(c)
  /\ NothingSkipped

-----------------------------------------------------------------------------
LEMMA PageInit == Init => PageInv
<1> SUFFICES ASSUME Init
             PROVE  PageInv
  OBVIOUS
<1>1. TransportInv
  BY InitSound DEF Init
<1>2. TypeOK
  <2>1. 0 \in 0 .. LastPage - 1 /\ 0 \in 0 .. LastPage + 1 /\ 0 \in 0 .. LastPage
        /\ 0 \in 0 .. MaxFaults
    BY PageTypes
  <2>2. TransportTypeOK
    BY <1>1 DEF TransportInv
  <2>3. QED
    BY <2>1, <2>2 DEF Init, TypeOK, PCs, NoCursor
<1>3. IsFiniteSet(users)
  BY FS_EmptySet DEF Init
<1>4. ASSUME NEW c \in Callers
      PROVE  InStep(c) /\ Alone(c)
  <2>1. /\ stage[c] = "idle" /\ pc[c] = "idle" /\ page[c] = 0
        /\ first = TRUE /\ exhausted = FALSE
        /\ cursor = 0 /\ count = 0 /\ delivered = {}
    BY <1>4 DEF Init, TransportInit, NoCursor
  <2>2. 1 .. 0 = {} /\ 0 < LastPage
    BY PageTypes
  <2>3. InStep(c)
    BY <2>1 DEF InStep, Holds
  <2>4. Alone(c)
    BY <2>1, <2>2, PageTypes DEF Alone
  <2>5. QED
    BY <2>3, <2>4
<1>5. NothingSkipped
  BY DEF Init, NothingSkipped, Covered, NoCursor
<1>6. QED
  BY <1>1, <1>2, <1>3, <1>4, <1>5 DEF PageInv

\* What is covered stays so when no page in somebody's hands is lost.
LEMMA CoveredStays ==
  ASSUME NEW n, Covered(n), delivered \subseteq delivered',
         \A c \in Callers :
           page[c] # 0 => page'[c] = page[c] \/ page[c] \in delivered'
  PROVE  Covered(n)'
BY DEF Covered

\* Covered depends on nothing else.
LEMMA CoveredUnchanged ==
  ASSUME UNCHANGED <<page, delivered>>
  PROVE  \A n : Covered(n)' <=> Covered(n)
BY DEF Covered

LEMMA CheckKeeps ==
  ASSUME PageInv, NEW c \in Callers, Check(c)
  PROVE  PageInv'
<1>1. TransportInv'
  BY UnchangedSound DEF PageInv, Check
<1>2. TypeOK'
  BY <1>1 DEF PageInv, TypeOK, TransportInv, Check, Goto, PCs, iteratorVars,
     deliveryVars
<1>3. IsFiniteSet(users')
  BY FS_AddElement DEF PageInv, Check
<1>4. ASSUME NEW x \in Callers
      PROVE  InStep(x)' /\ Alone(x)'
  BY <1>4 DEF PageInv, TypeOK, InStep, Alone, Holds, Check, Goto,
     iteratorVars, deliveryVars, transportVars
<1>5. NothingSkipped'
  BY CoveredUnchanged
     DEF PageInv, TypeOK, NothingSkipped, Check, Goto, iteratorVars,
         deliveryVars, PCs
<1>6. QED
  BY <1>1, <1>2, <1>3, <1>4, <1>5 DEF PageInv

LEMMA LookKeeps ==
  ASSUME PageInv, NEW c \in Callers, Look(c)
  PROVE  PageInv'
<1>1. TransportInv'
  BY StartSound DEF PageInv, Look
<1>2. TypeOK'
  BY <1>1, PageTypes
     DEF PageInv, TypeOK, TransportInv, Look, Goto, PCs, iteratorVars,
         deliveryVars, NoCursor
<1>3. IsFiniteSet(users')
  BY DEF PageInv, Look
<1>a. /\ stage'[c] = "sending" /\ pc'[c] = "fetching" /\ pc[c] = "checked"
      /\ look'[c] = IF first THEN NoCursor ELSE cursor
      /\ \A x \in Callers \ {c} :
           stage'[x] = stage[x] /\ pc'[x] = pc[x] /\ look'[x] = look[x]
  <2>1. /\ stage \in [Callers -> {"idle", "sending", "sleeping"}]
        /\ pc \in [Callers -> PCs]
        /\ look \in [Callers -> NoCursor .. LastPage - 1]
    BY DEF PageInv, TypeOK, TransportTypeOK
  <2>2. QED
    BY <2>1 DEF Look, Start, Goto
<1>4. ASSUME NEW x \in Callers
      PROVE  InStep(x)' /\ Alone(x)'
  <2>1. InStep(x)'
    BY <1>4, <1>a DEF PageInv, InStep, Holds, Look, iteratorVars, deliveryVars
  <2>2. CASE x = c
    BY <1>a, <2>1, <2>2
       DEF PageInv, Alone, Look, iteratorVars, deliveryVars, NoCursor
  <2>3. CASE x # c
    <3>1. c \in users
      BY DEF PageInv, InStep, Look
    <3>2. c \in users'
      BY <3>1 DEF Look
    <3>3. QED
      BY <2>1, <2>3, <3>2 DEF Alone
  <2>4. QED
    BY <2>1, <2>2, <2>3
<1>5. NothingSkipped'
  <2>1. Covered(look'[c])
    BY <1>a DEF PageInv, NothingSkipped, Covered, NoCursor
  <2>2. QED
    BY <1>a, <2>1, CoveredUnchanged
       DEF PageInv, NothingSkipped, Look, iteratorVars, deliveryVars
<1>6. QED
  BY <1>1, <1>2, <1>3, <1>4, <1>5 DEF PageInv

LEMMA WaitsKeep ==
  ASSUME PageInv, NEW c \in Callers, Waits(c)
  PROVE  PageInv'
<1>1. TransportInv'
  BY TickSound, ResendSound DEF PageInv, Waits
<1>2. TypeOK'
  BY <1>1 DEF PageInv, TypeOK, TransportInv, Waits, iteratorVars, deliveryVars
<1>3. \A x \in Callers : stage'[x] # "idle" <=> stage[x] # "idle"
  BY DEF PageInv, TransportInv, TransportTypeOK, Waits, Tick, Resend
<1>4. ASSUME NEW x \in Callers
      PROVE  InStep(x)' /\ Alone(x)'
  BY <1>3, <1>4
     DEF PageInv, InStep, Alone, Holds, Waits, iteratorVars, deliveryVars
<1>5. NothingSkipped'
  BY CoveredUnchanged
     DEF PageInv, NothingSkipped, Waits, iteratorVars, deliveryVars
<1>6. QED
  BY <1>1, <1>2, <1>4, <1>5 DEF PageInv, Waits

\* Alone asks nothing of a consumer while another uses the iterator.
LEMMA NotAlone ==
  ASSUME NEW c \in Callers, NEW x \in Callers \ {c}, InStep(c),
         pc[c] # "idle", users' = users
  PROVE  Alone(x)'
BY DEF InStep, Alone

\* A response that is a page ends the fetch.
LEMMA PageEndsFetch ==
  ASSUME PageInv, NEW c \in Callers, Respond(c, 200, "json", None)
  PROVE  /\ stage[c] = "sending" /\ stage'[c] = "idle"
         /\ \A x \in Callers \ {c} : stage'[x] = stage[x]
<1>1. 200 \notin RetryOnStatus
  BY PolicyTypes
<1>2. stage \in [Callers -> {"idle", "sending", "sleeping"}]
  BY DEF PageInv, TypeOK, TransportTypeOK
<1>3. QED
  BY <1>1, <1>2 DEF Respond, End

LEMMA FetchedKeeps ==
  ASSUME PageInv, NEW c \in Callers, Fetched(c)
  PROVE  PageInv'
<1>1. TransportInv'
  BY RespondSound, 200 \in 200 .. 599 DEF PageInv, Fetched
<1>2. /\ stage[c] = "sending" /\ stage'[c] = "idle"
      /\ \A x \in Callers \ {c} : stage'[x] = stage[x]
  BY PageEndsFetch DEF Fetched
<1>3. /\ look[c] \in 0 .. LastPage - 1 /\ pc[c] = "fetching" /\ page[c] = 0
      /\ pc'[c] = "fetched" /\ page'[c] = look[c] + 1 /\ look' = look
      /\ users' = users
      /\ \A x \in Callers \ {c} : pc'[x] = pc[x] /\ page'[x] = page[x]
  BY <1>2 DEF PageInv, TypeOK, InStep, Holds, Fetched, Goto, NoCursor
<1>4. TypeOK'
  <2>1. look[c] + 1 \in 0 .. LastPage
    BY <1>3, PageTypes
  <2>2. QED
    BY <1>1, <2>1 DEF PageInv, TypeOK, TransportInv, Fetched, Goto, PCs,
       iteratorVars, deliveryVars
<1>5. IsFiniteSet(users')
  BY <1>3 DEF PageInv
<1>6. ASSUME NEW x \in Callers
      PROVE  InStep(x)' /\ Alone(x)'
  <2>1. InStep(x)'
    BY <1>2, <1>3, <1>6, PageTypes DEF PageInv, InStep, Holds
  <2>2. CASE x = c
    BY <1>3, <2>1, <2>2 DEF PageInv, Alone, Fetched, iteratorVars, deliveryVars
  <2>3. CASE x # c
    BY <1>3, <2>1, <2>3, NotAlone DEF PageInv
  <2>4. QED
    BY <2>2, <2>3
<1>7. NothingSkipped'
  <2>1. delivered' = delivered /\ cursor' = cursor /\ exhausted' = exhausted
    BY DEF Fetched, iteratorVars, deliveryVars
  <2>2. \A n : Covered(n) => Covered(n)'
    BY <1>3, <2>1, CoveredStays
  <2>3. QED
    BY <1>3, <2>1, <2>2 DEF PageInv, NothingSkipped
<1>8. QED
  BY <1>1, <1>4, <1>5, <1>6, <1>7 DEF PageInv

\* An attempt that goes wrong leaves the caller in _send or takes it out.
LEMMA WrongAttempts ==
  ASSUME PageInv, NEW c \in Callers, GoesWrong(c)
  PROVE  /\ TransportInv'
         /\ stage[c] # "idle" /\ pc[c] = "fetching"
         /\ \A x \in Callers \ {c} : stage'[x] = stage[x]
<1>1. stage \in [Callers -> {"idle", "sending", "sleeping"}]
  BY DEF PageInv, TypeOK, TransportTypeOK
<1>2. ASSUME NEW class, NEW cause, End(c, class, cause)
      PROVE  \A x \in Callers \ {c} : stage'[x] = stage[x]
  BY <1>1, <1>2 DEF End
<1>3. ASSUME NEW cause, NEW wait, NEW ask, Sleep(c, cause, wait, ask)
      PROVE  \A x \in Callers \ {c} : stage'[x] = stage[x]
  BY <1>1, <1>2, <1>3 DEF Sleep
<1>4. ASSUME NEW status \in Statuses, NEW body, NEW header \in Headers,
             Respond(c, status, body, header)
      PROVE  /\ TransportInv' /\ stage[c] # "idle"
             /\ \A x \in Callers \ {c} : stage'[x] = stage[x]
  <2>1. status \in 200 .. 599 /\ header \in Int \cup {None}
    BY PageTypes DEF Statuses
  <2>2. TransportInv'
    BY <1>4, <2>1, RespondSound DEF PageInv
  <2>3. stage[c] = "sending"
    BY <1>4 DEF Respond
  <2>4. \A x \in Callers \ {c} : stage'[x] = stage[x]
    BY <1>2, <1>3, <1>4 DEF Respond
  <2>5. QED
    BY <2>2, <2>3, <2>4
<1>5. ASSUME NEW retriable \in BOOLEAN, Fail(c, retriable)
      PROVE  /\ TransportInv' /\ stage[c] # "idle"
             /\ \A x \in Callers \ {c} : stage'[x] = stage[x]
  <2>1. TransportInv'
    BY <1>5, FailSound DEF PageInv
  <2>2. stage[c] = "sending"
    BY <1>5 DEF Fail
  <2>3. \A x \in Callers \ {c} : stage'[x] = stage[x]
    BY <1>2, <1>3, <1>5 DEF Fail
  <2>4. QED
    BY <2>1, <2>2, <2>3
<1>6. ASSUME Abort(c)
      PROVE  /\ TransportInv' /\ stage[c] # "idle"
             /\ \A x \in Callers \ {c} : stage'[x] = stage[x]
  BY <1>2, <1>6, AbortSound DEF PageInv, Abort
<1>7. /\ TransportInv' /\ stage[c] # "idle"
      /\ \A x \in Callers \ {c} : stage'[x] = stage[x]
  BY <1>4, <1>5, <1>6 DEF GoesWrong
<1>8. pc[c] = "fetching"
  BY <1>7 DEF PageInv, InStep
<1>9. QED
  BY <1>7, <1>8

LEMMA GoesWrongKeeps ==
  ASSUME PageInv, NEW c \in Callers, GoesWrong(c)
  PROVE  PageInv'
<1>1. /\ TransportInv'
      /\ stage[c] # "idle" /\ pc[c] = "fetching"
      /\ \A x \in Callers \ {c} : stage'[x] = stage[x]
  BY WrongAttempts
<1>2. /\ pc' = [pc EXCEPT ![c] = IF stage'[c] = "idle" THEN "idle"
                                                     ELSE "fetching"]
      /\ look' = [look EXCEPT ![c] = IF stage'[c] = "idle" THEN NoCursor
                                                          ELSE look[c]]
      /\ page' = page /\ users' = users
      /\ cursor' = cursor /\ first' = first /\ exhausted' = exhausted
      /\ delivered' = delivered /\ count' = count
      /\ faults < MaxFaults /\ faults' = faults + 1
  BY DEF GoesWrong, Raises, Goto, iteratorVars, deliveryVars
<1>3. TypeOK'
  BY <1>1, <1>2, PageTypes DEF PageInv, TypeOK, TransportInv, PCs, NoCursor
<1>4. ASSUME NEW x \in Callers
      PROVE  InStep(x)' /\ Alone(x)'
  <2>1. InStep(x)'
    BY <1>1, <1>2, <1>4 DEF PageInv, TypeOK, InStep, Holds
  <2>2. CASE x = c
    BY <1>1, <1>2, <2>1, <2>2 DEF PageInv, TypeOK, Alone
  <2>3. CASE x # c
    BY <1>1, <1>2, <2>1, <2>3, NotAlone DEF PageInv
  <2>4. QED
    BY <2>2, <2>3
<1>5. NothingSkipped'
  <2>1. \A n : Covered(n)' <=> Covered(n)
    BY <1>2, CoveredUnchanged
  <2>2. Covered(NoCursor)
    BY DEF Covered, NoCursor
  <2>3. QED
    BY <1>1, <1>2, <2>1, <2>2 DEF PageInv, TypeOK, NothingSkipped
<1>6. QED
  BY <1>1, <1>2, <1>3, <1>4, <1>5 DEF PageInv

LEMMA MarkKeeps ==
  ASSUME PageInv, NEW c \in Callers, Mark(c)
  PROVE  PageInv'
<1>1. TransportInv'
  BY UnchangedSound DEF PageInv, Mark
<1>2. /\ pc[c] = "fetched" /\ pc' = [pc EXCEPT ![c] = "marked"]
      /\ first' = FALSE /\ exhausted' = (exhausted \/ page[c] = LastPage)
      /\ cursor' = cursor /\ look' = look /\ page' = page /\ users' = users
      /\ delivered' = delivered /\ count' = count /\ stage' = stage
      /\ faults' = faults
  BY DEF Mark, Goto, deliveryVars, transportVars
<1>3. /\ look[c] \in 0 .. LastPage - 1 /\ page[c] = look[c] + 1
      /\ c \in users
  BY <1>2 DEF PageInv, TypeOK, InStep, Holds, NoCursor
<1>4. TypeOK'
  BY <1>1, <1>2 DEF PageInv, TypeOK, TransportInv, PCs
<1>5. ASSUME NEW x \in Callers
      PROVE  InStep(x)' /\ Alone(x)'
  <2>1. InStep(x)'
    BY <1>2, <1>5 DEF PageInv, TypeOK, InStep, Holds
  <2>2. CASE x = c
    BY <1>2, <1>3, <2>1, <2>2, PageTypes DEF PageInv, TypeOK, Alone
  <2>3. CASE x # c
    BY <1>2, <2>1, <2>3, NotAlone DEF PageInv
  <2>4. QED
    BY <2>2, <2>3
<1>6. NothingSkipped'
  <2>1. \A n : Covered(n)' <=> Covered(n)
    BY <1>2, CoveredUnchanged
  <2>2. page[c] = LastPage => Covered(LastPage)
    <3>1. \A m \in 1 .. LastPage :
            page[c] = LastPage => m \in 1 .. look[c] \/ m = page[c]
      BY <1>3, PageTypes
    <3>2. QED
      BY <3>1 DEF PageInv, NothingSkipped, Covered
  <2>3. QED
    BY <1>2, <2>1, <2>2 DEF PageInv, TypeOK, NothingSkipped
<1>7. QED
  BY <1>1, <1>2, <1>4, <1>5, <1>6 DEF PageInv

LEMMA StoreKeeps ==
  ASSUME PageInv, NEW c \in Callers, Store(c)
  PROVE  PageInv'
<1>1. TransportInv'
  BY UnchangedSound DEF PageInv, Store
<1>2. /\ pc[c] = "marked" /\ pc' = [pc EXCEPT ![c] = "idle"]
      /\ cursor' = NextCursor(page[c])
      /\ delivered' = delivered \cup {page[c]}
      /\ count' = Smaller(LastPage + 1, count + 1)
      /\ page' = [page EXCEPT ![c] = 0]
      /\ look' = [look EXCEPT ![c] = NoCursor]
      /\ first' = first /\ exhausted' = exhausted /\ stage' = stage
      /\ users' = users /\ faults' = faults
  BY DEF Store, Goto, transportVars
<1>3. /\ look[c] \in 0 .. LastPage - 1 /\ page[c] = look[c] + 1
      /\ page[c] \in 1 .. LastPage /\ NextCursor(page[c]) \in 0 .. LastPage - 1
  BY <1>2, PageTypes DEF PageInv, TypeOK, InStep, Holds, NoCursor, NextCursor
<1>4. TypeOK'
  <2>1. count' \in 0 .. LastPage + 1
    BY <1>2, PageTypes DEF PageInv, TypeOK, Smaller
  <2>2. 0 \in 0 .. LastPage /\ 0 \in 0 .. LastPage - 1
    BY PageTypes
  <2>3. QED
    BY <1>1, <1>2, <1>3, <2>1, <2>2
       DEF PageInv, TypeOK, TransportInv, PCs, NoCursor
<1>5. ASSUME NEW x \in Callers
      PROVE  InStep(x)' /\ Alone(x)'
  <2>1. InStep(x)'
    BY <1>2, <1>5 DEF PageInv, TypeOK, InStep, Holds
  <2>2. CASE x = c /\ users \subseteq {c}
    <3>1. /\ count = look[c] /\ delivered = 1 .. count /\ count \in Nat
          /\ count < LastPage
      BY <1>2, <1>3, <2>2, PageTypes DEF PageInv, TypeOK, Alone
    <3>2. count' = count + 1 /\ page[c] = count + 1
      BY <1>2, <1>3, <3>1, PageTypes DEF Smaller
    <3>3. delivered' = 1 .. count'
      BY <1>2, <3>1, <3>2
    <3>4. ~ first /\ (page[c] = LastPage => exhausted)
      BY <1>2, <2>2 DEF PageInv, TypeOK, NothingSkipped, Alone
    <3>5. exhausted => page[c] = LastPage
      BY <1>2, <2>2, <3>1 DEF PageInv, Alone
    <3>6. count' <= LastPage /\ (~ exhausted => count' < LastPage)
      BY <1>3, <3>2, <3>4, PageTypes
    <3>7. Alone(c)'
      BY <1>2, <1>3, <3>2, <3>3, <3>4, <3>5, <3>6 DEF Alone, NextCursor, PageInv, TypeOK
    <3>8. QED
      BY <2>1, <2>2, <3>7
  <2>3. CASE x # c
    BY <1>2, <2>1, <2>3, NotAlone DEF PageInv
  <2>4. QED
    BY <1>2, <2>1, <2>2, <2>3 DEF Alone
<1>6. NothingSkipped'
  <2>1. \A n : Covered(n) => Covered(n)'
    BY <1>2, CoveredStays DEF PageInv, TypeOK
  <2>2. Covered(page[c])
    <3>1. \A m \in 1 .. page[c] : m \in 1 .. look[c] \/ m = page[c]
      BY <1>3, PageTypes
    <3>2. QED
      BY <3>1 DEF PageInv, NothingSkipped, Covered
  <2>3. Covered(NoCursor)
    BY DEF Covered, NoCursor
  <2>4. QED
    BY <1>2, <2>1, <2>2, <2>3 DEF PageInv, TypeOK, NothingSkipped, NextCursor
<1>7. QED
  BY <1>1, <1>2, <1>4, <1>5, <1>6 DEF PageInv

LEMMA PageStep == PageInv /\ [Next]_vars => PageInv'
<1> SUFFICES ASSUME PageInv, [Next]_vars
             PROVE  PageInv'
  OBVIOUS
<1>1. ASSUME NEW c \in Callers, Step(c) \/ GoesWrong(c)
      PROVE  PageInv'
  BY <1>1, CheckKeeps, LookKeeps, WaitsKeep, FetchedKeeps, MarkKeeps,
     StoreKeeps, GoesWrongKeeps DEF Step
<1>2. CASE UNCHANGED vars
  <2>1. /\ UNCHANGED transportVars /\ UNCHANGED iteratorVars
        /\ UNCHANGED <<pc, look, page, faults, users>>
        /\ UNCHANGED deliveryVars
    BY <1>2 DEF vars
  <2>2. TransportInv'
    BY <2>1, UnchangedSound DEF PageInv
  <2>3. TypeOK' /\ NothingSkipped'
    BY <2>1, <2>2 DEF PageInv, TypeOK, TransportInv, NothingSkipped, Covered,
       iteratorVars, deliveryVars
  <2>4. \A c \in Callers : InStep(c)' /\ Alone(c)'
    BY <2>1 DEF PageInv, InStep, Alone, Holds, transportVars, iteratorVars,
       deliveryVars
  <2>5. QED
    BY <2>1, <2>2, <2>3, <2>4 DEF PageInv
<1>3. QED
  BY <1>1, <1>2 DEF Next, AllDone

LEMMA PageInvAlways == Spec => []PageInv
BY PageInit, PageStep, PTL DEF Spec

-----------------------------------------------------------------------------
\* The variables of the iterator, its consumers and their requests stay in
\* their types.
THEOREM TypeCorrect == Spec => []TypeOK
<1>1. PageInv => TypeOK
  BY DEF PageInv
<1>2. QED
  BY <1>1, PageInvAlways, PTL

\* However many consumers share an iterator, and whatever fails, nobody is
\* told that there are no more pages while one has been left out.
THEOREM NothingIsSkipped == Spec => []NoPageSkipped
<1>1. PageInv => NoPageSkipped
  BY DEF PageInv, NothingSkipped, Covered, NoPageSkipped
<1>2. QED
  BY <1>1, PageInvAlways, PTL

\* A consumer with an iterator of its own gets every page once and in order.
THEOREM AloneInOrder == Spec => []OnceInOrderAlone
<1>1. PageInv => OnceInOrderAlone
  <2> SUFFICES ASSUME PageInv, Cardinality(users) = 1
               PROVE  delivered = 1 .. count
    BY DEF OnceInOrderAlone
  <2>1. PICK c : users = {c}
    BY FS_Singleton DEF PageInv
  <2>2. c \in Callers
    BY <2>1 DEF PageInv, TypeOK
  <2>3. QED
    BY <2>1, <2>2 DEF PageInv, Alone
<1>2. QED
  BY <1>1, PageInvAlways, PTL

LEMMA PromisesAlways == Spec => []Promises
<1>1. PageInv => Promises
  BY InvKeepsPromises DEF PageInv
<1>2. QED
  BY <1>1, PageInvAlways, PTL

\* Whatever the policy, a transient failure reaches the caller only when no
\* attempt is left.
THEOREM RetriedToTheLast == Spec => []TransientOnlyAtLast
<1>1. Promises => TransientOnlyAtLast
  BY DEF Promises
<1>2. QED
  BY <1>1, PromisesAlways, PTL

\* Whatever the policy, only what ended in a transient status or failure is
\* sent again.
THEOREM RetriedOnlyIfTransient == Spec => []OnlyTransientIsRepeated
<1>1. Promises => OnlyTransientIsRepeated
  BY DEF Promises
<1>2. QED
  BY <1>1, PromisesAlways, PTL

\* No attempt is sent before the wait that the server asked for, cut to
\* max_delay, is over.
THEOREM RetryAfterHonoured == Spec => []WaitsAsAsked
<1>1. Promises => WaitsAsAsked
  BY DEF Promises
<1>2. QED
  BY <1>1, PromisesAlways, PTL

\* _send is over by the time its attempts and the longest delays take.
THEOREM SendIsBounded == Spec => []TimeIsBounded
<1>1. Promises => TimeIsBounded
  BY DEF Promises
<1>2. QED
  BY <1>1, PromisesAlways, PTL

=============================================================================
