----------------------------- MODULE Pagination -----------------------------
(***************************************************************************)
(* Consumers that share one PageIterator or AsyncPageIterator              *)
(* (src/graphann/pagination.py) over the listing of a server that answers, *)
(* fails and is late as it likes; each fetch is a _send of Transport.      *)
(*                                                                         *)
(* The steps are those of threads: another consumer may run between the    *)
(* check for exhaustion, the look at the cursor and the two halves of the  *)
(* update.  Tasks of one loop interleave only while a fetch is awaited, so *)
(* what they can do is among it.                                           *)
(***************************************************************************)
EXTENDS Transport, FiniteSets

CONSTANTS
  LastPage,   \* the number of pages; page n + 1 is behind cursor n
  Headers,    \* the Retry-After headers the server sends
  MaxFaults   \* bound: attempts, of all fetches together, that go wrong

ASSUME PageTypes ==
  /\ LastPage \in Nat \ {0} /\ MaxFaults \in Nat
  /\ Headers \subseteq Int \cup {None}

NoCursor == 0

VARIABLES
  cursor, first, exhausted,  \* _cursor, _first, _exhausted
  pc,         \* where in __next__ each consumer is
  look,       \* the cursor it passed to the fetcher
  page,       \* the page its fetch returned
  faults,     \* attempts gone wrong so far
  users,      \* history: the consumers that have used the iterator
  delivered,  \* history: the pages that were returned to some consumer
  count       \* history: how often a page was returned, up to LastPage + 1

iteratorVars == <<cursor, first, exhausted>>
deliveryVars == <<delivered, count>>
vars == <<transportVars, iteratorVars, pc, look, page, faults, users,
          deliveryVars>>

PCs == {"idle",      \* outside __next__
        "checked",   \* it found the iterator not exhausted   (lines 69-70)
        "fetching",  \* in self._fetch                           (line 72)
        "fetched",   \* it has items and next_cursor
        "marked",    \* _first and _exhausted are set         (lines 73-75)
        "ended"}     \* it was told StopIteration

TypeOK ==
  /\ TransportTypeOK
  /\ cursor \in NoCursor .. LastPage - 1
  /\ first \in BOOLEAN /\ exhausted \in BOOLEAN
  /\ pc \in [Callers -> PCs]
  /\ look \in [Callers -> NoCursor .. LastPage - 1]
  /\ page \in [Callers -> 0 .. LastPage]
  /\ faults \in 0 .. MaxFaults
  /\ users \subseteq Callers
  /\ delivered \subseteq 1 .. LastPage
  /\ count \in 0 .. LastPage + 1

Init ==
  /\ TransportInit
  /\ cursor = NoCursor /\ first = TRUE /\ exhausted = FALSE
  /\ pc = [c \in Callers |-> "idle"]
  /\ look = [c \in Callers |-> NoCursor]
  /\ page = [c \in Callers |-> 0]
  /\ faults = 0
  /\ users = {} /\ delivered = {} /\ count = 0

Goto(c, label) == pc' = [pc EXCEPT ![c] = label]

-----------------------------------------------------------------------------
\* A consumer asks for a page and is let in, or told that there is none.
Check(c) ==
  /\ pc[c] = "idle"
  /\ Goto(c, IF exhausted THEN "ended" ELSE "checked")
  /\ users' = users \cup {c}
  /\ UNCHANGED <<transportVars, iteratorVars, look, page, faults, deliveryVars>>

\* It reads the cursor and fetches what is behind it.
Look(c) ==
  /\ pc[c] = "checked"
  /\ look' = [look EXCEPT ![c] = IF first THEN NoCursor ELSE cursor]
  /\ Start(c)
  /\ Goto(c, "fetching")
  /\ UNCHANGED <<iteratorVars, page, faults, users, deliveryVars>>

\* Time passes, or the fetch goes on to its next attempt.
Waits(c) ==
  /\ Tick(c) \/ Resend(c)
  /\ UNCHANGED <<iteratorVars, pc, look, page, faults, users, deliveryVars>>

\* The page behind the cursor arrives.
Fetched(c) ==
  /\ Respond(c, 200, "json", None)
  /\ page' = [page EXCEPT ![c] = look[c] + 1]
  /\ Goto(c, "fetched")
  /\ UNCHANGED <<iteratorVars, look, faults, users, deliveryVars>>

\* BUG: the iterator starts over when a fetch fails.
RaisesAndResets(c) ==
  /\ Goto(c, IF stage'[c] = "idle" THEN "idle" ELSE "fetching")
  /\ look' = [look EXCEPT ![c] = IF stage'[c] = "idle" THEN NoCursor ELSE @]
  /\ cursor' = IF stage'[c] = "idle" THEN NoCursor ELSE cursor
  /\ UNCHANGED <<first, exhausted, page, users, deliveryVars>>

\* An exception of the fetch, or of _validate on what it returned, leaves the
\* iterator as it was; a retry leaves the consumer in the fetch.
Raises(c) ==
  /\ Goto(c, IF stage'[c] = "idle" THEN "idle" ELSE "fetching")
  /\ look' = [look EXCEPT ![c] = IF stage'[c] = "idle" THEN NoCursor ELSE @]
  /\ UNCHANGED <<iteratorVars, page, users, deliveryVars>>

\* A status of each kind that the code treats differently: success with and
\* without a body, a redirect, which has no exception class of its own, an
\* error that has one, and server errors that the default policy lists and
\* does not.
Statuses == {200, 204, 307, 404, 429, 500, 502, 503}

\* An attempt goes wrong: another response than a page (a 200 with a JSON
\* body that is not one included), a transport error, or a cancellation.
GoesWrong(c) ==
  /\ faults < MaxFaults
  /\ faults' = faults + 1
  /\ \/ \E status \in Statuses, body \in {"json", "text", "empty"},
           header \in Headers :
          Respond(c, status, body, header)
     \/ \E retriable \in BOOLEAN : Fail(c, retriable)
     \/ Abort(c)
  /\ Raises(c)

\* BUG: an empty next_cursor is not taken for the end, only None is.
MarkNoEnd(c) ==
  /\ pc[c] = "fetched"
  /\ first' = FALSE
  /\ Goto(c, "marked")
  /\ UNCHANGED <<transportVars, cursor, exhausted, look, page, faults, users,
                 deliveryVars>>

\* The new state of the iterator is stored in two halves.
Mark(c) ==
  /\ pc[c] = "fetched"
  /\ first' = FALSE
  /\ exhausted' = (exhausted \/ page[c] = LastPage)
  /\ Goto(c, "marked")
  /\ UNCHANGED <<transportVars, cursor, look, page, faults, users,
                 deliveryVars>>

NextCursor(n) == IF n = LastPage THEN NoCursor ELSE n

\* BUG: the cursor moves on from where it is now.
StoreFromNow(c) ==
  /\ pc[c] = "marked"
  /\ cursor' = NextCursor(Smaller(LastPage, cursor + 1))
  /\ delivered' = delivered \cup {page[c]}
  /\ count' = Smaller(LastPage + 1, count + 1)
  /\ page' = [page EXCEPT ![c] = 0]
  /\ look' = [look EXCEPT ![c] = NoCursor]
  /\ Goto(c, "idle")
  /\ UNCHANGED <<transportVars, first, exhausted, faults, users>>

\* The page is returned.
Store(c) ==
  /\ pc[c] = "marked"
  /\ cursor' = NextCursor(page[c])
  /\ delivered' = delivered \cup {page[c]}
  /\ count' = Smaller(LastPage + 1, count + 1)
  /\ page' = [page EXCEPT ![c] = 0]
  /\ look' = [look EXCEPT ![c] = NoCursor]
  /\ Goto(c, "idle")
  /\ UNCHANGED <<transportVars, first, exhausted, faults, users>>

\* What a consumer, its timers and a server that has a page to give bring
\* about.
Step(c) ==
  Check(c) \/ Look(c) \/ Waits(c) \/ Fetched(c) \/ Mark(c) \/ Store(c)

AllDone ==
  /\ \A c \in Callers : pc[c] = "ended"
  /\ UNCHANGED vars

Next ==
  \/ \E c \in Callers : Step(c) \/ GoesWrong(c)
  \/ AllDone

Spec == Init /\ [][Next]_vars

\* A consumer that is not told StopIteration asks again, as a for loop does;
\* an attempt that does not go wrong is answered.
FairSpec == Spec /\ \A c \in Callers : WF_vars(Step(c))

-----------------------------------------------------------------------------
\* When a consumer is told that there are no more pages, every page has been
\* returned to some consumer or is about to be, however many share the
\* iterator, in whatever order their fetches end and whichever failed.
NoPageSkipped ==
  (\E c \in Callers : pc[c] = "ended") =>
    \A n \in 1 .. LastPage :
      n \in delivered \/ \E c \in Callers : page[c] = n

\* A consumer that has the iterator for itself gets the pages in order and
\* each of them once, failed fetches notwithstanding.
OnceInOrderAlone ==
  Cardinality(users) = 1 => delivered = 1 .. count

\* Every consumer is told StopIteration in the end.
IterationEnds == \A c \in Callers : <>(pc[c] = "ended")
=============================================================================
