----------------------------- MODULE FreshClient -----------------------------
(***************************************************************************)
(* What either client (src/graphann/client.py, async_client.py) promises   *)
(* the callers that share it, with no cache, gate or retry in it: a call   *)
(* ends with an exception or with a version of the server's data that was  *)
(* current at some moment since the newest write acknowledged before the   *)
(* call began; for a write that succeeds it is newer than that write's.    *)
(***************************************************************************)
EXTENDS Naturals

CONSTANTS Callers,     \* the threads or tasks that share the client
          Exceptions,  \* what a call may raise
          None         \* no call, no result

VARIABLES db,     \* the version of the server's data
          acked,  \* the newest version a write of this client returned with
          call,   \* per caller: the call it is in, with what was acknowledged
                  \* when it began and whether it writes
          result  \* per caller: what its latest call ended with

promiseVars == <<db, acked, call, result>>

Init ==
  /\ db = 0 /\ acked = 0
  /\ call = [t \in Callers |-> None]
  /\ result = [t \in Callers |-> None]

Larger(m, n) == IF m < n THEN n ELSE m

\* The versions that a call begun at floor may end with by now.
Acceptable(floor, writes) == (IF writes THEN floor + 1 ELSE floor) .. db

\* t gets a value or an exception; a write that succeeds is acknowledged.
Ends(t, floor, writes) ==
  /\ db' = db
  /\ \/ \E v \in Acceptable(floor, writes) :
          /\ result' = [result EXCEPT ![t] = v]
          /\ acked' = IF writes THEN Larger(acked, v) ELSE acked
     \/ \E e \in Exceptions :
          /\ result' = [result EXCEPT ![t] = e]
          /\ acked' = acked

Begin(t) ==
  /\ call[t] = None
  /\ \E writes \in BOOLEAN :
       call' = [call EXCEPT ![t] = [floor |-> acked, writes |-> writes]]
  /\ result' = [result EXCEPT ![t] = None]
  /\ UNCHANGED <<db, acked>>

End(t) ==
  /\ call[t] # None
  /\ call' = [call EXCEPT ![t] = None]
  /\ Ends(t, call[t].floor, call[t].writes)

\* A read that is answered without a suspension begins and ends in one step
\* of the event loop.
AtOnce(t) ==
  /\ call[t] = None /\ call' = call
  /\ Ends(t, acked, FALSE)

\* A write of any client reaches the server; it is acknowledged later, or
\* never, or more than once when the attempt is repeated.
ServerWrites ==
  /\ db' = db + 1
  /\ UNCHANGED <<acked, call, result>>

Next ==
  \/ \E t \in Callers : Begin(t) \/ End(t) \/ AtOnce(t)
  \/ ServerWrites

Spec == Init /\ [][Next]_promiseVars
=============================================================================
