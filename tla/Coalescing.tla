----------------------------- MODULE Coalescing -----------------------------
(***************************************************************************)
(* What a singleflight gate (src/graphann/_singleflight.py) promises its   *)
(* callers, with no lock, event or future in it: a key has one run of fn   *)
(* that callers may join, it stays open at least until it ends, a caller   *)
(* joins the open run of its key or starts one when there is none, and it  *)
(* returns with the outcome of the run it joined, once that has ended.     *)
(*                                                                         *)
(* The outcome of a run is its number.                                     *)
(***************************************************************************)
EXTENDS Naturals

CONSTANTS Callers,  \* the threads or tasks that call the gate
          Keys,     \* the keys they call it with
          Nobody    \* no key

VARIABLES runs,     \* runs of fn so far
          running,  \* those that have not ended
          open,     \* per key: the run that callers join, 0 when there is none
          asked,    \* per caller: the key of the call it is in
          member,   \* per caller: the run it takes part in, 0 when it has none
          result    \* per caller: what its latest call returned with, or 0

promiseVars == <<runs, running, open, asked, member, result>>

Init ==
  /\ runs = 0 /\ running = {}
  /\ open = [k \in Keys |-> 0]
  /\ asked = [t \in Callers |-> Nobody]
  /\ member = [t \in Callers |-> 0]
  /\ result = [t \in Callers |-> 0]

\* t is in a call for k and takes part in run r.
Takes(t, k, r) ==
  /\ member[t] = 0 /\ asked[t] \in {Nobody, k}
  /\ asked' = [asked EXCEPT ![t] = k]
  /\ member' = [member EXCEPT ![t] = r]
  /\ result' = [result EXCEPT ![t] = 0]

\* t leaves the call with the outcome of run r, which has ended.
Leaves(t, r) ==
  /\ r # 0 /\ r \notin running'
  /\ asked' = [asked EXCEPT ![t] = Nobody]
  /\ member' = [member EXCEPT ![t] = 0]
  /\ result' = [result EXCEPT ![t] = r]

\* t calls with k and has to wait before it takes part in a run.
Arrive(t, k) ==
  /\ asked[t] = Nobody
  /\ Takes(t, k, 0)
  /\ UNCHANGED <<runs, running, open>>

Start(t, k) ==
  /\ open[k] = 0
  /\ runs' = runs + 1
  /\ running' = running \cup {runs'}
  /\ open' = [open EXCEPT ![k] = runs']
  /\ Takes(t, k, runs')

Join(t, k) ==
  /\ open[k] # 0
  /\ Takes(t, k, open[k])
  /\ UNCHANGED <<runs, running, open>>

End(r) ==
  /\ r \in running
  /\ running' = running \ {r}
  /\ UNCHANGED <<runs, open, asked, member, result>>

\* Once a run has ended, whoever returns with it may close it.
Closes(t) ==
  \/ open' = open
  \/ open' = [open EXCEPT ![asked[t]] = IF @ = member[t] THEN 0 ELSE @]

Return(t) ==
  /\ Leaves(t, member[t])
  /\ Closes(t)
  /\ UNCHANGED <<runs, running>>

\* A run ends as its leader returns, when nobody else takes part in it.
EndAlone(t) ==
  /\ \A s \in Callers \ {t} : member[s] # member[t]
  /\ running' = running \ {member[t]}
  /\ Leaves(t, member[t])
  /\ Closes(t)
  /\ UNCHANGED runs

\* t finds the open run of k ended and returns with it at once.
JoinLate(t, k) ==
  /\ member[t] = 0 /\ asked[t] \in {Nobody, k}
  /\ Leaves(t, open[k])
  /\ UNCHANGED <<runs, running, open>>

\* t calls with another key, whose run, if it starts one, takes a number.
Elsewhere(t) ==
  /\ asked[t] = Nobody
  /\ runs' \in {runs, runs + 1}
  /\ result' = [result EXCEPT ![t] = 0]
  /\ UNCHANGED <<running, open, asked, member>>

Next ==
  \/ \E t \in Callers :
       \/ \E k \in Keys :
            Arrive(t, k) \/ Start(t, k) \/ Join(t, k) \/ JoinLate(t, k)
       \/ Return(t) \/ EndAlone(t) \/ Elsewhere(t)
  \/ \E r \in running : End(r)

Spec == Init /\ [][Next]_promiseVars
=============================================================================
