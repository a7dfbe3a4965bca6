---------------------------- MODULE MCAsyncClient ----------------------------
(* Small instances of AsyncClient for TLC.                                 *)
EXTENDS AsyncClient, TLC
LOCAL INSTANCE AsyncEndpoints
LOCAL Sync == INSTANCE Endpoints

\* async_client.py:57: "Method surface matches graphann.client.Client".
ASSUME SameSurface == AllEndpoints = Sync!AllEndpoints

\* What ASSUMEs of AsyncClient say of Requests holds of every endpoint.
ASSUME EveryEndpointIsDeclared ==
  \A r \in AllEndpoints :
    /\ r.writes => Clears(r)
    /\ r.coalesce \/ r.cacheable => ~ r.writes
    /\ r.cacheable \/ r.coalesce => ~ r.params

\* A search as it is called by default, and a write.
SearchAndWrite ==
  {r \in Search : r.cacheable /\ r.coalesce}
  \cup {Write("add_documents", "POST")}

TaskSymmetry == Permutations(Tasks)
=============================================================================
