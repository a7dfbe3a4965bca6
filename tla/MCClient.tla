------------------------------ MODULE MCClient ------------------------------
(* Small instances of Client for TLC.  The requests are endpoint methods.  *)
EXTENDS Client, TLC
LOCAL INSTANCE Endpoints

SearchRequest == [Call("search_full", "POST") EXCEPT
                    !.readOnly = TRUE, !.cacheable = TRUE, !.coalesce = TRUE]

SearchAndWrite == {SearchRequest, Write("add_documents", "POST")}

\* A request of each kind that the cache and the gate treat differently, on
\* two paths, so that the searches meet in the cache and in the gate.
EveryKindOfRequest ==
  Search \cup {Write("add_documents", "POST"), CachedRead("list_indexes")}

\* What Client's ASSUMEs say of Requests holds of every endpoint method.
ASSUME EveryEndpointIsDeclared ==
  \A r \in AllEndpoints :
    /\ r.writes => Clears(r) /\ ~ r.cacheable /\ ~ r.coalesce
    /\ r.cacheable \/ r.coalesce => ~ r.params

ThreadSymmetry == Permutations(Threads)
=============================================================================
