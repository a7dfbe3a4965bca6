------------------------------- MODULE Calls -------------------------------
(***************************************************************************)
(* The ways in which an endpoint method of either client calls _request:   *)
(* the verb and the flags that decide whether the call reads the cache,    *)
(* fills it, clears it or shares another caller's request.  The method's   *)
(* name stands for its path and arguments.                                 *)
(*                                                                         *)
(* writes says what the server does with the request, which the code does  *)
(* not state; it is read off the method's name and docstring.              *)
(***************************************************************************)
Call(name, verb) ==
  [path |-> name, verb |-> verb, params |-> FALSE, cacheable |-> FALSE,
   coalesce |-> FALSE, readOnly |-> FALSE, writes |-> FALSE]

Read(name) == Call(name, "GET")
CachedRead(name) == [Read(name) EXCEPT !.cacheable = TRUE]
QueryRead(name) == [Read(name) EXCEPT !.params = TRUE]
Write(name, verb) == [Call(name, verb) EXCEPT !.writes = TRUE]

\* The caller chooses coalesce and cache, both TRUE by default.
Searches(name) ==
  {[Call(name, "POST") EXCEPT !.readOnly = TRUE, !.cacheable = cache,
                              !.coalesce = coalesce] :
     cache \in BOOLEAN, coalesce \in BOOLEAN}
=============================================================================
