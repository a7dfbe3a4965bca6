---------------------------- MODULE MCPagination ----------------------------
(* Small instances of Pagination for TLC.                                  *)
EXTENDS Pagination

\* The default, RetryPolicy.retry_on_status.
DefaultStatuses == {429, 502, 503, 504}

\* No header, a date that has passed, and a wait longer than MaxDelay.
SomeHeaders == {None, -1, 4}
=============================================================================
