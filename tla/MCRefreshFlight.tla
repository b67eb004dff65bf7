--------------------------- MODULE MCRefreshFlight ---------------------------
(* Three futures on two tasks: two futures can share a task, and one can    *)
(* move to the other task between two polls.                                *)
EXTENDS RefreshFlight
=============================================================================
