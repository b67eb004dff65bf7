-------------------------- MODULE MCRefreshFlights --------------------------
(* Three requests and two tokens: a leader, a request that leads again      *)
(* after it and one that follows either, with another token beside them.    *)
(* The clock runs past one retention period, so that a flight goes stale    *)
(* while its dropped leader has not removed it yet.                         *)
EXTENDS RefreshFlights
=============================================================================
