---------------------------- MODULE MCSessionAge ----------------------------
(* A clock of five seconds: every configuration, every sign-in time, and    *)
(* expiries before, at and after it.  The largest Max-Age is shorter than   *)
(* the clock, as i64::MAX is shorter than u64::MAX.                         *)
EXTENDS SessionAge

MCExpiries == {1, 3, Never}
=============================================================================
