--------------------------- MODULE MCWebAppSession ---------------------------
(* Browsers that signed in at time 0 with one refresh token each.  Tokens   *)
(* live one tick; they are refreshed from then on until the session age     *)
(* extension of three ticks is over, and a flight is retained for two.      *)
EXTENDS WebAppSession, TLC

MCFirstToken ==
    CHOOSE f \in [Browsers -> Tokens] : \A b, d \in Browsers : f[b] = f[d] => b = d

MCConfig == [refreshExpired |-> TRUE, skew |-> Never, grace |-> 0, extension |-> 3]

(* Nothing tells one request from another before it is sent. *)
MCRequestSymmetry == Permutations(Requests)
=============================================================================
