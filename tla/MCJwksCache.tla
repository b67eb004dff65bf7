----------------------------- MODULE MCJwksCache -----------------------------
(* A provider that adds two keys, one of which signs with an algorithm that *)
(* the first set does not state, and then keeps only the other new one.     *)
(* Tokens signed with each key, one without a kid, one under a false name   *)
(* and one under a name that is never published.                            *)
EXTENDS JwksCache, TLC

CONSTANTS k1, k2, k3, k4, RS256, ES256, r1, r2, r3

MCSchedule == <<{k1}, {k1, k2, k3}, {k2}>>

MCAlgorithm == [k \in Keys |-> IF k = k3 THEN ES256 ELSE RS256]

MCTokens ==
    {[kid |-> k, signer |-> k] : k \in Keys} \cup
    {[kid |-> k2, signer |-> k1], [kid |-> NoKid, signer |-> k1]}

MCSymmetry == Permutations(Requests)
=============================================================================
