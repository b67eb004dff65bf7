------------------------------- MODULE MCSignIn -------------------------------
(* Two browsers and one restart.  Four requests are two sign-ins and a      *)
(* callback for each, or a sign-in with two callbacks and a logout.         *)
EXTENDS SignIn, TLC

MCSymmetry == Permutations(Requests) \cup Permutations(Browsers)
=============================================================================
