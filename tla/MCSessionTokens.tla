---------------------------- MODULE MCSessionTokens ----------------------------
(* The ID tokens of two users, in the forms that a provider may choose from *)
(* one response to the next, and with each flaw that validation looks for.  *)
EXTENDS SessionTokens

CONSTANTS Alice, Bob, OtherNonce, Role1, Role2, Now, Today

Good == [valid |-> TRUE, sub |-> Alice, iss |-> Provider, aud |-> <<Client>>, azp |-> None,
         issuedAt |-> Now, authTime |-> None, nonce |-> Nonce, roles |-> {Role1}]

Forms ==
    {[Good EXCEPT !.sub = s, !.aud = a, !.azp = Client, !.authTime = h, !.nonce = n] :
        s \in {Alice, Bob}, a \in {<<Client>>, <<Client, Bob>>, <<Client, Client>>},
        h \in {None, Today}, n \in {None, Nonce, OtherNonce}}

MCIdTokens ==
    Forms \cup {[Good EXCEPT !.roles = {Role2}]} \cup
    {[Good EXCEPT !.valid = FALSE], [Good EXCEPT !.sub = None], [Good EXCEPT !.iss = None],
     [Good EXCEPT !.iss = Bob], [Good EXCEPT !.aud = <<>>], [Good EXCEPT !.aud = <<Bob>>],
     [Good EXCEPT !.aud = <<Client, Bob>>], [Good EXCEPT !.azp = Bob],
     [Good EXCEPT !.issuedAt = None]}

MCPrincipals == {[subject |-> s, groups |-> {}] : s \in {Alice, Bob}}
=============================================================================
