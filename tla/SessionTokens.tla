----------------------------- MODULE SessionTokens -----------------------------
(***************************************************************************)
(* Whom a web-app session is about: the tokens of the sign-in and of each  *)
(* refresh after it, from WebApp::callback and validated_tokens of         *)
(* web_app.rs and the validator of id_token.rs.                            *)
(*                                                                         *)
(* A token response brings an access token, which names the principal, and *)
(* an ID token, which says who signed in; a refresh may leave the ID token *)
(* out.  The session is in the cookie, so each refresh starts from the     *)
(* session that the last one made; an answer that gets lost only repeats   *)
(* the step.  TokenValidation shows how an access token is judged: here it *)
(* names a principal or does not.                                          *)
(*                                                                         *)
(* An ID token is a record of valid (signed by the provider and in its     *)
(* time), sub, iss, azp, issuedAt, authTime and nonce, which may be        *)
(* missing, the sequence aud, and roles.                                   *)
(*                                                                         *)
(* The names of the specification differ from those of TokenValidation, so *)
(* that one module of proofs can extend both.                              *)
(***************************************************************************)
EXTENDS Sequences, SequencesExt, TokenClaims

CONSTANTS Client,      \* the configured client_id
          Provider,    \* the issuer that ID tokens are validated against
          Nonce,       \* the nonce of this sign-in, as its hash
          IdTokens,    \* ID tokens in responses
          Principals   \* principals that access tokens name

ASSUME SessionTokensAssumption ==
    /\ Nonce # None /\ Client # None /\ Provider # None
    /\ None \notin IdTokens /\ NoPrincipal \notin Principals
    /\ \A p \in Principals : p = [subject |-> p.subject, groups |-> {}] /\ p.subject # None
    /\ \A t \in IdTokens : t.valid \in BOOLEAN /\ DOMAIN t.aud = 1 .. Len(t.aud)

VARIABLES
    settings,  \* nonceRequired, rolesInIdToken, and whether ID tokens are validated
    pc,        \* "out", "away" at the provider, or "in"
    sent,      \* the nonce in the state cookie of the sign-in
    session,   \* principal and ID token of the session cookie
    original,  \* the ID token of the sign-in
    named      \* history: whom the access token named that the session was last
               \* made with, None if it was turned down

sessionVars == <<settings, pc, sent, session, original, named>>

NoSession == [principal |-> NoPrincipal, idToken |-> None]

Settings == [idTokenValidator : BOOLEAN, nonceRequired : BOOLEAN, rolesInIdToken : BOOLEAN]

(* Whom an access token can name. *)
Subjects == {p.subject : p \in Principals}

SessionTypeOK ==
    /\ settings \in Settings
    /\ pc \in {"out", "away", "in"}
    /\ sent \in {None, Nonce}
    /\ original \in IdTokens \cup {None}
    /\ named \in Subjects \cup {None}
    /\ session.idToken \in IdTokens \cup {None}
    /\ pc = "in" <=> session # NoSession
    /\ pc = "in" => original # None /\ session.idToken # None

SessionInit ==
    /\ settings \in Settings
    /\ pc = "out" /\ sent = None
    /\ session = NoSession /\ original = None /\ named = None

-----------------------------------------------------------------------------
(* JoseIdTokenValidator.  The library compares an issuer and an audience    *)
(* that it finds and requires sub, as asked, but not iat, which the         *)
(* validator looks at itself.                                               *)
IdTokenOk(t) ==
    /\ settings.idTokenValidator
    /\ t.valid /\ t.iss \in {None, Provider}
    /\ t.aud # <<>> => Contains(t.aud, Client)
    /\ t.issuedAt # None /\ t.sub # None
    /\ Len(t.aud) > 1 => t.azp = Client
    /\ t.azp \in {None, Client}

NonceOk(t, expected) == Matches(expected, t.nonce)

(* A slip: whose session it was is not looked at. *)
ContinuesAuthentication(t, previous) ==
    /\ t.iss = previous.iss
    /\ previous.authTime # None => t.authTime = previous.authTime
    /\ t.nonce \in {None, previous.nonce}

(* A refreshed ID token continues the one before it. *)
Continues(t, previous) ==
    /\ t.iss = previous.iss /\ t.sub = previous.sub
    /\ Len(t.aud) = Len(previous.aud)
    /\ \A i \in DOMAIN t.aud : Contains(previous.aud, t.aud[i])
    /\ previous.authTime # None => t.authTime = previous.authTime
    /\ t.nonce \in {None, previous.nonce}

(* The ID token of the session after a response with t, or without one. *)
RefreshedOrPrevious(t, previous) == IF t # None THEN t ELSE previous

(* Roles come from the newest ID token where ID tokens are their source.  A *)
(* principal named by an ID token has none otherwise.                       *)
WithRoles(p, t) == IF settings.rolesInIdToken THEN [p EXCEPT !.groups = t.roles] ELSE p

(* A slip: the roles are those of the response. *)
SessionOfResponse(p, t, previous) ==
    LET idToken == RefreshedOrPrevious(t, previous)
        user == IF p # NoPrincipal THEN p ELSE [subject |-> t.sub, groups |-> {}]
    IN [principal |-> IF t = None THEN user ELSE WithRoles(user, t), idToken |-> idToken]

(* The session of a response with access token principal p, none if the     *)
(* token was turned down: then the ID token names the user.                 *)
SessionOf(p, t, previous) ==
    LET idToken == RefreshedOrPrevious(t, previous)
        user == IF p # NoPrincipal THEN p ELSE [subject |-> t.sub, groups |-> {}]
    IN [principal |-> WithRoles(user, idToken), idToken |-> idToken]

-----------------------------------------------------------------------------
(* The redirect to the provider.  The state cookie may be that of an        *)
(* earlier run of the server, which did or did not require a nonce.         *)
Authorize ==
    /\ pc \in {"out", "away"}
    /\ pc' = "away"
    /\ sent' \in {Nonce, None}
    /\ UNCHANGED <<settings, session, original, named>>

(* The callback, with the response to its code: the ID token is required,   *)
(* so there is always somebody to name.                                     *)
SignIn ==
    /\ pc = "away"
    /\ settings.nonceRequired => sent # None
    /\ \E t \in IdTokens, p \in Principals \cup {NoPrincipal} :
         /\ IdTokenOk(t) /\ NonceOk(t, sent)
         /\ session' = SessionOf(p, t, None)
         /\ original' = t
         /\ named' = p.subject
    /\ pc' = "in"
    /\ UNCHANGED <<settings, sent>>

(* The provider answered with an error, without an ID token, with a token   *)
(* type that is not Bearer, or with an ID token that is not valid; or the   *)
(* state cookie lacks the nonce.                                            *)
SignInFails ==
    /\ pc = "away"
    /\ pc' = "out"
    /\ UNCHANGED <<settings, sent, session, original, named>>

(* A refresh: its ID token, if there is one, is valid and continues the     *)
(* last; the access token is valid or there is an ID token to stand in.     *)
(* No nonce is expected.                                                    *)
Refresh(t, p) ==
    /\ pc = "in"
    /\ t # None => IdTokenOk(t) /\ Continues(t, session.idToken)
    /\ p # NoPrincipal \/ t # None
    /\ session' = SessionOf(p, t, session.idToken)
    /\ named' = p.subject
    /\ UNCHANGED <<settings, pc, sent, original>>

(* A slip: the browser is sent to the login with its cookie. *)
EndWithCookie(t, p) ==
    /\ pc = "in"
    /\ pc' = "out"
    /\ UNCHANGED <<settings, sent, session, original, named>>

(* Any other response, or none, ends the session; so does a logout. *)
End(t, p) ==
    /\ pc = "in"
    /\ \/ t = None /\ p = NoPrincipal
       \/ t # None /\ ~(IdTokenOk(t) /\ Continues(t, session.idToken))
    /\ pc' = "out" /\ session' = NoSession
    /\ original' = None /\ sent' = None /\ named' = None
    /\ UNCHANGED settings

SessionNext ==
    \/ Authorize \/ SignIn \/ SignInFails
    \/ \E t \in IdTokens \cup {None}, p \in Principals \cup {NoPrincipal} :
         Refresh(t, p) \/ End(t, p)

SessionSpec == SessionInit /\ [][SessionNext]_sessionVars

-----------------------------------------------------------------------------
(* However often a session is refreshed, its ID token is one of the user,   *)
(* the provider and the authentication of the sign-in, for no audience that *)
(* the sign-in did not name, with its nonce or none (web_app.rs:1106,       *)
(* 1137).  Its principal is that user too, unless the access token of the   *)
(* last response names another one: access tokens are compared with nothing *)
(* (web_app.rs:656), and one user's ID token can be beside another user's   *)
(* principal.  But such a change goes with the access token that made it,   *)
(* and with one that is turned down the user of the sign-in is back.        *)
IdTokenIsKept(t) ==
    /\ t.sub = original.sub /\ t.iss = original.iss
    /\ \A i \in DOMAIN t.aud : Contains(original.aud, t.aud[i])
    /\ original.authTime # None => t.authTime = original.authTime
    /\ t.nonce \in {None, original.nonce}
    /\ settings.nonceRequired => original.nonce = Nonce

IdentityIsKept ==
    pc = "in" =>
        /\ session.idToken # None /\ IdTokenIsKept(session.idToken)
        /\ session.principal.subject = IF named # None THEN named ELSE original.sub

(* Where ID tokens are the source of roles, the principal's roles are those *)
(* of the ID token beside it, also when a refresh brought only an access    *)
(* token or the access token was turned down (web_app.rs:675).              *)
RolesFollowIdToken ==
    pc = "in" /\ settings.rolesInIdToken => session.principal.groups = session.idToken.roles
=============================================================================
